SPECIFICATION Spec
CONSTANTS
  Callers = {c1, c2}
  Keepers = {c1}
  Stacks <- MCStacks
  MaxPermits = 2
  MaxHops = 2
INVARIANTS
  OnlyReadyIsCalled
  PermitsServeRequests
PROPERTY CallsEnd
