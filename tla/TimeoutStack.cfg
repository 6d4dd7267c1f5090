\* All three timers; time is unbounded, the deadline spans several frames.
CONSTANTS
  CallTimeout = 2
  IdleTimeout = 2
  Deadline = 5
SPECIFICATION TimeoutSpec
INVARIANTS
  NeverEarly
PROPERTIES
  NeverLate
  WaitEnds
