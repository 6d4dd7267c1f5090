\* The documented end of a request, "the response body is consumed".
CONSTANTS
  Requests = {r1}
  Loads <- MCPlainLoads
SPECIFICATION Spec
INVARIANT ConsumedIsComplete
