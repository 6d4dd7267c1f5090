\* Every classifier, response and frame sequence of one request, and three
\* requests that share the counter with the emitter.
CONSTANTS
  Requests = {r1, r2, r3}
  Loads <- MCLoads
SPECIFICATION Spec
INVARIANTS
  CallbacksAreExact
  EndIsReported
  
  EmitterStopsLast
PROPERTY EmitterStops
