\* The documented "Body::poll_frame returns an error" case of on_failure.
CONSTANTS
  Requests = {r1}
  Loads <- MCPlainLoads
SPECIFICATION Spec
INVARIANT BodyErrorsAreFailures
