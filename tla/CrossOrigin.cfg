\* Every client against every setting; a second fetch may meet the cache.
CONSTANTS
  Uri <- MCUri
  Self = "self"
  Layers <- MCLayers
  Protections <- MCProtections
  Handlers <- MCHandlers
  Fetches <- MCFetches
  MaxFetches = 2
SPECIFICATION Spec
INVARIANTS
  AccessIsExact
  HandlerIsProtected
  NeverRepolled
PROPERTY FetchEnds
