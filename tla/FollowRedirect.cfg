\* Every kind of redirect chain with up to two hops.
CONSTANTS
  Uris <- MCUris
  NoUri = NoUri
  Methods = {"GET", "HEAD", "POST"}
  Statuses = {200, 301, 303, 307}
  HeaderSets <- MCHeaderSets
  Extensions = {"x"}
  Layers <- MCLayers
  MaxLimit = 2
SPECIFICATION Spec
INVARIANTS
  TypeOK
  WithinLimit
  FilteringIsCumulative
  CredentialsStayHome
  PayloadAgrees
  RequestUriIsEffective
  OutcomeExplained
PROPERTIES
  IsRedirectChain
  Resolves
