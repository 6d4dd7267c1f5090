SPECIFICATION Spec
CONSTANTS
  Loads <- MCLoads
  Codings = {"gzip", "br", "compress", "identity"}
  MinSize = 2
INVARIANTS
  ChoiceIsBest
  HeadersTellTheTruth
  BothSidesCanRead
