SPECIFICATION Spec
CONSTANTS
  Loads <- MCTwiceLoads
  Codings = {"gzip", "br", "compress", "identity"}
  MinSize = 2
INVARIANT
  DecodedIsPlain
