\* One call of ServeDir while somebody else changes the files.
CONSTANTS
  Paths <- MCPaths
  Trees <- MCTrees
  FirstRev = 7
  Lengths = {1, 4}
  Configs <- MCConfigs
  Requests <- MCRequests
  ChunkSize = 2
  MaxChanges = 1
SPECIFICATION Spec
INVARIANTS
  BestIsFound
  LengthIsTrue
  ConditionsAreKept
PROPERTY Answered
