SPECIFICATION Spec
CONSTANTS
  Tables <- MCTables
  Paths <- MCPaths
  Nowhere = Nowhere
INVARIANTS
  TypeOK
  DeepestRouteWins
  RestIsForwarded
