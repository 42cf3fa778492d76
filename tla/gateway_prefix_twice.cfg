SPECIFICATION Spec
CONSTANTS
  Tables <- MCTables
  Paths <- MCPaths
  Nowhere = Nowhere
INVARIANT
  PrefixStrippedOnce
