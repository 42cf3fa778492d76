SPECIFICATION Spec
CONSTANTS
  Configs <- MCConfigs
  Scopes <- MCScopes
  Runtime <- MCRuntime
  None = None
INVARIANTS
  TypeOK
  ScopesWithinGrant
  RenewalSaysTheSame
  HighestRankWins
