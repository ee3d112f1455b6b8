SPECIFICATION Spec
CONSTANTS
  off = off
  on = on
  State <- MCState
  Horizon = 2
  Bundles <- MCBundles
  Claims <- MCClaims
  Prefixes <- MCPrefixes
  RecordBound = 0
  Widenings <- MCWidenings
INVARIANTS
  TypeOK
  SaidHolds
  ExactVerdict
  DecidedProofHolds
