SPECIFICATION Spec
CONSTANTS
  None = None
  Unbounded = Unbounded
  MaxTime = 2
  c1 = c1
  c2 = c2
  c3 = c3
  a = a
  b = b
  other = other
  Contracts <- MCContracts
  Terms <- MCTerms
  Bundles <- MCBundles
INVARIANTS TypeOK ReplayedAsIssued JudgedWasLicensed
