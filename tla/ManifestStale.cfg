SPECIFICATION Spec
CONSTANTS
  None = None
  a = a
  b = b
  c = c
  Ids <- MCIds
  Touched = {b}
  Schemaless = {}
  Contents = {old, new}
  Null = null
  Manifests <- MCManifests
  Dependencies <- MCDependencies
INVARIANT StaleIsRefused
