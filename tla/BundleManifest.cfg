SPECIFICATION MCSpec
CONSTANTS
  None = None
  a = a
  b = b
  c = c
  Ids <- MCIds
  Touched = {b, c}
  Schemaless = {c}
  Contents = {old, new, null}
  Null = null
  Manifests <- MCManifests
  Dependencies <- MCDependencies
INVARIANTS TypeOK EachOnce PassIsAcyclic RefusedIsACycle PassIsAsSealed
