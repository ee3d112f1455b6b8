SPECIFICATION Spec
CONSTANTS
  None = None
  CertificateId = cert
  RootDigest = root
  ManifestDigest = manifest
  BareDigest = bare
  EventId <- MCEventId
  Requests <- MCRequests
  Policies <- MCPolicies
  Authorities <- MCAuthorities
  BareDigests <- MCBareDigests
  MaxLog = 2
INVARIANTS
  TypeOK
  WithdrawalStands
  MaintainedLog
  MaintainedIsProved
  NoSilentSkip
PROPERTIES
  MaintainedIsNeutral
CHECK_DEADLOCK FALSE
