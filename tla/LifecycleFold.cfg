SPECIFICATION Spec
CONSTANTS
  None = None
  CertificateId = cert
  RootDigest = root
  ManifestDigest = manifest
  EventId <- MCEventId
  Events <- MCEvents
  Orders <- MCOrders
  MaxLog = 3
INVARIANTS
  TypeOK
  ActiveIffUnblocked
  NothingLost
PROPERTIES
  Ratchet
  ImplementsMeaning
