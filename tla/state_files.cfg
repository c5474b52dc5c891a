\* Crashes between any two accesses to a file, on new, old and edited files.
SPECIFICATION Spec
CONSTANTS
  None = None
  Torn = Torn
  Namespace = {fake, ns}
  Seeded = {fake}
  Contract = {h1, h2}
  RetentionLimit = 2
  MaxEvents = 4
  MaxCrashes = 2
INVARIANTS
  TypeOK
  SealedHasKey
  NothingPlain
  SnapshotsOwned
  HaltsOnTornKeyOnly
PROPERTIES
  EventsFollowEffects
  AuditAsPromised
\* The bounds end every history.
CHECK_DEADLOCK FALSE
