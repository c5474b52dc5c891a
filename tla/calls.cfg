\* Three requests at a time, of which any may be tool calls, and downstream
\* servers that fail, hang and die.
SPECIFICATION Spec
CONSTANTS
  None = None
  Tool = {"ping", "scan"}
  Inventory <- OneContract
  Namespace = {ns}
  Task = {t1, t2, t3}
  Lock = {1}
  Runtime = {1, 2, 3, 4}
  Policies <- ThreadOnly
  Op = {"register", "activate", "deactivate", "call"}
  Fault = {"death"}
  Seeded = {}
  RestoreAtBoot = FALSE
  StableIdentity = FALSE
INVARIANTS
  TypeOK
  InFlightExact
  MountedMeansLoaded
  SafeUnload
