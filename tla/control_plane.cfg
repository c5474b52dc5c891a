\* Every control-plane request, two at a time, and a process that may die
\* anywhere, between two writes too; no tool call is under way and no
\* registration is removed.
SPECIFICATION Spec
SYMMETRY Requests
CONSTANTS
  None = None
  Tool = {"ping", "scan"}
  Inventory <- TwoContracts
  Namespace = {ns}
  Task = {t1, t2}
  Lock = {1, 2}
  Runtime = {1, 2, 3}
  Policies <- Assorted
  Op = {"register", "activate", "refresh", "deactivate", "restore", "health", "clear_stale", "mark_stale"}
  Fault = {"restart", "crash"}
  Seeded = {}
  RestoreAtBoot = TRUE
  StableIdentity = FALSE
INVARIANTS
  StoreLoadable
  MutualExclusion
  ConnectedMeansMounted
  MountedIsNamed
PROPERTIES
  HashesNameSnapshots
  BootWidensNothing
  RestartKeepsRestorable
  ScopesAsPromised
