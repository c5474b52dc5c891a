\* Calls, refreshes and health probes against a downstream server that may
\* report another contract whenever it is asked; the process may die between
\* the write of a record and that of its snapshot.
SPECIFICATION Spec
CONSTANTS
  None = None
  Tool = {"ping", "scan"}
  Inventory <- TwoContracts
  Namespace = {ns}
  Task = {t1, t2}
  Lock = {1}
  Runtime = {1, 2, 3}
  Policies <- ThreadOnly
  Op = {"register", "activate", "refresh", "deactivate", "call", "health"}
  Fault = {"crash"}
  Seeded = {}
  RestoreAtBoot = FALSE
  StableIdentity = FALSE
INVARIANTS
  MountedMatchesCached
  CallRouted
