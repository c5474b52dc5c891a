\* A runtime is replaced while a call is still running on it.
SPECIFICATION Spec
CONSTANTS
  None = None
  Tool = {"ping", "scan"}
  Inventory <- OneContract
  Namespace = {ns}
  Task = {t1, t2}
  Lock = {1}
  Runtime = {1, 2, 3}
  Policies <- ThreadOnly
  Op = {"register", "activate", "refresh", "call"}
  Fault = {}
  Seeded = {}
  RestoreAtBoot = FALSE
  StableIdentity = FALSE
INVARIANT ConnectedMeansMounted
