\* A registration is removed while other requests await its lock.
SPECIFICATION Spec
CONSTANTS
  None = None
  Tool = {"ping", "scan"}
  Inventory <- OneContract
  Namespace = {ns}
  Task = {t1, t2}
  Lock = {1, 2, 3}
  Runtime = {1, 2, 3}
  Policies <- ThreadOnly
  Op = {"register", "unregister", "activate"}
  Fault = {}
  Seeded = {}
  RestoreAtBoot = FALSE
  StableIdentity = FALSE
INVARIANT OneOpening
