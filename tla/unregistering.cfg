\* Registrations are removed while other requests hold or await their lock,
\* clients cancel any of them, and the process may die between two deletes.
SPECIFICATION CancellableSpec
CONSTANTS
  None = None
  Tool = {"ping"}
  Inventory <- OneContract
  Namespace = {ns}
  Task = {t1, t2}
  Lock = {1, 2, 3}
  Runtime = {1, 2, 3}
  Policies <- ThreadOnly
  Op = {"register", "unregister", "activate", "call"}
  Cancellable = {"unregister", "activate", "call"}
  MaxInFlight = 1
  Fault = {"crash"}
  Seeded = {}
  RestoreAtBoot = FALSE
  StableIdentity = FALSE
INVARIANTS
  SafeUnload
  RuntimesOwned
  NothingHeld
  NeverUndercounted
