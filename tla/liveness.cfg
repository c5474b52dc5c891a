\* Progress when no downstream server need ever answer, and clients cancel
\* deactivations and health checks, which hold the lock while they wait.
SPECIFICATION CancellableFairSpec
CONSTANTS
  None = None
  Tool = {"ping"}
  Inventory <- OneContract
  Namespace = {ns}
  Task = {t1, t2}
  Lock = {1}
  Runtime = {1, 2, 3}
  Policies <- ThreadOnly
  Op = {"register", "activate", "deactivate", "call", "health"}
  Cancellable = {"deactivate", "health"}
  MaxInFlight = 1
  Fault = {}
  Seeded = {}
  RestoreAtBoot = FALSE
  StableIdentity = FALSE
PROPERTIES
  EveryRequestEnds
  ClosedRuntimesEnd
