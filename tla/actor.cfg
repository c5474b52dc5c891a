\* One runtime, two calls and two closes: the host cancels requests, streams
\* fail, the server hangs, exits or ignores its signals.
SPECIFICATION FairSpec
CONSTANTS
  None = None
  Opener = opener
  Caller = {c1, c2}
  Closer = {k1, k2}
  Fault = {"cancel", "transport", "exit"}
INVARIANTS
  StoppedWhenTimedOut
PROPERTIES
  UndisturbedReaps
  ServedAsPromised
  EveryWaiterReturns
\* Every request is made once: the system stops when all have returned.
CHECK_DEADLOCK FALSE
