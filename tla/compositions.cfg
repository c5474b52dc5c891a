\* One request that composes tools: any batch of up to three steps with any
\* references into what came before, or one of some nine hundred programs of
\* loops in loops, with budgets they can exceed.
SPECIFICATION HostFairSpec
CONSTANTS
  None = None
  StepId = {"s1", "s2", "s3"}
  Tool = {t}
  Batches <- BatchIds
  MaxChanges = 1
  Program <- Programs
  MAX_TOOL_CALLS = 3
  MAX_LOOP_ITERATIONS = 4
  MaxItems = 2
INVARIANTS
  WithinBudgets
  RunsAsWritten
  ProvenArguments
  HonestReply
PROPERTIES
  BothCompose
  EveryCompositionEnds
\* A request stops when it has returned.
CHECK_DEADLOCK FALSE
