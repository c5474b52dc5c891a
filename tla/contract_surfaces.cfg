\* One toolset, two tool names, any listing of up to two tools.
SPECIFICATION Spec
SYMMETRY Names
CONSTANTS
  None = None
  Name = {n1, n2}
  Words = {w1, w2}
  MaxListed = 2
INVARIANTS
  PreviousNamed
  ReportStands
  HealthOfThisContract
