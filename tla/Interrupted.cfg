SPECIFICATION Spec
CONSTANTS
  None = None
  Old = Old
  Candidates = {c1, c2}
  Deletable = {Old}
  Budgets <- CancelAndCrash
INVARIANTS CurrentResourceExists
\* Once a resource is accepted nothing is left to do.
CHECK_DEADLOCK FALSE
