SPECIFICATION FairSpec
CONSTANTS
  None = None
  Old = Old
  Candidates = {c1}
  Deletable = {Old}
  Budgets <- OneDecision
PROPERTIES ReplacementsEnd
\* Once a resource is accepted nothing is left to do.
CHECK_DEADLOCK FALSE
