SPECIFICATION FairSpec
ACTION_CONSTRAINT Careful
CONSTANTS
  None = None
  Old = Old
  Candidates = {c1, c2}
  Deletable = {Old}
  Budgets <- CrashOrFailure
INVARIANTS ReplacementTypeOK CurrentResourceExists FailureRestoresOld
PROPERTIES NeverRolledBack ImplementsSwap RecoverySettles
\* Once a resource is accepted nothing is left to do.
CHECK_DEADLOCK FALSE
