SPECIFICATION FeedsSpec
CONSTANTS
  Feeds = {f1}
  Mappings = {m1, m2}
  MaxItem = 2
  Untimed = {2}
  MaxEdits = 1
  EditsAlone = FALSE
INVARIANT NothingPassedOver
CHECK_DEADLOCK FALSE
