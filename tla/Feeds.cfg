SPECIFICATION FeedsSpec
CONSTANTS
  Feeds = {f1}
  Mappings = {m1, m2}
  MaxItem = 3
  Untimed = {2}
  MaxEdits = 1
  EditsAlone = TRUE
INVARIANT NothingPassedOver
PROPERTIES ForwardOnly EveryItemJudged
CHECK_DEADLOCK FALSE
