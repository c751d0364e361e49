SPECIFICATION RenamingSpec
CONSTANTS
  Torrents = {"t1"}
  Foldered = {}
  Titles = {"A"}
  FirstTitle = "A"
  Jobs = {j1, j2}
  Faults = {}
  MaxDepth = 3
INVARIANTS TitleNotNested
CHECK_DEADLOCK FALSE
