SPECIFICATION SubsSpec
CONSTANTS
  Subs = {s1}
  Groups = {g0, g1}
  DefaultGroup = g0
  MaxTotal = 1
PROPERTIES ProgressHeals
CHECK_DEADLOCK FALSE
