SPECIFICATION Spec
CONSTANTS
  Tab = {t1, t2}
  Req = {k1}
  Change <- None
  Reload <- AllPoll
  MetaEdits = FALSE
  MaxEdits = 2
  MaxFaults = 0
  MaxVersion = 6
  MaxQueue = 1
PROPERTY ReloadKeepsWork
CHECK_DEADLOCK FALSE
