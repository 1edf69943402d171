SPECIFICATION Spec
CONSTANTS
  Tab = {t1}
  Req = {k1}
  Change <- None
  Reload <- NoReload
  MetaEdits = FALSE
  MaxEdits = 2
  MaxFaults = 0
  MaxVersion = 6
  MaxQueue = 1
INVARIANT SavedDespiteWindow
CHECK_DEADLOCK FALSE
