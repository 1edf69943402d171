SPECIFICATION Spec
CONSTANTS
  Tab = {t1}
  Req = {k1, k2}
  Change <- None
  Reload <- NoReload
  MetaEdits = FALSE
  MaxEdits = 3
  MaxFaults = 0
  MaxVersion = 6
  MaxQueue = 1
INVARIANT SavedDespiteDropped
CHECK_DEADLOCK FALSE
