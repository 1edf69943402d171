SPECIFICATION Spec
CONSTANTS
  Tab = {t1, t2}
  Req = {k1, k2}
  Change <- None
  Reload <- NoReload
  MetaEdits = FALSE
  MaxEdits = 2
  MaxFaults = 0
  MaxVersion = 6
  MaxQueue = 1
INVARIANT SameVersionSameContent
CHECK_DEADLOCK FALSE
