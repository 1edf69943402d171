SPECIFICATION Spec
CONSTANTS
  Tab = {t1, t2}
  Req = {k1}
  Change <- Lock
  Reload <- NoReload
  MetaEdits = TRUE
  MaxEdits = 3
  MaxFaults = 0
  MaxVersion = 6
  MaxQueue = 1
PROPERTY StatusNeverFallsBack
CHECK_DEADLOCK FALSE
