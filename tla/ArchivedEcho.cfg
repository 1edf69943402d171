SPECIFICATION Spec
CONSTANTS
  Tab = {t1}
  Req = {}
  Change <- Archive
  Reload <- NoReload
  MetaEdits = FALSE
  MaxEdits = 2
  MaxFaults = 0
  MaxVersion = 6
  MaxQueue = 1
INVARIANT UnsyncedIsReal
CHECK_DEADLOCK FALSE
