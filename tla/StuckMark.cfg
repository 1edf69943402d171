SPECIFICATION FairSpec
CONSTANTS
  Tab = {t1}
  Req = {k1}
  Change <- None
  Reload <- NoReload
  MetaEdits = FALSE
  MaxEdits = 1
  MaxFaults = 1
  MaxVersion = 6
  MaxQueue = 1
PROPERTY MarkedIsSent
CHECK_DEADLOCK FALSE
