SPECIFICATION FairSpec
CONSTANTS
  Tab = {t1}
  Req = {k1, k2}
  Change <- LockAgain
  Reload <- NoReload
  MetaEdits = TRUE
  MaxEdits = 3
  MaxFaults = 1
  MaxVersion = 12
  MaxQueue = 1
INVARIANTS TypeOK NeverAhead WorkHasACarrier SavedUnlessAtRisk
PROPERTY EventuallySaved
CHECK_DEADLOCK FALSE
