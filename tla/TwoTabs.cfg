SPECIFICATION Spec
CONSTANTS
  Tab = {t1, t2}
  Req = {k1}
  Change <- None
  Reload <- OneReloads
  MetaEdits = FALSE
  MaxEdits = 2
  MaxFaults = 0
  MaxVersion = 3
  MaxQueue = 1
INVARIANTS NeverAhead WorkHasACarrier
CHECK_DEADLOCK FALSE
