SPECIFICATION FairSpec
CONSTANTS
  Tab = {t1, t2}
  Req = {r1, r2}
  InfoBlock = {r2}
  NoReq = NoReq
  MaxCalls <- Uneven
  MaxEdits = 1
  MaxTurns = 1
INVARIANTS TypeOK SameVersionSameContent WorkHasACarrier
PROPERTY TabsConverge
CHECK_DEADLOCK FALSE
