SPECIFICATION Spec
CONSTANTS
  Tab = {t1, t2}
  Req = {r1, r2}
  InfoBlock = {}
  NoReq = NoReq
  MaxCalls <- OneCall
  MaxEdits = 2
  MaxTurns = 1
PROPERTY SavedStays
CHECK_DEADLOCK FALSE
