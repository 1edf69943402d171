SPECIFICATION Spec
CONSTANTS
  Tab = {t1}
  Req = {r1, r2}
  InfoBlock = {}
  NoReq = NoReq
  MaxCalls <- OneCall
  MaxEdits = 2
  MaxTurns = 0
PROPERTY EditSurvives
CHECK_DEADLOCK FALSE
