SPECIFICATION Spec
INVARIANTS TypeOK StatusFollowsMarks JudgedAsItReads ResultsHaveRequirements
PROPERTY WorkSurvivesUpdate
CONSTANTS
  File <- Versions
  Unread = Unread
  NoReport = NoReport
  NoClick = NoClick
  MaxActs = 5
CHECK_DEADLOCK FALSE
