SPECIFICATION Spec
INVARIANT JudgedOnAllTexts
CONSTANTS
  File <- Rewritten
  Unread = Unread
  NoReport = NoReport
  NoClick = NoClick
  MaxActs = 3
CHECK_DEADLOCK FALSE
