CONSTANTS
    Tab = {t1}
    User = {u1}
    NoTab = NoTab
    ChecksFocus = FALSE
    Bound <- Least
SPECIFICATION FairSpec
PROPERTIES LocksAreFreed
CHECK_DEADLOCK FALSE
