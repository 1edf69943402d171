CONSTANTS
    Tab = {t1, t2}
    User = {u1, u2}
    NoTab = NoTab
    ChecksFocus = TRUE
    Bound <- Few
SPECIFICATION FairSpec
INVARIANTS TypeOK ActiveIsProlonged
PROPERTIES NobodyElseEndsALease ImplementsLease LossIsNoticed LocksAreFreed
CHECK_DEADLOCK FALSE
