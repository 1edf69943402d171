CONSTANTS
    Tab = {t1, t2}
    User = {u1, u2}
    NoTab = NoTab
    ChecksFocus = TRUE
    Bound <- Least
SPECIFICATION Spec
INVARIANT OneEditor
CHECK_DEADLOCK FALSE
