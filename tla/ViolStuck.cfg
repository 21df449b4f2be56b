SPECIFICATION Spec
CONSTANTS
    Socks = {s1, s2}
    Timers = {t1, t2}
    None = None
    Options <- Impatient
SYMMETRY Symmetry
INVARIANT IgnoredOnlyIfLive
CHECK_DEADLOCK FALSE
