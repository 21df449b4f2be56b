SPECIFICATION Spec
CONSTANTS
    Socks = {s1, s2}
    Timers = {t1, t2}
    None = None
    Options <- Several
SYMMETRY Symmetry
INVARIANTS
    TypeOK
    AliveUntilStopped
    NoStraySocket
    StateIsHonest
    NeverStuck
PROPERTY VerdictIsSound
CHECK_DEADLOCK FALSE
