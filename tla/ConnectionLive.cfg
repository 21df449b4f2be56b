SPECIFICATION FairSpec
CONSTANTS
    Socks = {s1, s2}
    Timers = {t1, t2}
    None = None
    Options <- Alone
PROPERTIES
    KeepsTrying
    HandshakeIsBounded
    DisconnectReturns
CHECK_DEADLOCK FALSE
