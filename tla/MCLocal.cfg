SPECIFICATION LocalSpec
CONSTANTS
    NoCode = NoCode
    NoDelay = NoDelay
    None = None
    Missing = Missing
    Garbled = Garbled
    Infinite = Infinite
    Keys = {k1, k2, k3, k4}
    Capacity = 2
    MaxUses = 6
    MaxItems = 3
    MaxParts = 3
    Items = {i1, i2, i3, i4}
    PageSize = 3
    ServerMax = 2
    Starts = {0, 1}
    Caps = {0, 3, 99}
    MaxChanges = 2
    Interval = 2
    MaxInterval = 6
    LongInterval = 10
    LongAfter = 3
    Stable = 1
    Rapid = 2
    WarnAt = 2
    RetryMs = 5
    MaxAttempts = 6
    MaxFlaps = 6
INVARIANTS
    KeepsMostRecent
    StatusDecides
    FirstUsableItemCounts
    VerifiesTheSigned
    TypeOK
    NothingSkipped
    NothingRepeated
    YoungDeathsSlowDown
    OperatorIsToldOnce
PROPERTIES
    Ends
\* A walk that is done, a question that is answered
CHECK_DEADLOCK FALSE
