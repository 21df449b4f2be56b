SPECIFICATION FairSpec
CONSTANTS
    Calls = {c1, c2}
    Keys = {k1}
    None = None
    NoCode = NoCode
    NoDelay = NoDelay
    Plans <- TestPlans
    Failures <- SomeFailures
INVARIANTS
    TypeOK
    OneEffect
    HooksTellTheStory
    WaitIsBounded
PROPERTIES
    KeepsContract
    CallsSettle
\* A call that has settled is over, and a request nobody serves stays where it is.
CHECK_DEADLOCK FALSE
