\* The drain over several pages under fair scheduling: two conversations, a hole, a null cursor, a malformed row
SPECIFICATION FairSpec
CONSTANTS
    Conv = {"a", "b"}
    Total = 4
    ConvOf <- HoleConvs
    SeqOf <- HolesSeqs
    Hidden = {}
    Malformed = {4}
    NullCursor = {2, 3}
    GapTasks = {"g1", "g2"}
    ObjIds = {"o1", "o2", "o3"}
    None = None
    AckOnReceipt = FALSE
    HasClient = TRUE
    AsyncHandlers = FALSE
    HandlersFail = TRUE
    AckModes = {TRUE}
    DedupCapacity = 2
    MaxBuffered = 2
    GapFillLimit = 2
    PageSize = 2
    MaxFrames = 1
    MaxConnects = 1
INVARIANTS
    ConfirmInv
PROPERTIES
    DrainEnded
    ParkedIsReleased
\* Finite by the bounds: every frame pushed, every connection used.
CHECK_DEADLOCK FALSE
