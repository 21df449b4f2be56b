\* The flush of a closing socket meets a gap being resolved
SPECIFICATION Spec
CONSTANTS
    Conv = {"a"}
    Total = 4
    ConvOf <- LongConv
    SeqOf <- LongSeqs
    Hidden = {}
    Malformed = {}
    NullCursor = {}
    GapTasks = {"g1", "g2"}
    ObjIds = {"o1", "o2", "o3"}
    None = None
    AckOnReceipt = TRUE
    HasClient = FALSE
    AsyncHandlers = TRUE
    HandlersFail = FALSE
    AckModes = {TRUE}
    DedupCapacity = 4
    MaxBuffered = 3
    GapFillLimit = 2
    PageSize = 2
    MaxFrames = 3
    MaxConnects = 2
INVARIANTS
    NeverDead
\* Finite by the bounds: every frame pushed, every connection used.
CHECK_DEADLOCK FALSE
