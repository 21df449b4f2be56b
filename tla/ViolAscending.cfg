\* An in-order delivery forgets the anchor
SPECIFICATION Spec
CONSTANTS
    Conv = {"a"}
    Total = 3
    ConvOf <- OneConv
    SeqOf <- OneSeqs
    Hidden = {}
    Malformed = {}
    NullCursor = {}
    GapTasks = {"g1", "g2"}
    ObjIds = {"o1", "o2", "o3"}
    None = None
    AckOnReceipt = FALSE
    HasClient = FALSE
    AsyncHandlers = FALSE
    HandlersFail = FALSE
    AckModes = {TRUE}
    DedupCapacity = 3
    MaxBuffered = 2
    GapFillLimit = 2
    PageSize = 2
    MaxFrames = 3
    MaxConnects = 2
PROPERTIES
    Ascending
\* Finite by the bounds: every frame pushed, every connection used.
CHECK_DEADLOCK FALSE
