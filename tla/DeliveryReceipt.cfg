\* ack_on_receipt, sync handlers: an overflowing buffer; short, stale and full history pages
SPECIFICATION Spec
CONSTANTS
    Conv = {"a"}
    Total = 5
    ConvOf <- FiveConv
    SeqOf <- FiveSeqs
    Hidden = {3}
    Malformed = {}
    NullCursor = {}
    GapTasks = {"g1", "g2"}
    ObjIds = {"o1", "o2", "o3"}
    None = None
    AckOnReceipt = TRUE
    HasClient = TRUE
    AsyncHandlers = FALSE
    HandlersFail = FALSE
    AckModes = {TRUE}
    DedupCapacity = 3
    MaxBuffered = 2
    GapFillLimit = 1
    PageSize = 5
    MaxFrames = 2
    MaxConnects = 2
INVARIANTS
    NoAckedFrameLost
    NeverDead
    RecoveredIsComplete
\* Finite by the bounds: every frame pushed, every connection used.
CHECK_DEADLOCK FALSE
