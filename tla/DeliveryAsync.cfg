\* Default mode without a REST client, async handlers, overflow: every interleaving at an await
SPECIFICATION Spec
CONSTANTS
    Conv = {"a"}
    Total = 4
    ConvOf <- LongConv
    SeqOf <- LongSeqs
    Hidden = {}
    Malformed = {}
    NullCursor = {}
    GapTasks = {"g1", "g2"}
    ObjIds = {"o1", "o2", "o3"}
    None = None
    AckOnReceipt = FALSE
    HasClient = FALSE
    AsyncHandlers = TRUE
    HandlersFail = TRUE
    AckModes = {TRUE}
    DedupCapacity = 2
    MaxBuffered = 1
    GapFillLimit = 2
    PageSize = 2
    MaxFrames = 3
    MaxConnects = 2
INVARIANTS
    AckedWasDispatched
\* Finite by the bounds: every frame pushed, every connection used.
CHECK_DEADLOCK FALSE
