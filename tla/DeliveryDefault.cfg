\* Default mode, sync handlers that may raise, two connections
SPECIFICATION Spec
CONSTANTS
    Conv = {"a"}
    Total = 3
    ConvOf <- OneConv
    SeqOf <- OneSeqs
    Hidden = {}
    Malformed = {}
    NullCursor = {}
    GapTasks = {"g1", "g2"}
    ObjIds = {"o1", "o2", "o3"}
    None = None
    AckOnReceipt = FALSE
    HasClient = TRUE
    AsyncHandlers = FALSE
    HandlersFail = TRUE
    AckModes = {TRUE}
    DedupCapacity = 3
    MaxBuffered = 2
    GapFillLimit = 2
    PageSize = 2
    MaxFrames = 3
    MaxConnects = 2
INVARIANTS
    TypeOK
    NoRepeat
    ParkedHasTimer
PROPERTIES
    KeepsPromise
\* Finite by the bounds: every frame pushed, every connection used.
CHECK_DEADLOCK FALSE
