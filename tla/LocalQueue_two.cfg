\* Two workers and two slots, a cap on mode high, quota rejections, a worker that may die;
\* no backpressure, see UserCapKept in LocalQueueProofs.
SPECIFICATION LQSpec
CONSTANTS
    Jobs = {j1, j2}
    InModes <- HighLow
    Priorities <- SubmitPriorities
    MaxGlobal = 2
    MaxByMode <- OneHigh
    BpQMax <- NoBackpressure
    MaxHeap = 9
    MaxStray = 0
    NoRec = NoRec
    NoMode = NoMode
    Workers = {w1, w2}
    OwnerOf <- OneUser
    MaxPerUser = 1
    TwoPassModes = {}
    Notify = FALSE
    UserOps = {"cancel", "pause", "resume"}
    QuotaMayReject = TRUE
    MaxOps = 4
    MaxCrashes = 0
    MaxFaults = 1
INVARIANTS UserCapHolds
CHECK_DEADLOCK FALSE
