\* MAX_CONCURRENCY_GLOBAL = 1, every user operation, backpressure.
SPECIFICATION LQSpec
CONSTANTS
    Jobs = {j1, j2}
    InModes <- MediumOnly
    Priorities <- SubmitPriorities
    MaxGlobal = 1
    MaxByMode <- NoModeCaps
    BpQMax = 0
    MaxHeap = 9
    MaxStray = 0
    NoRec = NoRec
    NoMode = NoMode
    Workers = {w1}
    OwnerOf <- OneUser
    MaxPerUser = 1
    TwoPassModes = {}
    Notify = FALSE
    UserOps <- AllOps
    QuotaMayReject = FALSE
    MaxOps = 3
    MaxCrashes = 0
    MaxFaults = 0
INVARIANTS QueuedIsTracked GlobalCapHolds
PROPERTIES CancelIsFinal RunsOnlyQueued
CHECK_DEADLOCK FALSE
