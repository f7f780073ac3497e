\* One restart at any moment, two-pass jobs, notifications, nobody cancels.
SPECIFICATION LQFairSpec
CONSTANTS
    Jobs = {j1, j2}
    InModes <- MediumOnly
    Priorities <- SubmitPriorities
    MaxGlobal = 1
    MaxByMode <- NoModeCaps
    BpQMax <- NoBackpressure
    MaxHeap = 9
    MaxStray = 0
    NoRec = NoRec
    NoMode = NoMode
    Workers = {w1}
    OwnerOf <- OneUser
    MaxPerUser = 1
    TwoPassModes <- MediumOnly
    Notify = TRUE
    UserOps = {"pause", "resume", "rerun"}
    QuotaMayReject = FALSE
    MaxOps = 2
    MaxCrashes = 1
    MaxFaults = 0
INVARIANTS SlotsMatchWork RunningIsWorked
PROPERTIES FinalStays QueuedProceeds
CHECK_DEADLOCK FALSE
