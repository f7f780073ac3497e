\* Two jobs, a cap of one on mode high, two global slots, three records, backpressure for the third,
\* two reports of completion without a dispatch.
SPECIFICATION SchedFairSpec
CONSTANTS
    Jobs = {j1, j2}
    InModes = {"high"}
    Priorities <- OnePriority
    MaxGlobal = 2
    MaxByMode <- OneHigh
    BpQMax = 1
    MaxHeap = 3
    MaxStray = 2
    NoRec = NoRec
    NoMode = NoMode
INVARIANTS SlotsExact ModeCap
PROPERTIES OtherModesProceed LeakOnlyByDuplicate ImplementsSlotPool
CHECK_DEADLOCK FALSE
