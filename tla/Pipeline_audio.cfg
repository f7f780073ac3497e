\* A restart cuts off the extraction of the audio.
SPECIFICATION PipeSpec
CONSTANTS
    Jobs = {j1}
    d1 = d1
    DirOf <- SameDir
    TwoPassJobs = {}
    None = None
    MaxOps = 0
    MaxFaults = 0
    MaxCrashes = 1
INVARIANTS AudioIsWhole
CHECK_DEADLOCK FALSE
