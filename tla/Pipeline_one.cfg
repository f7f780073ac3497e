\* One two-pass job, two requests, one fault, one restart.
SPECIFICATION PipeFairSpec
CONSTANTS
    Jobs = {j1}
    d1 = d1
    DirOf <- SameDir
    TwoPassJobs = {j1}
    None = None
    MaxOps = 2
    MaxFaults = 1
    MaxCrashes = 1
INVARIANTS OutputIsCurrent VideoIsWhole PassTwoRuns
PROPERTIES SkippedKeepsVideo JobEnds
CHECK_DEADLOCK FALSE
