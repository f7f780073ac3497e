\* Two instances: a cap, a death, pauses, locks or counters that run out; one that dies
\* under the cap.
SPECIFICATION RQSpec
CONSTANTS
    j1 = j1  j2 = j2  p1 = p1  p2 = p2
    Procs = {p1, p2}
    Jobs = {j1, j2}
    NoJob = NoJob Free = Free Ghost = Ghost
    OwnerOf <- OneUser
    Rank <- ByName
    MaxAttempts = 2
    Setups <- Each
INVARIANTS OneRunner CountedIsRun
PROPERTIES DoneStaysDone ImplementsExclusiveRuns
CHECK_DEADLOCK FALSE
