\* Redis or the local queue, one slot, one run per user: an outage, an outage with two
\* jobs, an instance that dies or is stopped, two instances.
SPECIFICATION ABFairSpec
CONSTANTS
    j1 = j1  j2 = j2  p1 = p1  p2 = p2
    Procs = {p1, p2}
    Jobs = {j1, j2}
    NoJob = NoJob Free = Free Ghost = Ghost
    OwnerOf <- OneUser
    Rank <- ByName
    MaxAttempts = 2
    Forced = FALSE
    MaxGlobal = 1
    Setups <- Each
PROPERTIES QueuedProceeds
CHECK_DEADLOCK FALSE
