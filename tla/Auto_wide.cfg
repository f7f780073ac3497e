\* One slot, one run per user: an outage with every user operation, a death and an
\* outage, two instances of which one dies, two in an outage.
SPECIFICATION ABSpec
CONSTANTS
    j1 = j1  j2 = j2  p1 = p1  p2 = p2
    Procs = {p1, p2}
    Jobs = {j1, j2}
    NoJob = NoJob Free = Free Ghost = Ghost
    OwnerOf <- OneUser
    Rank <- ByName
    MaxAttempts = 2
    Forced = FALSE
    MaxGlobal = 1
    Setups <- Wide
INVARIANTS QueuedIsKept
CHECK_DEADLOCK FALSE
