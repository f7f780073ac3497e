\* Uploads and submissions of one user, under ten settings.
SPECIFICATION InFairSpec
CONSTANTS
    u1 = u1  s1 = s1  s2 = s2  v1 = v1  v2 = v2
    Uploads = {u1}
    Clients = {c1, c2}
    Subs = {s1, s2}
    N = 2
    Versions = {v1, v2}
    Sums = {Hole, v1}
    Hole = Hole NoRow = NoRow NoFile = NoFile Free = Free
    Keys = {k1}
    NoKey = NoKey NoJob = NoJob Idle = Idle
    Limit = 2
    Items = 2
    Setups <- Each
INVARIANTS FinalIsAnnounced PartIsReceived FinalIsWhole PendingIsHeld DailyCapHolds OneJobPerKey JobsHaveTheirVideo
PROPERTIES IntakeRespectsCap UploadEnds
CHECK_DEADLOCK FALSE
