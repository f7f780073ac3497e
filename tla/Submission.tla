------------------------------ MODULE Submission ------------------------------
(***************************************************************************)
(* POST /api/jobs and POST /api/jobs/batch up to the queue, next to the    *)
(* uploads of the same user: the idempotency key, the storage reservation, *)
(* the daily quota in Redis or, when Redis does not answer, in the process *)
(* (security/quotas.py), the policy, the job's row, and what is given back *)
(* on each way out.                                                        *)
(*                                                                         *)
(* A step lies between two awaits that may suspend: the body, the quota    *)
(* overrides and user counts, the daily counter, the queue.  Rate limits,  *)
(* disk space and validation of fields are refusals before anything is     *)
(* reserved, and left out.  All files have the size of an upload.  The     *)
(* queue itself is module LocalQueue or RedisQueue: here it takes a job or *)
(* raises.                                                                 *)
(***************************************************************************)
EXTENDS Uploads, FiniteSetsExt

CONSTANTS
    Keys, NoKey,  \* idempotency keys
    NoJob, Idle,
    Limit,        \* JOBS_PER_DAY_PER_USER
    Items         \* items of a batch

ASSUME SubmissionAssumption == NoKey \notin Keys /\ Limit \in Nat /\ Items \in Nat \ {0}

VARIABLES
    subs,      \* the submissions under way
    jobs,      \* the rows of the job store
    keyOf,     \* the idempotency table
    local,     \* _LOCAL_DAILY_RESERVATIONS
    remote,    \* the daily counters in Redis
    redisUp, day, draining,
    leaked,    \* history: bytes whose reservation nobody holds any more
    unpaid,    \* history: jobs stored whose daily reservation was given back
    crossed,   \* history: a reservation of one day met another day
    mixed,     \* history: a job was counted in the process while Redis comes and goes
    raced,     \* history: keys looked up by a request while another with the same
               \* key had not stored its job, or whose job was stored before a crash
    sends

dailyVars == <<local, remote, unpaid, crossed, mixed>>
othersVars == <<row, charged, fileVars, calls, doomed, history, setup, crashes>>
subVars == <<subs, jobs, keyOf, dailyVars, redisUp, day, draining, leaked, raced, sends>>
inVars == <<upVars, subVars>>

Days == 0 .. 2
Sources == {"upload", "direct", "path", "batch"}

\* A submission under way: what it asks for, where it stands, what it has reserved.
Steps == {"body", "room", "reserve", "busy", "daily", "policy", "queue", "undo"}
Submissions ==
    [pc : Steps, src : Sources, u : Uploads \cup {Free}, key : Keys \cup {NoKey},
     size : {0, N}, held : Nat, where : {"none", "local", "remote"}, day : Days,
     stored : 0 .. Items, made : 0 .. Items]

ASSUME SubmissionsAssumption ==
    /\ IsFiniteSet(Subs)
    /\ Idle \notin Submissions /\ NoJob \notin Nat
    /\ \A x \in Setups : x.days \in Days

SubInit ==
    /\ UpInit
    /\ subs = [s \in Subs |-> Idle] /\ jobs = {} /\ keyOf = [k \in Keys |-> NoJob]
    /\ local = [d \in Days |-> 0] /\ remote = [d \in Days |-> 0]
    /\ redisUp = (setup.redis # "down") /\ day = 0 /\ draining = FALSE
    /\ leaked = 0 /\ unpaid = 0 /\ crossed = FALSE /\ mixed = FALSE /\ raced = {} /\ sends = 0

At(s, pc) == subs[s] # Idle /\ subs[s].pc = pc
Go(s, pc) == subs' = [subs EXCEPT ![s].pc = pc]
Leave(s) == subs' = [subs EXCEPT ![s] = Idle]   \* the answer, or the error
Batch(s) == subs[s].src = "batch"

JobsOn(d) == {j \in jobs : j.day = d}
Less(x, n) == IF x > n THEN x - n ELSE 0

\* StorageReservation.release, of all the submission holds.
ReleaseStorage(s) == pending' = Less(pending, subs[s].held)
\* The reservations are forgotten: an exception no handler releases them for.
ForgetStorage(s) == leaked' = leaked + subs[s].held

-----------------------------------------------------------------------------
\* The key is looked up first, then draining is tested, then the body awaited.
\* A batch has no key and does not test.

Unstored(k) == \E s \in Subs : /\ subs[s] # Idle /\ subs[s].key = k
                               /\ subs[s].pc # "queue"

Request(src, u, key) ==
    [pc |-> "body", src |-> src, u |-> u, key |-> key, size |-> 0, held |-> 0,
     where |-> "none", day |-> 0, stored |-> 0, made |-> 0]

Arrive(s, src, u, key) ==
    /\ subs[s] = Idle /\ s \in setup.subs /\ sends < setup.sends
    /\ sends' = sends + 1
    /\ src = "batch" => key = NoKey
    /\ LET known == key # NoKey /\ keyOf[key] # NoJob
           refused == draining /\ src # "batch"
       IN /\ subs' = IF known \/ refused THEN subs
                     ELSE [subs EXCEPT ![s] = Request(src, u, key)]
          /\ raced' = IF key # NoKey /\ ~known /\ Unstored(key) THEN raced \cup {key} ELSE raced
    /\ UNCHANGED <<upVars, jobs, keyOf, dailyVars, redisUp, day, draining, leaked>>

\* Mutant: the upload need not be completed.
BodyAny(s) ==
    /\ At(s, "body")
    /\ subs' = [subs EXCEPT ![s].pc = CASE subs[s].src = "upload" -> "reserve"
                                        [] Batch(s) -> "daily"
                                        [] OTHER -> "room",
                            ![s].size = N]
    /\ UNCHANGED <<upVars, jobs, keyOf, dailyVars, redisUp, day, draining, leaked, raced, sends>>

\* A finished upload is named, a file of the server is named, or the file comes
\* with the form.  A batch reserves its day first.
Body(s) ==
    /\ At(s, "body")
    /\ CASE subs[s].src = "upload" ->
              LET u == subs[s].u
              IN subs' = IF ~Done(u) THEN [subs EXCEPT ![s] = Idle]
                         ELSE [subs EXCEPT ![s].pc = "reserve",
                                           ![s].size = IF final[u] = NoFile THEN 0 ELSE N]
         [] subs[s].src \in {"direct", "path"} ->
              subs' = [subs EXCEPT ![s].pc = "room", ![s].size = N]
         [] Batch(s) -> subs' = [subs EXCEPT ![s].pc = "daily", ![s].size = N]
    /\ UNCHANGED <<upVars, jobs, keyOf, dailyVars, redisUp, day, draining, leaked, raced, sends>>

\* require_quota_for_upload; record_direct_upload charges the file at once.
HasRoom(s) ==
    /\ At(s, "room") /\ Room(N)
    /\ used' = IF subs[s].src = "direct" THEN used + N ELSE used
    /\ Go(s, "reserve")
    /\ UNCHANGED <<othersVars, pending, jobs, keyOf, dailyVars, redisUp, day, draining,
                   leaked, raced, sends>>

\* No room.  A single submission holds nothing yet, a batch gives back.
Full(s) ==
    /\ \/ At(s, "room") /\ ~Room(N)
       \/ At(s, "reserve") /\ subs[s].size > 0 /\ ~Room(subs[s].size)
    /\ IF Batch(s) THEN Go(s, "undo") ELSE Leave(s)
    /\ UNCHANGED <<upVars, jobs, keyOf, dailyVars, redisUp, day, draining, leaked, raced, sends>>

\* reserve_storage_bytes: the check and the addition, with no await between.
Fits(s) == At(s, "reserve") /\ (subs[s].size > 0 => Room(subs[s].size))
Hold(s, pc) ==
    /\ pending' = pending + subs[s].size
    /\ subs' = [subs EXCEPT ![s].pc = pc, ![s].held = @ + subs[s].size]

Reserve(s) ==
    /\ Fits(s) /\ ~Batch(s)
    /\ Hold(s, "busy")
    /\ UNCHANGED <<othersVars, used, jobs, keyOf, dailyVars, redisUp, day, draining,
                   leaked, raced, sends>>

\* The extension check of a named file comes after the reservation.
BadExtension(s) ==
    /\ Fits(s) /\ subs[s].src = "path"
    /\ pending' = pending + subs[s].size
    /\ leaked' = leaked + subs[s].size
    /\ Leave(s)
    /\ UNCHANGED <<othersVars, used, jobs, keyOf, dailyVars, redisUp, day, draining, raced, sends>>

\* require_concurrent_jobs: the user's running jobs, from the queue.
NotBusy(s) ==
    /\ At(s, "busy") /\ Go(s, "daily")
    /\ UNCHANGED <<upVars, jobs, keyOf, dailyVars, redisUp, day, draining, leaked, raced, sends>>

\* Mutant: nothing is given back.
BusyKeeps(s) ==
    /\ At(s, "busy")
    /\ Leave(s)
    /\ UNCHANGED <<upVars, jobs, keyOf, dailyVars, redisUp, day, draining, leaked, raced, sends>>
Busy(s) ==
    /\ At(s, "busy")
    /\ ReleaseStorage(s) /\ Leave(s)
    /\ UNCHANGED <<othersVars, used, jobs, keyOf, dailyVars, redisUp, day, draining,
                   leaked, raced, sends>>

-----------------------------------------------------------------------------
\* reserve_daily_jobs: a script in Redis; when that fails, the rows of the day and
\* the reservations of this process, which a stored job keeps.

Count(s) == IF Batch(s) THEN Items ELSE 1
\* Mutant: the reservations of this process are not counted.
TodayStored == IF redisUp THEN remote[day] ELSE Cardinality(JobsOn(day))
Today == IF redisUp THEN remote[day] ELSE Cardinality(JobsOn(day)) + local[day]

Daily(s) ==
    /\ At(s, "daily") /\ Today + Count(s) <= Limit
    /\ remote' = IF redisUp THEN [remote EXCEPT ![day] = @ + Count(s)] ELSE remote
    /\ local' = IF redisUp THEN local ELSE [local EXCEPT ![day] = @ + Count(s)]
    /\ mixed' = (mixed \/ (setup.redis = "either" /\ ~redisUp))
    /\ subs' = [subs EXCEPT ![s].pc = "policy", ![s].day = day,
                            ![s].where = IF redisUp THEN "remote" ELSE "local"]
    /\ UNCHANGED <<upVars, jobs, keyOf, unpaid, crossed, redisUp, day, draining,
                   leaked, raced, sends>>

DailyFull(s) ==
    /\ At(s, "daily") /\ Today + Count(s) > Limit
    /\ ReleaseStorage(s) /\ Leave(s)
    /\ UNCHANGED <<othersVars, used, jobs, keyOf, dailyVars, redisUp, day, draining,
                   leaked, raced, sends>>

\* The policy, or ffprobe, refuses.
Refused(s) ==
    /\ At(s, "policy")
    /\ Go(s, "undo")
    /\ UNCHANGED <<upVars, jobs, keyOf, dailyVars, redisUp, day, draining, leaked, raced, sends>>

\* The minutes of the day are used up (QuotaExceededError is no HTTPException),
\* sharing is not allowed, the metadata of a batch is bad: nothing is given back.
Escapes(s) ==
    /\ At(s, "policy")
    /\ ForgetStorage(s) /\ Leave(s)
    /\ UNCHANGED <<upVars, jobs, keyOf, dailyVars, redisUp, day, draining, raced, sends>>

\* store.put, then put_idempotency.
Put(s) ==
    /\ jobs' = jobs \cup {[id |-> Cardinality(jobs) + 1, day |-> day, key |-> subs[s].key,
                           src |-> subs[s].src, u |-> subs[s].u]}
    /\ crossed' = (crossed \/ subs[s].day # day)
PutKey(s) ==
    keyOf' = IF subs[s].key = NoKey THEN keyOf
             ELSE [keyOf EXCEPT ![subs[s].key] = Cardinality(jobs) + 1]

Store(s) ==
    /\ At(s, "policy") /\ ~Batch(s)
    /\ subs[s].size > 0
    /\ Put(s) /\ PutKey(s)
    /\ Go(s, "queue")
    /\ UNCHANGED <<upVars, local, remote, unpaid, mixed, redisUp, day, draining, leaked, raced, sends>>

\* The policy of a batch, once for all items; then item by item.
Begin(s) ==
    /\ At(s, "policy") /\ Batch(s)
    /\ Go(s, "room")
    /\ UNCHANGED <<upVars, jobs, keyOf, dailyVars, redisUp, day, draining, leaked, raced, sends>>

StoreItem(s) ==
    /\ Fits(s) /\ Batch(s)
    /\ pending' = pending + subs[s].size
    /\ Put(s)
    /\ subs' = [subs EXCEPT ![s].pc = "queue", ![s].held = @ + subs[s].size, ![s].stored = @ + 1]
    /\ UNCHANGED <<othersVars, used, keyOf, local, remote, unpaid, mixed, redisUp, day,
                   draining, leaked, raced, sends>>

\* ffprobe refuses the item: its storage is reserved.
BadItem(s) ==
    /\ Fits(s) /\ Batch(s)
    /\ Hold(s, "undo")
    /\ UNCHANGED <<othersVars, used, jobs, keyOf, dailyVars, redisUp, day, draining,
                   leaked, raced, sends>>

\* submit_job_or_503 returns.
Queued(s) ==
    /\ At(s, "queue") /\ ~draining
    /\ IF Batch(s) /\ subs[s].stored < Items
       THEN /\ subs' = [subs EXCEPT ![s].pc = "room", ![s].made = @ + 1]
            /\ UNCHANGED pending
       ELSE ReleaseStorage(s) /\ Leave(s)
    /\ UNCHANGED <<othersVars, used, jobs, keyOf, dailyVars, redisUp, day, draining,
                   leaked, raced, sends>>

\* Mutant: an error forgets the key.
NotQueuedForgets(s) ==
    /\ At(s, "queue")
    /\ keyOf' = IF subs[s].key = NoKey THEN keyOf ELSE [keyOf EXCEPT ![subs[s].key] = NoJob]
    /\ IF Batch(s) THEN Go(s, "undo") /\ UNCHANGED pending
       ELSE ReleaseStorage(s) /\ Leave(s)
    /\ UNCHANGED <<othersVars, used, jobs, dailyVars, redisUp, day, draining, leaked, raced, sends>>

\* It raises: 503.  A single job stays stored and keeps its day, a batch gives back
\* the day of the item whose row is stored already.
NotQueued(s) ==
    /\ At(s, "queue")
    /\ IF Batch(s) THEN Go(s, "undo") /\ UNCHANGED pending
       ELSE ReleaseStorage(s) /\ Leave(s)
    /\ UNCHANGED <<othersVars, used, jobs, keyOf, dailyVars, redisUp, day, draining,
                   leaked, raced, sends>>

\* JobReservation.release takes it from the counter of the day it is called on; a
\* failing Redis is ignored.  Then the storage is released.
Undo(s) ==
    /\ At(s, "undo")
    /\ LET back == IF Batch(s) THEN Items - subs[s].made ELSE 1
           where == subs[s].where
       IN /\ local' = IF where # "local" THEN local
                      ELSE [local EXCEPT ![day] = Less(@, back)]
          /\ remote' = IF where # "remote" \/ ~redisUp THEN remote
                       ELSE [remote EXCEPT ![day] = Less(@, back)]
          /\ crossed' = (crossed \/ subs[s].day # day)
          /\ unpaid' = unpaid + (subs[s].stored - subs[s].made)
    /\ ReleaseStorage(s) /\ Leave(s)
    /\ UNCHANGED <<othersVars, used, jobs, keyOf, mixed, redisUp, day, draining,
                   leaked, raced, sends>>

-----------------------------------------------------------------------------
\* Around the requests.

Midnight ==
    /\ day < setup.days /\ day' = day + 1
    /\ UNCHANGED <<upVars, subs, jobs, keyOf, dailyVars, redisUp, draining, leaked, raced, sends>>

Toggle ==
    /\ setup.redis = "either" /\ redisUp' = ~redisUp
    /\ UNCHANGED <<upVars, subs, jobs, keyOf, dailyVars, day, draining, leaked, raced, sends>>

\* lifecycle.begin_draining, before the process ends.
Drain ==
    /\ crashes < setup.crashes /\ ~draining /\ draining' = TRUE
    /\ UNCHANGED <<upVars, subs, jobs, keyOf, dailyVars, redisUp, day, leaked, raced, sends>>

\* The process comes back without its reservations; Redis and the store stay.
Fresh ==
    /\ subs' = [s \in Subs |-> Idle]
    /\ local' = [d \in Days |-> 0]
    /\ draining' = FALSE /\ leaked' = 0
    /\ UNCHANGED <<keyOf, remote, mixed, redisUp, day, sends>>

Dead == Dies /\ Fresh /\ UNCHANGED <<jobs, unpaid, crossed, raced>>

\* It dies between the job's row and the key.
DieKeyless(s) ==
    /\ At(s, "policy") /\ ~Batch(s) /\ subs[s].size > 0 /\ subs[s].key # NoKey
    /\ Die /\ Fresh /\ Put(s)
    /\ raced' = raced \cup {subs[s].key}
    /\ UNCHANGED unpaid

-----------------------------------------------------------------------------

Submit(s) == \E u \in setup.uploads, key \in Keys \cup {NoKey} : Arrive(s, "upload", u, key)
Name(s) == \E src \in setup.sources, key \in Keys \cup {NoKey} : Arrive(s, src, Free, key)
Handle(s) ==
    \/ Body(s) \/ HasRoom(s) \/ Full(s) \/ Reserve(s) \/ BadExtension(s) \/ NotBusy(s) \/ Busy(s)
    \/ Daily(s) \/ DailyFull(s) \/ Refused(s) \/ Escapes(s) \/ Store(s)
    \/ Begin(s) \/ StoreItem(s) \/ BadItem(s) \/ Queued(s) \/ NotQueued(s) \/ Undo(s)

InNext ==
    \/ UpNext /\ UNCHANGED subVars
    \/ \E s \in Subs : Submit(s) \/ Name(s) \/ Handle(s) \/ DieKeyless(s)
    \/ Midnight \/ Toggle \/ Drain \/ Dead

InSpec == SubInit /\ [][InNext]_inVars
InFairSpec == InSpec /\ UpFair

-----------------------------------------------------------------------------

InTypeOK ==
    /\ UpTypeOK
    /\ subs \in [Subs -> {Idle} \cup Submissions]
    /\ keyOf \in [Keys -> {NoJob} \cup {j.id : j \in jobs}]
    /\ local \in [Days -> Nat] /\ remote \in [Days -> 0 .. Limit]
    /\ day \in Days /\ leaked \in Nat /\ unpaid \in Nat /\ raced \subseteq Keys

\* The bytes reserved are those that requests under way hold and those forgotten on
\* the ways out that release nothing: no other way out leaks, none releases twice.
PendingIsHeld ==
    pending = leaked + MapThenSumSet(LAMBDA s : subs[s].held, {s \in Subs : subs[s] # Idle})

\* No more jobs are stored on a day than the limit allows, however many requests are
\* under way, except for items given back although stored, reservations that
\* meet another day, and Redis coming and going.
DailyCapHolds ==
    ~crossed /\ ~mixed => \A d \in Days : Cardinality(JobsOn(d)) <= Limit + unpaid

\* A key makes one job, also when the answer was an error (503) and the request is
\* repeated, unless two requests with the key overlap or the process died between
\* the job and the key.
OneJobPerKey ==
    \A k \in Keys \ raced : Cardinality({j \in jobs : j.key = k}) <= 1

\* A job made from an upload has the completed file, whole if it had a checksum.
JobsHaveTheirVideo ==
    \A j \in jobs : j.src = "upload" /\ ~setup.retention =>
        /\ Done(j.u) /\ final[j.u] # NoFile
        /\ Agrees(final[j.u], row[j.u].sha)
==============================================================================
