------------------------------ MODULE RedisQueue ------------------------------
(***************************************************************************)
(* The Redis queue backend (queue/redis_queue_impl.py) with several server *)
(* instances over one Redis and one job store: claims under a lock with a  *)
(* time to live, the caps checked before a run, deferral and the loop that *)
(* moves deferred jobs back, dead letters, the hooks around a run, the     *)
(* counter of attempts with its time to live, and instances that die and   *)
(* come back.  Redis always answers, and what an instance recovers when it *)
(* comes back (JobQueue.start) goes to its own scheduler and is out of     *)
(* sight here: module AutoBackend adds the scheduler, the choice between   *)
(* the two and a Redis that fails.                                         *)
(*                                                                         *)
(* A step is what one instance does between two awaits on Redis that other *)
(* instances, or its own other loops, may fall between.  While a pipeline  *)
(* runs, its instance does nothing else: _run_job holds the event loop.    *)
(* Each instance has one worker (JOBS_CONCURRENCY = 1).                    *)
(***************************************************************************)
EXTENDS Naturals, Sequences, FiniteSets

CONSTANTS
    Procs,        \* the server instances
    Jobs,
    NoJob,
    Free,         \* no such lock key in Redis
    Ghost,        \* a lock whose token no instance remembers
    OwnerOf,      \* Job.owner_id
    Rank,         \* the order of the pending set: ZREVRANGE lists the highest first
    MaxAttempts,  \* REDIS_QUEUE_MAX_ATTEMPTS
    Setups        \* the settings and bounds under which the system is run

ASSUME RedisQueueAssumption ==
    /\ NoJob \notin Jobs
    /\ Free \notin Procs /\ Ghost \notin Procs /\ Free # Ghost
    /\ Rank \in [Jobs -> Nat]
    /\ MaxAttempts \in Nat
    \* procs: the instances there are; twoPass: jobs whose first run ends QUEUED; cap:
    \* runs a user may have at a time, 0 for no limit; lapse: a lock may run out while
    \* its holder is alive; expire: so may the metadata of a job (REDIS_ACTIVE_SET_TTL_MS);
    \* ops: what users do; most, crashes and flips: bounds of the model, of user
    \* operations, deaths of instances and outages and returns of Redis; reboot: Redis
    \* was restarted when it returns.
    /\ Setups \subseteq [procs : SUBSET Procs, twoPass : SUBSET Jobs, cap : Nat,
                         lapse : BOOLEAN, expire : BOOLEAN,
                         ops : SUBSET {"cancel", "pause", "rerun"}, most : Nat,
                         crashes : Nat, flips : Nat, reboot : BOOLEAN]

VARIABLES
    \* Redis
    pending, delayed,  \* the two sorted sets
    lock,              \* job:<id>:lock
    attempts,          \* the counter in job:<id>:meta
    ttl,               \* jobs whose job:<id>:meta has a time to live
    running,           \* user:<id>:running, of all users
    dlq,               \* the dead letters
    \* the job store
    row,
    \* the instances
    up,                \* down, starting, up or draining
    boot,              \* rows JobQueue.start has read and not yet recovered
    hand,              \* the job claimed and not yet passed on
    asyncQ,            \* JobQueue._q
    has,               \* jobs with an entry in _lock_token_by_job
    canceled,          \* JobQueue._cancel
    w,                 \* where the worker stands, and with which job
    mover,             \* the due jobs read, and the one taken from delayed
    \* the model
    setup, pass2, starts, ops, crashes,
    spent              \* history: attempts that were counted by counters since expired

redisVars == <<pending, delayed, lock, attempts, ttl, spent, running, dlq>>
localVars == <<hand, asyncQ, has, canceled, w, mover>>
bounds == <<setup, ops, crashes>>
rqVars == <<redisVars, row, up, boot, localVars, pass2, starts, bounds>>

States == {"none", "QUEUED", "PAUSED", "RUNNING", "CANCELED", "DONE"}
Terminal == {"DONE", "CANCELED"}   \* FAILED is not told apart from DONE
Steps == {"idle", "check", "admit", "defer", "release", "run", "after", "unlock"}

Idle == [pc |-> "idle", job |-> NoJob]
Still == [due |-> {}, cur |-> NoJob]

RQInit ==
    /\ setup \in Setups
    /\ pending = {} /\ delayed = {} /\ running = {} /\ dlq = {}
    /\ lock = [j \in Jobs |-> Free]
    /\ attempts = [j \in Jobs |-> 0] /\ ttl = {} /\ spent = [j \in Jobs |-> 0]
    /\ row = [j \in Jobs |-> "none"]
    /\ up = [p \in Procs |-> IF p \in setup.procs THEN "up" ELSE "down"]
    /\ boot = [p \in Procs |-> {}]
    /\ hand = [p \in Procs |-> NoJob]
    /\ asyncQ = [p \in Procs |-> <<>>]
    /\ has = [p \in Procs |-> {}]
    /\ canceled = [p \in Procs |-> {}]
    /\ w = [p \in Procs |-> Idle]
    /\ mover = [p \in Procs |-> Still]
    /\ pass2 = {} /\ starts = [j \in Jobs |-> 0] /\ ops = 0 /\ crashes = 0

\* The event loop of p is there and not held by a pipeline run.
Loop(p) == up[p] = "up" /\ w[p].pc # "run"

-----------------------------------------------------------------------------
\* Handlers.  RedisQueue.submit_job: the job's meta with its time to live, and the
\* pending set.  The counter of attempts, a field of the meta, is left as it is.

Handles(p) ==
    /\ Loop(p)
    /\ ops < setup.most /\ ops' = ops + 1
    /\ UNCHANGED <<lock, attempts, spent, running, dlq, up, boot, hand, asyncQ, has, w,
                   mover, pass2, starts, setup, crashes>>

\* POST /api/jobs, and the re-runs of a job in any state; the resumption of a
\* paused job.
Accept(p, j) ==
    /\ Handles(p)
    /\ \/ row[j] = "none" \/ "rerun" \in setup.ops
       \/ row[j] = "PAUSED"
    /\ row' = [row EXCEPT ![j] = "QUEUED"]
    /\ UNCHANGED <<delayed, canceled>>

\* Where nothing expires, what could is not kept.
Armed(j) == IF setup.expire THEN ttl \cup {j} ELSE ttl

Submit(p, j) == Accept(p, j) /\ pending' = pending \cup {j} /\ ttl' = Armed(j)

\* POST /api/jobs/{id}/cancel: the local cancel set, the row, and the entries in
\* Redis.  The flag it also sets there has no effect: before_job_run reads it
\* and then calls a method that does not exist, within a try that ignores it.
Cancel(p, j) ==
    /\ "cancel" \in setup.ops /\ row[j] # "none"
    /\ Handles(p)
    /\ canceled' = [canceled EXCEPT ![p] = @ \cup {j}]
    /\ row' = [row EXCEPT ![j] = "CANCELED"]
    /\ pending' = pending \ {j}
    /\ delayed' = delayed \ {j}
    /\ UNCHANGED ttl

Pause(p, j) ==
    /\ "pause" \in setup.ops /\ row[j] = "QUEUED"
    /\ Handles(p)
    /\ row' = [row EXCEPT ![j] = "PAUSED"]
    /\ UNCHANGED <<pending, delayed, canceled, ttl>>

-----------------------------------------------------------------------------
\* _consume_loop.

Others == <<row, up, boot, canceled, pass2, bounds>>

First(j) == j \in pending /\ \A k \in pending : Rank[k] <= Rank[j]

\* Mutant: the script takes the job whether or not its lock is free.
ClaimAnyway(p) ==
    /\ Loop(p) /\ hand[p] = NoJob
    /\ \E j \in Jobs :
          /\ First(j)
          /\ lock' = [lock EXCEPT ![j] = p]
          /\ pending' = pending \ {j}
          /\ hand' = [hand EXCEPT ![p] = j]
          /\ has' = [has EXCEPT ![p] = @ \cup {j}]
    /\ UNCHANGED <<delayed, attempts, ttl, spent, running, dlq, asyncQ, w, mover, starts, Others>>

\* The script: the first pending job, if nobody holds its lock; otherwise
\* nothing, whatever else is pending.
Claim(p) ==
    /\ Loop(p) /\ hand[p] = NoJob
    /\ \E j \in Jobs :
          /\ First(j)
          /\ lock[j] = Free
          /\ lock' = [lock EXCEPT ![j] = p]
          /\ pending' = pending \ {j}
          /\ hand' = [hand EXCEPT ![p] = j]
          /\ has' = [has EXCEPT ![p] = @ \cup {j}]
    /\ UNCHANGED <<delayed, attempts, ttl, spent, running, dlq, asyncQ, w, mover, starts, Others>>

\* _release_lock: only the holder's token deletes the key.
Released(p, j) == IF lock[j] = p THEN [lock EXCEPT ![j] = Free] ELSE lock

\* Mutant: the attempt is not counted.
DeliverUncounted(p) ==
    /\ Loop(p) /\ hand[p] # NoJob
    /\ asyncQ' = [asyncQ EXCEPT ![p] = Append(@, hand[p])]
    /\ hand' = [hand EXCEPT ![p] = NoJob]
    /\ UNCHANGED <<redisVars, has, w, mover, starts, Others>>

\* The attempt is counted (here not beyond the limit); one too many and the job
\* goes to the dead letters, otherwise to the worker.
Deliver(p) ==
    /\ Loop(p) /\ hand[p] # NoJob
    /\ LET j == hand[p] IN
       IF attempts[j] >= MaxAttempts
       THEN /\ dlq' = dlq \cup {j}
            /\ lock' = Released(p, j)
            /\ UNCHANGED <<attempts, asyncQ>>
       ELSE /\ attempts' = [attempts EXCEPT ![j] = @ + 1]
            /\ asyncQ' = [asyncQ EXCEPT ![p] = Append(@, j)]
            /\ UNCHANGED <<dlq, lock>>
    /\ hand' = [hand EXCEPT ![p] = NoJob]
    /\ UNCHANGED <<pending, delayed, ttl, spent, running, has, w, mover, starts, Others>>

-----------------------------------------------------------------------------
\* The worker: JobQueue._worker, before_job_run, _run_job, after_job_run.

At(p, pc) == up[p] \in {"up", "drain"} /\ w[p].pc = pc
Goes(p, pc) == w' = [w EXCEPT ![p].pc = pc]
Rests(p) == w' = [w EXCEPT ![p] = Idle]

\* A paused job goes to the end of the queue.
Take(p) ==
    /\ At(p, "idle") /\ asyncQ[p] # <<>>
    /\ LET j == Head(asyncQ[p]) IN
       IF row[j] = "PAUSED"
       THEN /\ asyncQ' = [asyncQ EXCEPT ![p] = Append(Tail(@), j)]
            /\ UNCHANGED w
       ELSE /\ asyncQ' = [asyncQ EXCEPT ![p] = Tail(@)]
            /\ w' = [w EXCEPT ![p] = [pc |-> "check", job |-> j]]
    /\ UNCHANGED <<redisVars, hand, has, mover, starts, Others>>

RunningOf(u) == {k \in running : OwnerOf[k] = u}
Denied(j) == setup.cap > 0 /\ Cardinality(RunningOf(OwnerOf[j])) >= setup.cap

\* Mutant: the state of the job in the store is not looked at.
CheckNoState(p) ==
    /\ At(p, "check")
    /\ LET j == w[p].job IN
       \/ /\ Denied(j) /\ j \in running
          /\ Rests(p) /\ UNCHANGED lock
       \/ /\ Denied(j) /\ j \notin running
          /\ Goes(p, "defer") /\ UNCHANGED lock
       \/ /\ ~Denied(j)
          /\ Goes(p, "admit") /\ UNCHANGED lock
    /\ UNCHANGED <<pending, delayed, attempts, ttl, spent, running, dlq, hand, asyncQ, has, mover,
                   starts, Others>>

\* The state of the row, then the caps (evaluate_dispatch).  A job that is
\* counted as running is taken to be in flight elsewhere and let go.
Check(p) ==
    /\ At(p, "check")
    /\ LET j == w[p].job IN
       \/ /\ row[j] \in Terminal
          /\ lock' = Released(p, j) /\ Rests(p)
       \/ /\ row[j] \notin Terminal /\ Denied(j) /\ j \in running
          /\ Rests(p) /\ UNCHANGED lock
       \/ /\ row[j] \notin Terminal /\ Denied(j) /\ j \notin running
          /\ Goes(p, "defer") /\ UNCHANGED lock
       \/ /\ row[j] \notin Terminal /\ ~Denied(j)
          /\ Goes(p, "admit") /\ UNCHANGED lock
    /\ UNCHANGED <<pending, delayed, attempts, ttl, spent, running, dlq, hand, asyncQ, has, mover,
                   starts, Others>>

\* _defer, and after it _release_and_cleanup: the token stays in the table.
Defer(p) ==
    /\ At(p, "defer")
    /\ delayed' = delayed \cup {w[p].job}
    /\ Goes(p, "release")
    /\ UNCHANGED <<pending, lock, attempts, ttl, spent, running, dlq, hand, asyncQ, has, mover,
                   starts, Others>>

Release(p) ==
    /\ At(p, "release")
    /\ lock' = Released(p, w[p].job)
    /\ Rests(p)
    /\ UNCHANGED <<pending, delayed, attempts, ttl, spent, running, dlq, hand, asyncQ, has, mover,
                   starts, Others>>

\* With a token in the table the lock is not looked at; without one it is tried.
MayRun(p, j) == j \in has[p] \/ lock[j] = Free

\* The job is counted as running and _run_job begins: it ends at once when the
\* job was canceled on this instance, and runs whatever its row says otherwise.
Admit(p) ==
    /\ At(p, "admit")
    /\ LET j == w[p].job IN
       /\ MayRun(p, j)
       /\ lock' = IF j \in has[p] THEN lock ELSE [lock EXCEPT ![j] = p]
       /\ has' = [has EXCEPT ![p] = @ \cup {j}]
       /\ running' = running \cup {j}
       /\ IF j \in canceled[p]
          THEN /\ row' = [row EXCEPT ![j] = "CANCELED"]
               /\ Goes(p, "after") /\ UNCHANGED starts
          ELSE /\ row' = [row EXCEPT ![j] = "RUNNING"]
               /\ starts' = [starts EXCEPT ![j] = @ + 1]
               /\ Goes(p, "run")
    /\ UNCHANGED <<pending, delayed, attempts, ttl, spent, dlq, up, boot, hand, asyncQ, canceled,
                   mover, pass2, bounds>>

\* No token and the lock is busy: deferred.
AdmitBusy(p) ==
    /\ At(p, "admit") /\ ~MayRun(p, w[p].job)
    /\ delayed' = delayed \cup {w[p].job}
    /\ Rests(p)
    /\ UNCHANGED <<pending, lock, attempts, ttl, spent, running, dlq, hand, asyncQ, has, mover,
                   starts, Others>>

\* The run ends: the job is final, or was in pass 1 and is submitted again.
EndsPass1(j) == j \in setup.twoPass \ pass2
Ends(p) ==
    /\ At(p, "run")
    /\ LET j == w[p].job IN
       IF EndsPass1(j)
       THEN row' = [row EXCEPT ![j] = "QUEUED"] /\ pass2' = pass2 \cup {j}
       ELSE row' = [row EXCEPT ![j] = "DONE"] /\ UNCHANGED pass2
    /\ Goes(p, "after")
    /\ UNCHANGED <<delayed, lock, attempts, spent, running, dlq, up, boot, hand, asyncQ, has,
                   canceled, mover, starts, bounds>>

EndRun(p) ==
    /\ Ends(p)
    /\ IF EndsPass1(w[p].job)
       THEN pending' = pending \cup {w[p].job} /\ ttl' = Armed(w[p].job)
       ELSE UNCHANGED <<pending, ttl>>

\* Mutant: the job stays counted as running.
AfterKeeps(p) ==
    /\ At(p, "after")
    /\ Goes(p, "unlock")
    /\ UNCHANGED <<redisVars, hand, asyncQ, has, mover, starts, Others>>

\* after_job_run: the counters, then the lock.
After(p) ==
    /\ At(p, "after")
    /\ running' = running \ {w[p].job}
    /\ Goes(p, "unlock")
    /\ UNCHANGED <<pending, delayed, lock, attempts, ttl, spent, dlq, hand, asyncQ, has, mover,
                   starts, Others>>

Unlock(p) ==
    /\ At(p, "unlock")
    /\ lock' = Released(p, w[p].job)
    /\ has' = [has EXCEPT ![p] = @ \ {w[p].job}]
    /\ Rests(p)
    /\ UNCHANGED <<pending, delayed, attempts, ttl, spent, running, dlq, hand, asyncQ, mover,
                   starts, Others>>

-----------------------------------------------------------------------------
\* _delayed_mover_loop: every instance reads the due jobs, then moves one after
\* the other, in two commands each, whether or not it is still there.

MovesOn(p) == /\ Loop(p)
              /\ UNCHANGED <<lock, attempts, ttl, spent, running, dlq, hand, asyncQ, has, w,
                             starts, Others>>

ReadDue(p) ==
    /\ MovesOn(p) /\ mover[p] = Still
    /\ \E S \in SUBSET delayed \ {{}} : mover' = [mover EXCEPT ![p].due = S]
    /\ UNCHANGED <<pending, delayed>>

TakeDue(p) ==
    /\ MovesOn(p) /\ mover[p].cur = NoJob
    /\ \E j \in mover[p].due :
          /\ mover' = [mover EXCEPT ![p] = [due |-> @.due \ {j}, cur |-> j]]
          /\ delayed' = delayed \ {j}
    /\ UNCHANGED pending

PutDue(p) ==
    /\ MovesOn(p) /\ mover[p].cur # NoJob
    /\ pending' = pending \cup {mover[p].cur}
    /\ mover' = [mover EXCEPT ![p].cur = NoJob]
    /\ UNCHANGED delayed

-----------------------------------------------------------------------------
\* Locks and metadata run out; instances die and come back.

\* The metadata of a job runs out, and the counter of its attempts with them.  A
\* later attempt makes a new counter, without a time to live until the job is
\* submitted again.
ExpireMeta(j) ==
    /\ j \in ttl
    /\ ttl' = ttl \ {j}
    /\ attempts' = [attempts EXCEPT ![j] = 0]
    /\ spent' = [spent EXCEPT ![j] = @ + attempts[j]]
    /\ UNCHANGED <<pending, delayed, lock, running, dlq, localVars, starts, Others>>

\* A lock nobody refreshes runs out.
ExpireGhost(j) ==
    /\ lock[j] = Ghost
    /\ lock' = [lock EXCEPT ![j] = Free]
    /\ UNCHANGED <<pending, delayed, attempts, ttl, spent, running, dlq, localVars, starts, Others>>

\* A claimed job waiting for the worker has no refresh task, and a run holds the
\* loop its refresh task needs: either may outlast REDIS_LOCK_TTL_MS.
Lapse(j) ==
    /\ setup.lapse /\ lock[j] \in Procs
    /\ lock' = [lock EXCEPT ![j] = Free]
    /\ UNCHANGED <<pending, delayed, attempts, ttl, spent, running, dlq, localVars, starts, Others>>

Crash(p) ==
    /\ up[p] # "down" /\ crashes < setup.crashes /\ crashes' = crashes + 1
    /\ up' = [up EXCEPT ![p] = "down"]
    /\ boot' = [boot EXCEPT ![p] = {}]
    /\ lock' = [j \in Jobs |-> IF lock[j] = p THEN Ghost ELSE lock[j]]
    /\ hand' = [hand EXCEPT ![p] = NoJob]
    /\ asyncQ' = [asyncQ EXCEPT ![p] = <<>>]
    /\ has' = [has EXCEPT ![p] = {}]
    /\ canceled' = [canceled EXCEPT ![p] = {}]
    /\ w' = [w EXCEPT ![p] = Idle]
    /\ mover' = [mover EXCEPT ![p] = Still]
    /\ UNCHANGED <<pending, delayed, attempts, ttl, spent, running, dlq, row, pass2, starts,
                   setup, ops>>

Unfinished == {j \in Jobs : row[j] \in {"QUEUED", "RUNNING"}}

\* JobQueue.start: the rows are read once ...
Restart(p) ==
    /\ p \in setup.procs /\ up[p] = "down"
    /\ up' = [up EXCEPT ![p] = "boot"]
    /\ boot' = [boot EXCEPT ![p] = Unfinished]
    /\ UNCHANGED <<redisVars, row, localVars, pass2, starts, bounds>>

\* ... and one after the other made QUEUED and given to the scheduler of the
\* instance, whatever other instances have done to them since.
Recover(p, j) ==
    /\ up[p] = "boot" /\ j \in boot[p]
    /\ row' = [row EXCEPT ![j] = "QUEUED"]
    /\ boot' = [boot EXCEPT ![p] = @ \ {j}]
    /\ UNCHANGED <<pending, delayed, lock, attempts, ttl, spent, running, dlq, up, localVars,
                   pass2, starts, bounds>>

\* The workers are created last.
Started(p) ==
    /\ up[p] = "boot" /\ boot[p] = {}
    /\ up' = [up EXCEPT ![p] = "up"]
    /\ UNCHANGED <<redisVars, row, boot, localVars, pass2, starts, bounds>>

-----------------------------------------------------------------------------

User == \E p \in Procs, j \in Jobs :
            Submit(p, j) \/ Cancel(p, j) \/ Pause(p, j)
Consume(p) == Claim(p) \/ Deliver(p)
Work(p) == \/ Take(p) \/ Check(p) \/ Defer(p) \/ Release(p) \/ Admit(p) \/ AdmitBusy(p)
           \/ EndRun(p) \/ After(p) \/ Unlock(p)
Move(p) == ReadDue(p) \/ TakeDue(p) \/ PutDue(p)
Comeback(p) == Restart(p) \/ Started(p) \/ \E j \in Jobs : Recover(p, j)

RQNext ==
    \/ User
    \/ \E p \in Procs : Consume(p) \/ Work(p) \/ Move(p) \/ Crash(p) \/ Comeback(p)
    \/ \E j \in Jobs : ExpireGhost(j) \/ Lapse(j) \/ ExpireMeta(j)

RQSpec == RQInit /\ [][RQNext]_rqVars

-----------------------------------------------------------------------------

RQTypeOK ==
    /\ pending \subseteq Jobs /\ delayed \subseteq Jobs /\ running \subseteq Jobs
    /\ dlq \subseteq Jobs /\ pass2 \subseteq Jobs
    /\ lock \in [Jobs -> Procs \cup {Free, Ghost}]
    /\ attempts \in [Jobs -> 0 .. MaxAttempts]
    /\ ttl \subseteq Jobs /\ spent \in [Jobs -> Nat]
    /\ row \in [Jobs -> States]
    /\ up \in [Procs -> {"down", "boot", "up", "drain"}]
    /\ boot \in [Procs -> SUBSET Jobs]
    /\ hand \in [Procs -> Jobs \cup {NoJob}]
    /\ asyncQ \in [Procs -> Seq(Jobs)]
    /\ has \in [Procs -> SUBSET Jobs] /\ canceled \in [Procs -> SUBSET Jobs]
    /\ w \in [Procs -> [pc : Steps, job : Jobs \cup {NoJob}]]
    /\ \A p \in Procs : w[p].job = NoJob <=> w[p].pc = "idle"
    /\ mover \in [Procs -> [due : SUBSET Jobs, cur : Jobs \cup {NoJob}]]
    /\ setup \in Setups
    /\ starts \in [Jobs -> Nat] /\ ops \in Nat /\ crashes \in Nat

\* The instance p has the job j on its way from the claim to the end of the run.
Waits(p, j) == \E i \in DOMAIN asyncQ[p] : asyncQ[p][i] = j
Holds(p, j) == hand[p] = j \/ Waits(p, j) \/ w[p].job = j

Runs(p, j) == w[p].pc = "run" /\ w[p].job = j

\* "Locks prevent the same job running on multiple workers": as long as no lock
\* lapses under a live holder and jobs come to the workers by claims alone,
\* whatever movers and re-runs put into the pending set again and whoever dies
\* with a claim.  It does not cover the jobs an instance recovers when it starts:
\* they go to its scheduler (module AutoBackend), not through a claim.
OneRunner ==
    ~setup.lapse => \A p, q \in Procs, j \in Jobs : Runs(p, j) /\ Runs(q, j) => p = q

\* A user's count of running jobs is not too high for ever: without crashes a job
\* counted as running is being run or about to be released.
CountedIsRun ==
    setup.crashes = 0 /\ ~setup.lapse =>
        \A j \in running : \E p \in Procs : w[p].job = j /\ w[p].pc \in {"run", "after"}

\* "Terminal job states should never be re-run": the state is read once, before
\* the caps; a job cannot end between that and the start of its run, unless
\* another instance runs it because a lock lapsed.
Begins(p, j) == ~Runs(p, j) /\ Runs(p, j)'
DoneStaysDone ==
    [][~setup.lapse => \A p \in Procs, j \in Jobs : Begins(p, j) => row[j] # "DONE"]_rqVars

\* The queue implements the exclusive, bounded runs of ExclusiveRuns: every run follows
\* a claim that counts as an attempt, so that a job which is claimed and brings its
\* instance down each time is not run more than MaxAttempts times in the life of one
\* counter.  When the counter expires, what it had counted may be counted again.
Exclusive == INSTANCE ExclusiveRuns WITH
    runners <- [j \in Jobs |-> {p \in Procs : Runs(p, j)}], overlap <- setup.lapse
ImplementsExclusiveRuns == Exclusive!ERSpec

==============================================================================
