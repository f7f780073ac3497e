------------------------------ MODULE AutoBackend ------------------------------
(***************************************************************************)
(* AutoQueueBackend (queue/manager.py) and the server's start and stop     *)
(* (runtime/lifecycle.py) around RedisQueue: requests go to Redis or to    *)
(* the local scheduler by a health flag that lags behind, a monitor turns  *)
(* the scan of the fallback queue on and off, the worker asks the backend  *)
(* that is active at that moment, and Redis may fail between two commands  *)
(* of one operation.                                                       *)
(*                                                                         *)
(* The local scheduler is a bag of jobs, dispatched in any order, with the *)
(* counter of its slots: module Scheduler has its order, backpressure and  *)
(* the caps of the modes, module LocalQueue the time limit of the hand-    *)
(* over.  A failing Redis keeps its data; when it was restarted it has     *)
(* lost its scripts.                                                       *)
(***************************************************************************)
EXTENDS RedisQueue

CONSTANTS
    Forced,     \* QUEUE_MODE: redis or auto
    MaxGlobal   \* MAX_CONCURRENCY_GLOBAL

ASSUME AutoBackendAssumption == Forced \in BOOLEAN /\ MaxGlobal \in Nat \ {0}

VARIABLES
    redisUp,  \* Redis answers
    loaded,   \* Redis has the claim script
    sha,      \* instances that have the script's name (_claim_lua)
    ok,       \* instances whose health flag is set (_healthy)
    mon,      \* instances whose monitor last saw Redis active (last_active)
    scan,     \* instances with a scan task
    seen,     \* FallbackLocalQueue._seen
    heap,     \* how often the local scheduler has the job
    slots,    \* Scheduler._active_global
    disp,     \* the job its dispatcher has read and not yet handed over
    broken,   \* history: a command of Redis failed in the middle of an operation
    owed,     \* history: jobs a cap denied to an instance, which its scan is to find
    dropped,  \* history: jobs a cap denied, which nobody is to find
    flips

serverVars == <<redisUp, loaded, flips>>
healthVars == <<ok, mon, scan>>
localQ == <<seen, heap, slots, disp>>
marks == <<owed, dropped>>
abVars == <<rqVars, serverVars, sha, healthVars, localQ, broken, marks>>

\* The servers have been up for a while and Redis has answered.
ABInit ==
    /\ RQInit
    /\ redisUp = TRUE /\ loaded = TRUE /\ flips = 0 /\ broken = FALSE
    /\ sha = setup.procs /\ ok = setup.procs /\ mon = setup.procs /\ scan = {}
    /\ seen = [p \in Procs |-> {}]
    /\ heap = [p \in Procs |-> [j \in Jobs |-> 0]]
    /\ slots = [p \in Procs |-> 0] /\ disp = [p \in Procs |-> NoJob]
    /\ owed = [p \in Procs |-> {}] /\ dropped = {}

Push(p, j) == heap' = [heap EXCEPT ![p][j] = @ + 1]
Forget(p, j) == seen' = [seen EXCEPT ![p] = @ \ {j}]

-----------------------------------------------------------------------------
\* submit_job: Redis while its flag is set; the scheduler when it is not, or when a
\* command fails, the first of them or a later one.

ToRedis(p, j) == /\ p \in ok /\ redisUp
                 /\ pending' = pending \cup {j} /\ ttl' = Armed(j) /\ UNCHANGED <<seen, heap>>
ToScheduler(p, j) == /\ p \notin ok \/ ~redisUp
                     /\ Push(p, j) /\ Forget(p, j) /\ UNCHANGED <<pending, ttl>>
ToBoth(p, j) == /\ p \in ok /\ redisUp /\ setup.flips > 0
                /\ pending' = pending \cup {j} /\ ttl' = Armed(j) /\ Push(p, j) /\ Forget(p, j)

\* Mutant: a submission that fails in Redis is given up.
OfferOnce(p, j) == /\ \/ ToRedis(p, j)
                      \/ p \notin ok /\ ToScheduler(p, j)
                      \/ p \in ok /\ ~redisUp /\ UNCHANGED <<pending, ttl, seen, heap>>
                   /\ dropped' = dropped \ {j}

Offer(p, j) == /\ ToRedis(p, j) \/ ToScheduler(p, j) \/ ToBoth(p, j)
               /\ dropped' = dropped \ {j}

Rest == <<serverVars, sha, healthVars, broken, disp, owed>>
Same == UNCHANGED <<Rest, seen, heap, slots, dropped>>

ABSubmit(p, j) == Accept(p, j) /\ Offer(p, j) /\ UNCHANGED <<Rest, slots>>

\* cancel_job: what cannot be removed from Redis stays there.
ABCancel(p, j) ==
    /\ \/ redisUp /\ Cancel(p, j)
       \/ /\ ~redisUp /\ "cancel" \in setup.ops /\ row[j] # "none"
          /\ Handles(p)
          /\ canceled' = [canceled EXCEPT ![p] = @ \cup {j}]
          /\ row' = [row EXCEPT ![j] = "CANCELED"]
          /\ UNCHANGED <<pending, delayed, ttl>>
    /\ Same

ABPause(p, j) == Pause(p, j) /\ Same

-----------------------------------------------------------------------------
\* The loops of RedisQueue while Redis answers; claims need the script.

ABConsume(p) == /\ redisUp /\ Same
                /\ \/ p \in sha /\ loaded /\ Claim(p)
                   \/ Deliver(p)
ABMove(p) == redisUp /\ Move(p) /\ Same

\* The attempt cannot be counted, the job is passed on.
DeliverBlind(p) ==
    /\ ~redisUp /\ Loop(p) /\ hand[p] # NoJob
    /\ asyncQ' = [asyncQ EXCEPT ![p] = Append(@, hand[p])]
    /\ hand' = [hand EXCEPT ![p] = NoJob]
    /\ Same /\ UNCHANGED <<redisVars, has, w, mover, starts, Others>>

\* A job the mover has taken from delayed cannot be put into pending.
MoverFails(p) ==
    /\ ~redisUp /\ Loop(p) /\ mover[p] # Still
    /\ mover' = [mover EXCEPT ![p] = Still]
    /\ broken' = (broken \/ mover[p].cur # NoJob)
    /\ UNCHANGED <<redisVars, hand, asyncQ, has, w, starts, Others,
                   serverVars, sha, healthVars, localQ, marks>>

-----------------------------------------------------------------------------
\* The worker.  before_job_run of the active backend; after_job_run of both.

\* A job a cap denies is left to the scan, if there is one.
LeftToScan(p, j) == IF p \in scan
                    THEN owed' = [owed EXCEPT ![p] = @ \cup {j}] /\ UNCHANGED dropped
                    ELSE dropped' = dropped \cup {j} /\ UNCHANGED owed

\* FallbackLocalQueue.before_job_run: the user's running rows, and no look at the
\* job's own.  A denied job becomes QUEUED; its slot is not given back.
AskFallback(p) ==
    /\ At(p, "check") /\ p \notin ok
    /\ LET j == w[p].job
           busy == {k \in Jobs : row[k] = "RUNNING" /\ OwnerOf[k] = OwnerOf[j]}
       IN IF setup.cap > 0 /\ Cardinality(busy) >= setup.cap
          THEN /\ row' = [row EXCEPT ![j] = "QUEUED"]
               /\ Forget(p, j) /\ LeftToScan(p, j) /\ Rests(p) /\ UNCHANGED starts
          ELSE /\ UNCHANGED <<seen, marks>>
               /\ IF j \in canceled[p]
                  THEN /\ row' = [row EXCEPT ![j] = "CANCELED"]
                       /\ Goes(p, "after") /\ UNCHANGED starts
                  ELSE /\ row' = [row EXCEPT ![j] = "RUNNING"]
                       /\ starts' = [starts EXCEPT ![j] = @ + 1]
                       /\ Goes(p, "run")
    /\ UNCHANGED <<redisVars, up, boot, hand, asyncQ, has, canceled, mover, pass2, bounds,
                   serverVars, sha, healthVars, broken, heap, slots, disp>>

\* RedisQueue.before_job_run, when Redis answers.  A job let go of because it is
\* counted as running is in no queue.
ABCheck(p) ==
    /\ redisUp /\ p \in ok
    /\ Check(p)
    /\ LET j == w[p].job IN
       dropped' = IF row[j] \notin Terminal /\ Denied(j) /\ j \in running
                  THEN dropped \cup {j} ELSE dropped
    /\ UNCHANGED <<Rest, seen, heap, slots>>

\* The rest of it and after_job_run.
ABWork(p) ==
    /\ \/ Take(p)
       \/ redisUp /\ \/ Defer(p) \/ Release(p) \/ Admit(p) \/ AdmitBusy(p)
                     \/ After(p) \/ Unlock(p)
    /\ Same

\* When it does not: the caps cannot be read, and the worker lets go of the job; a
\* deferral, a count or a release is skipped.
WorkFails(p) ==
    /\ ~redisUp
    /\ LET j == w[p].job IN
       \/ At(p, "check") /\ p \in ok /\ Rests(p) /\ UNCHANGED has
       \/ At(p, "defer") /\ Goes(p, "release") /\ UNCHANGED has
       \/ At(p, "release") /\ Rests(p) /\ UNCHANGED has
       \/ At(p, "admit") /\ j \notin has[p] /\ Rests(p) /\ UNCHANGED has
    /\ broken' = TRUE
    /\ UNCHANGED <<redisVars, hand, asyncQ, mover, starts, Others,
                   serverVars, sha, healthVars, localQ, marks>>

AfterFails(p) ==
    /\ ~redisUp
    /\ LET j == w[p].job IN
       \/ /\ At(p, "after") /\ Goes(p, "unlock") /\ UNCHANGED has
          /\ broken' = (broken \/ j \in running)
       \/ /\ At(p, "unlock") /\ Rests(p) /\ has' = [has EXCEPT ![p] = @ \ {j}]
          /\ broken' = (broken \/ lock[j] = p)
    /\ UNCHANGED <<redisVars, hand, asyncQ, mover, starts, Others,
                   serverVars, sha, healthVars, localQ, marks>>

\* A token at hand: the job runs, without being counted.
AdmitBlind(p) ==
    /\ ~redisUp /\ At(p, "admit")
    /\ LET j == w[p].job IN
       /\ j \in has[p]
       /\ IF j \in canceled[p]
          THEN /\ row' = [row EXCEPT ![j] = "CANCELED"]
               /\ Goes(p, "after") /\ UNCHANGED starts
          ELSE /\ row' = [row EXCEPT ![j] = "RUNNING"]
               /\ starts' = [starts EXCEPT ![j] = @ + 1]
               /\ Goes(p, "run")
    /\ Same
    /\ UNCHANGED <<redisVars, up, boot, hand, asyncQ, has, canceled, mover, pass2, bounds>>

\* Scheduler.on_job_done, whether or not the job had a slot.
SlotBack(p) == slots' = [slots EXCEPT ![p] = IF @ = 0 THEN 0 ELSE @ - 1]

\* The end of a run; pass 2 goes to the backend that is active then.
ABEndRun(p) ==
    /\ Ends(p)
    /\ IF EndsPass1(w[p].job) THEN Offer(p, w[p].job)
                              ELSE UNCHANGED <<pending, ttl, seen, heap, dropped>>
    /\ SlotBack(p)
    /\ UNCHANGED Rest

-----------------------------------------------------------------------------
\* The local scheduler and the fallback queue.

Local == <<redisVars, hand, has, canceled, w, mover, row, up, boot, pass2, starts, bounds>>

\* Scheduler._dispatch_loop and _enqueue_one: a job and a slot; the slot is given back
\* at once when the job is not QUEUED.  The dispatcher is a thread, which the scheduler
\* has from the start, and which waits for the event loop to take the job over.
Dispatch(p, j) ==
    /\ up[p] \in {"boot", "up"} /\ disp[p] = NoJob
    /\ heap[p][j] > 0 /\ slots[p] < MaxGlobal
    /\ heap' = [heap EXCEPT ![p][j] = @ - 1]
    /\ IF row[j] = "QUEUED"
       THEN /\ slots' = [slots EXCEPT ![p] = @ + 1]
            /\ disp' = [disp EXCEPT ![p] = j]
       ELSE UNCHANGED <<slots, disp>>
    /\ UNCHANGED <<Local, asyncQ, serverVars, sha, healthVars, broken, seen, marks>>

\* JobQueue.enqueue: the row is written as the dispatcher read it, QUEUED, whatever has
\* become of the job since (its pass is in LocalQueue), and the worker gets the job.
HandOver(p) ==
    /\ up[p] \in {"up", "drain"} /\ w[p].pc # "run" /\ disp[p] # NoJob
    /\ row' = [row EXCEPT ![disp[p]] = "QUEUED"]
    /\ asyncQ' = [asyncQ EXCEPT ![p] = Append(@, disp[p])]
    /\ disp' = [disp EXCEPT ![p] = NoJob]
    /\ UNCHANGED <<redisVars, hand, has, canceled, w, mover, up, boot, pass2, starts, bounds,
                   serverVars, sha, healthVars, broken, seen, heap, slots, marks>>

\* One round of _scan_loop.
NewlyQueued(p) == {j \in Jobs : row[j] = "QUEUED"} \ seen[p]
Scan(p) ==
    /\ Loop(p) /\ p \in scan /\ NewlyQueued(p) # {}
    /\ heap' = [heap EXCEPT ![p] = [j \in Jobs |-> IF j \in NewlyQueued(p) THEN @[j] + 1 ELSE @[j]]]
    /\ seen' = [seen EXCEPT ![p] = @ \cup NewlyQueued(p)]
    /\ owed' = [owed EXCEPT ![p] = {}] /\ dropped' = dropped \ NewlyQueued(p)
    /\ UNCHANGED <<Local, asyncQ, serverVars, sha, healthVars, broken, slots, disp>>

\* Mutant: the flag is not cleared.
PingSticky(p) ==
    /\ Loop(p)
    /\ ok' = IF redisUp THEN ok \cup {p} ELSE ok
    /\ UNCHANGED <<Local, asyncQ, serverVars, sha, mon, scan, localQ, broken, marks>>

\* RedisQueue._health_loop
Ping(p) ==
    /\ Loop(p)
    /\ ok' = IF redisUp THEN ok \cup {p} ELSE ok \ {p}
    /\ UNCHANGED <<Local, asyncQ, serverVars, sha, mon, scan, localQ, broken, marks>>

\* _monitor_loop: the scan is stopped, and what it has seen forgotten, when Redis
\* becomes active, and started when it no longer is.
Monitor(p) ==
    /\ Loop(p)
    /\ LET active == Forced \/ p \in ok
       IN /\ active # (p \in mon)
          /\ mon' = IF active THEN mon \cup {p} ELSE mon \ {p}
          /\ scan' = IF active THEN scan \ {p} ELSE scan \cup {p}
          /\ seen' = IF active THEN [seen EXCEPT ![p] = {}] ELSE seen
          /\ owed' = IF active THEN [owed EXCEPT ![p] = {}] ELSE owed
          /\ dropped' = IF active THEN dropped \cup owed[p] ELSE dropped
    /\ UNCHANGED <<Local, asyncQ, serverVars, sha, ok, heap, slots, disp, broken>>

-----------------------------------------------------------------------------
\* Redis goes and comes; instances die, are stopped, and are started.

Flip ==
    /\ flips < setup.flips /\ flips' = flips + 1
    /\ redisUp' = ~redisUp
    /\ loaded' = (loaded /\ ~(setup.reboot /\ redisUp'))
    /\ UNCHANGED <<rqVars, sha, healthVars, localQ, broken, marks>>

Empty(p) ==
    /\ ok' = ok \ {p} /\ mon' = mon \ {p} /\ scan' = scan \ {p}
    /\ seen' = [seen EXCEPT ![p] = {}]
    /\ heap' = [heap EXCEPT ![p] = [j \in Jobs |-> 0]]
    /\ slots' = [slots EXCEPT ![p] = 0] /\ disp' = [disp EXCEPT ![p] = NoJob]
    /\ owed' = [owed EXCEPT ![p] = {}]
    /\ UNCHANGED <<serverVars, sha, broken, dropped>>

ABCrash(p) == Crash(p) /\ Empty(p)

\* stop_all: the backend's loops end, tokens are dropped and locks left to run out,
\* the scheduler stops; the worker goes on with what it has and is still handed.
Stop(p) ==
    /\ Loop(p) /\ crashes < setup.crashes /\ crashes' = crashes + 1
    /\ up' = [up EXCEPT ![p] = "drain"]
    /\ hand' = [hand EXCEPT ![p] = NoJob] /\ mover' = [mover EXCEPT ![p] = Still]
    /\ has' = [has EXCEPT ![p] = {}]
    /\ lock' = [j \in Jobs |-> IF lock[j] = p THEN Ghost ELSE lock[j]]
    /\ mon' = mon \ {p} /\ scan' = scan \ {p}
    /\ seen' = [seen EXCEPT ![p] = {}]
    /\ heap' = [heap EXCEPT ![p] = [j \in Jobs |-> 0]]
    /\ owed' = [owed EXCEPT ![p] = {}]
    /\ UNCHANGED <<pending, delayed, attempts, ttl, spent, running, dlq, row, boot, asyncQ,
                   canceled, w, pass2, starts, setup, ops, ok, slots, disp, serverVars, sha,
                   broken, dropped>>

\* Nothing is left to do, or the time for it (DRAIN_TIMEOUT_SEC) is over.
Exit(p) ==
    /\ up[p] = "drain"
    /\ up' = [up EXCEPT ![p] = "down"]
    /\ asyncQ' = [asyncQ EXCEPT ![p] = <<>>] /\ w' = [w EXCEPT ![p] = Idle]
    /\ has' = [has EXCEPT ![p] = {}] /\ canceled' = [canceled EXCEPT ![p] = {}]
    /\ lock' = [j \in Jobs |-> IF lock[j] = p THEN Ghost ELSE lock[j]]
    /\ Empty(p)
    /\ UNCHANGED <<pending, delayed, attempts, ttl, spent, running, dlq, row, boot, hand, mover,
                   pass2, starts, bounds>>

\* The script is loaded when Redis answers at the start.  The flag is not set before
\* the first ping, so that the fallback queue is started and gets all recovered jobs.
ABComeback(p) ==
    \/ /\ Restart(p)
       /\ sha' = IF redisUp THEN sha \cup {p} ELSE sha \ {p}
       /\ loaded' = (loaded \/ redisUp)
       /\ scan' = scan \cup {p}
       /\ UNCHANGED <<redisUp, flips, ok, mon, localQ, broken, marks>>
    \/ \E j \in Jobs : /\ Recover(p, j) /\ Push(p, j) /\ Forget(p, j)
                      /\ dropped' = dropped \ {j} /\ UNCHANGED <<Rest, slots>>
    \/ Started(p) /\ Same

ABExpire(j) == (ExpireGhost(j) \/ ExpireMeta(j)) /\ Same

\* A lock whose job the instance has let go of is not refreshed.
ExpireLeft(j) ==
    /\ lock[j] \in Procs /\ ~Holds(lock[j], j)
    /\ lock' = [lock EXCEPT ![j] = Free]
    /\ Same /\ UNCHANGED <<pending, delayed, attempts, ttl, spent, running, dlq, localVars, starts,
                           Others>>

-----------------------------------------------------------------------------

Request == \E p \in Procs, j \in Jobs : ABSubmit(p, j) \/ ABCancel(p, j) \/ ABPause(p, j)
Run(p) == \/ ABCheck(p) \/ ABWork(p) \/ AskFallback(p) \/ WorkFails(p) \/ AfterFails(p) \/ AdmitBlind(p)
          \/ ABEndRun(p)
Poll(p) == ABConsume(p) \/ DeliverBlind(p)
Shift(p) == ABMove(p) \/ MoverFails(p)
Watch(p) == Ping(p) \/ Monitor(p)

ABNext ==
    \/ Request \/ Flip
    \/ \E p \in Procs : \/ Run(p) \/ Poll(p) \/ Shift(p) \/ Watch(p) \/ Scan(p)
                        \/ HandOver(p) \/ \E j \in Jobs : Dispatch(p, j)
                        \/ ABCrash(p) \/ Stop(p) \/ Exit(p) \/ ABComeback(p)
    \/ \E j \in Jobs : ABExpire(j) \/ ExpireLeft(j)

ABSpec == ABInit /\ [][ABNext]_abVars

\* Loops go on, a run ends (its phases have timeouts), expired keys are dropped, a
\* stopped instance exits and a dead one is started again.  Redis need not return.
ABFair ==
    /\ \A p \in Procs : /\ WF_abVars(Run(p)) /\ WF_abVars(Poll(p)) /\ WF_abVars(Shift(p))
                        /\ WF_abVars(Ping(p)) /\ WF_abVars(Monitor(p)) /\ WF_abVars(Scan(p))
                        /\ \A j \in Jobs : WF_abVars(Dispatch(p, j))
                        /\ WF_abVars(HandOver(p))
                        /\ WF_abVars(Exit(p)) /\ WF_abVars(ABComeback(p))
    /\ \A j \in Jobs : WF_abVars(ABExpire(j) \/ ExpireLeft(j))
ABFairSpec == ABSpec /\ ABFair

-----------------------------------------------------------------------------

ABTypeOK ==
    /\ RQTypeOK
    /\ redisUp \in BOOLEAN /\ loaded \in BOOLEAN /\ broken \in BOOLEAN /\ flips \in Nat
    /\ sha \subseteq Procs /\ ok \subseteq Procs /\ mon \subseteq Procs /\ scan \subseteq Procs
    /\ seen \in [Procs -> SUBSET Jobs]
    /\ heap \in [Procs -> [Jobs -> Nat]]
    /\ slots \in [Procs -> 0 .. MaxGlobal]
    /\ disp \in [Procs -> Jobs \cup {NoJob}]
    /\ owed \in [Procs -> SUBSET Jobs] /\ dropped \subseteq Jobs

\* Where a QUEUED job is: in Redis (also among the dead letters), on its way in an
\* instance, or an instance will come to it, by its scan or by the recovery when it
\* starts.
Kept(j) ==
    \/ j \in pending \cup delayed \cup dlq
    \/ \E p \in setup.procs :
          \/ up[p] \in {"down", "drain"} \/ j \in boot[p]
          \/ Holds(p, j) \/ mover[p].cur = j \/ heap[p][j] > 0 \/ disp[p] = j
          \/ p \in scan /\ j \notin seen[p]

\* A QUEUED job is lost in three ways only: Redis fails in the middle of an operation;
\* a worker lets go of a job over the cap because it is counted as running, as it may
\* be by what an instance that died left behind; and the fallback queue leaves a job
\* over the cap to a scan that is not running, or is stopped before its next round.
\* Otherwise no change of backends, death, stop or interleaving loses one.
QueuedIsKept == ~broken => \A j \in Jobs \ dropped : row[j] = "QUEUED" => Kept(j)

\* A slot is lost with every job that is dispatched and then not run: denied, canceled
\* or final.  All slots of the instance are lost when they are taken and it has no job.
OutOfSlots(p) == /\ slots[p] = MaxGlobal /\ disp[p] = NoJob
                 /\ asyncQ[p] = <<>> /\ w[p] = Idle

\* Every QUEUED job is taken up or becomes a dead letter, by whichever backend, unless it
\* was lost as above or an instance is out of slots.  Not where users pause jobs: a
\* paused job that was claimed keeps its lock, and when it is pending again as well
\* it stands before all others until the lock runs out.
QueuedProceeds ==
    "pause" \notin setup.ops =>
        \A j \in Jobs : row[j] = "QUEUED" ~>
            \/ row[j] # "QUEUED" \/ j \in dlq
            \/ broken \/ j \in dropped \/ \E p \in setup.procs : OutOfSlots(p)

==============================================================================
