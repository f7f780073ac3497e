------------------------------ MODULE LocalQueue ------------------------------
(***************************************************************************)
(* The job queue without Redis: the SQLite job store, the HTTP handlers    *)
(* that change a job (submit, cancel, pause, resume, delete, re-run), the  *)
(* fallback backend's scan loop, the scheduler's dispatcher thread and the *)
(* asyncio workers that run jobs (jobs/queue_impl.py, queue/               *)
(* fallback_local_queue.py, server.py, web/routes/*, runtime/scheduler.py).*)
(*                                                                         *)
(* Two threads.  Handlers, scan loop, enqueue coroutines and workers share *)
(* one event loop, and a stretch of code between two awaits that really    *)
(* suspend is one step.  _run_job never suspends from start to end of the  *)
(* pipeline: while a worker is in "run" or "final" the loop does nothing   *)
(* else.  Only the completion notification awaits a thread.  The other     *)
(* thread is the dispatcher, which reads and writes the store by itself    *)
(* and enters the loop through run_coroutine_threadsafe.                   *)
(***************************************************************************)
EXTENDS Scheduler

CONSTANTS
    Workers,        \* the tasks of JobQueue._worker (JOBS_CONCURRENCY)
    OwnerOf,        \* Job.owner_id
    MaxPerUser,     \* MAX_CONCURRENT_JOBS_PER_USER, 0: no limit
    TwoPassModes,   \* modes with two-pass voice cloning
    Notify,         \* BOOLEAN: job-finished notifications are configured
    UserOps,        \* the user operations of this instance
    QuotaMayReject, \* BOOLEAN: require_concurrent_jobs may answer 429
    MaxOps,         \* bound of the model: user operations
    MaxCrashes,     \* bound of the model: restarts of the server
    MaxFaults       \* bound of the model: exceptions that kill a worker

OpNames == {"cancel", "adminCancel", "delete", "pause", "resume", "rerun"}

ASSUME LocalQueueAssumption ==
    /\ UserOps \subseteq OpNames
    /\ MaxPerUser \in Nat
    /\ TwoPassModes \subseteq Modes
    /\ Notify \in BOOLEAN /\ QuotaMayReject \in BOOLEAN
    /\ MaxOps \in Nat /\ MaxCrashes \in Nat /\ MaxFaults \in Nat
    /\ 100 \in Priorities /\ 110 \in Priorities /\ 120 \in Priorities

VARIABLES
    store,     \* the jobs table: a record per job, NoRec when there is none
    calls,     \* q.enqueue coroutines handed to the loop and not yet run
    asyncQ,    \* JobQueue._q
    canceled,  \* JobQueue._cancel
    seen,      \* FallbackLocalQueue._seen
    worker,    \* what each worker task is doing
    dpc,       \* where the dispatcher stands with the record it holds
    snap,      \* the job the dispatcher read before bringing its mode up to date
    boot,      \* jobs JobQueue.start() has still to recover
    asked,     \* history: what the users last asked for each job
    ops, crashes, faults  \* how much of each bound is used up

loopVars == <<calls, asyncQ, canceled, seen, worker>>
budget == <<ops, crashes, faults>>
lqVars == <<schedVars, store, loopVars, dpc, snap, boot, asked, budget>>

States == {"QUEUED", "PAUSED", "RUNNING", "DONE", "FAILED", "CANCELED"}
Final == {"DONE", "FAILED", "CANCELED"}

\* A row of the store: state and mode, and from runtime.two_pass the phase, a
\* pending rerun request and voice_clone_two_pass.
Row == [st : States, mode : Modes, phase : {"pass1", "pass2", "done"},
        req : BOOLEAN, clone : BOOLEAN]

\* What stands for "no record" and "no row" is neither.
ASSUME NoRecAssumption == NoRec \notin Record \cup Row

Idle == [pc |-> "idle"]
More == [pc |-> "next"]
Dead == [pc |-> "dead"]
Busy == [pc : {"sleep"}, job : Jobs]
        \cup [pc : {"run"}, job : Jobs, mode : Modes, two : BOOLEAN, phase : {"pass1", "pass2", "done"}]
        \cup [pc : {"final", "notify"}, job : Jobs, ok : BOOLEAN]

Exists(j) == store[j] # NoRec
InState(j, s) == Exists(j) /\ store[j].st = s

\* store.update(): does nothing when there is no such row.
SetState(j, s) == IF Exists(j) THEN [store EXCEPT ![j].st = s] ELSE store

\* The worker holds the loop: it is inside _run_job, or about to take the next
\* id of a queue that is not empty (Queue.get() then returns at once).
Blocking(w) == worker[w].pc \in {"run", "final", "next"}
LoopFree == boot = {} /\ \A w \in Workers : ~Blocking(w)

\* FallbackLocalQueue.submit_job() and the scan, on the store s: push a record,
\* and write a mode degraded by backpressure back to the job.
Enter(s, j, m, p) ==
    /\ Push(j, m, p)
    /\ store' = IF SubmittedMode(m) = m \/ s[j] = NoRec
                THEN s
                ELSE [s EXCEPT ![j].mode = SubmittedMode(m)]
    /\ UNCHANGED <<slotVars, inHand, stopped>>

Resubmit(s, j, m, p) == Enter(s, j, m, p) /\ seen' = seen \ {j}

-----------------------------------------------------------------------------

LQInit ==
    /\ SchedInit
    /\ store = [j \in Jobs |-> NoRec]
    /\ calls = <<>> /\ asyncQ = <<>>
    /\ canceled = {} /\ seen = {}
    /\ worker = [w \in Workers |-> Idle]
    /\ dpc = "none" /\ snap = NoRec
    /\ boot = {}
    /\ asked = [j \in Jobs |-> "none"]
    /\ ops = 0 /\ crashes = 0 /\ faults = 0

\* A handler of the API: runs when the loop is free, one step.
Asking(j, what) ==
    /\ LoopFree
    /\ ops < MaxOps
    /\ ops' = ops + 1
    /\ asked' = [asked EXCEPT ![j] = what]
    /\ UNCHANGED <<calls, asyncQ, worker, dpc, snap, boot, crashes, faults>>

\* POST /api/jobs: a new id; store.put, then submit_job.
SubmitJob(j, m) ==
    /\ asked[j] = "none"
    /\ Asking(j, "run")
    /\ Resubmit([store EXCEPT ![j] = [st |-> "QUEUED", mode |-> m, phase |-> "pass1",
                                      req |-> FALSE, clone |-> FALSE]], j, m, 100)
    /\ UNCHANGED canceled

\* POST /api/jobs/{id}/cancel and /kill: whatever the job's state is.
CancelJob(j) ==
    /\ "cancel" \in UserOps /\ Exists(j)
    /\ Asking(j, "cancel")
    /\ canceled' = canceled \cup {j}
    /\ store' = SetState(j, "CANCELED")
    /\ UNCHANGED <<schedVars, seen>>

\* POST /api/admin/jobs/{id}/cancel: also drops the job's heap records.
AdminCancel(j) ==
    /\ "adminCancel" \in UserOps /\ asked[j] # "none"
    /\ Asking(j, "cancel")
    /\ Drop(j)
    /\ canceled' = canceled \cup {j}
    /\ store' = SetState(j, "CANCELED")
    /\ UNCHANGED seen

\* DELETE /api/jobs/{id}: kill, remove the artifacts, delete the row.
DeleteJob(j) ==
    /\ "delete" \in UserOps /\ Exists(j)
    /\ Asking(j, "cancel")
    /\ canceled' = canceled \cup {j}
    /\ store' = [store EXCEPT ![j] = NoRec]
    /\ UNCHANGED <<schedVars, seen>>

\* POST /api/jobs/{id}/pause
Pause(j) ==
    /\ "pause" \in UserOps /\ InState(j, "QUEUED")
    /\ Asking(j, "pause")
    /\ store' = SetState(j, "PAUSED")
    /\ UNCHANGED <<schedVars, seen, canceled>>

\* Mutant: a resumed job is left to the scan loop, which has seen it.
RequeueScanOnly(s, j, m, p) == store' = s /\ UNCHANGED <<schedVars, seen, canceled>>

\* The row is QUEUED before the quota is checked: a 429 leaves it so.
RequeueOr429(s, j, m, p) ==
    /\ \/ Resubmit(s, j, m, p)
       \/ QuotaMayReject /\ store' = s /\ UNCHANGED <<schedVars, seen>>
    /\ UNCHANGED canceled

\* POST /api/jobs/{id}/resume
Resume(j) ==
    /\ "resume" \in UserOps /\ InState(j, "PAUSED")
    /\ Asking(j, "run")
    /\ RequeueOr429(SetState(j, "QUEUED"), j, store[j].mode, 100)

\* POST /api/jobs/{id}/two_pass/rerun: from any state.
Rerun(j) ==
    /\ "rerun" \in UserOps /\ Exists(j)
    /\ Asking(j, "run")
    /\ RequeueOr429([store EXCEPT ![j].st = "QUEUED", ![j].req = TRUE, ![j].clone = TRUE],
                    j, store[j].mode, 110)

UserAction ==
    \E j \in Jobs :
        \/ \E m \in InModes : SubmitJob(j, m)
        \/ CancelJob(j) \/ AdminCancel(j) \/ DeleteJob(j)
        \/ Pause(j) \/ Resume(j) \/ Rerun(j)

-----------------------------------------------------------------------------
\* FallbackLocalQueue._scan_loop: every QUEUED job not seen yet is submitted.
\* (One job a step; the loop takes all of them in one.)

Scan(j) ==
    /\ LoopFree
    /\ InState(j, "QUEUED") /\ j \notin seen
    /\ seen' = seen \cup {j}
    /\ Enter(store, j, store[j].mode, 100)
    /\ UNCHANGED <<calls, asyncQ, canceled, worker, dpc, snap, boot, asked, budget>>

-----------------------------------------------------------------------------
\* The dispatcher thread (Scheduler._dispatch_loop and _enqueue_one).

Elsewhere == <<asyncQ, canceled, seen, worker, boot, asked, budget>>

Pop ==
    /\ Dispatch
    /\ dpc' = "read"
    /\ UNCHANGED <<store, calls, snap, Elsewhere>>

\* run_coroutine_threadsafe(q.enqueue(job)), then fut.result(timeout=5.0).
Call(row) ==
    /\ calls' = Append(calls, [job |-> inHand.job, row |-> row])
    /\ dpc' = "wait"

\* Mutant: the state of the job is not looked at.
EnqueuableIfThere(j) == Exists(j)

Enqueuable(j) == InState(j, "QUEUED")

\* store.get(): the job must still be QUEUED.
ReadJob ==
    /\ dpc = "read"
    /\ IF ~Enqueuable(inHand.job)
       THEN GiveBack /\ dpc' = "none" /\ UNCHANGED <<store, calls, snap>>
       ELSE /\ IF inHand.mode = store[inHand.job].mode
               THEN Call(store[inHand.job]) /\ UNCHANGED snap
               ELSE dpc' = "sync" /\ snap' = store[inHand.job] /\ UNCHANGED calls
            /\ UNCHANGED <<schedVars, store>>
    /\ UNCHANGED Elsewhere

\* job = store.update(mode=rec.mode) or job
SyncMode ==
    /\ dpc = "sync"
    /\ LET j == inHand.job IN
       IF Exists(j)
       THEN /\ store' = [store EXCEPT ![j].mode = inHand.mode]
            /\ Call(store'[j])
       ELSE Call(snap) /\ UNCHANGED store
    /\ snap' = NoRec
    /\ UNCHANGED <<schedVars, Elsewhere>>

\* The loop is held by a running job for five seconds: TimeoutError.  The job
\* is FAILED and the slot goes back; the coroutine stays scheduled.
EnqueueTimeout ==
    /\ dpc = "wait"
    /\ \E w \in Workers : worker[w].pc = "run"
    /\ store' = SetState(inHand.job, "FAILED")
    /\ GiveBack
    /\ dpc' = "none"
    /\ UNCHANGED <<calls, snap, Elsewhere>>

\* JobQueue.enqueue(): store.put(job), then the id goes to the workers.  The
\* dispatcher waits for the last call made, unless it timed out.
RunCall ==
    /\ LoopFree /\ calls # <<>>
    /\ LET c == Head(calls) IN
          /\ store' = [store EXCEPT ![c.job] = c.row]
          /\ asyncQ' = Append(asyncQ, c.job)
    /\ calls' = Tail(calls)
    /\ IF Len(calls) = 1 /\ dpc = "wait"
       THEN HandOver /\ dpc' = "none"
       ELSE UNCHANGED <<schedVars, dpc>>
    /\ UNCHANGED <<canceled, seen, worker, snap, boot, asked, budget>>

-----------------------------------------------------------------------------
\* JobQueue._worker and _run_job.

Outside == <<calls, dpc, snap, boot, asked, ops, crashes>>

\* The worker takes the next id.  What follows runs in the same step.
Takes(w, j) ==
    /\ worker[w].pc = "idle" => LoopFree
    /\ worker[w].pc \in {"idle", "next"}
    /\ asyncQ # <<>>
    /\ j = Head(asyncQ)
    /\ UNCHANGED Outside

Becomes(w, s) == worker' = [worker EXCEPT ![w] = s]

\* The worker asks for the next id, with q left in the queue.
Asks(w, q) == Becomes(w, IF q = <<>> THEN Idle ELSE More)

\* A paused job: the worker sleeps 0.25 s and puts the id back.
TakePaused(w, j) ==
    /\ Takes(w, j) /\ InState(j, "PAUSED")
    /\ asyncQ' = Tail(asyncQ)
    /\ Becomes(w, [pc |-> "sleep", job |-> j])
    /\ UNCHANGED <<schedVars, store, canceled, seen, faults>>

\* Mutant: a paused job gives its slot back.
WakeReleases(w) ==
    /\ LoopFree /\ worker[w].pc = "sleep"
    /\ asyncQ' = Append(asyncQ, worker[w].job)
    /\ Becomes(w, More)
    /\ ReleaseSlot(worker[w].job)
    /\ UNCHANGED <<heapVars, inHand, stopped, Outside, store, canceled, seen, faults>>

Wake(w) ==
    /\ LoopFree /\ worker[w].pc = "sleep"
    /\ asyncQ' = Append(asyncQ, worker[w].job)
    /\ Becomes(w, More)
    /\ UNCHANGED <<schedVars, Outside, store, canceled, seen, faults>>

\* before_job_run(): the owner already has MaxPerUser RUNNING jobs.
RunningOf(u) == {k \in Jobs : InState(k, "RUNNING") /\ OwnerOf[k] = u}
\* Mutant: an off-by-one on the limit.
DeniedAbove(j) == Exists(j) /\ MaxPerUser > 0
                  /\ Cardinality(RunningOf(OwnerOf[j])) > MaxPerUser

Denied(j) == Exists(j) /\ MaxPerUser > 0
             /\ Cardinality(RunningOf(OwnerOf[j])) >= MaxPerUser

\* The job is QUEUED again for the scan to submit; its slot is not given back.
TakeDenied(w, j) ==
    /\ Takes(w, j) /\ ~InState(j, "PAUSED") /\ Denied(j)
    /\ asyncQ' = Tail(asyncQ)
    /\ store' = SetState(j, "QUEUED")
    /\ seen' = seen \ {j}
    /\ Asks(w, Tail(asyncQ))
    /\ UNCHANGED <<schedVars, canceled, faults>>

\* Mutant: _run_job does not look at the cancel set.
NeverCanceled(j) == FALSE

WasCanceled(j) == j \in canceled

\* _run_job() returns early, without on_job_done: no such job, or canceled.
TakeNothing(w, j) ==
    /\ Takes(w, j) /\ ~InState(j, "PAUSED") /\ ~Denied(j)
    /\ ~Exists(j) \/ WasCanceled(j)
    /\ asyncQ' = Tail(asyncQ)
    /\ store' = SetState(j, "CANCELED")
    /\ Asks(w, Tail(asyncQ))
    /\ UNCHANGED <<schedVars, canceled, seen, faults>>

Startable(j) == Exists(j) /\ ~InState(j, "PAUSED") /\ ~Denied(j) /\ ~WasCanceled(j)

\* Two-pass orchestration: a rerun request forces pass 2.
TwoPass(r) == r.clone \/ r.req \/ r.mode \in TwoPassModes
PhaseOf(r) == IF r.req THEN "pass2" ELSE r.phase
Started(r) == [r EXCEPT !.st = "RUNNING", !.phase = PhaseOf(r)]

Start(w, j) ==
    /\ Takes(w, j) /\ Startable(j)
    /\ asyncQ' = Tail(asyncQ)
    /\ store' = [store EXCEPT ![j] = Started(@)]
    /\ Becomes(w, [pc |-> "run", job |-> j, mode |-> store[j].mode,
                   two |-> TwoPass(store[j]), phase |-> PhaseOf(store[j])])
    /\ UNCHANGED <<schedVars, canceled, seen, faults>>

\* An exception before the try block of _run_job ends the worker task.
StartFails(w, j) ==
    /\ Takes(w, j) /\ Startable(j)
    /\ faults < MaxFaults /\ faults' = faults + 1
    /\ asyncQ' = Tail(asyncQ)
    /\ store' \in {store, [store EXCEPT ![j] = Started(@)]}
    /\ Becomes(w, Dead)
    /\ UNCHANGED <<schedVars, canceled, seen>>

InRun(w) == worker[w].pc = "run" /\ UNCHANGED <<Outside, asyncQ, canceled, faults>>
EndsPass1(w) == worker[w].two /\ worker[w].phase # "pass2"

\* End of pass 1: QUEUED again and submitted, before the slot is given back.
EndPass1(w) ==
    /\ InRun(w) /\ EndsPass1(w)
    /\ LET j == worker[w].job
           s == [store EXCEPT ![j].st = "QUEUED", ![j].phase = "pass2", ![j].clone = TRUE]
       IN  /\ Resubmit(s, j, worker[w].mode, 120)
           /\ Becomes(w, [pc |-> "final", job |-> j, ok |-> FALSE])

\* End of the pipeline; DONE or FAILED is written before the notification.
EndRun(w, s) ==
    /\ InRun(w)
    /\ store' = SetState(worker[w].job, s)
    /\ Becomes(w, [pc |-> IF Notify THEN "notify" ELSE "final",
                   job |-> worker[w].job, ok |-> s = "DONE"])
    /\ UNCHANGED <<schedVars, seen>>

EndDone(w) == EndRun(w, "DONE") /\ ~EndsPass1(w)
EndFail(w) == EndRun(w, "FAILED")

\* Pass 2 without the checkpoints of pass 1 returns from the try block: DONE,
\* with no notification, the request and the phase left as they are.
EndPass2Early(w) ==
    /\ InRun(w) /\ worker[w].two /\ worker[w].phase = "pass2"
    /\ store' = SetState(worker[w].job, "DONE")
    /\ Becomes(w, [pc |-> "final", job |-> worker[w].job, ok |-> FALSE])
    /\ UNCHANGED <<schedVars, seen>>

\* After a DONE run the rerun request is cleared and pass 2 is marked done, on
\* the row as it is by then.
Cleared(r) == [r EXCEPT !.req = FALSE, !.phase = IF @ = "pass2" THEN "done" ELSE @]

\* The run goes on to its end, once the notification it awaits is out.
Returns(w) ==
    \/ worker[w].pc = "final"
    \/ worker[w].pc = "notify" /\ LoopFree

\* Mutant: on_job_done is only called for a run that ended well.
FinishKeepsFailed(w) ==
    /\ Returns(w)
    /\ LET j == worker[w].job IN
          /\ store' = IF worker[w].ok /\ Exists(j)
                      THEN [store EXCEPT ![j] = Cleared(@)] ELSE store
          /\ IF worker[w].ok THEN ReleaseSlot(j) ELSE UNCHANGED slotVars
    /\ Asks(w, asyncQ)
    /\ UNCHANGED <<heapVars, inHand, stopped, Outside, asyncQ, canceled, seen, faults>>

\* The rest of _run_job, with on_job_done in its finally clause.
Finish(w) ==
    /\ Returns(w)
    /\ LET j == worker[w].job IN
          /\ store' = IF worker[w].ok /\ Exists(j)
                      THEN [store EXCEPT ![j] = Cleared(@)] ELSE store
          /\ ReleaseSlot(j)
    /\ Asks(w, asyncQ)
    /\ UNCHANGED <<heapVars, inHand, stopped, Outside, asyncQ, canceled, seen, faults>>

Take(w) == \E j \in Jobs :
    TakePaused(w, j) \/ TakeDenied(w, j) \/ TakeNothing(w, j) \/ Start(w, j)
End(w) == EndPass1(w) \/ EndPass2Early(w) \/ EndDone(w) \/ EndFail(w)

-----------------------------------------------------------------------------
\* The server stops, by a crash or in order, and starts again.

\* Mutants: a job that was running is not picked up again; a failed one is.
UnfinishedQueued(j) == InState(j, "QUEUED")
UnfinishedOrFailed(j) == InState(j, "QUEUED") \/ InState(j, "RUNNING") \/ InState(j, "FAILED")

Unfinished(j) == InState(j, "QUEUED") \/ InState(j, "RUNNING")

Restart ==
    /\ crashes < MaxCrashes /\ crashes' = crashes + 1
    /\ ready' = <<>> /\ waiting' = <<>>
    /\ activeGlobal' = 0
    /\ activeByMode' = [m \in Modes |-> 0]
    /\ activeJobMode' = [j \in Jobs |-> NoMode]
    /\ inHand' = NoRec /\ open' = {} /\ stray' = 0
    /\ calls' = <<>> /\ asyncQ' = <<>> /\ canceled' = {} /\ seen' = {}
    /\ worker' = [w \in Workers |-> Idle]
    /\ dpc' = "none" /\ snap' = NoRec
    /\ boot' = {j \in Jobs : Unfinished(j)}
    /\ UNCHANGED <<stopped, store, asked, ops, faults>>

\* JobQueue.start(): the unfinished jobs are QUEUED and submitted again before
\* the workers are created.
Recover(j) ==
    /\ j \in boot
    /\ Resubmit(SetState(j, "QUEUED"), j, store[j].mode, 100)
    /\ boot' = boot \ {j}
    /\ UNCHANGED <<calls, asyncQ, canceled, worker, dpc, snap, asked, budget>>

-----------------------------------------------------------------------------

SchedStep(A) == A /\ UNCHANGED <<store, loopVars, dpc, snap, boot, asked, budget>>

DispatcherStep == SchedStep(Defer) \/ Pop \/ ReadJob \/ SyncMode

LQNext ==
    \/ UserAction
    \/ SchedStep(Ripen)
    \/ DispatcherStep \/ EnqueueTimeout \/ RunCall
    \/ \E j \in Jobs : Scan(j) \/ Recover(j)
    \/ \E w \in Workers : Take(w) \/ Wake(w) \/ End(w) \/ Finish(w)
    \/ \E w \in Workers, j \in Jobs : StartFails(w, j)
    \/ Restart

LQSpec == LQInit /\ [][LQNext]_lqVars

\* The threads keep running, time passes and a pipeline run ends (its phases
\* have timeouts); nothing is assumed of users, faults and restarts.
LQFairSpec ==
    /\ LQSpec
    /\ WF_lqVars(SchedStep(Ripen)) /\ WF_lqVars(DispatcherStep) /\ WF_lqVars(RunCall)
    /\ \A j \in Jobs : WF_lqVars(Scan(j)) /\ WF_lqVars(Recover(j))
    /\ \A w \in Workers : /\ WF_lqVars(Take(w)) /\ WF_lqVars(Wake(w))
                          /\ WF_lqVars(End(w)) /\ WF_lqVars(Finish(w))

-----------------------------------------------------------------------------

LQTypeOK ==
    /\ SchedTypeOK
    /\ store \in [Jobs -> Row \cup {NoRec}]
    /\ calls \in Seq([job : Jobs, row : Row])
    /\ asyncQ \in Seq(Jobs)
    /\ canceled \subseteq Jobs /\ seen \subseteq Jobs /\ boot \subseteq Jobs
    /\ worker \in [Workers -> {Idle, More, Dead} \cup Busy]
    /\ dpc \in {"none", "read", "sync", "wait"}
    /\ (dpc = "none") = (inHand = NoRec)
    /\ snap \in Row \cup {NoRec} /\ (dpc = "sync") = (snap # NoRec)
    /\ asked \in [Jobs -> {"none", "run", "pause", "cancel"}]
    /\ ops \in 0 .. MaxOps /\ crashes \in 0 .. MaxCrashes /\ faults \in 0 .. MaxFaults

\* Where a job can be on its way to a worker.
JobsOf(s) == {s[i].job : i \in DOMAIN s}
OnItsWay(j) ==
    \/ j \in boot \/ InHand(j)
    \/ j \in JobsOf(ready) \cup JobsOf(waiting) \cup JobsOf(calls)
    \/ \E i \in DOMAIN asyncQ : asyncQ[i] = j
    \/ \E w \in Workers : worker[w].pc = "sleep" /\ worker[w].job = j

\* No accepted job is lost: a QUEUED job is in the heap, in the dispatcher's
\* hand, in a coroutine or in a worker's queue, or the scan loop will still
\* submit it; through cancellations, pauses, re-runs, enqueue timeouts and
\* restarts.  (A worker that died may have taken an id with it.)
QueuedIsTracked ==
    (\A w \in Workers : worker[w] # Dead)
        => \A j \in Jobs : InState(j, "QUEUED") => OnItsWay(j) \/ j \notin seen

\* Work the dispatcher handed over and that did not end.
Working(w) == worker[w].pc \in {"sleep", "run", "notify", "final"}
InFlight == Len(calls) + Len(asyncQ) + Cardinality({w \in Workers : Working(w)})
            + (IF dpc \in {"read", "sync"} THEN 1 ELSE 0)

\* "Only one job dispatches at a time when MAX_CONCURRENCY_GLOBAL=1"; for any
\* value, MAX_CONCURRENCY_GLOBAL is the cap "the scheduler enforces".
GlobalCapHolds == InFlight <= MaxGlobal

\* No slot is lost: the scheduler's counter is the work in flight.
SlotsMatchWork == activeGlobal = InFlight

\* A job whose user canceled or deleted it last is not started afterwards, also
\* when an enqueue coroutine has written an old QUEUED row over CANCELED.
Starts(w, j) ==
    /\ worker[w].pc \in {"idle", "next"}
    /\ worker'[w].pc = "run" /\ worker'[w].job = j
CancelIsFinal == [][\A w \in Workers, j \in Jobs : Starts(w, j) => asked[j] # "cancel"]_lqVars

\* Only a QUEUED job is started: no job that ended is run a second time by a
\* record or an id left over from another submission.
RunsOnlyQueued ==
    [][\A w \in Workers, j \in Jobs : Starts(w, j) => InState(j, "QUEUED")]_lqVars

\* A final state only changes when a user asks for it.
FinalStays ==
    [][\A j \in Jobs, s \in Final :
          InState(j, s) => ops' # ops \/ InState(j, s)']_lqVars

\* A RUNNING row has a worker behind it, or the restarted server is about to
\* recover it: no job is left RUNNING for ever by a crash.
RunningIsWorked ==
    \A j \in Jobs : InState(j, "RUNNING") =>
        j \in boot \/ \E w \in Workers : worker[w].pc = "run" /\ worker[w].job = j

\* MAX_CONCURRENT_JOBS_PER_USER: before_job_run admits a job by counting the
\* owner's RUNNING rows, which a dead worker may have left behind; no
\* interleaving of workers, timed-out enqueues and stale puts brings an owner
\* over the limit.  It takes that no mode is degraded, or that there is one slot:
\* else SyncMode may read a row that is RUNNING by then, and its coroutine write
\* that row back beside a row of the owner that was started meanwhile.
UserCapHolds ==
    MaxPerUser > 0 =>
        \A j \in Jobs : Cardinality(RunningOf(OwnerOf[j])) <= MaxPerUser

\* Every QUEUED job is taken up, unless some job stays paused.
QueuedProceeds ==
    \A j \in Jobs : InState(j, "QUEUED")
        ~> ~InState(j, "QUEUED") \/ \E k \in Jobs : InState(k, "PAUSED")

==============================================================================
