# A formal model of the dubbing pipeline's job system

This directory models the parts of the dubbing server in which several
activities share state: what happens to a job between the HTTP request that
submits it and the worker that runs it. The modules are translated from the
Python source under `src/dubbing_pipeline/` (paths below are relative to that
directory); TLC checks them on small instances and TLAPS proves some of the
properties for every instance. `PROJECT.json` lists, for every definition, the
source lines it stands for, and for every property the run that checks it, a
mutation of the code's logic that breaks it, and the hazards it is aimed at.

## 1. The system

A FastAPI server accepts videos, runs a chain of speech models over them and
publishes the dubbed result. One process holds everything: the request handlers
and the job workers share one asyncio event loop, the scheduler has a thread of
its own, and SQLite keeps the jobs. Redis is optional.

| component | state | operations | talks to |
|---|---|---|---|
| Scheduler (`runtime/scheduler.py`) | delay heap, three slot counters, mode per active job | submit, drop, reprioritize, on_job_done, stop; dispatcher thread | job store (reads, degrades modes), JobQueue.enqueue through the event loop |
| JobQueue (`jobs/queue_impl.py`) | asyncio queue of ids, cancel set, worker tasks | enqueue, cancel, kill, pause, resume, start, graceful_shutdown; `_worker`, `_run_job` | store, scheduler (`on_job_done`), queue backend hooks, pipeline stages |
| Fallback backend (`queue/fallback_local_queue.py`) | set of ids seen by the scan | submit_job, cancel_job, before_job_run, scan loop | scheduler, store |
| Redis backend (`queue/redis_queue_impl.py`) | pending, delayed and dead-letter sets, locks with leases, per-user running sets, cancel flags | submit, claim, before/after_job_run, defer, mover, lock refresh, health | Redis, JobQueue.enqueue_id, store |
| Backend selection (`queue/manager.py`) | active mode, Redis health | submit, cancel, monitor, before/after_job_run | both backends |
| Lifecycle (`runtime/lifecycle.py`) | draining flag, background tasks | begin_draining, start_all, stop_all | everything above |
| Job store (`jobs/store_impl.py`) | SQLite tables: jobs, uploads, idempotency keys, quotas, library rows | put, get, update, list, delete and the same for the other tables | called from every thread |
| Endpoints (`web/routes/`, `api/routes/`) | none | submit, batch, cancel, pause, resume, delete, re-run, priority, uploads | policy, quotas, store, queue backend |
| Submission policy (`jobs/policy.py`, `jobs/limits.py`, `security/quotas.py`) | daily counters, storage reservations, in Redis or memory | check, reserve, release | store, Redis |
| Uploads (`web/routes/uploads.py`) | chunk map per upload, file on disk | init, chunk, complete, status, resume | store, quotas |
| Pipeline (`jobs/queue_impl.py` from line 544, `jobs/checkpoint.py`, `stages/`) | stage outputs and manifests on disk, checkpoint file | extract, diarise, transcribe, translate, synthesise, mix, export; resume | store, model manager, watchdog subprocesses |
| Models and devices (`runtime/model_manager.py`, `device_allocator.py`) | loaded models, reference counts, GPU memory | acquire, release, evict | stages |
| Resilience helpers (`utils/circuit.py`, `locks.py`, `ratelimit.py`, `jobs/watchdog.py`) | breaker state, lock files, buckets | call, acquire, run with timeout | stages, endpoints |
| Sessions (`api/auth/refresh_tokens.py`) | token families | issue, rotate, revoke | endpoints |
| Retention and storage (`ops/`, `storage/`) | files, usage totals | delete old artifacts, account | store, file system |
| Review, library, streaming, voices, CLI, web pages | files | mostly sequential | store, file system |

Section 8 says what is left out and why.

### How a job moves

`POST /api/jobs` puts a QUEUED row in the store and calls the backend's
`submit_job`, which pushes a record on the scheduler's heap. The dispatcher
thread pops the first due record whose mode has a free slot, takes a global and
a mode slot, re-reads the row (it must still be QUEUED), and hands a coroutine
to the event loop that writes the row back and appends the id to the worker
queue. A worker takes the id, asks the backend's `before_job_run`, and runs
`_run_job`, whose `finally` clause returns the slot with `on_job_done`.
Independently, a scan loop submits QUEUED rows it has not seen; handlers change
rows at any moment the event loop is free; and at start-up `JobQueue.start`
makes unfinished rows QUEUED again and submits them.

What is hard to test here, and is the aim of the properties:

* the same job has rows, heap records, coroutines, queue ids and slots that are
  created and consumed by different actors, and nothing ties them together;
* the dispatcher acts on rows it read before, in another thread;
* a worker holds the event loop for a whole pipeline run, so that a coroutine
  the dispatcher waits for five seconds may run minutes later;
* several paths of the worker leave without returning the slot;
* the heap, the queue, the cancel set and the seen set are lost at a restart;
* with Redis, several instances claim from one queue under locks with a time to
  live, each operation is several commands, and a monitor moves the server
  between Redis and the local scheduler by a flag that lags behind;
* a run skips stages by what three separate notes (the checkpoint of the output
  directory, the stages' own checkpoint, the cross-job cache) say of files that
  later passes, re-syntheses and other jobs overwrite or remove;
* a stage runs in a process that is forked from a server with threads, and is
  watched, killed and read by one that must not wait for it for ever;
* uploads and submissions of one user await their bodies, locks, quotas and the
  queue at different points, and what they reserved has to be given back on
  every way out.

## 2. The modules

| module | contents | instance for TLC | proofs |
|---|---|---|---|
| `SlotPool` | abstract specification: a pool of interchangeable slots | | |
| `Scheduler` | `runtime/scheduler.py` alone, in an arbitrary environment | `MCScheduler` | `SchedulerProofs` |
| `LocalQueue` | the whole path of a job without Redis; EXTENDS `Scheduler` and composes it with store, handlers, scan loop, event loop and workers | `MCLocalQueue` | `LocalQueueProofs` |
| `Pipeline` | what happens inside a run: stages, files, checkpoints, two passes | `MCPipeline` | `PipelineProofs` |
| `ExclusiveRuns` | abstract specification: runs of a job exclude each other and are bounded | | |
| `RedisQueue` | several instances over one Redis: claims, locks, caps, deferral, attempts, deaths | `MCRedisQueue` | `RedisQueueProofs` |
| `AutoBackend` | EXTENDS `RedisQueue` with the local scheduler, the choice between the two, a Redis that fails, start and stop | `MCAutoBackend` | `BackendProofs` |
| `Uploads` | resumable uploads, completion, retention | | `UploadsProofs` |
| `Submission` | EXTENDS `Uploads` with submissions of the same user: key, reservations, quotas, policy, row, queue | `MCIntake` | `SubmissionProofs` |
| `ModelManager` | the model cache of one process | | |
| `Circuit` | the breaker as a value and its operations | | |
| `StageProcess` | EXTENDS `ModelManager` (the server's) with stages in forked processes, each with a `ModelManager` and a `Circuit` of its own | `MCStageProcess` | `StageProofs` |

In the modules that TLC explores under several settings (`RedisQueue` and what
extends it, `Uploads`, `StageProcess`) a variable `setup` holds the setting of
the behaviour and never changes: the record says who takes part, which faults
and operations occur, and the bounds. The MC module names the settings.

### Scheduler

`_heap` is ordered by `(available_at, priority, created_at, seq)`, and
`available_at` is the clock at submission plus a delay. The model keeps the heap
as two sequences in heap order: `ready` (due) and `waiting` (still ahead);
`Ripen` is the passing of time. A record without delay goes behind every due
record; a delayed one may fall anywhere among the waiting ones, which covers
every jitter. Priorities break ties between equal clock readings only; the
monotonic clock is taken to advance between submissions. `activeGlobal`,
`activeByMode`, `activeJobMode`, `inHand` and `stopped` are
`_active_global`, `_active_by_mode`, `_active_job_mode`, the popped record and
`_stop`. `open` is a history variable: the dispatches whose end was not
reported, numbered per job so that a duplicate dispatch is a second ticket.
`stray` counts the reports of completion that came for a job without an open
dispatch.

`Submit` (degradation or delay under backpressure included), `Drop`,
`Reprioritize`, `Stop`, `OnJobDone` are the public methods. The dispatcher
is `Dispatch`, `Defer` (head's mode full: pushed half a second ahead, under its
own priority), and the end of `_enqueue_one`: `HandOver`, or `GiveBack` when the
job is gone, not QUEUED, or the callback failed. `OnJobDone` has no condition but
the bound: `_run_job` reports the end of every run (`jobs/queue_impl.py:4197`),
also of a job claimed from Redis, which was never dispatched, or of one whose slot
`_enqueue_one` has given back already. Such a report lowers the counter all the
same, and one more job is dispatched than there are slots for.

### LocalQueue

| variable | code |
|---|---|
| `store` | the jobs table, reduced to state, mode and the two-pass part of `runtime` |
| `calls` | `q.enqueue(job)` coroutines that `run_coroutine_threadsafe` scheduled and the loop has not run |
| `asyncQ`, `canceled`, `worker` | `JobQueue._q`, `_cancel`, the `_worker` tasks |
| `seen` | `FallbackLocalQueue._seen` |
| `dpc`, `snap` | the dispatcher's position in `_enqueue_one` and the row it read |
| `boot` | the rows `JobQueue.start` has still to recover |
| `asked` | history: the last thing a user asked of the job |
| `ops`, `crashes`, `faults` | how much of each bound is used |

Atomicity follows asyncio: what lies between two awaits that really suspend is
one action. `Queue.get()` does not suspend when the queue is not empty (worker
state `next`), `_run_job` does not suspend between its start and the
notification (`run`, then `final`), and the notification runs in a thread
(`notify`), during which handlers run. While a worker is in `run`, `final` or
`next`, no handler, scan or coroutine runs (`LoopFree`); the dispatcher thread
does, and that is where `EnqueueTimeout` happens.

Handlers: `SubmitJob`, `CancelJob` (also `/kill`), `AdminCancel` (also drops the
heap records), `DeleteJob`, `Pause`, `Resume`, `Rerun`. `RequeueOr429` is the
order of the last two: the row is written first, then the concurrency quota may
answer 429. Scan loop: `Scan`. Dispatcher: `Pop`, `ReadJob`, `SyncMode`,
`EnqueueTimeout`, and `RunCall` for the coroutine. Worker: `TakePaused`/`Wake`,
`TakeDenied`, `TakeNothing`, `Start`, `StartFails`, `EndPass1`, `EndPass2Early`, `EndDone`,
`EndFail`, `Finish`. Process: `Restart`, `Recover`.

The pipeline itself is a nondeterministic end: DONE, FAILED, or (pass 1 of a
two-pass job) QUEUED again. A cancellation during `run` cannot happen, because
the handler cannot run.

### Pipeline

`Pipeline` opens that end up. Since a run holds the event loop, one job runs at
a time and handlers run between two runs or while a finished job's notification
is awaited (`HandlerRuns`); which QUEUED job comes next is left open.

| variable | code |
|---|---|
| `row` | job state and the two-pass and re-synthesis part of `runtime` |
| `file` | `audio.wav`, transcript, translation, dialogue track, video in the work directory, published video |
| `ckpt` | `Output/<stem>/.checkpoint.json`, per directory |
| `inner` | `.checkpoint.json` of the work directory, written by the stage processes |
| `cache` | `cache/store.py`: whose transcript and track are known for the video |
| `run`, `pc` | the running job, what it read at its start, and its stage |
| `made`, `ended` | history: attempts per stage, end of the last run |

A file's content is who made it, in which attempt, and whether it is whole, cut
off, made from a cut-off file, or silence; a hash comparison is a comparison of
contents. For the stage `s`, `Hit(s)` is the test that skips it, `Skipped(s)` the
early end of a pass 2 that would have to repeat a stage of pass 1, `Cleaned(s)`
what is removed before it starts, and `Kept`, `Copied`, `New` how its process
comes to its file. `Make` and `Save` are the process and the checkpoint after
it, so that a restart may fall between them; `CutOff` is a process that is
killed or dies: nothing written, the file cut off, or the file complete with
the notes written so far. What a failure leads to differs by stage: `FailRun`
fails the job, `TranslateFails` goes on with the original text,
`SynthesisFails` with the track there is or silence, `MixFails` with the fallback
mux. `Move`, `Requeue` (end of pass 1), `Publish`, `Finish`, `CleanUp` are the end of
`_run_job`; `Crash` is a restart with the recovery of `JobQueue.start`.

Assumed: the two languages differ, nothing is imported, transcripts are stored,
`audio_hash` is available, renaming the video and writing a checkpoint succeed,
and a killed process takes its ffmpeg with it. Diarization, separation, music
detection, mobile outputs, lip sync, QA and subtitles are best-effort steps whose
failures change nothing above, and are left out.

### RedisQueue

| variable | code |
|---|---|
| `pending`, `delayed`, `dlq` | the sorted sets and the dead letters |
| `lock` | `job:<id>:lock`: who holds it, `Free`, or `Ghost` for a token no instance remembers |
| `attempts`, `running` | the counter in `job:<id>:meta`, the users' sets of running jobs |
| `ttl`, `spent` | which `job:<id>:meta` has a time to live; history: attempts that were counted by counters since expired |
| `row` | the job store all instances share |
| `up`, `boot` | whether the instance is down, starting, up or draining; what it has still to recover |
| `hand`, `asyncQ`, `w` | the job claimed, the ids queued for the worker, and where the worker is |
| `has`, `canceled` | `_lock_token_by_job`, `JobQueue._cancel` |
| `mover` | the due jobs the mover read and the one it has taken out of `delayed` |
| `pass2`, `starts` | whether pass 1 is over; history: runs begun |

A step is what one instance does between two awaits on Redis. `Claim` is the Lua
script (atomic in Redis) and the token the instance remembers; `Deliver` counts
the attempt and queues the job or makes it a dead letter; the worker goes through
`Take`, `Check` (state, cap, in-flight test), `Admit` or `AdmitBusy`, or `Defer`
and `Release`; `EndRun`, `After`, `Unlock` are the other end. `ReadDue`, `TakeDue`,
`PutDue` are the mover, which takes whatever it read. `Lapse` is a lock whose
refresh task did not get the event loop in time. `ExpireMeta` is the metadata of a
job running out (`REDIS_ACTIVE_SET_TTL_MS`, six hours from its last submission,
`queue/redis_queue_impl.py:200`), and with them the counter: the next attempt
starts a new one, which has no time to live before the job is submitted again. The
sets of running jobs expire too, but each admission renews them, and the model
leaves that out. A run holds the event loop of its instance: `Loop` is false
meanwhile. What an instance recovers when it starts
goes to its local scheduler, which is out of sight here.

### AutoBackend

Adds Redis' health and the instance's idea of it (`redisUp`, `ok`, `mon`), the
claim script and who knows it (`loaded`, `sha`), the fallback's scan and `seen`
set, and the local scheduler: a bag of jobs (`heap`), the counter of its slots
(`slots`), and the job its dispatcher has read and not yet handed over (`disp`).
`Dispatch` takes a slot, or finds that the job is no longer QUEUED; `HandOver` is
`enqueue`, which writes the row as the dispatcher read it, whatever has become of
it since; `SlotBack` is the report at the end of every run. Which pass the row
stands for, the time limit of the hand-over and the caps of the modes are left to
`LocalQueue` and `Scheduler`. A worker that lets go of a dispatched job (denied,
canceled or final) does not give its slot back: `OutOfSlots` is an instance whose
slots are all lost that way. `Offer` is `submit_job`: Redis, the scheduler, or both
when a command fails half way. `owed` and `dropped` are history: the jobs a cap
denied to an instance, which its scan is to find (`LeftToScan`), and those that
nobody is to find, because there is no scan, the monitor stops it before its next
round, or the job was let go of as counted as running (`ABCheck`). `Ping` and
`Monitor` are the two loops that lag behind `Flip`. `DeliverBlind`, `MoverFails`,
`WorkFails`, `AfterFails` and `AdmitBlind` are the `except` branches around each command. `Stop`, `Exit`,
`ABCrash`, `ABComeback` are `stop_all` in its order, the end of the drain, a death,
and a start with its recovery. `broken` records that Redis failed in the middle of
an operation whose other half is then missing; the observations of section 6 say
what such a failure loses, and the properties are about the rest.

### Uploads and Submission

`row` is the upload's record, `part` and `final` the two files as what each chunk
contains, `calls` the requests under way, `doomed` what retention read, `used`,
`charged` and `pending` the storage accounts. `gone`, `lost` and `torn` are history
that name what retention or a crash took away. `TakeUp`, `SendChunk`,
`AtChunk`/`KeepChunk`/`SkipChunk`, `SendComplete`, `Lock`, `AtQuota`, `Finish` or
`Refuse` or `Spoil` are the handlers between two suspensions (body, lock of the
upload, quota overrides in Redis); `Die...` falls between two writes of one of
them. `Purge` and `PurgeFiles` run in retention's thread.

`Submission` adds `subs` (submissions under way with what they hold), `jobs`,
`keyOf` (idempotency), `local` and `remote` (the daily counters), `draining` and
`day`. Each way out of `create_job` and of one item of a batch is an action that
gives back what that way gives back in the code, and no more: `Refused`,
`Escapes` (an exception nobody releases for), `BadExtension`, `DailyFull`,
`NotQueued`, `Queued`, `BadItem`. `Count` and `Undo` are the counter in Redis,
`Today` and `JobsOn` the one in the process.

### ModelManager, Circuit, StageProcess

A thread goes through `rest`, `ask`, `look` (inside the lock), `load`, `back`,
`insert` (inside), `use`, `leave`, `release` (inside). A critical section is two
steps, because another thread may fork in between. A model is named by its
loader, so that a second copy is a different value.

In `StageProcess`, `parent` is where `run_with_timeout` is (`join`, `check`, `term`,
`kill`, `get`), `child` and `step` where the process is, `pipe` what lies in the
queue's pipe: nothing, a whole result, or a part of one that is larger than the
pipe. `Fork` copies the server's cache; a lock that a server thread holds is
`Dead` in the child. `Asr...` and `Tts...`/`Xtts...` are the loops of
recognition over its candidates and of synthesis over its lines, with retries,
breaker and model cache; `plain` is any other stage. `Deadline`, `Cancel` and
`Dies` (killed from outside, memory limit) may come at any moment.

## 3. The runs

| run | instance | question |
|---|---|---|
| `sched` | 2 jobs of mode high, 2 slots, cap 1 on high, a heap of 3 of which the third is degraded by backpressure, 2 reports of completion without a dispatch | caps, slot accounting, implementation of `SlotPool`, two records of a full mode do not starve a third that fits |
| `queue_one` | 2 jobs, 1 worker, 1 slot, every user operation, 3 of them, backpressure | nothing queued is lost, one job in flight, cancel is final, only QUEUED rows start |
| `queue_restart` | 1 worker, 1 slot, two-pass jobs, notifications, 2 operations, one restart, no cancellation, with fairness | slots equal work in flight, RUNNING rows have a worker, final states stay, every QUEUED job is taken up |
| `queue_two` | 2 workers, 2 slots, cap on high, 429s, one worker death, 4 operations out of submit, cancel, pause, resume | the per-user cap with timeouts, duplicate dispatches and a dead worker |
| `pipe_one` | 1 two-pass job, 2 requests, 1 fault, 1 restart, with fairness | the published video is whole and current, pass 2 takes place, a skipped pass 2 keeps the video, runs end |
| `pipe_audio` | 1 job, one restart | section 6 |
| `redis_one` | 2 instances, 2 jobs of one user, one of two passes, 2 attempts; settings: a cap of one run with cancellations and re-runs, a death, pauses, locks that lapse, counters that expire, and one instance that dies under the cap | one runner, implementation of `ExclusiveRuns`, the running set comes down, DONE jobs are not run again |
| `backend` | one slot, a cap of one run per user; 1 instance with an outage that ends; one with 2 jobs and an outage; one that dies or is stopped, with cancellations; 2 instances; with fairness | every QUEUED job is taken up or dead-lettered, unless it was dropped or the slots are lost |
| `backend_wide` | the same slot and cap; 2 jobs with all operations and an outage; a death and an outage; 2 instances of which one dies; 2 instances in an outage | a QUEUED job is where somebody will find it, outside three named ways of losing it |
| `backend_reboot` | 1 instance, Redis restarted | section 6 |
| `intake` | 1 upload of 2 chunks in 2 versions by 2 clients, and 2 submissions with one key, under ten settings: a crash, retention, direct uploads, batches, no Redis, Redis now and then, midnight, an upload and a submission at once; with fairness | files are what was announced, storage and the daily quota are respected, one job per key, an insistent upload ends |
| `stage` | the server's cache with 2 threads, 3 keys, room for 1; recognition with 3 candidates beside a prewarm thread, on CPU and GPU; synthesis of 3 lines; 2 stages with large results and deaths; with fairness | a stage ends for the worker, its process is gone, its result arrives, models are counted and shared, a breaker's trial is answered |

Bounds. Two jobs are enough for a duplicate of one to disturb the accounting,
the caps or the owner's limit of the other; one more record than jobs in the
heap makes duplicates possible. Submissions count as user operations, so three
operations give, for example, a submission, a cancellation and a re-run of one
job, or two jobs and a cancellation; the fourth of `queue_two` is what lets the
row of a dead worker, a timed-out enqueue and a second start come together.
`queue_one` has backpressure and `queue_two` has not, because the owner's limit
does not survive backpressure at two slots (section 6). `MaxHeap` bounds submissions in `Scheduler`
only; in `LocalQueue` the heap is bounded by the operations and scans. The
defaults of the code are one worker (`JOBS_CONCURRENCY`), two slots
(`MAX_CONCURRENCY_GLOBAL`), one high job; the runs take them and the value 1 for
the slots, which the reliability tests use. In `Pipeline` one job meets all of
its own earlier files; two requests allow a re-synthesis of what a re-run left,
and a fault and a restart fall into every stage and between any two steps of
both passes.

Two instances of `RedisQueue` are what its races need (one reads, the other acts),
two attempts what a dead letter needs, and one user makes the two jobs compete
for the cap. In `AutoBackend` one outage falls between any two commands of any
operation; two flips are an outage and its end. The cap is the default
(`MAX_CONCURRENT_JOBS_PER_USER`, 1) and there is one slot, so that a denied or
canceled job can take the last one with it. The two instances of an outage are
what the fallback's cap needs: each takes the other's run into account. In
`MCScheduler` two records of mode high are blocked behind a running one while the
third, degraded to medium, stands behind them: the hazard of heads that take turns
needs no less. Two stray reports are as many as there are slots. In `Uploads` two chunks and two clients
give every order of chunk, repeated chunk and completion, with two versions for a
client that sends something else the second time. Two submissions are what a
quota of one reservation too many or a key used twice needs. In `StageProcess`
the threshold of the breaker is 2 and the candidates or lines are 3, so that it
opens and has a trial within one stage.

Deadlock is not checked: the system may stop when there is nothing to do or the
bound on operations is reached.

The type invariants of all modules are proved (section 5), those of `Uploads`,
`ModelManager` and `Circuit` as parts of those of `Submission` and `StageProcess`;
the runs keep to what could go wrong.

### What the properties say

* `SlotsExact`, `ModeCap`, `LeakOnlyByDuplicate`, `ImplementsSlotPool` (Scheduler):
  under every order of completions the global counter never exceeds the open
  dispatches, and falls behind them by at most the reports that came for a job
  without one; a mode counter leaks in exactly one situation, the dispatch of a
  job that is already dispatched.
* `OtherModesProceed`: a due record that fits is not starved by deferred heads.
* `QueuedIsTracked`: whatever is QUEUED in the store is on its way to a worker or
  will be picked up by the scan.
* `GlobalCapHolds`, `SlotsMatchWork`: the cap and the counter against the work
  really in flight (coroutines, ids, workers), not against the counter itself.
* `CancelIsFinal`, `RunsOnlyQueued`, `FinalStays`, `RunningIsWorked`: the store's
  state machine under stale writes.
* `UserCapHolds`: the owner's limit, also with the rows of a dead worker.
* `QueuedProceeds`: liveness of the whole path, in `LocalQueue` and, over both
  backends, in `AutoBackend`.
* `OutputIsCurrent` (jobs of two passes), `VideoIsWhole`, `AudioIsWhole`: what
  checkpoints let a run skip, against what is really on disk.
* `PassTwoRuns`, `SkippedKeepsVideo`: pass 2 finds what pass 1 made, and when it
  does not, the user keeps a video; both across a restart at any moment.
* `JobEnds`: passes, recoveries and checkpoints form no endless cycle.
* `OneRunner`, `ImplementsExclusiveRuns`: for jobs that come to the workers by
  claims, the lock of a claim covers the way to the worker and the run, whatever
  movers, re-runs, cancellations and deaths put into the pending set again; every
  run is a counted attempt, so that a job is begun at most `MaxAttempts` times in
  the life of one counter.
* `CountedIsRun`: the running set, which denies other jobs of the user, names only
  jobs that run; `DoneStaysDone`: the state read at the beginning of
  `before_job_run` is still right when the run begins.
* `QueuedIsKept`: the fallback's scan, the scheduler, Redis and the recovery leave
  no gap between them when the active backend changes. The property names the
  three ways in which a job is lost: Redis fails in the middle of an operation
  (`broken`), a job over the cap is counted as running, a denied job is left to a
  scan that does not come (`dropped`). `QueuedProceeds` has the same exceptions and
  one more, an instance out of slots.
* `FinalIsAnnounced`, `FinalIsWhole`, `PartIsReceived`: file and row of an upload
  against each other and against what the client announced, across re-sent, late
  and concurrent chunks, crashes and retention; `UploadEnds` (uploads announced without a hash).
* `IntakeRespectsCap`, `PendingIsHeld`, `DailyCapHolds`: concurrent requests do not
  pass a limit together, and each way out gives back what it held, once.
* `OneJobPerKey`, `JobsHaveTheirVideo`: repeated requests and the upload they name.
* `PhaseEnds`, `ChildIsGone`, `ResultIsNotLost`: the protocol between the worker and
  the process of a stage.
* `RefsAreUsers`, `UsersShareOneModel`: racing loads, releases and evictions;
  `TrialIsAnswered`: a breaker's half-open state ends.

## 4. Fairness

`SchedFairSpec` assumes weak fairness of the dispatcher thread and of time.
`OtherModesProceed` also assumes that administrators do not drop records for
ever. `LQFairSpec` assumes weak fairness of the dispatcher, of time, of each
coroutine, of the scan of each job, of recovery, and of each worker's steps,
which includes that a pipeline run ends: its phases run under timeouts
(`jobs/watchdog.py`; `PhaseEnds` is that assumption, shown of `StageProcess`).
Nothing is assumed of users, of worker deaths or of restarts. `QueuedProceeds`
exempts the time during which some job is paused: a paused job keeps its slot
(`TakePaused`).

`PipeFairSpec` assumes that stages end and that a run goes on (weak fairness),
and strong fairness of `StartRun`, which is what `QueuedProceeds` shows of the
queue; nothing of requests, faults and restarts, which the bounds make finite.

`ABFairSpec` assumes weak fairness of each loop of each instance (worker, claims,
mover, pings, monitor, scan), of the dispatch of each job and its hand-over, of
the expiry of a lock nobody refreshes, and of the end of a drain and the start
that follows it or a death. Redis need not return. Users need not do anything.

`InFairSpec` assumes strong fairness of each request under way, since a request
waits for an `asyncio.Lock`, which is granted in turn, and of the client, who
sends what is missing or asks for completion whenever it can.

`StageFairSpec` assumes weak fairness of the worker's polling loop and of time
alone. The process of a stage, the threads of the server, cancellations and
deaths may do anything or nothing, which is what the timeout is for.

## 5. What is proved

Each theorem is for every value of the constants (any numbers of jobs, workers,
instances, users, requests, chunks, any caps and bounds) that satisfies the named
`ASSUME`s of the modules, which TLC evaluates in every run. What an `ASSUME`
says beyond the code's own limits is that the values standing for "nothing"
(`NoRecordAssumption`, `NoRecAssumption`, `NoneAssumption`, `SentinelAssumption`, parts of
`SubmissionsAssumption`) are not records themselves, and that the requests under
way are finitely many. A theorem with a further hypothesis names it in its
statement; each such hypothesis is needed, and the list says for what.

`SchedulerProofs`:

* `SchedTypeCorrect`: `SchedTypeOK`, in which `activeGlobal` lies in
  `0 .. MaxGlobal`.
* `SlotAccounting`: `SlotsExact`. That no slot is lost is one inequality, that at
  most one is lent per report without an open dispatch the other. The inductive
  invariant (`SlotInv`) adds that `open` is a finite set of tickets numbered up to
  `MaxGlobal + MaxStray`, and bounds the reports nobody owed, counting one that
  closed the ticket of the dispatch in hand, whose `GiveBack` is then such a report
  itself.
* `ModeCapHolds`: `ModeCap`, with an invariant on the jobs recorded per mode.
* `ModeSlotsReturn`: `LeakOnlyByDuplicate`. `LeakInv` adds to the two invariants
  above that a job whose mode is recorded has an open ticket, so that only a
  second dispatch finds a mode to overwrite.
* `SchedulerImplementsSlotPool`: initial states map to `SlotPool!Init`, every
  step to `Admit`, `Release`, `Misreport` or a stutter. `SlotPool` admits while fewer
  than `Slots + extra` tickets are held, where `extra` counts the reports without an
  open dispatch.

`LocalQueueProofs`:

* `CancelHolds`: `CancelIsFinal` when the process is not restarted
  (`MaxCrashes = 0`). The invariant (`CancelInv`) relates the history of requests
  to the cancel set: the row in the store cannot carry the argument, since a
  stale coroutine may write QUEUED over CANCELED. That `_cancel` is never cleared
  is what makes cancellation final, and what makes a later re-run end as canceled.
* `LocalTypes`: `LQTypeOK`. `LQInv` adds that a job which runs or is to be
  recovered has its row, and that the dispatcher waits for the last coroutine.
* `NoJobIsLost`: `QueuedIsTracked`, for any number of slots and workers, with
  timeouts, restarts and every user operation. The property is inductive next to
  `LQInv`; the work is in the steps that move a job between the places it names
  and in those that write QUEUED (`Ways`, `TrackStep`). Hypothesis: `~QuotaMayReject`; after a 429 a
  resumed job is QUEUED and seen (section 6).
* `OneJobAtATime`, `QueuedOnly`, `FinalIsFinal`, `NoSlotIsLost`: `GlobalCapHolds`,
  `RunsOnlyQueued`, `FinalStays`, `SlotsMatchWork` for `MaxGlobal = 1`. With one
  slot the work handed over is a token (`OneFlight`): with the dispatcher, in a
  coroutine, in the workers' queue, or with one worker. `SingleInv` ties it to the
  store: until a worker starts it, the row of the job that has the token, and the
  row its coroutine will write, are QUEUED or PAUSED, or CANCELED with the job in
  the cancel set (`Waits`, `CallsWait`). That is what a timed-out enqueue cannot
  break at one slot: its worker would have to run beside the coroutine. At two
  slots the first two properties fail (section 6). `FinalIsFinal` is about users
  who do not cancel (`~MayCancel`), since a canceled job leaves its slot behind
  and its row may be written again; `NoSlotIsLost` also excludes deletions and
  dying workers (`NoLeak`), which lose the slot.
* `UserCapKept`, `RunningHasWorker`: `UserCapHolds`, with a finite set of jobs, and
  `RunningIsWorked`, with no worker that dies, under `FreshCalls`: one slot, or no
  backpressure with any number of slots. Both rest on one fact about the rows that
  coroutines write: they are not RUNNING. With one slot it is part of `SingleInv`;
  without backpressure it follows from `ModesInv`, by which everything that
  stands for a job (records, row, coroutines, run) has one mode, so that the
  dispatcher never reads the row a second time in `SyncMode`. With backpressure
  and two slots the fact and `UserCapHolds` are false (section 6).

`RedisQueueProofs`:

* `RedisTypeCorrect`: `RQTypeOK`.
* `OneRunnerHolds`: `OneRunner`. That two instances run a job is not excluded by
  anything the worker tests; the argument is the lease (`LeaseInv`): a job on its
  way through an instance, in the hand of the claim loop, in the queue of the
  worker or with the worker, is locked by that instance, its token is remembered,
  and it is there once. Without `Once` the unlocking at the end of one run would
  leave a second entry of the queue without a lock.
* `RedisImplementsExclusiveRuns`: with the lease and `Counted` (a claim on its way
  to a run has been counted, by this counter or one that expired since, and not
  yet used) every step is a step of `ExclusiveRuns` or a stutter. `ExpireMeta` is
  `Renew`: the attempts of a counter that is gone may be used again.
* `CountedJobsRun`: `CountedIsRun`, without lapsed locks and deaths, which the
  property names. The lease is needed: a second instance with the same job would
  take the first one's place in the set out.
* `DoneJobsRest`: `DoneStaysDone`. `NotDone` keeps what a worker read of the state
  until its run begins; that nobody else can end the job meanwhile is the lease.

The exclusion in these theorems holds as long as no lock lapses under a live
holder, and for jobs that come to the workers by claims: `RedisQueue.Recover`
writes the row, and what the instance does with the job is out of sight. In the
server as a whole the exclusion need not hold: a job recovered at a start goes to
the local scheduler without a lock, see section 6.

`BackendProofs`:

* `BackendTypes`: `ABTypeOK`.
* `QueuedJobsKept`: `QueuedIsKept`, without a hypothesis: Redis comes and goes,
  instances die, stop and start, users do what they like, under any caps and
  slots. `QueuedIsKept` itself is not inductive: it counts a worker that is past the
  run, and a scan that the next `Monitor` turns off. The invariant (`AllDue`) names
  fewer places, those a job leaves only for another one or for its run: Redis, the
  hands of the claim loop and the mover, the local scheduler and its dispatcher,
  the worker's queue, the worker before the run, an instance that will read the
  rows, and the scan of an instance whose cap denied the job (`Owes`). What the
  property excepts (`broken`, `dropped`) is marked at the step that loses the job;
  a later submission, scan or recovery of the job takes the mark away.
* `CalmBackendImplementsRedisQueue`: when Redis always answers, no instance dies or
  stops and no lock lapses (`Calm`), every step is a step of `RedisQueue` or a
  stutter, so that its theorems hold of the whole. The invariant is that every
  instance knows that Redis is there, that the local schedulers are empty, and
  that an instance has the locks of no other jobs than those on their way in it
  (`Held`), so that no lock of a living instance runs out.

`PipelineProofs`:

* `PipelineTypes`: `PipeTypeOK`, and every stage that starts finds the file it is
  made from, also for jobs that share an output directory.
* `PublishedIsWhole`: `VideoIsWhole`. What is published is what `mix` left, what
  the fallback mux noted or what a checkpoint names, so the invariant
  (`VideoInv`) is that each of these is whole, and that what is about to be moved
  is there.
* `SecondPassRuns`: `PassTwoRuns`. `PassInv` says which files a run that is past a
  stage of pass 1 still has (`Reached`), and that the row's phase is the one the
  run read.
* `SkipKeepsVideo`: `SkippedKeepsVideo`. Whenever the published video is gone, pass
  2 has all it needs to make it again (`Videos`), so that it is not skipped.
* `VideoIsCurrent`: `OutputIsCurrent`, with `CurrentInv`: from the synthesis of pass
  2 on, track and video in hand are the latest.

All but the first are under `OneJobPerVideo`: two jobs of one video share a
checkpoint, and find the other's entries (section 6). The last property is about
the jobs submitted with two passes (`TwoPassJobs`): a job of one pass that is
re-synthesized keeps its old video (section 6).

`UploadsProofs` and `SubmissionProofs`:

* `UploadsAreSound`: `FinalIsAnnounced`, `PartIsReceived`, `FinalIsWhole` for the
  uploads by themselves; `AnnouncedFiles`, `ReceivedChunks`, `WholeFiles` the same
  next to submissions that take uploads up. The invariant (`FileInv`) speaks of
  each upload's row against its files, and of what each request under way still
  remembers of the row it read.
* `IntakeTypes`: `InTypeOK`, which excludes negative counters, a daily counter in
  Redis above the limit and batches that make more jobs than they have items.
* `QuotaKept`: `IntakeRespectsCap`, from the types: a check and the reservation or
  charge it is made for are one step.
* `ReservationsHeld`: `PendingIsHeld`. The invariant (`BooksOK`) is an equation:
  what is reserved is what the requests hold plus what was leaked. Its sum is a
  fold over the requests under way; the lemmas on sums over finite sets
  (`SubmissionProofs`, first part) come from well-founded induction on a set
  the theorem itself constructs, since induction over an operator is out of
  reach.
* `DaysAreCapped`: `DailyCapHolds`, by a similar equation per day (`DailyInv`):
  stored jobs plus reservations still to be used are within what was counted. The
  exceptions are those the property names: a stored item that was given back, a
  reservation that met another day, a Redis that came and went.
* `KeysMakeOneJob`: `OneJobPerKey`; `VideosAreThere`: `JobsHaveTheirVideo`.

`StageProofs`:

* `RefsHold`, `SharingHolds`, `BoundHolds`: `RefsAreUsers`, `UsersShareOneModel`,
  `CacheIsBounded` of the server's cache. `MMInv` adds that a thread in a critical
  section has the lock and that what was loaded and not yet inserted is a model.
* `GoneHolds`, `ResultHolds`: `ChildIsGone` and `ResultIsNotLost`. `StageInv` says
  what the worker and the process know of each other: nothing is written before
  the function ends, and a process that is gone while the worker waits has
  written its result or was killed.
* `StageTypes`, `TrialsAreAnswered`: `StageTypeOK` and `TrialIsAnswered`. `RestInv`
  describes the process of a stage, its breaker and its model cache, a copy of
  the server's at an arbitrary moment.

Only model-checked:

* `OtherModesProceed`, `QueuedProceeds`, `JobEnds`, `UploadEnds`, `PhaseEnds`: they are
  liveness, and the provers handle neither fairness nor ENABLED.
* The properties of `LocalQueue` outside the hypotheses above.

## 6. Disagreements between the code and its texts

Each is the counterexample of one run.

* `pipe_audio`: an `audio.wav` that a restart or a timeout cut off is taken for
  extracted, checkpointed and transcribed.
* `backend_reboot`: the claim script is loaded once, when the instance starts. A
  Redis that was restarted since, or was away then, answers pings, so that jobs
  are queued in it, but fails every claim, which the claim loop takes for an
  empty queue.

Observations without a run of their own, by component.

Local queue:

* At two slots with backpressure the owner's limit may be passed:
  `store.update(mode=...)` (`runtime/scheduler.py:404`) returns the row as it is,
  which may be RUNNING by then, and `enqueue` later writes that RUNNING row back
  beside a RUNNING row that a dead worker left (four operations;
  `UserCapHolds` of `queue_two` with `BpQMax = 0`,
  `MaxGlobal = 2`). Without
  backpressure, or at one slot, it cannot (`UserCapKept`).
* At two slots a timed-out enqueue returns its slot while the coroutine still
  enqueues the job (`server.py:138`): more jobs are in flight than
  `MAX_CONCURRENCY_GLOBAL` allows (`docs/library_full_plan.md:469`). At one slot
  (`queue_one`) the cap holds.
* A canceled job leaves `_run_job` before the `try` whose `finally` returns its
  slot (`jobs/queue_impl.py:360`); at one slot nothing is dispatched any more.
  `queue_restart` is without cancellations for that reason.
* Resume and re-run write QUEUED before the quota answers 429; a job the scan has
  seen is then stranded (docstring at `queue/fallback_local_queue.py:29`).
* The heap compares `available_at` before the priority, so a more urgent job does
  not overtake one submitted earlier.
* The scan submits a job that was just submitted; at two slots the second
  dispatch runs the job again after it is DONE (`RunsOnlyQueued` holds at one slot
  only).
* The cancel set is never cleared, so that a re-run of a job canceled earlier is
  canceled at once. On the other hand it is lost at a restart: a stale QUEUED
  written by `enqueue` over CANCELED then runs (`CancelIsFinal` holds while the
  process lives).
* Recovery reads the newest 1000 jobs and the scan the newest 250; older
  unfinished jobs are not looked at.

Pipeline:

* A job without two passes that is re-synthesized from its edited transcript
  makes a new track, skips the mix (its checkpoint names the published video,
  which is intact) and ends DONE with the old video (`jobs/queue_impl.py:3260`),
  where `docs/FEATURES_PRO_UPGRADE_PLAN.md:491` says "Verify resynth job enqueued
  and outputs updated". `OutputIsCurrent` is about jobs of two passes for that
  reason.
* Two jobs of one video share a checkpoint; the first one's pass 2 then finds the
  other job's entries, whose files are gone, and is skipped
  (`jobs/queue_impl.py:420`, `docs/voice_clone_persistence_plan.md:52`). With
  different target languages they share one translation.
* Pass 2 removes the published video before it mixes; when the mix and the
  fallback mux both fail, the job is FAILED without a video, while
  `docs/two_pass_voice_clone_plan.md:10` keeps the outputs of pass 1.
* `two_pass/rerun` of a finished job does nothing: the clean-up removed the
  `audio.wav` that pass 2 asks for. The phase then stays `pass2`, and later
  re-syntheses of the job are skipped as well.
* The cache knows files by path: when a work directory is made again under the
  same path, a transcript whose metadata is cut off by a restart is found through
  the old key, copied onto itself and checkpointed.

Redis and the choice of backends:

* At the start of an instance its unfinished rows, also those other instances
  run, become QUEUED and go to its local scheduler, uncounted by attempts; a
  worker that still has the token of an earlier claim then takes such a copy for
  locked, and two instances may run one job. The first scan of the fallback has
  the same effect on QUEUED rows of others.
* The fallback's `before_job_run` does not look at the row: a second copy of a job,
  left by a change of backends, is run after it is DONE.
* When Redis fails in the middle of a deferral, of the mover or of a release, the
  job is gone from all its sets or its lock stays. A refresh task whose job was
  dropped may keep a lock alive.
* When Redis comes and goes faster than the monitor polls (2 s), a job put into
  Redis may already be in the fallback's `seen` set; should Redis then stay away,
  it waits until Redis returns. A job that the fallback's cap denies right before
  the monitor stops the scan, or before it has started it and Redis returns in
  time, is QUEUED until the next start.
* With `QUEUE_MODE=redis` a failed submission still runs locally, while
  `docs/vnext_done.md` says that the server refuses to start new work.
* Each deferral costs an attempt: a job that waits behind its own user's cap
  becomes a dead letter, while its row stays QUEUED; the counter is not reset when
  it is submitted again. It expires with the job's metadata, six hours after the
  last submission, also for a job that is still queued or running: what fails
  every time may then be tried as often again.
* A job counted as running is dropped by the worker as in flight elsewhere; after
  a crash, under a cap, the stale count drops the recovered job for good. That and
  the denied jobs above are what `dropped` marks in `AutoBackend`; with the default
  cap of one run per user all of them occur within the bounds of `backend_wide`.
* Two instances that admit two jobs of a user at a time may both pass the cap; a
  cancellation on another instance between the test and RUNNING is overwritten.
  The cancel flag in Redis has no effect (`_nack_current` does not exist; the
  exception is swallowed).
* A claim looks at the head of the pending set only: a paused job keeps its lock
  and blocks the head until the lock runs out.
* Redis takes the higher priority number first, the scheduler the lower.
* A job that Redis' caps deny, or that is canceled or final, after the scheduler
  dispatched it keeps its slot; when it was the last one, the instance dispatches
  nothing more until it is restarted, or a run of a job from Redis gives back a
  slot it did not have (`OutOfSlots`).
* Conversely every run of a job claimed from Redis lowers the scheduler's counter
  (`jobs/queue_impl.py:4197`), so that a server that changes between the two queues
  may, for each that ends while it has dispatches of its own, dispatch one job more
  than `MAX_CONCURRENCY_GLOBAL` (`SlotsExact`, `stray`).

Uploads and submissions:

* After a crash between the move of the file and the update of the row, or when
  the media check rejects the file, the row lists all chunks and the part file is
  gone: the upload can be neither completed nor resumed. A late chunk after the
  completion makes a new part file and changes `received`.
* Retention deletes by rows it read before, and by the age of files: an upload
  that was resumed, or the input of a QUEUED job, may go, and `used` is not
  lowered by `purge_old_inputs`. A completion or chunk after that is answered with
  success, and charges storage to a row that is gone.
* `QuotaExceededError` (`web/routes/jobs_submit_core.py:397`), a refused sharing and
  a bad extension leave their reservations behind; so do metadata errors of a
  batch. An item of a batch that is stored and not queued gives its day back.
* A daily reservation is given back to the day of the release. Without Redis a
  stored job counts twice, as a row and as a reservation that is not released
  (`security/quotas.py:318`).
* A direct upload that is refused stays charged and on disk, and needs twice its
  size.
* Two overlapping requests with one key make two jobs; the key is looked up before
  the draining test; entries never expire, although the comment at
  `web/routes/jobs_submit_core.py:59` says so; another user's equal key is
  overwritten.

Stages:

* A result larger than a pipe (64 KiB; `translated_segments`) keeps the process of
  the stage alive until the timeout and is lost, because the parent joins before
  it reads. If the process is killed from outside in that state, the parent waits
  for the rest of half a message, on the event loop: the exception in `PhaseEnds`.
* Synthesis asks the breaker without reporting an outcome (`stages/tts_impl.py:1031`
  when the voice mode is not clone, `1225`, `1271`): the half-open trial is taken
  and XTTS is never tried again in that process (`utils/circuit.py:24`). The preset
  call at `1083` is made although the clone's failure has just opened the breaker.
  The breaker lives in the forked process, so the state the job reports
  (`jobs/queue_impl.py:1824`, `3144`) is always closed.
* `get_tts` for basic synthesis (`stages/tts_impl.py:1123`) and the engine's model are
  never released; each basic line adds a reference.
* A cancellation inside synthesis reaches the parent as a `RuntimeError` and the job
  goes on with silence. A stage inherits the server's SIGTERM handler; programs it
  started survive its SIGKILL; and if the server itself is killed, the stage goes on
  beside the recovered run.

## 7. Reading order

`SlotPool`, `Scheduler`, `SchedulerProofs`; then `LocalQueue` from its variables to
`LQNext`, its properties, and `LocalQueueProofs`; `ExclusiveRuns`, `RedisQueue`,
`RedisQueueProofs`, then `AutoBackend`, `BackendProofs`; `Pipeline`, `PipelineProofs`;
`ModelManager`, `Circuit`, `StageProcess`, `StageProofs`; `Uploads`,
`UploadsProofs`, `Submission`, `SubmissionProofs`. In a proof module the inductive
invariant comes first, then a lemma per group of actions, and the theorems stand
at the end of their part.

## 8. Not modelled

Of the parts with shared state: the administrator's view of the Redis queue and
its own limits (sequential reads), the rate limits and minutes of
`security/quotas.py`, rotation of refresh tokens (`api/auth/refresh_tokens.py`, one
database transaction), concurrent writes of the review state and of library
manifests (last writer wins on one file), model prewarming at start-up, backups.
The file lock of `utils/locks.py` is what makes a write of a row one step across
processes, and is taken as such.

Proofs still worth having: `GlobalCapHolds` and `SlotsMatchWork` of `LocalQueue`
for more slots, with what timed-out enqueues really allow; `OutputIsCurrent` of
`Pipeline` for jobs of one pass that are not re-synthesized.

Two details of submissions are left out because no property's outcome depends on
them. The multipart form of a batch reserves the storage of each file twice
(`web/routes/jobs_submit_batch.py:401` and `:103`), which makes it run into the
quota earlier, and its item-level refusals after the daily reservation (lines 261
to 279) are those of `Full` and `BadItem`. An exception between the row and the
queue (`web/routes/jobs_submit_core.py:503` to `517`: the audit, the write of the
key) leaves the storage reserved and the job without its key; `DieKeyless` has the
second effect, and `PendingIsHeld` would name the first as one more known leak.

Left out for good: speech and vision models, numeric scoring, text and subtitle
formatting, rendering, file layout, plugins, command line parsing, web pages
(sequential code without shared state, or out of a model checker's reach), and
request validation and authorisation rules. They are most of the repository's
lines: the modules cover the code in which several activities meet.
