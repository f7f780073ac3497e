------------------------------ MODULE Scheduler ------------------------------
(***************************************************************************)
(* The in-process job scheduler (runtime/scheduler.py, class Scheduler): a *)
(* delay heap fed by submit(), drained by one dispatcher thread that may   *)
(* hand a job over only while a global slot and a slot of the job's mode   *)
(* are free, and slot accounting undone by on_job_done().                  *)
(*                                                                         *)
(* Time.  The heap is ordered by (available_at, priority, created_at, seq) *)
(* and available_at is the clock at submission (plus a delay), so it is    *)
(* kept as two sequences in heap order: "ready", whose available_at has    *)
(* passed, and "waiting", whose available_at lies ahead.  A record pushed  *)
(* without delay falls behind every ready record and before every waiting  *)
(* one; a delayed record may fall anywhere among the waiting ones; the     *)
(* passing of time moves the first waiting record to the end of ready.     *)
(***************************************************************************)
EXTENDS Integers, Sequences, FiniteSets

CONSTANTS
    Jobs,        \* job ids
    InModes,     \* the modes jobs are submitted with
    Priorities,  \* the priorities given to submit() and reprioritize()
    MaxGlobal,   \* MAX_CONCURRENCY_GLOBAL
    MaxByMode,   \* MAX_JOBS_HIGH / _MEDIUM / _LOW, 0: fall back to MaxGlobal
    BpQMax,      \* BACKPRESSURE_Q_MAX, -1: no backpressure
    MaxHeap,     \* bound of the model: records in the heap
    MaxStray,    \* bound of the model: reports of completion without a dispatch
    NoRec,       \* "the dispatcher holds no record"
    NoMode       \* "the job is not in _active_job_mode"

Modes == {"high", "medium", "low"}

ASSUME SchedulerAssumption ==
    /\ InModes \subseteq Modes
    /\ Priorities \subseteq Int
    /\ MaxGlobal \in Nat \ {0}
    /\ MaxByMode \in [Modes -> Nat]
    /\ BpQMax \in Int
    /\ MaxStray \in Nat
    /\ NoMode \notin Modes

VARIABLES
    ready,          \* _heap: records whose available_at has passed, in heap order
    waiting,        \* _heap: records whose available_at lies ahead, in heap order
    activeGlobal,   \* _active_global
    activeByMode,   \* _active_by_mode
    activeJobMode,  \* _active_job_mode
    inHand,         \* the record the dispatcher popped and is enqueueing
    stopped,        \* _stop
    open,           \* history: dispatches <<job, k>> not yet reported done
    stray           \* history: reports for a job that had no open dispatch

heapVars == <<ready, waiting>>
slotVars == <<activeGlobal, activeByMode, activeJobMode, open, stray>>
schedVars == <<ready, waiting, activeGlobal, activeByMode, activeJobMode,
               inHand, stopped, open, stray>>

Record == [job : Jobs, mode : Modes, pri : Priorities, base : Priorities]

\* The value that stands for "no record" is not a record.
ASSUME NoRecordAssumption == NoRec \notin Record

QLen == Len(ready) + Len(waiting)
AtLeast0(n) == IF n > 0 THEN n ELSE 0

\* The cap the dispatch loop applies to a mode.
Cap(m) == IF MaxByMode[m] = 0 THEN MaxGlobal ELSE MaxByMode[m]

NextLowerMode(m) == IF m = "high" THEN "medium" ELSE "low"

\* submit(): backpressure applies, and the mode the pushed record ends up with.
Overloaded == BpQMax >= 0 /\ QLen > BpQMax
SubmittedMode(m) == IF Overloaded THEN NextLowerMode(m) ELSE m

Delay(r) ==
    \E i \in 0 .. Len(waiting) :
        waiting' = SubSeq(waiting, 1, i) \o <<r>> \o SubSeq(waiting, i + 1, Len(waiting))

\* The tickets of a job's dispatches that were not reported done.
Open(j) == {t \in open : t[1] = j}

-----------------------------------------------------------------------------

SchedInit ==
    /\ ready = <<>> /\ waiting = <<>>
    /\ activeGlobal = 0
    /\ activeByMode = [m \in Modes |-> 0]
    /\ activeJobMode = [j \in Jobs |-> NoMode]
    /\ inHand = NoRec
    /\ stopped = FALSE
    /\ open = {} /\ stray = 0

\* submit() once past the draining test: degrade the mode, or delay a record
\* that is already low, when the queue is over BACKPRESSURE_Q_MAX.
Push(j, m, p) ==
    LET r == [job |-> j, mode |-> SubmittedMode(m), pri |-> p, base |-> p]
    IN  IF Overloaded /\ SubmittedMode(m) = m
        THEN Delay(r) /\ UNCHANGED ready
        ELSE ready' = Append(ready, r) /\ UNCHANGED waiting

Submit(j, m, p) ==
    /\ QLen < MaxHeap
    /\ Push(j, m, p)
    /\ UNCHANGED <<slotVars, inHand, stopped>>

\* The clock reaches the available_at of the first delayed record.
Ripen ==
    /\ waiting # <<>>
    /\ ready' = Append(ready, Head(waiting))
    /\ waiting' = Tail(waiting)
    /\ UNCHANGED <<slotVars, inHand, stopped>>

\* t is s without the records of job j: f enumerates the kept positions in
\* order.  (SelectSeq without its recursion, which no proof could use.)
IsWithout(t, s, j) ==
    LET keep == {i \in DOMAIN s : s[i].job # j}
    IN  \E f \in [1 .. Cardinality(keep) -> keep] :
            /\ \A a, b \in DOMAIN f : a < b => f[a] < f[b]
            /\ \A i \in keep : \E a \in DOMAIN f : f[a] = i
            /\ t = [a \in DOMAIN f |-> s[f[a]]]

\* drop(): forget every queued record of a job.
Drop(j) ==
    /\ IsWithout(ready', ready, j)
    /\ IsWithout(waiting', waiting, j)
    /\ UNCHANGED <<slotVars, inHand, stopped>>

\* reprioritize(): rewrites the heap key, not the record's own priority.
Rekeyed(s, j, p) ==
    [i \in DOMAIN s |-> IF s[i].job = j THEN [s[i] EXCEPT !.pri = p] ELSE s[i]]

Reprioritize(j, p) ==
    /\ ready' = Rekeyed(ready, j, p)
    /\ waiting' = Rekeyed(waiting, j, p)
    /\ UNCHANGED <<slotVars, inHand, stopped>>

Stop ==
    /\ stopped' = TRUE
    /\ UNCHANGED <<heapVars, slotVars, inHand>>

-----------------------------------------------------------------------------
\* The dispatcher thread.

DispatcherFree == inHand = NoRec /\ ~stopped

ModeFull(m) == activeByMode[m] >= Cap(m)

\* Mutants: a cap left out.
FullModeOnly(m) == ModeFull(m)
FullGlobalOnly(m) == activeGlobal >= MaxGlobal

Full(m) == ModeFull(m) \/ activeGlobal >= MaxGlobal

\* Mutant: the blocked head steps aside for the next record only.
DeferBehindNext ==
    /\ DispatcherFree
    /\ ready # <<>>
    /\ ModeFull(Head(ready).mode)
    /\ ready' = IF Len(ready) = 1 THEN ready
                ELSE <<ready[2], ready[1]>> \o SubSeq(ready, 3, Len(ready))
    /\ UNCHANGED <<waiting, slotVars, inHand, stopped>>

\* The head's mode is at its cap: push it 0.5 s ahead, under its own priority.
Defer ==
    /\ DispatcherFree
    /\ ready # <<>>
    /\ ModeFull(Head(ready).mode)
    /\ LET r == Head(ready) IN Delay([r EXCEPT !.pri = r.base])
    /\ ready' = Tail(ready)
    /\ UNCHANGED <<slotVars, inHand, stopped>>

\* Pop the head and take a global slot and a slot of its mode.
TakeSlot(j, m) ==
    /\ activeGlobal' = activeGlobal + 1
    /\ activeByMode' = [activeByMode EXCEPT ![m] = @ + 1]
    /\ activeJobMode' = [activeJobMode EXCEPT ![j] = m]
    /\ \E k \in 1 .. Cardinality(open) + 1 :
          /\ <<j, k>> \notin open
          /\ \A i \in 1 .. k - 1 : <<j, i>> \in open
          /\ open' = open \cup {<<j, k>>}
    /\ UNCHANGED stray

Dispatch ==
    /\ DispatcherFree
    /\ ready # <<>>
    /\ ~Full(Head(ready).mode)
    /\ TakeSlot(Head(ready).job, Head(ready).mode)
    /\ inHand' = Head(ready)
    /\ ready' = Tail(ready)
    /\ UNCHANGED <<waiting, stopped>>

\* The history of dispatches: the last open dispatch of j has ended, or there
\* was none.
CloseTicket(j) ==
    \/ Open(j) = {} /\ open' = open /\ stray' = stray + 1
    \/ \E t \in Open(j) : /\ \A u \in Open(j) : u[2] <= t[2]
                          /\ open' = open \ {t} /\ stray' = stray

\* Mutants: the global slot goes back only with a recorded mode; the job is
\* forgotten but its mode's counter is not lowered.
ReleaseRecordedOnly(j) ==
    /\ activeGlobal' = IF activeJobMode[j] = NoMode THEN activeGlobal
                                                    ELSE AtLeast0(activeGlobal - 1)
    /\ activeJobMode' = [activeJobMode EXCEPT ![j] = NoMode]
    /\ activeByMode' = IF activeJobMode[j] = NoMode
                       THEN activeByMode
                       ELSE [activeByMode EXCEPT ![activeJobMode[j]] = AtLeast0(@ - 1)]
    /\ CloseTicket(j)
ReleaseKeepsMode(j) ==
    /\ activeGlobal' = AtLeast0(activeGlobal - 1)
    /\ activeJobMode' = [activeJobMode EXCEPT ![j] = NoMode]
    /\ UNCHANGED activeByMode
    /\ CloseTicket(j)

\* on_job_done(): gives back a global slot, and the mode slot recorded for the
\* job, whether or not the caller holds one.
ReleaseSlot(j) ==
    /\ activeGlobal' = AtLeast0(activeGlobal - 1)
    /\ activeJobMode' = [activeJobMode EXCEPT ![j] = NoMode]
    /\ activeByMode' = IF activeJobMode[j] = NoMode
                       THEN activeByMode
                       ELSE [activeByMode EXCEPT ![activeJobMode[j]] = AtLeast0(@ - 1)]
    /\ CloseTicket(j)

\* _enqueue_one(): the enqueue callback accepted the job.
HandOver ==
    /\ inHand # NoRec
    /\ inHand' = NoRec
    /\ UNCHANGED <<heapVars, slotVars, stopped>>

\* _enqueue_one(): the job is gone or no longer QUEUED, or the callback failed.
GiveBack ==
    /\ inHand # NoRec
    /\ ReleaseSlot(inHand.job)
    /\ inHand' = NoRec
    /\ UNCHANGED <<heapVars, stopped>>

InHand(j) == inHand # NoRec /\ inHand.job = j

\* A report of completion is owed by a dispatch that was handed over.
Owed(j) == Cardinality(Open(j)) > (IF InHand(j) THEN 1 ELSE 0)

\* Reports not owed so far: those counted, and the one that closed the ticket of
\* the dispatch in hand.
Unowed == stray + (IF inHand # NoRec /\ Open(inHand.job) = {} THEN 1 ELSE 0)

\* JobQueue._run_job reports the end of every run, owed or not: also of a job
\* claimed from Redis, which was never dispatched, and of one whose slot went
\* back when the enqueue callback timed out.  (The guard is the bound alone.)
OnJobDone(j) ==
    /\ Owed(j) \/ Unowed < MaxStray
    /\ ReleaseSlot(j)
    /\ UNCHANGED <<heapVars, inHand, stopped>>

-----------------------------------------------------------------------------

Dispatcher == Defer \/ Dispatch \/ HandOver \/ GiveBack

SchedNext ==
    \/ \E j \in Jobs, m \in InModes, p \in Priorities : Submit(j, m, p)
    \/ Ripen
    \/ \E j \in Jobs : Drop(j)
    \/ \E j \in Jobs, p \in Priorities : Reprioritize(j, p)
    \/ Stop
    \/ Dispatcher
    \/ \E j \in Jobs : OnJobDone(j)

SchedSpec == SchedInit /\ [][SchedNext]_schedVars

\* The dispatcher thread runs until stopped and the clock advances; nothing is
\* assumed about submissions or about jobs ending.
SchedFairSpec ==
    SchedSpec /\ WF_schedVars(Ripen) /\ WF_schedVars(Dispatcher)

-----------------------------------------------------------------------------

SchedTypeOK ==
    /\ ready \in Seq(Record)
    /\ waiting \in Seq(Record)
    /\ activeGlobal \in 0 .. MaxGlobal
    /\ activeByMode \in [Modes -> Nat]
    /\ activeJobMode \in [Jobs -> Modes \cup {NoMode}]
    /\ inHand \in Record \cup {NoRec}
    /\ stopped \in BOOLEAN
    /\ open \subseteq Jobs \X Nat
    /\ stray \in Nat

\* The global counter never exceeds the dispatches whose end was not reported
\* (no report of completion loses a slot), and falls behind them by at most the
\* reports that came for a job with no dispatch open: without such reports it is
\* exact, also when a job is dispatched again while it is running.
SlotsExact ==
    /\ activeGlobal <= Cardinality(open)
    /\ Cardinality(open) <= activeGlobal + stray

\* The jobs the scheduler believes are running in a mode never exceed the
\* mode's cap (MAX_JOBS_*; the dispatch loop tests the counter, on_job_done
\* the per-job record: this relates the two).
JobsIn(m) == {j \in Jobs : activeJobMode[j] = m}
ModeCap == \A m \in Modes : /\ Cardinality(JobsIn(m)) <= activeByMode[m]
                            /\ activeByMode[m] <= Cap(m)

\* A mode's counter drifts away from the jobs recorded in that mode in one way
\* only: a job is dispatched while an earlier dispatch of it is still open.
\* _active_job_mode then forgets the first slot, and on_job_done never returns it.
Leak(m) == activeByMode[m] - Cardinality(JobsIn(m))
LeaksKept == \A m \in Modes : Leak(m)' = Leak(m)
DispatchedAgain == inHand = NoRec /\ inHand' # NoRec /\ Open(inHand'.job) # {}
LeakOnlyByDuplicate == [][LeaksKept \/ DispatchedAgain]_schedVars

\* "If top-of-heap is blocked, delay it slightly so other queued jobs can
\* proceed": while some due record fits under the caps, wherever it is in the
\* heap, the dispatcher ends up taking a record; it does not cycle for ever on
\* records of a full mode.  (Unless an administrator drops records for ever.)
Dispatchable == \E i \in DOMAIN ready : ~Full(ready[i].mode)
Removing == QLen' < QLen /\ inHand' = inHand
OtherModesProceed ==
    <>[][~Removing]_schedVars
      => (Dispatchable ~> ~Dispatchable \/ inHand # NoRec \/ stopped)

\* The scheduler gives out at most MaxGlobal tickets at a time, and one more for
\* each report that came for a job with no dispatch open, whatever the order of
\* submissions, drops, duplicate dispatches and reports of completion.
Pool == INSTANCE SlotPool WITH Tickets <- Jobs \X (1 .. MaxGlobal + MaxStray),
                               Slots <- MaxGlobal, held <- open, extra <- stray
ImplementsSlotPool == Pool!Spec

==============================================================================
