--------------------------- MODULE LocalQueueProofs ---------------------------
(***************************************************************************)
(* What the local queue promises for any number of jobs, users, workers    *)
(* and operations.  In this order:                                         *)
(*   - cancellation is final as long as the process lives (a restart loses *)
(*     the cancel set, so MaxCrashes = 0);                                 *)
(*   - the types, and no QUEUED job is lost, for any number of slots;      *)
(*   - one slot (MAX_CONCURRENCY_GLOBAL = 1): one job in flight, only      *)
(*     QUEUED jobs start, final states stay, no slot is lost;              *)
(*   - the limit of RUNNING jobs per owner, and the worker behind every    *)
(*     RUNNING row, for one slot or without backpressure.                  *)
(***************************************************************************)
EXTENDS LocalQueue, SchedulerProofs, FiniteSetTheorems

\* Whoever canceled a job last is remembered: what the handlers were asked
\* against what the workers will look at, whatever the store says meanwhile.
Remembered == \A j \in Jobs : asked[j] = "cancel" => j \in canceled

CancelInv ==
    /\ DOMAIN asked = Jobs
    /\ DOMAIN worker = Workers
    /\ crashes = 0
    /\ Remembered

\* A step in which no worker starts a job.
NobodyStarts == \A w \in Workers, j \in Jobs : ~Starts(w, j)

LEMMA InitCancelInv == LQInit => CancelInv
  BY DEF LQInit, CancelInv, Remembered

\* A handler that records a request keeps the invariant if it records a
\* cancellation in the cancel set.
LEMMA AskingKeeps ==
  ASSUME CancelInv, NEW j \in Jobs, NEW what, Asking(j, what),
         canceled \subseteq canceled', what = "cancel" => j \in canceled'
  PROVE  CancelInv' /\ NobodyStarts
  <1>1. /\ asked' = [asked EXCEPT ![j] = what]
        /\ worker' = worker /\ crashes' = crashes
    BY DEF Asking
  <1>2. Remembered'
    <2> SUFFICES ASSUME NEW k \in Jobs, asked'[k] = "cancel" PROVE k \in canceled'
      BY DEF Remembered
    <2>1. CASE k = j
      BY <1>1, <2>1 DEF CancelInv
    <2>2. CASE k # j
      BY <1>1, <2>2 DEF CancelInv, Remembered
    <2> QED BY <2>1, <2>2
  <1>3. NobodyStarts
    BY <1>1 DEF NobodyStarts, Starts
  <1> QED BY <1>1, <1>2, <1>3 DEF CancelInv

LEMMA UserActionKeeps ==
  ASSUME CancelInv, UserAction
  PROVE  CancelInv' /\ NobodyStarts
  <1> PICK j \in Jobs :
        \/ \E m \in InModes : SubmitJob(j, m)
        \/ CancelJob(j) \/ AdminCancel(j) \/ DeleteJob(j)
        \/ Pause(j) \/ Resume(j) \/ Rerun(j)
    BY DEF UserAction
  <1>1. CASE \E m \in InModes : SubmitJob(j, m)
    BY <1>1, AskingKeeps DEF SubmitJob
  <1>2. CASE CancelJob(j)
    BY <1>2, AskingKeeps DEF CancelJob
  <1>3. CASE AdminCancel(j)
    BY <1>3, AskingKeeps DEF AdminCancel
  <1>4. CASE DeleteJob(j)
    BY <1>4, AskingKeeps DEF DeleteJob
  <1>5. CASE Pause(j)
    BY <1>5, AskingKeeps DEF Pause
  <1>6. CASE Resume(j)
    BY <1>6, AskingKeeps DEF Resume, RequeueOr429
  <1>7. CASE Rerun(j)
    BY <1>7, AskingKeeps DEF Rerun, RequeueOr429
  <1> QED BY <1>1, <1>2, <1>3, <1>4, <1>5, <1>6, <1>7

\* Steps that touch neither requests, workers nor the cancel set.
LEMMA AsideKeeps ==
  ASSUME CancelInv, UNCHANGED <<asked, worker, canceled, crashes>>
  PROVE  CancelInv' /\ NobodyStarts
  BY DEF CancelInv, Remembered, NobodyStarts, Starts

LEMMA LoopKeeps ==
  ASSUME CancelInv,
         \/ SchedStep(Ripen) \/ DispatcherStep \/ EnqueueTimeout \/ RunCall
         \/ \E j \in Jobs : Scan(j) \/ Recover(j)
  PROVE  CancelInv' /\ NobodyStarts
  <1>1. UNCHANGED <<asked, worker, canceled, crashes>>
    <2>1. CASE SchedStep(Ripen)
      BY <2>1 DEF SchedStep, loopVars, budget
    <2>2. CASE DispatcherStep
      BY <2>2 DEF DispatcherStep, SchedStep, Pop, ReadJob, SyncMode, Elsewhere, loopVars, budget
    <2>3. CASE EnqueueTimeout
      BY <2>3 DEF EnqueueTimeout, Elsewhere, budget
    <2>4. CASE RunCall
      BY <2>4 DEF RunCall, budget
    <2>5. CASE \E j \in Jobs : Scan(j) \/ Recover(j)
      BY <2>5 DEF Scan, Recover, budget
    <2> QED BY <2>1, <2>2, <2>3, <2>4, <2>5
  <1> QED BY <1>1, AsideKeeps

\* A worker's step changes its own state only; a job is started only when it
\* is not in the cancel set.
LEMMA WorkerKeeps ==
  ASSUME CancelInv, NEW w \in Workers, NEW s, Becomes(w, s), s.pc # "run",
         UNCHANGED <<asked, canceled, crashes>>
  PROVE  CancelInv' /\ NobodyStarts
  <1>1. CancelInv'
    BY DEF CancelInv, Remembered, Becomes
  <1>2. ASSUME NEW v \in Workers, NEW j \in Jobs, Starts(v, j) PROVE FALSE
    <2>1. CASE v = w
      BY <1>2, <2>1 DEF CancelInv, Becomes, Starts
    <2>2. CASE v # w
      BY <1>2, <2>2 DEF CancelInv, Becomes, Starts
    <2> QED BY <2>1, <2>2
  <1> QED BY <1>1, <1>2 DEF NobodyStarts

LEMMA AsksKeeps ==
  ASSUME CancelInv, NEW w \in Workers, NEW q, Asks(w, q),
         UNCHANGED <<asked, canceled, crashes>>
  PROVE  CancelInv' /\ NobodyStarts
  <1> DEFINE s == IF q = <<>> THEN Idle ELSE More
  <1>1. Becomes(w, s) BY DEF Asks
  <1>2. s.pc # "run" BY DEF Idle, More
  <1> HIDE DEF s
  <1> QED BY <1>1, <1>2, WorkerKeeps

LEMMA StartKeeps ==
  ASSUME CancelInv, NEW w \in Workers, NEW j \in Jobs, Start(w, j)
  PROVE  CancelInv' /\ \A v \in Workers, k \in Jobs : Starts(v, k) => asked[k] # "cancel"
  <1>1. /\ UNCHANGED <<asked, canceled, crashes>>
        /\ DOMAIN worker' = DOMAIN worker
        /\ worker'[w].job = j
        /\ \A v \in Workers \ {w} : worker'[v] = worker[v]
    BY DEF Start, Takes, Outside, Becomes, CancelInv
  <1>2. CancelInv'
    BY <1>1 DEF CancelInv, Remembered
  <1>3. asked[j] # "cancel"
    BY DEF Start, Startable, WasCanceled, CancelInv, Remembered
  <1>4. ASSUME NEW v \in Workers, NEW k \in Jobs, Starts(v, k) PROVE asked[k] # "cancel"
    <2>1. v = w
      BY <1>1, <1>4 DEF Starts
    <2>2. k = j
      BY <1>1, <1>4, <2>1 DEF Starts
    <2> QED BY <1>3, <2>2
  <1> QED BY <1>2, <1>4

LEMMA WorkerStepKeeps ==
  ASSUME CancelInv, NEW w \in Workers,
         Take(w) \/ Wake(w) \/ End(w) \/ Finish(w) \/ \E j \in Jobs : StartFails(w, j)
  PROVE  CancelInv' /\ \A v \in Workers, k \in Jobs : Starts(v, k) => asked[k] # "cancel"
  <1>1. ASSUME NEW j \in Jobs, Start(w, j)
        PROVE  CancelInv' /\ \A v \in Workers, k \in Jobs : Starts(v, k) => asked[k] # "cancel"
    BY <1>1, StartKeeps
  <1>2. ASSUME NEW j \in Jobs, TakePaused(w, j) PROVE CancelInv' /\ NobodyStarts
    <2>1. Becomes(w, [pc |-> "sleep", job |-> j]) /\ UNCHANGED <<asked, canceled, crashes>>
      BY <1>2 DEF TakePaused, Takes, Outside
    <2> QED BY <2>1, WorkerKeeps
  <1>3. ASSUME NEW j \in Jobs, TakeDenied(w, j) PROVE CancelInv' /\ NobodyStarts
    <2>1. Asks(w, Tail(asyncQ)) /\ UNCHANGED <<asked, canceled, crashes>>
      BY <1>3 DEF TakeDenied, Takes, Outside
    <2> QED BY <2>1, AsksKeeps
  <1>4. ASSUME NEW j \in Jobs, TakeNothing(w, j) PROVE CancelInv' /\ NobodyStarts
    <2>1. Asks(w, Tail(asyncQ)) /\ UNCHANGED <<asked, canceled, crashes>>
      BY <1>4 DEF TakeNothing, Takes, Outside
    <2> QED BY <2>1, AsksKeeps
  <1>5. ASSUME Wake(w) PROVE CancelInv' /\ NobodyStarts
    <2>1. Becomes(w, More) /\ UNCHANGED <<asked, canceled, crashes>>
      BY <1>5 DEF Wake, Outside
    <2>2. More.pc # "run" BY DEF More
    <2> QED BY <2>1, <2>2, WorkerKeeps
  <1>6. ASSUME EndPass1(w) \/ EndPass2Early(w) PROVE CancelInv' /\ NobodyStarts
    <2> DEFINE s == [pc |-> "final", job |-> worker[w].job, ok |-> FALSE]
    <2>1. Becomes(w, s) /\ UNCHANGED <<asked, canceled, crashes>>
      BY <1>6 DEF EndPass1, EndPass2Early, InRun, Outside
    <2>2. s.pc # "run" OBVIOUS
    <2> HIDE DEF s
    <2> QED BY <2>1, <2>2, WorkerKeeps
  <1>7. ASSUME NEW st, EndRun(w, st) PROVE CancelInv' /\ NobodyStarts
    <2> DEFINE s == [pc |-> IF Notify THEN "notify" ELSE "final",
                     job |-> worker[w].job, ok |-> st = "DONE"]
    <2>1. Becomes(w, s) /\ UNCHANGED <<asked, canceled, crashes>>
      BY <1>7 DEF EndRun, InRun, Outside
    <2>2. s.pc # "run" OBVIOUS
    <2> HIDE DEF s
    <2> QED BY <2>1, <2>2, WorkerKeeps
  <1>8. ASSUME Finish(w) PROVE CancelInv' /\ NobodyStarts
    <2>1. Asks(w, asyncQ) /\ UNCHANGED <<asked, canceled, crashes>>
      BY <1>8 DEF Finish, Outside
    <2> QED BY <2>1, AsksKeeps
  <1>9. ASSUME NEW j \in Jobs, StartFails(w, j) PROVE CancelInv' /\ NobodyStarts
    <2>1. Becomes(w, Dead) /\ UNCHANGED <<asked, canceled, crashes>>
      BY <1>9 DEF StartFails, Takes, Outside
    <2>2. Dead.pc # "run" BY DEF Dead
    <2> QED BY <2>1, <2>2, WorkerKeeps
  <1> QED
    BY <1>1, <1>2, <1>3, <1>4, <1>5, <1>6, <1>7, <1>8, <1>9
       DEF Take, End, EndDone, EndFail, NobodyStarts

LEMMA NextCancelInv ==
  ASSUME MaxCrashes = 0, CancelInv, [LQNext]_lqVars
  PROVE  CancelInv' /\ \A w \in Workers, j \in Jobs : Starts(w, j) => asked[j] # "cancel"
  <1>1. CASE UserAction
    BY <1>1, UserActionKeeps DEF NobodyStarts
  <1>2. CASE \/ SchedStep(Ripen) \/ DispatcherStep \/ EnqueueTimeout \/ RunCall
             \/ \E j \in Jobs : Scan(j) \/ Recover(j)
    BY <1>2, LoopKeeps DEF NobodyStarts
  <1>3. CASE \/ \E w \in Workers : Take(w) \/ Wake(w) \/ End(w) \/ Finish(w)
             \/ \E w \in Workers, j \in Jobs : StartFails(w, j)
    BY <1>3, WorkerStepKeeps
  <1>4. CASE Restart
    BY <1>4 DEF Restart, CancelInv
  <1>5. CASE UNCHANGED lqVars
    BY <1>5, AsideKeeps DEF lqVars, loopVars, budget, NobodyStarts
  <1> QED BY <1>1, <1>2, <1>3, <1>4, <1>5 DEF LQNext

\* A job that was canceled or deleted is not started by any worker until a user
\* asks for it again, whatever stale rows the enqueue coroutines write: for
\* every number of jobs, workers and slots, while the process lives
\* (JobQueue.cancel and kill against _run_job's test of _cancel).
THEOREM CancelHolds == MaxCrashes = 0 => (LQSpec => CancelIsFinal)
  <1> SUFFICES ASSUME MaxCrashes = 0 PROVE LQSpec => CancelIsFinal
    OBVIOUS
  <1>1. LQInit => CancelInv
    BY InitCancelInv
  <1>2. CancelInv /\ [LQNext]_lqVars => CancelInv'
    BY NextCancelInv
  <1>3. CancelInv /\ [LQNext]_lqVars
          => [\A w \in Workers, j \in Jobs : Starts(w, j) => asked[j] # "cancel"]_lqVars
    BY NextCancelInv
  <1> QED BY <1>1, <1>2, <1>3, PTL DEF LQSpec, CancelIsFinal

-----------------------------------------------------------------------------
\* The heap as what the proofs need of it: the jobs in it and their modes.

Pair(r) == <<r.job, r.mode>>
Pairs(s) == {Pair(s[i]) : i \in DOMAIN s}
Heap == Pairs(ready) \cup Pairs(waiting)

LEMMA PairsAppend ==
  ASSUME NEW s \in Seq(Record), NEW r \in Record
  PROVE  Pairs(Append(s, r)) = Pairs(s) \cup {Pair(r)}
  <1> DEFINE t == Append(s, r)
  <1>1. /\ DOMAIN t = 1 .. Len(s) + 1 /\ DOMAIN s = 1 .. Len(s) /\ Len(s) \in Nat
        /\ t[Len(s) + 1] = r /\ \A i \in 1 .. Len(s) : t[i] = s[i]
    OBVIOUS
  <1> HIDE DEF t
  <1>2. \A i \in DOMAIN t : i = Len(s) + 1 \/ i \in DOMAIN s
    BY <1>1
  <1>3. Len(s) + 1 \in DOMAIN t /\ \A i \in DOMAIN s : i \in DOMAIN t
    BY <1>1
  <1>4. Pairs(t) = Pairs(s) \cup {Pair(r)}
    BY <1>1, <1>2, <1>3 DEF Pairs
  <1> QED BY <1>4 DEF t

LEMMA PairsTail ==
  ASSUME NEW s \in Seq(Record), s # <<>>
  PROVE  Pairs(s) = Pairs(Tail(s)) \cup {Pair(Head(s))}
  <1>1. /\ DOMAIN s = 1 .. Len(s) /\ Len(s) \in Nat /\ Len(s) > 0
        /\ DOMAIN Tail(s) = 1 .. Len(s) - 1 /\ Head(s) = s[1]
        /\ \A i \in 1 .. Len(s) - 1 : Tail(s)[i] = s[i + 1]
    OBVIOUS
  <1>2. \A i \in DOMAIN s : i = 1 \/ (i - 1 \in DOMAIN Tail(s) /\ Tail(s)[i - 1] = s[i])
    BY <1>1
  <1>3. \A i \in DOMAIN Tail(s) : i + 1 \in DOMAIN s /\ Tail(s)[i] = s[i + 1]
    BY <1>1
  <1>4. 1 \in DOMAIN s
    BY <1>1
  <1>5. Pairs(s) \subseteq Pairs(Tail(s)) \cup {Pair(Head(s))}
    <2> SUFFICES ASSUME NEW i \in DOMAIN s
                 PROVE  Pair(s[i]) \in Pairs(Tail(s)) \cup {Pair(Head(s))}
      BY DEF Pairs
    <2>1. CASE i = 1
      BY <1>1, <2>1
    <2>2. CASE i - 1 \in DOMAIN Tail(s) /\ Tail(s)[i - 1] = s[i]
      BY <2>2 DEF Pairs
    <2> QED BY <1>2, <2>1, <2>2
  <1>6. Pairs(Tail(s)) \subseteq Pairs(s) /\ Pair(Head(s)) \in Pairs(s)
    BY <1>1, <1>3, <1>4 DEF Pairs
  <1> QED BY <1>5, <1>6

LEMMA PairsInsert ==
  ASSUME NEW s \in Seq(Record), NEW r \in Record, NEW i \in 0 .. Len(s)
  PROVE  Pairs(SubSeq(s, 1, i) \o <<r>> \o SubSeq(s, i + 1, Len(s))) = Pairs(s) \cup {Pair(r)}
  <1> DEFINE a == SubSeq(s, 1, i)  b == SubSeq(s, i + 1, Len(s))  t == a \o <<r>> \o b
             n == Len(s)
  <1>1. s \in Seq(Record) /\ n \in Nat /\ DOMAIN s = 1 .. n /\ i \in Nat /\ i <= n
    OBVIOUS
  <1>2. a \in Seq(Record) /\ Len(a) = i /\ \A k \in 1 .. i : a[k] = s[k]
    BY SubSeqProperties
  <1>3. b \in Seq(Record) /\ Len(b) = n - i /\ \A k \in 1 .. n - i : b[k] = s[i + k]
    <2>1. b \in Seq(Record) /\ Len(b) = IF i + 1 <= n THEN n - (i + 1) + 1 ELSE 0
      BY SubSeqProperties
    <2>2. \A k \in 1 .. n - i : b[k] = s[(i + 1) + k - 1]
      BY SubSeqProperties
    <2>3. \A k \in 1 .. n - i : (i + 1) + k - 1 = i + k
      BY <1>1
    <2> HIDE DEF b, n
    <2>4. Len(b) = n - i
      <3>1. CASE i = n
        <4>1. ~(i + 1 <= n) /\ n - i = 0
          BY <1>1, <3>1
        <4> QED BY <2>1, <4>1
      <3>2. CASE i < n
        <4>1. i + 1 <= n /\ n - (i + 1) + 1 = n - i
          BY <1>1, <3>2
        <4> QED BY <2>1, <4>1
      <3> QED BY <1>1, <3>1, <3>2
    <2>5. \A k \in 1 .. n - i : b[k] = s[i + k]
      BY <2>2, <2>3
    <2> QED BY <2>1, <2>4, <2>5
  <1> HIDE DEF a, b, n
  <1>4. /\ DOMAIN t = 1 .. n + 1
        /\ \A k \in 1 .. i : t[k] = a[k]
        /\ t[i + 1] = r
        /\ \A k \in i + 2 .. n + 1 : t[k] = b[k - i - 1]
    <2> DEFINE c == a \o <<r>>
    <2>1. /\ c \in Seq(Record) /\ Len(c) = i + 1 /\ c[i + 1] = r
          /\ \A k \in 1 .. i : c[k] = a[k]
      BY <1>1, <1>2
    <2> HIDE DEF c
    <2>2. t = c \o b
      BY DEF c
    <2> HIDE DEF t
    <2>3. /\ Len(t) = n + 1 /\ DOMAIN t = 1 .. n + 1
          /\ \A k \in 1 .. i + 1 : t[k] = c[k]
          /\ \A k \in i + 2 .. n + 1 : t[k] = b[k - (i + 1)]
      <3>1. /\ t \in Seq(Record) /\ Len(t) = Len(c) + Len(b)
            /\ \A k \in 1 .. Len(c) + Len(b) :
                  t[k] = IF k <= Len(c) THEN c[k] ELSE b[k - Len(c)]
        BY <1>3, <2>1, <2>2, ConcatProperties
      <3>0. Len(c) + Len(b) = n + 1
        BY <1>1, <1>3, <2>1
      <3>2. Len(t) = n + 1 /\ DOMAIN t = 1 .. n + 1
        BY <3>0, <3>1, LenProperties
      <3>3. \A k \in 1 .. n + 1 : t[k] = IF k <= i + 1 THEN c[k] ELSE b[k - (i + 1)]
        BY <2>1, <3>0, <3>1
      <3>4. /\ \A k \in 1 .. i + 1 : k \in 1 .. n + 1 /\ k <= i + 1
            /\ \A k \in i + 2 .. n + 1 : k \in 1 .. n + 1 /\ ~(k <= i + 1)
        BY <1>1
      <3>5. \A k \in 1 .. i + 1 : t[k] = c[k]
        BY <3>3, <3>4
      <3>6. \A k \in i + 2 .. n + 1 : t[k] = b[k - (i + 1)]
        BY <3>3, <3>4
      <3> QED BY <3>2, <3>5, <3>6
    <2>4. \A k \in i + 2 .. n + 1 : k - (i + 1) = k - i - 1
      BY <1>1
    <2>5. i + 1 \in 1 .. i + 1 /\ \A k \in 1 .. i : k \in 1 .. i + 1
      BY <1>1
    <2> QED BY <2>1, <2>3, <2>4, <2>5
  <1> HIDE DEF t
  <1>5. \A k \in DOMAIN t : k = i + 1 \/ \E m \in DOMAIN s : t[k] = s[m]
    <2> TAKE k \in DOMAIN t
    <2>1. CASE k \in 1 .. i
      BY <1>1, <1>2, <1>4, <2>1
    <2>2. CASE k \in i + 2 .. n + 1
      <3>1. k - i - 1 \in 1 .. n - i /\ k - 1 \in 1 .. n /\ i + (k - i - 1) = k - 1
        BY <1>1, <2>2
      <3>2. b[k - i - 1] = s[i + (k - i - 1)]
        BY <1>3, <3>1
      <3>3. t[k] = s[k - 1]
        BY <1>4, <2>2, <3>1, <3>2
      <3> QED BY <1>1, <3>1, <3>3
    <2> QED BY <1>1, <1>4, <2>1, <2>2
  <1>6. \A m \in DOMAIN s : \E k \in DOMAIN t : t[k] = s[m]
    <2> TAKE m \in DOMAIN s
    <2>1. CASE m \in 1 .. i
      BY <1>1, <1>2, <1>4, <2>1
    <2>2. CASE m \in i + 1 .. n
      <3>1. /\ m + 1 \in i + 2 .. n + 1 /\ m + 1 \in 1 .. n + 1 /\ m - i \in 1 .. n - i
            /\ (m + 1) - i - 1 = m - i /\ i + (m - i) = m
        BY <1>1, <2>2
      <3>2. b[m - i] = s[i + (m - i)]
        BY <1>3, <3>1
      <3>3. t[m + 1] = b[(m + 1) - i - 1]
        BY <1>4, <3>1
      <3> QED BY <1>4, <3>1, <3>2, <3>3
    <2> QED BY <1>1, <2>1, <2>2
  <1>7. i + 1 \in DOMAIN t
    BY <1>1, <1>4
  <1>8. Pairs(t) = Pairs(s) \cup {Pair(r)}
    BY <1>4, <1>5, <1>6, <1>7 DEF Pairs
  <1> QED BY <1>8 DEF a, b, t, n

LEMMA PairsWithout ==
  ASSUME NEW s \in Seq(Record), NEW j, NEW t, IsWithout(t, s, j)
  PROVE  Pairs(t) = {x \in Pairs(s) : x[1] # j}
  <1> DEFINE keep == {i \in DOMAIN s : s[i].job # j}
  <1>1. PICK f \in [1 .. Cardinality(keep) -> keep] :
               /\ \A i \in keep : \E a \in DOMAIN f : f[a] = i
               /\ t = [a \in DOMAIN f |-> s[f[a]]]
    BY DEF IsWithout
  <1>2. \A a \in DOMAIN t : f[a] \in keep /\ t[a] = s[f[a]]
    BY <1>1
  <1>3. \A i \in keep : \E a \in DOMAIN t : t[a] = s[i]
    BY <1>1
  <1>4. ASSUME NEW x \in Pairs(t) PROVE x \in Pairs(s) /\ x[1] # j
    <2>1. PICK a \in DOMAIN t : x = Pair(t[a])
      BY DEF Pairs
    <2>2. f[a] \in DOMAIN s /\ s[f[a]].job # j /\ x = Pair(s[f[a]])
      BY <1>2, <2>1
    <2> QED BY <2>2 DEF Pairs, Pair
  <1>5. ASSUME NEW x \in Pairs(s), x[1] # j PROVE x \in Pairs(t)
    <2>1. PICK i \in DOMAIN s : x = Pair(s[i])
      BY DEF Pairs
    <2>2. i \in keep
      BY <1>5, <2>1 DEF Pair
    <2> QED BY <1>3, <2>1, <2>2 DEF Pairs
  <1> QED BY <1>4, <1>5

\* submit(): one more record, of the submitted job.
LEMMA PushEffects ==
  ASSUME ready \in Seq(Record), waiting \in Seq(Record),
         NEW j \in Jobs, NEW m \in Modes, NEW p \in Priorities, Push(j, m, p)
  PROVE  /\ ready' \in Seq(Record) /\ waiting' \in Seq(Record)
         /\ Heap' = Heap \cup {<<j, SubmittedMode(m)>>}
  <1> DEFINE r == [job |-> j, mode |-> SubmittedMode(m), pri |-> p, base |-> p]
  <1>1. r \in Record /\ Pair(r) = <<j, SubmittedMode(m)>>
    BY SubmittedModeType DEF Record, Pair
  <1>2. \/ Delay(r) /\ ready' = ready
        \/ ready' = Append(ready, r) /\ waiting' = waiting
    BY DEF Push
  <1> HIDE DEF r
  <1>3. CASE Delay(r) /\ ready' = ready
    <2>1. waiting' \in Seq(Record)
      BY <1>1, <1>3, DelayType
    <2>2. Pairs(waiting)' = Pairs(waiting) \cup {Pair(r)}
      BY <1>1, <1>3, PairsInsert DEF Delay
    <2> QED BY <1>1, <1>3, <2>1, <2>2 DEF Heap
  <1>4. CASE ready' = Append(ready, r) /\ waiting' = waiting
    <2>1. Pairs(ready)' = Pairs(ready) \cup {Pair(r)}
      BY <1>1, <1>4, PairsAppend
    <2> QED BY <1>1, <1>4, <2>1 DEF Heap
  <1> QED BY <1>2, <1>3, <1>4

\* The dispatcher and the clock.
LEMMA RipenEffects ==
  ASSUME SchedTypeOK, Ripen
  PROVE  SchedTypeOK' /\ Heap' = Heap
  <1>1. SchedTypeOK'
    BY TypeStep DEF SchedNext
  <1>2. /\ waiting \in Seq(Record) /\ waiting # <<>> /\ ready \in Seq(Record)
        /\ ready' = Append(ready, Head(waiting)) /\ waiting' = Tail(waiting)
        /\ Head(waiting) \in Record
    BY DEF SchedTypeOK, Ripen
  <1>3. Pairs(ready)' = Pairs(ready) \cup {Pair(Head(waiting))}
    BY <1>2, PairsAppend
  <1>4. Pairs(waiting) = Pairs(waiting)' \cup {Pair(Head(waiting))}
    BY <1>2, PairsTail
  <1> QED BY <1>1, <1>3, <1>4 DEF Heap

LEMMA DeferEffects ==
  ASSUME SchedTypeOK, Defer
  PROVE  SchedTypeOK' /\ Heap' = Heap
  <1>1. SchedTypeOK'
    BY TypeStep DEF SchedNext, Dispatcher
  <1> DEFINE h == Head(ready)  r == [h EXCEPT !.pri = h.base]
  <1>2. ready \in Seq(Record) /\ ready # <<>> /\ waiting \in Seq(Record) /\ ready' = Tail(ready)
    BY DEF SchedTypeOK, Defer
  <1>3. h \in Record
    BY <1>2
  <1> HIDE DEF h
  <1>4. r \in Record /\ Pair(r) = Pair(h)
    BY <1>3 DEF Record, Pair
  <1>5. Delay(r)
    BY DEF Defer, h
  <1> HIDE DEF r
  <1>6. Pairs(waiting)' = Pairs(waiting) \cup {Pair(h)}
    BY <1>2, <1>4, <1>5, PairsInsert DEF Delay
  <1>7. Pairs(ready) = Pairs(ready)' \cup {Pair(h)}
    BY <1>2, PairsTail DEF h
  <1> QED BY <1>1, <1>6, <1>7 DEF Heap

LEMMA DispatchEffects ==
  ASSUME SchedTypeOK, Dispatch
  PROVE  SchedTypeOK' /\ inHand' \in Record /\ Heap = Heap' \cup {Pair(inHand')}
  <1>1. SchedTypeOK'
    BY TypeStep DEF SchedNext, Dispatcher
  <1>2. /\ ready \in Seq(Record) /\ ready # <<>> /\ ready' = Tail(ready)
        /\ inHand' = Head(ready) /\ waiting' = waiting
    BY DEF SchedTypeOK, Dispatch
  <1>3. Pairs(ready) = Pairs(ready)' \cup {Pair(inHand')}
    BY <1>2, PairsTail
  <1> QED BY <1>1, <1>2, <1>3 DEF Heap

LEMMA DropEffects ==
  ASSUME SchedTypeOK, NEW j \in Jobs, Drop(j)
  PROVE  SchedTypeOK' /\ Heap' = {x \in Heap : x[1] # j}
  <1>1. SchedTypeOK'
    BY TypeStep DEF SchedNext
  <1>2. ready \in Seq(Record) /\ waiting \in Seq(Record)
    BY DEF SchedTypeOK
  <1>3. /\ Pairs(ready)' = {x \in Pairs(ready) : x[1] # j}
        /\ Pairs(waiting)' = {x \in Pairs(waiting) : x[1] # j}
    BY <1>2, PairsWithout DEF Drop
  <1> QED BY <1>1, <1>3 DEF Heap

-----------------------------------------------------------------------------
\* Types.

Stores == [Jobs -> Row \cup {NoRec}]

\* What a step may do to the store without losing a row.
Keeps(s, t) == \A k \in Jobs : s[k] # NoRec => t[k] # NoRec

LEMMA EnterEffects ==
  ASSUME SchedTypeOK, NEW s \in Stores, NEW j \in Jobs, NEW m \in Modes,
         NEW p \in Priorities, Enter(s, j, m, p)
  PROVE  /\ SchedTypeOK' /\ store' \in Stores
         /\ Heap' = Heap \cup {<<j, SubmittedMode(m)>>}
         /\ UNCHANGED <<slotVars, inHand, stopped>>
         /\ \A k \in Jobs : /\ store'[k] = NoRec <=> s[k] = NoRec
                            /\ s[k] # NoRec => store'[k].st = s[k].st
         /\ SubmittedMode(m) = m => store' = s
  <1>1. UNCHANGED <<slotVars, inHand, stopped>> /\ Push(j, m, p)
    BY DEF Enter
  <1>2. /\ ready' \in Seq(Record) /\ waiting' \in Seq(Record)
        /\ Heap' = Heap \cup {<<j, SubmittedMode(m)>>}
    BY <1>1, PushEffects DEF SchedTypeOK
  <1>3. SchedTypeOK'
    BY <1>1, <1>2 DEF SchedTypeOK, slotVars
  <1>4. CASE store' = s
    BY <1>1, <1>2, <1>3, <1>4
  <1>5. CASE SubmittedMode(m) # m /\ s[j] # NoRec /\ store' = [s EXCEPT ![j].mode = SubmittedMode(m)]
    <2>1. SubmittedMode(m) \in Modes
      BY SubmittedModeType
    <2> DEFINE r == [s[j] EXCEPT !.mode = SubmittedMode(m)]
    <2>2. s[j] \in Row
      BY <1>5 DEF Stores
    <2>3. r \in Row /\ r.st = s[j].st
      BY <2>1, <2>2 DEF Row
    <2>4. store' = [s EXCEPT ![j] = r]
      BY <1>5 DEF Stores
    <2> HIDE DEF r
    <2>5. r # NoRec
      BY <2>3, NoRecAssumption
    <2> QED BY <1>1, <1>2, <1>3, <1>5, <2>3, <2>4, <2>5 DEF Stores
  <1> QED BY <1>4, <1>5 DEF Enter

LEMMA SetStateEffects ==
  ASSUME store \in Stores, NEW j \in Jobs, NEW st \in States
  PROVE  /\ SetState(j, st) \in Stores
         /\ \A k \in Jobs : /\ SetState(j, st)[k] = NoRec <=> store[k] = NoRec
                            /\ k # j => SetState(j, st)[k] = store[k]
         /\ Exists(j) => /\ SetState(j, st)[j].st = st
                         /\ SetState(j, st)[j].mode = store[j].mode
  <1>1. CASE ~Exists(j)
    BY <1>1 DEF SetState
  <1>2. CASE Exists(j)
    <2> DEFINE r == [store[j] EXCEPT !.st = st]
    <2>1. store[j] \in Row
      BY <1>2 DEF Exists, Stores
    <2>2. r \in Row /\ r.st = st /\ r.mode = store[j].mode
      BY <2>1 DEF Row
    <2>3. SetState(j, st) = [store EXCEPT ![j] = r]
      BY <1>2 DEF SetState, Stores
    <2> HIDE DEF r
    <2>4. r # NoRec
      BY <2>2, NoRecAssumption
    <2> QED BY <1>2, <2>2, <2>3, <2>4 DEF Stores, Exists
  <1> QED BY <1>1, <1>2

WorkerStates == {Idle, More, Dead} \cup Busy

LEMMA WorkerFacts ==
  ASSUME NEW s \in WorkerStates
  PROVE  /\ s.pc \in {"idle", "next", "dead", "sleep", "run", "final", "notify"}
         /\ s.pc = "idle" => s = Idle
         /\ s.pc = "dead" <=> s = Dead
         /\ s.pc \in {"sleep", "run", "final", "notify"} => s.job \in Jobs
         /\ s.pc = "run" => s.mode \in Modes
  BY DEF WorkerStates, Idle, More, Dead, Busy

\* Beside the types: a job to recover, and a job that runs, has its row; the
\* dispatcher waits for the last of the coroutines.
LQInv ==
    /\ LQTypeOK
    /\ \A j \in boot : Exists(j)
    /\ \A w \in Workers : worker[w].pc = "run" => Exists(worker[w].job)
    /\ dpc = "wait" => calls # <<>> /\ calls[Len(calls)].job = inHand.job

LEMMA InitLQInv == LQInit => LQInv
  <1> SUFFICES ASSUME LQInit PROVE LQInv
    OBVIOUS
  <1>1. SchedTypeOK
    BY SchedInitType DEF LQInit
  <1>2. calls \in Seq([job : Jobs, row : Row]) /\ asyncQ \in Seq(Jobs)
    BY DEF LQInit
  <1>3. ops \in 0 .. MaxOps /\ crashes \in 0 .. MaxCrashes /\ faults \in 0 .. MaxFaults
    BY LocalQueueAssumption DEF LQInit
  <1>4. worker \in [Workers -> {Idle, More, Dead} \cup Busy] /\ \A w \in Workers : worker[w].pc # "run"
    BY DEF LQInit, Idle
  <1>5. inHand = NoRec
    BY DEF LQInit, SchedInit
  <1> QED BY <1>1, <1>2, <1>3, <1>4, <1>5 DEF LQInit, LQInv, LQTypeOK

\* A handler.
LEMMA AskingInv ==
  ASSUME LQInv, NEW j \in Jobs, NEW what \in {"run", "pause", "cancel"}, Asking(j, what),
         SchedTypeOK', inHand' = inHand, store' \in Stores,
         canceled' \subseteq Jobs, seen' \subseteq Jobs
  PROVE  LQInv'
  <1>1. /\ boot = {} /\ \A w \in Workers : worker[w].pc # "run"
        /\ ops' \in 0 .. MaxOps /\ asked' \in [Jobs -> {"none", "run", "pause", "cancel"}]
        /\ UNCHANGED <<calls, asyncQ, worker, dpc, snap, boot, crashes, faults>>
    <2>1. ops \in 0 .. MaxOps /\ MaxOps \in Nat
      BY LocalQueueAssumption DEF LQInv, LQTypeOK
    <2>2. ops' \in 0 .. MaxOps
      BY <2>1 DEF Asking
    <2> QED BY <2>2 DEF Asking, LoopFree, Blocking, LQInv, LQTypeOK
  <1> QED BY <1>1 DEF LQInv, LQTypeOK, Stores, Exists

LEMMA ResubmitEffects ==
  ASSUME SchedTypeOK, seen \subseteq Jobs, NEW s \in Stores, NEW j \in Jobs, NEW m \in Modes,
         NEW p \in Priorities, Resubmit(s, j, m, p)
  PROVE  /\ SchedTypeOK' /\ store' \in Stores /\ inHand' = inHand /\ seen' = seen \ {j}
         /\ Heap' = Heap \cup {<<j, SubmittedMode(m)>>}
         /\ \A k \in Jobs : /\ store'[k] = NoRec <=> s[k] = NoRec
                            /\ s[k] # NoRec => store'[k].st = s[k].st
         /\ SubmittedMode(m) = m => store' = s
  <1>1. Enter(s, j, m, p) /\ seen' = seen \ {j}
    BY DEF Resubmit
  <1> QED BY <1>1, EnterEffects

\* The rows the handlers write.
NewRow(m) == [st |-> "QUEUED", mode |-> m, phase |-> "pass1", req |-> FALSE, clone |-> FALSE]
Reran(r) == [r EXCEPT !.st = "QUEUED", !.req = TRUE, !.clone = TRUE]
AfterPass1(r) == [r EXCEPT !.st = "QUEUED", !.phase = "pass2", !.clone = TRUE]

LEMMA RowFacts ==
  /\ \A m \in Modes : NewRow(m) \in Row
  /\ \A r \in Row : /\ Reran(r) \in Row /\ AfterPass1(r) \in Row /\ Started(r) \in Row
                    /\ Cleared(r) \in Row
                    /\ Reran(r).st = "QUEUED" /\ AfterPass1(r).st = "QUEUED"
                    /\ Started(r).st = "RUNNING" /\ Cleared(r).st = r.st
                    /\ Reran(r).mode = r.mode /\ AfterPass1(r).mode = r.mode
                    /\ Started(r).mode = r.mode /\ Cleared(r).mode = r.mode
                    /\ r.st \in States /\ r.mode \in Modes
  <1>1. \A m \in Modes : NewRow(m) \in Row
    BY DEF NewRow, Row, States
  <1>2. ASSUME NEW r \in Row
        PROVE  /\ Reran(r) \in Row /\ AfterPass1(r) \in Row
               /\ Reran(r).st = "QUEUED" /\ AfterPass1(r).st = "QUEUED"
               /\ Reran(r).mode = r.mode /\ AfterPass1(r).mode = r.mode
               /\ r.st \in States /\ r.mode \in Modes
    BY DEF Reran, AfterPass1, Row, States
  <1>3. ASSUME NEW r \in Row
        PROVE  Started(r) \in Row /\ Started(r).st = "RUNNING" /\ Started(r).mode = r.mode
    <2>1. PhaseOf(r) \in {"pass1", "pass2", "done"}
      BY DEF PhaseOf, Row
    <2> HIDE DEF PhaseOf
    <2> QED BY <2>1 DEF Started, Row, States
  <1>4. ASSUME NEW r \in Row
        PROVE  Cleared(r) \in Row /\ Cleared(r).st = r.st /\ Cleared(r).mode = r.mode
    <2> DEFINE ph == IF r.phase = "pass2" THEN "done" ELSE r.phase
    <2>1. ph \in {"pass1", "pass2", "done"}
      BY DEF Row
    <2>2. Cleared(r) = [r EXCEPT !.req = FALSE, !.phase = ph]
      BY DEF Cleared
    <2> HIDE DEF ph
    <2> QED BY <2>1, <2>2 DEF Row
  <1> QED BY <1>1, <1>2, <1>3, <1>4

\* Writing a row.
LEMMA PutRow ==
  ASSUME NEW s \in Stores, NEW j \in Jobs, NEW r \in Row
  PROVE  /\ [s EXCEPT ![j] = r] \in Stores
         /\ [s EXCEPT ![j] = r][j] = r /\ r # NoRec
         /\ \A k \in Jobs \ {j} : [s EXCEPT ![j] = r][k] = s[k]
  BY NoRecAssumption DEF Stores

LEMMA UserInv == LQInv /\ UserAction => LQInv'
  <1> SUFFICES ASSUME LQInv, UserAction PROVE LQInv'
    OBVIOUS
  <1> PICK j \in Jobs :
        \/ \E m \in InModes : SubmitJob(j, m)
        \/ CancelJob(j) \/ AdminCancel(j) \/ DeleteJob(j)
        \/ Pause(j) \/ Resume(j) \/ Rerun(j)
    BY DEF UserAction
  <1>0. /\ SchedTypeOK /\ store \in Stores /\ canceled \subseteq Jobs /\ seen \subseteq Jobs
        /\ 100 \in Priorities /\ 110 \in Priorities /\ InModes \subseteq Modes
    BY LocalQueueAssumption, SchedulerAssumption DEF LQInv, LQTypeOK, Stores
  <1>1. ASSUME NEW m \in InModes, SubmitJob(j, m) PROVE LQInv'
    <2>1. Resubmit([store EXCEPT ![j] = NewRow(m)], j, m, 100)
      BY <1>1 DEF SubmitJob, NewRow
    <2>2. NewRow(m) \in Row
      BY <1>0, RowFacts
    <2>3. [store EXCEPT ![j] = NewRow(m)] \in Stores
      BY <1>0, <2>2, PutRow
    <2>4. SchedTypeOK' /\ store' \in Stores /\ inHand' = inHand /\ seen' = seen \ {j}
      BY <1>0, <2>1, <2>3, ResubmitEffects
    <2> QED BY <1>0, <1>1, <2>4, AskingInv DEF SubmitJob
  <1>2. CASE CancelJob(j)
    <2>1. store' \in Stores
      BY <1>0, <1>2, SetStateEffects DEF CancelJob, States
    <2>2. SchedTypeOK' /\ inHand' = inHand
      BY <1>0, <1>2 DEF CancelJob, schedVars, SchedTypeOK
    <2> QED BY <1>0, <1>2, <2>1, <2>2, AskingInv DEF CancelJob
  <1>3. CASE AdminCancel(j)
    <2>1. store' \in Stores
      BY <1>0, <1>3, SetStateEffects DEF AdminCancel, States
    <2>2. SchedTypeOK' /\ inHand' = inHand
      BY <1>0, <1>3, DropEffects DEF AdminCancel, Drop
    <2> QED BY <1>0, <1>3, <2>1, <2>2, AskingInv DEF AdminCancel
  <1>4. CASE DeleteJob(j)
    <2>1. store' \in Stores
      BY <1>0, <1>4 DEF DeleteJob, Stores
    <2>2. SchedTypeOK' /\ inHand' = inHand
      BY <1>0, <1>4 DEF DeleteJob, schedVars, SchedTypeOK
    <2> QED BY <1>0, <1>4, <2>1, <2>2, AskingInv DEF DeleteJob
  <1>5. CASE Pause(j)
    <2>1. store' \in Stores
      BY <1>0, <1>5, SetStateEffects DEF Pause, States
    <2>2. SchedTypeOK' /\ inHand' = inHand
      BY <1>0, <1>5 DEF Pause, schedVars, SchedTypeOK
    <2> QED BY <1>0, <1>5, <2>1, <2>2, AskingInv DEF Pause
  <1>6. ASSUME NEW s \in Stores, NEW p \in Priorities, NEW m \in Modes,
               RequeueOr429(s, j, m, p)
        PROVE  /\ SchedTypeOK' /\ store' \in Stores /\ inHand' = inHand
               /\ canceled' \subseteq Jobs /\ seen' \subseteq Jobs
    <2>1. CASE Resubmit(s, j, m, p)
      BY <1>0, <1>6, <2>1, ResubmitEffects DEF RequeueOr429
    <2>2. CASE store' = s /\ UNCHANGED <<schedVars, seen>>
      <3>1. SchedTypeOK' /\ inHand' = inHand
        BY <1>0, <2>2 DEF schedVars, SchedTypeOK
      <3> QED BY <1>0, <1>6, <2>2, <3>1 DEF RequeueOr429
    <2> QED BY <1>6, <2>1, <2>2 DEF RequeueOr429
  <1>7. CASE Resume(j)
    <2>1. SetState(j, "QUEUED") \in Stores /\ store[j].mode \in Modes
      BY <1>0, <1>7, SetStateEffects, RowFacts DEF States, Resume, InState, Exists, Stores
    <2> QED BY <1>0, <1>6, <1>7, <2>1, AskingInv DEF Resume
  <1>8. CASE Rerun(j)
    <2> DEFINE s == [store EXCEPT ![j].st = "QUEUED", ![j].req = TRUE, ![j].clone = TRUE]
    <2>1. store[j] \in Row
      BY <1>0, <1>8 DEF Rerun, Exists, Stores
    <2>2. s = [store EXCEPT ![j] = Reran(store[j])]
      BY <1>0 DEF Stores, Reran
    <2>3. s \in Stores /\ store[j].mode \in Modes
      BY <1>0, <2>1, <2>2, PutRow, RowFacts
    <2>4. RequeueOr429(s, j, store[j].mode, 110) /\ Asking(j, "run")
      BY <1>8 DEF Rerun
    <2> HIDE DEF s
    <2> QED BY <1>0, <1>6, <2>3, <2>4, AskingInv
  <1> QED BY <1>1, <1>2, <1>3, <1>4, <1>5, <1>7, <1>8

LEMMA ScanInv ==
  ASSUME LQInv, NEW j \in Jobs, Scan(j)
  PROVE  LQInv'
  <1>1. SchedTypeOK /\ store \in Stores /\ seen \subseteq Jobs /\ 100 \in Priorities
    BY LocalQueueAssumption DEF LQInv, LQTypeOK, Stores
  <1>2. store[j].mode \in Modes
    BY <1>1, RowFacts DEF Scan, InState, Exists, Stores
  <1>3. /\ SchedTypeOK' /\ store' \in Stores /\ inHand' = inHand
        /\ \A k \in Jobs : store'[k] = NoRec <=> store[k] = NoRec
    BY <1>1, <1>2, EnterEffects DEF Scan
  <1>4. /\ UNCHANGED <<calls, asyncQ, canceled, worker, dpc, snap, boot, asked, budget>>
        /\ seen' \subseteq Jobs
    BY <1>1 DEF Scan
  <1>5. \A w \in Workers : worker[w].pc = "run" => worker[w].job \in Jobs
    BY WorkerFacts DEF LQInv, LQTypeOK, WorkerStates
  <1> QED BY <1>3, <1>4, <1>5 DEF LQInv, LQTypeOK, Stores, Exists, budget

\* The steps of the scheduler that the queue does not see.
LEMMA AsideInv ==
  ASSUME LQInv, SchedTypeOK', inHand' = inHand,
         UNCHANGED <<store, loopVars, dpc, snap, boot, asked, budget>>
  PROVE  LQInv'
  BY DEF LQInv, LQTypeOK, loopVars, budget, Exists

LEMMA DispatcherInv ==
  ASSUME LQInv, SchedStep(Ripen) \/ DispatcherStep
  PROVE  LQInv'
  <1>0. SchedTypeOK /\ store \in Stores /\ (dpc = "none" <=> inHand = NoRec)
    BY DEF LQInv, LQTypeOK, Stores
  <1>1. CASE SchedStep(Ripen) \/ SchedStep(Defer)
    <2>1. SchedTypeOK' /\ inHand' = inHand
      BY <1>0, <1>1, RipenEffects, DeferEffects DEF SchedStep, Ripen, Defer
    <2> QED BY <1>1, <2>1, AsideInv DEF SchedStep
  <1>2. CASE Pop
    <2>1. SchedTypeOK' /\ inHand' \in Record
      BY <1>0, <1>2, DispatchEffects DEF Pop
    <2>2. inHand' # NoRec /\ dpc = "none" /\ dpc' = "read"
      BY <1>0, <1>2, <2>1, NoRecAssumption DEF Pop, Dispatch, DispatcherFree
    <2> QED BY <1>2, <2>1, <2>2 DEF LQInv, LQTypeOK, Pop, Elsewhere, budget, Exists
  <1>3. CASE ReadJob
    <2>0. inHand # NoRec /\ inHand \in Record /\ inHand.job \in Jobs
      BY <1>0, <1>3 DEF ReadJob, SchedTypeOK, Record
    <2>1. UNCHANGED <<store, Elsewhere>>
      BY <1>3 DEF ReadJob
    <2>2. CASE GiveBack /\ dpc' = "none" /\ UNCHANGED <<store, calls, snap>>
      <3>1. SchedTypeOK' /\ inHand' = NoRec
        BY <1>0, <2>2, TypeStep DEF SchedNext, Dispatcher, GiveBack
      <3> QED BY <1>3, <2>1, <2>2, <3>1 DEF LQInv, LQTypeOK, ReadJob, Elsewhere, budget, Exists
    <2>3. CASE Enqueuable(inHand.job) /\ UNCHANGED schedVars
      <3>1. store[inHand.job] \in Row /\ SchedTypeOK' /\ inHand' = inHand
        BY <1>0, <2>0, <2>3 DEF Enqueuable, InState, Exists, Stores, schedVars, SchedTypeOK
      <3>2. CASE Call(store[inHand.job]) /\ UNCHANGED snap
        <4> DEFINE c == [job |-> inHand.job, row |-> store[inHand.job]]
        <4>1. c \in [job : Jobs, row : Row] /\ calls \in Seq([job : Jobs, row : Row])
          BY <2>0, <3>1 DEF LQInv, LQTypeOK
        <4>2. calls' = Append(calls, c) /\ dpc' = "wait" /\ c.job = inHand.job
          BY <3>2 DEF Call
        <4> HIDE DEF c
        <4>3. calls' \in Seq([job : Jobs, row : Row]) /\ calls' # <<>> /\ calls'[Len(calls')] = c
          BY <4>1, <4>2
        <4> QED BY <1>3, <2>0, <2>1, <3>1, <3>2, <4>2, <4>3
                DEF LQInv, LQTypeOK, ReadJob, Elsewhere, budget, Exists
      <3>3. CASE dpc' = "sync" /\ snap' = store[inHand.job] /\ UNCHANGED calls
        BY <1>3, <2>0, <2>1, <3>1, <3>3, NoRecAssumption
           DEF LQInv, LQTypeOK, ReadJob, Elsewhere, budget, Exists
      <3> QED BY <1>3, <2>3, <3>2, <3>3 DEF ReadJob
    <2> QED BY <1>3, <2>2, <2>3 DEF ReadJob
  <1>4. CASE SyncMode
    <2> DEFINE j == inHand.job
    <2>0. inHand # NoRec /\ j \in Jobs /\ inHand.mode \in Modes /\ snap \in Row
      BY <1>0, <1>4 DEF SyncMode, SchedTypeOK, Record, LQInv, LQTypeOK
    <2>1. SchedTypeOK' /\ inHand' = inHand /\ UNCHANGED Elsewhere /\ snap' = NoRec
      BY <1>0, <1>4 DEF SyncMode, schedVars, SchedTypeOK
    <2>2. \E r \in Row : Call(r) /\ store' \in Stores /\ Keeps(store, store')
      <3>1. CASE ~Exists(j)
        BY <1>0, <1>4, <2>0, <3>1 DEF SyncMode, Keeps
      <3>2. CASE Exists(j)
        <4> DEFINE r == [store[j] EXCEPT !.mode = inHand.mode]
        <4>1. store[j] \in Row
          BY <1>0, <2>0, <3>2 DEF Exists, Stores
        <4>2. r \in Row
          BY <2>0, <4>1 DEF Row
        <4>3. store' = [store EXCEPT ![j] = r] /\ Call(store'[j])
          BY <1>0, <1>4, <3>2 DEF SyncMode, Stores
        <4> HIDE DEF r, j
        <4>4. store' \in Stores /\ store'[j] = r /\ r # NoRec
              /\ \A k \in Jobs \ {j} : store'[k] = store[k]
          BY <1>0, <2>0, <4>2, <4>3, NoRecAssumption DEF Stores
        <4> QED BY <4>2, <4>3, <4>4 DEF Keeps
      <3> QED BY <3>1, <3>2
    <2>3. PICK r \in Row : Call(r) /\ store' \in Stores /\ Keeps(store, store')
      BY <2>2
    <2> DEFINE c == [job |-> j, row |-> r]
    <2>4. c \in [job : Jobs, row : Row] /\ calls \in Seq([job : Jobs, row : Row])
      BY <2>0 DEF LQInv, LQTypeOK
    <2>5. calls' = Append(calls, c) /\ dpc' = "wait" /\ c.job = inHand.job
      BY <2>3 DEF Call
    <2> HIDE DEF c, j
    <2>6. calls' \in Seq([job : Jobs, row : Row]) /\ calls' # <<>> /\ calls'[Len(calls')] = c
      BY <2>4, <2>5
    <2>7. \A w \in Workers : worker[w].pc = "run" => worker[w].job \in Jobs
      BY WorkerFacts DEF LQInv, LQTypeOK, WorkerStates
    <2> QED BY <2>0, <2>1, <2>3, <2>5, <2>6, <2>7
            DEF LQInv, LQTypeOK, Stores, Keeps, Elsewhere, budget, Exists
  <1> QED BY <1>1, <1>2, <1>3, <1>4 DEF DispatcherStep

LEMMA TimeoutInv == LQInv /\ EnqueueTimeout => LQInv'
  <1> SUFFICES ASSUME LQInv, EnqueueTimeout PROVE LQInv'
    OBVIOUS
  <1>0. SchedTypeOK /\ store \in Stores /\ inHand # NoRec
    BY DEF LQInv, LQTypeOK, Stores, EnqueueTimeout
  <1>1. SchedTypeOK' /\ inHand' = NoRec /\ inHand.job \in Jobs
    BY <1>0, TypeStep DEF SchedNext, Dispatcher, EnqueueTimeout, GiveBack, SchedTypeOK, Record
  <1>2. store' \in Stores /\ \A k \in Jobs : store'[k] = NoRec <=> store[k] = NoRec
    BY <1>0, <1>1, SetStateEffects DEF EnqueueTimeout, States
  <1>3. \A w \in Workers : worker[w].pc = "run" => worker[w].job \in Jobs
    BY WorkerFacts DEF LQInv, LQTypeOK, WorkerStates
  <1> QED BY <1>1, <1>2, <1>3 DEF EnqueueTimeout, LQInv, LQTypeOK, Stores, Elsewhere, budget, Exists

LEMMA RunCallInv == LQInv /\ RunCall => LQInv'
  <1> SUFFICES ASSUME LQInv, RunCall PROVE LQInv'
    OBVIOUS
  <1> DEFINE C == [job : Jobs, row : Row]
  <1>0. SchedTypeOK /\ store \in Stores /\ calls \in Seq(C) /\ calls # <<>> /\ asyncQ \in Seq(Jobs)
    BY DEF LQInv, LQTypeOK, Stores, RunCall
  <1> HIDE DEF C
  <1> DEFINE c == Head(calls)
  <1>1. c \in C /\ Tail(calls) \in Seq(C)
    BY <1>0
  <1>2. c.job \in Jobs /\ c.row \in Row
    BY <1>1 DEF C
  <1>3. store' = [store EXCEPT ![c.job] = c.row] /\ asyncQ' = Append(asyncQ, c.job) /\ calls' = Tail(calls)
    BY DEF RunCall
  <1> HIDE DEF c
  <1>4. store' \in Stores /\ Keeps(store, store') /\ asyncQ' \in Seq(Jobs) /\ calls' \in Seq(C)
    <2>1. /\ store' \in Stores /\ store'[c.job] = c.row /\ c.row # NoRec
          /\ \A k \in Jobs \ {c.job} : store'[k] = store[k]
      BY <1>0, <1>2, <1>3, NoRecAssumption DEF Stores
    <2>2. Keeps(store, store')
      BY <2>1 DEF Keeps
    <2> QED BY <1>0, <1>1, <1>2, <1>3, <2>1, <2>2
  <1>5. \A w \in Workers : worker[w].pc = "run" => worker[w].job \in Jobs
    BY WorkerFacts DEF LQInv, LQTypeOK, WorkerStates
  <1>6. CASE Len(calls) = 1 /\ dpc = "wait"
    <2>1. SchedTypeOK' /\ inHand' = NoRec /\ dpc' = "none"
      BY <1>0, <1>6, TypeStep DEF RunCall, SchedNext, Dispatcher, HandOver
    <2> QED BY <1>4, <1>5, <1>6, <2>1
            DEF RunCall, LQInv, LQTypeOK, Stores, Keeps, budget, Exists, C
  <1>7. CASE ~(Len(calls) = 1 /\ dpc = "wait")
    <2>1. SchedTypeOK' /\ inHand' = inHand /\ dpc' = dpc
      BY <1>0, <1>7 DEF RunCall, schedVars, SchedTypeOK
    <2>2. dpc = "wait" => calls' # <<>> /\ calls'[Len(calls')] = calls[Len(calls)]
      <3> SUFFICES ASSUME dpc = "wait"
                   PROVE  calls' # <<>> /\ calls'[Len(calls')] = calls[Len(calls)]
        OBVIOUS
      <3>1. Len(calls) \in Nat /\ Len(calls) > 1 /\ Len(calls') = Len(calls) - 1
        <4>1. Len(calls) \in Nat /\ Len(calls) # 0 /\ Len(Tail(calls)) = Len(calls) - 1
          BY <1>0, HeadTailProperties, EmptySeq
        <4> QED BY <1>3, <1>7, <4>1
      <3>2. calls'[Len(calls) - 1] = calls[Len(calls) - 1 + 1]
        BY <1>0, <1>3, <3>1
      <3> QED BY <1>4, <3>1, <3>2
    <2> QED BY <1>4, <1>5, <1>7, <2>1, <2>2
            DEF RunCall, LQInv, LQTypeOK, Stores, Keeps, budget, Exists, C
  <1> QED BY <1>6, <1>7

LEMMA RestartInv == LQInv /\ Restart => LQInv'
  <1> SUFFICES ASSUME LQInv, Restart PROVE LQInv'
    OBVIOUS
  <1>1. SchedTypeOK'
    <2>1. <<>> \in Seq(Record)
      OBVIOUS
    <2> QED BY <2>1, SchedulerAssumption DEF Restart, SchedTypeOK, LQInv, LQTypeOK
  <1>2. calls' \in Seq([job : Jobs, row : Row]) /\ asyncQ' \in Seq(Jobs)
    BY DEF Restart
  <1>3. worker' \in [Workers -> {Idle, More, Dead} \cup Busy] /\ \A w \in Workers : worker'[w].pc # "run"
    BY DEF Restart, Idle
  <1>4. crashes' \in 0 .. MaxCrashes
    BY LocalQueueAssumption DEF Restart, LQInv, LQTypeOK
  <1>5. \A j \in boot' : Exists(j)'
    BY DEF Restart, Unfinished, InState, Exists
  <1>6. /\ UNCHANGED <<store, asked, ops, faults>> /\ inHand' = NoRec
        /\ canceled' = {} /\ seen' = {} /\ boot' \subseteq Jobs /\ dpc' = "none" /\ snap' = NoRec
    BY DEF Restart
  <1> QED BY <1>1, <1>2, <1>3, <1>4, <1>5, <1>6 DEF LQInv, LQTypeOK

LEMMA RecoverInv ==
  ASSUME LQInv, NEW j \in Jobs, Recover(j)
  PROVE  LQInv'
  <1>1. /\ SchedTypeOK /\ store \in Stores /\ seen \subseteq Jobs /\ 100 \in Priorities
        /\ Exists(j) /\ boot \subseteq Jobs
    BY LocalQueueAssumption DEF LQInv, LQTypeOK, Stores, Recover
  <1>2. store[j].mode \in Modes
    BY <1>1, RowFacts DEF Exists, Stores
  <1>3. /\ SetState(j, "QUEUED") \in Stores
        /\ \A k \in Jobs : SetState(j, "QUEUED")[k] = NoRec <=> store[k] = NoRec
    BY <1>1, SetStateEffects DEF States
  <1>4. Resubmit(SetState(j, "QUEUED"), j, store[j].mode, 100)
    BY DEF Recover
  <1>5. /\ SchedTypeOK' /\ store' \in Stores /\ inHand' = inHand /\ seen' = seen \ {j}
        /\ \A k \in Jobs : store'[k] = NoRec <=> SetState(j, "QUEUED")[k] = NoRec
    BY <1>1, <1>2, <1>3, <1>4, ResubmitEffects
  <1>6. /\ UNCHANGED <<calls, asyncQ, canceled, worker, dpc, snap, asked, budget>>
        /\ boot' = boot \ {j}
    BY DEF Recover
  <1>7. \A w \in Workers : worker[w].pc = "run" => worker[w].job \in Jobs
    BY WorkerFacts DEF LQInv, LQTypeOK, WorkerStates
  <1> QED BY <1>1, <1>3, <1>5, <1>6, <1>7 DEF LQInv, LQTypeOK, Stores, budget, Exists

\* A worker's step.
LEMMA WorkerMoves ==
  ASSUME LQInv, NEW w \in Workers, NEW s \in WorkerStates, Becomes(w, s),
         store' \in Stores, Keeps(store, store'), s.pc = "run" => Exists(s.job)',
         SchedTypeOK', inHand' = inHand, asyncQ' \in Seq(Jobs), canceled' = canceled,
         seen' \subseteq Jobs, UNCHANGED Outside, faults' \in 0 .. MaxFaults
  PROVE  LQInv'
  <1>1. worker' = [worker EXCEPT ![w] = s] /\ worker \in [Workers -> WorkerStates]
    BY DEF Becomes, LQInv, LQTypeOK, WorkerStates
  <1>2. worker' \in [Workers -> WorkerStates] /\ worker'[w] = s
        /\ \A v \in Workers \ {w} : worker'[v] = worker[v]
    BY <1>1
  <1>3. \A v \in Workers : worker[v].pc = "run" => worker[v].job \in Jobs
    BY <1>1, WorkerFacts
  <1>4. \A v \in Workers : worker'[v].pc = "run" => store'[worker'[v].job] # NoRec
    <2> TAKE v \in Workers
    <2>1. CASE v = w
      BY <1>2, <2>1 DEF Exists
    <2>2. CASE v # w
      BY <1>2, <1>3, <2>2 DEF LQInv, Keeps, Exists
    <2> QED BY <2>1, <2>2
  <1>5. UNCHANGED <<calls, dpc, snap, boot, asked, ops, crashes>>
    BY DEF Outside
  <1>6. \A j \in boot' : Exists(j)'
    BY <1>5 DEF LQInv, LQTypeOK, Keeps, Exists
  <1>7. LQTypeOK'
    BY <1>2, <1>5 DEF LQInv, LQTypeOK, Stores, WorkerStates
  <1> QED BY <1>4, <1>5, <1>6, <1>7 DEF LQInv, Exists

LEMMA TakeFacts ==
  ASSUME LQInv, NEW w \in Workers, NEW j, Takes(w, j)
  PROVE  /\ j \in Jobs /\ Tail(asyncQ) \in Seq(Jobs) /\ UNCHANGED Outside
         /\ worker[w].pc \in {"idle", "next"}
         /\ store \in Stores /\ Keeps(store, store) /\ seen \subseteq Jobs
         /\ SchedTypeOK /\ faults \in 0 .. MaxFaults
         /\ \A q : Asks(w, q) => \E s \in {Idle, More} : Becomes(w, s)
         /\ Idle \in WorkerStates /\ More \in WorkerStates /\ Dead \in WorkerStates
         /\ Idle.pc # "run" /\ More.pc # "run" /\ Dead.pc # "run"
  <1>1. asyncQ \in Seq(Jobs) /\ asyncQ # <<>> /\ j = Head(asyncQ)
    BY DEF LQInv, LQTypeOK, Takes
  <1>2. j \in Jobs /\ Tail(asyncQ) \in Seq(Jobs)
    BY <1>1
  <1>3. \A q : Asks(w, q) => \E s \in {Idle, More} : Becomes(w, s)
    BY DEF Asks
  <1>4. /\ Idle \in WorkerStates /\ More \in WorkerStates /\ Dead \in WorkerStates
        /\ Idle.pc # "run" /\ More.pc # "run" /\ Dead.pc # "run"
    BY DEF WorkerStates, Idle, More, Dead
  <1> QED BY <1>2, <1>3, <1>4 DEF Takes, LQInv, LQTypeOK, Stores, Keeps

LEMMA SchedStays ==
  ASSUME SchedTypeOK, UNCHANGED schedVars
  PROVE  SchedTypeOK' /\ inHand' = inHand /\ Heap' = Heap
  BY DEF SchedTypeOK, schedVars, Heap

LEMMA TakeInv ==
  ASSUME LQInv, NEW w \in Workers, Take(w) \/ \E j \in Jobs : StartFails(w, j)
  PROVE  LQInv'
  <1>1. ASSUME NEW j, TakePaused(w, j) PROVE LQInv'
    <2> DEFINE s == [pc |-> "sleep", job |-> j]
    <2>1. Takes(w, j)
      BY <1>1 DEF TakePaused
    <2>2. s \in WorkerStates /\ s.pc # "run"
      BY <2>1, TakeFacts DEF WorkerStates, Busy
    <2>3. /\ Becomes(w, s) /\ asyncQ' = Tail(asyncQ)
          /\ UNCHANGED <<schedVars, store, canceled, seen, faults>>
      BY <1>1 DEF TakePaused
    <2> HIDE DEF s
    <2> QED BY <2>1, <2>2, <2>3, TakeFacts, SchedStays, WorkerMoves
  <1>2. ASSUME NEW j, TakeDenied(w, j) \/ TakeNothing(w, j) PROVE LQInv'
    <2>1. Takes(w, j) /\ Asks(w, Tail(asyncQ))
      BY <1>2 DEF TakeDenied, TakeNothing
    <2>2. /\ asyncQ' = Tail(asyncQ) /\ UNCHANGED <<schedVars, canceled, faults>>
          /\ seen' \subseteq seen
          /\ store' = SetState(j, "QUEUED") \/ store' = SetState(j, "CANCELED")
      BY <1>2 DEF TakeDenied, TakeNothing
    <2>3. store' \in Stores /\ Keeps(store, store')
      BY <2>1, <2>2, TakeFacts, SetStateEffects DEF States, Keeps
    <2>4. PICK s \in {Idle, More} : Becomes(w, s)
      BY <2>1, TakeFacts
    <2>5. s \in WorkerStates /\ s.pc # "run"
      BY <2>1, TakeFacts
    <2>6. seen' \subseteq Jobs
      BY <2>1, <2>2, TakeFacts
    <2> QED BY <2>1, <2>2, <2>3, <2>4, <2>5, <2>6, TakeFacts, SchedStays, WorkerMoves
  <1>3. ASSUME NEW j, Start(w, j) PROVE LQInv'
    <2> DEFINE s == [pc |-> "run", job |-> j, mode |-> store[j].mode,
                     two |-> TwoPass(store[j]), phase |-> PhaseOf(store[j])]
    <2>1. Takes(w, j) /\ Exists(j)
      BY <1>3 DEF Start, Startable
    <2>2. j \in Jobs /\ store[j] \in Row
      BY <2>1, TakeFacts DEF Exists, Stores
    <2>3. s \in WorkerStates /\ s.job = j
      <3>1. TwoPass(store[j]) \in BOOLEAN /\ PhaseOf(store[j]) \in {"pass1", "pass2", "done"}
            /\ store[j].mode \in Modes
        BY <2>2 DEF TwoPass, PhaseOf, Row
      <3> HIDE DEF TwoPass, PhaseOf
      <3> QED BY <2>2, <3>1 DEF WorkerStates, Busy
    <2>4. /\ Becomes(w, s) /\ asyncQ' = Tail(asyncQ)
          /\ store' = [store EXCEPT ![j] = Started(store[j])]
          /\ UNCHANGED <<schedVars, canceled, seen, faults>>
      BY <1>3 DEF Start
    <2>5. Started(store[j]) \in Row
      BY <2>2, RowFacts
    <2>6. store' \in Stores /\ Keeps(store, store') /\ Exists(j)'
      BY <2>1, <2>2, <2>4, <2>5, TakeFacts, NoRecAssumption DEF Stores, Keeps, Exists
    <2> HIDE DEF s
    <2> QED BY <2>1, <2>3, <2>4, <2>6, TakeFacts, SchedStays, WorkerMoves
  <1>4. ASSUME NEW j \in Jobs, StartFails(w, j) PROVE LQInv'
    <2>1. Takes(w, j) /\ Exists(j)
      BY <1>4 DEF StartFails, Startable
    <2>2. /\ Becomes(w, Dead) /\ asyncQ' = Tail(asyncQ)
          /\ UNCHANGED <<schedVars, canceled, seen>>
          /\ store' = store \/ store' = [store EXCEPT ![j] = Started(store[j])]
      BY <1>4 DEF StartFails
    <2>3. faults' \in 0 .. MaxFaults
      BY <1>4, LocalQueueAssumption DEF StartFails, LQInv, LQTypeOK
    <2>4. store[j] \in Row
      BY <2>1, TakeFacts DEF Exists, Stores
    <2>5. Started(store[j]) \in Row
      BY <2>4, RowFacts
    <2>6. store' \in Stores /\ Keeps(store, store')
      BY <2>1, <2>2, <2>5, TakeFacts, NoRecAssumption DEF Stores, Keeps
    <2> QED BY <2>1, <2>2, <2>3, <2>6, TakeFacts, SchedStays, WorkerMoves
  <1> QED BY <1>1, <1>2, <1>3, <1>4 DEF Take

\* A run ends, a sleeper wakes, a worker returns.
LEMMA BusyFacts ==
  ASSUME LQInv, NEW w \in Workers
  PROVE  /\ worker[w].pc \in {"sleep", "run", "final", "notify"} => worker[w].job \in Jobs
         /\ worker[w].pc = "run" => worker[w].mode \in Modes /\ Exists(worker[w].job)
         /\ worker[w] = Dead <=> worker[w].pc = "dead"
         /\ store \in Stores /\ Keeps(store, store) /\ seen \subseteq Jobs
         /\ asyncQ \in Seq(Jobs) /\ SchedTypeOK /\ faults \in 0 .. MaxFaults
         /\ \A q : Asks(w, q) => \E s \in {Idle, More} : Becomes(w, s)
         /\ Idle \in WorkerStates /\ More \in WorkerStates
         /\ Idle.pc # "run" /\ More.pc # "run"
  <1>1. worker[w] \in WorkerStates
    BY DEF LQInv, LQTypeOK, WorkerStates
  <1>2. /\ Idle \in WorkerStates /\ More \in WorkerStates
        /\ Idle.pc # "run" /\ More.pc # "run"
    BY DEF WorkerStates, Idle, More
  <1>3. \A q : Asks(w, q) => \E s \in {Idle, More} : Becomes(w, s)
    BY DEF Asks
  <1> QED BY <1>1, <1>2, <1>3, WorkerFacts DEF LQInv, LQTypeOK, Stores, Keeps

\* What the end of pass 1 writes.
LEMMA EndPass1Effects ==
  ASSUME LQInv, NEW w \in Workers, EndPass1(w)
  PROVE  LET j == worker[w].job
             s == [store EXCEPT ![j] = AfterPass1(store[j])]
         IN  /\ j \in Jobs /\ s \in Stores /\ store[j] \in Row
             /\ Resubmit(s, j, worker[w].mode, 120)
             /\ worker[w].mode \in Modes /\ 120 \in Priorities
             /\ Becomes(w, [pc |-> "final", job |-> j, ok |-> FALSE])
             /\ UNCHANGED <<Outside, asyncQ, canceled, faults>>
  <1> DEFINE j == worker[w].job
  <1>1. j \in Jobs /\ worker[w].mode \in Modes /\ Exists(j) /\ store \in Stores
    BY BusyFacts DEF EndPass1, InRun
  <1>2. store[j] \in Row
    BY <1>1 DEF Exists, Stores
  <1>3. [store EXCEPT ![j].st = "QUEUED", ![j].phase = "pass2", ![j].clone = TRUE]
           = [store EXCEPT ![j] = AfterPass1(store[j])]
    BY <1>1 DEF Stores, AfterPass1
  <1>4. [store EXCEPT ![j] = AfterPass1(store[j])] \in Stores
    BY <1>1, <1>2, RowFacts, PutRow
  <1>5. /\ Resubmit([store EXCEPT ![j].st = "QUEUED", ![j].phase = "pass2", ![j].clone = TRUE],
                    j, worker[w].mode, 120)
        /\ Becomes(w, [pc |-> "final", job |-> j, ok |-> FALSE])
        /\ UNCHANGED <<Outside, asyncQ, canceled, faults>>
    BY DEF EndPass1, InRun
  <1> QED BY <1>1, <1>2, <1>3, <1>4, <1>5, LocalQueueAssumption

LEMMA ReleaseEffects ==
  ASSUME SchedTypeOK, NEW j \in Jobs, ReleaseSlot(j), UNCHANGED <<heapVars, inHand, stopped>>
  PROVE  SchedTypeOK' /\ inHand' = inHand /\ Heap' = Heap
  <1>1. /\ activeGlobal' \in 0 .. MaxGlobal /\ activeByMode' \in [Modes -> Nat]
        /\ activeJobMode' \in [Jobs -> Modes \cup {NoMode}] /\ open' \subseteq Jobs \X Nat /\ stray' \in Nat
    BY ReleaseType
  <1> QED BY <1>1 DEF SchedTypeOK, heapVars, Heap

LEMMA EndInv ==
  ASSUME LQInv, NEW w \in Workers, Wake(w) \/ End(w) \/ Finish(w)
  PROVE  LQInv'
  <1> DEFINE j == worker[w].job
  <1>1. CASE Wake(w)
    <2>1. /\ Becomes(w, More) /\ asyncQ' = Append(asyncQ, j) /\ worker[w].pc = "sleep"
          /\ UNCHANGED <<schedVars, Outside, store, canceled, seen, faults>>
      BY <1>1 DEF Wake
    <2>2. asyncQ' \in Seq(Jobs)
      BY <2>1, BusyFacts
    <2> HIDE DEF j
    <2> QED BY <2>1, <2>2, BusyFacts, SchedStays, WorkerMoves
  <1>2. CASE EndPass1(w)
    <2> DEFINE s == [pc |-> "final", job |-> j, ok |-> FALSE]
    <2>1. /\ j \in Jobs /\ [store EXCEPT ![j] = AfterPass1(store[j])] \in Stores /\ store[j] \in Row
          /\ Resubmit([store EXCEPT ![j] = AfterPass1(store[j])], j, worker[w].mode, 120)
          /\ worker[w].mode \in Modes /\ 120 \in Priorities
          /\ Becomes(w, s) /\ UNCHANGED <<Outside, asyncQ, canceled, faults>>
      BY <1>2, EndPass1Effects
    <2>2. /\ SchedTypeOK' /\ store' \in Stores /\ inHand' = inHand /\ seen' = seen \ {j}
          /\ \A k \in Jobs : store'[k] = NoRec <=> [store EXCEPT ![j] = AfterPass1(store[j])][k] = NoRec
      BY <2>1, BusyFacts, ResubmitEffects
    <2>3. \A k \in Jobs : store[k] # NoRec => [store EXCEPT ![j] = AfterPass1(store[j])][k] # NoRec
      <3>1. AfterPass1(store[j]) \in Row
        BY <2>1, RowFacts
      <3>2. store \in Stores
        BY BusyFacts
      <3> QED BY <2>1, <3>1, <3>2, NoRecAssumption DEF Stores
    <2>4. Keeps(store, store')
      BY <2>2, <2>3 DEF Keeps
    <2>5. s \in WorkerStates /\ s.pc # "run"
      BY <2>1 DEF WorkerStates, Busy
    <2>6. seen' \subseteq Jobs /\ asyncQ' \in Seq(Jobs) /\ faults' \in 0 .. MaxFaults
      BY <2>1, <2>2, BusyFacts
    <2> HIDE DEF s, j
    <2> QED BY <2>1, <2>2, <2>4, <2>5, <2>6, WorkerMoves
  <1>3. ASSUME NEW st \in {"DONE", "FAILED"}, NEW pc \in {"final", "notify"}, NEW ok \in BOOLEAN,
               InRun(w), store' = SetState(j, st),
               Becomes(w, [pc |-> pc, job |-> j, ok |-> ok]), UNCHANGED <<schedVars, seen>>
        PROVE  LQInv'
    <2> DEFINE s == [pc |-> pc, job |-> j, ok |-> ok]
    <2>1. j \in Jobs /\ UNCHANGED <<Outside, asyncQ, canceled, faults>>
      BY <1>3, BusyFacts DEF InRun
    <2>2. store' \in Stores /\ Keeps(store, store')
      BY <1>3, <2>1, BusyFacts, SetStateEffects DEF States, Keeps
    <2>3. s \in WorkerStates /\ s.pc # "run"
      BY <2>1 DEF WorkerStates, Busy
    <2>4. Becomes(w, s)
      BY <1>3
    <2> HIDE DEF s, j
    <2> QED BY <1>3, <2>1, <2>2, <2>3, <2>4, BusyFacts, SchedStays, WorkerMoves
  <1>4. CASE EndPass2Early(w)
    BY <1>3, <1>4 DEF EndPass2Early
  <1>5. CASE EndDone(w) \/ EndFail(w)
    <2>1. \E st \in {"DONE", "FAILED"} : EndRun(w, st)
      BY <1>5 DEF EndDone, EndFail
    <2>2. PICK st \in {"DONE", "FAILED"} : EndRun(w, st)
      BY <2>1
    <2>3. PICK pc \in {"final", "notify"}, ok \in BOOLEAN :
             Becomes(w, [pc |-> pc, job |-> j, ok |-> ok])
      BY <2>2 DEF EndRun
    <2> QED BY <1>3, <2>2, <2>3 DEF EndRun
  <1>6. CASE Finish(w)
    <2>1. /\ ReleaseSlot(j) /\ Asks(w, asyncQ) /\ worker[w].pc \in {"final", "notify"}
          /\ UNCHANGED <<heapVars, inHand, stopped, Outside, asyncQ, canceled, seen, faults>>
          /\ store' = store \/ (Exists(j) /\ store' = [store EXCEPT ![j] = Cleared(store[j])])
      BY <1>6 DEF Finish, Returns
    <2>2. j \in Jobs /\ store \in Stores
      BY <2>1, BusyFacts
    <2>3. store' \in Stores /\ Keeps(store, store')
      <3>1. CASE store' = store
        BY <2>2, <3>1 DEF Keeps
      <3>2. CASE Exists(j) /\ store' = [store EXCEPT ![j] = Cleared(store[j])]
        <4>1. store[j] \in Row
          BY <2>2, <3>2 DEF Exists, Stores
        <4>2. Cleared(store[j]) \in Row
          BY <4>1, RowFacts
        <4> QED BY <2>2, <3>2, <4>2, NoRecAssumption DEF Stores, Keeps
      <3> QED BY <2>1, <3>1, <3>2
    <2>4. SchedTypeOK' /\ inHand' = inHand
      BY <2>1, <2>2, BusyFacts, ReleaseEffects
    <2>5. PICK s \in {Idle, More} : Becomes(w, s)
      BY <2>1, BusyFacts
    <2> HIDE DEF j
    <2> QED BY <2>1, <2>3, <2>4, <2>5, BusyFacts, WorkerMoves
  <1> QED BY <1>1, <1>2, <1>4, <1>5, <1>6 DEF End

LEMMA NextLQInv == LQInv /\ [LQNext]_lqVars => LQInv'
  <1>1. ASSUME LQInv, UNCHANGED lqVars PROVE LQInv'
    <2>1. SchedTypeOK' /\ inHand' = inHand
      BY <1>1, SchedStays DEF lqVars, LQInv, LQTypeOK
    <2> QED BY <1>1, <2>1, AsideInv DEF lqVars
  <1> QED BY <1>1, UserInv, DispatcherInv, TimeoutInv, RunCallInv, ScanInv, RecoverInv,
             TakeInv, EndInv, RestartInv DEF LQNext

\* The local queue's store, coroutines, queues and workers keep their types: the
\* dispatcher holds a record exactly while it is between two of its steps, and
\* every counter stays within its bound.
THEOREM LocalTypes == LQSpec => []LQTypeOK
  <1>1. LQInv => LQTypeOK
    BY DEF LQInv
  <1> QED BY <1>1, InitLQInv, NextLQInv, PTL DEF LQSpec

-----------------------------------------------------------------------------
\* No accepted job is lost.

Has(s, j) == \E i \in DOMAIN s : s[i] = j
Heaped(j) == \E x \in Heap : x[1] = j
Asleep(j) == \E w \in Workers : worker[w].pc = "sleep" /\ worker[w].job = j

LEMMA AppendHas ==
  ASSUME NEW S, NEW s \in Seq(S), NEW x \in S, NEW y
  PROVE  Has(Append(s, x), y) <=> Has(s, y) \/ y = x
  <1> DEFINE t == Append(s, x)  n == Len(s)
  <1>1. /\ n \in Nat /\ DOMAIN s = 1 .. n /\ DOMAIN t = 1 .. n + 1
        /\ t[n + 1] = x /\ \A i \in 1 .. n : t[i] = s[i]
    OBVIOUS
  <1> HIDE DEF t, n
  <1>2. n + 1 \in DOMAIN t /\ \A i \in DOMAIN t : i = n + 1 \/ i \in DOMAIN s
    BY <1>1
  <1>3. \A i \in DOMAIN s : i \in DOMAIN t
    BY <1>1
  <1>4. Has(t, y) <=> Has(s, y) \/ y = x
    BY <1>1, <1>2, <1>3 DEF Has
  <1> QED BY <1>4 DEF t

LEMMA TailHas ==
  ASSUME NEW S, NEW s \in Seq(S), s # <<>>, NEW y
  PROVE  Has(s, y) <=> Has(Tail(s), y) \/ y = Head(s)
  <1> DEFINE t == Tail(s)  n == Len(s)
  <1>1. /\ n \in Nat /\ n > 0 /\ DOMAIN s = 1 .. n /\ DOMAIN t = 1 .. n - 1
        /\ Head(s) = s[1] /\ \A i \in 1 .. n - 1 : t[i] = s[i + 1]
    BY HeadTailProperties, LenProperties, EmptySeq
  <1> HIDE DEF t, n
  <1>2. 1 \in DOMAIN s /\ \A i \in DOMAIN s : i = 1 \/ (i - 1 \in DOMAIN t /\ t[i - 1] = s[i])
    BY <1>1
  <1>3. \A i \in DOMAIN t : i + 1 \in DOMAIN s /\ t[i] = s[i + 1]
    BY <1>1
  <1>4. ASSUME Has(s, y) PROVE Has(t, y) \/ y = Head(s)
    <2>1. PICK i \in DOMAIN s : s[i] = y
      BY <1>4 DEF Has
    <2> QED BY <1>1, <1>2, <2>1 DEF Has
  <1>5. ASSUME Has(t, y) \/ y = Head(s) PROVE Has(s, y)
    BY <1>1, <1>2, <1>3, <1>5 DEF Has
  <1>6. Has(s, y) <=> Has(t, y) \/ y = Head(s)
    BY <1>4, <1>5
  <1> QED BY <1>6 DEF t

\* The ways in terms of the heap, and of the jobs the coroutines carry.
Called(j) == \E i \in DOMAIN calls : calls[i].job = j
Carried(j, s) == \E i \in DOMAIN s : s[i].job = j

LEMMA JobsOfFacts ==
  ASSUME NEW j
  PROVE  \A s, t : /\ j \in JobsOf(s) <=> Carried(j, s)
                   /\ (\E x \in Pairs(s) \cup Pairs(t) : x[1] = j)
                         <=> (Carried(j, s) \/ Carried(j, t))
  <1> TAKE s, t
  <1>1. j \in JobsOf(s) <=> Carried(j, s)
    BY DEF JobsOf, Carried
  <1>2. ASSUME NEW u PROVE (\E x \in Pairs(u) : x[1] = j) <=> Carried(j, u)
    <2>1. ASSUME NEW x \in Pairs(u), x[1] = j PROVE Carried(j, u)
      <3>1. PICK i \in DOMAIN u : x = <<u[i].job, u[i].mode>>
        BY <2>1 DEF Pairs, Pair
      <3> QED BY <2>1, <3>1 DEF Carried
    <2>2. ASSUME Carried(j, u) PROVE \E x \in Pairs(u) : x[1] = j
      <3>1. PICK i \in DOMAIN u : u[i].job = j
        BY <2>2 DEF Carried
      <3>2. Pair(u[i]) \in Pairs(u) /\ Pair(u[i])[1] = j
        BY <3>1 DEF Pairs, Pair
      <3> QED BY <3>2
    <2> QED BY <2>1, <2>2
  <1>3. (\E x \in Pairs(s) \cup Pairs(t) : x[1] = j) <=> (Carried(j, s) \/ Carried(j, t))
    BY <1>2
  <1> QED BY <1>1, <1>3

LEMMA Ways ==
  ASSUME NEW j
  PROVE  /\ OnItsWay(j) <=> \/ j \in boot \/ InHand(j) \/ Heaped(j) \/ Called(j)
                            \/ Has(asyncQ, j) \/ Asleep(j)
         /\ OnItsWay(j)' <=> \/ j \in boot' \/ InHand(j)' \/ Heaped(j)' \/ Called(j)'
                             \/ Has(asyncQ, j)' \/ Asleep(j)'
  <1>1. /\ j \in JobsOf(ready) \cup JobsOf(waiting) <=> Heaped(j)
        /\ j \in JobsOf(calls) <=> Called(j)
    BY JobsOfFacts DEF Heaped, Heap, Called, Carried
  <1>2. /\ j \in JobsOf(ready)' \cup JobsOf(waiting)' <=> Heaped(j)'
        /\ j \in JobsOf(calls)' <=> Called(j)'
    <2>1. /\ j \in JobsOf(ready') \cup JobsOf(waiting')
               <=> \E x \in Pairs(ready') \cup Pairs(waiting') : x[1] = j
          /\ j \in JobsOf(calls') <=> Carried(j, calls')
      BY JobsOfFacts
    <2> QED BY <2>1 DEF JobsOf, Heaped, Heap, Pairs, Called, Carried
  <1> QED BY <1>1, <1>2 DEF OnItsWay, Has, Asleep

\* A job is QUEUED, and as much on its way or as unseen as before.
Still(k) ==
    /\ InState(k, "QUEUED")
    /\ OnItsWay(k) => OnItsWay(k)'
    /\ k \notin seen => k \notin seen'

LEMMA TrackStep ==
  ASSUME QueuedIsTracked,
         (\A w \in Workers : worker'[w] # Dead) => (\A w \in Workers : worker[w] # Dead),
         \A k \in Jobs : InState(k, "QUEUED")' => OnItsWay(k)' \/ k \notin seen' \/ Still(k)
  PROVE  QueuedIsTracked'
  BY DEF QueuedIsTracked, Still

\* A handler leaves the other jobs as they are.
LEMMA AskingTracks ==
  ASSUME LQInv, QueuedIsTracked, NEW j \in Jobs, NEW what, Asking(j, what), inHand' = inHand,
         seen' \subseteq seen, \A k \in Jobs \ {j} : Heaped(k) => Heaped(k)',
         \A k \in Jobs \ {j} : InState(k, "QUEUED")' => InState(k, "QUEUED"),
         InState(j, "QUEUED")' => j \notin seen'
  PROVE  QueuedIsTracked'
  <1>1. UNCHANGED <<calls, asyncQ, worker, boot>>
    BY DEF Asking
  <1>2. \A k \in Jobs \ {j} : OnItsWay(k) => OnItsWay(k)'
    BY <1>1, Ways DEF InHand, Called, Asleep
  <1> QED BY <1>1, <1>2, TrackStep DEF Still

LEMMA UserTracks ==
  ASSUME ~QuotaMayReject, LQInv, QueuedIsTracked, UserAction
  PROVE  QueuedIsTracked'
  <1> PICK j \in Jobs :
        \/ \E m \in InModes : SubmitJob(j, m)
        \/ CancelJob(j) \/ AdminCancel(j) \/ DeleteJob(j)
        \/ Pause(j) \/ Resume(j) \/ Rerun(j)
    BY DEF UserAction
  <1>0. /\ SchedTypeOK /\ store \in Stores /\ seen \subseteq Jobs
        /\ 100 \in Priorities /\ 110 \in Priorities /\ InModes \subseteq Modes
    BY LocalQueueAssumption, SchedulerAssumption DEF LQInv, LQTypeOK, Stores
  <1>1. ASSUME NEW what, Asking(j, what), NEW s \in Stores, NEW m \in Modes,
               NEW p \in Priorities, Resubmit(s, j, m, p),
               \A k \in Jobs \ {j} : s[k] = store[k]
        PROVE  QueuedIsTracked'
    <2>1. /\ inHand' = inHand /\ seen' = seen \ {j} /\ Heap \subseteq Heap'
          /\ \A k \in Jobs : /\ store'[k] = NoRec <=> s[k] = NoRec
                             /\ s[k] # NoRec => store'[k].st = s[k].st
      BY <1>0, <1>1, ResubmitEffects
    <2>2. \A k \in Jobs \ {j} : InState(k, "QUEUED")' => InState(k, "QUEUED")
      BY <1>1, <2>1 DEF InState, Exists
    <2> QED BY <1>1, <2>1, <2>2, AskingTracks DEF Heaped
  <1>2. ASSUME NEW what, Asking(j, what), Heap' = Heap \/ Heap' = {x \in Heap : x[1] # j},
               inHand' = inHand, seen' = seen, \A k \in Jobs \ {j} : store'[k] = store[k],
               store'[j] # NoRec => store'[j].st # "QUEUED"
        PROVE  QueuedIsTracked'
    <2>1. \A k \in Jobs \ {j} : Heaped(k) => Heaped(k)'
      BY <1>2 DEF Heaped
    <2> QED BY <1>2, <2>1, AskingTracks DEF InState, Exists
  <1>3. ASSUME NEW m \in InModes, SubmitJob(j, m) PROVE QueuedIsTracked'
    <2>1. Resubmit([store EXCEPT ![j] = NewRow(m)], j, m, 100) /\ Asking(j, "run")
      BY <1>3 DEF SubmitJob, NewRow
    <2>2. NewRow(m) \in Row
      BY <1>0, RowFacts
    <2>3. [store EXCEPT ![j] = NewRow(m)] \in Stores
      BY <1>0, <2>2, PutRow
    <2>4. \A k \in Jobs \ {j} : [store EXCEPT ![j] = NewRow(m)][k] = store[k]
      BY <1>0 DEF Stores
    <2> QED BY <1>0, <1>1, <2>1, <2>3, <2>4
  <1>4. ASSUME NEW st \in {"CANCELED", "PAUSED"}, store' = SetState(j, st)
        PROVE  /\ \A k \in Jobs \ {j} : store'[k] = store[k]
               /\ store'[j] # NoRec => store'[j].st # "QUEUED"
    BY <1>0, <1>4, SetStateEffects DEF States, Exists
  <1>5. CASE CancelJob(j) \/ Pause(j)
    <2>1. Heap' = Heap /\ inHand' = inHand /\ seen' = seen
      BY <1>0, <1>5, SchedStays DEF CancelJob, Pause
    <2> QED BY <1>2, <1>4, <1>5, <2>1 DEF CancelJob, Pause
  <1>6. CASE AdminCancel(j)
    <2>1. Heap' = {x \in Heap : x[1] # j} /\ inHand' = inHand /\ seen' = seen
      BY <1>0, <1>6, DropEffects DEF AdminCancel, Drop
    <2> QED BY <1>2, <1>4, <1>6, <2>1 DEF AdminCancel
  <1>7. CASE DeleteJob(j)
    <2>1. Heap' = Heap /\ inHand' = inHand /\ seen' = seen /\ Asking(j, "cancel")
      BY <1>0, <1>7, SchedStays DEF DeleteJob
    <2>2. store' = [store EXCEPT ![j] = NoRec]
      BY <1>7 DEF DeleteJob
    <2> QED BY <1>0, <1>2, <2>1, <2>2 DEF Stores
  <1>8. CASE Resume(j)
    <2>1. /\ SetState(j, "QUEUED") \in Stores /\ store[j].mode \in Modes
          /\ \A k \in Jobs \ {j} : SetState(j, "QUEUED")[k] = store[k]
      BY <1>0, <1>8, SetStateEffects, RowFacts DEF States, Resume, InState, Exists, Stores
    <2> QED BY <1>0, <1>1, <1>8, <2>1 DEF Resume, RequeueOr429
  <1>9. CASE Rerun(j)
    <2> DEFINE s == [store EXCEPT ![j].st = "QUEUED", ![j].req = TRUE, ![j].clone = TRUE]
    <2>1. store[j] \in Row
      BY <1>0, <1>9 DEF Rerun, Exists, Stores
    <2>2. s = [store EXCEPT ![j] = Reran(store[j])]
      BY <1>0 DEF Stores, Reran
    <2>3. s \in Stores /\ store[j].mode \in Modes /\ \A k \in Jobs \ {j} : s[k] = store[k]
      BY <1>0, <2>1, <2>2, PutRow, RowFacts
    <2>4. Resubmit(s, j, store[j].mode, 110) /\ Asking(j, "run")
      BY <1>9 DEF Rerun, RequeueOr429
    <2> HIDE DEF s
    <2> QED BY <1>0, <1>1, <2>3, <2>4
  <1> QED BY <1>3, <1>5, <1>6, <1>7, <1>8, <1>9

LEMMA AppendCarried ==
  ASSUME NEW S, NEW s \in Seq(S), NEW x \in S, NEW j
  PROVE  Carried(j, Append(s, x)) <=> Carried(j, s) \/ x.job = j
  <1> DEFINE t == Append(s, x)  n == Len(s)
  <1>1. /\ n \in Nat /\ DOMAIN s = 1 .. n /\ DOMAIN t = 1 .. n + 1
        /\ t[n + 1] = x /\ \A i \in 1 .. n : t[i] = s[i]
    OBVIOUS
  <1> HIDE DEF t, n
  <1>2. n + 1 \in DOMAIN t /\ \A i \in DOMAIN t : i = n + 1 \/ i \in DOMAIN s
    BY <1>1
  <1>3. \A i \in DOMAIN s : i \in DOMAIN t
    BY <1>1
  <1>4. Carried(j, t) <=> Carried(j, s) \/ x.job = j
    BY <1>1, <1>2, <1>3 DEF Carried
  <1> QED BY <1>4 DEF t

LEMMA TailCarried ==
  ASSUME NEW S, NEW s \in Seq(S), s # <<>>, NEW j
  PROVE  Carried(j, s) <=> Carried(j, Tail(s)) \/ Head(s).job = j
  <1> DEFINE t == Tail(s)  n == Len(s)
  <1>1. /\ n \in Nat /\ n > 0 /\ DOMAIN s = 1 .. n /\ DOMAIN t = 1 .. n - 1
        /\ Head(s) = s[1] /\ \A i \in 1 .. n - 1 : t[i] = s[i + 1]
    BY HeadTailProperties, LenProperties, EmptySeq
  <1> HIDE DEF t, n
  <1>2. 1 \in DOMAIN s /\ \A i \in DOMAIN s : i = 1 \/ (i - 1 \in DOMAIN t /\ t[i - 1] = s[i])
    BY <1>1
  <1>3. \A i \in DOMAIN t : i + 1 \in DOMAIN s /\ t[i] = s[i + 1]
    BY <1>1
  <1>4. ASSUME Carried(j, s) PROVE Carried(j, t) \/ Head(s).job = j
    <2>1. PICK i \in DOMAIN s : s[i].job = j
      BY <1>4 DEF Carried
    <2> QED BY <1>1, <1>2, <2>1 DEF Carried
  <1>5. ASSUME Carried(j, t) \/ Head(s).job = j PROVE Carried(j, s)
    BY <1>1, <1>2, <1>3, <1>5 DEF Carried
  <1>6. Carried(j, s) <=> Carried(j, t) \/ Head(s).job = j
    BY <1>4, <1>5
  <1> QED BY <1>6 DEF t

LEMMA WaysStay ==
  ASSUME UNCHANGED <<calls, asyncQ, worker, boot>>, NEW k,
         InHand(k) => InHand(k)', Heaped(k) => Heaped(k)'
  PROVE  OnItsWay(k) => OnItsWay(k)'
  BY Ways DEF Called, Asleep

LEMMA ScanTracks ==
  ASSUME LQInv, QueuedIsTracked, NEW j \in Jobs, Scan(j) \/ Recover(j)
  PROVE  QueuedIsTracked'
  <1>0. /\ SchedTypeOK /\ store \in Stores /\ 100 \in Priorities /\ seen \subseteq Jobs
        /\ Exists(j)
    BY LocalQueueAssumption DEF LQInv, LQTypeOK, Stores, Scan, Recover, InState
  <1>1. store[j].mode \in Modes
    BY <1>0, RowFacts DEF Exists, Stores
  <1>2. /\ SetState(j, "QUEUED") \in Stores
        /\ \A k \in Jobs \ {j} : SetState(j, "QUEUED")[k] = store[k]
    BY <1>0, SetStateEffects DEF States
  <1>3. CASE Scan(j)
    <2>1. /\ Enter(store, j, store[j].mode, 100) /\ seen' = seen \cup {j}
          /\ UNCHANGED <<calls, asyncQ, worker, boot>>
      BY <1>3 DEF Scan
    <2>2. /\ Heap' = Heap \cup {<<j, SubmittedMode(store[j].mode)>>} /\ inHand' = inHand
          /\ \A k \in Jobs : InState(k, "QUEUED")' => InState(k, "QUEUED")
      <3>1. /\ Heap' = Heap \cup {<<j, SubmittedMode(store[j].mode)>>} /\ inHand' = inHand
            /\ \A k \in Jobs : /\ store'[k] = NoRec <=> store[k] = NoRec
                               /\ store[k] # NoRec => store'[k].st = store[k].st
        BY <1>0, <1>1, <2>1, EnterEffects
      <3> QED BY <3>1 DEF InState, Exists
    <2>3. Heaped(j)' /\ \A k \in Jobs : Heaped(k) => Heaped(k)'
      <3> DEFINE x == <<j, SubmittedMode(store[j].mode)>>
      <3>1. x \in Heap' /\ Heap \subseteq Heap' /\ x[1] = j
        BY <2>2
      <3> HIDE DEF x
      <3> QED BY <3>1 DEF Heaped
    <2>4. OnItsWay(j)'
      BY <2>3, Ways
    <2>5. \A k \in Jobs : OnItsWay(k) => OnItsWay(k)'
      BY <2>1, <2>2, <2>3, WaysStay DEF InHand
    <2>6. \A k \in Jobs \ {j} : k \notin seen => k \notin seen'
      BY <2>1
    <2> QED BY <2>1, <2>2, <2>4, <2>5, <2>6, TrackStep DEF Still
  <1>4. CASE Recover(j)
    <2>1. /\ Resubmit(SetState(j, "QUEUED"), j, store[j].mode, 100) /\ boot' = boot \ {j}
          /\ UNCHANGED <<calls, asyncQ, worker>>
      BY <1>4 DEF Recover
    <2>2. /\ Heap \subseteq Heap' /\ inHand' = inHand /\ seen' = seen \ {j}
          /\ \A k \in Jobs \ {j} : InState(k, "QUEUED")' => InState(k, "QUEUED")
      <3>1. /\ Heap \subseteq Heap' /\ inHand' = inHand /\ seen' = seen \ {j}
            /\ \A k \in Jobs : /\ store'[k] = NoRec <=> SetState(j, "QUEUED")[k] = NoRec
                               /\ SetState(j, "QUEUED")[k] # NoRec
                                     => store'[k].st = SetState(j, "QUEUED")[k].st
        BY <1>0, <1>1, <1>2, <2>1, ResubmitEffects
      <3> QED BY <1>2, <3>1 DEF InState, Exists
    <2>3. \A k \in Jobs \ {j} : OnItsWay(k) => OnItsWay(k)'
      BY <2>1, <2>2, Ways DEF InHand, Heaped, Called, Asleep
    <2>4. j \notin seen' /\ \A k \in Jobs : k \notin seen => k \notin seen'
      BY <2>2
    <2> QED BY <2>1, <2>2, <2>3, <2>4, TrackStep DEF Still
  <1> QED BY <1>3, <1>4

\* The dispatcher calls the loop about the record in its hand.
LEMMA CallTracks ==
  ASSUME LQInv, QueuedIsTracked, inHand # NoRec, NEW r \in Row, Call(r),
         UNCHANGED <<schedVars, Elsewhere>>,
         \A k \in Jobs : InState(k, "QUEUED")' => InState(k, "QUEUED")
  PROVE  QueuedIsTracked'
  <1> DEFINE c == [job |-> inHand.job, row |-> r]
  <1>1. c \in [job : Jobs, row : Row] /\ calls \in Seq([job : Jobs, row : Row])
        /\ calls' = Append(calls, c)
    BY DEF LQInv, LQTypeOK, SchedTypeOK, Record, Call
  <1> HIDE DEF c
  <1>2. \A k \in Jobs : Called(k) => Called(k)'
    BY <1>1, AppendCarried DEF Called, Carried
  <1>3. Heap' = Heap /\ inHand' = inHand /\ UNCHANGED <<asyncQ, seen, worker, boot>>
    BY SchedStays DEF Elsewhere, LQInv, LQTypeOK
  <1>4. \A k \in Jobs : OnItsWay(k) => OnItsWay(k)'
    BY <1>2, <1>3, Ways DEF InHand, Heaped, Asleep
  <1> QED BY <1>3, <1>4, TrackStep DEF Still

LEMMA DispatcherTracks ==
  ASSUME LQInv, QueuedIsTracked, SchedStep(Ripen) \/ DispatcherStep \/ EnqueueTimeout
  PROVE  QueuedIsTracked'
  <1>0. SchedTypeOK /\ store \in Stores /\ (dpc = "none" <=> inHand = NoRec)
    BY DEF LQInv, LQTypeOK, Stores
  <1>1. CASE SchedStep(Ripen) \/ SchedStep(Defer)
    <2>1. Heap' = Heap /\ inHand' = inHand
      BY <1>0, <1>1, RipenEffects, DeferEffects DEF SchedStep, Ripen, Defer
    <2>2. \A k \in Jobs : OnItsWay(k) => OnItsWay(k)'
      BY <1>1, <2>1, WaysStay DEF SchedStep, loopVars, InHand, Heaped
    <2> QED BY <1>1, <2>2, TrackStep DEF SchedStep, loopVars, Still, InState, Exists
  <1>2. CASE Pop
    <2>1. /\ Heap = Heap' \cup {Pair(inHand')} /\ inHand' \in Record /\ inHand = NoRec
          /\ UNCHANGED <<store, calls, asyncQ, seen, worker, boot>>
      BY <1>0, <1>2, DispatchEffects DEF Pop, Dispatch, DispatcherFree, Elsewhere
    <2>2. \A k \in Jobs : Heaped(k) => Heaped(k)' \/ inHand'.job = k
      BY <2>1 DEF Heaped, Pair
    <2>3. \A k \in Jobs : OnItsWay(k) => OnItsWay(k)'
      BY <2>1, <2>2, Ways, NoRecAssumption DEF InHand, Called, Asleep
    <2> QED BY <2>1, <2>3, TrackStep DEF Still, InState, Exists
  <1>3. ASSUME GiveBack, UNCHANGED <<calls, Elsewhere>>,
               \A k \in Jobs : InState(k, "QUEUED")' => InState(k, "QUEUED") /\ ~InHand(k)
        PROVE  QueuedIsTracked'
    <2>1. Heap' = Heap /\ UNCHANGED <<asyncQ, seen, worker, boot>>
      BY <1>3 DEF GiveBack, heapVars, Heap, Elsewhere
    <2>2. \A k \in Jobs : ~InHand(k) => (OnItsWay(k) => OnItsWay(k)')
      BY <1>3, <2>1, WaysStay DEF Heaped
    <2> QED BY <1>3, <2>1, <2>2, TrackStep DEF Still
  <1>4. CASE ReadJob
    <2>1. inHand # NoRec /\ inHand.job \in Jobs /\ UNCHANGED <<store, Elsewhere>>
      BY <1>0, <1>4 DEF ReadJob, SchedTypeOK, Record
    <2>2. CASE ~Enqueuable(inHand.job) /\ GiveBack /\ UNCHANGED calls
      BY <1>3, <2>1, <2>2 DEF Enqueuable, InState, Exists, InHand
    <2>3. CASE Enqueuable(inHand.job) /\ Call(store[inHand.job]) /\ UNCHANGED schedVars
      <3>1. store[inHand.job] \in Row
        BY <1>0, <2>1, <2>3 DEF Enqueuable, InState, Exists, Stores
      <3> QED BY <2>1, <2>3, <3>1, CallTracks DEF InState, Exists
    <2>4. CASE UNCHANGED calls /\ UNCHANGED schedVars
      <3>1. Heap' = Heap /\ inHand' = inHand
        BY <1>0, <2>4, SchedStays
      <3>2. \A k \in Jobs : OnItsWay(k) => OnItsWay(k)'
        BY <2>1, <2>4, <3>1, WaysStay DEF InHand, Heaped, Elsewhere
      <3> QED BY <2>1, <3>2, TrackStep DEF Still, InState, Exists, Elsewhere
    <2> QED BY <1>4, <2>2, <2>3, <2>4 DEF ReadJob
  <1>5. CASE SyncMode
    <2> DEFINE j == inHand.job
    <2>1. /\ inHand # NoRec /\ j \in Jobs /\ inHand.mode \in Modes /\ snap \in Row
          /\ UNCHANGED <<schedVars, Elsewhere>>
      BY <1>0, <1>5 DEF SyncMode, SchedTypeOK, Record, LQInv, LQTypeOK
    <2>2. CASE ~Exists(j)
      <3>1. Call(snap) /\ UNCHANGED store
        BY <1>5, <2>2 DEF SyncMode
      <3> QED BY <2>1, <3>1, CallTracks DEF InState, Exists
    <2>3. CASE Exists(j)
      <3> DEFINE r == [store[j] EXCEPT !.mode = inHand.mode]
      <3>1. store[j] \in Row
        BY <1>0, <2>1, <2>3 DEF Exists, Stores
      <3>2. r \in Row /\ r.st = store[j].st
        BY <2>1, <3>1 DEF Row
      <3>3. store' = [store EXCEPT ![j] = r] /\ Call(store'[j])
        BY <1>0, <1>5, <2>3 DEF SyncMode, Stores
      <3> HIDE DEF r, j
      <3>4. store'[j] = r /\ \A k \in Jobs \ {j} : store'[k] = store[k]
        BY <1>0, <2>1, <3>3 DEF Stores
      <3>5. \A k \in Jobs : InState(k, "QUEUED")' => InState(k, "QUEUED")
        BY <2>3, <3>2, <3>4 DEF InState, Exists
      <3> QED BY <2>1, <3>2, <3>3, <3>4, <3>5, CallTracks
    <2> QED BY <2>2, <2>3
  <1>6. CASE EnqueueTimeout
    <2>1. /\ inHand # NoRec /\ inHand.job \in Jobs /\ GiveBack /\ UNCHANGED <<calls, Elsewhere>>
          /\ store' = SetState(inHand.job, "FAILED")
      BY <1>0, <1>6 DEF EnqueueTimeout, SchedTypeOK, Record
    <2>2. \A k \in Jobs : InState(k, "QUEUED")' => InState(k, "QUEUED") /\ ~InHand(k)
      BY <1>0, <2>1, SetStateEffects DEF States, InState, Exists, InHand
    <2> QED BY <1>3, <2>1, <2>2
  <1> QED BY <1>1, <1>2, <1>4, <1>5, <1>6 DEF DispatcherStep

LEMMA RunCallTracks ==
  ASSUME LQInv, QueuedIsTracked, RunCall
  PROVE  QueuedIsTracked'
  <1> DEFINE C == [job : Jobs, row : Row]
  <1>0. /\ SchedTypeOK /\ store \in Stores /\ calls \in Seq(C) /\ calls # <<>> /\ asyncQ \in Seq(Jobs)
        /\ dpc = "wait" => calls # <<>> /\ calls[Len(calls)].job = inHand.job
    BY DEF LQInv, LQTypeOK, Stores, RunCall
  <1>1. Head(calls) \in C /\ Head(calls) = calls[1]
    <2> HIDE DEF C
    <2> QED BY <1>0
  <1> HIDE DEF C
  <1>10. PICK c \in C : c = Head(calls)
    BY <1>1
  <1>2. c.job \in Jobs /\ c.row \in Row
    BY DEF C
  <1>3. /\ store' = [store EXCEPT ![c.job] = c.row] /\ asyncQ' = Append(asyncQ, c.job)
        /\ calls' = Tail(calls) /\ UNCHANGED <<seen, worker, boot>>
    BY <1>10 DEF RunCall
  <1>4. \A k \in Jobs : Called(k) => Called(k)' \/ k = c.job
    <2>1. \A k \in Jobs : Carried(k, calls) <=> Carried(k, Tail(calls)) \/ Head(calls).job = k
      BY <1>0, TailCarried
    <2> DEFINE t == Tail(calls)
    <2> HIDE DEF t
    <2>2. calls' = t /\ \A k \in Jobs : Carried(k, calls) <=> Carried(k, t) \/ c.job = k
      BY <1>3, <1>10, <2>1 DEF t
    <2> QED BY <2>2 DEF Called, Carried
  <1>5. (dpc = "wait" /\ Len(calls) = 1) => c.job = inHand.job
    BY <1>0, <1>1, <1>10
  <1>6. /\ Has(asyncQ, c.job)' /\ \A k \in Jobs : Has(asyncQ, k) => Has(asyncQ, k)'
    <2>1. \A k \in Jobs : Has(Append(asyncQ, c.job), k) <=> Has(asyncQ, k) \/ k = c.job
      BY <1>0, <1>2, AppendHas
    <2> DEFINE t == Append(asyncQ, c.job)
    <2> HIDE DEF t
    <2>2. asyncQ' = t /\ \A k \in Jobs : Has(t, k) <=> Has(asyncQ, k) \/ k = c.job
      BY <1>3, <2>1 DEF t
    <2> QED BY <1>2, <2>2 DEF Has
  <1>7. Heap' = Heap /\ \A k \in Jobs : InHand(k) => InHand(k)' \/ k = c.job
    <2>1. CASE Len(calls) = 1 /\ dpc = "wait"
      BY <1>5, <2>1 DEF RunCall, HandOver, heapVars, Heap, InHand
    <2>2. CASE ~(Len(calls) = 1 /\ dpc = "wait")
      BY <1>0, <2>2, SchedStays DEF RunCall, InHand
    <2> QED BY <2>1, <2>2
  <1>8. OnItsWay(c.job)' /\ \A k \in Jobs : OnItsWay(k) => OnItsWay(k)' \/ k = c.job
    BY <1>3, <1>4, <1>6, <1>7, Ways DEF Heaped, Asleep
  <1>9. \A k \in Jobs \ {c.job} : InState(k, "QUEUED")' => InState(k, "QUEUED")
    BY <1>0, <1>2, <1>3 DEF Stores, InState, Exists
  <1> QED BY <1>3, <1>8, <1>9, TrackStep DEF Still

\* A worker's step is about one job j: the others stay where they are, and j
\* does too unless it is not QUEUED, or unseen, afterwards.
LEMMA WorkerTracks ==
  ASSUME LQInv, QueuedIsTracked, NEW w \in Workers, worker[w] # Dead, NEW s \in WorkerStates,
         Becomes(w, s), NEW j \in Jobs, worker[w].pc = "sleep" => worker[w].job = j,
         UNCHANGED <<calls, boot>>, inHand' = inHand, seen' \subseteq seen,
         \A k \in Jobs : Heaped(k) => Heaped(k)',
         \A k \in Jobs \ {j} : Has(asyncQ, k) => Has(asyncQ, k)',
         \A k \in Jobs \ {j} : InState(k, "QUEUED")' => InState(k, "QUEUED"),
         s # Dead /\ InState(j, "QUEUED")' => OnItsWay(j)' \/ j \notin seen'
  PROVE  QueuedIsTracked'
  <1>1. worker' = [worker EXCEPT ![w] = s] /\ worker \in [Workers -> WorkerStates]
    BY DEF Becomes, LQInv, LQTypeOK, WorkerStates
  <1>2. worker'[w] = s /\ \A v \in Workers \ {w} : worker'[v] = worker[v]
    BY <1>1
  <1>3. \A k \in Jobs \ {j} : Asleep(k) => Asleep(k)'
    BY <1>2 DEF Asleep
  <1>4. \A k \in Jobs \ {j} : OnItsWay(k) => OnItsWay(k)'
    BY <1>3, Ways DEF InHand, Called
  <1>5. (\A v \in Workers : worker'[v] # Dead) => (\A v \in Workers : worker[v] # Dead) /\ s # Dead
    BY <1>2
  <1>6. CASE s = Dead
    BY <1>5, <1>6 DEF QueuedIsTracked
  <1>7. CASE s # Dead
    BY <1>4, <1>5, <1>7, TrackStep DEF Still
  <1> QED BY <1>6, <1>7

LEMMA TakeTracks ==
  ASSUME LQInv, QueuedIsTracked, NEW w \in Workers, NEW j \in Jobs,
         TakePaused(w, j) \/ TakeDenied(w, j) \/ TakeNothing(w, j) \/ Start(w, j) \/ StartFails(w, j)
  PROVE  QueuedIsTracked'
  <1>1. /\ Takes(w, j) /\ asyncQ' = Tail(asyncQ) /\ UNCHANGED schedVars
        /\ \E s \in WorkerStates : Becomes(w, s)
    <2>1. Takes(w, j) /\ asyncQ' = Tail(asyncQ) /\ UNCHANGED schedVars
      BY DEF TakePaused, TakeDenied, TakeNothing, Start, StartFails
    <2>2. CASE TakePaused(w, j)
      BY <2>2 DEF TakePaused, WorkerStates, Busy
    <2>3. CASE TakeDenied(w, j) \/ TakeNothing(w, j)
      BY <2>1, <2>3, TakeFacts DEF TakeDenied, TakeNothing
    <2>4. CASE StartFails(w, j)
      BY <2>1, <2>4, TakeFacts DEF StartFails
    <2>5. CASE Start(w, j)
      <3>1. store[j] \in Row
        BY <2>1, <2>5, TakeFacts DEF Start, Startable, Exists, Stores
      <3>2. TwoPass(store[j]) \in BOOLEAN /\ PhaseOf(store[j]) \in {"pass1", "pass2", "done"}
            /\ store[j].mode \in Modes
        BY <3>1 DEF TwoPass, PhaseOf, Row
      <3> HIDE DEF TwoPass, PhaseOf
      <3> QED BY <2>5, <3>2 DEF Start, WorkerStates, Busy
    <2> QED BY <2>1, <2>2, <2>3, <2>4, <2>5
  <1>2. PICK s \in WorkerStates : Becomes(w, s)
    BY <1>1
  <1>3. /\ Heap' = Heap /\ inHand' = inHand /\ UNCHANGED <<calls, boot>> /\ store \in Stores
        /\ worker[w].pc \in {"idle", "next"} /\ worker[w] # Dead
        /\ asyncQ \in Seq(Jobs) /\ asyncQ # <<>> /\ j = Head(asyncQ)
    BY <1>1, TakeFacts, SchedStays DEF Outside, Takes, LQInv, LQTypeOK, Dead
  <1>4. \A k \in Jobs \ {j} : Has(asyncQ, k) => Has(asyncQ, k)'
    <2>1. \A k \in Jobs : Has(asyncQ, k) <=> Has(Tail(asyncQ), k) \/ k = Head(asyncQ)
      BY <1>3, TailHas
    <2> QED BY <1>1, <1>3, <2>1 DEF Has
  <1>5. worker'[w] = s
    BY <1>2 DEF Becomes, LQInv, LQTypeOK
  <1>6. /\ seen' \subseteq seen
        /\ \A k \in Jobs \ {j} : InState(k, "QUEUED")' => InState(k, "QUEUED")
        /\ s # Dead /\ InState(j, "QUEUED")' => j \notin seen'
    <2>1. CASE TakePaused(w, j)
      BY <2>1 DEF TakePaused, InState, Exists
    <2>2. CASE TakeDenied(w, j)
      <3>1. seen' = seen \ {j} /\ store' = SetState(j, "QUEUED")
        BY <2>2 DEF TakeDenied
      <3> QED BY <1>3, <3>1, SetStateEffects DEF States, InState, Exists
    <2>3. CASE TakeNothing(w, j)
      <3>1. seen' = seen /\ store' = SetState(j, "CANCELED")
        BY <2>3 DEF TakeNothing
      <3> QED BY <1>3, <3>1, SetStateEffects DEF States, InState, Exists
    <2>4. CASE Start(w, j) \/ StartFails(w, j)
      <3>1. /\ seen' = seen /\ Exists(j)
            /\ store' = store \/ store' = [store EXCEPT ![j] = Started(store[j])]
            /\ Start(w, j) => store' = [store EXCEPT ![j] = Started(store[j])]
        BY <2>4 DEF Start, StartFails, Startable
      <3>2. store[j] \in Row
        BY <1>3, <3>1 DEF Stores, Exists
      <3>3. Started(store[j]).st = "RUNNING"
        BY <3>2, RowFacts
      <3>4. StartFails(w, j) => s = Dead
        BY <1>5 DEF StartFails, Becomes, LQInv, LQTypeOK
      <3> QED BY <1>3, <2>4, <3>1, <3>3, <3>4 DEF Stores, InState, Exists
    <2> QED BY <2>1, <2>2, <2>3, <2>4
  <1> QED BY <1>2, <1>3, <1>4, <1>6, WorkerTracks DEF Heaped

LEMMA EndTracks ==
  ASSUME LQInv, QueuedIsTracked, NEW w \in Workers, Wake(w) \/ End(w) \/ Finish(w)
  PROVE  QueuedIsTracked'
  <1>8. /\ worker[w].pc \in {"sleep", "run", "final", "notify"} /\ UNCHANGED <<calls, boot>>
        /\ worker[w].job \in Jobs /\ worker[w] # Dead /\ store \in Stores /\ asyncQ \in Seq(Jobs) /\ SchedTypeOK
    BY BusyFacts DEF Wake, End, EndPass1, EndPass2Early, EndDone, EndFail, EndRun, InRun,
                     Finish, Returns, Outside, Dead
  <1>9. PICK j \in Jobs : j = worker[w].job
    BY <1>8
  <1>0. /\ worker[w].pc \in {"sleep", "run", "final", "notify"} /\ UNCHANGED <<calls, boot>>
        /\ worker[w] # Dead /\ store \in Stores /\ asyncQ \in Seq(Jobs) /\ SchedTypeOK
    BY <1>8
  <1>1. CASE Wake(w)
    <2>1. /\ Becomes(w, More) /\ asyncQ' = Append(asyncQ, j)
          /\ Heap' = Heap /\ inHand' = inHand /\ UNCHANGED <<store, seen>>
      BY <1>0, <1>1, <1>9, SchedStays DEF Wake
    <2>2. \A k \in Jobs : Has(Append(asyncQ, j), k) <=> Has(asyncQ, k) \/ k = j
      BY <1>0, AppendHas
    <2>3. Has(asyncQ, j)' /\ \A k \in Jobs : Has(asyncQ, k) => Has(asyncQ, k)'
      <3> DEFINE t == Append(asyncQ, j)
      <3> HIDE DEF t
      <3>1. asyncQ' = t /\ \A k \in Jobs : Has(t, k) <=> Has(asyncQ, k) \/ k = j
        BY <2>1, <2>2 DEF t
      <3> QED BY <1>0, <3>1 DEF Has
    <2>4. OnItsWay(j)'
      BY <2>3, Ways
    <2> QED BY <1>0, <2>1, <2>3, <2>4, <1>9, BusyFacts, WorkerTracks DEF Heaped, InState, Exists
  <1>2. ASSUME NEW s \in WorkerStates, Becomes(w, s), asyncQ' = asyncQ, inHand' = inHand,
               seen' \subseteq seen, Heap \subseteq Heap', worker[w].pc # "sleep",
               \A k \in Jobs \ {j} : InState(k, "QUEUED")' => InState(k, "QUEUED"),
               InState(j, "QUEUED")' => j \notin seen'
        PROVE  QueuedIsTracked'
    <2> QED BY <1>0, <1>2, WorkerTracks DEF Heaped
  <1>3. CASE EndPass1(w)
    <2> DEFINE s == [pc |-> "final", job |-> j, ok |-> FALSE]
               t == [store EXCEPT ![j] = AfterPass1(store[j])]
    <2>1. /\ t \in Stores /\ store[j] \in Row /\ Resubmit(t, j, worker[w].mode, 120)
          /\ worker[w].mode \in Modes /\ 120 \in Priorities
          /\ Becomes(w, s) /\ UNCHANGED asyncQ
      BY <1>3, <1>9, EndPass1Effects
    <2>2. s \in WorkerStates
      BY <1>0 DEF WorkerStates, Busy
    <2>3. \A k \in Jobs \ {j} : t[k] = store[k]
      BY <1>0 DEF Stores
    <2>4. worker[w].pc = "run"
      BY <1>3 DEF EndPass1, InRun
    <2> HIDE DEF s, t
    <2>5. /\ inHand' = inHand /\ seen' = seen \ {j} /\ Heap \subseteq Heap'
          /\ \A k \in Jobs : /\ store'[k] = NoRec <=> t[k] = NoRec
                             /\ t[k] # NoRec => store'[k].st = t[k].st
      BY <1>0, <2>1, ResubmitEffects DEF LQInv, LQTypeOK
    <2>6. \A k \in Jobs \ {j} : InState(k, "QUEUED")' => InState(k, "QUEUED")
      BY <2>3, <2>5 DEF InState, Exists
    <2> QED BY <1>2, <2>1, <2>2, <2>4, <2>5, <2>6
  <1>4. ASSUME NEW st \in {"DONE", "FAILED"}, NEW pc \in {"final", "notify"}, NEW ok \in BOOLEAN,
               InRun(w), store' = SetState(j, st),
               Becomes(w, [pc |-> pc, job |-> j, ok |-> ok]), UNCHANGED <<schedVars, seen>>
        PROVE  QueuedIsTracked'
    <2> DEFINE s == [pc |-> pc, job |-> j, ok |-> ok]
    <2>1. s \in WorkerStates
      BY <1>0 DEF WorkerStates, Busy
    <2>2. /\ \A k \in Jobs \ {j} : InState(k, "QUEUED")' => InState(k, "QUEUED")
          /\ ~InState(j, "QUEUED")'
      BY <1>0, <1>4, SetStateEffects DEF States, InState, Exists
    <2>3. Heap' = Heap /\ inHand' = inHand /\ UNCHANGED asyncQ /\ worker[w].pc = "run"
      BY <1>0, <1>4, SchedStays DEF InRun
    <2>4. Becomes(w, s)
      BY <1>4
    <2> HIDE DEF s
    <2> QED BY <1>2, <1>4, <2>1, <2>2, <2>3, <2>4
  <1>5. CASE EndPass2Early(w)
    BY <1>4, <1>5, <1>9 DEF EndPass2Early
  <1>6. CASE EndDone(w) \/ EndFail(w)
    <2>1. \E st \in {"DONE", "FAILED"} : EndRun(w, st)
      BY <1>6 DEF EndDone, EndFail
    <2>2. PICK st \in {"DONE", "FAILED"} : EndRun(w, st)
      BY <2>1
    <2>3. PICK pc \in {"final", "notify"}, ok \in BOOLEAN :
             Becomes(w, [pc |-> pc, job |-> j, ok |-> ok])
      BY <2>2, <1>9 DEF EndRun
    <2> QED BY <1>4, <1>9, <2>2, <2>3 DEF EndRun
  <1>7. CASE Finish(w)
    <2>1. /\ ReleaseSlot(j) /\ Asks(w, asyncQ) /\ worker[w].pc # "sleep"
          /\ UNCHANGED <<heapVars, inHand, stopped, asyncQ, seen>>
          /\ store' = store \/ (Exists(j) /\ store' = [store EXCEPT ![j] = Cleared(store[j])])
      BY <1>7, <1>9 DEF Finish, Returns
    <2>2. Heap' = Heap
      BY <1>0, <2>1, ReleaseEffects
    <2>3. PICK s \in {Idle, More} : Becomes(w, s)
      BY <2>1, BusyFacts
    <2>4. s \in WorkerStates
      BY <2>3, BusyFacts
    <2>5. \A k \in Jobs : InState(k, "QUEUED")' => InState(k, "QUEUED")
      <3>1. CASE store' = store
        BY <3>1 DEF InState, Exists
      <3>2. CASE Exists(j) /\ store' = [store EXCEPT ![j] = Cleared(store[j])]
        <4>1. store[j] \in Row
          BY <1>0, <3>2 DEF Exists, Stores
        <4>2. Cleared(store[j]).st = store[j].st
          BY <4>1, RowFacts
        <4> QED BY <1>0, <3>2, <4>2 DEF Stores, InState, Exists
      <3> QED BY <2>1, <3>1, <3>2
    <2>6. (\A v \in Workers : worker'[v] # Dead) => \A v \in Workers : worker[v] # Dead
      BY <1>0, <2>3 DEF Becomes, LQInv, LQTypeOK
    <2>7. \A k \in Jobs : Asleep(k) => Asleep(k)'
      BY <2>1, <2>3 DEF Asleep, Becomes, LQInv, LQTypeOK
    <2>8. \A k \in Jobs : OnItsWay(k) => OnItsWay(k)'
      BY <1>0, <2>1, <2>2, <2>7, Ways DEF InHand, Heaped, Called
    <2> QED BY <2>1, <2>5, <2>6, <2>8, TrackStep DEF Still
  <1> QED BY <1>1, <1>3, <1>5, <1>6, <1>7 DEF End

LEMMA RestartTracks ==
  ASSUME Restart
  PROVE  QueuedIsTracked'
  <1>1. boot' = {j \in Jobs : Unfinished(j)} /\ UNCHANGED store
    BY DEF Restart
  <1>2. \A j \in Jobs : InState(j, "QUEUED")' => OnItsWay(j)'
    BY <1>1 DEF Unfinished, InState, Exists, OnItsWay
  <1> QED BY <1>2 DEF QueuedIsTracked

LEMMA NextTracks ==
  ASSUME ~QuotaMayReject, LQInv, QueuedIsTracked, [LQNext]_lqVars
  PROVE  QueuedIsTracked'
  <1>1. CASE UNCHANGED lqVars
    <2>1. Heap' = Heap /\ inHand' = inHand
      BY <1>1, SchedStays DEF lqVars, LQInv, LQTypeOK
    <2>2. \A k \in Jobs : OnItsWay(k) => OnItsWay(k)'
      BY <1>1, <2>1, WaysStay DEF lqVars, loopVars, InHand, Heaped
    <2> QED BY <1>1, <2>2, TrackStep DEF lqVars, loopVars, Still, InState, Exists
  <1>2. CASE LQNext
    BY <1>2, UserTracks, DispatcherTracks, RunCallTracks, ScanTracks, TakeTracks, EndTracks,
       RestartTracks DEF LQNext, Take
  <1> QED BY <1>1, <1>2

\* No accepted job is lost, for any number of jobs, workers, slots, restarts and
\* interleavings: a QUEUED job is on its way to a worker or the scan loop will
\* still submit it.  resume and rerun write QUEUED before the quota is asked: if
\* the quota may answer 429 the job is left QUEUED, seen and nowhere.
THEOREM NoJobIsLost == ~QuotaMayReject => (LQSpec => []QueuedIsTracked)
  <1> SUFFICES ASSUME ~QuotaMayReject PROVE LQSpec => []QueuedIsTracked
    OBVIOUS
  <1>1. LQInit => QueuedIsTracked
    BY DEF LQInit, QueuedIsTracked, InState, Exists
  <1>2. LQInv /\ QueuedIsTracked /\ [LQNext]_lqVars => QueuedIsTracked'
    BY NextTracks
  <1> QED BY <1>1, <1>2, InitLQInv, NextLQInv, PTL DEF LQSpec

-----------------------------------------------------------------------------
\* One global slot.  While MAX_CONCURRENCY_GLOBAL is 1 the work handed over is
\* a single token: it is with the dispatcher, in a coroutine, in the workers'
\* queue or with one worker, and nowhere else.

NoneAtWork == \A w \in Workers : ~Working(w)
Nowhere == dpc = "none" /\ calls = <<>> /\ asyncQ = <<>> /\ NoneAtWork
AtDispatcher == dpc \in {"read", "sync"} /\ calls = <<>> /\ asyncQ = <<>> /\ NoneAtWork
InCall == dpc = "wait" /\ Len(calls) = 1 /\ asyncQ = <<>> /\ NoneAtWork
InQueue == dpc = "none" /\ calls = <<>> /\ Len(asyncQ) = 1 /\ NoneAtWork
AtWorker ==
    /\ dpc = "none" /\ calls = <<>> /\ asyncQ = <<>>
    /\ \E w \in Workers : Working(w) /\ \A v \in Workers \ {w} : ~Working(v)

\* Users who cannot take a job away, and workers that do not die: then a slot
\* always comes back.
MayCancel == "cancel" \in UserOps \/ "adminCancel" \in UserOps
MayDelete == "delete" \in UserOps
NoLeak == MaxFaults = 0 /\ ~MayCancel /\ ~MayDelete

OneFlight ==
    \/ Nowhere /\ (NoLeak => activeGlobal = 0)
    \/ (AtDispatcher \/ InCall \/ InQueue \/ AtWorker) /\ activeGlobal = 1

\* What users can do to the row of the job that was handed over, before a worker
\* starts it; and to the row a coroutine is about to write.
Handed(j) ==
    \/ dpc \in {"sync", "wait"} /\ inHand.job = j
    \/ Has(asyncQ, j) \/ Asleep(j)
RowWaits(r, j) ==
    \/ r.st \in {"QUEUED", "PAUSED"}
    \/ MayCancel /\ r.st = "CANCELED" /\ j \in canceled
Waits(j) == IF Exists(j) THEN RowWaits(store[j], j) ELSE MayDelete

CallsWait ==
    /\ \A i \in DOMAIN calls : RowWaits(calls[i].row, calls[i].job)
    /\ dpc = "sync" => snap.st = "QUEUED"

\* Recovery comes before anything else of the restarted server.
BootFirst ==
    /\ boot # {} => \A w \in Workers : worker[w].pc \in {"idle", "dead"}
    /\ \A j \in boot : Unfinished(j)

RunIsRunning == \A w \in Workers : worker[w].pc = "run" => InState(worker[w].job, "RUNNING")

SingleInv ==
    /\ LQInv
    /\ OneFlight
    /\ \A j \in Jobs : Handed(j) => Waits(j)
    /\ CallsWait /\ BootFirst /\ RunIsRunning
    /\ MaxFaults = 0 => RunningIsWorked
    /\ NoLeak => canceled = {}

\* The row of k keeps its state, or is not there before and after.
Same(k) ==
    /\ Exists(k) <=> Exists(k)'
    /\ Exists(k) => store'[k].st = store[k].st

\* A step beside the token.
LEMMA BesideSingle ==
  ASSUME SingleInv, LQInv', UNCHANGED <<calls, asyncQ, worker, dpc, activeGlobal, inHand, snap>>,
         boot' \subseteq boot, canceled \subseteq canceled', NoLeak => canceled' = canceled,
         \A k \in Jobs : \/ Same(k)
                         \/ Waits(k)' /\ k \notin boot' /\ boot' = boot
                         \/ Waits(k)' /\ k \in boot \ boot',
         \A k \in boot \ boot' : Waits(k)',
         boot = {} \/ boot' # boot \/ \A k \in Jobs : Same(k),
         (\A w \in Workers : worker[w].pc # "run") \/ \A k \in Jobs : Same(k)
  PROVE  SingleInv'
  <1>0. /\ boot \subseteq Jobs /\ boot' \subseteq Jobs /\ calls' = calls /\ worker' = worker
        /\ DOMAIN calls' = DOMAIN calls
    BY DEF SingleInv, LQInv, LQTypeOK
  <1>1. OneFlight'
    BY DEF SingleInv, OneFlight, Nowhere, AtDispatcher, InCall, InQueue, AtWorker, NoneAtWork,
           Working
  <1>2. ASSUME NEW k \in Jobs, Same(k), Waits(k) PROVE Waits(k)'
    BY <1>2 DEF Same, Waits, RowWaits, Exists
  <1>3. \A k \in Jobs : Handed(k)' => Waits(k)'
    BY <1>2 DEF SingleInv, Handed, Has, Asleep
  <1>4. CallsWait'
    BY <1>0 DEF SingleInv, CallsWait, RowWaits
  <1>5. BootFirst'
    BY <1>0 DEF SingleInv, BootFirst, Unfinished, InState, Same, Exists
  <1>6. RunIsRunning'
    BY WorkerFacts DEF SingleInv, RunIsRunning, InState, Same, Exists, LQInv, LQTypeOK, WorkerStates
  <1>7. \A k \in Jobs : Waits(k)' => ~InState(k, "RUNNING")'
    BY DEF Waits, RowWaits, InState, Exists
  <1>8. MaxFaults = 0 => RunningIsWorked'
    <2> SUFFICES ASSUME MaxFaults = 0, NEW k \in Jobs, InState(k, "RUNNING")'
                 PROVE  k \in boot' \/ \E w \in Workers : worker[w].pc = "run" /\ worker[w].job = k
      BY DEF RunningIsWorked
    <2>1. Same(k)
      BY <1>7
    <2>2. InState(k, "RUNNING")
      BY <2>1 DEF InState, Same, Exists
    <2>3. k \in boot \/ \E w \in Workers : worker[w].pc = "run" /\ worker[w].job = k
      BY <2>2 DEF SingleInv, RunningIsWorked
    <2> QED BY <1>7, <2>3
  <1> QED BY <1>1, <1>3, <1>4, <1>5, <1>6, <1>8 DEF SingleInv

\* A final state is kept.
FinalKept == \A k \in Jobs, s \in Final : InState(k, s) => InState(k, s)'

\* A handler may do to a row what Waits allows.
LEMMA UserSingle ==
  ASSUME SingleInv, LQInv', UserAction
  PROVE  SingleInv' /\ UNCHANGED worker /\ ops' # ops
  <1> PICK j \in Jobs :
        \/ \E m \in InModes : SubmitJob(j, m)
        \/ CancelJob(j) \/ AdminCancel(j) \/ DeleteJob(j)
        \/ Pause(j) \/ Resume(j) \/ Rerun(j)
    BY DEF UserAction
  <1>0. /\ SchedTypeOK /\ store \in Stores /\ seen \subseteq Jobs
        /\ 100 \in Priorities /\ 110 \in Priorities /\ InModes \subseteq Modes /\ ops \in Nat
    BY LocalQueueAssumption, SchedulerAssumption DEF SingleInv, LQInv, LQTypeOK, Stores
  <1>1. \E what : Asking(j, what)
    BY DEF SubmitJob, CancelJob, AdminCancel, DeleteJob, Pause, Resume, Rerun
  <1>2. /\ UNCHANGED <<calls, asyncQ, worker, dpc, snap, boot>> /\ ops' # ops
        /\ boot = {} /\ \A w \in Workers : worker[w].pc # "run"
    BY <1>0, <1>1 DEF Asking, LoopFree, Blocking
  <1>3. ASSUME UNCHANGED <<activeGlobal, inHand>>, canceled \subseteq canceled',
               NoLeak => canceled' = canceled, Waits(j)',
               \A k \in Jobs \ {j} : Same(k)
        PROVE  SingleInv' /\ UNCHANGED worker /\ ops' # ops
    <2>1. \A k \in Jobs : Same(k) \/ (Waits(k)' /\ k \notin boot' /\ boot' = boot)
      BY <1>2, <1>3
    <2> QED BY <1>2, <1>3, <2>1, BesideSingle
  <1>4. ASSUME NEW s \in Stores, NEW m \in Modes, NEW p \in Priorities,
               Resubmit(s, j, m, p) \/ (store' = s /\ UNCHANGED schedVars),
               canceled' = canceled, s[j] # NoRec, s[j].st = "QUEUED",
               \A k \in Jobs \ {j} : s[k] = store[k]
        PROVE  SingleInv' /\ UNCHANGED worker /\ ops' # ops
    <2>1. /\ UNCHANGED <<activeGlobal, inHand>>
          /\ \A k \in Jobs : /\ store'[k] = NoRec <=> s[k] = NoRec
                             /\ s[k] # NoRec => store'[k].st = s[k].st
      BY <1>0, <1>4, EnterEffects DEF Resubmit, slotVars, schedVars
    <2>2. Waits(j)' /\ \A k \in Jobs \ {j} : Same(k)
      BY <1>4, <2>1 DEF Waits, RowWaits, Same, Exists
    <2> QED BY <1>3, <1>4, <2>1, <2>2
  <1>5. ASSUME NEW st \in {"CANCELED", "PAUSED"}, store' = SetState(j, st), Exists(j),
               UNCHANGED <<activeGlobal, inHand>>,
               \/ st = "PAUSED" /\ canceled' = canceled
               \/ MayCancel /\ canceled' = canceled \cup {j}
        PROVE  SingleInv' /\ UNCHANGED worker /\ ops' # ops
    <2>1. Waits(j)' /\ \A k \in Jobs \ {j} : Same(k)
      BY <1>0, <1>5, SetStateEffects DEF States, Waits, RowWaits, Same, Exists
    <2> QED BY <1>3, <1>5, <2>1 DEF NoLeak
  <1>6. ASSUME NEW m \in InModes, SubmitJob(j, m) PROVE SingleInv' /\ UNCHANGED worker /\ ops' # ops
    <2> DEFINE s == [store EXCEPT ![j] = NewRow(m)]
    <2>1. Resubmit(s, j, m, 100) /\ canceled' = canceled
      BY <1>6 DEF SubmitJob, NewRow
    <2>2. NewRow(m) \in Row /\ NewRow(m).st = "QUEUED"
      BY <1>0, RowFacts DEF NewRow
    <2>3. s \in Stores /\ s[j] # NoRec /\ s[j].st = "QUEUED" /\ \A k \in Jobs \ {j} : s[k] = store[k]
      BY <1>0, <2>2, NoRecAssumption DEF Stores
    <2> HIDE DEF s
    <2> QED BY <1>0, <1>4, <2>1, <2>3
  <1>7. CASE CancelJob(j) \/ Pause(j)
    <2>1. Exists(j) /\ UNCHANGED <<activeGlobal, inHand>>
      BY <1>7 DEF CancelJob, Pause, InState, schedVars
    <2>2. \/ MayCancel /\ canceled' = canceled \cup {j} /\ store' = SetState(j, "CANCELED")
          \/ canceled' = canceled /\ store' = SetState(j, "PAUSED")
      BY <1>7 DEF CancelJob, Pause, MayCancel
    <2> QED BY <1>5, <2>1, <2>2
  <1>8. CASE AdminCancel(j)
    <2>1. /\ UNCHANGED <<activeGlobal, inHand>> /\ MayCancel
          /\ canceled' = canceled \cup {j} /\ store' = SetState(j, "CANCELED")
      BY <1>8 DEF AdminCancel, Drop, slotVars, MayCancel
    <2>2. CASE Exists(j)
      BY <1>5, <2>1, <2>2
    <2>3. CASE ~Exists(j)
      <3>1. store' = store
        BY <2>1, <2>3 DEF SetState
      <3>2. \A k \in Jobs : Same(k)
        BY <3>1 DEF Same, Exists
      <3> QED BY <1>2, <2>1, <3>2, BesideSingle DEF NoLeak
    <2> QED BY <2>2, <2>3
  <1>9. CASE DeleteJob(j)
    <2>1. /\ UNCHANGED <<activeGlobal, inHand>> /\ MayDelete
          /\ canceled' = canceled \cup {j} /\ store' = [store EXCEPT ![j] = NoRec]
      BY <1>9 DEF DeleteJob, schedVars, MayDelete
    <2>2. Waits(j)' /\ \A k \in Jobs \ {j} : Same(k)
      BY <1>0, <2>1 DEF Stores, Waits, Same, Exists
    <2> QED BY <1>3, <2>1, <2>2 DEF NoLeak
  <1>10. CASE Resume(j)
    <2> DEFINE s == SetState(j, "QUEUED")
    <2>1. /\ s \in Stores /\ store[j].mode \in Modes /\ s[j] # NoRec /\ s[j].st = "QUEUED"
          /\ \A k \in Jobs \ {j} : s[k] = store[k]
      BY <1>0, <1>10, SetStateEffects, RowFacts DEF States, Resume, InState, Exists, Stores
    <2>2. Resubmit(s, j, store[j].mode, 100) \/ (store' = s /\ UNCHANGED schedVars)
      BY <1>10 DEF Resume, RequeueOr429
    <2>3. canceled' = canceled
      BY <1>10 DEF Resume, RequeueOr429
    <2> HIDE DEF s
    <2> QED BY <1>0, <1>4, <2>1, <2>2, <2>3
  <1>11. CASE Rerun(j)
    <2> DEFINE s == [store EXCEPT ![j].st = "QUEUED", ![j].req = TRUE, ![j].clone = TRUE]
    <2>1. store[j] \in Row
      BY <1>0, <1>11 DEF Rerun, Exists, Stores
    <2>2. s = [store EXCEPT ![j] = Reran(store[j])]
      BY <1>0 DEF Stores, Reran
    <2>3. Reran(store[j]) \in Row /\ Reran(store[j]).st = "QUEUED" /\ store[j].mode \in Modes
      BY <2>1, RowFacts
    <2>4. /\ s \in Stores /\ s[j] # NoRec /\ s[j].st = "QUEUED"
          /\ \A k \in Jobs \ {j} : s[k] = store[k]
      BY <1>0, <2>2, <2>3, NoRecAssumption DEF Stores
    <2>5. Resubmit(s, j, store[j].mode, 110) \/ (store' = s /\ UNCHANGED schedVars)
      BY <1>11 DEF Rerun, RequeueOr429
    <2>6. canceled' = canceled
      BY <1>11 DEF Rerun, RequeueOr429
    <2> HIDE DEF s
    <2> QED BY <1>0, <1>4, <2>3, <2>4, <2>5, <2>6
  <1> QED BY <1>6, <1>7, <1>8, <1>9, <1>10, <1>11

LEMMA ScanSingle ==
  ASSUME SingleInv, LQInv', NEW j \in Jobs, Scan(j) \/ Recover(j)
  PROVE  SingleInv' /\ FinalKept /\ UNCHANGED worker
  <1>0. /\ SchedTypeOK /\ store \in Stores /\ 100 \in Priorities /\ seen \subseteq Jobs
        /\ Exists(j)
    BY LocalQueueAssumption DEF SingleInv, LQInv, LQTypeOK, Stores, Scan, Recover, InState
  <1>1. store[j].mode \in Modes
    BY <1>0, RowFacts DEF Exists, Stores
  <1>2. UNCHANGED <<calls, asyncQ, canceled, worker, dpc, snap>>
    BY DEF Scan, Recover
  <1>3. CASE Scan(j)
    <2>1. /\ UNCHANGED <<activeGlobal, inHand, boot>>
          /\ \A k \in Jobs : /\ store'[k] = NoRec <=> store[k] = NoRec
                             /\ store[k] # NoRec => store'[k].st = store[k].st
      BY <1>0, <1>1, <1>3, EnterEffects DEF Scan, slotVars
    <2>2. \A k \in Jobs : Same(k)
      BY <2>1 DEF Same, Exists
    <2>3. SingleInv'
      BY <1>2, <2>1, <2>2, BesideSingle
    <2> QED BY <1>2, <2>2, <2>3 DEF FinalKept, Same, InState
  <1>4. CASE Recover(j)
    <2>0. /\ SetState(j, "QUEUED") \in Stores
          /\ Exists(j) => SetState(j, "QUEUED")[j] # NoRec /\ SetState(j, "QUEUED")[j].st = "QUEUED"
          /\ \A k \in Jobs \ {j} : SetState(j, "QUEUED")[k] = store[k]
      BY <1>0, SetStateEffects DEF States, Exists
    <2>1. /\ UNCHANGED <<activeGlobal, inHand>> /\ boot' = boot \ {j} /\ j \in boot
          /\ \A k \in Jobs : /\ store'[k] = NoRec <=> SetState(j, "QUEUED")[k] = NoRec
                             /\ SetState(j, "QUEUED")[k] # NoRec
                                   => store'[k].st = SetState(j, "QUEUED")[k].st
      BY <1>0, <1>1, <1>4, <2>0, EnterEffects DEF Recover, Resubmit, slotVars
    <2>2. Waits(j)' /\ \A k \in Jobs \ {j} : Same(k)
      BY <1>0, <2>0, <2>1 DEF Waits, RowWaits, Same, Exists
    <2>3. (\A w \in Workers : worker[w].pc # "run") /\ Unfinished(j)
      BY <2>1 DEF SingleInv, BootFirst
    <2>4. SingleInv'
      BY <1>2, <2>1, <2>2, <2>3, BesideSingle
    <2>5. FinalKept
      BY <2>2, <2>3 DEF FinalKept, Same, InState, Unfinished, Final
    <2> QED BY <1>2, <2>4, <2>5
  <1> QED BY <1>3, <1>4

\* The dispatcher takes the token when there is none about, and moves it on.
LEMMA DispatcherSingle ==
  ASSUME MaxGlobal = 1, SingleInv, LQInv',
         SchedStep(Ripen) \/ DispatcherStep \/ EnqueueTimeout
  PROVE  SingleInv' /\ FinalKept /\ UNCHANGED worker
  <1>0. /\ SchedTypeOK /\ store \in Stores /\ (dpc = "none" <=> inHand = NoRec)
        /\ activeGlobal \in 0 .. 1
    BY DEF SingleInv, LQInv, LQTypeOK, Stores, SchedTypeOK
  <1>1. UNCHANGED <<asyncQ, canceled, worker, boot>>
    BY DEF DispatcherStep, SchedStep, Pop, ReadJob, SyncMode, EnqueueTimeout, Elsewhere, loopVars
  <1>2. ~EnqueueTimeout
    BY DEF SingleInv, OneFlight, Nowhere, AtDispatcher, InCall, InQueue, AtWorker, NoneAtWork,
           Working, EnqueueTimeout
  <1>3. CASE SchedStep(Ripen) \/ SchedStep(Defer)
    <2>1. UNCHANGED <<calls, dpc, activeGlobal, inHand, snap>> /\ \A k \in Jobs : Same(k)
      BY <1>3 DEF SchedStep, Ripen, Defer, slotVars, loopVars, Same, Exists
    <2>2. SingleInv'
      BY <1>1, <2>1, BesideSingle
    <2> QED BY <1>1, <2>1, <2>2 DEF FinalKept, Same, InState
  \* In the other steps: nothing is queued or at work, and no row changes its state.
  <1>4. ASSUME dpc \in {"read", "sync"} \/ (dpc = "none" /\ activeGlobal = 0), \A k \in Jobs : Same(k),
               OneFlight', \A k \in Jobs : Handed(k)' => Waits(k)', CallsWait'
        PROVE  SingleInv' /\ FinalKept /\ UNCHANGED worker
    <2>0. /\ \A k \in Jobs : \A s : InState(k, s) => InState(k, s)'
          /\ boot \subseteq Jobs /\ \A w \in Workers : worker[w].pc = "run" => worker[w].job \in Jobs
      BY <1>4, WorkerFacts DEF InState, Same, Exists, SingleInv, LQInv, LQTypeOK, WorkerStates
    <2>1. BootFirst'
      <3>1. \A k \in boot : Unfinished(k)'
        BY <2>0 DEF SingleInv, BootFirst, Unfinished
      <3> QED BY <1>1, <3>1 DEF SingleInv, BootFirst
    <2>4. RunIsRunning'
      <3> SUFFICES ASSUME NEW w \in Workers, worker[w].pc = "run"
                   PROVE  store'[worker[w].job] # NoRec /\ store'[worker[w].job].st = "RUNNING"
        BY <1>1 DEF RunIsRunning, InState, Exists
      <3>1. PICK k \in Jobs : k = worker[w].job
        BY <2>0
      <3>2. InState(k, "RUNNING")'
        BY <2>0, <3>1 DEF SingleInv, RunIsRunning
      <3> QED BY <3>1, <3>2 DEF InState, Exists
    <2>2. MaxFaults = 0 => RunningIsWorked'
      BY <1>1, <1>4 DEF SingleInv, RunningIsWorked, InState, Same, Exists
    <2>3. FinalKept
      BY <1>4 DEF FinalKept, Same, InState
    <2> QED BY <1>1, <1>4, <2>1, <2>2, <2>3, <2>4 DEF SingleInv
  <1>5. CASE Pop
    <2>1. /\ dpc = "none" /\ activeGlobal < 1 /\ activeGlobal' = activeGlobal + 1 /\ dpc' = "read"
          /\ UNCHANGED <<store, calls, snap>>
      BY <1>0, <1>5 DEF Pop, Dispatch, DispatcherFree, Full, TakeSlot
    <2>2. activeGlobal = 0 /\ activeGlobal' = 1
      BY <1>0, <2>1
    <2>3. Nowhere
      BY <2>2 DEF SingleInv, OneFlight
    <2>4. OneFlight'
      BY <1>1, <2>1, <2>2, <2>3 DEF OneFlight, Nowhere, AtDispatcher, NoneAtWork, Working
    <2>5. \A k \in Jobs : ~Handed(k)'
      BY <1>1, <2>1, <2>3 DEF Nowhere, NoneAtWork, Working, Handed, Has, Asleep
    <2>6. CallsWait' /\ \A k \in Jobs : Same(k)
      BY <2>1, <2>3 DEF CallsWait, Nowhere, Same, Exists
    <2> QED BY <1>4, <2>1, <2>2, <2>4, <2>5, <2>6
  <1>6. ASSUME dpc \in {"read", "sync"}
        PROVE  /\ inHand # NoRec /\ inHand.job \in Jobs /\ calls = <<>> /\ asyncQ = <<>>
               /\ NoneAtWork /\ activeGlobal = 1
    <2>1. inHand # NoRec /\ inHand.job \in Jobs
      BY <1>0, <1>6 DEF SchedTypeOK, Record
    <2> QED BY <1>6, <2>1 DEF SingleInv, OneFlight, Nowhere, AtDispatcher, InCall, InQueue, AtWorker
  <1>7. ASSUME dpc \in {"read", "sync"}, NEW r \in Row, Call(r), UNCHANGED schedVars,
               \A k \in Jobs : Same(k), NEW j \in Jobs, j = inHand.job, Waits(j), RowWaits(r, j)
        PROVE  SingleInv' /\ FinalKept /\ UNCHANGED worker
    <2> DEFINE c == [job |-> j, row |-> r]
    <2>1. c.job = j /\ c.row = r /\ calls' = Append(calls, c) /\ dpc' = "wait"
      BY <1>7 DEF Call
    <2> HIDE DEF c
    <2>2. Len(calls') = 1 /\ DOMAIN calls' = {1} /\ calls'[1] = c
      BY <1>6, <1>7, <2>1
    <2>3. activeGlobal' = 1 /\ inHand' = inHand
      BY <1>6, <1>7 DEF schedVars
    <2>4. OneFlight'
      BY <1>1, <1>6, <1>7, <2>1, <2>2, <2>3 DEF OneFlight, InCall, NoneAtWork, Working
    <2>5. \A k \in Jobs : Handed(k)' => k = j
      BY <1>1, <1>6, <1>7, <2>1, <2>3 DEF Handed, NoneAtWork, Working, Has, Asleep
    <2>6. Waits(j)' /\ RowWaits(r, j)'
      BY <1>1, <1>7 DEF Waits, RowWaits, Same, Exists
    <2>7. CallsWait'
      BY <2>1, <2>2, <2>6 DEF CallsWait
    <2> QED BY <1>4, <1>7, <2>4, <2>5, <2>6, <2>7
  <1>8. CASE ReadJob
    <2>0. dpc = "read" /\ UNCHANGED store /\ \A k \in Jobs : Same(k)
      BY <1>8 DEF ReadJob, Same, Exists
    <2>1. CASE ~Enqueuable(inHand.job)
      <3>1. GiveBack /\ dpc' = "none" /\ UNCHANGED <<calls, snap>>
        BY <1>8, <2>1 DEF ReadJob
      <3>2. activeGlobal' = 0
        BY <1>6, <2>0, <3>1 DEF GiveBack, ReleaseSlot, AtLeast0
      <3>3. OneFlight'
        BY <1>1, <1>6, <2>0, <3>1, <3>2 DEF OneFlight, Nowhere, NoneAtWork, Working
      <3>4. \A k \in Jobs : ~Handed(k)'
        BY <1>1, <1>6, <2>0, <3>1 DEF Handed, NoneAtWork, Working, Has, Asleep
      <3>5. CallsWait'
        BY <1>6, <2>0, <3>1 DEF CallsWait
      <3> QED BY <1>4, <2>0, <3>3, <3>4, <3>5
    <2>2. CASE Enqueuable(inHand.job)
      <3>0. PICK j \in Jobs : j = inHand.job
        BY <1>6, <2>0
      <3>1. store[j] \in Row /\ Waits(j) /\ RowWaits(store[j], j) /\ store[j].st = "QUEUED"
        BY <1>0, <2>2, <3>0 DEF Enqueuable, InState, Exists, Stores, Waits, RowWaits
      <3>2. CASE Call(store[inHand.job]) /\ UNCHANGED schedVars
        BY <1>7, <2>0, <3>0, <3>1, <3>2
      <3>3. CASE UNCHANGED schedVars /\ dpc' = "sync" /\ snap' = store[inHand.job] /\ UNCHANGED calls
        <4>1. activeGlobal' = 1 /\ inHand' = inHand
          BY <1>6, <2>0, <3>3 DEF schedVars
        <4>2. OneFlight'
          BY <1>1, <1>6, <2>0, <3>3, <4>1 DEF OneFlight, AtDispatcher, NoneAtWork, Working
        <4>3. \A k \in Jobs : Handed(k)' => k = j
          BY <1>1, <1>6, <2>0, <3>0, <3>3, <4>1 DEF Handed, NoneAtWork, Working, Has, Asleep
        <4>4. Waits(j)'
          BY <1>1, <2>0, <3>1 DEF Waits, RowWaits, Exists
        <4>5. CallsWait'
          BY <1>6, <2>0, <3>0, <3>1, <3>3 DEF CallsWait
        <4> QED BY <1>4, <2>0, <4>2, <4>3, <4>4, <4>5
      <3> QED BY <1>8, <2>2, <3>2, <3>3 DEF ReadJob
    <2> QED BY <2>1, <2>2
  <1>9. CASE SyncMode
    <2>0. dpc = "sync" /\ UNCHANGED schedVars
      BY <1>9 DEF SyncMode
    <2>1. PICK j \in Jobs : j = inHand.job
      BY <1>6, <2>0
    <2>2. Waits(j) /\ snap \in Row /\ snap.st = "QUEUED" /\ inHand.mode \in Modes
      BY <1>0, <1>6, <2>0, <2>1 DEF SingleInv, Handed, CallsWait, LQInv, LQTypeOK, SchedTypeOK, Record
    <2>3. CASE ~Exists(j)
      <3>1. Call(snap) /\ UNCHANGED store
        BY <1>9, <2>1, <2>3 DEF SyncMode
      <3>2. RowWaits(snap, j) /\ \A k \in Jobs : Same(k)
        BY <2>2, <3>1 DEF RowWaits, Same, Exists
      <3> QED BY <1>7, <2>0, <2>1, <2>2, <3>1, <3>2
    <2>4. CASE Exists(j)
      <3> DEFINE r == [store[j] EXCEPT !.mode = inHand.mode]
      <3>1. store[j] \in Row
        BY <1>0, <2>4 DEF Exists, Stores
      <3>2. r \in Row /\ r.st = store[j].st
        BY <2>2, <3>1 DEF Row
      <3>3. store' = [store EXCEPT ![j] = r] /\ Call(store'[j])
        BY <1>0, <1>9, <2>1, <2>4 DEF SyncMode, Stores
      <3>7. PICK q \in Row : q = r
        BY <3>2
      <3> HIDE DEF r
      <3>4. store'[j] = q /\ \A k \in Jobs \ {j} : store'[k] = store[k]
        BY <1>0, <3>3, <3>7 DEF Stores
      <3>5. \A k \in Jobs : Same(k)
        BY <2>4, <3>2, <3>4, <3>7, NoRecAssumption DEF Same, Exists
      <3>6. RowWaits(q, j)
        BY <2>2, <2>4, <3>2, <3>7 DEF Waits, RowWaits
      <3> QED BY <1>7, <2>0, <2>1, <2>2, <3>3, <3>4, <3>5, <3>6
    <2> QED BY <2>3, <2>4
  <1> QED BY <1>2, <1>3, <1>5, <1>8, <1>9 DEF DispatcherStep

LEMMA OneElement ==
  ASSUME NEW S, NEW s \in Seq(S), Len(s) = 1
  PROVE  DOMAIN s = {1} /\ s[1] \in S /\ Head(s) = s[1] /\ Tail(s) = <<>>
  <1>1. DOMAIN s = {1} /\ s[1] \in S /\ Head(s) = s[1]
    OBVIOUS
  <1>2. s # <<>>
    BY EmptySeq
  <1>3. Tail(s) \in Seq(S) /\ Len(Tail(s)) = 0
    BY <1>2, HeadTailProperties
  <1> QED BY <1>1, <1>3, EmptySeq

\* The loop runs the one coroutine there is.
LEMMA RunCallSingle ==
  ASSUME SingleInv, LQInv', RunCall
  PROVE  SingleInv' /\ (~MayCancel => FinalKept) /\ UNCHANGED worker
  <1>0. /\ store \in Stores /\ asyncQ \in Seq(Jobs) /\ LoopFree
        /\ UNCHANGED <<canceled, worker, boot, snap>>
        /\ dpc = "wait" => calls # <<>> /\ calls[Len(calls)].job = inHand.job
    BY DEF SingleInv, LQInv, LQTypeOK, Stores, RunCall
  <1>1. dpc = "wait" /\ Len(calls) = 1 /\ asyncQ = <<>> /\ NoneAtWork /\ activeGlobal = 1
    BY DEF SingleInv, OneFlight, Nowhere, AtDispatcher, InCall, InQueue, AtWorker, RunCall
  <1> DEFINE C == [job : Jobs, row : Row]
  <1>2. calls \in Seq(C)
    BY DEF SingleInv, LQInv, LQTypeOK
  <1> HIDE DEF C
  <1>3. DOMAIN calls = {1} /\ calls[1] \in C /\ Head(calls) = calls[1] /\ Tail(calls) = <<>>
    BY <1>1, <1>2, OneElement
  <1>4. PICK c \in C : c = calls[1]
    BY <1>3
  <1>5. /\ c.job \in Jobs /\ c.row \in Row /\ c.row # NoRec /\ c.job = inHand.job
        /\ RowWaits(c.row, c.job) /\ Waits(c.job)
    BY <1>0, <1>1, <1>3, <1>4, NoRecAssumption DEF C, SingleInv, CallsWait, Handed
  <1>6. /\ store' = [store EXCEPT ![c.job] = c.row] /\ asyncQ' = Append(asyncQ, c.job)
        /\ calls' = <<>> /\ HandOver /\ dpc' = "none"
    BY <1>1, <1>3, <1>4 DEF RunCall
  <1>7. /\ store'[c.job] = c.row /\ \A k \in Jobs \ {c.job} : store'[k] = store[k]
        /\ asyncQ' = <<c.job>> /\ activeGlobal' = 1
    BY <1>0, <1>1, <1>5, <1>6 DEF Stores, HandOver, slotVars
  <1>8. Len(asyncQ') = 1 /\ \A i \in DOMAIN asyncQ' : asyncQ'[i] = c.job
    BY <1>7
  <1>9. OneFlight'
    BY <1>0, <1>1, <1>6, <1>7, <1>8 DEF OneFlight, InQueue, NoneAtWork, Working
  <1>10. \A k \in Jobs : Handed(k)' => k = c.job
    BY <1>0, <1>1, <1>6, <1>8 DEF Handed, Has, Asleep, NoneAtWork, Working
  <1>11. \A j \in Jobs : j = c.job => Waits(j)' /\ ~InState(j, "RUNNING")'
    BY <1>0, <1>5, <1>7 DEF Waits, RowWaits, Exists, InState
  <1>12. CallsWait' /\ BootFirst' /\ RunIsRunning'
    BY <1>0, <1>1, <1>6 DEF CallsWait, BootFirst, RunIsRunning, LoopFree, NoneAtWork, Working
  <1>13. MaxFaults = 0 => RunningIsWorked'
    <2> SUFFICES ASSUME MaxFaults = 0, NEW k \in Jobs, InState(k, "RUNNING")'
                 PROVE  k \in boot' \/ \E w \in Workers : worker[w].pc = "run" /\ worker[w].job = k
      BY <1>0 DEF RunningIsWorked
    <2>1. InState(k, "RUNNING")
      BY <1>7, <1>11 DEF InState, Exists
    <2> QED BY <1>0, <2>1 DEF SingleInv, RunningIsWorked
  <1>14. ~MayCancel => FinalKept
    <2> SUFFICES ASSUME ~MayCancel, NEW k \in Jobs, NEW s \in Final, InState(k, s)
                 PROVE  InState(k, s)'
      BY DEF FinalKept
    <2>1. k # c.job
      BY <1>5 DEF Waits, RowWaits, InState, Final
    <2> QED BY <1>7, <2>1 DEF InState, Exists
  <1> QED BY <1>0, <1>9, <1>10, <1>11, <1>12, <1>13, <1>14 DEF SingleInv

LEMMA BecomesFacts ==
  ASSUME LQInv, NEW w \in Workers, NEW s, Becomes(w, s)
  PROVE  worker'[w] = s /\ \A v \in Workers \ {w} : worker'[v] = worker[v]
  BY DEF Becomes, LQInv, LQTypeOK

\* A worker that takes an id finds it alone in the queue, and nothing at work.
LEMMA TakesOne ==
  ASSUME SingleInv, NEW w \in Workers, NEW j, Takes(w, j)
  PROVE  /\ j \in Jobs /\ Tail(asyncQ) = <<>> /\ calls = <<>> /\ dpc = "none" /\ NoneAtWork
         /\ activeGlobal = 1 /\ boot = {} /\ Waits(j) /\ store \in Stores
         /\ UNCHANGED <<calls, dpc, snap, boot>>
  <1>1. asyncQ # <<>> /\ asyncQ \in Seq(Jobs) /\ j = Head(asyncQ) /\ UNCHANGED <<calls, dpc, snap, boot>>
    BY DEF Takes, Outside, SingleInv, LQInv, LQTypeOK
  <1>2. dpc = "none" /\ calls = <<>> /\ Len(asyncQ) = 1 /\ NoneAtWork /\ activeGlobal = 1
    BY <1>1 DEF SingleInv, OneFlight, Nowhere, AtDispatcher, InCall, InQueue, AtWorker
  <1>3. DOMAIN asyncQ = {1} /\ asyncQ[1] = j /\ j \in Jobs /\ Tail(asyncQ) = <<>>
    BY <1>1, <1>2, OneElement
  <1>4. boot = {}
    BY DEF Takes, LoopFree, SingleInv, BootFirst
  <1>5. Waits(j)
    BY <1>3 DEF SingleInv, Handed, Has
  <1> QED BY <1>1, <1>2, <1>3, <1>4, <1>5 DEF SingleInv, LQInv, LQTypeOK, Stores

\* The token is gone after a worker's step.
LEMMA GoneSingle ==
  ASSUME SingleInv, LQInv', NEW w \in Workers, NEW s \in {Idle, More, Dead}, Becomes(w, s),
         \A v \in Workers \ {w} : ~Working(v),
         dpc' = "none", calls' = <<>>, asyncQ' = <<>>, canceled' = canceled,
         NoLeak => activeGlobal' = 0, boot = {}, boot' = {},
         MaxFaults = 0 => RunningIsWorked'
  PROVE  SingleInv' /\ \A v \in Workers, k \in Jobs : ~Starts(v, k)
  <1>1. worker'[w] = s /\ \A v \in Workers \ {w} : worker'[v] = worker[v]
    BY BecomesFacts DEF SingleInv
  <1>2. s.pc \in {"idle", "next", "dead"}
    BY DEF Idle, More, Dead
  <1>3. NoneAtWork'
    BY <1>1, <1>2 DEF NoneAtWork, Working
  <1>4. OneFlight'
    BY <1>3 DEF OneFlight, Nowhere
  <1>5. \A k \in Jobs : ~Handed(k)'
    BY <1>3 DEF Handed, Has, Asleep, NoneAtWork, Working
  <1>6. CallsWait'
    <2>1. dpc' # "sync" /\ DOMAIN calls' = {}
      OBVIOUS
    <2> QED BY <2>1 DEF CallsWait
  <1>7. BootFirst' /\ RunIsRunning' /\ \A v \in Workers, k \in Jobs : ~Starts(v, k)
    BY <1>3 DEF BootFirst, RunIsRunning, NoneAtWork, Working, Starts
  <1> QED BY <1>4, <1>5, <1>6, <1>7 DEF SingleInv

\* With nothing at work and nothing to recover, no row is RUNNING.
LEMMA NoneRunning ==
  ASSUME SingleInv, MaxFaults = 0, boot = {}, NoneAtWork
  PROVE  \A k \in Jobs : ~InState(k, "RUNNING")
  BY DEF SingleInv, RunningIsWorked, NoneAtWork, Working

LEMMA TakeSingle ==
  ASSUME SingleInv, LQInv', NEW w \in Workers, NEW j \in Jobs,
         TakePaused(w, j) \/ TakeDenied(w, j) \/ TakeNothing(w, j) \/ Start(w, j) \/ StartFails(w, j)
  PROVE  /\ SingleInv' /\ (~MayCancel => FinalKept)
         /\ \A v \in Workers, k \in Jobs : Starts(v, k) => InState(k, "QUEUED")
  <1>1. Takes(w, j) /\ asyncQ' = Tail(asyncQ) /\ UNCHANGED schedVars /\ canceled' = canceled
    BY DEF TakePaused, TakeDenied, TakeNothing, Start, StartFails
  <1>2. /\ asyncQ' = <<>> /\ calls = <<>> /\ dpc = "none" /\ NoneAtWork
        /\ activeGlobal = 1 /\ activeGlobal' = 1 /\ boot = {} /\ Waits(j) /\ store \in Stores
        /\ UNCHANGED <<calls, dpc, snap, boot>>
    BY <1>1, TakesOne DEF schedVars
  \* Only the row of j may change.
  <1>3. ASSUME \A k \in Jobs \ {j} : store'[k] = store[k] PROVE ~MayCancel => FinalKept
    <2> SUFFICES ASSUME ~MayCancel, NEW k \in Jobs, NEW s \in Final, InState(k, s)
                 PROVE  InState(k, s)'
      BY DEF FinalKept
    <2>1. k # j
      BY <1>2 DEF Waits, RowWaits, InState, Final
    <2> QED BY <1>3, <2>1 DEF InState, Exists
  <1>4. CASE TakePaused(w, j)
    <2>1. Becomes(w, [pc |-> "sleep", job |-> j]) /\ UNCHANGED store
      BY <1>4 DEF TakePaused
    <2>2. /\ worker'[w] = [pc |-> "sleep", job |-> j]
          /\ \A v \in Workers \ {w} : worker'[v] = worker[v]
      BY <2>1, BecomesFacts DEF SingleInv
    <2>3. AtWorker'
      BY <1>2, <2>2 DEF AtWorker, NoneAtWork, Working
    <2>4. \A k \in Jobs : Handed(k)' => k = j
      BY <1>2, <2>2 DEF Handed, Has, Asleep, NoneAtWork, Working
    <2>5. Waits(j)'
      BY <1>1, <1>2, <2>1 DEF Waits, RowWaits, Exists
    <2>6. CallsWait' /\ BootFirst' /\ RunIsRunning'
      BY <1>2, <2>2 DEF CallsWait, BootFirst, RunIsRunning, NoneAtWork, Working
    <2>7. MaxFaults = 0 => RunningIsWorked'
      BY <1>2, <2>1, NoneRunning DEF RunningIsWorked, InState, Exists
    <2>8. \A v \in Workers, k \in Jobs : ~Starts(v, k)
      BY <1>2, <2>2 DEF Starts, NoneAtWork, Working
    <2>9. SingleInv'
      BY <1>1, <1>2, <2>3, <2>4, <2>5, <2>6, <2>7 DEF SingleInv, OneFlight
    <2> QED BY <1>3, <2>1, <2>8, <2>9
  <1>5. ASSUME NEW st \in States \ {"RUNNING"}, store' = SetState(j, st), Asks(w, Tail(asyncQ)), ~NoLeak
        PROVE  SingleInv' /\ (~MayCancel => FinalKept) /\ \A v \in Workers, k \in Jobs : ~Starts(v, k)
    <2>1. PICK s \in {Idle, More} : Becomes(w, s)
      BY <1>5 DEF Asks
    <2>2. /\ \A k \in Jobs \ {j} : store'[k] = store[k]
          /\ ~InState(j, "RUNNING")'
      BY <1>2, <1>5, SetStateEffects DEF InState, Exists
    <2>3. MaxFaults = 0 => RunningIsWorked'
      BY <1>2, <2>2, NoneRunning DEF RunningIsWorked, InState, Exists
    <2>4. SingleInv' /\ \A v \in Workers, k \in Jobs : ~Starts(v, k)
      BY <1>1, <1>2, <1>5, <2>1, <2>3, GoneSingle DEF NoneAtWork
    <2> QED BY <1>3, <2>2, <2>4
  <1>6. CASE TakeDenied(w, j)
    <2>1. store' = SetState(j, "QUEUED") /\ Asks(w, Tail(asyncQ)) /\ Denied(j)
      BY <1>6 DEF TakeDenied
    <2>2. ASSUME NoLeak PROVE FALSE
      <3>1. RunningOf(OwnerOf[j]) = {}
        BY <1>2, <2>2, NoneRunning DEF NoLeak, RunningOf
      <3>2. Cardinality(RunningOf(OwnerOf[j])) = 0
        BY <3>1, FS_EmptySet
      <3> QED BY <2>1, <3>2, LocalQueueAssumption DEF Denied
    <2> QED BY <1>5, <2>1, <2>2 DEF States
  <1>7. CASE TakeNothing(w, j)
    <2>1. store' = SetState(j, "CANCELED") /\ Asks(w, Tail(asyncQ)) /\ (~Exists(j) \/ j \in canceled)
      BY <1>7 DEF TakeNothing, WasCanceled
    <2>2. ASSUME NoLeak PROVE FALSE
      BY <1>2, <2>1, <2>2 DEF NoLeak, SingleInv, Waits
    <2> QED BY <1>5, <2>1, <2>2 DEF States
  <1>8. CASE Start(w, j) \/ StartFails(w, j)
    <2>1. /\ Exists(j) /\ ~InState(j, "PAUSED") /\ j \notin canceled
          /\ store' = store \/ store' = [store EXCEPT ![j] = Started(store[j])]
      BY <1>8 DEF Start, StartFails, Startable, WasCanceled
    <2>2. InState(j, "QUEUED")
      BY <1>2, <2>1 DEF Waits, RowWaits, InState, Exists
    <2>3. store[j] \in Row
      BY <1>2, <2>1 DEF Stores, Exists
    <2>4. Started(store[j]) \in Row /\ Started(store[j]).st = "RUNNING"
      BY <2>3, RowFacts
    <2>5. \A k \in Jobs \ {j} : store'[k] = store[k]
      BY <1>2, <2>1 DEF Stores
    <2>6. CASE StartFails(w, j)
      <3>1. Becomes(w, Dead) /\ MaxFaults # 0
        BY <2>6, LocalQueueAssumption DEF StartFails, SingleInv, LQInv, LQTypeOK
      <3>2. SingleInv' /\ \A v \in Workers, k \in Jobs : ~Starts(v, k)
        BY <1>1, <1>2, <3>1, GoneSingle DEF NoneAtWork, NoLeak
      <3> QED BY <1>3, <2>5, <3>2
    <2>7. CASE Start(w, j)
      <3> DEFINE s == [pc |-> "run", job |-> j, mode |-> store[j].mode,
                       two |-> TwoPass(store[j]), phase |-> PhaseOf(store[j])]
      <3>1. Becomes(w, s) /\ store' = [store EXCEPT ![j] = Started(store[j])]
        BY <2>7 DEF Start
      <3>2. s.pc = "run" /\ s.job = j
        OBVIOUS
      <3> HIDE DEF s
      <3>3. worker'[w] = s /\ \A v \in Workers \ {w} : worker'[v] = worker[v]
        BY <3>1, BecomesFacts DEF SingleInv
      <3>4. AtWorker' /\ \A k \in Jobs : ~Handed(k)'
        BY <1>2, <3>2, <3>3 DEF AtWorker, NoneAtWork, Working, Handed, Has, Asleep
      <3>5. InState(j, "RUNNING")'
        BY <1>2, <2>4, <3>1, NoRecAssumption DEF Stores, InState, Exists
      <3>6. \A v \in Workers : worker'[v].pc = "run" => v = w
        BY <1>2, <3>3 DEF NoneAtWork, Working
      <3>7. CallsWait' /\ BootFirst' /\ RunIsRunning'
        BY <1>2, <3>2, <3>3, <3>5, <3>6 DEF CallsWait, BootFirst, RunIsRunning, InState, Exists
      <3>8. MaxFaults = 0 => RunningIsWorked'
        BY <1>2, <2>5, <3>2, <3>3, NoneRunning DEF RunningIsWorked, InState, Exists
      <3>9. \A v \in Workers, k \in Jobs : Starts(v, k) => InState(k, "QUEUED")
        BY <2>2, <3>2, <3>3, <3>6 DEF Starts
      <3>10. SingleInv'
        BY <1>1, <1>2, <3>4, <3>7, <3>8 DEF SingleInv, OneFlight
      <3> QED BY <1>3, <2>5, <3>9, <3>10
    <2> QED BY <1>8, <2>6, <2>7
  <1> QED BY <1>4, <1>5, <1>6, <1>7, <1>8

\* The worker with the token: nothing else of the job is anywhere.
LEMMA WorkingOne ==
  ASSUME SingleInv, NEW w \in Workers, Working(w)
  PROVE  /\ \A v \in Workers \ {w} : ~Working(v)
         /\ calls = <<>> /\ asyncQ = <<>> /\ dpc = "none" /\ activeGlobal = 1 /\ boot = {}
         /\ store \in Stores /\ worker[w].job \in Jobs
  <1>1. /\ \A v \in Workers \ {w} : ~Working(v)
        /\ calls = <<>> /\ asyncQ = <<>> /\ dpc = "none" /\ activeGlobal = 1
    BY DEF SingleInv, OneFlight, Nowhere, AtDispatcher, InCall, InQueue, AtWorker, NoneAtWork
  <1>2. boot = {}
    BY DEF SingleInv, BootFirst, Working
  <1> QED BY <1>1, <1>2, BusyFacts DEF Working, SingleInv

LEMMA EndSingle ==
  ASSUME SingleInv, LQInv', NEW w \in Workers, Wake(w) \/ End(w) \/ Finish(w)
  PROVE  SingleInv' /\ FinalKept /\ \A v \in Workers, k \in Jobs : ~Starts(v, k)
  <1>0. Working(w) /\ UNCHANGED <<calls, dpc, snap, boot, canceled>>
    BY DEF Wake, End, EndPass1, EndPass2Early, EndDone, EndFail, EndRun, InRun, Finish, Returns,
           Outside, Working
  <1>1. PICK j \in Jobs : j = worker[w].job
    BY <1>0, WorkingOne
  <1>2. /\ \A v \in Workers \ {w} : ~Working(v)
        /\ calls = <<>> /\ asyncQ = <<>> /\ dpc = "none" /\ activeGlobal = 1 /\ boot = {}
        /\ store \in Stores /\ SchedTypeOK
    BY <1>0, WorkingOne DEF SingleInv, LQInv, LQTypeOK
  <1>3. CASE Wake(w)
    <2>1. /\ Becomes(w, More) /\ asyncQ' = Append(asyncQ, j) /\ UNCHANGED <<schedVars, store>>
          /\ worker[w].pc = "sleep"
      BY <1>1, <1>3 DEF Wake
    <2>2. worker'[w] = More /\ \A v \in Workers \ {w} : worker'[v] = worker[v]
      BY <2>1, BecomesFacts DEF SingleInv
    <2>3. asyncQ' = <<j>> /\ Len(asyncQ') = 1 /\ \A i \in DOMAIN asyncQ' : asyncQ'[i] = j
      BY <1>2, <2>1
    <2>4. NoneAtWork'
      BY <1>2, <2>2 DEF NoneAtWork, Working, More
    <2>5. InQueue' /\ activeGlobal' = 1 /\ \A k \in Jobs : Handed(k)' => k = j
      BY <1>0, <1>2, <2>1, <2>3, <2>4 DEF InQueue, Handed, Has, Asleep, NoneAtWork, Working, schedVars
    <2>6. Waits(j)
      BY <1>1, <2>1 DEF SingleInv, Handed, Asleep
    <2>7. Waits(j)'
      BY <1>0, <2>1, <2>6 DEF Waits, RowWaits, Exists
    <2>8. /\ CallsWait' /\ BootFirst' /\ RunIsRunning'
          /\ \A v \in Workers, k \in Jobs : ~Starts(v, k)
      BY <1>0, <1>2, <2>4 DEF CallsWait, BootFirst, RunIsRunning, NoneAtWork, Working, Starts
    <2>9. MaxFaults = 0 => RunningIsWorked'
      <3> SUFFICES ASSUME MaxFaults = 0, NEW k \in Jobs, InState(k, "RUNNING") PROVE FALSE
        BY <2>1 DEF RunningIsWorked, InState, Exists
      <3> QED BY <1>2, <2>1 DEF SingleInv, RunningIsWorked, Working
    <2>10. SingleInv'
      BY <1>0, <2>5, <2>7, <2>8, <2>9 DEF SingleInv, OneFlight
    <2>11. FinalKept
      BY <2>1 DEF FinalKept, InState, Exists
    <2> QED BY <2>8, <2>10, <2>11
  \* A run ends: the row of j was RUNNING and leaves that state.
  <1>4. ASSUME NEW s, Becomes(w, s), s.pc \in {"final", "notify"}, worker[w].pc = "run",
               asyncQ' = asyncQ, activeGlobal' = activeGlobal,
               \A k \in Jobs \ {j} : Same(k), ~InState(j, "RUNNING")'
        PROVE  SingleInv' /\ FinalKept /\ \A v \in Workers, k \in Jobs : ~Starts(v, k)
    <2>1. worker'[w] = s /\ \A v \in Workers \ {w} : worker'[v] = worker[v]
      BY <1>4, BecomesFacts DEF SingleInv
    <2>2. AtWorker' /\ \A k \in Jobs : ~Handed(k)'
      BY <1>0, <1>2, <1>4, <2>1 DEF AtWorker, Handed, Has, Asleep, Working
    <2>3. /\ CallsWait' /\ BootFirst' /\ RunIsRunning'
          /\ \A v \in Workers, k \in Jobs : ~Starts(v, k)
      BY <1>0, <1>2, <1>4, <2>1 DEF CallsWait, BootFirst, RunIsRunning, Working, Starts
    <2>4. InState(j, "RUNNING")
      BY <1>1, <1>4 DEF SingleInv, RunIsRunning
    <2>5. FinalKept
      BY <1>4, <2>4 DEF FinalKept, InState, Same, Exists, Final
    <2>6. MaxFaults = 0 => RunningIsWorked'
      <3> SUFFICES ASSUME MaxFaults = 0, NEW k \in Jobs \ {j}, InState(k, "RUNNING")' PROVE FALSE
        BY <1>4 DEF RunningIsWorked
      <3>1. InState(k, "RUNNING")
        BY <1>4 DEF InState, Same, Exists
      <3> QED BY <1>1, <1>2, <3>1 DEF SingleInv, RunningIsWorked, Working
    <2>7. SingleInv'
      BY <1>0, <1>2, <1>4, <2>2, <2>3, <2>6 DEF SingleInv, OneFlight
    <2> QED BY <2>3, <2>5, <2>7
  <1>5. CASE EndPass1(w)
    <2> DEFINE s == [pc |-> "final", job |-> j, ok |-> FALSE]
               t == [store EXCEPT ![j] = AfterPass1(store[j])]
    <2>1. /\ t \in Stores /\ store[j] \in Row /\ Resubmit(t, j, worker[w].mode, 120)
          /\ worker[w].mode \in Modes /\ 120 \in Priorities
          /\ Becomes(w, s) /\ UNCHANGED asyncQ
      BY <1>1, <1>5, EndPass1Effects DEF SingleInv
    <2>2. AfterPass1(store[j]) \in Row /\ AfterPass1(store[j]).st = "QUEUED"
      BY <2>1, RowFacts
    <2>3. t[j].st = "QUEUED" /\ t[j] # NoRec /\ \A k \in Jobs \ {j} : t[k] = store[k]
      BY <1>2, <2>2, NoRecAssumption DEF Stores
    <2>4. worker[w].pc = "run" /\ s.pc = "final"
      BY <1>5 DEF EndPass1, InRun
    <2> HIDE DEF s, t
    <2>5. /\ UNCHANGED slotVars
          /\ \A k \in Jobs : /\ store'[k] = NoRec <=> t[k] = NoRec
                             /\ t[k] # NoRec => store'[k].st = t[k].st
      BY <1>2, <2>1, EnterEffects DEF Resubmit
    <2>6. (\A k \in Jobs \ {j} : Same(k)) /\ ~InState(j, "RUNNING")'
      BY <2>3, <2>5 DEF Same, InState, Exists
    <2> QED BY <1>4, <2>1, <2>4, <2>5, <2>6 DEF slotVars
  <1>6. ASSUME NEW st \in {"DONE", "FAILED"}, NEW pc \in {"final", "notify"}, NEW ok \in BOOLEAN,
               InRun(w), store' = SetState(j, st),
               Becomes(w, [pc |-> pc, job |-> j, ok |-> ok]), UNCHANGED <<schedVars, seen>>
        PROVE  SingleInv' /\ FinalKept /\ \A v \in Workers, k \in Jobs : ~Starts(v, k)
    <2> DEFINE s == [pc |-> pc, job |-> j, ok |-> ok]
    <2>1. s.pc \in {"final", "notify"} /\ Becomes(w, s)
      BY <1>6
    <2>2. (\A k \in Jobs \ {j} : Same(k)) /\ ~InState(j, "RUNNING")'
      BY <1>2, <1>6, SetStateEffects DEF States, Same, InState, Exists
    <2>3. worker[w].pc = "run" /\ asyncQ' = asyncQ /\ activeGlobal' = activeGlobal
      BY <1>6 DEF InRun, schedVars
    <2> HIDE DEF s
    <2> QED BY <1>4, <2>1, <2>2, <2>3
  <1>7. CASE EndPass2Early(w)
    BY <1>1, <1>6, <1>7 DEF EndPass2Early
  <1>8. CASE EndDone(w) \/ EndFail(w)
    <2>1. \E st \in {"DONE", "FAILED"} : EndRun(w, st)
      BY <1>8 DEF EndDone, EndFail
    <2>2. PICK st \in {"DONE", "FAILED"} : EndRun(w, st)
      BY <2>1
    <2>3. PICK pc \in {"final", "notify"}, ok \in BOOLEAN :
             Becomes(w, [pc |-> pc, job |-> j, ok |-> ok])
      BY <1>1, <2>2 DEF EndRun
    <2> QED BY <1>1, <1>6, <2>2, <2>3 DEF EndRun
  <1>9. CASE Finish(w)
    <2>1. /\ ReleaseSlot(j) /\ Asks(w, asyncQ) /\ asyncQ' = asyncQ /\ worker[w].pc # "run"
          /\ store' = store \/ (Exists(j) /\ store' = [store EXCEPT ![j] = Cleared(store[j])])
      BY <1>1, <1>9 DEF Finish, Returns
    <2>2. activeGlobal' = 0
      BY <1>2, <2>1 DEF ReleaseSlot, AtLeast0
    <2>3. PICK s \in {Idle, More} : Becomes(w, s)
      BY <2>1 DEF Asks
    <2>4. \A k \in Jobs : Same(k)
      <3>1. CASE store' = store
        BY <3>1 DEF Same, Exists
      <3>2. CASE Exists(j) /\ store' = [store EXCEPT ![j] = Cleared(store[j])]
        <4>1. store[j] \in Row
          BY <1>2, <3>2 DEF Exists, Stores
        <4>2. Cleared(store[j]) \in Row /\ Cleared(store[j]).st = store[j].st
          BY <4>1, RowFacts
        <4> QED BY <1>2, <3>2, <4>2, NoRecAssumption DEF Stores, Same, Exists
      <3> QED BY <2>1, <3>1, <3>2
    <2>5. MaxFaults = 0 => RunningIsWorked'
      <3> SUFFICES ASSUME MaxFaults = 0, NEW k \in Jobs, InState(k, "RUNNING")' PROVE FALSE
        BY DEF RunningIsWorked
      <3>1. InState(k, "RUNNING")
        BY <2>4 DEF InState, Same, Exists
      <3> QED BY <1>2, <2>1, <3>1 DEF SingleInv, RunningIsWorked, Working
    <2>6. SingleInv' /\ \A v \in Workers, k \in Jobs : ~Starts(v, k)
      BY <1>0, <1>2, <2>1, <2>2, <2>3, <2>5, GoneSingle
    <2> QED BY <2>4, <2>6 DEF FinalKept, Same, InState
  <1> QED BY <1>3, <1>5, <1>7, <1>8, <1>9 DEF End

LEMMA RestartSingle ==
  ASSUME SingleInv, LQInv', Restart
  PROVE  SingleInv' /\ FinalKept /\ \A v \in Workers, k \in Jobs : ~Starts(v, k)
  <1>1. /\ dpc' = "none" /\ calls' = <<>> /\ asyncQ' = <<>> /\ activeGlobal' = 0 /\ canceled' = {}
        /\ worker' = [v \in Workers |-> Idle] /\ store' = store
        /\ boot' = {j \in Jobs : Unfinished(j)}
    BY DEF Restart
  <1>2. \A v \in Workers : worker'[v].pc = "idle"
    BY <1>1 DEF Idle
  <1>3. NoneAtWork' /\ \A v \in Workers, k \in Jobs : ~Starts(v, k)
    BY <1>2 DEF NoneAtWork, Working, Starts
  <1>4. OneFlight' /\ \A k \in Jobs : ~Handed(k)'
    BY <1>1, <1>3 DEF OneFlight, Nowhere, Handed, Has, Asleep, NoneAtWork, Working
  <1>5. BootFirst'
    BY <1>1, <1>2 DEF BootFirst, Unfinished, InState, Exists
  <1>6. CallsWait' /\ RunIsRunning'
    BY <1>1, <1>2 DEF CallsWait, RunIsRunning
  <1>7. RunningIsWorked'
    BY <1>1 DEF RunningIsWorked, Unfinished, InState, Exists
  <1>8. FinalKept
    BY <1>1 DEF FinalKept, InState, Exists
  <1> QED BY <1>1, <1>3, <1>4, <1>5, <1>6, <1>7, <1>8 DEF SingleInv

LEMMA InitSingle == LQInit => SingleInv
  <1> SUFFICES ASSUME LQInit PROVE SingleInv
    OBVIOUS
  <1>1. /\ dpc = "none" /\ calls = <<>> /\ asyncQ = <<>> /\ activeGlobal = 0 /\ canceled = {}
        /\ boot = {} /\ \A v \in Workers : worker[v].pc = "idle"
        /\ \A j \in Jobs : store[j] = NoRec
    BY DEF LQInit, SchedInit, Idle
  <1>2. NoneAtWork
    BY <1>1 DEF NoneAtWork, Working
  <1>3. OneFlight /\ \A k \in Jobs : ~Handed(k)
    BY <1>1, <1>2 DEF OneFlight, Nowhere, Handed, Has, Asleep, NoneAtWork, Working
  <1>4. CallsWait /\ BootFirst /\ RunIsRunning
    BY <1>1 DEF CallsWait, BootFirst, RunIsRunning
  <1>5. RunningIsWorked
    BY <1>1 DEF RunningIsWorked, InState, Exists
  <1> QED BY <1>1, <1>3, <1>4, <1>5, InitLQInv DEF SingleInv

\* What every step of the queue does while there is one slot.
LEMMA NextSingle ==
  ASSUME MaxGlobal = 1, SingleInv, [LQNext]_lqVars
  PROVE  /\ SingleInv'
         /\ ~MayCancel /\ ops' = ops => FinalKept
         /\ \A v \in Workers, k \in Jobs : Starts(v, k) => InState(k, "QUEUED")
  <1>0. LQInv'
    BY NextLQInv DEF SingleInv
  <1>1. ASSUME UNCHANGED worker, NEW v \in Workers, NEW k \in Jobs PROVE ~Starts(v, k)
    BY <1>1 DEF Starts
  <1>2. CASE UserAction
    BY <1>0, <1>1, <1>2, UserSingle
  <1>3. CASE SchedStep(Ripen) \/ DispatcherStep \/ EnqueueTimeout
    BY <1>0, <1>1, <1>3, DispatcherSingle
  <1>4. CASE RunCall
    BY <1>0, <1>1, <1>4, RunCallSingle
  <1>5. CASE \E j \in Jobs : Scan(j) \/ Recover(j)
    BY <1>0, <1>1, <1>5, ScanSingle
  <1>6. CASE \/ \E w \in Workers : Take(w)
             \/ \E w \in Workers, j \in Jobs : StartFails(w, j)
    BY <1>0, <1>6, TakeSingle DEF Take
  <1>7. CASE \E w \in Workers : Wake(w) \/ End(w) \/ Finish(w)
    BY <1>0, <1>7, EndSingle
  <1>8. CASE Restart
    BY <1>0, <1>8, RestartSingle
  <1>9. CASE UNCHANGED lqVars
    <2>1. /\ UNCHANGED <<calls, asyncQ, worker, dpc, activeGlobal, inHand, snap, boot, canceled>>
          /\ \A k \in Jobs : Same(k)
      BY <1>9 DEF lqVars, schedVars, loopVars, Same, Exists
    <2>2. SingleInv'
      BY <1>0, <2>1, BesideSingle
    <2> QED BY <1>1, <2>1, <2>2 DEF FinalKept, Same, InState
  <1> QED BY <1>2, <1>3, <1>4, <1>5, <1>6, <1>7, <1>8, <1>9 DEF LQNext

LEMMA CountWork ==
  ASSUME SingleInv
  PROVE  InFlight = (IF Nowhere THEN 0 ELSE 1)
  <1> DEFINE W == {w \in Workers : Working(w)}
  <1>1. ASSUME NoneAtWork PROVE Cardinality(W) = 0
    <2>1. W = {}
      BY <1>1 DEF NoneAtWork
    <2> QED BY <2>1, FS_EmptySet
  <1>2. ASSUME AtWorker PROVE Cardinality(W) = 1
    <2>1. PICK w \in Workers : Working(w) /\ \A v \in Workers \ {w} : ~Working(v)
      BY <1>2 DEF AtWorker
    <2>2. W = {w}
      BY <2>1
    <2> QED BY <2>2, FS_Singleton
  <1> HIDE DEF W
  <1>3. InFlight = Len(calls) + Len(asyncQ) + Cardinality(W)
                   + (IF dpc \in {"read", "sync"} THEN 1 ELSE 0)
    BY DEF InFlight, W
  <1>4. Len(<<>>) = 0
    BY EmptySeq
  <1>5. CASE Nowhere
    BY <1>1, <1>3, <1>4, <1>5 DEF Nowhere
  <1>6. CASE AtDispatcher
    BY <1>1, <1>3, <1>4, <1>6 DEF AtDispatcher, Nowhere
  <1>7. CASE InCall
    BY <1>1, <1>3, <1>4, <1>7 DEF InCall, Nowhere
  <1>8. CASE InQueue
    BY <1>1, <1>3, <1>4, <1>8 DEF InQueue, Nowhere
  <1>9. CASE AtWorker
    <2>1. ~Nowhere
      BY <1>9 DEF AtWorker, Nowhere, NoneAtWork
    <2> QED BY <1>2, <1>3, <1>4, <1>9, <2>1 DEF AtWorker
  <1> QED BY <1>5, <1>6, <1>7, <1>8, <1>9 DEF SingleInv, OneFlight

\* "Only one job dispatches at a time when MAX_CONCURRENCY_GLOBAL=1": whatever
\* users, restarts, faults and interleavings do, at most one job is in a
\* coroutine, in the workers' queue or with a worker.  With two slots an enqueue
\* that timed out gives its slot back while its coroutine stays scheduled.
THEOREM OneJobAtATime == MaxGlobal = 1 => (LQSpec => []GlobalCapHolds)
  <1> SUFFICES ASSUME MaxGlobal = 1 PROVE LQSpec => []GlobalCapHolds
    OBVIOUS
  <1>1. SingleInv => GlobalCapHolds
    BY CountWork DEF GlobalCapHolds
  <1>2. SingleInv /\ [LQNext]_lqVars => SingleInv'
    BY NextSingle
  <1> QED BY <1>1, <1>2, InitSingle, PTL DEF LQSpec

\* With one slot only a QUEUED job is started: a record, a coroutine or an id
\* left over from an earlier submission never runs a job that ended.
THEOREM QueuedOnly == MaxGlobal = 1 => (LQSpec => RunsOnlyQueued)
  <1> SUFFICES ASSUME MaxGlobal = 1 PROVE LQSpec => RunsOnlyQueued
    OBVIOUS
  <1>1. SingleInv /\ [LQNext]_lqVars => SingleInv'
    BY NextSingle
  <1>2. SingleInv /\ [LQNext]_lqVars
          => [\A w \in Workers, j \in Jobs : Starts(w, j) => InState(j, "QUEUED")]_lqVars
    BY NextSingle
  <1> QED BY <1>1, <1>2, InitSingle, PTL DEF LQSpec, RunsOnlyQueued

\* With one slot and no cancellation a final state changes only when a user asks
\* for it: restarts, worker faults and deletions included.
THEOREM FinalIsFinal == MaxGlobal = 1 /\ ~MayCancel => (LQSpec => FinalStays)
  <1> SUFFICES ASSUME MaxGlobal = 1, ~MayCancel PROVE LQSpec => FinalStays
    OBVIOUS
  <1>1. SingleInv /\ [LQNext]_lqVars => SingleInv'
    BY NextSingle
  <1>2. SingleInv /\ [LQNext]_lqVars
          => [\A j \in Jobs, s \in Final :
                 InState(j, s) => ops' # ops \/ InState(j, s)']_lqVars
    BY NextSingle DEF FinalKept
  <1> QED BY <1>1, <1>2, InitSingle, PTL DEF LQSpec, FinalStays

\* With one slot no slot is lost as long as users take no job away and no worker
\* dies: through pauses, re-runs, both passes and restarts the counter of the
\* scheduler is the work in flight.  (A canceled or denied job keeps its slot.)
THEOREM NoSlotIsLost == MaxGlobal = 1 /\ NoLeak => (LQSpec => []SlotsMatchWork)
  <1> SUFFICES ASSUME MaxGlobal = 1, NoLeak PROVE LQSpec => []SlotsMatchWork
    OBVIOUS
  <1>1. SingleInv => SlotsMatchWork
    BY CountWork DEF SlotsMatchWork, SingleInv, OneFlight, Nowhere, AtDispatcher, InCall, InQueue,
                     AtWorker, NoneAtWork
  <1>2. SingleInv /\ [LQNext]_lqVars => SingleInv'
    BY NextSingle
  <1> QED BY <1>1, <1>2, InitSingle, PTL DEF LQSpec

-----------------------------------------------------------------------------
\* The limit of jobs RUNNING per owner, for any number of slots.  It counts rows,
\* so it stands and falls with the rows the enqueue coroutines write: they are
\* what the dispatcher read as QUEUED, unless SyncMode read the row again.

CallsFresh == \A i \in DOMAIN calls : calls[i].row.st # "RUNNING"

\* The steps that may make a row RUNNING.
Starting(w, j) == Start(w, j) \/ StartFails(w, j)

NoNewRun == \A k \in Jobs : InState(k, "RUNNING")' => InState(k, "RUNNING")

\* A step that keeps the workers, and keeps states or leaves RUNNING.
LEMMA BesideRuns ==
  ASSUME UNCHANGED worker, \A k \in Jobs : Same(k) \/ ~InState(k, "RUNNING")',
         \A k \in boot \ boot' : ~InState(k, "RUNNING")'
  PROVE  NoNewRun /\ (RunningIsWorked => RunningIsWorked')
  <1>1. NoNewRun
    BY DEF NoNewRun, Same, InState, Exists
  <1>2. ASSUME RunningIsWorked, NEW k \in Jobs, InState(k, "RUNNING")'
        PROVE  k \in boot' \/ \E w \in Workers : worker[w].pc = "run" /\ worker[w].job = k
    <2>1. InState(k, "RUNNING")
      BY <1>1, <1>2 DEF NoNewRun
    <2> QED BY <1>2, <2>1 DEF RunningIsWorked
  <1> QED BY <1>1, <1>2 DEF RunningIsWorked

\* What a handler does to the row of its job, and to the heap: it brings a mode
\* into the queue only with a new job, if there is no backpressure.
UserRow(j) ==
    /\ UNCHANGED <<calls, asyncQ, worker, dpc, snap, boot, inHand>>
    /\ \A k \in Jobs \ {j} : store'[k] = store[k] /\ asked'[k] = asked[k]
    /\ asked'[j] # "none"
    /\ Same(j) \/ ~InState(j, "RUNNING")'
    /\ BpQMax < 0 =>
         \E m \in Modes :
            /\ \/ asked[j] = "none"
               \/ Exists(j) /\ store[j].mode = m
               \/ Heap' \subseteq Heap /\ ~Exists(j)'
            /\ Heap' \subseteq Heap \cup {<<j, m>>}
            /\ Exists(j)' => store'[j].mode = m

LEMMA UserRows ==
  ASSUME LQInv, UserAction
  PROVE  \E j \in Jobs : UserRow(j)
  <1> PICK j \in Jobs :
        \/ \E m \in InModes : SubmitJob(j, m)
        \/ CancelJob(j) \/ AdminCancel(j) \/ DeleteJob(j)
        \/ Pause(j) \/ Resume(j) \/ Rerun(j)
    BY DEF UserAction
  <1>0. /\ SchedTypeOK /\ store \in Stores /\ seen \subseteq Jobs
        /\ 100 \in Priorities /\ 110 \in Priorities /\ InModes \subseteq Modes
        /\ asked \in [Jobs -> {"none", "run", "pause", "cancel"}]
    BY LocalQueueAssumption, SchedulerAssumption DEF LQInv, LQTypeOK, Stores
  <1>1. \E what \in {"run", "pause", "cancel"} : Asking(j, what)
    BY DEF SubmitJob, CancelJob, AdminCancel, DeleteJob, Pause, Resume, Rerun
  <1>2. /\ UNCHANGED <<calls, asyncQ, worker, dpc, snap, boot>>
        /\ asked'[j] # "none" /\ \A k \in Jobs \ {j} : asked'[k] = asked[k]
    BY <1>0, <1>1 DEF Asking
  <1>3. ASSUME NEW s \in Stores, NEW m \in Modes, NEW p \in Priorities,
               Resubmit(s, j, m, p) \/ (store' = s /\ UNCHANGED schedVars),
               s[j] # NoRec, s[j].st = "QUEUED", s[j].mode = m,
               asked[j] = "none" \/ (Exists(j) /\ store[j].mode = m),
               \A k \in Jobs \ {j} : s[k] = store[k]
        PROVE  UserRow(j)
    <2>1. /\ inHand' = inHand
          /\ \A k \in Jobs : /\ store'[k] = NoRec <=> s[k] = NoRec
                             /\ s[k] # NoRec => store'[k].st = s[k].st
      BY <1>0, <1>3, EnterEffects DEF Resubmit, schedVars
    <2>2. \A k \in Jobs \ {j} : store'[k] = s[k]
      BY <1>3 DEF Resubmit, Enter, Stores
    <2>3. ~InState(j, "RUNNING")'
      BY <1>3, <2>1 DEF InState, Exists
    <2>4. ASSUME BpQMax < 0
          PROVE  Heap' \subseteq Heap \cup {<<j, m>>} /\ store' = s
      <3>1. SubmittedMode(m) = m
        BY <2>4, SchedulerAssumption DEF SubmittedMode, Overloaded
      <3>2. CASE Resubmit(s, j, m, p)
        BY <1>0, <1>3, <3>1, <3>2, ResubmitEffects
      <3>3. CASE store' = s /\ UNCHANGED schedVars
        BY <1>0, <3>3, SchedStays
      <3> QED BY <1>3, <3>2, <3>3
    <2>5. BpQMax < 0 =>
            /\ asked[j] = "none" \/ (Exists(j) /\ store[j].mode = m)
            /\ Heap' \subseteq Heap \cup {<<j, m>>}
            /\ Exists(j)' => store'[j].mode = m
      BY <1>3, <2>4
    <2> QED BY <1>2, <1>3, <2>1, <2>2, <2>3, <2>5 DEF UserRow
  \* The handlers that submit nothing.
  <1>4. ASSUME NEW m \in Modes, Heap' \subseteq Heap, inHand' = inHand,
               \A k \in Jobs \ {j} : store'[k] = store[k],
               ~InState(j, "RUNNING")',
               (Exists(j) /\ store[j].mode = m) \/ ~Exists(j)',
               Exists(j)' => store'[j].mode = m
        PROVE  UserRow(j)
    <2>1. Heap' \subseteq Heap \cup {<<j, m>>}
      BY <1>4
    <2> QED BY <1>2, <1>4, <2>1 DEF UserRow
  <1>5. ASSUME NEW st \in {"CANCELED", "PAUSED"}, store' = SetState(j, st), Exists(j),
               Heap' \subseteq Heap, inHand' = inHand
        PROVE  UserRow(j)
    <2>1. store[j].mode \in Modes
      BY <1>0, <1>5, RowFacts DEF Exists, Stores
    <2>2. /\ \A k \in Jobs \ {j} : store'[k] = store[k]
          /\ ~InState(j, "RUNNING")' /\ store'[j].mode = store[j].mode
      BY <1>0, <1>5, SetStateEffects DEF States, InState, Exists
    <2> QED BY <1>4, <1>5, <2>1, <2>2
  <1>6. ASSUME NEW m \in InModes, SubmitJob(j, m) PROVE UserRow(j)
    <2> DEFINE s == [store EXCEPT ![j] = NewRow(m)]
    <2>1. Resubmit(s, j, m, 100) /\ asked[j] = "none"
      BY <1>6 DEF SubmitJob, NewRow
    <2>2. NewRow(m) \in Row /\ NewRow(m).st = "QUEUED" /\ NewRow(m).mode = m
      BY <1>0, RowFacts DEF NewRow
    <2>3. /\ s \in Stores /\ s[j] # NoRec /\ s[j].st = "QUEUED" /\ s[j].mode = m
          /\ \A k \in Jobs \ {j} : s[k] = store[k]
      BY <1>0, <2>2, NoRecAssumption DEF Stores
    <2> HIDE DEF s
    <2> QED BY <1>0, <1>3, <2>1, <2>3
  <1>7. CASE CancelJob(j) \/ Pause(j)
    <2>1. Exists(j) /\ Heap' = Heap /\ inHand' = inHand
      BY <1>0, <1>7, SchedStays DEF CancelJob, Pause, InState
    <2>2. store' = SetState(j, "CANCELED") \/ store' = SetState(j, "PAUSED")
      BY <1>7 DEF CancelJob, Pause
    <2> QED BY <1>5, <2>1, <2>2
  <1>8. CASE AdminCancel(j)
    <2>1. store' = SetState(j, "CANCELED") /\ inHand' = inHand /\ Heap' \subseteq Heap
      BY <1>0, <1>8, DropEffects DEF AdminCancel, Drop
    <2>2. CASE Exists(j)
      BY <1>5, <2>1, <2>2
    <2>3. CASE ~Exists(j)
      <3>1. store' = store
        BY <2>1, <2>3 DEF SetState
      <3>2. ~InState(j, "RUNNING")' /\ ~Exists(j)'
        BY <2>3, <3>1 DEF InState, Exists
      <3>3. "low" \in Modes
        BY DEF Modes
      <3> QED BY <1>4, <2>1, <3>1, <3>2, <3>3
    <2> QED BY <2>2, <2>3
  <1>9. CASE DeleteJob(j)
    <2>1. /\ inHand' = inHand /\ Heap' = Heap /\ store' = [store EXCEPT ![j] = NoRec]
          /\ "low" \in Modes
      BY <1>0, <1>9, SchedStays DEF DeleteJob, Modes
    <2>2. ~Exists(j)' /\ ~InState(j, "RUNNING")' /\ \A k \in Jobs \ {j} : store'[k] = store[k]
      BY <1>0, <2>1 DEF Stores, InState, Exists
    <2> QED BY <1>4, <2>1, <2>2
  <1>10. CASE Resume(j)
    <2> DEFINE s == SetState(j, "QUEUED")
    <2>1. /\ s \in Stores /\ store[j].mode \in Modes /\ s[j] # NoRec /\ s[j].st = "QUEUED"
          /\ s[j].mode = store[j].mode /\ Exists(j) /\ \A k \in Jobs \ {j} : s[k] = store[k]
      BY <1>0, <1>10, SetStateEffects, RowFacts DEF States, Resume, InState, Exists, Stores
    <2>2. Resubmit(s, j, store[j].mode, 100) \/ (store' = s /\ UNCHANGED schedVars)
      BY <1>10 DEF Resume, RequeueOr429
    <2> HIDE DEF s
    <2> QED BY <1>0, <1>3, <2>1, <2>2
  <1>11. CASE Rerun(j)
    <2> DEFINE s == [store EXCEPT ![j].st = "QUEUED", ![j].req = TRUE, ![j].clone = TRUE]
    <2>1. store[j] \in Row /\ Exists(j)
      BY <1>0, <1>11 DEF Rerun, Exists, Stores
    <2>2. s = [store EXCEPT ![j] = Reran(store[j])]
      BY <1>0 DEF Stores, Reran
    <2>3. /\ Reran(store[j]) \in Row /\ Reran(store[j]).st = "QUEUED"
          /\ Reran(store[j]).mode = store[j].mode /\ store[j].mode \in Modes
      BY <2>1, RowFacts
    <2>4. /\ s \in Stores /\ s[j] # NoRec /\ s[j].st = "QUEUED" /\ s[j].mode = store[j].mode
          /\ \A k \in Jobs \ {j} : s[k] = store[k]
      BY <1>0, <2>2, <2>3, NoRecAssumption DEF Stores
    <2>5. Resubmit(s, j, store[j].mode, 110) \/ (store' = s /\ UNCHANGED schedVars)
      BY <1>11 DEF Rerun, RequeueOr429
    <2> HIDE DEF s
    <2> QED BY <1>0, <1>3, <2>1, <2>3, <2>4, <2>5
  <1> QED BY <1>6, <1>7, <1>8, <1>9, <1>10, <1>11

\* A worker's step that starts nothing.
LEMMA WorkerRuns ==
  ASSUME LQInv, NEW w \in Workers, NEW s, Becomes(w, s), boot' = boot,
         \A k \in Jobs : Same(k) \/ ~InState(k, "RUNNING")',
         NEW j \in Jobs, worker[w].pc = "run" => worker[w].job = j /\ ~InState(j, "RUNNING")'
  PROVE  NoNewRun /\ (RunningIsWorked => RunningIsWorked')
  <1>1. \A v \in Workers \ {w} : worker'[v] = worker[v]
    BY BecomesFacts
  <1>2. NoNewRun
    BY DEF NoNewRun, Same, InState, Exists
  <1>3. ASSUME RunningIsWorked, NEW k \in Jobs, InState(k, "RUNNING")'
        PROVE  k \in boot' \/ \E v \in Workers : worker'[v].pc = "run" /\ worker'[v].job = k
    <2>1. InState(k, "RUNNING")
      BY <1>2, <1>3 DEF NoNewRun
    <2>2. CASE k \in boot
      BY <2>2
    <2>3. CASE k \notin boot
      <3>1. PICK v \in Workers : worker[v].pc = "run" /\ worker[v].job = k
        BY <1>3, <2>1, <2>3 DEF RunningIsWorked
      <3>2. v # w
        BY <1>3, <3>1
      <3> QED BY <1>1, <3>1, <3>2
    <2> QED BY <2>2, <2>3
  <1> QED BY <1>2, <1>3 DEF RunningIsWorked

LEMMA LoopRuns ==
  ASSUME LQInv, CallsFresh,
         \/ UserAction \/ SchedStep(Ripen) \/ DispatcherStep \/ EnqueueTimeout \/ RunCall
         \/ \E j \in Jobs : Scan(j) \/ Recover(j)
  PROVE  NoNewRun /\ (RunningIsWorked => RunningIsWorked')
  <1>0. /\ SchedTypeOK /\ store \in Stores /\ (dpc = "none" <=> inHand = NoRec)
        /\ 100 \in Priorities
    BY LocalQueueAssumption DEF LQInv, LQTypeOK, Stores
  <1>1. CASE UserAction
    <2>1. PICK j \in Jobs : UserRow(j)
      BY <1>1, UserRows
    <2>2. \A k \in Jobs : Same(k) \/ ~InState(k, "RUNNING")'
      BY <2>1 DEF UserRow, Same, Exists
    <2> QED BY <2>1, <2>2, BesideRuns DEF UserRow
  <1>2. CASE UNCHANGED store /\ (SchedStep(Ripen) \/ DispatcherStep)
    <2>1. UNCHANGED <<worker, boot>> /\ \A k \in Jobs : Same(k)
      BY <1>2 DEF SchedStep, DispatcherStep, Pop, ReadJob, SyncMode, Elsewhere, loopVars, Same, Exists
    <2> QED BY <2>1, BesideRuns
  <1>3. CASE SyncMode
    <2>1. inHand.job \in Jobs /\ inHand.mode \in Modes /\ UNCHANGED <<worker, boot>>
      BY <1>0, <1>3 DEF SyncMode, SchedTypeOK, Record, Elsewhere
    <2>2. PICK j \in Jobs : j = inHand.job
      BY <2>1
    <2>3. CASE ~Exists(j)
      BY <1>2, <1>3, <2>2, <2>3 DEF SyncMode, DispatcherStep
    <2>4. CASE Exists(j)
      <3> DEFINE r == [store[j] EXCEPT !.mode = inHand.mode]
      <3>1. store[j] \in Row
        BY <1>0, <2>4 DEF Exists, Stores
      <3>2. r \in Row /\ r.st = store[j].st
        BY <2>1, <3>1 DEF Row
      <3>3. store' = [store EXCEPT ![j] = r]
        BY <1>0, <1>3, <2>2, <2>4 DEF SyncMode, Stores
      <3> HIDE DEF r
      <3>4. \A k \in Jobs : Same(k)
        BY <1>0, <2>4, <3>2, <3>3, NoRecAssumption DEF Stores, Same, Exists
      <3> QED BY <2>1, <3>4, BesideRuns
    <2> QED BY <2>3, <2>4
  <1>4. CASE EnqueueTimeout
    <2>1. inHand.job \in Jobs /\ store' = SetState(inHand.job, "FAILED") /\ UNCHANGED <<worker, boot>>
      BY <1>0, <1>4 DEF EnqueueTimeout, SchedTypeOK, Record, Elsewhere
    <2>2. \A k \in Jobs : Same(k) \/ ~InState(k, "RUNNING")'
      BY <1>0, <2>1, SetStateEffects DEF States, Same, InState, Exists
    <2> QED BY <2>1, <2>2, BesideRuns
  <1>5. CASE RunCall
    <2> DEFINE C == [job : Jobs, row : Row]
    <2>1. calls \in Seq(C) /\ calls # <<>> /\ UNCHANGED <<worker, boot>>
      BY <1>5 DEF LQInv, LQTypeOK, RunCall
    <2> HIDE DEF C
    <2>2. Head(calls) \in C /\ Head(calls) = calls[1] /\ 1 \in DOMAIN calls
      BY <2>1
    <2>3. PICK c \in C : c = Head(calls)
      BY <2>2
    <2>4. c.job \in Jobs /\ c.row \in Row /\ c.row.st # "RUNNING"
      BY <2>2, <2>3 DEF C, CallsFresh
    <2>5. store' = [store EXCEPT ![c.job] = c.row]
      BY <1>5, <2>3 DEF RunCall
    <2>6. \A k \in Jobs : Same(k) \/ ~InState(k, "RUNNING")'
      BY <1>0, <2>4, <2>5 DEF Stores, Same, InState, Exists
    <2> QED BY <2>1, <2>6, BesideRuns
  <1>6. CASE \E j \in Jobs : Scan(j) \/ Recover(j)
    <2> PICK j \in Jobs : Scan(j) \/ Recover(j)
      BY <1>6
    <2>1. Exists(j)
      BY DEF Scan, InState, Recover, LQInv
    <2>2. store[j].mode \in Modes /\ SetState(j, "QUEUED") \in Stores
      BY <1>0, <2>1, RowFacts, SetStateEffects DEF Exists, Stores, States
    <2>3. CASE Scan(j)
      <3>1. \A k \in Jobs : /\ store'[k] = NoRec <=> store[k] = NoRec
                            /\ store[k] # NoRec => store'[k].st = store[k].st
        BY <1>0, <2>2, <2>3, EnterEffects DEF Scan
      <3>2. UNCHANGED <<worker, boot>> /\ \A k \in Jobs : Same(k)
        BY <2>3, <3>1 DEF Scan, Same, Exists
      <3> QED BY <3>2, BesideRuns
    <2>4. CASE Recover(j)
      <3> DEFINE t == SetState(j, "QUEUED")
      <3>1. \A k \in Jobs : /\ store'[k] = NoRec <=> t[k] = NoRec
                            /\ t[k] # NoRec => store'[k].st = t[k].st
        BY <1>0, <2>2, <2>4, EnterEffects DEF Recover, Resubmit
      <3>2. t[j].st = "QUEUED" /\ \A k \in Jobs \ {j} : t[k] = store[k]
        BY <1>0, <2>1, SetStateEffects DEF States
      <3> HIDE DEF t
      <3>3. UNCHANGED worker /\ boot' = boot \ {j} /\ ~InState(j, "RUNNING")'
            /\ \A k \in Jobs \ {j} : Same(k)
        BY <2>4, <3>1, <3>2 DEF Recover, Same, InState, Exists
      <3> QED BY <3>3, BesideRuns
    <2> QED BY <2>3, <2>4
  <1> QED BY <1>1, <1>2, <1>3, <1>4, <1>5, <1>6 DEF DispatcherStep, SchedStep, Pop, ReadJob

LEMMA EndRuns ==
  ASSUME LQInv, NEW w \in Workers,
         \/ \E j \in Jobs : TakePaused(w, j) \/ TakeDenied(w, j) \/ TakeNothing(w, j)
         \/ Wake(w) \/ End(w) \/ Finish(w)
  PROVE  NoNewRun /\ (RunningIsWorked => RunningIsWorked')
  <1>0. store \in Stores /\ SchedTypeOK /\ boot' = boot
    BY DEF LQInv, LQTypeOK, Stores, TakePaused, TakeDenied, TakeNothing, Takes, Wake, End, EndPass1,
           EndPass2Early, EndDone, EndFail, EndRun, InRun, Finish, Outside
  <1>1. ASSUME NEW j \in Jobs, TakePaused(w, j) \/ TakeDenied(w, j) \/ TakeNothing(w, j)
        PROVE  NoNewRun /\ (RunningIsWorked => RunningIsWorked')
    <2>1. worker[w].pc # "run" /\ \E s : Becomes(w, s)
      BY <1>1 DEF TakePaused, TakeDenied, TakeNothing, Takes, Asks
    <2>2. \/ store' = store
          \/ store' = SetState(j, "QUEUED") \/ store' = SetState(j, "CANCELED")
      BY <1>1 DEF TakePaused, TakeDenied, TakeNothing
    <2>3. \A k \in Jobs : Same(k) \/ ~InState(k, "RUNNING")'
      BY <1>0, <2>2, SetStateEffects DEF States, Same, InState, Exists
    <2>4. PICK s : Becomes(w, s)
      BY <2>1
    <2> QED BY <1>0, <2>1, <2>3, <2>4, WorkerRuns
  <1>2. CASE Wake(w) \/ End(w) \/ Finish(w)
    <2>1. worker[w].job \in Jobs
      BY <1>2, BusyFacts DEF Wake, End, EndPass1, EndPass2Early, EndDone, EndFail, EndRun, InRun,
                             Finish, Returns
    <2>2. PICK j \in Jobs : j = worker[w].job
      BY <2>1
    <2>3. CASE Wake(w)
      <3>1. worker[w].pc # "run" /\ Becomes(w, More) /\ UNCHANGED store
        BY <2>3 DEF Wake
      <3>2. \A k \in Jobs : Same(k)
        BY <3>1 DEF Same, Exists
      <3> QED BY <1>0, <3>1, <3>2, <2>2, WorkerRuns
    <2>4. CASE EndPass1(w)
      <3> DEFINE s == [pc |-> "final", job |-> j, ok |-> FALSE]
                 t == [store EXCEPT ![j] = AfterPass1(store[j])]
      <3>1. /\ t \in Stores /\ store[j] \in Row /\ Resubmit(t, j, worker[w].mode, 120)
            /\ worker[w].mode \in Modes /\ 120 \in Priorities /\ Becomes(w, s)
        BY <2>2, <2>4, EndPass1Effects
      <3>2. AfterPass1(store[j]) \in Row /\ AfterPass1(store[j]).st = "QUEUED"
        BY <3>1, RowFacts
      <3>3. t[j].st = "QUEUED" /\ t[j] # NoRec /\ \A k \in Jobs \ {j} : t[k] = store[k]
        BY <1>0, <3>2, NoRecAssumption DEF Stores
      <3> HIDE DEF s, t
      <3>4. \A k \in Jobs : /\ store'[k] = NoRec <=> t[k] = NoRec
                            /\ t[k] # NoRec => store'[k].st = t[k].st
        BY <1>0, <3>1, EnterEffects DEF Resubmit
      <3>5. ~InState(j, "RUNNING")' /\ \A k \in Jobs \ {j} : Same(k)
        BY <3>3, <3>4 DEF Same, InState, Exists
      <3> QED BY <1>0, <2>2, <3>1, <3>5, WorkerRuns
    <2>5. ASSUME NEW st \in {"DONE", "FAILED"}, store' = SetState(j, st), NEW s, Becomes(w, s)
          PROVE  NoNewRun /\ (RunningIsWorked => RunningIsWorked')
      <3>1. ~InState(j, "RUNNING")' /\ \A k \in Jobs \ {j} : Same(k)
        BY <1>0, <2>5, SetStateEffects DEF States, Same, InState, Exists
      <3> QED BY <1>0, <2>2, <2>5, <3>1, WorkerRuns
    <2>6. CASE EndPass2Early(w) \/ EndDone(w) \/ EndFail(w)
      <3>1. \E st \in {"DONE", "FAILED"} : store' = SetState(j, st)
        BY <2>2, <2>6 DEF EndPass2Early, EndDone, EndFail, EndRun
      <3>2. \E s : Becomes(w, s)
        BY <2>6 DEF EndPass2Early, EndDone, EndFail, EndRun
      <3> QED BY <2>5, <3>1, <3>2
    <2>7. CASE Finish(w)
      <3>1. /\ worker[w].pc # "run"
            /\ store' = store \/ (Exists(j) /\ store' = [store EXCEPT ![j] = Cleared(store[j])])
        BY <2>2, <2>7 DEF Finish, Returns
      <3>2. PICK s : Becomes(w, s)
        BY <2>7 DEF Finish, Asks
      <3>3. \A k \in Jobs : Same(k)
        <4>1. CASE store' = store
          BY <4>1 DEF Same, Exists
        <4>2. CASE Exists(j) /\ store' = [store EXCEPT ![j] = Cleared(store[j])]
          <5>1. store[j] \in Row
            BY <1>0, <4>2 DEF Exists, Stores
          <5>2. Cleared(store[j]) \in Row /\ Cleared(store[j]).st = store[j].st
            BY <5>1, RowFacts
          <5> QED BY <1>0, <4>2, <5>2, NoRecAssumption DEF Stores, Same, Exists
        <4> QED BY <3>1, <4>1, <4>2
      <3> QED BY <1>0, <3>1, <3>2, <3>3, WorkerRuns
    <2> QED BY <1>2, <2>3, <2>4, <2>6, <2>7 DEF End
  <1> QED BY <1>1, <1>2

\* A start makes one row RUNNING, of a job that was not denied.
LEMMA StartRuns ==
  ASSUME LQInv, NEW w \in Workers, NEW j \in Jobs, Starting(w, j)
  PROVE  /\ ~Denied(j) /\ Exists(j)
         /\ \A k \in Jobs \ {j} : store'[k] = store[k]
         /\ MaxFaults = 0 /\ RunningIsWorked => RunningIsWorked'
  <1>1. /\ Takes(w, j) /\ Startable(j)
        /\ store' = store \/ store' = [store EXCEPT ![j] = Started(store[j])]
    BY DEF Starting, Start, StartFails
  <1>2. store \in Stores /\ boot' = boot /\ worker[w].pc # "run"
    BY <1>1 DEF LQInv, LQTypeOK, Stores, Takes, Outside
  <1>3. \A k \in Jobs \ {j} : store'[k] = store[k]
    BY <1>1, <1>2 DEF Stores
  <1>4. ASSUME MaxFaults = 0, RunningIsWorked PROVE RunningIsWorked'
    <2> DEFINE s == [pc |-> "run", job |-> j, mode |-> store[j].mode,
                     two |-> TwoPass(store[j]), phase |-> PhaseOf(store[j])]
    <2>1. ~StartFails(w, j)
      BY <1>4, LocalQueueAssumption DEF StartFails, LQInv, LQTypeOK
    <2>2. Becomes(w, s)
      BY <2>1 DEF Starting, Start
    <2>3. s.pc = "run" /\ s.job = j
      OBVIOUS
    <2> HIDE DEF s
    <2>4. worker'[w] = s /\ \A v \in Workers \ {w} : worker'[v] = worker[v]
      BY <2>2, BecomesFacts
    <2> SUFFICES ASSUME NEW k \in Jobs, InState(k, "RUNNING")', k # j
                 PROVE  k \in boot' \/ \E v \in Workers : worker'[v].pc = "run" /\ worker'[v].job = k
      BY <2>3, <2>4 DEF RunningIsWorked
    <2>5. InState(k, "RUNNING")
      BY <1>3 DEF InState, Exists
    <2>6. k \in boot \/ \E v \in Workers \ {w} : worker[v].pc = "run" /\ worker[v].job = k
      BY <1>2, <1>4, <2>5 DEF RunningIsWorked
    <2> QED BY <1>2, <2>4, <2>6
  <1> QED BY <1>1, <1>3, <1>4 DEF Startable

LEMMA NextRuns ==
  ASSUME LQInv, CallsFresh, [LQNext]_lqVars
  PROVE  /\ \/ NoNewRun
            \/ \E w \in Workers, j \in Jobs : Starting(w, j)
         /\ MaxFaults = 0 /\ RunningIsWorked => RunningIsWorked'
  <1>1. CASE \/ UserAction \/ SchedStep(Ripen) \/ DispatcherStep \/ EnqueueTimeout \/ RunCall
             \/ \E j \in Jobs : Scan(j) \/ Recover(j)
    BY <1>1, LoopRuns
  <1>2. CASE \E w \in Workers : \/ \E j \in Jobs : TakePaused(w, j) \/ TakeDenied(w, j) \/ TakeNothing(w, j)
                                \/ Wake(w) \/ End(w) \/ Finish(w)
    BY <1>2, EndRuns
  <1>3. CASE \E w \in Workers, j \in Jobs : Starting(w, j)
    BY <1>3, StartRuns
  <1>4. CASE Restart
    <2>1. store' = store /\ boot' = {j \in Jobs : Unfinished(j)}
      BY <1>4 DEF Restart
    <2>2. NoNewRun
      BY <2>1 DEF NoNewRun, InState, Exists
    <2>3. RunningIsWorked'
      BY <2>1 DEF RunningIsWorked, Unfinished, InState, Exists
    <2> QED BY <2>2, <2>3
  <1>5. CASE UNCHANGED lqVars
    <2>1. UNCHANGED <<worker, boot>> /\ \A k \in Jobs : Same(k)
      BY <1>5 DEF lqVars, loopVars, Same, Exists
    <2> QED BY <2>1, BesideRuns
  <1> QED BY <1>1, <1>2, <1>3, <1>4, <1>5 DEF LQNext, Take, Starting

LEMMA NextUserCap ==
  ASSUME IsFiniteSet(Jobs), LQInv, CallsFresh, UserCapHolds, [LQNext]_lqVars
  PROVE  UserCapHolds'
  <1> SUFFICES ASSUME MaxPerUser > 0, NEW i \in Jobs
               PROVE  (Cardinality(RunningOf(OwnerOf[i])) <= MaxPerUser)'
    BY DEF UserCapHolds
  <1> DEFINE R == RunningOf(OwnerOf[i])
             S == {k \in Jobs : InState(k, "RUNNING")' /\ OwnerOf[k] = OwnerOf[i]}
  <1>0. /\ IsFiniteSet(R) /\ IsFiniteSet(S) /\ Cardinality(R) \in Nat /\ Cardinality(S) \in Nat
        /\ Cardinality(R) <= MaxPerUser /\ MaxPerUser \in Nat
    <2>1. IsFiniteSet(R) /\ IsFiniteSet(S)
      BY FS_Subset DEF RunningOf
    <2>2. Cardinality(R) <= MaxPerUser
      BY DEF UserCapHolds
    <2> HIDE DEF R, S
    <2> QED BY <2>1, <2>2, FS_CardinalityType, LocalQueueAssumption
  <1>1. CASE NoNewRun
    <2>1. S \subseteq R
      BY <1>1 DEF NoNewRun, RunningOf
    <2> HIDE DEF R, S
    <2>2. Cardinality(S) <= Cardinality(R)
      BY <1>0, <2>1, FS_Subset
    <2>3. Cardinality(S) <= MaxPerUser
      BY <1>0, <2>2
    <2> QED BY <2>3 DEF S, RunningOf, InState, Exists
  <1>2. CASE \E w \in Workers, j \in Jobs : Starting(w, j)
    <2> PICK w \in Workers, j \in Jobs : Starting(w, j)
      BY <1>2
    <2>1. ~Denied(j) /\ Exists(j) /\ \A k \in Jobs \ {j} : store'[k] = store[k]
      BY StartRuns
    <2>2. S \subseteq R \cup {j}
      BY <2>1 DEF RunningOf, InState, Exists
    <2>3. CASE OwnerOf[j] # OwnerOf[i]
      <3>1. S \subseteq R
        BY <2>1, <2>3 DEF RunningOf, InState, Exists
      <3> HIDE DEF R, S
      <3>2. Cardinality(S) <= Cardinality(R)
        BY <1>0, <3>1, FS_Subset
      <3>3. Cardinality(S) <= MaxPerUser
        BY <1>0, <3>2
      <3> QED BY <3>3 DEF S, RunningOf, InState, Exists
    <2>4. CASE OwnerOf[j] = OwnerOf[i]
      <3>1. ~(Cardinality(R) >= MaxPerUser)
        BY <2>1, <2>4 DEF Denied
      <3> HIDE DEF R, S
      <3>2. Cardinality(R) + 1 <= MaxPerUser
        BY <1>0, <3>1
      <3>3. IsFiniteSet(R \cup {j}) /\ Cardinality(R \cup {j}) <= Cardinality(R) + 1
        <4>1. CASE j \in R
          <5>1. R \cup {j} = R
            BY <4>1
          <5>2. Cardinality(R) <= Cardinality(R) + 1
            BY <1>0
          <5> QED BY <1>0, <5>1, <5>2
        <4>2. CASE j \notin R
          <5>1. /\ IsFiniteSet(R \cup {j})
                /\ Cardinality(R \cup {j}) = IF j \in R THEN Cardinality(R) ELSE Cardinality(R) + 1
            BY <1>0, FS_AddElement, Zenon
          <5>2. Cardinality(R \cup {j}) = Cardinality(R) + 1
            BY <4>2, <5>1
          <5> QED BY <1>0, <5>1, <5>2
        <4> QED BY <4>1, <4>2
      <3>4. Cardinality(S) <= Cardinality(R \cup {j}) /\ Cardinality(R \cup {j}) \in Nat
        BY <2>2, <3>3, FS_Subset, FS_CardinalityType
      <3>5. Cardinality(S) <= MaxPerUser
        BY <1>0, <3>2, <3>3, <3>4
      <3> QED BY <3>5 DEF S, RunningOf, InState, Exists
    <2> QED BY <2>3, <2>4
  <1> QED BY <1>1, <1>2, NextRuns

-----------------------------------------------------------------------------
\* Without backpressure no mode is ever changed: whatever stands for a job, its
\* records, its row, its coroutines and its run, has the mode of its submission.

Moded(j, m) ==
    \/ <<j, m>> \in Heap
    \/ InHand(j) /\ inHand.mode = m
    \/ Exists(j) /\ store[j].mode = m
    \/ \E i \in DOMAIN calls : calls[i].job = j /\ calls[i].row.mode = m
    \/ \E w \in Workers : worker[w].pc = "run" /\ worker[w].job = j /\ worker[w].mode = m

OneMode == \A j \in Jobs, m \in Modes, n \in Modes : Moded(j, m) /\ Moded(j, n) => m = n

ModesInv ==
    /\ LQInv /\ dpc # "sync" /\ CallsFresh /\ OneMode
    /\ \A j \in Jobs, m \in Modes : Moded(j, m) => asked[j] # "none"

\* Every part of the state keeps to the modes there were.
LEMMA ModesStep ==
  ASSUME ModesInv, LQInv', dpc' # "sync", CallsFresh', asked' = asked,
         \A k \in Jobs, m \in Modes : <<k, m>> \in Heap' => Moded(k, m),
         inHand' = inHand \/ inHand' = NoRec \/ Moded(inHand'.job, inHand'.mode),
         \A k \in Jobs : store'[k] # NoRec => Moded(k, store'[k].mode),
         \A i \in DOMAIN calls' : Moded(calls'[i].job, calls'[i].row.mode),
         \A w \in Workers : worker'[w].pc = "run" => Moded(worker'[w].job, worker'[w].mode)
  PROVE  ModesInv'
  <1>1. ASSUME NEW k \in Jobs, NEW m \in Modes, Moded(k, m)' PROVE Moded(k, m)
    <2>1. CASE <<k, m>> \in Heap'
      BY <2>1
    <2>2. CASE InHand(k)' /\ inHand'.mode = m
      BY <2>2 DEF InHand, Moded
    <2>3. CASE store'[k] # NoRec /\ store'[k].mode = m
      BY <2>3
    <2>4. CASE \E i \in DOMAIN calls' : calls'[i].job = k /\ calls'[i].row.mode = m
      BY <2>4
    <2>5. CASE \E w \in Workers : worker'[w].pc = "run" /\ worker'[w].job = k /\ worker'[w].mode = m
      BY <2>5
    <2> QED BY <1>1, <2>1, <2>2, <2>3, <2>4, <2>5 DEF Moded, Exists
  <1> QED BY <1>1 DEF ModesInv, OneMode

\* What is there has the mode that stands for it.
LEMMA ModesThere ==
  ASSUME LQInv
  PROVE  /\ \A k \in Jobs : store[k] # NoRec => Moded(k, store[k].mode)
         /\ \A k \in Jobs, m \in Modes : <<k, m>> \in Heap => Moded(k, m)
         /\ \A i \in DOMAIN calls : Moded(calls[i].job, calls[i].row.mode)
         /\ inHand # NoRec => Moded(inHand.job, inHand.mode)
         /\ \A w \in Workers : worker[w].pc = "run" => Moded(worker[w].job, worker[w].mode)
  BY DEF Moded, Exists, InHand

LEMMA UserModes ==
  ASSUME BpQMax < 0, ModesInv, LQInv', UserAction
  PROVE  ModesInv'
  <1>1. PICK j \in Jobs : UserRow(j)
    BY UserRows DEF ModesInv
  <1>2. PICK m \in Modes :
           /\ \/ asked[j] = "none"
              \/ Exists(j) /\ store[j].mode = m
              \/ Heap' \subseteq Heap /\ ~Exists(j)'
           /\ Heap' \subseteq Heap \cup {<<j, m>>}
           /\ Exists(j)' => store'[j].mode = m
    BY <1>1 DEF UserRow
  <1>3. /\ UNCHANGED <<calls, worker, dpc, inHand>> /\ asked'[j] # "none"
        /\ \A k \in Jobs \ {j} : store'[k] = store[k] /\ asked'[k] = asked[k]
    BY <1>1 DEF UserRow
  <1>4. ASSUME NEW k \in Jobs, NEW n \in Modes, Moded(k, n)'
        PROVE  Moded(k, n) \/ (k = j /\ n = m /\ (asked[j] = "none" \/ Moded(j, m)))
    <2>1. CASE <<k, n>> \in Heap' \/ (Exists(k)' /\ store'[k].mode = n)
      <3>1. CASE <<k, n>> \in Heap
        BY <3>1 DEF Moded
      <3>2. CASE k # j
        BY <1>2, <1>3, <2>1, <3>2 DEF Moded, Exists
      <3>3. CASE k = j /\ <<k, n>> \notin Heap
        <4>1. n = m /\ ~(Heap' \subseteq Heap /\ ~Exists(j)')
          BY <1>2, <2>1, <3>3
        <4> QED BY <1>2, <3>3, <4>1 DEF Moded
      <3> QED BY <3>1, <3>2, <3>3
    <2>2. CASE \/ InHand(k)' /\ inHand'.mode = n
               \/ \E i \in DOMAIN calls' : calls'[i].job = k /\ calls'[i].row.mode = n
               \/ \E w \in Workers : worker'[w].pc = "run" /\ worker'[w].job = k /\ worker'[w].mode = n
      BY <1>3, <2>2 DEF Moded, InHand
    <2> QED BY <1>4, <2>1, <2>2 DEF Moded
  <1>5. OneMode'
    BY <1>4 DEF ModesInv, OneMode
  <1>6. \A k \in Jobs, n \in Modes : Moded(k, n)' => asked'[k] # "none"
    BY <1>3, <1>4 DEF ModesInv
  <1>7. CallsFresh'
    BY <1>3 DEF ModesInv, CallsFresh
  <1> QED BY <1>3, <1>5, <1>6, <1>7 DEF ModesInv

LEMMA DispatcherModes ==
  ASSUME ModesInv, LQInv', SchedStep(Ripen) \/ DispatcherStep \/ EnqueueTimeout
  PROVE  ModesInv'
  <1>0. /\ SchedTypeOK /\ store \in Stores /\ (dpc = "none" <=> inHand = NoRec)
        /\ dpc # "sync" /\ LQInv /\ CallsFresh
    BY DEF ModesInv, LQInv, LQTypeOK, Stores
  <1>1. CASE SchedStep(Ripen) \/ SchedStep(Defer)
    <2>1. Heap' = Heap /\ inHand' = inHand /\ UNCHANGED <<store, calls, worker, dpc, asked>>
      BY <1>0, <1>1, RipenEffects, DeferEffects DEF SchedStep, Ripen, Defer, loopVars
    <2> QED BY <1>0, <2>1, ModesStep, ModesThere DEF CallsFresh
  <1>2. CASE Pop
    <2>1. /\ inHand' \in Record /\ Heap = Heap' \cup {Pair(inHand')}
          /\ UNCHANGED <<store, calls, worker, asked>> /\ dpc' = "read"
      BY <1>0, <1>2, DispatchEffects DEF Pop, Elsewhere
    <2>2. Moded(inHand'.job, inHand'.mode)
      BY <2>1 DEF Moded, Pair
    <2> QED BY <1>0, <2>1, <2>2, ModesStep, ModesThere DEF CallsFresh
  <1>3. CASE ReadJob
    <2>1. inHand # NoRec /\ inHand \in Record /\ UNCHANGED <<store, worker, asked>>
      BY <1>0, <1>3 DEF ReadJob, SchedTypeOK, Elsewhere
    <2>2. inHand.job \in Jobs /\ inHand.mode \in Modes
      BY <2>1 DEF Record
    <2>3. CASE GiveBack /\ dpc' = "none" /\ UNCHANGED calls
      <3>1. Heap' = Heap /\ inHand' = NoRec
        BY <2>3 DEF GiveBack, heapVars, Heap
      <3> QED BY <1>0, <2>1, <2>3, <3>1, ModesStep, ModesThere DEF CallsFresh
    <2>4. CASE Enqueuable(inHand.job) /\ UNCHANGED schedVars
      <3>1. /\ Exists(inHand.job) /\ store[inHand.job] \in Row
            /\ store[inHand.job].mode \in Modes /\ store[inHand.job].st = "QUEUED"
        BY <1>0, <2>2, <2>4, RowFacts DEF Enqueuable, InState, Exists, Stores
      <3>2. Moded(inHand.job, inHand.mode) /\ Moded(inHand.job, store[inHand.job].mode)
        BY <1>0, <2>1, <2>2, <3>1, ModesThere DEF Exists
      <3>3. inHand.mode = store[inHand.job].mode
        BY <2>2, <3>1, <3>2 DEF ModesInv, OneMode
      <3> DEFINE C == [job : Jobs, row : Row]
                 c == [job |-> inHand.job, row |-> store[inHand.job]]
      <3>4. calls' = Append(calls, c) /\ dpc' = "wait"
        BY <1>3, <2>4, <3>3 DEF ReadJob, Call
      <3>5. /\ c \in C /\ calls \in Seq(C) /\ Moded(c.job, c.row.mode) /\ c.row.st = "QUEUED"
        BY <1>0, <2>2, <3>1, <3>2 DEF LQInv, LQTypeOK
      <3> HIDE DEF c, C
      <3>6. \A i \in DOMAIN calls' : calls'[i] = c \/ (i \in DOMAIN calls /\ calls'[i] = calls[i])
        <4>1. /\ DOMAIN Append(calls, c) = 1 .. Len(calls) + 1 /\ DOMAIN calls = 1 .. Len(calls)
              /\ Len(calls) \in Nat /\ Append(calls, c)[Len(calls) + 1] = c
              /\ \A i \in 1 .. Len(calls) : Append(calls, c)[i] = calls[i]
          BY <3>5
        <4> DEFINE t == Append(calls, c)
        <4> HIDE DEF t
        <4>2. \A i \in DOMAIN t : i = Len(calls) + 1 \/ i \in DOMAIN calls
          BY <4>1 DEF t
        <4> QED BY <3>4, <4>1, <4>2 DEF t
      <3>7. CallsFresh' /\ \A i \in DOMAIN calls' : Moded(calls'[i].job, calls'[i].row.mode)
        BY <1>0, <3>5, <3>6, ModesThere DEF CallsFresh
      <3>8. Heap' = Heap /\ inHand' = inHand
        BY <1>0, <2>4, SchedStays
      <3> QED BY <1>0, <2>1, <3>4, <3>7, <3>8, ModesStep, ModesThere
    <2> QED BY <1>3, <2>3, <2>4 DEF ReadJob
  <1>4. CASE EnqueueTimeout
    <2>1. /\ inHand.job \in Jobs /\ store' = SetState(inHand.job, "FAILED") /\ dpc' = "none"
          /\ Heap' = Heap /\ inHand' = NoRec /\ UNCHANGED <<calls, worker, asked>>
      BY <1>0, <1>4 DEF EnqueueTimeout, SchedTypeOK, Record, Elsewhere, GiveBack, heapVars, Heap
    <2>2. \A k \in Jobs : store'[k] # NoRec => store[k] # NoRec /\ store'[k].mode = store[k].mode
      BY <1>0, <2>1, SetStateEffects DEF States, Exists
    <2>3. \A k \in Jobs : store'[k] # NoRec => Moded(k, store'[k].mode)
      BY <1>0, <2>2, ModesThere
    <2> QED BY <1>0, <2>1, <2>3, ModesStep, ModesThere DEF CallsFresh
  <1> QED BY <1>0, <1>1, <1>2, <1>3, <1>4 DEF DispatcherStep, SyncMode

LEMMA LoopModes ==
  ASSUME BpQMax < 0, ModesInv, LQInv', RunCall \/ \E j \in Jobs : Scan(j) \/ Recover(j)
  PROVE  ModesInv'
  <1>0. SchedTypeOK /\ store \in Stores /\ LQInv /\ CallsFresh /\ dpc # "sync" /\ 100 \in Priorities
    BY LocalQueueAssumption DEF ModesInv, LQInv, LQTypeOK, Stores
  <1>1. CASE RunCall
    <2> DEFINE C == [job : Jobs, row : Row]
    <2>1. calls \in Seq(C) /\ calls # <<>> /\ UNCHANGED <<worker, asked>> /\ calls' = Tail(calls)
      BY <1>0, <1>1 DEF LQInv, LQTypeOK, RunCall
    <2> HIDE DEF C
    <2>2. /\ Head(calls) \in C /\ Head(calls) = calls[1] /\ 1 \in DOMAIN calls
          /\ \A i \in DOMAIN calls' : i + 1 \in DOMAIN calls /\ calls'[i] = calls[i + 1]
      BY <2>1
    <2>3. PICK c \in C : c = Head(calls)
      BY <2>2
    <2>4. c.job \in Jobs /\ c.row \in Row /\ Moded(c.job, c.row.mode)
      BY <1>0, <2>2, <2>3, ModesThere DEF C
    <2>5. store' = [store EXCEPT ![c.job] = c.row]
      BY <1>1, <2>3 DEF RunCall
    <2>6. \A k \in Jobs : store'[k] # NoRec => Moded(k, store'[k].mode)
      BY <1>0, <2>4, <2>5, ModesThere DEF Stores
    <2>7. CallsFresh' /\ \A i \in DOMAIN calls' : Moded(calls'[i].job, calls'[i].row.mode)
      BY <1>0, <2>2, ModesThere DEF CallsFresh
    <2>8. /\ Heap' = Heap /\ (inHand' = inHand \/ inHand' = NoRec) /\ dpc' # "sync"
      BY <1>0, <1>1 DEF RunCall, HandOver, schedVars, heapVars, Heap
    <2> QED BY <1>0, <2>1, <2>6, <2>7, <2>8, ModesStep, ModesThere
  <1>2. CASE \E j \in Jobs : Scan(j) \/ Recover(j)
    <2> PICK j \in Jobs : Scan(j) \/ Recover(j)
      BY <1>2
    <2>1. Exists(j)
      BY <1>0 DEF Scan, InState, Recover, LQInv
    <2>2. store[j].mode \in Modes /\ SetState(j, "QUEUED") \in Stores
      BY <1>0, <2>1, RowFacts, SetStateEffects DEF Exists, Stores, States
    <2>3. PICK m \in Modes : m = store[j].mode
      BY <2>2
    <2>4. SubmittedMode(m) = m
      BY SchedulerAssumption DEF SubmittedMode, Overloaded
    <2>5. \E s \in Stores : Enter(s, j, m, 100) /\ (s = store \/ s = SetState(j, "QUEUED"))
      BY <1>0, <2>2, <2>3 DEF Scan, Recover, Resubmit
    <2>6. PICK s \in Stores : Enter(s, j, m, 100) /\ (s = store \/ s = SetState(j, "QUEUED"))
      BY <2>5
    <2>7. Heap' = Heap \cup {<<j, m>>} /\ inHand' = inHand /\ store' = s
      BY <1>0, <2>4, <2>6, EnterEffects
    <2>8. UNCHANGED <<calls, worker, dpc, asked>>
      BY DEF Scan, Recover
    <2>9. \A k \in Jobs : store'[k] # NoRec => store[k] # NoRec /\ store'[k].mode = store[k].mode
      BY <1>0, <2>1, <2>6, <2>7, SetStateEffects DEF States, Exists
    <2>10. \A k \in Jobs : store'[k] # NoRec => Moded(k, store'[k].mode)
      BY <1>0, <2>9, ModesThere
    <2>11. \A k \in Jobs, n \in Modes : <<k, n>> \in Heap' => Moded(k, n)
      <3>1. Moded(j, m)
        BY <1>0, <2>1, <2>3, ModesThere DEF Exists
      <3> QED BY <1>0, <2>7, <3>1, ModesThere
    <2> QED BY <1>0, <2>7, <2>8, <2>10, <2>11, ModesStep, ModesThere DEF CallsFresh
  <1> QED BY <1>1, <1>2

\* A worker's step: rows keep their modes, the heap at most gets the mode of its
\* run, and a run has the mode of its row.
LEMMA WorkerModes ==
  ASSUME ModesInv, LQInv', NEW w \in Workers, NEW s, Becomes(w, s),
         s.pc = "run" => s.job \in Jobs /\ Exists(s.job) /\ s.mode = store[s.job].mode,
         UNCHANGED <<calls, dpc, asked, inHand>>,
         \A k \in Jobs : store'[k] # NoRec => store[k] # NoRec /\ store'[k].mode = store[k].mode,
         \/ Heap' = Heap
         \/ worker[w].pc = "run" /\ Heap' = Heap \cup {<<worker[w].job, worker[w].mode>>}
  PROVE  ModesInv'
  <1>0. LQInv /\ CallsFresh /\ dpc # "sync"
    BY DEF ModesInv
  <1>1. worker'[w] = s /\ \A v \in Workers \ {w} : worker'[v] = worker[v]
    BY <1>0, BecomesFacts
  <1>2. \A v \in Workers : worker'[v].pc = "run" => Moded(worker'[v].job, worker'[v].mode)
    BY <1>0, <1>1, ModesThere DEF Exists
  <1>3. \A k \in Jobs : store'[k] # NoRec => Moded(k, store'[k].mode)
    BY <1>0, ModesThere
  <1>4. \A k \in Jobs, n \in Modes : <<k, n>> \in Heap' => Moded(k, n)
    BY <1>0, ModesThere
  <1> QED BY <1>0, <1>2, <1>3, <1>4, ModesStep, ModesThere DEF CallsFresh

LEMMA TakeModes ==
  ASSUME ModesInv, LQInv', NEW w \in Workers, NEW j \in Jobs,
         TakePaused(w, j) \/ TakeDenied(w, j) \/ TakeNothing(w, j) \/ Starting(w, j)
  PROVE  ModesInv'
  <1>0. LQInv /\ SchedTypeOK /\ store \in Stores
    BY DEF ModesInv, LQInv, LQTypeOK, Stores
  <1>1. UNCHANGED <<calls, dpc, asked>> /\ inHand' = inHand /\ Heap' = Heap
    BY <1>0, SchedStays DEF TakePaused, TakeDenied, TakeNothing, Starting, Start, StartFails, Takes, Outside
  <1>2. ASSUME NEW s, Becomes(w, s), s.pc # "run",
               \A k \in Jobs : store'[k] # NoRec => store[k] # NoRec /\ store'[k].mode = store[k].mode
        PROVE  ModesInv'
    BY <1>1, <1>2, WorkerModes
  <1>3. CASE TakePaused(w, j) \/ TakeDenied(w, j) \/ TakeNothing(w, j)
    <2>1. \E s : Becomes(w, s) /\ s.pc # "run"
      <3>1. Idle.pc # "run" /\ More.pc # "run"
        BY DEF Idle, More
      <3> QED BY <1>3, <3>1 DEF TakePaused, TakeDenied, TakeNothing, Asks
    <2>2. store' = store \/ store' = SetState(j, "QUEUED") \/ store' = SetState(j, "CANCELED")
      BY <1>3 DEF TakePaused, TakeDenied, TakeNothing
    <2>3. \A k \in Jobs : store'[k] # NoRec => store[k] # NoRec /\ store'[k].mode = store[k].mode
      BY <1>0, <2>2, SetStateEffects DEF States, Exists
    <2> QED BY <1>2, <2>1, <2>3
  <1>4. CASE Starting(w, j)
    <2>1. Exists(j) /\ (store' = store \/ store' = [store EXCEPT ![j] = Started(store[j])])
      BY <1>4 DEF Starting, Start, StartFails, Startable
    <2>2. store[j] \in Row
      BY <1>0, <2>1 DEF Exists, Stores
    <2>3. Started(store[j]) \in Row /\ Started(store[j]).mode = store[j].mode
      BY <2>2, RowFacts
    <2>4. \A k \in Jobs : store'[k] # NoRec => store[k] # NoRec /\ store'[k].mode = store[k].mode
      BY <1>0, <2>1, <2>3 DEF Exists, Stores
    <2>5. CASE StartFails(w, j)
      <3>1. Becomes(w, Dead) /\ Dead.pc # "run"
        BY <2>5 DEF StartFails, Dead
      <3> QED BY <1>2, <2>4, <3>1
    <2>6. CASE Start(w, j)
      <3> DEFINE s == [pc |-> "run", job |-> j, mode |-> store[j].mode,
                       two |-> TwoPass(store[j]), phase |-> PhaseOf(store[j])]
      <3>1. Becomes(w, s) /\ s.job = j /\ s.mode = store[j].mode
        BY <2>6 DEF Start
      <3> HIDE DEF s
      <3> QED BY <1>1, <2>1, <2>4, <3>1, WorkerModes
    <2> QED BY <1>4, <2>5, <2>6 DEF Starting
  <1> QED BY <1>3, <1>4

LEMMA EndModes ==
  ASSUME BpQMax < 0, ModesInv, LQInv', NEW w \in Workers, Wake(w) \/ End(w) \/ Finish(w)
  PROVE  ModesInv'
  <1>0. LQInv /\ SchedTypeOK /\ store \in Stores
    BY DEF ModesInv, LQInv, LQTypeOK, Stores
  <1>1. UNCHANGED <<calls, dpc, asked>>
    BY DEF Wake, End, EndPass1, EndPass2Early, EndDone, EndFail, EndRun, InRun, Finish, Outside
  <1>2. worker[w].job \in Jobs
    BY <1>0, BusyFacts DEF Wake, End, EndPass1, EndPass2Early, EndDone, EndFail, EndRun, InRun,
                           Finish, Returns
  <1>3. PICK j \in Jobs : j = worker[w].job
    BY <1>2
  <1>4. ASSUME NEW s, Becomes(w, s), s.pc # "run", inHand' = inHand, Heap' = Heap,
               \A k \in Jobs : store'[k] # NoRec => store[k] # NoRec /\ store'[k].mode = store[k].mode
        PROVE  ModesInv'
    BY <1>1, <1>4, WorkerModes
  <1>5. Idle.pc # "run" /\ More.pc # "run"
    BY DEF Idle, More
  <1>6. CASE Wake(w)
    <2>1. inHand' = inHand /\ Heap' = Heap /\ store' = store /\ Becomes(w, More)
      BY <1>0, <1>6, SchedStays DEF Wake
    <2> QED BY <1>4, <1>5, <2>1
  <1>7. CASE EndPass1(w)
    <2> DEFINE s == [pc |-> "final", job |-> j, ok |-> FALSE]
               t == [store EXCEPT ![j] = AfterPass1(store[j])]
    <2>1. /\ t \in Stores /\ store[j] \in Row /\ Resubmit(t, j, worker[w].mode, 120)
          /\ worker[w].mode \in Modes /\ 120 \in Priorities /\ Becomes(w, s)
      BY <1>0, <1>3, <1>7, EndPass1Effects
    <2>2. AfterPass1(store[j]).mode = store[j].mode /\ store[j] # NoRec
      BY <2>1, RowFacts, NoRecAssumption
    <2>3. t[j].mode = store[j].mode /\ \A k \in Jobs \ {j} : t[k] = store[k]
      BY <1>0, <2>2 DEF Stores
    <2>4. worker[w].pc = "run" /\ s.pc # "run"
      BY <1>7 DEF EndPass1, InRun
    <2> HIDE DEF s, t
    <2>5. PICK m \in Modes : m = worker[w].mode
      BY <2>1
    <2>6. SubmittedMode(m) = m
      BY SchedulerAssumption DEF SubmittedMode, Overloaded
    <2>7. Enter(t, j, m, 120)
      BY <2>1, <2>5 DEF Resubmit
    <2>8. Heap' = Heap \cup {<<j, m>>} /\ inHand' = inHand /\ store' = t
      BY <1>0, <2>1, <2>6, <2>7, EnterEffects
    <2>9. \A k \in Jobs : store'[k] # NoRec => store[k] # NoRec /\ store'[k].mode = store[k].mode
      BY <2>2, <2>3, <2>8
    <2> QED BY <1>1, <1>3, <2>1, <2>4, <2>5, <2>8, <2>9, WorkerModes
  <1>8. CASE EndPass2Early(w) \/ EndDone(w) \/ EndFail(w)
    <2>1. /\ \E st \in {"DONE", "FAILED"} : store' = SetState(j, st)
          /\ \E s : Becomes(w, s) /\ s.pc # "run"
      BY <1>3, <1>8 DEF EndPass2Early, EndDone, EndFail, EndRun
    <2>2. inHand' = inHand /\ Heap' = Heap
      BY <1>0, <1>8, SchedStays DEF EndPass2Early, EndDone, EndFail, EndRun
    <2>3. \A k \in Jobs : store'[k] # NoRec => store[k] # NoRec /\ store'[k].mode = store[k].mode
      BY <1>0, <2>1, SetStateEffects DEF States, Exists
    <2> QED BY <1>4, <2>1, <2>2, <2>3
  <1>9. CASE Finish(w)
    <2>1. /\ store' = store \/ (Exists(j) /\ store' = [store EXCEPT ![j] = Cleared(store[j])])
          /\ inHand' = inHand /\ Heap' = Heap
      BY <1>3, <1>9 DEF Finish, heapVars, Heap
    <2>2. PICK s \in {Idle, More} : Becomes(w, s)
      BY <1>9 DEF Finish, Asks
    <2>3. \A k \in Jobs : store'[k] # NoRec => store[k] # NoRec /\ store'[k].mode = store[k].mode
      <3>1. CASE Exists(j) /\ store' = [store EXCEPT ![j] = Cleared(store[j])]
        <4>1. Cleared(store[j]).mode = store[j].mode
          BY <1>0, <3>1, RowFacts DEF Exists, Stores
        <4> QED BY <1>0, <3>1, <4>1 DEF Exists, Stores
      <3> QED BY <2>1, <3>1
    <2> QED BY <1>4, <1>5, <2>1, <2>2, <2>3
  <1> QED BY <1>6, <1>7, <1>8, <1>9 DEF End

LEMMA NextModes ==
  ASSUME BpQMax < 0, ModesInv, [LQNext]_lqVars
  PROVE  ModesInv'
  <1>0. LQInv' /\ LQInv /\ CallsFresh /\ dpc # "sync"
    BY NextLQInv DEF ModesInv
  <1>1. CASE UserAction
    BY <1>0, <1>1, UserModes
  <1>2. CASE SchedStep(Ripen) \/ DispatcherStep \/ EnqueueTimeout
    BY <1>0, <1>2, DispatcherModes
  <1>3. CASE RunCall \/ \E j \in Jobs : Scan(j) \/ Recover(j)
    BY <1>0, <1>3, LoopModes
  <1>4. CASE \/ \E w \in Workers : Take(w)
             \/ \E w \in Workers, j \in Jobs : StartFails(w, j)
    BY <1>0, <1>4, TakeModes DEF Take, Starting
  <1>5. CASE \E w \in Workers : Wake(w) \/ End(w) \/ Finish(w)
    BY <1>0, <1>5, EndModes
  <1>6. CASE Restart
    <2>1. /\ ready' = <<>> /\ waiting' = <<>> /\ calls' = <<>> /\ inHand' = NoRec
          /\ dpc' = "none" /\ store' = store /\ asked' = asked
          /\ worker' = [v \in Workers |-> Idle]
      BY <1>6 DEF Restart
    <2>2. Heap' = {} /\ CallsFresh' /\ DOMAIN calls' = {}
      BY <2>1 DEF Heap, Pairs, CallsFresh
    <2>3. \A v \in Workers : worker'[v].pc # "run"
      BY <2>1 DEF Idle
    <2> QED BY <1>0, <2>1, <2>2, <2>3, ModesStep, ModesThere
  <1>7. CASE UNCHANGED lqVars
    <2>1. UNCHANGED <<ready, waiting, calls, inHand, dpc, store, asked, worker>>
      BY <1>7 DEF lqVars, schedVars, loopVars
    <2>2. Heap' = Heap /\ CallsFresh'
      BY <1>0, <2>1 DEF Heap, CallsFresh
    <2> QED BY <1>0, <2>1, <2>2, ModesStep, ModesThere
  <1> QED BY <1>1, <1>2, <1>3, <1>4, <1>5, <1>6, <1>7 DEF LQNext

LEMMA InitModes == LQInit => ModesInv
  <1> SUFFICES ASSUME LQInit PROVE ModesInv
    OBVIOUS
  <1>1. /\ ready = <<>> /\ waiting = <<>> /\ calls = <<>> /\ inHand = NoRec /\ dpc = "none"
        /\ \A k \in Jobs : store[k] = NoRec
        /\ \A v \in Workers : worker[v].pc = "idle"
    BY DEF LQInit, SchedInit, Idle
  <1>2. \A k \in Jobs, m \in Modes : ~Moded(k, m)
    BY <1>1 DEF Moded, Heap, Pairs, InHand, Exists
  <1> QED BY <1>1, <1>2, InitLQInv DEF ModesInv, OneMode, CallsFresh

-----------------------------------------------------------------------------
\* What makes the rows the coroutines write harmless: no mode is ever degraded,
\* or one slot, so that the row they read cannot have started since.
FreshCalls == BpQMax < 0 \/ MaxGlobal = 1

LEMMA FreshModes == ModesInv => LQInv /\ CallsFresh
  BY DEF ModesInv

LEMMA FreshSingle == SingleInv => LQInv /\ CallsFresh
  BY DEF SingleInv, CallsWait, RowWaits, CallsFresh

LEMMA InitUserCap == LQInit => UserCapHolds
  <1> SUFFICES ASSUME LQInit, NEW j \in Jobs, MaxPerUser > 0
               PROVE  Cardinality(RunningOf(OwnerOf[j])) <= MaxPerUser
    BY DEF UserCapHolds
  <1>1. RunningOf(OwnerOf[j]) = {}
    BY DEF RunningOf, InState, Exists, LQInit
  <1>2. Cardinality({}) = 0
    BY FS_EmptySet
  <1> QED BY <1>1, <1>2, LocalQueueAssumption

\* MAX_CONCURRENT_JOBS_PER_USER, for any number of users, jobs and workers, and
\* through restarts, dead workers and enqueue timeouts: no owner has more jobs
\* RUNNING.  With backpressure and two slots it does not hold: SyncMode reads the
\* row again, may find it RUNNING, and the coroutine writes that row back later.
THEOREM UserCapKept ==
  IsFiniteSet(Jobs) /\ FreshCalls => (LQSpec => []UserCapHolds)
  <1> SUFFICES ASSUME IsFiniteSet(Jobs), FreshCalls PROVE LQSpec => []UserCapHolds
    OBVIOUS
  <1>1. LQInit => UserCapHolds
    BY InitUserCap
  <1>2. CASE BpQMax < 0
    <2>1. ModesInv /\ [LQNext]_lqVars => ModesInv'
      BY <1>2, NextModes
    <2>2. ModesInv /\ UserCapHolds /\ [LQNext]_lqVars => UserCapHolds'
      BY FreshModes, NextUserCap
    <2> QED BY <1>1, <2>1, <2>2, InitModes, PTL DEF LQSpec
  <1>3. CASE MaxGlobal = 1
    <2>1. SingleInv /\ [LQNext]_lqVars => SingleInv'
      BY <1>3, NextSingle
    <2>2. SingleInv /\ UserCapHolds /\ [LQNext]_lqVars => UserCapHolds'
      BY FreshSingle, NextUserCap
    <2> QED BY <1>1, <2>1, <2>2, InitSingle, PTL DEF LQSpec
  <1> QED BY <1>2, <1>3 DEF FreshCalls

\* No job is left RUNNING by a crash: as long as no worker dies of an exception,
\* a RUNNING row has its worker, or the restarted server is about to recover it.
THEOREM RunningHasWorker ==
  FreshCalls /\ MaxFaults = 0 => (LQSpec => []RunningIsWorked)
  <1> SUFFICES ASSUME FreshCalls, MaxFaults = 0 PROVE LQSpec => []RunningIsWorked
    OBVIOUS
  <1>1. LQInit => RunningIsWorked
    BY DEF LQInit, RunningIsWorked, InState, Exists
  <1>2. CASE BpQMax < 0
    <2>1. ModesInv /\ [LQNext]_lqVars => ModesInv'
      BY <1>2, NextModes
    <2>2. ModesInv /\ RunningIsWorked /\ [LQNext]_lqVars => RunningIsWorked'
      BY FreshModes, NextRuns
    <2> QED BY <1>1, <2>1, <2>2, InitModes, PTL DEF LQSpec
  <1>3. CASE MaxGlobal = 1
    <2>1. SingleInv /\ [LQNext]_lqVars => SingleInv'
      BY <1>3, NextSingle
    <2>2. SingleInv => RunningIsWorked
      BY DEF SingleInv
    <2> QED BY <2>1, <2>2, InitSingle, PTL DEF LQSpec
  <1> QED BY <1>2, <1>3 DEF FreshCalls
==============================================================================
