--------------------------- MODULE RedisQueueProofs ---------------------------
(***************************************************************************)
(* The Redis queue gives a job to one instance at a time, as long as no    *)
(* lock lapses under a live holder: for any number of instances, jobs,     *)
(* caps, crashes and re-runs, and for the jobs that come by claims (those  *)
(* an instance recovers when it starts do not).  The argument is about     *)
(* leases: a job on its way through an instance, from the claim to the end *)
(* of its run, is there once, under that instance's lock.  From it follow  *)
(* the runs of ExclusiveRuns; with what each worker holds next to it, that *)
(* the users' running sets name runs only and that a DONE job is not run   *)
(* again.                                                                  *)
(***************************************************************************)
EXTENDS RedisQueue, TLAPS

-----------------------------------------------------------------------------
\* Types.

LEMMA InitType == RQInit => RQTypeOK
  BY RedisQueueAssumption DEF RQInit, RQTypeOK, States, Idle, Still, Steps

WPlaces == [pc : Steps, job : Jobs \cup {NoJob}]
IdleIsJobless == \A p \in Procs : w[p].job = NoJob <=> w[p].pc = "idle"

\* What a worker's moves make of its record.
LEMMA WorkerTypes ==
  ASSUME RQTypeOK, NEW p \in Procs
  PROVE  /\ w[p].pc # "idle" => w[p].job \in Jobs
         /\ \A pc \in Steps \ {"idle"} : w[p].pc # "idle" /\ Goes(p, pc) =>
              w' \in [Procs -> WPlaces] /\ IdleIsJobless'
         /\ Rests(p) => w' \in [Procs -> WPlaces] /\ IdleIsJobless'
  <1>1. w \in [Procs -> WPlaces] /\ IdleIsJobless
    BY DEF RQTypeOK, WPlaces, IdleIsJobless
  <1>2. w[p].pc # "idle" => w[p].job \in Jobs
    BY <1>1 DEF WPlaces, IdleIsJobless
  <1>3. ASSUME NEW pc \in Steps \ {"idle"}, w[p].pc # "idle", Goes(p, pc)
        PROVE  w' \in [Procs -> WPlaces] /\ IdleIsJobless'
    <2>1. w' = [w EXCEPT ![p].pc = pc]
      BY <1>3 DEF Goes
    <2>2. w'[p] = [pc |-> pc, job |-> w[p].job] /\ \A q \in Procs \ {p} : w'[q] = w[q]
      BY <1>1, <2>1 DEF WPlaces
    <2> QED BY <1>1, <1>2, <1>3, <2>1, <2>2 DEF WPlaces, IdleIsJobless
  <1>4. ASSUME Rests(p)
        PROVE  w' \in [Procs -> WPlaces] /\ IdleIsJobless'
    BY <1>1, <1>4 DEF Rests, Idle, WPlaces, IdleIsJobless, Steps
  <1> QED BY <1>2, <1>3, <1>4

\* A request changes the row of a job and its places in the sets of Redis.
LEMMA UserType == RQTypeOK /\ User => RQTypeOK'
  <1> SUFFICES ASSUME RQTypeOK, NEW p \in Procs, NEW j \in Jobs,
                      Submit(p, j) \/ Cancel(p, j) \/ Pause(p, j)
               PROVE  RQTypeOK'
    BY DEF User
  <1>1. /\ ops' = ops + 1
        /\ UNCHANGED <<lock, attempts, spent, running, dlq, up, boot, hand, asyncQ, has, w,
                       mover, pass2, starts, setup, crashes>>
    BY DEF Submit, Accept, Cancel, Pause, Handles
  <1>5. ttl' \subseteq Jobs
    BY DEF RQTypeOK, Submit, Armed, Cancel, Pause
  <1>2. pending' \subseteq Jobs /\ delayed' \subseteq Jobs
    BY DEF RQTypeOK, Submit, Accept, Cancel, Pause
  <1>3. canceled' \in [Procs -> SUBSET Jobs]
    <2>1. canceled' = canceled \/ canceled' = [canceled EXCEPT ![p] = @ \cup {j}]
      BY DEF Submit, Accept, Cancel, Pause
    <2>2. canceled \in [Procs -> SUBSET Jobs]
      BY DEF RQTypeOK
    <2> QED BY <2>1, <2>2
  <1>4. row' \in [Jobs -> States]
    <2>1. \E st \in States : row' = [row EXCEPT ![j] = st]
      BY DEF Submit, Accept, Cancel, Pause, States
    <2> QED BY <2>1 DEF RQTypeOK
  <1> QED BY <1>1, <1>2, <1>3, <1>4, <1>5 DEF RQTypeOK

\* The lock that is left is a lock.
LEMMA ReleasedType ==
  ASSUME RQTypeOK, NEW p \in Procs, NEW j \in Jobs
  PROVE  Released(p, j) \in [Jobs -> Procs \cup {Free, Ghost}]
  BY DEF RQTypeOK, Released

LEMMA ConsumeType ==
  ASSUME RQTypeOK, NEW p \in Procs, Consume(p)
  PROVE  RQTypeOK'
  <1>1. CASE Claim(p)
    BY <1>1 DEF RQTypeOK, Claim, Others, bounds
  <1>2. CASE Deliver(p)
    <2>1. hand[p] \in Jobs
      BY <1>2 DEF Deliver, RQTypeOK
    <2>2. /\ dlq' \subseteq Jobs
          /\ lock' \in [Jobs -> Procs \cup {Free, Ghost}]
      BY <1>2, <2>1, ReleasedType DEF Deliver, RQTypeOK
    <2>6. attempts' \in [Jobs -> 0 .. MaxAttempts]
      <3>1. attempts' = attempts \/ /\ attempts[hand[p]] < MaxAttempts
                                    /\ attempts' = [attempts EXCEPT ![hand[p]] = @ + 1]
        BY <1>2, <2>1, RedisQueueAssumption DEF Deliver, RQTypeOK
      <3>2. attempts \in [Jobs -> 0 .. MaxAttempts] /\ MaxAttempts \in Nat
        BY RedisQueueAssumption DEF RQTypeOK
      <3> QED BY <2>1, <3>1, <3>2
    <2>3. asyncQ' \in [Procs -> Seq(Jobs)]
      <3>1. asyncQ' = asyncQ \/ asyncQ' = [asyncQ EXCEPT ![p] = Append(@, hand[p])]
        BY <1>2 DEF Deliver
      <3>2. asyncQ \in [Procs -> Seq(Jobs)]
        BY DEF RQTypeOK
      <3>3. Append(asyncQ[p], hand[p]) \in Seq(Jobs)
        BY <2>1, <3>2
      <3> QED BY <3>1, <3>2, <3>3
    <2>4. hand' \in [Procs -> Jobs \cup {NoJob}]
      BY <1>2 DEF Deliver, RQTypeOK
    <2>5. UNCHANGED <<pending, delayed, ttl, spent, running, has, w, mover, starts, Others>>
      BY <1>2 DEF Deliver
    <2> QED BY <2>2, <2>3, <2>4, <2>5, <2>6 DEF RQTypeOK, Others, bounds
  <1> QED BY <1>1, <1>2 DEF Consume

\* The worker's steps, one by one; Check only leaves or takes off the lock.
LEMMA WorkType ==
  ASSUME RQTypeOK, NEW p \in Procs, Work(p)
  PROVE  RQTypeOK'
  <1> USE DEF Others, bounds, redisVars
  <1>0. w[p].pc # "idle" => w[p].job \in Jobs
    BY WorkerTypes
  <1>1. CASE Take(p)
    <2> DEFINE j == Head(asyncQ[p])
    <2>1. asyncQ \in [Procs -> Seq(Jobs)] /\ asyncQ[p] # <<>>
      BY <1>1 DEF RQTypeOK, Take
    <2>2. j \in Jobs /\ Tail(asyncQ[p]) \in Seq(Jobs)
      BY <2>1
    <2>3. Append(Tail(asyncQ[p]), j) \in Seq(Jobs)
      BY <2>2
    <2>4. asyncQ' \in [Procs -> Seq(Jobs)]
      BY <1>1, <2>1, <2>2, <2>3 DEF Take
    <2>5. w' \in [Procs -> WPlaces] /\ IdleIsJobless'
      <3>1. w \in [Procs -> WPlaces] /\ IdleIsJobless /\ j # NoJob
        BY <2>2, RedisQueueAssumption DEF RQTypeOK, WPlaces, IdleIsJobless
      <3>2. w' = w \/ w' = [w EXCEPT ![p] = [pc |-> "check", job |-> j]]
        BY <1>1 DEF Take
      <3> QED BY <2>2, <3>1, <3>2 DEF WPlaces, IdleIsJobless, Steps
    <2>6. UNCHANGED <<redisVars, hand, has, mover, starts, Others>>
      BY <1>1 DEF Take
    <2> QED BY <2>4, <2>5, <2>6 DEF RQTypeOK, WPlaces, IdleIsJobless
  <1>2. CASE Check(p)
    <2>1. w[p].pc # "idle" /\ (Goes(p, "defer") \/ Goes(p, "admit") \/ Rests(p))
      BY <1>2 DEF Check, At
    <2>2. w' \in [Procs -> WPlaces] /\ IdleIsJobless'
      BY <2>1, WorkerTypes DEF Steps
    <2>3. lock' \in [Jobs -> Procs \cup {Free, Ghost}]
      <3>1. lock' = lock \/ lock' = Released(p, w[p].job)
        BY <1>2 DEF Check
      <3> QED BY <1>0, <2>1, <3>1, ReleasedType DEF RQTypeOK
    <2>4. UNCHANGED <<pending, delayed, attempts, ttl, spent, running, dlq, hand, asyncQ, has,
                      mover, starts, Others>>
      BY <1>2 DEF Check
    <2> QED BY <2>2, <2>3, <2>4 DEF RQTypeOK, WPlaces, IdleIsJobless
  <1>3. CASE Defer(p)
    <2>1. w[p].pc # "idle" /\ Goes(p, "release")
      BY <1>3 DEF Defer, At
    <2>2. w' \in [Procs -> WPlaces] /\ IdleIsJobless'
      BY <2>1, WorkerTypes DEF Steps
    <2> QED BY <1>0, <1>3, <2>1, <2>2 DEF RQTypeOK, WPlaces, IdleIsJobless, Defer
  <1>4. CASE Release(p)
    <2>1. w' \in [Procs -> WPlaces] /\ IdleIsJobless'
      BY <1>4, WorkerTypes DEF Release
    <2>2. lock' \in [Jobs -> Procs \cup {Free, Ghost}]
      BY <1>0, <1>4, ReleasedType DEF Release, At
    <2> QED BY <1>4, <2>1, <2>2 DEF RQTypeOK, WPlaces, IdleIsJobless, Release
  <1>5. CASE Admit(p)
    <2>1. w[p].pc # "idle" /\ (Goes(p, "after") \/ Goes(p, "run"))
      BY <1>5 DEF Admit, At
    <2>2. w' \in [Procs -> WPlaces] /\ IdleIsJobless'
      BY <2>1, WorkerTypes DEF Steps
    <2>3. w[p].job \in Jobs
      BY <1>0, <2>1
    <2>4. lock' \in [Jobs -> Procs \cup {Free, Ghost}]
      <3>1. lock' = lock \/ lock' = [lock EXCEPT ![w[p].job] = p]
        BY <1>5 DEF Admit
      <3> QED BY <2>3, <3>1 DEF RQTypeOK
    <2>5. has' \in [Procs -> SUBSET Jobs] /\ running' \subseteq Jobs
      BY <1>5, <2>3 DEF RQTypeOK, Admit
    <2>6. row' \in [Jobs -> States]
      <3>1. \E st \in States : row' = [row EXCEPT ![w[p].job] = st]
        BY <1>5 DEF Admit, States
      <3> QED BY <3>1 DEF RQTypeOK
    <2>7. starts' \in [Jobs -> Nat]
      <3>1. starts' = starts \/ starts' = [starts EXCEPT ![w[p].job] = @ + 1]
        BY <1>5 DEF Admit
      <3>2. starts \in [Jobs -> Nat]
        BY DEF RQTypeOK
      <3> QED BY <2>3, <3>1, <3>2
    <2>8. UNCHANGED <<pending, delayed, attempts, ttl, spent, dlq, up, boot, hand, asyncQ,
                      canceled, mover, pass2, bounds>>
      BY <1>5 DEF Admit
    <2> QED BY <2>2, <2>4, <2>5, <2>6, <2>7, <2>8 DEF RQTypeOK, WPlaces, IdleIsJobless
  <1>6. CASE AdmitBusy(p)
    <2>1. w' \in [Procs -> WPlaces] /\ IdleIsJobless'
      BY <1>6, WorkerTypes DEF AdmitBusy
    <2> QED BY <1>0, <1>6, <2>1 DEF RQTypeOK, WPlaces, IdleIsJobless, AdmitBusy, At
  <1>7. CASE EndRun(p)
    <2>1. w[p].pc # "idle" /\ Goes(p, "after")
      BY <1>7 DEF EndRun, Ends, EndsPass1, At
    <2>2. w' \in [Procs -> WPlaces] /\ IdleIsJobless'
      BY <2>1, WorkerTypes DEF Steps
    <2>3. w[p].job \in Jobs
      BY <1>0, <2>1
    <2>4. row' \in [Jobs -> States]
      <3>1. \E st \in States : row' = [row EXCEPT ![w[p].job] = st]
        BY <1>7 DEF EndRun, Ends, EndsPass1, States
      <3> QED BY <3>1 DEF RQTypeOK
    <2>5. pending' \subseteq Jobs /\ ttl' \subseteq Jobs /\ pass2' \subseteq Jobs
      <3>1. pass2' \subseteq Jobs
        BY <1>7, <2>3 DEF RQTypeOK, EndRun, Ends
      <3> QED BY <1>7, <2>3, <3>1 DEF RQTypeOK, EndRun, Armed
    <2>6. UNCHANGED <<delayed, lock, attempts, spent, running, dlq, up, boot, hand, asyncQ, has,
                      canceled, mover, starts, bounds>>
      BY <1>7 DEF EndRun, Ends
    <2> QED BY <2>2, <2>4, <2>5, <2>6 DEF RQTypeOK, WPlaces, IdleIsJobless
  <1>8. CASE After(p)
    <2>1. w[p].pc # "idle" /\ Goes(p, "unlock")
      BY <1>8 DEF After, At
    <2>2. w' \in [Procs -> WPlaces] /\ IdleIsJobless'
      BY <2>1, WorkerTypes DEF Steps
    <2> QED BY <1>8, <2>2 DEF RQTypeOK, WPlaces, IdleIsJobless, After
  <1>9. CASE Unlock(p)
    <2>1. w' \in [Procs -> WPlaces] /\ IdleIsJobless'
      BY <1>9, WorkerTypes DEF Unlock
    <2>2. lock' \in [Jobs -> Procs \cup {Free, Ghost}]
      BY <1>0, <1>9, ReleasedType DEF Unlock, At
    <2>3. has' \in [Procs -> SUBSET Jobs]
      BY <1>9 DEF RQTypeOK, Unlock
    <2> QED BY <1>9, <2>1, <2>2, <2>3 DEF RQTypeOK, WPlaces, IdleIsJobless, Unlock
  <1> QED BY <1>1, <1>2, <1>3, <1>4, <1>5, <1>6, <1>7, <1>8, <1>9 DEF Work

LEMMA MoveType ==
  ASSUME RQTypeOK, NEW p \in Procs, Move(p)
  PROVE  RQTypeOK'
  <1> DEFINE M == [due : SUBSET Jobs, cur : Jobs \cup {NoJob}]
  <1>1. UNCHANGED <<lock, attempts, ttl, spent, running, dlq, hand, asyncQ, has, w, starts,
                    Others>>
    BY DEF Move, ReadDue, TakeDue, PutDue, MovesOn
  <1>2. mover \in [Procs -> M] /\ pending \subseteq Jobs /\ delayed \subseteq Jobs
    BY DEF RQTypeOK
  <1>3. mover' \in [Procs -> M] /\ delayed' \subseteq Jobs
    <2>1. CASE ReadDue(p)
      BY <1>2, <2>1 DEF ReadDue
    <2>2. CASE TakeDue(p)
      <3>1. PICK j \in mover[p].due :
              mover' = [mover EXCEPT ![p] = [due |-> @.due \ {j}, cur |-> j]]
        BY <2>2 DEF TakeDue
      <3>2. [due |-> mover[p].due \ {j}, cur |-> j] \in M
        BY <1>2
      <3> QED BY <1>2, <2>2, <3>1, <3>2 DEF TakeDue
    <2>3. CASE PutDue(p)
      BY <1>2, <2>3 DEF PutDue
    <2> QED BY <2>1, <2>2, <2>3 DEF Move
  <1>4. pending' \subseteq Jobs
    BY <1>2 DEF Move, ReadDue, TakeDue, PutDue
  <1> QED BY <1>1, <1>3, <1>4 DEF RQTypeOK, Others, bounds

LEMMA FaultType ==
  ASSUME RQTypeOK,
         \/ \E p \in Procs : Crash(p) \/ Comeback(p)
         \/ \E j \in Jobs : ExpireGhost(j) \/ Lapse(j) \/ ExpireMeta(j)
  PROVE  RQTypeOK'
  <1> USE DEF redisVars, localVars, bounds
  <1>1. ASSUME NEW j \in Jobs, ExpireGhost(j) \/ Lapse(j) PROVE RQTypeOK'
    BY <1>1 DEF RQTypeOK, ExpireGhost, Lapse, Others
  <1>4. ASSUME NEW j \in Jobs, ExpireMeta(j) PROVE RQTypeOK'
    <2>1. /\ ttl' = ttl \ {j}
          /\ attempts' = [attempts EXCEPT ![j] = 0]
          /\ spent' = [spent EXCEPT ![j] = @ + attempts[j]]
          /\ UNCHANGED <<pending, delayed, lock, running, dlq, localVars, starts, Others>>
      BY <1>4 DEF ExpireMeta
    <2>2. /\ attempts \in [Jobs -> 0 .. MaxAttempts] /\ spent \in [Jobs -> Nat]
          /\ ttl \subseteq Jobs /\ MaxAttempts \in Nat
      BY RedisQueueAssumption DEF RQTypeOK
    <2>3. attempts' \in [Jobs -> 0 .. MaxAttempts]
      BY <2>1, <2>2
    <2>4. spent' \in [Jobs -> Nat]
      BY <2>1, <2>2
    <2> QED BY <2>1, <2>2, <2>3, <2>4 DEF RQTypeOK, Others
  <1>2. ASSUME NEW p \in Procs, Crash(p) PROVE RQTypeOK'
    <2>1. w' \in [Procs -> WPlaces] /\ IdleIsJobless'
      BY <1>2, WorkerTypes DEF Crash, Rests
    <2>2. /\ up' \in [Procs -> {"down", "boot", "up", "drain"}]
          /\ boot' \in [Procs -> SUBSET Jobs]
          /\ lock' \in [Jobs -> Procs \cup {Free, Ghost}]
      BY <1>2 DEF Crash, RQTypeOK
    <2>3. /\ hand' \in [Procs -> Jobs \cup {NoJob}]
          /\ has' \in [Procs -> SUBSET Jobs] /\ canceled' \in [Procs -> SUBSET Jobs]
      BY <1>2 DEF Crash, RQTypeOK
    <2>6. asyncQ' \in [Procs -> Seq(Jobs)]
      <3>1. asyncQ' = [asyncQ EXCEPT ![p] = <<>>] /\ asyncQ \in [Procs -> Seq(Jobs)]
        BY <1>2 DEF Crash, RQTypeOK
      <3>2. <<>> \in Seq(Jobs)
        OBVIOUS
      <3> QED BY <3>1, <3>2
    <2>4. mover' \in [Procs -> [due : SUBSET Jobs, cur : Jobs \cup {NoJob}]]
      BY <1>2 DEF Crash, RQTypeOK, Still
    <2>5. crashes' \in Nat
      BY <1>2 DEF Crash, RQTypeOK
    <2> QED BY <1>2, <2>1, <2>2, <2>3, <2>4, <2>5, <2>6 DEF RQTypeOK, Crash, WPlaces, IdleIsJobless
  <1>3. ASSUME NEW p \in Procs, Comeback(p) PROVE RQTypeOK'
    <2>3. up' \in [Procs -> {"down", "boot", "up", "drain"}] /\ pending' \subseteq Jobs
      BY <1>3 DEF RQTypeOK, Comeback, Restart, Recover, Started
    <2>4. boot' \in [Procs -> SUBSET Jobs]
      <3>1. Unfinished \in SUBSET Jobs /\ boot \in [Procs -> SUBSET Jobs]
        BY DEF Unfinished, RQTypeOK
      <3>2. \/ boot' = boot
            \/ \E S \in SUBSET Jobs : boot' = [boot EXCEPT ![p] = S]
        BY <1>3, <3>1 DEF Comeback, Restart, Recover, Started
      <3> QED BY <3>1, <3>2
    <2>1. row' \in [Jobs -> States]
      <3>1. row' = row \/ \E j \in Jobs : row' = [row EXCEPT ![j] = "QUEUED"]
        BY <1>3 DEF Comeback, Restart, Recover, Started
      <3> QED BY <3>1 DEF RQTypeOK, States
    <2>2. UNCHANGED <<delayed, lock, attempts, ttl, spent, running, dlq, localVars, pass2,
                      starts, bounds>>
      BY <1>3 DEF Comeback, Restart, Recover, Started
    <2> QED BY <2>1, <2>2, <2>3, <2>4 DEF RQTypeOK
  <1> QED BY <1>1, <1>2, <1>3, <1>4

LEMMA NextType == RQTypeOK /\ [RQNext]_rqVars => RQTypeOK'
  <1> SUFFICES ASSUME RQTypeOK, [RQNext]_rqVars PROVE RQTypeOK'
    OBVIOUS
  <1>1. CASE UNCHANGED rqVars
    BY <1>1 DEF RQTypeOK, rqVars, redisVars, localVars, bounds
  <1> QED BY <1>1, UserType, ConsumeType, WorkType, MoveType, FaultType DEF RQNext

\* Every variable keeps its type; no job is counted more attempts than
\* REDIS_QUEUE_MAX_ATTEMPTS.
THEOREM RedisTypeCorrect == RQSpec => []RQTypeOK
  BY InitType, NextType, PTL DEF RQSpec

-----------------------------------------------------------------------------
\* Leases.

\* The job of each place of an instance is leased to it ...
Leased == \A p \in Procs, j \in Jobs : Holds(p, j) => lock[j] = p /\ j \in has[p]

\* ... and is in no other place of it.
Once ==
    \A p \in Procs :
       /\ \A i, k \in DOMAIN asyncQ[p] : asyncQ[p][i] = asyncQ[p][k] => i = k
       /\ \A i \in DOMAIN asyncQ[p] : asyncQ[p][i] # hand[p] /\ asyncQ[p][i] # w[p].job
       /\ hand[p] # NoJob => hand[p] # w[p].job

\* The attempts of a job that have been counted, by its counter and by those that
\* expired before it.
Counts(j) == spent[j] + attempts[j]

\* A claim on its way to a run has been counted and not been used.
Waiting(p, j) == Waits(p, j) \/ (w[p].job = j /\ w[p].pc \in {"check", "admit"})
Counted ==
    \A j \in Jobs : /\ starts[j] <= Counts(j)
                    /\ \A p \in Procs : Waiting(p, j) => starts[j] < Counts(j)

LeaseInv == ~setup.lapse => Leased /\ Once /\ Counted

LEMMA InitLease == RQInit => LeaseInv
  BY RedisQueueAssumption
     DEF RQInit, LeaseInv, Leased, Once, Counted, Counts, Holds, Waits, Waiting, Idle

\* Steps that move no job from its place and take away no lease.
LEMMA PlacesKept ==
  ASSUME RQTypeOK, Leased, Once, asyncQ' = asyncQ, hand' = hand,
         \A p \in Procs : w'[p].job = w[p].job,
         \A p \in Procs, j \in Jobs : Holds(p, j) => lock'[j] = p /\ j \in has'[p]
  PROVE  Leased' /\ Once'
  BY DEF Leased, Once, Holds, Waits

\* The worker lets its job go, with the lock and the token or without.
LEMMA PlaceEmptied ==
  ASSUME RQTypeOK, Leased, Once, NEW p \in Procs, w[p].job \in Jobs,
         asyncQ' = asyncQ, hand' = hand, Rests(p),
         lock' = lock \/ lock' = Released(p, w[p].job),
         has' = has \/ has' = [has EXCEPT ![p] = @ \ {w[p].job}]
  PROVE  Leased' /\ Once'
  <1>1. w'[p].job = NoJob /\ \A q \in Procs \ {p} : w'[q] = w[q]
    BY DEF Rests, Idle, RQTypeOK
  <1>2. \A q \in Procs, j \in Jobs : Holds(q, j)' => Holds(q, j) /\ (q # p \/ j # w[p].job)
    BY <1>1, RedisQueueAssumption DEF Holds, Waits, Once
  <1>3. \A q \in Procs, j \in Jobs : Holds(q, j)' => j # w[p].job
    BY <1>2 DEF Leased, Holds
  <1>4. Leased'
    <2> SUFFICES ASSUME NEW q \in Procs, NEW j \in Jobs, Holds(q, j)'
                 PROVE  lock'[j] = q /\ j \in has'[q]
      BY DEF Leased
    <2>1. Holds(q, j) /\ j # w[p].job /\ lock[j] = q /\ j \in has[q]
      BY <1>2, <1>3 DEF Leased
    <2>2. lock \in [Jobs -> Procs \cup {Free, Ghost}] /\ has \in [Procs -> SUBSET Jobs]
      BY DEF RQTypeOK
    <2>3. lock'[j] = lock[j]
      BY <2>1, <2>2 DEF Released
    <2>4. j \in has'[q]
      <3>1. CASE has' = has
        BY <2>1, <3>1
      <3>2. CASE has' = [has EXCEPT ![p] = @ \ {w[p].job}]
        BY <2>1, <2>2, <3>2
      <3> QED BY <3>1, <3>2
    <2> QED BY <2>1, <2>3, <2>4
  <1>5. Once'
    <2>1. \A q \in Procs : \A i \in DOMAIN asyncQ[q] : asyncQ[q][i] \in Jobs
      BY DEF RQTypeOK
    <2> QED BY <1>1, <2>1, RedisQueueAssumption DEF Once
  <1> QED BY <1>4, <1>5

LEMMA ClaimLeases ==
  ASSUME RQTypeOK, Leased, Once, NEW p \in Procs, Claim(p)
  PROVE  Leased' /\ Once'
  <1>1. PICK j \in Jobs :
          /\ lock[j] = Free
          /\ lock' = [lock EXCEPT ![j] = p]
          /\ hand' = [hand EXCEPT ![p] = j]
          /\ has' = [has EXCEPT ![p] = @ \cup {j}]
    BY DEF Claim
  <1>2. asyncQ' = asyncQ /\ w' = w /\ hand[p] = NoJob
    BY DEF Claim
  <1>3. \A q \in Procs : ~Holds(q, j)
    BY <1>1, RedisQueueAssumption DEF Leased
  <1>4. hand'[p] = j /\ \A q \in Procs \ {p} : hand'[q] = hand[q]
    BY <1>1 DEF RQTypeOK
  <1>5. Leased'
    <2> SUFFICES ASSUME NEW q \in Procs, NEW k \in Jobs, Holds(q, k)'
                 PROVE  lock'[k] = q /\ k \in has'[q]
      BY DEF Leased
    <2>1. CASE q = p /\ k = j
      BY <1>1, <2>1 DEF RQTypeOK
    <2>2. CASE ~(q = p /\ k = j)
      <3>1. Holds(q, k)
        BY <1>2, <1>4, <2>2 DEF Holds, Waits
      <3> QED BY <1>1, <1>3, <3>1 DEF Leased, RQTypeOK
    <2> QED BY <2>1, <2>2
  <1>6. Once'
    BY <1>2, <1>3, <1>4 DEF Once, Holds, Waits
  <1> QED BY <1>5, <1>6

LEMMA DeliverLeases ==
  ASSUME RQTypeOK, Leased, Once, NEW p \in Procs, Deliver(p)
  PROVE  Leased' /\ Once'
  <1> DEFINE j == hand[p]
  <1>1. j \in Jobs /\ j # w[p].job /\ \A i \in DOMAIN asyncQ[p] : asyncQ[p][i] # j
    BY DEF Deliver, RQTypeOK, Once
  <1>2. hand' = [hand EXCEPT ![p] = NoJob] /\ w' = w /\ has' = has
    BY DEF Deliver
  <1>3. hand'[p] = NoJob /\ \A q \in Procs \ {p} : hand'[q] = hand[q]
    BY <1>2 DEF RQTypeOK
  <1>4. \A q \in Procs : asyncQ[q] \in Seq(Jobs)
    BY DEF RQTypeOK
  <1>5. CASE lock' = Released(p, j) /\ asyncQ' = asyncQ
    <2>1. \A q \in Procs, k \in Jobs : Holds(q, k)' => Holds(q, k) /\ (q # p \/ k # j)
      BY <1>1, <1>2, <1>3, <1>5, RedisQueueAssumption DEF Holds, Waits
    <2>2. \A q \in Procs, k \in Jobs : Holds(q, k)' => k # j /\ lock[k] = q /\ k \in has[q]
      BY <2>1 DEF Leased, Holds
    <2>3. Leased'
      BY <1>2, <1>5, <2>2 DEF Leased, Released, RQTypeOK
    <2>4. Once'
      BY <1>2, <1>3, <1>4, <1>5, RedisQueueAssumption DEF Once
    <2> QED BY <2>3, <2>4
  <1>6. CASE lock' = lock /\ asyncQ' = [asyncQ EXCEPT ![p] = Append(@, j)]
    <2>1. /\ asyncQ'[p] = Append(asyncQ[p], j)
          /\ \A q \in Procs \ {p} : asyncQ'[q] = asyncQ[q]
      BY <1>6 DEF RQTypeOK
    <2>2. /\ DOMAIN asyncQ'[p] = 1 .. Len(asyncQ[p]) + 1
          /\ DOMAIN asyncQ[p] = 1 .. Len(asyncQ[p]) /\ Len(asyncQ[p]) \in Nat
          /\ asyncQ'[p][Len(asyncQ[p]) + 1] = j
          /\ \A i \in 1 .. Len(asyncQ[p]) : asyncQ'[p][i] = asyncQ[p][i]
      BY <1>1, <1>4, <2>1
    <2>3. \A q \in Procs, k \in Jobs : Holds(q, k)' => Holds(q, k)
      <3> SUFFICES ASSUME NEW q \in Procs, NEW k \in Jobs, Holds(q, k)' PROVE Holds(q, k)
        OBVIOUS
      <3>1. CASE q # p
        BY <1>2, <1>3, <2>1, <3>1 DEF Holds, Waits
      <3>2. CASE q = p
        <4>1. CASE Waits(p, k)'
          <5>1. PICK i \in 1 .. Len(asyncQ[p]) + 1 : asyncQ'[p][i] = k
            BY <2>2, <4>1 DEF Waits
          <5>2. CASE i = Len(asyncQ[p]) + 1
            BY <2>2, <3>2, <5>1, <5>2 DEF Holds
          <5>3. CASE i \in 1 .. Len(asyncQ[p])
            BY <2>2, <3>2, <5>1, <5>3 DEF Holds, Waits
          <5> QED BY <2>2, <5>2, <5>3
        <4>2. CASE ~Waits(p, k)'
          BY <1>2, <1>3, <3>2, <4>2, RedisQueueAssumption DEF Holds
        <4> QED BY <4>1, <4>2
      <3> QED BY <3>1, <3>2
    <2>4. Leased'
      BY <1>2, <1>6, <2>3 DEF Leased
    <2>5. \A i \in 1 .. Len(asyncQ[p]) : asyncQ[p][i] \in Jobs
      BY <1>4
    <2>6. Once'
      <3> SUFFICES ASSUME NEW q \in Procs
                   PROVE  /\ \A i, k \in DOMAIN asyncQ'[q] :
                                asyncQ'[q][i] = asyncQ'[q][k] => i = k
                          /\ \A i \in DOMAIN asyncQ'[q] :
                                asyncQ'[q][i] # hand'[q] /\ asyncQ'[q][i] # w'[q].job
                          /\ hand'[q] # NoJob => hand'[q] # w'[q].job
        BY DEF Once
      <3>1. CASE q # p
        BY <1>2, <1>3, <2>1, <3>1 DEF Once
      <3>2. CASE q = p
        <4>1. /\ \A i, k \in 1 .. Len(asyncQ[p]) : asyncQ[p][i] = asyncQ[p][k] => i = k
              /\ \A i \in 1 .. Len(asyncQ[p]) :
                    asyncQ[p][i] # j /\ asyncQ[p][i] # w[p].job
          BY <2>2 DEF Once
        <4>2. j # NoJob /\ \A i \in 1 .. Len(asyncQ[p]) : asyncQ[p][i] # NoJob
          BY <1>1, <2>5, RedisQueueAssumption
        <4>3. \A i \in DOMAIN asyncQ'[p] : i = Len(asyncQ[p]) + 1 \/ i \in 1 .. Len(asyncQ[p])
          BY <2>2
        <4>4. \A i, k \in DOMAIN asyncQ'[p] : asyncQ'[p][i] = asyncQ'[p][k] => i = k
          BY <2>2, <4>1, <4>3
        <4>5. \A i \in DOMAIN asyncQ'[p] : asyncQ'[p][i] # NoJob /\ asyncQ'[p][i] # w[p].job
          BY <1>1, <2>2, <4>1, <4>2, <4>3
        <4> QED BY <1>2, <1>3, <3>2, <4>4, <4>5
      <3> QED BY <3>1, <3>2
    <2> QED BY <2>4, <2>6
  <1> QED BY <1>5, <1>6 DEF Deliver

LEMMA TakeLeases ==
  ASSUME RQTypeOK, Leased, Once, NEW p \in Procs, Take(p)
  PROVE  Leased' /\ Once'
  <1> DEFINE j == Head(asyncQ[p])  n == Len(asyncQ[p])
  <1>1. asyncQ[p] \in Seq(Jobs) /\ asyncQ[p] # <<>>
    BY DEF RQTypeOK, Take
  <1>2. /\ n \in Nat /\ n > 0 /\ DOMAIN asyncQ[p] = 1 .. n
        /\ j \in Jobs /\ j = asyncQ[p][1]
        /\ Tail(asyncQ[p]) \in Seq(Jobs) /\ Len(Tail(asyncQ[p])) = n - 1
        /\ \A i \in 1 .. n - 1 : Tail(asyncQ[p])[i] = asyncQ[p][i + 1]
    BY <1>1
  <1>3. hand' = hand /\ has' = has /\ lock' = lock
    BY DEF Take, redisVars
  <1>4. w[p].job = NoJob
    BY DEF Take, At, RQTypeOK
  <1> HIDE DEF j, n
  <1>5. CASE asyncQ' = [asyncQ EXCEPT ![p] = Append(Tail(@), j)] /\ w' = w
    <2>1. /\ asyncQ'[p] = Append(Tail(asyncQ[p]), j)
          /\ \A q \in Procs \ {p} : asyncQ'[q] = asyncQ[q]
      BY <1>5 DEF RQTypeOK
    <2>2. /\ DOMAIN asyncQ'[p] = 1 .. n
          /\ asyncQ'[p][n] = asyncQ[p][1]
          /\ \A i \in 1 .. n - 1 : asyncQ'[p][i] = asyncQ[p][i + 1]
      BY <1>2, <2>1
    <2>3. \A i \in 1 .. n : \E k \in 1 .. n : asyncQ'[p][i] = asyncQ[p][k]
      <3> TAKE i \in 1 .. n
      <3>1. CASE i = n
        BY <1>2, <2>2, <3>1
      <3>2. CASE i \in 1 .. n - 1
        BY <1>2, <2>2, <3>2
      <3> QED BY <1>2, <3>1, <3>2
    <2>4. \A q \in Procs, k \in Jobs : Holds(q, k)' => Holds(q, k)
      <3> SUFFICES ASSUME NEW q \in Procs, NEW k \in Jobs, Holds(q, k)' PROVE Holds(q, k)
        OBVIOUS
      <3>1. Waits(q, k)' => Waits(q, k)
        <4>1. CASE q # p
          BY <2>1, <4>1 DEF Waits
        <4>2. ASSUME q = p, Waits(p, k)' PROVE Waits(p, k)
          <5>1. PICK i \in 1 .. n : asyncQ'[p][i] = k
            BY <2>2, <4>2 DEF Waits
          <5>2. PICK m \in 1 .. n : asyncQ[p][m] = k
            BY <2>3, <5>1
          <5> QED BY <1>2, <5>2 DEF Waits
        <4> QED BY <4>1, <4>2
      <3> QED BY <1>3, <1>5, <3>1 DEF Holds
    <2>5. Leased'
      BY <1>3, <2>4 DEF Leased
    <2>6. \A i, k \in 1 .. n : asyncQ'[p][i] = asyncQ'[p][k] => i = k
      <3>1. \A i, k \in 1 .. n : asyncQ[p][i] = asyncQ[p][k] => i = k
        BY <1>2 DEF Once
      <3> QED BY <1>2, <2>2, <3>1
    <2>7. Once'
      <3>1. \A i \in 1 .. n : asyncQ[p][i] # hand[p] /\ asyncQ[p][i] # w[p].job
        BY <1>2 DEF Once
      <3>2. \A i \in 1 .. n : asyncQ'[p][i] # hand[p] /\ asyncQ'[p][i] # w[p].job
        BY <2>3, <3>1
      <3> SUFFICES ASSUME NEW q \in Procs
                   PROVE  /\ \A i, k \in DOMAIN asyncQ'[q] :
                                asyncQ'[q][i] = asyncQ'[q][k] => i = k
                          /\ \A i \in DOMAIN asyncQ'[q] :
                                asyncQ'[q][i] # hand'[q] /\ asyncQ'[q][i] # w'[q].job
                          /\ hand'[q] # NoJob => hand'[q] # w'[q].job
        BY DEF Once
      <3>3. CASE q # p
        BY <1>3, <1>5, <2>1, <3>3 DEF Once
      <3>4. CASE q = p
        <4>1. hand[p] # NoJob => hand[p] # w[p].job
          BY DEF Once
        <4>2. \A i, k \in DOMAIN asyncQ'[p] : asyncQ'[p][i] = asyncQ'[p][k] => i = k
          BY <2>2, <2>6
        <4>3. \A i \in DOMAIN asyncQ'[p] : asyncQ'[p][i] # hand'[p] /\ asyncQ'[p][i] # w'[p].job
          BY <1>3, <1>5, <2>2, <3>2
        <4> QED BY <1>3, <1>5, <3>4, <4>1, <4>2, <4>3
      <3> QED BY <3>3, <3>4
    <2> QED BY <2>5, <2>7
  <1>6. CASE /\ asyncQ' = [asyncQ EXCEPT ![p] = Tail(@)]
             /\ w' = [w EXCEPT ![p] = [pc |-> "check", job |-> j]]
    <2>1. /\ asyncQ'[p] = Tail(asyncQ[p]) /\ w'[p].job = j
          /\ \A q \in Procs \ {p} : asyncQ'[q] = asyncQ[q] /\ w'[q] = w[q]
      BY <1>6 DEF RQTypeOK
    <2>2. /\ DOMAIN asyncQ'[p] = 1 .. n - 1
          /\ \A i \in 1 .. n - 1 : asyncQ'[p][i] = asyncQ[p][i + 1] /\ i + 1 \in 1 .. n
      BY <1>2, <2>1
    <2>3. \A q \in Procs, k \in Jobs : Holds(q, k)' => Holds(q, k)
      <3> SUFFICES ASSUME NEW q \in Procs, NEW k \in Jobs, Holds(q, k)' PROVE Holds(q, k)
        OBVIOUS
      <3>1. CASE q # p
        BY <1>3, <2>1, <3>1 DEF Holds, Waits
      <3>2. CASE q = p
        <4>1. Waits(p, k)' => Waits(p, k)
          BY <1>2, <2>2 DEF Waits
        <4>3. 1 \in DOMAIN asyncQ[p] /\ asyncQ[p][1] = j
          BY <1>2
        <4>2. w'[p].job = k => Waits(p, k)
          BY <2>1, <4>3 DEF Waits
        <4> QED BY <1>3, <3>2, <4>1, <4>2 DEF Holds
      <3> QED BY <3>1, <3>2
    <2>4. Leased'
      BY <1>3, <2>3 DEF Leased
    <2>5. Once'
      <3>1. /\ \A i, k \in 1 .. n : asyncQ[p][i] = asyncQ[p][k] => i = k
            /\ \A i \in 1 .. n : asyncQ[p][i] # hand[p]
        BY <1>2 DEF Once
      <3>2. \A i \in 1 .. n - 1 : asyncQ'[p][i] # j
        <4> TAKE i \in 1 .. n - 1
        <4>1. asyncQ'[p][i] = asyncQ[p][i + 1] /\ i + 1 \in 1 .. n /\ i + 1 # 1 /\ 1 \in 1 .. n
          BY <1>2, <2>2
        <4> QED BY <1>2, <3>1, <4>1
      <3>3. hand[p] # j
        BY <1>2, <3>1
      <3>4. \A i, k \in 1 .. n - 1 : asyncQ'[p][i] = asyncQ'[p][k] => i = k
        <4> TAKE i, k \in 1 .. n - 1
        <4> HAVE asyncQ'[p][i] = asyncQ'[p][k]
        <4>1. asyncQ[p][i + 1] = asyncQ[p][k + 1] /\ i + 1 \in 1 .. n /\ k + 1 \in 1 .. n
          BY <2>2
        <4>2. i + 1 = k + 1
          BY <3>1, <4>1
        <4> QED BY <4>2
      <3> SUFFICES ASSUME NEW q \in Procs
                   PROVE  /\ \A i, k \in DOMAIN asyncQ'[q] :
                                asyncQ'[q][i] = asyncQ'[q][k] => i = k
                          /\ \A i \in DOMAIN asyncQ'[q] :
                                asyncQ'[q][i] # hand'[q] /\ asyncQ'[q][i] # w'[q].job
                          /\ hand'[q] # NoJob => hand'[q] # w'[q].job
        BY DEF Once
      <3>5. CASE q # p
        BY <1>3, <2>1, <3>5 DEF Once
      <3>6. CASE q = p
        <4>1. \A i \in 1 .. n - 1 : asyncQ'[p][i] # hand[p]
          BY <2>2, <3>1
        <4>2. \A i, k \in DOMAIN asyncQ'[p] : asyncQ'[p][i] = asyncQ'[p][k] => i = k
          BY <2>2, <3>4
        <4>3. \A i \in DOMAIN asyncQ'[p] : asyncQ'[p][i] # hand'[p] /\ asyncQ'[p][i] # w'[p].job
          BY <1>3, <2>1, <2>2, <3>2, <4>1
        <4> QED BY <1>3, <2>1, <3>3, <3>6, <4>2, <4>3
      <3> QED BY <3>5, <3>6
    <2> QED BY <2>4, <2>5
  <1> QED BY <1>5, <1>6 DEF Take, j

LEMMA GoesKeepsJob ==
  ASSUME RQTypeOK, NEW p \in Procs, NEW pc, Goes(p, pc)
  PROVE  /\ \A q \in Procs : w'[q].job = w[q].job
         /\ w'[p].pc = pc /\ \A q \in Procs \ {p} : w'[q] = w[q]
  <1>1. w \in [Procs -> WPlaces] /\ w' = [w EXCEPT ![p].pc = pc]
    BY DEF RQTypeOK, WPlaces, Goes
  <1>2. w'[p] = [w[p] EXCEPT !.pc = pc] /\ \A q \in Procs \ {p} : w'[q] = w[q]
    BY <1>1
  <1>3. w[p] \in WPlaces
    BY <1>1
  <1>4. w'[p].job = w[p].job /\ w'[p].pc = pc
    BY <1>2, <1>3 DEF WPlaces
  <1> QED BY <1>2, <1>4

\* The lemmas above, and the steps that leave every job where it is.
LEMMA NextLeases ==
  ASSUME RQTypeOK, ~setup.lapse, Leased, Once, [RQNext]_rqVars
  PROVE  Leased' /\ Once'
  <1> USE DEF redisVars, localVars, bounds, Others
  <1>1. CASE UNCHANGED rqVars
    BY <1>1, PlacesKept DEF rqVars, Leased
  <1>2. CASE User
    <2>1. UNCHANGED <<lock, hand, asyncQ, has, w>>
      BY <1>2 DEF User, Submit, Accept, Cancel, Pause, Handles
    <2> QED BY <2>1, PlacesKept DEF Leased
  <1>3. ASSUME NEW p \in Procs, Consume(p) PROVE Leased' /\ Once'
    BY <1>3, ClaimLeases, DeliverLeases DEF Consume
  <1>4. ASSUME NEW p \in Procs, Work(p) PROVE Leased' /\ Once'
    <2>1. w[p].pc # "idle" => w[p].job \in Jobs /\ lock[w[p].job] = p /\ w[p].job \in has[p]
      BY WorkerTypes DEF Leased, Holds
    <2>2. CASE Take(p)
      BY <2>2, TakeLeases
    <2>3. CASE Check(p)
      <3>1. w[p].job \in Jobs /\ asyncQ' = asyncQ /\ hand' = hand /\ has' = has
        BY <2>1, <2>3 DEF Check, At
      <3>2. CASE Rests(p) /\ (lock' = lock \/ lock' = Released(p, w[p].job))
        BY <3>1, <3>2, PlaceEmptied
      <3>3. CASE lock' = lock /\ (Goes(p, "defer") \/ Goes(p, "admit"))
        <4>1. \A q \in Procs : w'[q].job = w[q].job
          BY <3>3, GoesKeepsJob
        <4> QED BY <3>1, <3>3, <4>1, PlacesKept DEF Leased
      <3> QED BY <2>3, <3>2, <3>3 DEF Check
    <2>4. CASE Defer(p) \/ EndRun(p) \/ After(p)
      <3>1. UNCHANGED <<lock, hand, asyncQ, has>>
        BY <2>4 DEF Defer, EndRun, Ends, EndsPass1, After
      <3>2. \A q \in Procs : w'[q].job = w[q].job
        BY <2>4, GoesKeepsJob DEF Defer, EndRun, Ends, EndsPass1, After
      <3> QED BY <3>1, <3>2, PlacesKept DEF Leased
    <2>5. CASE Release(p)
      BY <2>1, <2>5, PlaceEmptied DEF Release, At
    <2>6. CASE Admit(p)
      <3>1. w[p].job \in has[p] /\ asyncQ' = asyncQ /\ hand' = hand /\ lock' = lock
        BY <2>1, <2>6 DEF Admit, At
      <3>2. \A q \in Procs : has[q] \subseteq has'[q]
        BY <2>6 DEF Admit, RQTypeOK
      <3>3. \A q \in Procs : w'[q].job = w[q].job
        BY <2>6, GoesKeepsJob DEF Admit
      <3> QED BY <3>1, <3>2, <3>3, PlacesKept DEF Leased
    <2>7. CASE AdmitBusy(p)
      BY <2>1, <2>7 DEF AdmitBusy, MayRun, At
    <2>8. CASE Unlock(p)
      BY <2>1, <2>8, PlaceEmptied DEF Unlock, At
    <2> QED BY <1>4, <2>2, <2>3, <2>4, <2>5, <2>6, <2>7, <2>8 DEF Work
  <1>5. ASSUME NEW p \in Procs, Move(p) PROVE Leased' /\ Once'
    <2>1. UNCHANGED <<lock, hand, asyncQ, has, w>>
      BY <1>5 DEF Move, ReadDue, TakeDue, PutDue, MovesOn
    <2> QED BY <2>1, PlacesKept DEF Leased
  <1>6. ASSUME NEW p \in Procs, Crash(p) PROVE Leased' /\ Once'
    <2>1. /\ hand'[p] = NoJob /\ asyncQ'[p] = <<>> /\ w'[p].job = NoJob
          /\ \A q \in Procs \ {p} : /\ hand'[q] = hand[q] /\ asyncQ'[q] = asyncQ[q]
                                     /\ w'[q] = w[q] /\ has'[q] = has[q]
          /\ \A j \in Jobs : lock[j] # p => lock'[j] = lock[j]
      BY <1>6 DEF Crash, RQTypeOK, Idle
    <2>2. \A q \in Procs, j \in Jobs : Holds(q, j)' => q # p /\ Holds(q, j)
      BY <2>1, RedisQueueAssumption DEF Holds, Waits
    <2>3. Leased'
      BY <2>1, <2>2 DEF Leased
    <2>4. Once'
      BY <2>1 DEF Once
    <2> QED BY <2>3, <2>4
  <1>7. ASSUME NEW p \in Procs, Comeback(p) PROVE Leased' /\ Once'
    <2>1. UNCHANGED <<lock, hand, asyncQ, has, w>>
      BY <1>7 DEF Comeback, Restart, Recover, Started
    <2> QED BY <2>1, PlacesKept DEF Leased
  <1>8. ASSUME NEW j \in Jobs, ExpireGhost(j) PROVE Leased' /\ Once'
    <2>1. UNCHANGED <<hand, asyncQ, has, w>>
      BY <1>8 DEF ExpireGhost
    <2>2. \A p \in Procs, k \in Jobs : Holds(p, k) => lock'[k] = p
      BY <1>8, RedisQueueAssumption DEF ExpireGhost, Leased, RQTypeOK
    <2> QED BY <2>1, <2>2, PlacesKept DEF Leased
  <1>9. ASSUME NEW j \in Jobs, Lapse(j) PROVE FALSE
    BY <1>9 DEF Lapse
  <1>10. ASSUME NEW j \in Jobs, ExpireMeta(j) PROVE Leased' /\ Once'
    <2>1. UNCHANGED <<lock, hand, asyncQ, has, w>>
      BY <1>10 DEF ExpireMeta
    <2> QED BY <2>1, PlacesKept DEF Leased
  <1> QED BY <1>1, <1>2, <1>3, <1>4, <1>5, <1>6, <1>7, <1>8, <1>9, <1>10 DEF RQNext

-----------------------------------------------------------------------------
\* Attempts.

LEMMA CountsType == RQTypeOK => \A j \in Jobs : starts[j] \in Nat /\ Counts(j) \in Nat
  BY RedisQueueAssumption DEF RQTypeOK, Counts

\* Steps in which no run begins.
LEMMA CountedKept ==
  ASSUME RQTypeOK, RQTypeOK', Counted, starts' = starts,
         \A j \in Jobs : Counts(j) <= Counts(j)',
         \A p \in Procs, j \in Jobs :
            Waiting(p, j)' => Waiting(p, j) \/ starts[j] < Counts(j)'
  PROVE  Counted'
  <1> SUFFICES ASSUME NEW j \in Jobs
               PROVE  /\ starts'[j] <= Counts(j)'
                      /\ \A p \in Procs : Waiting(p, j)' => starts'[j] < Counts(j)'
    BY DEF Counted
  <1>1. starts[j] \in Nat /\ Counts(j) \in Nat /\ Counts(j)' \in Nat
    <2>1. Counts(j)' \in Nat
      BY RedisQueueAssumption DEF RQTypeOK, Counts
    <2> QED BY <2>1, CountsType
  <1> QED BY <1>1 DEF Counted

LEMMA WorkCounted ==
  ASSUME RQTypeOK, RQTypeOK', Leased, Once, Counted, NEW p \in Procs, Work(p)
  PROVE  Counted'
  <1> USE DEF redisVars, bounds, Others
  <1>1. spent' = spent /\ attempts' = attempts => \A j \in Jobs : Counts(j) <= Counts(j)'
    <2>1. \A j \in Jobs : Counts(j) \in Nat
      BY CountsType
    <2> QED BY <2>1 DEF Counts
  <1>2. CASE Take(p)
    <2>1. starts' = starts /\ attempts' = attempts /\ spent' = spent
      BY <1>2 DEF Take
    <2>2. \A q \in Procs, k \in Jobs : Waiting(q, k)' => Waiting(q, k)
      <3> SUFFICES ASSUME NEW q \in Procs, NEW k \in Jobs, Waiting(q, k)' PROVE Waiting(q, k)
        OBVIOUS
      <3>1. asyncQ[p] \in Seq(Jobs) /\ asyncQ[p] # <<>>
        BY <1>2 DEF RQTypeOK, Take
      <3>2. CASE q # p
        <4>1. asyncQ'[q] = asyncQ[q] /\ w'[q] = w[q]
          BY <1>2, <3>2 DEF Take, RQTypeOK
        <4> QED BY <4>1 DEF Waiting, Waits
      <3>3. CASE q = p
        <4>1. /\ asyncQ'[p] \in {Append(Tail(asyncQ[p]), Head(asyncQ[p])), Tail(asyncQ[p])}
              /\ w'[p] = w[p] \/ w'[p].job = Head(asyncQ[p])
          <5>1. /\ asyncQ \in [Procs -> Seq(Jobs)]
                /\ w \in [Procs -> [pc : Steps, job : Jobs \cup {NoJob}]]
            BY DEF RQTypeOK
          <5> QED BY <1>2, <5>1 DEF Take
        <4>2. \A i \in DOMAIN asyncQ'[p] : \E m \in DOMAIN asyncQ[p] : asyncQ'[p][i] = asyncQ[p][m]
          <5>1. CASE asyncQ'[p] = Append(Tail(asyncQ[p]), Head(asyncQ[p]))
            BY <3>1, <5>1
          <5>2. CASE asyncQ'[p] = Tail(asyncQ[p])
            BY <3>1, <5>2
          <5> QED BY <4>1, <5>1, <5>2
        <4>3. 1 \in DOMAIN asyncQ[p] /\ asyncQ[p][1] = Head(asyncQ[p])
          BY <3>1
        <4> QED BY <3>3, <4>1, <4>2, <4>3 DEF Waiting, Waits
      <3> QED BY <3>2, <3>3
    <2> QED BY <1>1, <2>1, <2>2, CountedKept
  <1>3. CASE Admit(p)
    <2> DEFINE j == w[p].job
    <2>1. j \in Jobs /\ Waiting(p, j) /\ lock[j] = p
      BY <1>3, WorkerTypes DEF Admit, At, Waiting, Leased, Holds
    <2>2. /\ asyncQ' = asyncQ /\ attempts' = attempts /\ spent' = spent
          /\ \A q \in Procs \ {p} : w'[q] = w[q]
          /\ w'[p].job = j /\ w'[p].pc \in {"run", "after"}
      BY <1>3, GoesKeepsJob DEF Admit
    <2>3. \A q \in Procs, k \in Jobs : Waiting(q, k)' => Waiting(q, k) /\ k # j
      <3> SUFFICES ASSUME NEW q \in Procs, NEW k \in Jobs, Waiting(q, k)'
                   PROVE  Waiting(q, k) /\ k # j
        OBVIOUS
      <3>1. CASE q # p
        <4>1. Waiting(q, k)
          BY <2>2, <3>1 DEF Waiting, Waits
        <4>2. Holds(q, k)
          BY <4>1 DEF Waiting, Holds
        <4> QED BY <2>1, <3>1, <4>1, <4>2 DEF Leased
      <3>2. CASE q = p
        BY <2>2, <3>2 DEF Waiting, Waits, Once
      <3> QED BY <3>1, <3>2
    <2>4. starts[j] < Counts(j)
      BY <2>1 DEF Counted
    <2>5. \A k \in Jobs : starts[k] \in Nat /\ Counts(k) \in Nat
      BY CountsType
    <2>6. starts'[j] <= Counts(j) /\ \A k \in Jobs \ {j} : starts'[k] = starts[k]
      <3>1. starts' = starts \/ starts' = [starts EXCEPT ![j] = @ + 1]
        BY <1>3 DEF Admit
      <3>2. starts \in [Jobs -> Nat]
        BY DEF RQTypeOK
      <3> HIDE DEF j
      <3>3. CASE starts' = starts
        BY <2>1, <2>4, <2>5, <3>3
      <3>4. CASE starts' = [starts EXCEPT ![j] = @ + 1]
        BY <2>1, <2>4, <2>5, <3>2, <3>4
      <3> QED BY <3>1, <3>3, <3>4
    <2> HIDE DEF j
    <2>7. \A k \in Jobs : Counts(k)' = Counts(k)
      BY <2>2 DEF Counts
    <2> QED BY <2>3, <2>6, <2>7 DEF Counted
  <1>4. CASE Check(p)
    <2>1. UNCHANGED <<asyncQ, attempts, spent, starts>> /\ w[p].pc = "check"
      BY <1>4 DEF Check, At
    <2>2. /\ \A q \in Procs \ {p} : w'[q] = w[q]
          /\ w'[p].job = w[p].job \/ w'[p].job = NoJob
      BY <1>4, GoesKeepsJob DEF Check, Rests, Idle, RQTypeOK
    <2>3. \A q \in Procs, k \in Jobs : Waiting(q, k)' => Waiting(q, k)
      BY <2>1, <2>2, RedisQueueAssumption DEF Waiting, Waits
    <2> QED BY <1>1, <2>1, <2>3, CountedKept
  <1>5. CASE Defer(p) \/ EndRun(p) \/ After(p)
    <2>1. UNCHANGED <<asyncQ, attempts, spent, starts>>
      BY <1>5 DEF Defer, EndRun, Ends, EndsPass1, After
    <2>2. /\ \A q \in Procs \ {p} : w'[q] = w[q]
          /\ w'[p].pc \notin {"check", "admit"}
      BY <1>5, GoesKeepsJob DEF Defer, EndRun, Ends, EndsPass1, After
    <2>3. \A q \in Procs, k \in Jobs : Waiting(q, k)' => Waiting(q, k)
      BY <2>1, <2>2 DEF Waiting, Waits
    <2> QED BY <1>1, <2>1, <2>3, CountedKept
  <1>6. CASE Release(p) \/ AdmitBusy(p) \/ Unlock(p)
    <2>1. UNCHANGED <<asyncQ, attempts, spent, starts>>
      BY <1>6 DEF Release, AdmitBusy, Unlock
    <2>2. \A q \in Procs : w'[q] = w[q] \/ w'[q].job = NoJob
      BY <1>6 DEF Release, AdmitBusy, Unlock, Rests, Idle, RQTypeOK
    <2>3. \A q \in Procs, k \in Jobs : Waiting(q, k)' => Waiting(q, k)
      BY <2>1, <2>2, RedisQueueAssumption DEF Waiting, Waits
    <2> QED BY <1>1, <2>1, <2>3, CountedKept
  <1> QED BY <1>2, <1>3, <1>4, <1>5, <1>6 DEF Work

LEMMA NextCounted ==
  ASSUME RQTypeOK, RQTypeOK', ~setup.lapse, Leased, Once, Counted, [RQNext]_rqVars
  PROVE  Counted'
  <1> USE DEF redisVars, localVars, bounds, Others
  <1>1. spent' = spent /\ attempts' = attempts => \A j \in Jobs : Counts(j) <= Counts(j)'
    <2>1. \A j \in Jobs : Counts(j) \in Nat
      BY CountsType
    <2> QED BY <2>1 DEF Counts
  <1>2. ASSUME UNCHANGED <<asyncQ, w, attempts, spent, starts>> PROVE Counted'
    <2>1. \A q \in Procs, k \in Jobs : Waiting(q, k)' => Waiting(q, k)
      BY <1>2 DEF Waiting, Waits
    <2> QED BY <1>1, <1>2, <2>1, CountedKept
  <1>3. CASE UNCHANGED rqVars
    BY <1>2, <1>3 DEF rqVars
  <1>4. CASE User
    BY <1>2, <1>4 DEF User, Submit, Accept, Cancel, Pause, Handles
  <1>5. ASSUME NEW p \in Procs, Claim(p) \/ Move(p) \/ Comeback(p) PROVE Counted'
    BY <1>2, <1>5 DEF Claim, Move, ReadDue, TakeDue, PutDue, MovesOn, Comeback, Restart,
                      Recover, Started
  <1>6. ASSUME NEW j \in Jobs, ExpireGhost(j) \/ Lapse(j) PROVE Counted'
    BY <1>2, <1>6 DEF ExpireGhost, Lapse
  <1>7. ASSUME NEW p \in Procs, Deliver(p) PROVE Counted'
    <2>0. PICK j \in Jobs : j = hand[p]
      BY <1>7 DEF Deliver, RQTypeOK
    <2>1. starts' = starts /\ spent' = spent /\ w' = w /\ j \in Jobs
      BY <1>7 DEF Deliver, RQTypeOK
    <2>2. \A k \in Jobs : /\ starts[k] \in Nat /\ attempts[k] \in Nat /\ spent[k] \in Nat
                           /\ starts[k] <= spent[k] + attempts[k]
      BY RedisQueueAssumption DEF RQTypeOK, Counted, Counts
    <2>3. CASE attempts' = attempts /\ asyncQ' = asyncQ
      BY <1>2, <2>1, <2>3
    <2>4. CASE /\ attempts' = [attempts EXCEPT ![j] = @ + 1]
               /\ asyncQ' = [asyncQ EXCEPT ![p] = Append(@, j)]
      <3>0. attempts \in [Jobs -> 0 .. MaxAttempts] /\ asyncQ \in [Procs -> Seq(Jobs)]
        BY DEF RQTypeOK
      <3>1. /\ attempts \in [Jobs -> Nat]
            /\ asyncQ[p] \in Seq(Jobs) /\ asyncQ'[p] = Append(asyncQ[p], j)
            /\ \A q \in Procs \ {p} : asyncQ'[q] = asyncQ[q]
        <4>1. attempts \in [Jobs -> Nat]
          BY <3>0, RedisQueueAssumption
        <4>2. asyncQ[p] \in Seq(Jobs) /\ asyncQ'[p] = Append(asyncQ[p], j)
          BY <2>4, <3>0
        <4>3. \A q \in Procs \ {p} : asyncQ'[q] = asyncQ[q]
          BY <2>4, <3>0
        <4> QED BY <4>1, <4>2, <4>3
      <3>2. attempts'[j] = attempts[j] + 1 /\ \A k \in Jobs \ {j} : attempts'[k] = attempts[k]
        BY <2>1, <2>4, <3>1
      <3>3. \A k \in Jobs : Counts(k) <= Counts(k)'
        BY <2>1, <2>2, <3>2 DEF Counts
      <3>4. starts[j] < Counts(j)'
        BY <2>1, <2>2, <3>2 DEF Counts
      <3>5. \A i \in DOMAIN asyncQ'[p] :
              asyncQ'[p][i] = j \/ (i \in DOMAIN asyncQ[p] /\ asyncQ'[p][i] = asyncQ[p][i])
        BY <2>1, <3>1
      <3>6. \A q \in Procs, k \in Jobs :
              Waiting(q, k)' => Waiting(q, k) \/ starts[k] < Counts(k)'
        BY <2>1, <3>1, <3>4, <3>5 DEF Waiting, Waits
      <3> QED BY <2>1, <3>3, <3>6, CountedKept
    <2> QED BY <1>7, <2>0, <2>3, <2>4 DEF Deliver
  <1>8. ASSUME NEW p \in Procs, Work(p) PROVE Counted'
    BY <1>8, WorkCounted
  <1>9. ASSUME NEW p \in Procs, Crash(p) PROVE Counted'
    <2>1. /\ starts' = starts /\ attempts' = attempts /\ spent' = spent
          /\ asyncQ'[p] = <<>> /\ w'[p].job = NoJob
          /\ \A q \in Procs \ {p} : asyncQ'[q] = asyncQ[q] /\ w'[q] = w[q]
      BY <1>9 DEF Crash, RQTypeOK, Idle
    <2>2. \A q \in Procs, k \in Jobs : Waiting(q, k)' => Waiting(q, k)
      BY <2>1, RedisQueueAssumption DEF Waiting, Waits
    <2> QED BY <1>1, <2>1, <2>2, CountedKept
  <1>10. ASSUME NEW j \in Jobs, ExpireMeta(j) PROVE Counted'
    <2>1. /\ attempts' = [attempts EXCEPT ![j] = 0]
          /\ spent' = [spent EXCEPT ![j] = @ + attempts[j]]
          /\ UNCHANGED <<asyncQ, w, starts>>
      BY <1>10 DEF ExpireMeta
    <2>2. /\ attempts \in [Jobs -> 0 .. MaxAttempts] /\ spent \in [Jobs -> Nat]
          /\ MaxAttempts \in Nat
      BY RedisQueueAssumption DEF RQTypeOK
    <2>3. \A k \in Jobs : Counts(k) <= Counts(k)'
      BY <2>1, <2>2 DEF Counts
    <2>4. \A q \in Procs, k \in Jobs : Waiting(q, k)' => Waiting(q, k)
      BY <2>1 DEF Waiting, Waits
    <2> QED BY <2>1, <2>3, <2>4, CountedKept
  <1> QED BY <1>3, <1>4, <1>5, <1>6, <1>7, <1>8, <1>9, <1>10 DEF RQNext, Consume

-----------------------------------------------------------------------------

Inv == RQTypeOK /\ LeaseInv

LEMMA SetupStays == [RQNext]_rqVars => setup' = setup
  BY DEF RQNext, rqVars, redisVars, localVars, bounds, Others, User, Submit, Accept, Cancel,
         Pause, Handles, Consume, Claim, Deliver, Work, Take, Check, Defer, Release, Admit,
         AdmitBusy, EndRun, Ends, EndsPass1, After, Unlock, Move, ReadDue, TakeDue, PutDue,
         MovesOn, Comeback, Restart, Recover, Started, ExpireGhost, Lapse, ExpireMeta, Crash

LEMMA NextInv == Inv /\ [RQNext]_rqVars => Inv'
  <1> SUFFICES ASSUME Inv, [RQNext]_rqVars PROVE Inv'
    OBVIOUS
  <1>1. RQTypeOK'
    BY NextType DEF Inv
  <1>2. setup' = setup
    BY SetupStays
  <1>3. CASE setup.lapse
    BY <1>1, <1>2, <1>3 DEF Inv, LeaseInv
  <1>4. CASE ~setup.lapse
    BY <1>1, <1>4, NextLeases, NextCounted DEF Inv, LeaseInv
  <1> QED BY <1>3, <1>4

LEMMA Invariance == RQSpec => []Inv
  <1>1. RQInit => Inv
    BY InitType, InitLease DEF Inv
  <1> QED BY <1>1, NextInv, PTL DEF RQSpec

\* Two instances that run a job both have its lock.
LEMMA InvExcludes == Inv => OneRunner
  <1> SUFFICES ASSUME Inv, ~setup.lapse, NEW p \in Procs, NEW q \in Procs, NEW j \in Jobs,
                      Runs(p, j), Runs(q, j)
               PROVE  p = q
    BY DEF OneRunner
  <1> QED BY DEF Inv, LeaseInv, Leased, Holds, Runs

\* No job that comes to the workers by claims is run by two instances at once,
\* whoever dies with a claim and whatever is submitted again meanwhile, unless a
\* lock lapses under a live holder: the lock of the claim covers the way to the
\* worker and the run.  The jobs an instance recovers when it starts come without
\* a claim and are not covered.
THEOREM OneRunnerHolds == RQSpec => []OneRunner
  BY Invariance, InvExcludes, PTL

-----------------------------------------------------------------------------
\* The refinement.

RunnersOf == [j \in Jobs |-> {p \in Procs : Runs(p, j)}]
AbsVars == <<RunnersOf, starts, spent, setup.lapse>>

\* Only the beginning and the end of runs, and deaths, change who runs what.
LEMMA RunsChange ==
  ASSUME RQTypeOK, [RQNext]_rqVars,
         \A p \in Procs : ~(At(p, "admit") /\ Admit(p)) /\ ~EndRun(p) /\ ~Crash(p)
  PROVE  /\ UNCHANGED <<RunnersOf, starts, setup>>
         /\ spent' = spent \/ \E j \in Jobs : ExpireMeta(j)
  <1> USE DEF redisVars, localVars, bounds, Others
  <1>1. starts' = starts /\ setup' = setup
    BY DEF RQNext, rqVars, User, Submit, Accept, Cancel, Pause, Handles, Consume, Claim,
           Deliver, Work, Take, Check, Defer, Release, Admit, AdmitBusy, After, Unlock, Move,
           ReadDue, TakeDue, PutDue, MovesOn, Comeback, Restart, Recover, Started, ExpireGhost,
           Lapse, ExpireMeta
  <1>4. spent' = spent \/ \E j \in Jobs : ExpireMeta(j)
    BY DEF RQNext, rqVars, User, Submit, Accept, Cancel, Pause, Handles, Consume, Claim,
           Deliver, Work, Take, Check, Defer, Release, Admit, AdmitBusy, After, Unlock, Move,
           ReadDue, TakeDue, PutDue, MovesOn, Comeback, Restart, Recover, Started, ExpireGhost,
           Lapse
  <1>2. \A q \in Procs, j \in Jobs : Runs(q, j)' <=> Runs(q, j)
    <2>1. CASE w' = w
      BY <2>1 DEF Runs
    <2>2. ASSUME NEW p \in Procs, w[p].pc # "run", w'[p].pc # "run",
                 \A q \in Procs \ {p} : w'[q] = w[q]
          PROVE  \A q \in Procs, j \in Jobs : Runs(q, j)' <=> Runs(q, j)
      BY <2>2 DEF Runs
    <2>3. ASSUME NEW p \in Procs, Work(p)
          PROVE  \A q \in Procs, j \in Jobs : Runs(q, j)' <=> Runs(q, j)
      <3>1. CASE Take(p)
        <4>1. w' = w \/ w' = [w EXCEPT ![p] = [pc |-> "check", job |-> Head(asyncQ[p])]]
          BY <3>1 DEF Take
        <4>2. w[p].pc # "run"
          BY <3>1 DEF Take, At
        <4> QED BY <2>1, <2>2, <4>1, <4>2 DEF RQTypeOK
      <3>2. CASE Check(p) \/ Defer(p) \/ After(p)
        <4>1. \/ Goes(p, "defer") \/ Goes(p, "admit") \/ Goes(p, "release")
              \/ Goes(p, "unlock") \/ Rests(p)
          BY <3>2 DEF Check, Defer, After
        <4>2. w[p].pc # "run"
          BY <3>2 DEF Check, Defer, After, At
        <4>3. w'[p].pc # "run" /\ \A q \in Procs \ {p} : w'[q] = w[q]
          BY <4>1, GoesKeepsJob DEF Rests, Idle, RQTypeOK
        <4> QED BY <2>2, <4>2, <4>3
      <3>3. CASE Release(p) \/ AdmitBusy(p) \/ Unlock(p)
        <4>1. Rests(p) /\ w[p].pc # "run"
          BY <3>3 DEF Release, AdmitBusy, Unlock, At
        <4>2. w'[p].pc # "run" /\ \A q \in Procs \ {p} : w'[q] = w[q]
          BY <4>1 DEF Rests, Idle, RQTypeOK
        <4> QED BY <2>2, <4>1, <4>2
      <3> QED BY <2>3, <3>1, <3>2, <3>3 DEF Work, Admit
    <2>4. (\E p \in Procs : Work(p)) \/ w' = w
      BY DEF RQNext, rqVars, User, Submit, Accept, Cancel, Pause, Handles, Consume, Claim,
             Deliver, Move, ReadDue, TakeDue, PutDue, MovesOn, Comeback, Restart, Recover,
             Started, ExpireGhost, Lapse, ExpireMeta
    <2> QED BY <2>1, <2>3, <2>4
  <1>3. RunnersOf' = RunnersOf
    BY <1>2 DEF RunnersOf
  <1> QED BY <1>1, <1>3, <1>4

\* A run that ends, or whose instance dies, leaves the runners of its job.
LEMMA RunEnds ==
  ASSUME RQTypeOK, NEW p \in Procs, w[p].pc = "run", w'[p].pc # "run",
         \A q \in Procs \ {p} : w'[q] = w[q], starts' = starts, spent' = spent,
         setup' = setup
  PROVE  Exclusive!End(p, w[p].job)
  <1>1. w[p].job \in Jobs
    BY WorkerTypes
  <1>2. RunnersOf' = [RunnersOf EXCEPT ![w[p].job] = @ \ {p}]
    BY <1>1 DEF RunnersOf, Runs
  <1>3. p \in RunnersOf[w[p].job]
    BY <1>1 DEF RunnersOf, Runs
  <1> QED BY <1>2, <1>3 DEF Exclusive!End, RunnersOf

LEMMA StepImplements ==
  ASSUME Inv, ~setup.lapse, [RQNext]_rqVars
  PROVE  Exclusive!ERNext \/ UNCHANGED AbsVars
  <1> USE DEF bounds
  <1>1. ASSUME NEW p \in Procs, Admit(p)
        PROVE  Exclusive!ERNext \/ UNCHANGED AbsVars
    <2> DEFINE j == w[p].job
    <2>1. j \in Jobs /\ w[p].pc = "admit" /\ setup' = setup /\ spent' = spent
      BY <1>1, WorkerTypes DEF Inv, Admit, At
    <2>2. \A q \in Procs : ~Runs(q, j)
      BY <2>1 DEF Inv, LeaseInv, Leased, Holds, Runs
    <2>3. starts[j] < spent[j] + MaxAttempts
      <3>1. /\ starts[j] < spent[j] + attempts[j] /\ attempts[j] \in 0 .. MaxAttempts
            /\ starts[j] \in Nat /\ spent[j] \in Nat
        BY <2>1 DEF Inv, LeaseInv, Counted, Counts, Waiting, RQTypeOK
      <3> QED BY <3>1, RedisQueueAssumption
    <2>4. CASE Goes(p, "after") /\ starts' = starts
      <3>1. w'[p].pc = "after" /\ \A q \in Procs \ {p} : w'[q] = w[q]
        BY <2>4, GoesKeepsJob DEF Inv
      <3>2. RunnersOf' = RunnersOf
        BY <2>1, <3>1 DEF RunnersOf, Runs
      <3> QED BY <2>1, <2>4, <3>2 DEF AbsVars
    <2>5. CASE Goes(p, "run") /\ starts' = [starts EXCEPT ![j] = @ + 1]
      <3>1. /\ w'[p].pc = "run" /\ w'[p].job = j
            /\ \A q \in Procs \ {p} : w'[q] = w[q]
        BY <2>5, GoesKeepsJob DEF Inv
      <3>2. RunnersOf' = [RunnersOf EXCEPT ![j] = @ \cup {p}]
        BY <2>1, <3>1 DEF RunnersOf, Runs
      <3>3. RunnersOf[j] = {}
        BY <2>1, <2>2 DEF RunnersOf
      <3>4. Exclusive!Begin(p, j)
        BY <2>1, <2>3, <2>5, <3>2, <3>3 DEF Exclusive!Begin, RunnersOf
      <3> QED BY <2>1, <3>4 DEF Exclusive!ERNext
    <2> QED BY <1>1, <2>4, <2>5 DEF Admit
  <1>2. ASSUME NEW p \in Procs, EndRun(p)
        PROVE  Exclusive!ERNext
    <2>1. /\ w[p].pc = "run" /\ w'[p].pc = "after"
          /\ \A q \in Procs \ {p} : w'[q] = w[q]
          /\ starts' = starts /\ setup' = setup /\ spent' = spent
      BY <1>2, GoesKeepsJob DEF Inv, EndRun, Ends, EndsPass1, At
    <2>2. w[p].job \in Jobs
      BY <2>1, WorkerTypes DEF Inv
    <2> QED BY <2>1, <2>2, RunEnds DEF Inv, Exclusive!ERNext
  <1>3. ASSUME NEW p \in Procs, Crash(p)
        PROVE  Exclusive!ERNext \/ UNCHANGED AbsVars
    <2>1. /\ w'[p].pc = "idle" /\ \A q \in Procs \ {p} : w'[q] = w[q]
          /\ starts' = starts /\ setup' = setup /\ spent' = spent
      BY <1>3 DEF Inv, Crash, Idle, RQTypeOK
    <2>2. CASE w[p].pc = "run"
      <3>1. w[p].job \in Jobs
        BY <2>2, WorkerTypes DEF Inv
      <3> QED BY <2>1, <2>2, <3>1, RunEnds DEF Inv, Exclusive!ERNext
    <2>3. CASE w[p].pc # "run"
      <3>1. RunnersOf' = RunnersOf
        BY <2>1, <2>3 DEF RunnersOf, Runs
      <3> QED BY <2>1, <3>1 DEF AbsVars
    <2> QED BY <2>2, <2>3
  <1>4. ASSUME NEW j \in Jobs, ExpireMeta(j), UNCHANGED <<RunnersOf, starts, setup>>
        PROVE  Exclusive!ERNext \/ UNCHANGED AbsVars
    <2>1. spent' = [spent EXCEPT ![j] = @ + attempts[j]]
      BY <1>4 DEF ExpireMeta
    <2>2. attempts[j] \in 0 .. MaxAttempts /\ MaxAttempts \in Nat /\ spent \in [Jobs -> Nat]
      BY RedisQueueAssumption DEF Inv, RQTypeOK
    <2>3. CASE attempts[j] = 0
      BY <1>4, <2>1, <2>2, <2>3 DEF AbsVars
    <2>4. CASE attempts[j] # 0
      <3>1. attempts[j] \in 1 .. MaxAttempts
        BY <2>2, <2>4
      <3>2. Exclusive!Renew(j)
        BY <1>4, <2>1, <3>1 DEF Exclusive!Renew, RunnersOf
      <3> QED BY <3>2 DEF Exclusive!ERNext
    <2> QED BY <2>3, <2>4
  <1>5. CASE \A p \in Procs : ~Admit(p) /\ ~EndRun(p) /\ ~Crash(p)
    BY <1>4, <1>5, RunsChange DEF Inv, AbsVars
  <1> QED BY <1>1, <1>2, <1>3, <1>5

LEMMA InitImplements == RQInit => Exclusive!ERInit
  <1> SUFFICES ASSUME RQInit PROVE Exclusive!ERInit
    OBVIOUS
  <1>1. \A p \in Procs, j \in Jobs : ~Runs(p, j)
    BY DEF RQInit, Runs, Idle
  <1>2. setup.lapse \in BOOLEAN
    BY RedisQueueAssumption DEF RQInit
  <1> QED BY <1>1, <1>2 DEF RQInit, Exclusive!ERInit

\* As long as no lock lapses under a live holder, and for jobs that come by
\* claims, the queue implements runs that exclude each other and are at most
\* MaxAttempts in the life of one counter: with every counter that expires, as
\* many runs may be added as it had counted.
THEOREM RedisImplementsExclusiveRuns == RQSpec /\ ~setup.lapse => ImplementsExclusiveRuns
  <1>1. ~setup.lapse /\ [RQNext]_rqVars => (~setup.lapse)'
    BY SetupStays
  <1>2. RQSpec /\ ~setup.lapse => []~setup.lapse
    BY <1>1, PTL DEF RQSpec
  <1>3. Inv /\ ~setup.lapse /\ [RQNext]_rqVars =>
          [Exclusive!ERNext]_<<[j \in Jobs |-> {p \in Procs : Runs(p, j)}], starts, spent,
                               setup.lapse>>
    BY StepImplements DEF AbsVars, RunnersOf
  <1> QED BY <1>2, <1>3, InitImplements, Invariance, PTL
          DEF RQSpec, ImplementsExclusiveRuns, Exclusive!ERSpec
-----------------------------------------------------------------------------
\* What the rows and the counters of running jobs say of the workers.

\* A worker about to start a run has found its job not done, and nobody else can
\* have finished it since.
NotDone == \A p \in Procs : w[p].pc = "admit" => row[w[p].job] # "DONE"

\* Without crashes, whoever counts a job as running takes it off again.
Accounted == \A j \in running : \E p \in Procs : w[p].job = j /\ w[p].pc \in {"run", "after"}

WorkersInv == ~setup.lapse => NotDone /\ (setup.crashes = 0 => Accounted)

LEMMA InitWorkers == RQInit => WorkersInv
  BY DEF RQInit, WorkersInv, NotDone, Accounted, Idle

\* Every step but a check, an admission and the end of a run.
LEMMA OtherSteps ==
  ASSUME RQTypeOK, [RQNext]_rqVars,
         \A p \in Procs : ~Check(p) /\ ~Admit(p) /\ ~EndRun(p)
  PROVE  /\ \A q \in Procs : w'[q].pc = "admit" => w'[q] = w[q]
         /\ \A j \in Jobs : row'[j] = "DONE" => row[j] = "DONE"
  <1> USE DEF redisVars, localVars, bounds, Others
  <1>1. ASSUME row' \in [Jobs -> States], \E j \in Jobs, st \in States \ {"DONE"} :
                  row' = [row EXCEPT ![j] = st]
        PROVE  \A j \in Jobs : row'[j] = "DONE" => row[j] = "DONE"
    BY <1>1 DEF RQTypeOK
  <1>2. RQTypeOK'
    BY NextType
  <1>3. row' \in [Jobs -> States]
    BY <1>2 DEF RQTypeOK
  <1>4. row' = row \/ \E j \in Jobs, st \in States \ {"DONE"} : row' = [row EXCEPT ![j] = st]
    BY DEF RQNext, rqVars, User, Submit, Accept, Cancel, Pause, Handles, Consume, Claim,
           Deliver, Work, Take, Defer, Release, AdmitBusy, After, Unlock, Move, ReadDue,
           TakeDue, PutDue, MovesOn, Comeback, Restart, Recover, Started, ExpireGhost,
           Lapse, ExpireMeta, Crash, States
  <1>5. \A j \in Jobs : row'[j] = "DONE" => row[j] = "DONE"
    BY <1>1, <1>3, <1>4
  <1>6. \/ w' = w
        \/ \E p \in Procs : \/ Goes(p, "release") \/ Goes(p, "unlock") \/ Rests(p)
                            \/ \E j \in Jobs : w' = [w EXCEPT ![p] = [pc |-> "check", job |-> j]]
    <2>1. ASSUME NEW p \in Procs, Take(p)
          PROVE  w' = w \/ \E j \in Jobs : w' = [w EXCEPT ![p] = [pc |-> "check", job |-> j]]
      <3>1. asyncQ[p] \in Seq(Jobs) /\ asyncQ[p] # <<>>
        BY <2>1 DEF RQTypeOK, Take
      <3>2. Head(asyncQ[p]) \in Jobs
        BY <3>1
      <3> QED BY <2>1, <3>2 DEF Take
    <2>2. ASSUME NEW p \in Procs, Work(p), ~Take(p)
          PROVE  Goes(p, "release") \/ Goes(p, "unlock") \/ Rests(p)
      BY <2>2 DEF Work, Defer, Release, AdmitBusy, After, Unlock
    <2>3. ASSUME NEW p \in Procs, Crash(p) PROVE Rests(p)
      BY <2>3 DEF Crash, Rests
    <2>4. \/ w' = w
          \/ \E p \in Procs : Work(p) \/ Crash(p)
      BY DEF RQNext, rqVars, User, Submit, Accept, Cancel, Pause, Handles, Consume, Claim,
             Deliver, Move, ReadDue, TakeDue, PutDue, MovesOn, Comeback, Restart, Recover,
             Started, ExpireGhost, Lapse, ExpireMeta
    <2> QED BY <2>1, <2>2, <2>3, <2>4
  <1>7. \A q \in Procs : w'[q].pc = "admit" => w'[q] = w[q]
    <2> SUFFICES ASSUME NEW p \in Procs,
                        \/ Goes(p, "release") \/ Goes(p, "unlock") \/ Rests(p)
                        \/ \E j \in Jobs : w' = [w EXCEPT ![p] = [pc |-> "check", job |-> j]]
                 PROVE  w'[p].pc # "admit" /\ \A q \in Procs \ {p} : w'[q] = w[q]
      BY <1>6
    <2> QED BY GoesKeepsJob DEF Rests, Idle, RQTypeOK
  <1> QED BY <1>5, <1>7

LEMMA NextNotDone ==
  ASSUME RQTypeOK, Leased, NotDone, [RQNext]_rqVars
  PROVE  NotDone'
  <1>1. \A p \in Procs : w[p].pc # "idle" => w[p].job \in Jobs
    BY WorkerTypes
  <1>2. CASE \A p \in Procs : ~Check(p) /\ ~Admit(p) /\ ~EndRun(p)
    <2>1. /\ \A q \in Procs : w'[q].pc = "admit" => w'[q] = w[q]
          /\ \A j \in Jobs : row'[j] = "DONE" => row[j] = "DONE"
      BY <1>2, OtherSteps
    <2> QED BY <1>1, <2>1 DEF NotDone
  <1>3. ASSUME NEW p \in Procs, Check(p) PROVE NotDone'
    <2>1. row' = row
      BY <1>3 DEF Check, Others
    <2>2. CASE Rests(p) \/ Goes(p, "defer")
      <3>1. w'[p].pc # "admit" /\ \A q \in Procs \ {p} : w'[q] = w[q]
        BY <2>2, GoesKeepsJob DEF Rests, Idle, RQTypeOK
      <3> QED BY <2>1, <3>1 DEF NotDone
    <2>3. CASE row[w[p].job] \notin Terminal /\ Goes(p, "admit")
      <3>1. w'[p].job = w[p].job /\ \A q \in Procs \ {p} : w'[q] = w[q]
        BY <2>3, GoesKeepsJob
      <3> QED BY <2>1, <2>3, <3>1 DEF NotDone, Terminal
    <2> QED BY <1>3, <2>2, <2>3 DEF Check
  <1>4. ASSUME NEW p \in Procs, Admit(p) \/ EndRun(p) PROVE NotDone'
    <2>1. w[p].pc # "idle" /\ (Goes(p, "run") \/ Goes(p, "after"))
      BY <1>4 DEF Admit, EndRun, Ends, EndsPass1, At
    <2>2. w[p].job \in Jobs /\ \A q \in Procs \ {p} : w[q].job # w[p].job
      BY <1>1, <2>1 DEF Leased, Holds
    <2>3. w'[p].pc # "admit" /\ \A q \in Procs \ {p} : w'[q] = w[q]
      BY <2>1, GoesKeepsJob
    <2>4. \E st \in States : row' = [row EXCEPT ![w[p].job] = st]
      BY <1>4 DEF Admit, EndRun, Ends, EndsPass1, States
    <2>5. \A j \in Jobs \ {w[p].job} : row'[j] = row[j]
      BY <2>4 DEF RQTypeOK
    <2> QED BY <1>1, <2>2, <2>3, <2>5 DEF NotDone
  <1> QED BY <1>2, <1>3, <1>4

LEMMA NextAccounted ==
  ASSUME RQTypeOK, setup.crashes = 0, Accounted, [RQNext]_rqVars
  PROVE  Accounted'
  <1> USE DEF redisVars, localVars, bounds, Others
  <1>1. ASSUME running' = running, w' = w PROVE Accounted'
    BY <1>1 DEF Accounted
  <1>2. ASSUME NEW p \in Procs, running' = running, \A q \in Procs \ {p} : w'[q] = w[q],
               w[p].pc \notin {"run", "after"}
        PROVE  Accounted'
    BY <1>2 DEF Accounted
  <1>3. ASSUME NEW p \in Procs, Work(p) PROVE Accounted'
    <2>1. CASE Take(p)
      <3>1. w[p].pc = "idle" /\ running' = running
        BY <2>1 DEF Take, At
      <3>2. \A q \in Procs \ {p} : w'[q] = w[q]
        BY <2>1 DEF Take, RQTypeOK
      <3> QED BY <1>2, <3>1, <3>2
    <2>2. CASE Check(p) \/ Defer(p) \/ Release(p) \/ AdmitBusy(p) \/ Unlock(p)
      <3>1. w[p].pc \notin {"run", "after"} /\ running' = running
        BY <2>2 DEF Check, Defer, Release, AdmitBusy, Unlock, At
      <3>2. Goes(p, "defer") \/ Goes(p, "admit") \/ Goes(p, "release") \/ Rests(p)
        BY <2>2 DEF Check, Defer, Release, AdmitBusy, Unlock
      <3>3. \A q \in Procs \ {p} : w'[q] = w[q]
        BY <3>2, GoesKeepsJob DEF Rests, RQTypeOK
      <3> QED BY <1>2, <3>1, <3>3
    <2>3. CASE Admit(p)
      <3>1. /\ running' = running \cup {w[p].job} /\ w[p].pc = "admit"
            /\ Goes(p, "run") \/ Goes(p, "after")
        BY <2>3 DEF Admit, At
      <3>2. /\ w'[p].job = w[p].job /\ w'[p].pc \in {"run", "after"}
            /\ \A q \in Procs \ {p} : w'[q] = w[q]
        BY <3>1, GoesKeepsJob
      <3> QED BY <3>1, <3>2 DEF Accounted
    <2>4. CASE EndRun(p)
      <3>1. running' = running /\ Goes(p, "after")
        BY <2>4 DEF EndRun, Ends, EndsPass1
      <3>2. /\ w'[p].job = w[p].job /\ w'[p].pc = "after"
            /\ \A q \in Procs \ {p} : w'[q] = w[q]
        BY <3>1, GoesKeepsJob
      <3> QED BY <3>1, <3>2 DEF Accounted
    <2>5. CASE After(p)
      <3>1. running' = running \ {w[p].job} /\ Goes(p, "unlock")
        BY <2>5 DEF After
      <3>2. \A q \in Procs \ {p} : w'[q] = w[q]
        BY <3>1, GoesKeepsJob
      <3> QED BY <3>1, <3>2 DEF Accounted
    <2> QED BY <1>3, <2>1, <2>2, <2>3, <2>4, <2>5 DEF Work
  <1>4. ASSUME NEW p \in Procs, Crash(p) PROVE FALSE
    BY <1>4 DEF Crash, RQTypeOK
  <1>5. CASE ~\E p \in Procs : Work(p) \/ Crash(p)
    BY <1>1, <1>5 DEF RQNext, rqVars, User, Submit, Accept, Cancel, Pause, Handles, Consume,
       Claim, Deliver, Move, ReadDue, TakeDue, PutDue, MovesOn, Comeback, Restart, Recover,
       Started, ExpireGhost, Lapse, ExpireMeta
  <1> QED BY <1>3, <1>4, <1>5

LEMMA WorkersInvariance == RQSpec => []WorkersInv
  <1>1. Inv /\ WorkersInv /\ [RQNext]_rqVars => WorkersInv'
    <2> SUFFICES ASSUME Inv, WorkersInv, [RQNext]_rqVars, ~setup'.lapse
                 PROVE  NotDone' /\ (setup'.crashes = 0 => Accounted')
      BY DEF WorkersInv
    <2>1. setup' = setup
      BY SetupStays
    <2> QED BY <2>1, NextNotDone, NextAccounted DEF Inv, LeaseInv, WorkersInv
  <1> QED BY <1>1, InitWorkers, Invariance, PTL DEF RQSpec

\* A user's place among the running is always taken by a run: without crashes
\* and lapses no job stays counted that no instance runs or is about to release.
THEOREM CountedJobsRun == RQSpec => []CountedIsRun
  <1>1. WorkersInv => CountedIsRun
    BY DEF WorkersInv, Accounted, CountedIsRun
  <1> QED BY <1>1, WorkersInvariance, PTL

\* A job that is done is not run again unless it is submitted again: what the
\* worker read of its state holds until its run begins.
THEOREM DoneJobsRest == RQSpec => DoneStaysDone
  <1>1. Inv /\ WorkersInv /\ [RQNext]_rqVars =>
          [~setup.lapse => \A p \in Procs, j \in Jobs : Begins(p, j) => row[j] # "DONE"]_rqVars
    <2> SUFFICES ASSUME Inv, WorkersInv, [RQNext]_rqVars, ~setup.lapse,
                        NEW p \in Procs, NEW j \in Jobs, Begins(p, j)
                 PROVE  row[j] # "DONE"
      OBVIOUS
    <2>1. ASSUME NEW q \in Procs, Admit(q) PROVE row[j] # "DONE"
      <3>1. w[q].pc = "admit" /\ (Goes(q, "run") \/ Goes(q, "after"))
        BY <2>1 DEF Admit, At
      <3>2. \A k \in Procs \ {q} : w'[k] = w[k]
        BY <3>1, GoesKeepsJob DEF Inv
      <3>3. p = q /\ w[p].job = j
        BY <3>1, <3>2, GoesKeepsJob DEF Begins, Runs, Inv
      <3> QED BY <3>1, <3>3 DEF WorkersInv, NotDone
    <2>2. ASSUME NEW q \in Procs, EndRun(q) \/ Crash(q) PROVE FALSE
      <3>1. Goes(q, "after") \/ Rests(q)
        BY <2>2 DEF EndRun, Ends, EndsPass1, Crash, Rests
      <3>2. w'[q].pc # "run" /\ \A k \in Procs \ {q} : w'[k] = w[k]
        BY <3>1, GoesKeepsJob DEF Rests, Idle, Inv, RQTypeOK
      <3> QED BY <3>2 DEF Begins, Runs
    <2>3. ASSUME \A q \in Procs : ~Admit(q) /\ ~EndRun(q) /\ ~Crash(q) PROVE FALSE
      <3>1. RunnersOf' = RunnersOf
        BY <2>3, RunsChange DEF Inv
      <3>2. p \in RunnersOf'[j] /\ p \notin RunnersOf[j]
        BY DEF Begins, RunnersOf, Runs
      <3> QED BY <3>1, <3>2
    <2> QED BY <2>1, <2>2, <2>3
  <1> QED BY <1>1, Invariance, WorkersInvariance, PTL DEF RQSpec, DoneStaysDone
==============================================================================
