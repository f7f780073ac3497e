----------------------------- MODULE BackendProofs -----------------------------
(***************************************************************************)
(* AutoBackend: its types; that calm servers do what the Redis queue alone *)
(* does; and that no accepted job is lost between the two backends, other  *)
(* than in the ways QueuedIsKept names.  For the last, a QUEUED job is     *)
(* always in Redis, in the scheduler of an instance, on its way to the     *)
(* worker or with it before the run; or an instance has yet to read the    *)
(* rows, or its scan to find a job that a cap denied to it.                *)
(***************************************************************************)
EXTENDS AutoBackend, RedisQueueProofs

-----------------------------------------------------------------------------
\* Types.

\* What AutoBackend adds to RedisQueue.
ServerTypes ==
    /\ redisUp \in BOOLEAN /\ loaded \in BOOLEAN /\ broken \in BOOLEAN /\ flips \in Nat
    /\ sha \subseteq Procs /\ ok \subseteq Procs /\ mon \subseteq Procs /\ scan \subseteq Procs
    /\ seen \in [Procs -> SUBSET Jobs]
    /\ heap \in [Procs -> [Jobs -> Nat]]
    /\ slots \in [Procs -> 0 .. MaxGlobal]
    /\ disp \in [Procs -> Jobs \cup {NoJob}]
    /\ owed \in [Procs -> SUBSET Jobs] /\ dropped \subseteq Jobs

LEMMA ABInitType == ABInit => ABTypeOK
  <1> SUFFICES ASSUME ABInit PROVE ABTypeOK
    OBVIOUS
  <1>1. RQTypeOK
    BY InitType DEF ABInit
  <1>2. setup.procs \subseteq Procs
    BY <1>1, RedisQueueAssumption DEF RQTypeOK
  <1>3. slots \in [Procs -> 0 .. MaxGlobal] /\ disp \in [Procs -> Jobs \cup {NoJob}]
    BY AutoBackendAssumption DEF ABInit
  <1> QED BY <1>1, <1>2, <1>3 DEF ABInit, ABTypeOK

\* What an offer of a job changes.
LEMMA OfferTypes ==
  ASSUME ABTypeOK, NEW p \in Procs, NEW j \in Jobs, Offer(p, j)
  PROVE  /\ pending' \subseteq Jobs
         /\ ttl' \subseteq Jobs /\ dropped' = dropped \ {j}
         /\ seen' \in [Procs -> SUBSET Jobs]
         /\ \A q \in Procs : seen'[q] \subseteq seen[q]
         /\ heap' \in [Procs -> [Jobs -> Nat]]
         /\ pending \subseteq pending'
         /\ \A q \in Procs, k \in Jobs : heap'[q][k] >= heap[q][k]
         /\ j \in pending' \/ heap'[p][j] > 0
  <1>1. /\ pending \subseteq Jobs /\ seen \in [Procs -> SUBSET Jobs]
        /\ heap \in [Procs -> [Jobs -> Nat]]
    BY DEF ABTypeOK, RQTypeOK
  <1>2. pending' = pending \/ pending' = pending \cup {j}
    BY DEF Offer, ToRedis, ToScheduler, ToBoth
  <1>3. seen' = seen \/ Forget(p, j)
    BY DEF Offer, ToRedis, ToScheduler, ToBoth
  <1>4. (heap' = heap /\ j \in pending') \/ Push(p, j)
    BY DEF Offer, ToRedis, ToScheduler, ToBoth
  <1>5. seen' \in [Procs -> SUBSET Jobs] /\ \A q \in Procs : seen'[q] \subseteq seen[q]
    BY <1>1, <1>3 DEF Forget
  <1>8. ttl' \subseteq Jobs /\ dropped' = dropped \ {j}
    BY DEF Offer, ToRedis, ToScheduler, ToBoth, Armed, ABTypeOK, RQTypeOK
  <1>6. CASE heap' = heap /\ j \in pending'
    BY <1>1, <1>2, <1>5, <1>6, <1>8
  <1>7. CASE Push(p, j)
    <2>1. heap' = [heap EXCEPT ![p] = [heap[p] EXCEPT ![j] = @ + 1]]
      BY <1>1, <1>7 DEF Push
    <2>2. [heap[p] EXCEPT ![j] = @ + 1] \in [Jobs -> Nat]
      BY <1>1
    <2>3. heap' \in [Procs -> [Jobs -> Nat]]
      BY <1>1, <2>1, <2>2
    <2>4. heap'[p][j] > 0
      BY <1>1, <2>1
    <2>5. \A q \in Procs, k \in Jobs : heap'[q][k] >= heap[q][k]
      BY <1>1, <2>1
    <2> QED BY <1>1, <1>2, <1>5, <1>8, <2>3, <2>4, <2>5
  <1> QED BY <1>4, <1>6, <1>7

\* Pushing a job into an instance's scheduler.
LEMMA PushTypes ==
  ASSUME ABTypeOK, NEW p \in Procs, NEW j \in Jobs, Push(p, j)
  PROVE  /\ heap' \in [Procs -> [Jobs -> Nat]]
         /\ heap'[p][j] > 0
         /\ \A q \in Procs, k \in Jobs : heap'[q][k] >= heap[q][k]
  <1>1. heap \in [Procs -> [Jobs -> Nat]]
    BY DEF ABTypeOK
  <1>2. heap' = [heap EXCEPT ![p] = [heap[p] EXCEPT ![j] = @ + 1]]
    BY <1>1 DEF Push
  <1>3. [heap[p] EXCEPT ![j] = @ + 1] \in [Jobs -> Nat]
    BY <1>1
  <1> QED BY <1>1, <1>2, <1>3

\* The row of one job gets a state, as long as the rest is typed.
LEMMA RowTypes ==
  ASSUME RQTypeOK, NEW j \in Jobs, NEW st \in States, row' = [row EXCEPT ![j] = st]
  PROVE  row' \in [Jobs -> States]
  BY DEF RQTypeOK

\* A request.
LEMMA RequestType == ABTypeOK /\ Request => ABTypeOK'
  <1> SUFFICES ASSUME ABTypeOK, NEW p \in Procs, NEW j \in Jobs,
                      ABSubmit(p, j) \/ ABCancel(p, j) \/ ABPause(p, j)
               PROVE  ABTypeOK'
    BY DEF Request
  <1> USE DEF Rest, serverVars, healthVars, Same
  <1>0. RQTypeOK
    BY DEF ABTypeOK
  <1>1. CASE ABSubmit(p, j)
    <2>1. /\ ops' = ops + 1 /\ row' = [row EXCEPT ![j] = "QUEUED"]
          /\ UNCHANGED <<delayed, canceled, lock, attempts, spent, running, dlq, up, boot, hand,
                         asyncQ, has, w, mover, pass2, starts, setup, crashes>>
      BY <1>1 DEF ABSubmit, Accept, Handles
    <2>2. row' \in [Jobs -> States]
      BY <1>0, <2>1, RowTypes DEF States
    <2>3. /\ pending' \subseteq Jobs /\ ttl' \subseteq Jobs /\ dropped' \subseteq Jobs
          /\ seen' \in [Procs -> SUBSET Jobs]
          /\ heap' \in [Procs -> [Jobs -> Nat]]
      BY <1>1, OfferTypes DEF ABSubmit, ABTypeOK
    <2>4. RQTypeOK'
      BY <1>0, <2>1, <2>2, <2>3 DEF RQTypeOK
    <2> QED BY <1>1, <2>3, <2>4 DEF ABTypeOK, ABSubmit
  <1>2. CASE ABCancel(p, j)
    <2>1. RQTypeOK'
      <3>1. CASE Cancel(p, j)
        BY <1>0, <3>1, UserType DEF User
      <3>2. CASE ~redisUp
        <4>1. /\ ops' = ops + 1 /\ row' = [row EXCEPT ![j] = "CANCELED"]
              /\ canceled' = [canceled EXCEPT ![p] = @ \cup {j}]
              /\ UNCHANGED <<pending, delayed, lock, attempts, ttl, spent, running, dlq, up, boot,
                             hand, asyncQ, has, w, mover, pass2, starts, setup, crashes>>
          BY <1>2, <3>2 DEF ABCancel, Handles
        <4>2. row' \in [Jobs -> States]
          BY <1>0, <4>1, RowTypes DEF States
        <4>3. canceled' \in [Procs -> SUBSET Jobs]
          BY <1>0, <4>1 DEF RQTypeOK
        <4> QED BY <1>0, <4>1, <4>2, <4>3 DEF RQTypeOK
      <3> QED BY <1>2, <3>1, <3>2 DEF ABCancel
    <2> QED BY <1>2, <2>1 DEF ABTypeOK, ABCancel
  <1>3. CASE ABPause(p, j)
    <2>1. RQTypeOK'
      BY <1>0, <1>3, UserType DEF User, ABPause
    <2> QED BY <1>3, <2>1 DEF ABTypeOK, ABPause
  <1> QED BY <1>1, <1>2, <1>3

\* The end of a job's way to its run, and what the worker's moves leave alone.
LEMMA WorkerMoves ==
  ASSUME RQTypeOK, NEW p \in Procs, w[p].pc # "idle",
         Rests(p) \/ \E pc \in Steps \ {"idle"} : Goes(p, pc)
  PROVE  w' \in [Procs -> WPlaces] /\ IdleIsJobless'
  BY WorkerTypes

LEMMA RunType ==
  ASSUME ABTypeOK, NEW p \in Procs, Run(p)
  PROVE  ABTypeOK'
  <1> USE DEF Same, Rest, serverVars, healthVars, marks, Others, bounds, redisVars
  <1>0. RQTypeOK /\ (w[p].pc # "idle" => w[p].job \in Jobs)
    BY WorkerTypes DEF ABTypeOK
  <1>1. CASE ABWork(p)
    <2>1. RQTypeOK'
      BY <1>0, <1>1, WorkType DEF ABWork, Work
    <2> QED BY <1>1, <2>1 DEF ABTypeOK, ABWork
  <1>7. CASE ABCheck(p)
    <2>1. RQTypeOK'
      BY <1>0, <1>7, WorkType DEF ABCheck, Work
    <2>2. dropped' \subseteq Jobs
      BY <1>0, <1>7 DEF ABCheck, Check, At, ABTypeOK
    <2> QED BY <1>7, <2>1, <2>2 DEF ABTypeOK, ABCheck
  <1>2. CASE AskFallback(p)
    <2>1. w[p].pc # "idle" /\ (Rests(p) \/ Goes(p, "after") \/ Goes(p, "run"))
      BY <1>2 DEF AskFallback, At
    <2>2. w' \in [Procs -> WPlaces] /\ IdleIsJobless'
      BY <1>0, <2>1, WorkerMoves DEF Steps
    <2>3. row' \in [Jobs -> States]
      <3>1. \E st \in States : row' = [row EXCEPT ![w[p].job] = st]
        BY <1>2 DEF AskFallback, States
      <3> QED BY <1>0, <2>1, <3>1, RowTypes
    <2>4. starts' \in [Jobs -> Nat]
      <3>1. starts' = starts \/ starts' = [starts EXCEPT ![w[p].job] = @ + 1]
        BY <1>2 DEF AskFallback
      <3>2. starts \in [Jobs -> Nat]
        BY <1>0 DEF RQTypeOK
      <3> QED BY <1>0, <2>1, <3>1, <3>2
    <2>5. seen' \in [Procs -> SUBSET Jobs]
      <3>1. seen' = seen \/ seen' = [seen EXCEPT ![p] = @ \ {w[p].job}]
        BY <1>2 DEF AskFallback, Forget
      <3> QED BY <3>1 DEF ABTypeOK
    <2>6. UNCHANGED <<redisVars, up, boot, hand, asyncQ, has, canceled, mover, pass2, bounds,
                      serverVars, sha, healthVars, broken, heap, slots, disp>>
      BY <1>2 DEF AskFallback
    <2>8. owed' \in [Procs -> SUBSET Jobs] /\ dropped' \subseteq Jobs
      <3>1. LeftToScan(p, w[p].job) \/ UNCHANGED marks
        BY <1>2 DEF AskFallback
      <3>2. w[p].job \in Jobs
        BY <1>0, <2>1
      <3> QED BY <3>1, <3>2 DEF ABTypeOK, LeftToScan
    <2>7. RQTypeOK'
      BY <1>0, <2>2, <2>3, <2>4, <2>6 DEF RQTypeOK, WPlaces, IdleIsJobless
    <2> QED BY <2>5, <2>6, <2>7, <2>8 DEF ABTypeOK
  <1>3. CASE WorkFails(p)
    <2>1. w[p].pc # "idle" /\ (Rests(p) \/ Goes(p, "release")) /\ has' = has
      BY <1>3 DEF WorkFails, At
    <2>2. w' \in [Procs -> WPlaces] /\ IdleIsJobless'
      BY <1>0, <2>1, WorkerMoves DEF Steps
    <2>3. RQTypeOK'
      BY <1>0, <1>3, <2>1, <2>2 DEF RQTypeOK, WPlaces, IdleIsJobless, WorkFails
    <2> QED BY <1>3, <2>3 DEF ABTypeOK, WorkFails, localQ
  <1>4. CASE AfterFails(p)
    <2>1. w[p].pc # "idle" /\ (Rests(p) \/ Goes(p, "unlock"))
      BY <1>4 DEF AfterFails, At
    <2>2. w' \in [Procs -> WPlaces] /\ IdleIsJobless'
      BY <1>0, <2>1, WorkerMoves DEF Steps
    <2>3. has' \in [Procs -> SUBSET Jobs]
      <3>1. has' = has \/ has' = [has EXCEPT ![p] = @ \ {w[p].job}]
        BY <1>4 DEF AfterFails
      <3>2. has \in [Procs -> SUBSET Jobs]
        BY <1>0 DEF RQTypeOK
      <3> QED BY <3>1, <3>2
    <2>4. RQTypeOK'
      BY <1>0, <1>4, <2>2, <2>3 DEF RQTypeOK, WPlaces, IdleIsJobless, AfterFails
    <2> QED BY <1>4, <2>4 DEF ABTypeOK, AfterFails, localQ
  <1>5. CASE AdmitBlind(p)
    <2>1. w[p].pc # "idle" /\ (Goes(p, "after") \/ Goes(p, "run"))
      BY <1>5 DEF AdmitBlind, At
    <2>2. w' \in [Procs -> WPlaces] /\ IdleIsJobless'
      BY <1>0, <2>1, WorkerMoves DEF Steps
    <2>3. row' \in [Jobs -> States]
      <3>1. \E st \in States : row' = [row EXCEPT ![w[p].job] = st]
        BY <1>5 DEF AdmitBlind, States
      <3> QED BY <1>0, <2>1, <3>1, RowTypes
    <2>4. starts' \in [Jobs -> Nat]
      <3>1. starts' = starts \/ starts' = [starts EXCEPT ![w[p].job] = @ + 1]
        BY <1>5 DEF AdmitBlind
      <3>2. starts \in [Jobs -> Nat]
        BY <1>0 DEF RQTypeOK
      <3> QED BY <1>0, <2>1, <3>1, <3>2
    <2>6. UNCHANGED <<redisVars, up, boot, hand, asyncQ, has, canceled, mover, pass2, bounds,
                      Rest, seen, heap, slots, dropped>>
      BY <1>5 DEF AdmitBlind
    <2>7. RQTypeOK'
      BY <1>0, <2>2, <2>3, <2>4, <2>6 DEF RQTypeOK, WPlaces, IdleIsJobless
    <2> QED BY <2>6, <2>7 DEF ABTypeOK
  <1>6. CASE ABEndRun(p)
    <2>1. w[p].pc # "idle" /\ Goes(p, "after")
      BY <1>6 DEF ABEndRun, Ends, At
    <2>2. w' \in [Procs -> WPlaces] /\ IdleIsJobless'
      BY <1>0, <2>1, WorkerMoves DEF Steps
    <2>3. row' \in [Jobs -> States] /\ pass2' \subseteq Jobs
      <3>1. \E st \in States : row' = [row EXCEPT ![w[p].job] = st]
        BY <1>6 DEF ABEndRun, Ends, States
      <3>2. pass2' = pass2 \/ pass2' = pass2 \cup {w[p].job}
        BY <1>6 DEF ABEndRun, Ends
      <3> QED BY <1>0, <2>1, <3>1, <3>2, RowTypes DEF RQTypeOK
    <2>4. /\ pending' \subseteq Jobs /\ ttl' \subseteq Jobs /\ dropped' \subseteq Jobs
          /\ seen' \in [Procs -> SUBSET Jobs]
          /\ heap' \in [Procs -> [Jobs -> Nat]]
      <3>1. Offer(p, w[p].job) \/ UNCHANGED <<pending, ttl, seen, heap, dropped>>
        BY <1>6 DEF ABEndRun
      <3>2. CASE Offer(p, w[p].job)
        <4>1. w[p].job \in Jobs
          BY <1>0, <2>1
        <4>2. dropped' = dropped \ {w[p].job} /\ dropped \subseteq Jobs
          BY <3>2, <4>1, OfferTypes DEF ABTypeOK
        <4> QED BY <3>2, <4>1, <4>2, OfferTypes
      <3>3. CASE UNCHANGED <<pending, ttl, seen, heap, dropped>>
        BY <3>3 DEF ABTypeOK, RQTypeOK
      <3> QED BY <3>1, <3>2, <3>3
    <2>7. slots' \in [Procs -> 0 .. MaxGlobal]
      <3>1. slots \in [Procs -> 0 .. MaxGlobal] /\ MaxGlobal \in Nat
        BY AutoBackendAssumption DEF ABTypeOK
      <3> QED BY <1>6, <3>1 DEF ABEndRun, SlotBack
    <2>5. UNCHANGED <<delayed, lock, attempts, spent, running, dlq, up, boot, hand, asyncQ, has,
                      canceled, mover, starts, bounds, Rest>>
      BY <1>6 DEF ABEndRun, Ends
    <2>6. RQTypeOK'
      BY <1>0, <2>2, <2>3, <2>4, <2>5 DEF RQTypeOK, WPlaces, IdleIsJobless
    <2> QED BY <2>4, <2>5, <2>6, <2>7 DEF ABTypeOK
  <1> QED BY <1>1, <1>2, <1>3, <1>4, <1>5, <1>6, <1>7 DEF Run

\* The claims and the mover, with Redis and without.
LEMMA LoopType ==
  ASSUME ABTypeOK, NEW p \in Procs, Poll(p) \/ Shift(p)
  PROVE  ABTypeOK'
  <1> USE DEF Same, Rest, serverVars, healthVars, localQ, marks, Others, bounds, redisVars
  <1>0. RQTypeOK
    BY DEF ABTypeOK
  <1>1. CASE ABConsume(p)
    <2>1. RQTypeOK'
      BY <1>0, <1>1, ConsumeType DEF ABConsume, Consume
    <2> QED BY <1>1, <2>1 DEF ABTypeOK, ABConsume
  <1>2. CASE ABMove(p)
    <2>1. RQTypeOK'
      BY <1>0, <1>2, MoveType DEF ABMove
    <2> QED BY <1>2, <2>1 DEF ABTypeOK, ABMove
  <1>3. CASE DeliverBlind(p)
    <2>1. hand \in [Procs -> Jobs \cup {NoJob}] /\ asyncQ \in [Procs -> Seq(Jobs)]
      BY <1>0 DEF RQTypeOK
    <2>2. hand[p] \in Jobs
      BY <1>3, <2>1 DEF DeliverBlind
    <2>3. Append(asyncQ[p], hand[p]) \in Seq(Jobs)
      BY <2>1, <2>2
    <2>4. asyncQ' \in [Procs -> Seq(Jobs)] /\ hand' \in [Procs -> Jobs \cup {NoJob}]
      BY <1>3, <2>1, <2>3 DEF DeliverBlind
    <2>5. RQTypeOK'
      BY <1>0, <1>3, <2>4 DEF RQTypeOK, DeliverBlind
    <2> QED BY <1>3, <2>5 DEF ABTypeOK, DeliverBlind
  <1>4. CASE MoverFails(p)
    <2>1. mover' \in [Procs -> [due : SUBSET Jobs, cur : Jobs \cup {NoJob}]]
      BY <1>0, <1>4 DEF MoverFails, RQTypeOK, Still
    <2>2. RQTypeOK'
      BY <1>0, <1>4, <2>1 DEF RQTypeOK, MoverFails
    <2>3. broken' \in BOOLEAN
      BY <1>4 DEF MoverFails, ABTypeOK
    <2> QED BY <1>4, <2>2, <2>3 DEF ABTypeOK, MoverFails
  <1> QED BY <1>1, <1>2, <1>3, <1>4 DEF Poll, Shift

\* The local scheduler, the scan, and the watch on Redis.
LEMMA LocalType ==
  ASSUME ABTypeOK, NEW p \in Procs,
         Watch(p) \/ Scan(p) \/ HandOver(p) \/ \E j \in Jobs : Dispatch(p, j)
  PROVE  ABTypeOK'
  <1> USE DEF Rest, serverVars, healthVars, localQ, marks, Local, redisVars, bounds
  <1>0. RQTypeOK
    BY DEF ABTypeOK
  <1>1. ASSUME NEW j \in Jobs, Dispatch(p, j) PROVE ABTypeOK'
    <2>1. slots' \in [Procs -> 0 .. MaxGlobal] /\ disp' \in [Procs -> Jobs \cup {NoJob}]
      <3>1. /\ slots \in [Procs -> 0 .. MaxGlobal] /\ MaxGlobal \in Nat
            /\ disp \in [Procs -> Jobs \cup {NoJob}]
        BY AutoBackendAssumption DEF ABTypeOK
      <3>2. slots' = slots \/ (slots[p] < MaxGlobal /\ slots' = [slots EXCEPT ![p] = @ + 1])
        BY <1>1 DEF Dispatch
      <3>3. disp' = disp \/ disp' = [disp EXCEPT ![p] = j]
        BY <1>1 DEF Dispatch
      <3>4. slots' \in [Procs -> 0 .. MaxGlobal]
        BY <3>1, <3>2
      <3> QED BY <3>1, <3>3, <3>4
    <2>2. heap' \in [Procs -> [Jobs -> Nat]]
      <3>1. heap \in [Procs -> [Jobs -> Nat]]
        BY DEF ABTypeOK
      <3>2. heap' = [heap EXCEPT ![p] = [heap[p] EXCEPT ![j] = @ - 1]] /\ heap[p][j] > 0
        BY <1>1, <3>1 DEF Dispatch
      <3>3. [heap[p] EXCEPT ![j] = @ - 1] \in [Jobs -> Nat]
        BY <3>1, <3>2
      <3> QED BY <3>1, <3>2, <3>3
    <2>3. RQTypeOK'
      BY <1>0, <1>1 DEF RQTypeOK, Dispatch
    <2> QED BY <1>1, <2>1, <2>2, <2>3 DEF ABTypeOK, Dispatch
  <1>5. CASE HandOver(p)
    <2>1. PICK k \in Jobs : k = disp[p]
      BY <1>5 DEF HandOver, ABTypeOK
    <2>2. /\ asyncQ' = [asyncQ EXCEPT ![p] = Append(@, k)]
          /\ row' = [row EXCEPT ![k] = "QUEUED"]
          /\ disp' = [disp EXCEPT ![p] = NoJob]
          /\ UNCHANGED <<redisVars, hand, has, canceled, w, mover, up, boot, pass2, starts, bounds,
                         serverVars, sha, healthVars, broken, seen, heap, slots, marks>>
      BY <1>5, <2>1 DEF HandOver
    <2>3. asyncQ' \in [Procs -> Seq(Jobs)]
      <3>1. asyncQ \in [Procs -> Seq(Jobs)]
        BY <1>0 DEF RQTypeOK
      <3>2. Append(asyncQ[p], k) \in Seq(Jobs)
        BY <3>1
      <3> QED BY <2>2, <3>1, <3>2
    <2>4. row' \in [Jobs -> States]
      BY <1>0, <2>2, RowTypes DEF States
    <2>5. disp' \in [Procs -> Jobs \cup {NoJob}]
      BY <2>2 DEF ABTypeOK
    <2>6. RQTypeOK'
      BY <1>0, <2>2, <2>3, <2>4 DEF RQTypeOK
    <2> QED BY <2>2, <2>5, <2>6 DEF ABTypeOK
  <1>2. CASE Scan(p)
    <2> DEFINE f == [j \in Jobs |-> IF j \in NewlyQueued(p) THEN heap[p][j] + 1 ELSE heap[p][j]]
    <2>1. heap \in [Procs -> [Jobs -> Nat]] /\ seen \in [Procs -> SUBSET Jobs]
      BY DEF ABTypeOK
    <2>2. f \in [Jobs -> Nat]
      BY <2>1
    <2>3. heap' = [heap EXCEPT ![p] = f]
      BY <1>2, <2>1 DEF Scan
    <2>4. heap' \in [Procs -> [Jobs -> Nat]]
      BY <2>1, <2>2, <2>3
    <2>5. seen' \in [Procs -> SUBSET Jobs]
      BY <1>2, <2>1 DEF Scan, NewlyQueued
    <2>6. RQTypeOK'
      BY <1>0, <1>2 DEF RQTypeOK, Scan
    <2>7. owed' \in [Procs -> SUBSET Jobs] /\ dropped' \subseteq Jobs
      BY <1>2 DEF ABTypeOK, Scan
    <2> QED BY <1>2, <2>4, <2>5, <2>6, <2>7 DEF ABTypeOK, Scan
  <1>3. CASE Ping(p)
    <2>1. RQTypeOK'
      BY <1>0, <1>3 DEF RQTypeOK, Ping
    <2> QED BY <1>3, <2>1 DEF ABTypeOK, Ping
  <1>4. CASE Monitor(p)
    <2>1. RQTypeOK'
      BY <1>0, <1>4 DEF RQTypeOK, Monitor
    <2>2. /\ seen' \in [Procs -> SUBSET Jobs]
          /\ owed' \in [Procs -> SUBSET Jobs] /\ dropped' \subseteq Jobs
      <3>1. seen' = seen \/ seen' = [seen EXCEPT ![p] = {}]
        BY <1>4 DEF Monitor
      <3>2. owed' = owed \/ owed' = [owed EXCEPT ![p] = {}]
        BY <1>4 DEF Monitor
      <3>3. dropped' = dropped \/ dropped' = dropped \cup owed[p]
        BY <1>4 DEF Monitor
      <3> QED BY <3>1, <3>2, <3>3 DEF ABTypeOK
    <2>3. mon' \subseteq Procs /\ scan' \subseteq Procs
      BY <1>4 DEF ABTypeOK, Monitor
    <2>4. UNCHANGED <<serverVars, sha, ok, heap, slots, disp, broken>>
      BY <1>4 DEF Monitor
    <2> QED BY <2>1, <2>2, <2>3, <2>4 DEF ABTypeOK
  <1> QED BY <1>1, <1>2, <1>3, <1>4, <1>5 DEF Watch

\* What a stopped or dead instance leaves of AutoBackend's variables.
LEMMA EmptyTypes ==
  ASSUME ABTypeOK, NEW p \in Procs, Empty(p)
  PROVE  ServerTypes'
  <1>1. heap' \in [Procs -> [Jobs -> Nat]] /\ seen' \in [Procs -> SUBSET Jobs]
    BY DEF ABTypeOK, Empty
  <1>2. slots' \in [Procs -> 0 .. MaxGlobal] /\ disp' \in [Procs -> Jobs \cup {NoJob}]
    BY AutoBackendAssumption DEF ABTypeOK, Empty
  <1>3. owed' \in [Procs -> SUBSET Jobs] /\ dropped' \subseteq Jobs
    BY DEF ABTypeOK, Empty
  <1> QED BY <1>1, <1>2, <1>3 DEF ABTypeOK, ServerTypes, Empty, serverVars

LEMMA FailType ==
  ASSUME ABTypeOK,
         \/ Flip
         \/ \E p \in Procs : ABCrash(p) \/ Stop(p) \/ Exit(p) \/ ABComeback(p)
         \/ \E j \in Jobs : ABExpire(j) \/ ExpireLeft(j)
  PROVE  ABTypeOK'
  <1> USE DEF Rest, serverVars, healthVars, localQ, marks
  <1>0. RQTypeOK
    BY DEF ABTypeOK
  <1>1. CASE Flip
    <2>1. RQTypeOK'
      BY <1>0, <1>1 DEF Flip, RQTypeOK, rqVars, redisVars, localVars, bounds
    <2> QED BY <1>1, <2>1 DEF ABTypeOK, Flip
  <1>2. ASSUME NEW p \in Procs, ABCrash(p) PROVE ABTypeOK'
    <2>1. RQTypeOK'
      BY <1>0, <1>2, FaultType DEF ABCrash
    <2> QED BY <1>2, <2>1, EmptyTypes DEF ABTypeOK, ServerTypes, ABCrash
  <1>3. ASSUME NEW p \in Procs, Stop(p) PROVE ABTypeOK'
    <2>1. /\ up' \in [Procs -> {"down", "boot", "up", "drain"}]
          /\ hand' \in [Procs -> Jobs \cup {NoJob}] /\ has' \in [Procs -> SUBSET Jobs]
          /\ lock' \in [Jobs -> Procs \cup {Free, Ghost}]
      BY <1>0, <1>3 DEF RQTypeOK, Stop
    <2>2. mover' \in [Procs -> [due : SUBSET Jobs, cur : Jobs \cup {NoJob}]]
      BY <1>0, <1>3 DEF RQTypeOK, Stop, Still
    <2>3. /\ crashes' \in Nat
          /\ UNCHANGED <<pending, delayed, attempts, ttl, spent, running, dlq, row, boot, asyncQ,
                         canceled, w, pass2, starts, setup, ops>>
      BY <1>0, <1>3 DEF RQTypeOK, Stop
    <2>4. RQTypeOK'
      BY <1>0, <2>1, <2>2, <2>3 DEF RQTypeOK
    <2>5. /\ heap' \in [Procs -> [Jobs -> Nat]] /\ seen' \in [Procs -> SUBSET Jobs]
          /\ owed' \in [Procs -> SUBSET Jobs]
      BY <1>3 DEF ABTypeOK, Stop
    <2> QED BY <1>3, <2>4, <2>5 DEF ABTypeOK, Stop
  <1>4. ASSUME NEW p \in Procs, Exit(p) PROVE ABTypeOK'
    <2>1. w' \in [Procs -> WPlaces] /\ IdleIsJobless'
      BY <1>0, <1>4, WorkerTypes DEF Exit, Rests
    <2>2. /\ up' \in [Procs -> {"down", "boot", "up", "drain"}]
          /\ has' \in [Procs -> SUBSET Jobs] /\ canceled' \in [Procs -> SUBSET Jobs]
          /\ lock' \in [Jobs -> Procs \cup {Free, Ghost}]
      BY <1>0, <1>4 DEF RQTypeOK, Exit
    <2>3. asyncQ' \in [Procs -> Seq(Jobs)]
      <3>1. asyncQ' = [asyncQ EXCEPT ![p] = <<>>] /\ asyncQ \in [Procs -> Seq(Jobs)]
        BY <1>0, <1>4 DEF Exit, RQTypeOK
      <3>2. <<>> \in Seq(Jobs)
        OBVIOUS
      <3> QED BY <3>1, <3>2
    <2>4. UNCHANGED <<pending, delayed, attempts, ttl, spent, running, dlq, row, boot, hand, mover,
                      pass2, starts, setup, ops, crashes>>
      BY <1>4 DEF Exit, bounds
    <2>5. RQTypeOK'
      BY <1>0, <2>1, <2>2, <2>3, <2>4 DEF RQTypeOK, WPlaces, IdleIsJobless
    <2> QED BY <1>4, <2>5, EmptyTypes DEF ABTypeOK, ServerTypes, Exit
  <1>5. ASSUME NEW p \in Procs, ABComeback(p) PROVE ABTypeOK'
    <2>1. RQTypeOK'
      BY <1>0, <1>5, FaultType DEF ABComeback, Comeback
    <2>2. CASE /\ sha' = IF redisUp THEN sha \cup {p} ELSE sha \ {p}
               /\ loaded' = (loaded \/ redisUp)
               /\ scan' = scan \cup {p}
               /\ UNCHANGED <<redisUp, flips, ok, mon, localQ, broken, marks>>
      BY <2>1, <2>2 DEF ABTypeOK
    <2>3. ASSUME NEW j \in Jobs, Recover(p, j), Push(p, j), Forget(p, j),
                 dropped' = dropped \ {j}, UNCHANGED <<Rest, slots>>
          PROVE  ABTypeOK'
      <3>1. heap' \in [Procs -> [Jobs -> Nat]]
        BY <2>3, PushTypes
      <3>2. seen' \in [Procs -> SUBSET Jobs]
        BY <2>3 DEF ABTypeOK, Forget
      <3> QED BY <2>1, <2>3, <3>1, <3>2 DEF ABTypeOK
    <2>4. CASE Same
      BY <2>1, <2>4 DEF ABTypeOK, Same
    <2> QED BY <1>5, <2>2, <2>3, <2>4 DEF ABComeback
  <1>6. ASSUME NEW j \in Jobs, ABExpire(j) PROVE ABTypeOK'
    <2>1. RQTypeOK'
      BY <1>0, <1>6, FaultType DEF ABExpire
    <2> QED BY <1>6, <2>1 DEF ABTypeOK, ABExpire, Same
  <1>7. ASSUME NEW j \in Jobs, ExpireLeft(j) PROVE ABTypeOK'
    <2>1. RQTypeOK'
      BY <1>0, <1>7 DEF RQTypeOK, ExpireLeft, Others, localVars, bounds
    <2> QED BY <1>7, <2>1 DEF ABTypeOK, ExpireLeft, Same
  <1> QED BY <1>1, <1>2, <1>3, <1>4, <1>5, <1>6, <1>7

LEMMA ABNextType == ABTypeOK /\ [ABNext]_abVars => ABTypeOK'
  <1> SUFFICES ASSUME ABTypeOK, [ABNext]_abVars PROVE ABTypeOK'
    OBVIOUS
  <1>1. CASE UNCHANGED abVars
    BY <1>1 DEF ABTypeOK, RQTypeOK, abVars, rqVars, redisVars, localVars, bounds, serverVars,
           healthVars, localQ, marks
  <1> QED BY <1>1, RequestType, RunType, LoopType, LocalType, FailType DEF ABNext

\* The state of the instances, the scheduler and Redis is always well typed, also
\* while Redis is away: in particular a scheduler never gives out a job it has not,
\* and no job is counted more attempts than REDIS_QUEUE_MAX_ATTEMPTS.
THEOREM BackendTypes == ABSpec => []ABTypeOK
  BY ABInitType, ABNextType, PTL DEF ABSpec

-----------------------------------------------------------------------------
(***************************************************************************)
(* Where the QUEUED jobs are.  Kept is not inductive: a worker that is     *)
(* after the run forgets its job, and the scan is turned off.  Due names   *)
(* the places that a job leaves only for another one, or to be run.        *)
(***************************************************************************)

InRedis(j) == j \in pending \cup delayed \cup dlq
Before == {"check", "admit", "defer"}
Coming(p, j) ==
    \/ hand[p] = j \/ Waits(p, j) \/ mover[p].cur = j \/ heap[p][j] > 0 \/ disp[p] = j
    \/ w[p].job = j /\ w[p].pc \in Before
\* The rows will be read before p does anything else.
WillRead(p) == up[p] \in {"down", "drain"}
\* The scan of p is to find the job, which a cap denied to it.
Owes(p, j) == p \in scan /\ j \in owed[p] /\ j \notin seen[p]
Due(j) == \/ InRedis(j)
          \/ \E p \in setup.procs :
                WillRead(p) \/ j \in boot[p] \/ Coming(p, j) \/ Owes(p, j)

AllDue == \A j \in Jobs \ dropped : row[j] = "QUEUED" => Due(j)
Ups == \A p \in Procs : up[p] # "down" => p \in setup.procs

\* The instances there are do not change, and one that is not among them stays down.
LEMMA UpsStep == ABTypeOK /\ Ups /\ [ABNext]_abVars => Ups' /\ setup' = setup
  <1> SUFFICES ASSUME ABTypeOK, Ups, [ABNext]_abVars PROVE Ups' /\ setup' = setup
    OBVIOUS
  <1> USE DEF Others, bounds, Local, Same, Rest
  <1>0. up \in [Procs -> {"down", "boot", "up", "drain"}]
    BY DEF ABTypeOK, RQTypeOK
  <1>1. ASSUME UNCHANGED <<up, setup>> PROVE Ups' /\ setup' = setup
    BY <1>1 DEF Ups
  <1>2. ASSUME NEW p \in Procs, NEW x, up' = [up EXCEPT ![p] = x], setup' = setup,
               up[p] # "down" \/ p \in setup.procs
        PROVE  Ups' /\ setup' = setup
    BY <1>0, <1>2 DEF Ups
  <1>3. CASE UNCHANGED abVars
    BY <1>1, <1>3 DEF abVars, rqVars
  <1>4. CASE Request
    BY <1>1, <1>4 DEF Request, ABSubmit, ABCancel, ABPause, Accept, Cancel, Pause, Handles
  <1>5. ASSUME NEW p \in Procs, Run(p) PROVE Ups' /\ setup' = setup
    <2>1. UNCHANGED <<up, setup>>
      BY <1>5 DEF Run, ABCheck, ABWork, AskFallback, WorkFails, AfterFails, AdmitBlind, ABEndRun,
            Ends, Take, Check, Defer, Release, Admit, AdmitBusy, After, Unlock
    <2> QED BY <1>1, <2>1
  <1>6. ASSUME NEW p \in Procs,
               \/ Poll(p) \/ Shift(p) \/ Watch(p) \/ Scan(p) \/ HandOver(p)
               \/ \E j \in Jobs : Dispatch(p, j)
        PROVE  Ups' /\ setup' = setup
    <2>1. UNCHANGED <<up, setup>>
      BY <1>6 DEF Poll, Shift, Watch, Scan, HandOver, Dispatch, ABConsume, DeliverBlind, ABMove, MoverFails,
            Claim, Deliver, Move, ReadDue, TakeDue, PutDue, MovesOn, Ping, Monitor
    <2> QED BY <1>1, <2>1
  <1>7. CASE Flip
    BY <1>1, <1>7 DEF Flip, rqVars
  <1>8. ASSUME NEW p \in Procs, ABCrash(p) \/ Stop(p) \/ Exit(p) \/ ABComeback(p)
        PROVE  Ups' /\ setup' = setup
    <2>1. CASE ABCrash(p)
      BY <1>2, <2>1 DEF ABCrash, Crash
    <2>2. CASE Stop(p)
      BY <1>2, <2>2 DEF Stop, Loop
    <2>3. CASE Exit(p)
      BY <1>2, <2>3 DEF Exit
    <2>4. CASE ABComeback(p)
      <3>1. CASE Restart(p)
        BY <1>2, <3>1 DEF Restart
      <3>2. CASE \E j \in Jobs : Recover(p, j)
        BY <1>1, <3>2 DEF Recover
      <3>3. CASE Started(p)
        BY <1>2, <3>3 DEF Started
      <3> QED BY <2>4, <3>1, <3>2, <3>3 DEF ABComeback
    <2> QED BY <1>8, <2>1, <2>2, <2>3, <2>4
  <1>9. CASE \E j \in Jobs : ABExpire(j) \/ ExpireLeft(j)
    BY <1>1, <1>9 DEF ABExpire, ExpireLeft, ExpireGhost, ExpireMeta
  <1> QED BY <1>3, <1>4, <1>5, <1>6, <1>7, <1>8, <1>9 DEF ABNext

\* A job put at the end of an instance's queue is in it with the others.
LEMMA AppendWaits ==
  ASSUME RQTypeOK, NEW p \in Procs, NEW k \in Jobs, asyncQ' = [asyncQ EXCEPT ![p] = Append(@, k)]
  PROVE  /\ \A q \in Procs, j \in Jobs : Waits(q, j) => Waits(q, j)'
         /\ Waits(p, k)'
  <1>1. asyncQ \in [Procs -> Seq(Jobs)]
    BY DEF RQTypeOK
  <1>2. /\ asyncQ'[p] = Append(asyncQ[p], k) /\ asyncQ[p] \in Seq(Jobs)
        /\ \A q \in Procs \ {p} : asyncQ'[q] = asyncQ[q]
    BY <1>1
  <1>3. /\ DOMAIN asyncQ[p] = 1 .. Len(asyncQ[p]) /\ Len(asyncQ[p]) \in Nat
        /\ DOMAIN asyncQ'[p] = 1 .. Len(asyncQ[p]) + 1
        /\ \A i \in 1 .. Len(asyncQ[p]) : asyncQ'[p][i] = asyncQ[p][i]
        /\ asyncQ'[p][Len(asyncQ[p]) + 1] = k
    BY <1>2
  <1>4. ASSUME NEW q \in Procs, NEW j \in Jobs, Waits(q, j) PROVE Waits(q, j)'
    BY <1>2, <1>3, <1>4 DEF Waits
  <1>5. Waits(p, k)'
    BY <1>3 DEF Waits
  <1> QED BY <1>4, <1>5

\* The worker takes the first job of the queue, or puts it at its end.
LEMMA TakeWaits ==
  ASSUME RQTypeOK, NEW p \in Procs, Take(p), NEW j \in Jobs, NEW q \in Procs, Waits(q, j)
  PROVE  Waits(q, j)' \/ (q = p /\ w'[p] = [pc |-> "check", job |-> j])
  <1>1. asyncQ \in [Procs -> Seq(Jobs)] /\ w \in [Procs -> WPlaces] /\ asyncQ[p] # <<>>
    BY DEF RQTypeOK, WPlaces, Take
  <1>2. CASE q # p
    <2>1. asyncQ'[q] = asyncQ[q]
      BY <1>1, <1>2 DEF Take
    <2> QED BY <2>1 DEF Waits
  <1>3. CASE q = p
    <2> DEFINE s == asyncQ[p]
               k == Head(s)
    <2>1. s \in Seq(Jobs) /\ s # <<>> /\ k \in Jobs /\ Tail(s) \in Seq(Jobs)
      BY <1>1
    <2>2. PICK i \in 1 .. Len(s) : s[i] = j
      BY <1>3, <2>1 DEF Waits
    <2>3. Len(s) \in Nat /\ Len(Tail(s)) = Len(s) - 1 /\ \A n \in 1 .. Len(s) - 1 : Tail(s)[n] = s[n + 1]
      BY <2>1
    <2>4. i = 1 => k = j
      BY <2>2
    <2>5. ASSUME asyncQ'[p] = Append(Tail(s), k) PROVE Waits(p, j)'
      <3> DEFINE t == Append(Tail(s), k)
      <3>1. /\ DOMAIN t = 1 .. Len(s) /\ t[Len(s)] = k
            /\ \A n \in 1 .. Len(s) - 1 : t[n] = s[n + 1]
        BY <2>1, <2>3
      <3>2. \E n \in DOMAIN t : t[n] = j
        <4>1. CASE i = 1
          BY <2>2, <2>3, <2>4, <3>1, <4>1
        <4>2. CASE i # 1
          <5>1. i - 1 \in 1 .. Len(s) - 1 /\ t[i - 1] = s[(i - 1) + 1]
            BY <2>2, <2>3, <3>1, <4>2
          <5> HIDE DEF t
          <5> QED BY <2>2, <2>3, <3>1, <5>1
        <4> QED BY <4>1, <4>2
      <3> QED BY <2>5, <3>2 DEF Waits
    <2>6. ASSUME asyncQ'[p] = Tail(s), i # 1 PROVE Waits(p, j)'
      <3>1. i - 1 \in DOMAIN Tail(s) /\ Tail(s)[i - 1] = j
        BY <2>1, <2>2, <2>3, <2>6
      <3> QED BY <2>6, <3>1 DEF Waits
    <2>7. CASE row[k] = "PAUSED"
      BY <1>1, <1>3, <2>5, <2>7 DEF Take
    <2>8. CASE row[k] # "PAUSED"
      <3>1. asyncQ'[p] = Tail(s) /\ w'[p] = [pc |-> "check", job |-> k]
        BY <1>1, <2>8 DEF Take
      <3> QED BY <1>3, <2>4, <2>6, <3>1
    <2> QED BY <2>7, <2>8
  <1> QED BY <1>2, <1>3

\* A step that takes no job from the instances' hands, schedulers and rows to
\* read, nor from Redis, leaves a job due that was due.
LEMMA StaysDue ==
  ASSUME setup' = setup, NEW j \in Jobs, Due(j),
         InRedis(j) => Due(j)',
         \A p \in setup.procs : WillRead(p) => Due(j)',
         \A p \in setup.procs : j \in boot[p] => Due(j)',
         \A p \in setup.procs : Coming(p, j) => Due(j)',
         \A p \in setup.procs : Owes(p, j) => Due(j)'
  PROVE  Due(j)'
  BY DEF Due

\* An instance that will read the rows makes every job due.
LEMMA ReaderDue ==
  ASSUME NEW p \in setup'.procs, WillRead(p)'
  PROVE  AllDue'
  BY DEF AllDue, Due

\* What only adds to Redis, queues and schedulers leaves what is due due.
LEMMA GrowsDue ==
  ASSUME ABTypeOK, setup' = setup, UNCHANGED <<up, boot, hand, w, mover>>,
         NEW j \in Jobs, Due(j),
         InRedis(j) => InRedis(j)',
         \A q \in Procs : Waits(q, j) => Waits(q, j)',
         \A q \in Procs : heap[q][j] > 0 \/ disp[q] = j => Coming(q, j)',
         \A q \in setup.procs : Owes(q, j) => Owes(q, j)'
  PROVE  Due(j)'
  <1>1. setup.procs \subseteq Procs
    BY RedisQueueAssumption DEF ABTypeOK, RQTypeOK
  <1> QED BY <1>1 DEF Due, WillRead, Coming

LEMMA RequestDue ==
  ASSUME ABTypeOK, Ups, AllDue, Request
  PROVE  AllDue'
  <1> SUFFICES ASSUME NEW p \in Procs, NEW k \in Jobs,
                      NEW j \in Jobs, j \notin dropped', row'[j] = "QUEUED",
                      ABSubmit(p, k) \/ ABCancel(p, k) \/ ABPause(p, k)
               PROVE  Due(j)'
    BY DEF AllDue, Request
  <1> USE DEF Rest, healthVars, Same
  <1>0. row \in [Jobs -> States] /\ setup.procs \subseteq Procs /\ heap \in [Procs -> [Jobs -> Nat]]
    BY RedisQueueAssumption DEF ABTypeOK, RQTypeOK
  <1>1. /\ UNCHANGED <<setup, up, boot, hand, asyncQ, w, mover, dlq, disp, scan, owed>>
        /\ p \in setup.procs
    BY DEF ABSubmit, ABCancel, ABPause, Accept, Cancel, Pause, Handles, Loop, Ups
  <1>2. \A q \in Procs : Waits(q, j) => Waits(q, j)'
    BY <1>1 DEF Waits
  <1>3. CASE ABSubmit(p, k)
    <2>1. /\ row' = [row EXCEPT ![k] = "QUEUED"] /\ delayed' = delayed
          /\ pending \subseteq pending' /\ \A q \in Procs, i \in Jobs : heap'[q][i] >= heap[q][i]
          /\ heap' \in [Procs -> [Jobs -> Nat]]
          /\ k \in pending' \/ heap'[p][k] > 0
          /\ dropped' = dropped \ {k} /\ \A q \in Procs : seen'[q] \subseteq seen[q]
      BY <1>3, OfferTypes DEF ABSubmit, Accept
    <2>2. CASE j = k
      BY <1>1, <2>1, <2>2 DEF Due, InRedis, Coming
    <2>3. CASE j # k
      <3>1. Due(j)
        BY <1>0, <2>1, <2>3 DEF AllDue
      <3>2. \A q \in Procs : heap[q][j] > 0 \/ disp[q] = j => Coming(q, j)'
        BY <1>0, <1>1, <2>1 DEF Coming
      <3>3. \A q \in setup.procs : Owes(q, j) => Owes(q, j)'
        BY <1>0, <1>1, <2>1 DEF Owes
      <3>4. InRedis(j) => InRedis(j)'
        BY <1>1, <2>1 DEF InRedis
      <3> QED BY <1>1, <1>2, <3>1, <3>2, <3>3, <3>4, GrowsDue
    <2> QED BY <2>2, <2>3
  <1>4. CASE ABCancel(p, k) \/ ABPause(p, k)
    <2>1. \E st \in States \ {"QUEUED"} : row' = [row EXCEPT ![k] = st]
      BY <1>4 DEF ABCancel, ABPause, Cancel, Pause, States
    <2>2. j # k /\ row[j] = "QUEUED"
      BY <1>0, <2>1
    <2>3. /\ heap' = heap /\ pending \ {k} \subseteq pending' /\ delayed \ {k} \subseteq delayed'
          /\ dropped' = dropped /\ seen' = seen
      BY <1>4 DEF ABCancel, ABPause, Cancel, Pause
    <2>4. Due(j)
      BY <2>2, <2>3 DEF AllDue
    <2>5. \A q \in Procs : heap[q][j] > 0 \/ disp[q] = j => Coming(q, j)'
      BY <1>1, <2>3 DEF Coming
    <2>6. \A q \in setup.procs : Owes(q, j) => Owes(q, j)'
      BY <1>1, <2>3 DEF Owes
    <2>7. InRedis(j) => InRedis(j)'
      BY <1>1, <2>2, <2>3 DEF InRedis
    <2> QED BY <1>1, <1>2, <2>4, <2>5, <2>6, <2>7, GrowsDue
  <1> QED BY <1>3, <1>4

\* A step of one worker: only its own job may be due no longer, and only if it
\* had it before its run.
LEMMA WorkerDue ==
  ASSUME ABTypeOK, AllDue, NEW p \in Procs,
         UNCHANGED <<setup, up, boot, hand, asyncQ, mover, dlq, disp>>,
         pending \subseteq pending', delayed \subseteq delayed',
         \A q \in Procs, i \in Jobs : heap[q][i] > 0 => heap'[q][i] > 0,
         \A q \in Procs, i \in Jobs : Owes(q, i) => Owes(q, i)',
         \A q \in Procs \ {p} : w'[q] = w[q],
         NEW k \in Jobs, w[p].job = k,
         \A i \in Jobs \ {k} : row'[i] = row[i] /\ (i \in dropped => i \in dropped'),
         row'[k] = "QUEUED" /\ k \notin dropped' =>
            \/ Due(k)'
            \/ /\ row[k] = "QUEUED" /\ k \notin dropped
               /\ w[p].pc \in Before => w'[p].job = k /\ w'[p].pc \in Before
  PROVE  AllDue'
  <1> SUFFICES ASSUME NEW j \in Jobs, j \notin dropped', row'[j] = "QUEUED", ~Due(j)' PROVE FALSE
    BY DEF AllDue
  <1>0. setup.procs \subseteq Procs
    BY RedisQueueAssumption DEF ABTypeOK, RQTypeOK
  <1>6. /\ row[j] = "QUEUED" /\ j \notin dropped
        /\ j = k /\ w[p].pc \in Before
              => w'[p].job = k /\ w'[p].pc \in Before
    <2>1. CASE j = k
      BY <2>1
    <2>2. CASE j # k
      BY <2>2
    <2> QED BY <2>1, <2>2
  <1>1. Due(j)
    BY <1>6 DEF AllDue
  <1>2. \A q \in Procs : Waits(q, j) => Waits(q, j)'
    BY DEF Waits
  <1>3. InRedis(j) => Due(j)'
    BY DEF Due, InRedis
  <1>4. \A q \in setup.procs : (WillRead(q) \/ j \in boot[q]) => Due(j)'
    BY DEF Due, WillRead
  <1>5. ASSUME NEW q \in setup.procs, Coming(q, j) PROVE Due(j)'
    <2>1. q \in Procs /\ (w[q].job = j /\ w[q].pc \in Before
                             => w'[q].job = j /\ w'[q].pc \in Before)
      BY <1>0, <1>6
    <2>2. Coming(q, j)'
      BY <1>2, <1>5, <2>1 DEF Coming
    <2> QED BY <2>2 DEF Due
  <1>7. \A q \in setup.procs : Owes(q, j) => Due(j)'
    BY <1>0 DEF Due
  <1> QED BY <1>1, <1>3, <1>4, <1>5, <1>7, StaysDue

LEMMA TakeDueStays ==
  ASSUME ABTypeOK, AllDue, NEW p \in Procs, Take(p),
         UNCHANGED <<heap, disp, scan, owed, seen, dropped>>
  PROVE  AllDue'
  <1> SUFFICES ASSUME NEW j \in Jobs, j \notin dropped, row'[j] = "QUEUED" PROVE Due(j)'
    BY DEF AllDue
  <1>0. RQTypeOK /\ setup.procs \subseteq Procs /\ w \in [Procs -> WPlaces]
    BY RedisQueueAssumption DEF ABTypeOK, RQTypeOK, WPlaces
  <1>1. UNCHANGED <<row, setup, up, boot, hand, mover, pending, delayed, dlq>> /\ w[p].pc = "idle"
    BY DEF Take, Others, bounds, redisVars, At
  <1>2. \A q \in Procs : w'[q] = w[q] \/ q = p
    BY <1>0 DEF Take
  <1>3. Due(j)
    BY <1>1 DEF AllDue
  <1>4. InRedis(j) => Due(j)'
    BY <1>1 DEF InRedis, Due
  <1>5. \A q \in setup.procs : WillRead(q) \/ j \in boot[q] => Due(j)'
    BY <1>1 DEF WillRead, Due
  <1>6. ASSUME NEW q \in setup.procs, Coming(q, j) PROVE Due(j)'
    <2>1. CASE Waits(q, j)
      <3>1. Waits(q, j)' \/ (q = p /\ w'[p] = [pc |-> "check", job |-> j])
        BY <1>0, <2>1, TakeWaits
      <3>2. Coming(q, j)'
        BY <3>1 DEF Coming, Before
      <3> QED BY <1>1, <3>2 DEF Due
    <2>2. CASE ~Waits(q, j)
      <3>1. q \in Procs /\ (w[q].pc \in Before => w'[q] = w[q])
        BY <1>0, <1>1, <1>2 DEF Before
      <3>2. Coming(q, j)'
        BY <1>1, <1>6, <2>2, <3>1 DEF Coming
      <3> QED BY <1>1, <3>2 DEF Due
    <2> QED BY <2>1, <2>2
  <1>7. \A q \in setup.procs : Owes(q, j) => Due(j)'
    BY <1>1 DEF Owes, Due
  <1> QED BY <1>1, <1>3, <1>4, <1>5, <1>6, <1>7, StaysDue

\* A worker lets go of a QUEUED job only to be found again, or for a run, or the job
\* is dropped.
LEMMA RunDue ==
  ASSUME ABTypeOK, Ups, AllDue, NEW p \in Procs, Run(p), ~broken'
  PROVE  AllDue'
  <1> USE DEF Same, Rest, serverVars, healthVars, marks, Others, bounds, redisVars, localQ
  <1>1. CASE Take(p) /\ Same
    BY <1>1, TakeDueStays
  <1>2. CASE ~Take(p)
    <2>1. w[p].pc # "idle" /\ ~WorkFails(p)
      BY <1>2 DEF Run, ABCheck, ABWork, AskFallback, WorkFails, AfterFails, AdmitBlind, ABEndRun, Ends,
            Check, Defer, Release, Admit, AdmitBusy, After, Unlock, At
    <2>2. PICK k \in Jobs : k = w[p].job
      BY <2>1, WorkerTypes DEF ABTypeOK
    <2>3. /\ row \in [Jobs -> States] /\ w \in [Procs -> WPlaces]
          /\ heap \in [Procs -> [Jobs -> Nat]]
      BY DEF ABTypeOK, RQTypeOK, WPlaces
    <2>4. UNCHANGED <<setup, up, boot, hand, asyncQ, mover, dlq, disp>>
      BY <1>2, <2>1 DEF Run, ABCheck, ABWork, AskFallback, AfterFails, AdmitBlind, ABEndRun, Ends,
            Check, Defer, Release, Admit, AdmitBusy, After, Unlock
    <2>5. \A q \in Procs \ {p} : w'[q] = w[q]
      <3>1. Rests(p) \/ \E pc \in Steps : Goes(p, pc)
        BY <1>2, <2>1 DEF Run, ABCheck, ABWork, AskFallback, AfterFails, AdmitBlind, ABEndRun, Ends,
            Check, Defer, Release, Admit, AdmitBusy, After, Unlock, Steps
      <3> QED BY <2>3, <3>1 DEF Rests, Goes
    <2>6. /\ pending \subseteq pending' /\ delayed \subseteq delayed'
          /\ \A q \in Procs, i \in Jobs : heap[q][i] > 0 => heap'[q][i] > 0
      <3>1. CASE ABEndRun(p)
        <4>1. delayed' = delayed /\ (Offer(p, k) \/ UNCHANGED <<pending, heap>>)
          BY <2>2, <3>1 DEF ABEndRun, Ends
        <4>2. CASE Offer(p, k)
          <5>1. pending \subseteq pending' /\ \A q \in Procs, i \in Jobs : heap'[q][i] >= heap[q][i]
            BY <4>2, OfferTypes
          <5>2. heap' \in [Procs -> [Jobs -> Nat]]
            BY <4>2, OfferTypes
          <5> QED BY <2>3, <4>1, <5>1, <5>2
        <4> QED BY <4>1, <4>2
      <3>2. CASE ~ABEndRun(p)
        BY <1>2, <2>1, <3>2 DEF Run, ABCheck, ABWork, AskFallback, AfterFails, AdmitBlind,
              Check, Defer, Release, Admit, AdmitBusy, After, Unlock
      <3> QED BY <3>1, <3>2
    <2>9. \A q \in Procs, i \in Jobs : Owes(q, i) => Owes(q, i)'
      <3>1. scan' = scan /\ \A q \in Procs : owed[q] \subseteq owed'[q]
        <4>1. owed' = owed \/ LeftToScan(p, k)
          BY <1>2, <2>1, <2>2 DEF Run, ABCheck, ABWork, AskFallback, AfterFails, AdmitBlind,
                ABEndRun
        <4>2. scan' = scan
          BY <1>2, <2>1 DEF Run, ABCheck, ABWork, AskFallback, AfterFails, AdmitBlind, ABEndRun
        <4> QED BY <4>1, <4>2 DEF LeftToScan, ABTypeOK
      <3>2. \A q \in Procs : seen'[q] \subseteq seen[q]
        <4>1. CASE ABEndRun(p)
          <5>1. Offer(p, k) \/ seen' = seen
            BY <2>2, <4>1 DEF ABEndRun
          <5> QED BY <5>1, OfferTypes
        <4>2. CASE ~ABEndRun(p)
          <5>1. seen' = seen \/ Forget(p, k)
            BY <1>2, <2>1, <2>2, <4>2 DEF Run, ABCheck, ABWork, AskFallback, AfterFails, AdmitBlind
          <5> QED BY <5>1 DEF Forget, ABTypeOK
        <4> QED BY <4>1, <4>2
      <3> QED BY <3>1, <3>2 DEF Owes
    <2>10. \A i \in Jobs \ {k} : i \in dropped => i \in dropped'
      <3>1. CASE ABEndRun(p)
        <4>1. Offer(p, k) \/ dropped' = dropped
          BY <2>2, <3>1 DEF ABEndRun
        <4> QED BY <4>1 DEF Offer
      <3>2. CASE ~ABEndRun(p)
        BY <1>2, <2>1, <3>2 DEF Run, ABCheck, ABWork, AskFallback, LeftToScan, AfterFails,
           AdmitBlind
      <3> QED BY <3>1, <3>2
    <2>7. \A i \in Jobs \ {k} : row'[i] = row[i]
      <3>1. row' = row \/ \E st \in States : row' = [row EXCEPT ![k] = st]
        BY <1>2, <2>1, <2>2 DEF Run, ABCheck, ABWork, AskFallback, AfterFails, AdmitBlind, ABEndRun, Ends,
            Check, Defer, Release, Admit, AdmitBusy, After, Unlock, States
      <3> QED BY <2>3, <3>1
    <2>8. ASSUME row'[k] = "QUEUED", k \notin dropped'
          PROVE  \/ Due(k)'
                 \/ /\ row[k] = "QUEUED" /\ k \notin dropped
                    /\ w[p].pc \in Before => w'[p].job = k /\ w'[p].pc \in Before
      <3>1. CASE ABEndRun(p)
        <4>1. CASE EndsPass1(k)
          <5>1. Offer(p, k) /\ up[p] # "down" /\ setup' = setup
            BY <2>2, <2>4, <3>1, <4>1 DEF ABEndRun, Ends, At
          <5>2. p \in setup.procs /\ (k \in pending' \/ heap'[p][k] > 0)
            BY <5>1, OfferTypes DEF Ups
          <5> QED BY <5>1, <5>2 DEF Due, InRedis, Coming
        <4>2. CASE ~EndsPass1(k)
          BY <2>2, <2>3, <2>8, <3>1, <4>2 DEF ABEndRun, Ends
        <4> QED BY <4>1, <4>2
      <3>2. CASE ((After(p) \/ Unlock(p) \/ Release(p)) /\ Same) \/ AfterFails(p)
        BY <2>8, <3>2 DEF After, Unlock, Release, AfterFails, At, Before
      <3>3. CASE ABCheck(p)
        <4>1. CASE row[k] \in Terminal
          BY <2>8, <3>3, <4>1 DEF ABCheck, Check, Terminal
        <4>2. CASE row[k] \notin Terminal
          <5>1. ~(Denied(k) /\ k \in running) /\ k \notin dropped
            BY <2>2, <2>8, <3>3, <4>2 DEF ABCheck
          <5>2. (Goes(p, "admit") \/ Goes(p, "defer")) /\ row' = row
            BY <2>2, <3>3, <4>2, <5>1 DEF ABCheck, Check
          <5>3. w'[p].pc \in Before /\ w'[p].job = k
            BY <2>2, <2>3, <5>2 DEF Goes, WPlaces, Before
          <5> QED BY <2>8, <5>1, <5>2, <5>3
        <4> QED BY <4>1, <4>2
      <3>4. CASE Admit(p) \/ AdmitBlind(p)
        <4>1. row'[k] # "QUEUED"
          BY <2>2, <2>3, <3>4 DEF Admit, AdmitBlind
        <4> QED BY <2>8, <4>1
      <3>7. CASE AskFallback(p)
        <4>1. LeftToScan(p, k) /\ Forget(p, k) /\ scan' = scan
          <5>1. \/ LeftToScan(p, k) /\ Forget(p, k)
                \/ \E st \in {"CANCELED", "RUNNING"} : row' = [row EXCEPT ![k] = st]
            BY <2>2, <3>7 DEF AskFallback
          <5> QED BY <2>3, <2>8, <3>7, <5>1 DEF AskFallback
        <4>2. p \in scan /\ k \in owed'[p] /\ k \notin seen'[p]
          BY <2>8, <4>1 DEF LeftToScan, Forget, ABTypeOK
        <4>3. p \in setup'.procs
          BY <2>4, <3>7 DEF AskFallback, At, Ups
        <4> QED BY <4>1, <4>2, <4>3 DEF Due, Owes
      <3>5. CASE AdmitBusy(p) \/ Defer(p)
        BY <2>2, <3>5 DEF AdmitBusy, Defer, Due, InRedis
      <3> QED BY <1>2, <2>1, <3>1, <3>2, <3>3, <3>4, <3>5, <3>7 DEF Run, ABWork
    <2> QED BY <2>2, <2>4, <2>5, <2>6, <2>7, <2>8, <2>9, <2>10, WorkerDue
  <1> QED BY <1>1, <1>2 DEF Run, ABCheck, ABWork, AskFallback, WorkFails, AfterFails, AdmitBlind,
           ABEndRun, Ends, Take, Check, At

\* A claimed job goes to the instance's hand, from there to its queue or to the dead
\* letters; what the mover takes out of delayed it has until it is pending.
LEMMA LoopDue ==
  ASSUME ABTypeOK, Ups, AllDue, NEW p \in Procs, Poll(p) \/ Shift(p), ~broken'
  PROVE  AllDue'
  <1> SUFFICES ASSUME NEW j \in Jobs, j \notin dropped', row'[j] = "QUEUED" PROVE Due(j)'
    BY DEF AllDue
  <1> USE DEF Same, Rest, Others, bounds, redisVars, healthVars, localQ, marks
  <1>0. /\ RQTypeOK /\ setup.procs \subseteq Procs /\ hand \in [Procs -> Jobs \cup {NoJob}]
        /\ mover \in [Procs -> [due : SUBSET Jobs, cur : Jobs \cup {NoJob}]]
        /\ j # NoJob
    BY RedisQueueAssumption DEF ABTypeOK, RQTypeOK
  <1>1. UNCHANGED <<row, setup, up, boot, w, heap, disp, scan, owed, seen, dropped>>
    BY DEF Poll, Shift, ABConsume, ABMove, DeliverBlind, MoverFails, Claim, Deliver,
           Move, ReadDue, TakeDue, PutDue, MovesOn
  <1>2. p \in setup.procs
    BY DEF Poll, Shift, ABConsume, ABMove, DeliverBlind, MoverFails, Claim, Deliver,
           Move, ReadDue, TakeDue, PutDue, MovesOn, Loop, Ups
  <1>3. Due(j)
    BY <1>1 DEF AllDue
  <1>4. \A q \in setup.procs : WillRead(q) \/ j \in boot[q] => Due(j)'
    BY <1>1 DEF WillRead, Due
  <1>9. \A q \in setup.procs : Owes(q, j) => Due(j)'
    BY <1>1 DEF Owes, Due
  <1>5. CASE Claim(p)
    <2>1. PICK k \in Jobs : /\ pending' = pending \ {k} /\ hand' = [hand EXCEPT ![p] = k]
                            /\ hand[p] = NoJob /\ UNCHANGED <<delayed, dlq, asyncQ, mover>>
      BY <1>5 DEF Claim
    <2>2. InRedis(j) => Due(j)'
      <3>1. CASE j = k
        BY <1>0, <1>1, <1>2, <2>1, <3>1 DEF Due, Coming
      <3>2. CASE j # k
        BY <2>1, <3>2 DEF InRedis, Due
      <3> QED BY <3>1, <3>2
    <2>3. ASSUME NEW q \in setup.procs, Coming(q, j) PROVE Due(j)'
      <3>1. hand[q] = j => hand'[q] = j
        BY <1>0, <2>1
      <3> QED BY <1>1, <2>1, <2>3, <3>1 DEF Coming, Due, Waits
    <2> QED BY <1>1, <1>3, <1>4, <1>9, <2>2, <2>3, StaysDue
  <1>6. CASE Deliver(p) \/ DeliverBlind(p)
    <2>1. PICK k \in Jobs : k = hand[p]
      BY <1>0, <1>6 DEF Deliver, DeliverBlind
    <2>2. /\ UNCHANGED <<pending, delayed, mover>> /\ dlq \subseteq dlq'
          /\ hand' = [hand EXCEPT ![p] = NoJob]
          /\ \/ k \in dlq' /\ asyncQ' = asyncQ
             \/ asyncQ' = [asyncQ EXCEPT ![p] = Append(@, k)]
      BY <1>6, <2>1 DEF Deliver, DeliverBlind
    <2>3. /\ \A q \in Procs : Waits(q, j) => Waits(q, j)'
          /\ k \in dlq' \/ Waits(p, k)'
      <3>1. CASE k \in dlq' /\ asyncQ' = asyncQ
        BY <3>1 DEF Waits
      <3>2. CASE asyncQ' = [asyncQ EXCEPT ![p] = Append(@, k)]
        BY <1>0, <3>2, AppendWaits
      <3> QED BY <2>2, <3>1, <3>2
    <2>4. InRedis(j) => Due(j)'
      BY <2>2 DEF InRedis, Due
    <2>5. ASSUME NEW q \in setup.procs, Coming(q, j) PROVE Due(j)'
      <3>1. CASE hand[q] = j /\ q = p
        BY <1>1, <2>1, <2>3, <2>5, <3>1 DEF Due, InRedis, Coming
      <3>2. CASE hand[q] = j /\ q # p
        <4>1. hand'[q] = j
          BY <1>0, <2>2, <3>2
        <4> QED BY <1>1, <4>1 DEF Due, Coming
      <3>3. CASE hand[q] # j
        <4>1. Coming(q, j)'
          BY <1>0, <1>1, <2>2, <2>3, <2>5, <3>3 DEF Coming
        <4> QED BY <1>1, <4>1 DEF Due
      <3> QED BY <3>1, <3>2, <3>3
    <2> QED BY <1>1, <1>3, <1>4, <1>9, <2>4, <2>5, StaysDue
  <1>7. CASE Move(p)
    <2>1. UNCHANGED <<dlq, hand, asyncQ>> /\ \A q \in Procs \ {p} : mover'[q] = mover[q]
      BY <1>0, <1>7 DEF Move, ReadDue, TakeDue, PutDue, MovesOn
    <2>2. InRedis(j) => Due(j)'
      <3>1. ASSUME NEW k \in Jobs, mover'[p].cur = k, delayed' = delayed \ {k}, pending' = pending
            PROVE  InRedis(j) => Due(j)'
        <4>1. CASE j = k
          BY <1>1, <1>2, <3>1, <4>1 DEF Due, Coming
        <4>2. CASE j # k
          BY <2>1, <3>1, <4>2 DEF InRedis, Due
        <4> QED BY <4>1, <4>2
      <3>2. CASE TakeDue(p)
        <4>1. PICK k \in mover[p].due : /\ mover' = [mover EXCEPT ![p] = [due |-> @.due \ {k}, cur |-> k]]
                                        /\ delayed' = delayed \ {k} /\ pending' = pending
          BY <3>2 DEF TakeDue
        <4>2. k \in Jobs /\ mover'[p].cur = k
          BY <1>0, <4>1
        <4> QED BY <3>1, <4>1, <4>2
      <3>3. CASE ReadDue(p) \/ PutDue(p)
        BY <2>1, <3>3 DEF ReadDue, PutDue, InRedis, Due
      <3> QED BY <1>7, <3>2, <3>3 DEF Move
    <2>3. mover[p].cur = j => Due(j)'
      <3>1. CASE ReadDue(p) \/ TakeDue(p)
        BY <1>0, <3>1 DEF ReadDue, TakeDue, Still
      <3>2. CASE PutDue(p)
        BY <3>2 DEF PutDue, InRedis, Due
      <3> QED BY <1>7, <3>1, <3>2 DEF Move
    <2>4. ASSUME NEW q \in setup.procs, Coming(q, j) PROVE Due(j)'
      <3>1. CASE q = p /\ mover[p].cur = j
        BY <2>3, <3>1
      <3>2. CASE q # p \/ mover[p].cur # j
        <4>1. Coming(q, j)'
          BY <1>0, <1>1, <2>1, <2>4, <3>2 DEF Coming, Waits
        <4> QED BY <1>1, <4>1 DEF Due
      <3> QED BY <3>1, <3>2
    <2> QED BY <1>1, <1>3, <1>4, <1>9, <2>2, <2>4, StaysDue
  <1>8. CASE MoverFails(p)
    <2>1. mover[p].cur = NoJob /\ UNCHANGED <<pending, delayed, dlq, hand, asyncQ>>
      BY <1>8 DEF MoverFails
    <2>2. \A q \in Procs : mover[q].cur = j => mover'[q].cur = j
      BY <1>0, <1>8, <2>1 DEF MoverFails
    <2> QED BY <1>0, <1>1, <1>3, <2>1, <2>2 DEF Due, InRedis, WillRead, Coming, Owes, Waits
  <1> QED BY <1>5, <1>6, <1>7, <1>8 DEF Poll, Shift, ABConsume, ABMove

\* A dispatched job that is QUEUED goes to the dispatcher, and from there to the
\* worker's queue; a scan that is stopped drops what it owed, and one that goes on
\* finds it.
LEMMA LocalDue ==
  ASSUME ABTypeOK, Ups, AllDue, NEW p \in Procs,
         Watch(p) \/ Scan(p) \/ HandOver(p) \/ \E k \in Jobs : Dispatch(p, k)
  PROVE  AllDue'
  <1> SUFFICES ASSUME NEW j \in Jobs, j \notin dropped', row'[j] = "QUEUED" PROVE Due(j)'
    BY DEF AllDue
  <1> USE DEF Local, redisVars, bounds, localQ, marks, healthVars
  <1>0. /\ RQTypeOK /\ setup.procs \subseteq Procs /\ heap \in [Procs -> [Jobs -> Nat]]
        /\ disp \in [Procs -> Jobs \cup {NoJob}] /\ j # NoJob /\ row \in [Jobs -> States]
        /\ owed \in [Procs -> SUBSET Jobs] /\ seen \in [Procs -> SUBSET Jobs]
    BY RedisQueueAssumption DEF ABTypeOK, RQTypeOK
  <1>1. UNCHANGED <<setup, up, boot, hand, w, mover, pending, delayed, dlq>>
    BY DEF Watch, Ping, Monitor, Scan, HandOver, Dispatch
  <1>2. InRedis(j) => InRedis(j)'
    BY <1>1 DEF InRedis
  <1>3. CASE Watch(p)
    <2>1. UNCHANGED <<row, asyncQ, heap, disp>>
      BY <1>3 DEF Watch, Ping, Monitor
    <2>2. dropped \subseteq dropped'
      BY <1>3 DEF Watch, Ping, Monitor
    <2>3. Due(j)
      BY <2>1, <2>2 DEF AllDue
    <2>4. \A q \in setup.procs : Owes(q, j) => Owes(q, j)'
      <3>1. CASE Ping(p)
        BY <3>1 DEF Ping, Owes
      <3>2. CASE Monitor(p) /\ scan' = scan \ {p}
        <4>1. seen' = [seen EXCEPT ![p] = {}] /\ owed' = [owed EXCEPT ![p] = {}]
              /\ dropped' = dropped \cup owed[p]
          BY <3>2 DEF Monitor
        <4> QED BY <1>0, <3>2, <4>1 DEF Owes
      <3>3. CASE Monitor(p) /\ scan' = scan \cup {p} /\ UNCHANGED <<seen, owed>>
        BY <3>3 DEF Owes
      <3> QED BY <1>3, <3>1, <3>2, <3>3 DEF Watch, Monitor
    <2> QED BY <1>1, <1>2, <2>1, <2>3, <2>4, GrowsDue DEF Coming, Waits
  <1>4. CASE Scan(p)
    <2>1. UNCHANGED <<asyncQ, row, disp, scan>> /\ p \in setup.procs
      BY <1>4 DEF Scan, Loop, Ups
    <2>2. /\ heap'[p] = [i \in Jobs |-> IF i \in NewlyQueued(p) THEN heap[p][i] + 1 ELSE heap[p][i]]
          /\ \A q \in Procs \ {p} : /\ heap'[q] = heap[q] /\ owed'[q] = owed[q]
                                     /\ seen'[q] = seen[q]
          /\ dropped' = dropped \ NewlyQueued(p)
      BY <1>0, <1>4 DEF Scan
    <2>3. CASE j \in NewlyQueued(p)
      <3>1. heap'[p][j] = heap[p][j] + 1 /\ heap[p][j] \in Nat
        BY <1>0, <2>1, <2>2, <2>3
      <3> QED BY <1>1, <2>1, <3>1 DEF Due, Coming
    <2>4. CASE j \notin NewlyQueued(p)
      <3>1. Due(j) /\ row[j] = "QUEUED"
        BY <2>1, <2>2, <2>4 DEF AllDue
      <3>2. \A q \in Procs : heap'[q][j] = heap[q][j]
        BY <2>2, <2>4
      <3>3. \A q \in setup.procs : Owes(q, j) => Owes(q, j)'
        BY <1>0, <2>1, <2>2, <2>4, <3>1 DEF Owes, NewlyQueued
      <3> QED BY <1>1, <1>2, <2>1, <3>1, <3>2, <3>3, GrowsDue DEF Coming, Waits
    <2> QED BY <2>3, <2>4
  <1>5. ASSUME NEW k \in Jobs, Dispatch(p, k) PROVE Due(j)'
    <2>1. UNCHANGED <<row, asyncQ, scan, owed, seen, dropped>> /\ disp[p] = NoJob
      BY <1>5 DEF Dispatch
    <2>2. Due(j) /\ row[j] = "QUEUED"
      BY <2>1 DEF AllDue
    <2>3. heap' = [heap EXCEPT ![p] = [heap[p] EXCEPT ![k] = @ - 1]]
      BY <1>0, <1>5 DEF Dispatch
    <2>4. \A q \in Procs : disp[q] = j => disp'[q] = j
      BY <1>0, <1>5, <2>1 DEF Dispatch
    <2>5. \A q \in Procs : heap[q][j] > 0 => heap'[q][j] > 0 \/ disp'[q] = j
      <3> SUFFICES ASSUME NEW q \in Procs, heap[q][j] > 0 PROVE heap'[q][j] > 0 \/ disp'[q] = j
        OBVIOUS
      <3>1. CASE q = p /\ j = k
        BY <1>0, <1>5, <2>2, <3>1 DEF Dispatch
      <3>2. CASE q # p \/ j # k
        <4>1. heap'[q][j] = heap[q][j]
          BY <1>0, <2>3, <3>2
        <4> QED BY <4>1
      <3> QED BY <3>1, <3>2
    <2>6. \A q \in Procs : Waits(q, j) => Waits(q, j)'
      BY <2>1 DEF Waits
    <2>7. \A q \in setup.procs : Owes(q, j) => Owes(q, j)'
      BY <2>1 DEF Owes
    <2>8. \A q \in Procs : heap[q][j] > 0 \/ disp[q] = j => Coming(q, j)'
      BY <2>4, <2>5 DEF Coming
    <2> QED BY <1>1, <1>2, <2>2, <2>6, <2>7, <2>8, GrowsDue
  <1>6. CASE HandOver(p)
    <2>1. PICK k \in Jobs : k = disp[p]
      BY <1>0, <1>6 DEF HandOver
    <2>2. /\ asyncQ' = [asyncQ EXCEPT ![p] = Append(@, k)]
          /\ row' = [row EXCEPT ![k] = "QUEUED"]
          /\ disp' = [disp EXCEPT ![p] = NoJob]
          /\ UNCHANGED <<heap, scan, owed, seen, dropped>>
      BY <1>6, <2>1 DEF HandOver
    <2>3. p \in setup.procs
      BY <1>6 DEF HandOver, Ups
    <2>4. /\ \A q \in Procs : Waits(q, j) => Waits(q, j)'
          /\ Waits(p, k)'
      BY <1>0, <2>2, AppendWaits
    <2>5. CASE j = k
      BY <1>1, <2>3, <2>4, <2>5 DEF Due, Coming
    <2>6. CASE j # k
      <3>1. Due(j)
        BY <1>0, <2>2, <2>6 DEF AllDue
      <3>2. \A q \in Procs : heap[q][j] > 0 \/ disp[q] = j => Coming(q, j)'
        BY <1>0, <2>1, <2>2, <2>6 DEF Coming
      <3>3. \A q \in setup.procs : Owes(q, j) => Owes(q, j)'
        BY <2>2 DEF Owes
      <3> QED BY <1>1, <1>2, <2>4, <3>1, <3>2, <3>3, GrowsDue
    <2> QED BY <2>5, <2>6
  <1> QED BY <1>3, <1>4, <1>5, <1>6

\* A crashed or stopping instance reads the rows when it is back, and recovers what
\* it read.
LEMMA FailDue ==
  ASSUME ABTypeOK, Ups, AllDue,
         \/ Flip
         \/ \E p \in Procs : ABCrash(p) \/ Stop(p) \/ Exit(p) \/ ABComeback(p)
         \/ \E j \in Jobs : ABExpire(j) \/ ExpireLeft(j)
  PROVE  AllDue'
  <1> USE DEF Rest, serverVars, healthVars, redisVars, bounds, localVars, localQ, marks
  <1>0. /\ RQTypeOK /\ setup.procs \subseteq Procs
        /\ up \in [Procs -> {"down", "boot", "up", "drain"}]
        /\ boot \in [Procs -> SUBSET Jobs] /\ row \in [Jobs -> States]
        /\ heap \in [Procs -> [Jobs -> Nat]]
    BY RedisQueueAssumption DEF ABTypeOK, RQTypeOK
  <1>1. ASSUME UNCHANGED <<setup, row, up, boot, hand, asyncQ, w, mover, pending, delayed, dlq,
                           heap, disp, scan, owed, seen, dropped>>
        PROVE  AllDue'
    BY <1>1 DEF AllDue, Due, InRedis, WillRead, Coming, Owes, Waits
  <1>2. CASE Flip
    BY <1>1, <1>2 DEF Flip, rqVars
  <1>3. CASE \E j \in Jobs : ABExpire(j) \/ ExpireLeft(j)
    BY <1>1, <1>3 DEF ABExpire, ExpireLeft, ExpireGhost, ExpireMeta, Same, Others
  <1>4. ASSUME NEW p \in Procs, ABCrash(p) \/ Stop(p) \/ Exit(p) PROVE AllDue'
    <2>1. /\ setup' = setup /\ up[p] # "down"
          /\ up' = [up EXCEPT ![p] = "down"] \/ up' = [up EXCEPT ![p] = "drain"]
      BY <1>4 DEF ABCrash, Crash, Stop, Exit, Loop
    <2>2. p \in setup'.procs /\ WillRead(p)'
      BY <1>0, <2>1 DEF Ups, WillRead
    <2> QED BY <2>2, ReaderDue
  <1>5. ASSUME NEW p \in Procs, ABComeback(p) PROVE AllDue'
    <2> SUFFICES ASSUME NEW j \in Jobs, j \notin dropped', row'[j] = "QUEUED" PROVE Due(j)'
      BY DEF AllDue
    <2>0. /\ UNCHANGED <<setup, hand, asyncQ, w, mover, pending, delayed, dlq, disp, owed>>
          /\ \A q \in Procs \ {p} : up'[q] = up[q] /\ boot'[q] = boot[q]
      BY <1>0, <1>5 DEF ABComeback, Restart, Recover, Started, Same
    <2>1. CASE Restart(p)
      <3>1. p \in setup.procs /\ j \in boot'[p]
        BY <1>0, <2>1 DEF Restart, Unfinished
      <3> QED BY <2>0, <3>1 DEF Due
    <2>2. ASSUME ~Restart(p), row[j] = "QUEUED", j \notin dropped, scan' = scan,
                 \A q \in Procs : seen'[q] \subseteq seen[q],
                 j \in boot[p] => j \in boot'[p],
                 \A q \in Procs, i \in Jobs : heap'[q][i] >= heap[q][i],
                 heap' \in [Procs -> [Jobs -> Nat]]
          PROVE  Due(j)'
      <3>1. Due(j)
        BY <2>2 DEF AllDue
      <3>2. \A q \in setup.procs : WillRead(q) => WillRead(q)'
        <4>1. up[p] \notin {"down", "drain"}
          BY <1>5, <2>2 DEF ABComeback, Recover, Started
        <4> QED BY <1>0, <2>0, <4>1 DEF WillRead
      <3>3. \A q \in setup.procs : /\ q \in Procs
                                   /\ j \in boot[q] => j \in boot'[q]
                                   /\ heap[q][j] > 0 => heap'[q][j] > 0
        <4> SUFFICES ASSUME NEW q \in setup.procs
                     PROVE  /\ q \in Procs
                            /\ j \in boot[q] => j \in boot'[q]
                            /\ heap[q][j] > 0 => heap'[q][j] > 0
          OBVIOUS
        <4>1. q \in Procs
          BY <1>0
        <4>2. j \in boot[q] => j \in boot'[q]
          BY <2>0, <2>2, <4>1
        <4>3. heap[q][j] \in Nat /\ heap'[q][j] \in Nat /\ heap'[q][j] >= heap[q][j]
          BY <1>0, <2>2, <4>1
        <4>4. heap[q][j] > 0 => heap'[q][j] > 0
          BY <4>3
        <4> QED BY <4>1, <4>2, <4>4
      <3>4. \A q \in setup.procs : Owes(q, j) => Owes(q, j)'
        BY <1>0, <2>0, <2>2 DEF Owes
      <3>5. \A q \in setup.procs : Coming(q, j) => Coming(q, j)'
        BY <2>0, <3>3 DEF Coming, Waits
      <3> QED BY <2>0, <3>1, <3>2, <3>3, <3>4, <3>5 DEF Due, InRedis
    <2>3. ASSUME NEW k \in Jobs, Recover(p, k), Push(p, k), Forget(p, k),
                 dropped' = dropped \ {k}, UNCHANGED Rest
          PROVE  Due(j)'
      <3>1. /\ heap' \in [Procs -> [Jobs -> Nat]] /\ heap'[p][k] > 0
            /\ \A q \in Procs, i \in Jobs : heap'[q][i] >= heap[q][i]
        BY <2>3, PushTypes
      <3>2. CASE j = k
        <4>1. p \in setup.procs
          BY <2>3 DEF Recover, Ups
        <4> QED BY <2>0, <3>1, <3>2, <4>1 DEF Due, Coming
      <3>3. CASE j # k
        <4>1. ~Restart(p) /\ row[j] = "QUEUED" /\ (j \in boot[p] => j \in boot'[p])
          BY <1>0, <2>3, <3>3 DEF Recover, Restart
        <4>2. \A q \in Procs : seen'[q] \subseteq seen[q]
          BY <2>3 DEF Forget, ABTypeOK
        <4>3. j \notin dropped /\ scan' = scan
          BY <2>3, <3>3
        <4> QED BY <2>2, <3>1, <4>1, <4>2, <4>3
      <3> QED BY <3>2, <3>3
    <2>4. CASE Started(p) /\ Same
      <3>1. /\ ~Restart(p) /\ row' = row /\ boot' = boot /\ heap' = heap
            /\ UNCHANGED <<scan, seen, dropped>>
        BY <2>4 DEF Started, Restart, Same
      <3> QED BY <1>0, <2>2, <3>1
    <2> QED BY <1>5, <2>1, <2>3, <2>4 DEF ABComeback
  <1> QED BY <1>2, <1>3, <1>4, <1>5

\* A step keeps the QUEUED jobs due, unless they are dropped or Redis fails in the
\* middle of an operation.
LEMMA AllDueStep ==
  ASSUME ABTypeOK, Ups, AllDue, [ABNext]_abVars, ~broken'
  PROVE  AllDue'
  <1>1. CASE UNCHANGED abVars
    BY <1>1 DEF abVars, rqVars, redisVars, localVars, bounds, healthVars, localQ, marks, AllDue, Due,
          InRedis, WillRead, Coming, Owes, Waits
  <1> QED BY <1>1, RequestDue, RunDue, LoopDue, LocalDue, FailDue DEF ABNext

\* What a failed command breaks stays broken.
LEMMA BrokenStays == [ABNext]_abVars /\ broken => broken'
  <1> SUFFICES ASSUME [ABNext]_abVars, broken PROVE broken'
    OBVIOUS
  <1> USE DEF Same, Rest
  <1>1. ASSUME NEW p \in Procs, Run(p) \/ Poll(p) \/ Shift(p) \/ Watch(p) \/ Scan(p)
        PROVE  broken'
    BY <1>1 DEF Run, Poll, Shift, Watch, Scan, ABCheck, ABWork, AskFallback, WorkFails, AfterFails,
          AdmitBlind, ABEndRun, ABConsume, DeliverBlind, ABMove, MoverFails, Ping, Monitor
  <1>2. ASSUME NEW p \in Procs,
               \/ (\E j \in Jobs : Dispatch(p, j)) \/ HandOver(p)
               \/ ABCrash(p) \/ Stop(p) \/ Exit(p) \/ ABComeback(p)
        PROVE  broken'
    BY <1>2 DEF Dispatch, HandOver, ABCrash, Stop, Exit, ABComeback, Empty
  <1> QED BY <1>1, <1>2 DEF ABNext, abVars, Request, ABSubmit, ABCancel, ABPause, Flip, ABExpire, ExpireLeft

-----------------------------------------------------------------------------
(***************************************************************************)
(* Calm servers: Redis answers all the time and no instance dies or stops. *)
(* Then the choice between the two queues is always the same, and what     *)
(* RedisQueueProofs shows of the queue holds here as well.                 *)
(***************************************************************************)

Calm == setup.flips = 0 /\ setup.crashes = 0 /\ ~setup.lapse

\* Redis is there and every instance knows it.
Quiet ==
    /\ redisUp /\ ~broken /\ scan = {} /\ setup.procs \subseteq ok \cap mon
    /\ \A p \in Procs : /\ up[p] = IF p \in setup.procs THEN "up" ELSE "down"
                        /\ boot[p] = {} /\ disp[p] = NoJob /\ \A j \in Jobs : heap[p][j] = 0

\* An instance has the lock of no job but those on their way in it.
Held == \A j \in Jobs : lock[j] \in Procs => Holds(lock[j], j)

CalmInv == Calm => Quiet /\ Held /\ Inv /\ WorkersInv

\* Where no lock is given to an instance and no job leaves its place, the locks
\* are those of jobs on their way.
LEMMA HeldKept ==
  ASSUME Held, \A j \in Jobs : lock'[j] \in Procs => lock'[j] = lock[j],
         \A q \in Procs, j \in Jobs : lock[j] = q /\ Holds(q, j) => Holds(q, j)' \/ lock'[j] # q
  PROVE  Held'
  BY DEF Held

LEMMA NextHeld ==
  ASSUME RQTypeOK, Held, Leased, Accounted, setup.crashes = 0, [RQNext]_rqVars
  PROVE  Held'
  <1> USE DEF Others, bounds, redisVars, localVars
  <1>0. /\ lock \in [Jobs -> Procs \cup {Free, Ghost}] /\ hand \in [Procs -> Jobs \cup {NoJob}]
        /\ w \in [Procs -> WPlaces] /\ Free \notin Procs /\ NoJob \notin Jobs
    BY RedisQueueAssumption DEF RQTypeOK, WPlaces
  <1>1. ASSUME UNCHANGED <<hand, asyncQ, w>>, \A j \in Jobs : lock'[j] \in Procs => lock'[j] = lock[j]
        PROVE  Held'
    BY <1>1, HeldKept DEF Holds, Waits
  <1>2. CASE UNCHANGED rqVars \/ User
    <2>1. UNCHANGED <<hand, asyncQ, w, lock>>
      BY <1>2 DEF rqVars, User, Submit, Accept, Cancel, Pause, Handles
    <2> QED BY <1>1, <2>1
  <1>3. ASSUME NEW p \in Procs, Move(p) \/ Comeback(p) PROVE Held'
    <2>1. UNCHANGED <<hand, asyncQ, w, lock>>
      BY <1>3 DEF Move, ReadDue, TakeDue, PutDue, MovesOn, Comeback, Restart, Recover, Started
    <2> QED BY <1>1, <2>1
  <1>4. ASSUME NEW j \in Jobs, ExpireGhost(j) \/ Lapse(j) PROVE Held'
    <2>1. UNCHANGED <<hand, asyncQ, w>> /\ lock' = [lock EXCEPT ![j] = Free]
      BY <1>4 DEF ExpireGhost, Lapse
    <2> QED BY <1>0, <1>1, <2>1
  <1>10. ASSUME NEW j \in Jobs, ExpireMeta(j) PROVE Held'
    <2>1. UNCHANGED <<hand, asyncQ, w, lock>>
      BY <1>10 DEF ExpireMeta
    <2> QED BY <1>1, <2>1
  <1>5. ASSUME NEW p \in Procs, Crash(p) PROVE FALSE
    BY <1>5 DEF Crash, RQTypeOK
  <1>6. ASSUME NEW p \in Procs, Claim(p) PROVE Held'
    <2>1. PICK k \in Jobs : /\ lock' = [lock EXCEPT ![k] = p] /\ hand' = [hand EXCEPT ![p] = k]
                            /\ hand[p] = NoJob /\ UNCHANGED <<asyncQ, w>>
      BY <1>6 DEF Claim
    <2> SUFFICES ASSUME NEW j \in Jobs, NEW q \in Procs, lock'[j] = q PROVE Holds(q, j)'
      BY DEF Held
    <2>2. CASE j = k
      BY <1>0, <2>1, <2>2 DEF Holds
    <2>3. CASE j # k
      <3>1. Holds(q, j)
        BY <1>0, <2>1, <2>3 DEF Held
      <3>2. hand[q] = j => hand'[q] = j
        BY <1>0, <2>1
      <3> QED BY <2>1, <3>1, <3>2 DEF Holds, Waits
    <2> QED BY <2>2, <2>3
  <1>7. ASSUME NEW p \in Procs, Deliver(p) PROVE Held'
    <2>1. PICK k \in Jobs : k = hand[p]
      BY <1>0, <1>7 DEF Deliver
    <2>2. /\ hand' = [hand EXCEPT ![p] = NoJob] /\ w' = w
          /\ \/ lock' = Released(p, k) /\ asyncQ' = asyncQ
             \/ asyncQ' = [asyncQ EXCEPT ![p] = Append(@, k)] /\ lock' = lock
      BY <1>7, <2>1 DEF Deliver
    <2>3. \A q \in Procs, j \in Jobs : hand[q] = j => hand'[q] = j \/ (q = p /\ j = k)
      BY <1>0, <2>1, <2>2
    <2>4. CASE lock' = Released(p, k) /\ asyncQ' = asyncQ
      <3>1. \A j \in Jobs : lock'[j] \in Procs => lock'[j] = lock[j] /\ (j = k => lock[j] # p)
        BY <1>0, <2>4 DEF Released
      <3> QED BY <2>2, <2>3, <2>4, <3>1, HeldKept DEF Holds, Waits
    <2>5. CASE asyncQ' = [asyncQ EXCEPT ![p] = Append(@, k)] /\ lock' = lock
      <3>1. \A q \in Procs, j \in Jobs : Waits(q, j) => Waits(q, j)'
        BY <2>5, AppendWaits
      <3>2. Waits(p, k)'
        BY <2>5, AppendWaits
      <3> QED BY <2>2, <2>3, <2>5, <3>1, <3>2, HeldKept DEF Holds
    <2> QED BY <2>2, <2>4, <2>5
  <1>8. ASSUME NEW p \in Procs, Take(p) PROVE Held'
    <2>1. UNCHANGED <<hand, lock>> /\ w[p].job = NoJob
      BY <1>8 DEF Take, At, RQTypeOK
    <2>2. \A q \in Procs \ {p} : w'[q] = w[q]
      BY <1>0, <1>8 DEF Take
    <2>3. \A q \in Procs, j \in Jobs : Waits(q, j) => Waits(q, j)' \/ w'[q].job = j
      <3> SUFFICES ASSUME NEW q \in Procs, NEW j \in Jobs, Waits(q, j)
                   PROVE  Waits(q, j)' \/ w'[q].job = j
        OBVIOUS
      <3>1. Waits(q, j)' \/ (q = p /\ w'[p] = [pc |-> "check", job |-> j])
        BY <1>8, TakeWaits
      <3> QED BY <3>1
    <2> QED BY <1>0, <2>1, <2>2, <2>3, HeldKept DEF Holds
  <1>9. ASSUME NEW p \in Procs, Work(p), ~Take(p) PROVE Held'
    <2>1. w[p].pc # "idle" /\ UNCHANGED <<hand, asyncQ>>
      BY <1>9 DEF Work, Check, Defer, Release, Admit, AdmitBusy, EndRun, Ends, After, Unlock, At
    <2>2. PICK k \in Jobs : k = w[p].job
      BY <2>1, WorkerTypes
    <2>3. lock[k] = p /\ k \in has[p]
      BY <2>2 DEF Leased, Holds
    <2>4. CASE Check(p) \/ Release(p) \/ Unlock(p) \/ AdmitBusy(p)
      <3>1. \/ Rests(p) /\ lock' = Released(p, k)
            \/ lock' = lock /\ \E pc \in Steps : Goes(p, pc)
        <4>1. CASE Check(p) /\ k \in running
          <5>1. PICK q \in Procs : w[q].job = k /\ w[q].pc \in {"run", "after"}
            BY <4>1 DEF Accounted
          <5>2. lock[k] = q /\ w[p].pc = "check"
            BY <4>1, <5>1 DEF Leased, Holds, Check, At
          <5> QED BY <2>3, <5>1, <5>2
        <4>2. CASE ~(Check(p) /\ k \in running)
          BY <2>2, <2>3, <2>4, <4>2 DEF Check, Release, Unlock, AdmitBusy, MayRun, Steps
        <4> QED BY <4>1, <4>2
      <3>2. CASE Rests(p) /\ lock' = Released(p, k)
        <4>1. \A j \in Jobs : lock'[j] \in Procs => lock'[j] = lock[j] /\ j # k
          BY <1>0, <2>3, <3>2 DEF Released
        <4>2. \A q \in Procs \ {p} : w'[q] = w[q]
          BY <1>0, <3>2 DEF Rests
        <4>3. ASSUME NEW q \in Procs, NEW j \in Jobs, lock[j] = q, Holds(q, j)
              PROVE  Holds(q, j)' \/ lock'[j] # q
          <5>1. CASE j = k
            BY <4>1, <5>1
          <5>2. CASE j # k
            <6>1. w[q].job = j => w'[q].job = j
              BY <2>2, <4>2, <5>2
            <6> QED BY <2>1, <4>3, <6>1 DEF Holds, Waits
          <5> QED BY <5>1, <5>2
        <4> QED BY <4>1, <4>3, HeldKept
      <3>3. CASE lock' = lock /\ \E pc \in Steps : Goes(p, pc)
        <4>1. \A q \in Procs : w'[q].job = w[q].job
          BY <3>3, GoesKeepsJob
        <4> QED BY <2>1, <3>3, <4>1, HeldKept DEF Holds, Waits
      <3> QED BY <3>1, <3>2, <3>3
    <2>5. CASE ~(Check(p) \/ Release(p) \/ Unlock(p) \/ AdmitBusy(p))
      <3>1. lock' = lock /\ \E pc \in Steps : Goes(p, pc)
        BY <1>9, <2>2, <2>3, <2>5 DEF Work, Defer, Admit, EndRun, Ends, After, Steps
      <3>2. \A q \in Procs : w'[q].job = w[q].job
        BY <3>1, GoesKeepsJob
      <3> QED BY <2>1, <3>1, <3>2, HeldKept DEF Holds, Waits
    <2> QED BY <2>4, <2>5
  <1> QED BY <1>2, <1>3, <1>4, <1>5, <1>6, <1>7, <1>8, <1>9, <1>10 DEF RQNext, Consume

\* Of calm servers only the loops of the queue, the worker and the users' requests
\* take steps, and these are the queue's.
LEMMA CalmStep ==
  ASSUME ABTypeOK, Calm, Quiet, Held, [ABNext]_abVars
  PROVE  Quiet' /\ [RQNext]_rqVars
  <1> USE DEF Same, Rest, serverVars, healthVars, localQ, marks
  <1>0. /\ setup.procs \subseteq Procs /\ redisUp /\ ~broken /\ scan = {} /\ setup.flips = 0
        /\ heap \in [Procs -> [Jobs -> Nat]] /\ up \in [Procs -> {"down", "boot", "up", "drain"}]
        /\ flips \in Nat /\ crashes \in Nat /\ setup.crashes = 0
        /\ ok \subseteq Procs /\ mon \subseteq Procs /\ Forced \in BOOLEAN
    BY RedisQueueAssumption, AutoBackendAssumption DEF ABTypeOK, RQTypeOK, Calm, Quiet
  <1>1. \A p \in Procs : /\ up[p] # "down" => p \in setup.procs /\ p \in ok /\ p \in mon
                         /\ up[p] \notin {"boot", "drain"} /\ (up[p] = "down" => p \notin setup.procs)
                         /\ disp[p] = NoJob /\ \A j \in Jobs : heap[p][j] = 0
    BY DEF Quiet
  <1>2. ASSUME UNCHANGED <<setup, up, boot, heap, disp, redisUp, broken, scan, ok, mon>>
        PROVE  Quiet'
    BY <1>2 DEF Quiet
  <1>3. CASE UNCHANGED abVars
    BY <1>2, <1>3 DEF abVars, rqVars, bounds
  <1>4. CASE Request
    <2>1. PICK p \in Procs, j \in Jobs : ABSubmit(p, j) \/ ABCancel(p, j) \/ ABPause(p, j)
      BY <1>4 DEF Request
    <2>2. up[p] = "up" /\ UNCHANGED <<setup, up, boot>>
      BY <2>1 DEF ABSubmit, ABCancel, ABPause, Accept, Cancel, Pause, Handles, Loop
    <2>3. ABSubmit(p, j) => Accept(p, j) /\ ToRedis(p, j)
      BY <1>0, <1>1, <2>2 DEF ABSubmit, Offer, ToScheduler, ToBoth
    <2>4. Submit(p, j) \/ Cancel(p, j) \/ Pause(p, j)
      BY <1>0, <2>1, <2>3 DEF Submit, ToRedis, ABCancel, ABPause
    <2>5. UNCHANGED <<heap, disp, redisUp, broken, scan, ok, mon>>
      BY <2>1, <2>3 DEF ToRedis, ABSubmit, ABCancel, ABPause
    <2> QED BY <1>2, <2>2, <2>4, <2>5 DEF RQNext, User
  <1>5. CASE Flip
    BY <1>0, <1>5 DEF Flip
  <1>6. ASSUME NEW p \in Procs, Run(p) PROVE Quiet' /\ [RQNext]_rqVars
    <2>1. At(p, w[p].pc) /\ p \in ok
      BY <1>1, <1>6 DEF Run, ABCheck, ABWork, AskFallback, WorkFails, AfterFails, AdmitBlind, ABEndRun, Ends,
            Take, Check, Defer, Release, Admit, AdmitBusy, After, Unlock, At
    <2>2. ABCheck(p) \/ ABWork(p) \/ ABEndRun(p)
      BY <1>0, <1>6, <2>1 DEF Run, AskFallback, WorkFails, AfterFails, AdmitBlind
    <2>3. CASE ABWork(p)
      <3>1. Work(p) /\ UNCHANGED <<setup, up, boot>>
        BY <2>3 DEF ABWork, Work, Take, Check, Defer, Release, Admit, AdmitBusy, After, Unlock,
              Others, bounds
      <3> QED BY <1>2, <2>3, <3>1 DEF ABWork, RQNext
    <2>5. CASE ABCheck(p)
      <3>1. Work(p) /\ UNCHANGED <<setup, up, boot>>
        BY <2>5 DEF ABCheck, Work, Check, Others, bounds
      <3> QED BY <1>2, <2>5, <3>1 DEF ABCheck, RQNext
    <2>4. CASE ABEndRun(p)
      <3>1. EndsPass1(w[p].job) => ToRedis(p, w[p].job)
        BY <1>0, <2>1, <2>4 DEF ABEndRun, Offer, ToScheduler, ToBoth
      <3>2. EndRun(p) /\ heap' = heap
        BY <2>4, <3>1 DEF ABEndRun, EndRun, ToRedis
      <3>3. UNCHANGED <<setup, up, boot>>
        BY <2>4 DEF ABEndRun, Ends, bounds
      <3> QED BY <1>2, <2>4, <3>2, <3>3 DEF ABEndRun, RQNext, Work
    <2> QED BY <2>2, <2>3, <2>4, <2>5
  <1>7. ASSUME NEW p \in Procs, Poll(p) \/ Shift(p) PROVE Quiet' /\ [RQNext]_rqVars
    <2>1. ABConsume(p) \/ ABMove(p)
      BY <1>0, <1>7 DEF Poll, Shift, DeliverBlind, MoverFails
    <2>2. (Consume(p) \/ Move(p)) /\ Same
      BY <2>1 DEF ABConsume, ABMove, Consume
    <2>3. UNCHANGED <<setup, up, boot>>
      BY <2>2 DEF Consume, Move, Claim, Deliver, ReadDue, TakeDue, PutDue, MovesOn, Others, bounds
    <2> QED BY <1>2, <2>2, <2>3 DEF RQNext
  <1>8. ASSUME NEW p \in Procs, Watch(p) \/ Scan(p) \/ HandOver(p) \/ \E j \in Jobs : Dispatch(p, j)
        PROVE  Quiet' /\ [RQNext]_rqVars
    <2>1. Ping(p)
      <3>1. ~Monitor(p)
        BY <1>1 DEF Monitor, Loop
      <3>2. ~Scan(p)
        BY <1>0 DEF Scan
      <3>3. ASSUME NEW j \in Jobs, Dispatch(p, j) PROVE FALSE
        <4>1. heap[p][j] > 0 /\ heap[p][j] = 0
          BY <1>1, <3>3 DEF Dispatch
        <4> QED BY <4>1
      <3>4. ~HandOver(p)
        BY <1>1 DEF HandOver
      <3> QED BY <1>8, <3>1, <3>2, <3>3, <3>4 DEF Watch
    <2>2. ok' = ok \cup {p} /\ UNCHANGED <<setup, up, boot, heap, disp, redisUp, broken, scan, mon>>
      BY <1>0, <2>1 DEF Ping, Local, bounds
    <2>3. UNCHANGED rqVars
      BY <2>1 DEF Ping, Local, rqVars, localVars
    <2> QED BY <2>2, <2>3 DEF Quiet
  <1>9. ASSUME NEW p \in Procs, ABCrash(p) \/ Stop(p) \/ Exit(p) \/ ABComeback(p) PROVE FALSE
    <2>1. ~(crashes < setup.crashes)
      BY <1>0
    <2>2. ~Crash(p) /\ ~Stop(p)
      BY <2>1 DEF Crash, Stop
    <2>3. ~Exit(p) /\ ~Started(p) /\ \A j \in Jobs : ~Recover(p, j)
      BY <1>1 DEF Exit, Started, Recover
    <2>4. ~Restart(p)
      BY <1>1 DEF Restart
    <2> QED BY <1>9, <2>2, <2>3, <2>4 DEF ABCrash, ABComeback
  <1>10. ASSUME NEW j \in Jobs, ABExpire(j) \/ ExpireLeft(j) PROVE Quiet' /\ [RQNext]_rqVars
    <2>1. (ExpireGhost(j) \/ ExpireMeta(j)) /\ Same
      BY <1>10 DEF ABExpire, ExpireLeft, Held
    <2>2. UNCHANGED <<setup, up, boot>>
      BY <2>1 DEF ExpireGhost, ExpireMeta, Others, bounds
    <2> QED BY <1>2, <2>1, <2>2 DEF RQNext
  <1> QED BY <1>3, <1>4, <1>5, <1>6, <1>7, <1>8, <1>9, <1>10 DEF ABNext

Servers == ABTypeOK /\ Ups /\ CalmInv

LEMMA ServersInit == ABInit => Servers
  <1> SUFFICES ASSUME ABInit PROVE Servers
    OBVIOUS
  <1>1. ABTypeOK /\ RQInit
    BY ABInitType DEF ABInit
  <1>2. Ups
    BY <1>1 DEF RQInit, Ups
  <1>3. Inv /\ WorkersInv
    BY <1>1, InitType, InitLease, InitWorkers DEF Inv
  <1>4. Quiet
    BY <1>1 DEF ABInit, RQInit, Quiet
  <1>5. Held
    BY <1>1, RedisQueueAssumption DEF RQInit, Held
  <1> QED BY <1>1, <1>2, <1>3, <1>4, <1>5 DEF Servers, CalmInv

LEMMA ServersStep == Servers /\ [ABNext]_abVars => Servers' /\ (Calm => [RQNext]_rqVars)
  <1> SUFFICES ASSUME Servers, [ABNext]_abVars PROVE Servers' /\ (Calm => [RQNext]_rqVars)
    OBVIOUS
  <1>1. ABTypeOK /\ ABTypeOK' /\ Ups /\ Ups' /\ setup' = setup
    BY ABNextType, UpsStep DEF Servers
  <1>2. CASE ~Calm
    BY <1>1, <1>2 DEF Servers, CalmInv, Calm
  <1>3. CASE Calm
    <2>1. Quiet /\ Held /\ Inv /\ WorkersInv
      BY <1>3 DEF Servers, CalmInv
    <2>2. Quiet' /\ [RQNext]_rqVars
      BY <1>1, <1>3, <2>1, CalmStep
    <2>3. RQTypeOK /\ Leased /\ NotDone /\ Accounted /\ setup.crashes = 0
      BY <1>3, <2>1 DEF Calm, Inv, LeaseInv, WorkersInv
    <2>4. Held' /\ Inv' /\ NotDone' /\ Accounted'
      BY <2>1, <2>2, <2>3, NextHeld, NextInv, NextNotDone, NextAccounted
    <2> QED BY <1>1, <2>2, <2>4 DEF Servers, CalmInv, WorkersInv
  <1> QED BY <1>2, <1>3

\* As long as Redis answers and no instance dies or stops, the servers with their
\* choice of queues do what the Redis queue alone does, so that its theorems (one
\* runner per job, the counters of running jobs, done jobs stay done) are theirs.
THEOREM CalmBackendImplementsRedisQueue == ABSpec /\ Calm => RQSpec
  <1>1. Servers /\ Calm /\ [ABNext]_abVars => Calm'
    BY UpsStep DEF Servers, Calm
  <1>2. ABInit => RQInit
    BY DEF ABInit
  <1> QED BY <1>1, <1>2, ServersInit, ServersStep, PTL DEF ABSpec, RQSpec

-----------------------------------------------------------------------------
\* No QUEUED job is lost.

DueInv == ABTypeOK /\ Ups /\ (~broken => AllDue)

LEMMA DueIsKept == DueInv => QueuedIsKept
  BY DEF DueInv, AllDue, QueuedIsKept, Due, Kept, InRedis, Coming, Owes, WillRead, Holds

\* A QUEUED job is in Redis, on its way in an instance, or an instance will come to
\* it, whatever Redis, the instances, the caps and the users do; unless a command of
\* Redis failed in the middle of an operation, or a worker let go of the job because a
\* cap denied it: as counted as running already, or with no scan to find it again.
THEOREM QueuedJobsKept == ABSpec => []QueuedIsKept
  <1>1. ABInit => DueInv
    <2> SUFFICES ASSUME ABInit PROVE DueInv
      OBVIOUS
    <2>1. AllDue
      BY DEF ABInit, RQInit, AllDue
    <2>2. Ups
      BY DEF ABInit, RQInit, Ups
    <2> QED BY <2>1, <2>2, ABInitType DEF DueInv
  <1>2. DueInv /\ [ABNext]_abVars => DueInv'
    <2> SUFFICES ASSUME DueInv, [ABNext]_abVars PROVE DueInv'
      OBVIOUS
    <2>1. ABTypeOK' /\ Ups'
      BY ABNextType, UpsStep DEF DueInv
    <2>2. ASSUME ~broken' PROVE AllDue'
      <3>1. ABTypeOK /\ Ups /\ AllDue
        BY <2>2, BrokenStays DEF DueInv
      <3> QED BY <2>2, <3>1, AllDueStep
    <2> QED BY <2>1, <2>2 DEF DueInv
  <1> QED BY <1>1, <1>2, DueIsKept, PTL DEF ABSpec

================================================================================
