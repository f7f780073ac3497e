--------------------------- MODULE SchedulerProofs ---------------------------
(***************************************************************************)
(* Proofs about the scheduler, for every set of jobs, every cap and every  *)
(* backpressure limit: type correctness, the accounting of the slot        *)
(* counters, the refinement of the abstract slot pool, the mode caps, and  *)
(* the one way in which a mode loses a slot.                               *)
(***************************************************************************)
EXTENDS Scheduler, FiniteSetTheorems, SequenceTheorems, TLAPS

\* Inserting a record among the waiting ones yields a sequence of records.
LEMMA InsertType ==
    ASSUME NEW S, NEW s \in Seq(S), NEW r \in S, NEW i \in 0 .. Len(s)
    PROVE  SubSeq(s, 1, i) \o <<r>> \o SubSeq(s, i + 1, Len(s)) \in Seq(S)
<1>1. SubSeq(s, 1, i) \in Seq(S) /\ SubSeq(s, i + 1, Len(s)) \in Seq(S)
  BY SubSeqProperties
<1>2. <<r>> \in Seq(S)
  OBVIOUS
<1>3. QED
  BY <1>1, <1>2

\* Dropping a job's records leaves a sequence of records, none of that job.
LEMMA WithoutType ==
    ASSUME NEW S, NEW s \in Seq(S), NEW j, NEW t, IsWithout(t, s, j)
    PROVE  t \in Seq(S) /\ \A a \in DOMAIN t : t[a].job # j
<1> DEFINE keep == {i \in DOMAIN s : s[i].job # j}
<1>1. PICK f \in [1 .. Cardinality(keep) -> keep] :
             t = [a \in DOMAIN f |-> s[f[a]]]
  BY DEF IsWithout
<1>2. keep \in SUBSET (1 .. Len(s)) /\ IsFiniteSet(1 .. Len(s))
  BY FS_Interval
<1>3. Cardinality(keep) \in Nat
  BY <1>2, FS_Subset, FS_CardinalityType
<1>4. \A a \in 1 .. Cardinality(keep) : s[f[a]] \in S /\ s[f[a]].job # j
  <2> SUFFICES ASSUME NEW a \in 1 .. Cardinality(keep)
               PROVE  s[f[a]] \in S /\ s[f[a]].job # j
    OBVIOUS
  <2>1. f[a] \in keep
    OBVIOUS
  <2>2. QED
    BY <2>1
<1>5. t = [a \in 1 .. Cardinality(keep) |-> s[f[a]]]
  BY <1>1
<1>6. t \in Seq(S)
  BY <1>3, <1>4, <1>5, IsASeq
<1>7. QED
  BY <1>4, <1>5, <1>6

\* A re-keyed heap is a heap.
LEMMA RekeyedType ==
    ASSUME NEW s \in Seq(Record), NEW j \in Jobs, NEW p \in Priorities
    PROVE  Rekeyed(s, j, p) \in Seq(Record)
<1>1. DOMAIN s = 1 .. Len(s) /\ Len(s) \in Nat
  OBVIOUS
<1>2. \A i \in 1 .. Len(s) :
        (IF s[i].job = j THEN [s[i] EXCEPT !.pri = p] ELSE s[i]) \in Record
  <2> SUFFICES ASSUME NEW i \in 1 .. Len(s)
               PROVE  (IF s[i].job = j THEN [s[i] EXCEPT !.pri = p] ELSE s[i]) \in Record
    OBVIOUS
  <2>1. s[i] \in Record
    OBVIOUS
  <2>2. [s[i] EXCEPT !.pri = p] \in Record
    BY <2>1 DEF Record
  <2>3. QED
    BY <2>1, <2>2
<1>3. QED
  BY <1>1, <1>2, IsASeq DEF Rekeyed

-----------------------------------------------------------------------------
(***************************************************************************)
(* Type correctness.                                                       *)
(***************************************************************************)

\* The slot operations keep the counters and the records of slots typed.
LEMMA ReleaseType ==
    ASSUME SchedTypeOK, NEW j \in Jobs, ReleaseSlot(j)
    PROVE  /\ activeGlobal' \in 0 .. MaxGlobal
           /\ activeByMode' \in [Modes -> Nat]
           /\ activeJobMode' \in [Jobs -> Modes \cup {NoMode}]
           /\ open' \subseteq Jobs \X Nat
           /\ stray' \in Nat
<1> USE SchedulerAssumption DEF SchedTypeOK, ReleaseSlot, AtLeast0
<1>1. activeGlobal' \in 0 .. MaxGlobal
  OBVIOUS
<1>2. activeByMode' \in [Modes -> Nat]
  <2>1. CASE activeJobMode[j] = NoMode
    BY <2>1
  <2>2. CASE activeJobMode[j] # NoMode
    <3>1. activeJobMode[j] \in Modes /\ activeByMode[activeJobMode[j]] \in Nat
      BY <2>2
    <3>2. QED
      BY <2>2, <3>1
  <2>3. QED
    BY <2>1, <2>2
<1>3. activeJobMode' \in [Jobs -> Modes \cup {NoMode}]
  OBVIOUS
<1>4. open' \subseteq Jobs \X Nat /\ stray' \in Nat
  BY DEF CloseTicket
<1>5. QED
  BY <1>1, <1>2, <1>3, <1>4

\* Delaying a record keeps the delayed part of the heap typed.
LEMMA DelayType ==
    ASSUME waiting \in Seq(Record), NEW r \in Record, Delay(r)
    PROVE  waiting' \in Seq(Record)
BY InsertType DEF Delay

\* The mode a record is pushed with is a mode.
LEMMA SubmittedModeType ==
    ASSUME NEW m \in Modes
    PROVE  SubmittedMode(m) \in Modes
BY DEF SubmittedMode, NextLowerMode, Modes

\* Every step keeps the scheduler's state well typed.
LEMMA TypeStep == SchedTypeOK /\ [SchedNext]_schedVars => SchedTypeOK'
<1> SUFFICES ASSUME SchedTypeOK, [SchedNext]_schedVars
             PROVE  SchedTypeOK'
  OBVIOUS
<1> USE SchedulerAssumption
<1> USE DEF slotVars, heapVars
<1>1. ASSUME NEW j \in Jobs, NEW m \in InModes, NEW p \in Priorities, Submit(j, m, p)
      PROVE  SchedTypeOK'
  <2> DEFINE r == [job |-> j, mode |-> SubmittedMode(m), pri |-> p, base |-> p]
  <2>1. r \in Record
    BY SubmittedModeType DEF Record
  <2>2. ready' \in Seq(Record) /\ waiting' \in Seq(Record)
    <3>1. ready \in Seq(Record) /\ waiting \in Seq(Record)
      BY DEF SchedTypeOK
    <3>2. \/ Delay(r) /\ ready' = ready
          \/ ready' = Append(ready, r) /\ waiting' = waiting
      BY <1>1 DEF Submit, Push
    <3> HIDE DEF r
    <3>3. CASE Delay(r) /\ ready' = ready
      BY <2>1, <3>1, <3>3, DelayType
    <3>4. CASE ready' = Append(ready, r) /\ waiting' = waiting
      BY <2>1, <3>1, <3>4
    <3>5. QED
      BY <3>2, <3>3, <3>4
  <2>3. QED
    BY <1>1, <2>2 DEF Submit, SchedTypeOK
<1>2. ASSUME Ripen PROVE SchedTypeOK'
  BY <1>2 DEF Ripen, SchedTypeOK
<1>3. ASSUME NEW j \in Jobs, Drop(j) PROVE SchedTypeOK'
  BY <1>3, WithoutType DEF Drop, SchedTypeOK
<1>4. ASSUME NEW j \in Jobs, NEW p \in Priorities, Reprioritize(j, p) PROVE SchedTypeOK'
  BY <1>4, RekeyedType DEF Reprioritize, SchedTypeOK
<1>5. ASSUME Stop PROVE SchedTypeOK'
  BY <1>5 DEF Stop, SchedTypeOK
<1>6. ASSUME Defer PROVE SchedTypeOK'
  <2>1. Head(ready) \in Record /\ Tail(ready) \in Seq(Record)
    BY <1>6 DEF Defer, SchedTypeOK
  <2>2. [Head(ready) EXCEPT !.pri = Head(ready).base] \in Record
    BY <2>1 DEF Record
  <2>3. waiting' \in Seq(Record)
    BY <1>6, <2>2, DelayType DEF Defer, SchedTypeOK
  <2>4. QED
    BY <1>6, <2>1, <2>3 DEF Defer, SchedTypeOK
<1>7. ASSUME Dispatch PROVE SchedTypeOK'
  <2>1. /\ Head(ready) \in Record
        /\ Tail(ready) \in Seq(Record)
        /\ Head(ready).job \in Jobs
        /\ Head(ready).mode \in Modes
    <3>1. Head(ready) \in Record /\ Tail(ready) \in Seq(Record)
      BY <1>7 DEF Dispatch, SchedTypeOK
    <3>2. QED
      BY <3>1 DEF Record
  <2>2. activeGlobal' \in 0 .. MaxGlobal
    BY <1>7 DEF Dispatch, TakeSlot, Full, SchedTypeOK
  <2>3. activeByMode' \in [Modes -> Nat]
    BY <1>7, <2>1 DEF Dispatch, TakeSlot, SchedTypeOK
  <2>4. activeJobMode' \in [Jobs -> Modes \cup {NoMode}]
    BY <1>7, <2>1 DEF Dispatch, TakeSlot, SchedTypeOK
  <2>5. open' \subseteq Jobs \X Nat /\ stray' \in Nat
    BY <1>7, <2>1 DEF Dispatch, TakeSlot, SchedTypeOK
  <2>6. QED
    BY <1>7, <2>1, <2>2, <2>3, <2>4, <2>5 DEF Dispatch, SchedTypeOK
<1>8. ASSUME HandOver PROVE SchedTypeOK'
  BY <1>8 DEF HandOver, SchedTypeOK
<1>9. ASSUME GiveBack PROVE SchedTypeOK'
  <2>1. inHand.job \in Jobs
    BY <1>9 DEF GiveBack, SchedTypeOK, Record
  <2>2. QED
    BY <1>9, <2>1, ReleaseType DEF GiveBack, SchedTypeOK
<1>10. ASSUME NEW j \in Jobs, OnJobDone(j) PROVE SchedTypeOK'
  BY <1>10, ReleaseType DEF OnJobDone, SchedTypeOK
<1>11. ASSUME UNCHANGED schedVars PROVE SchedTypeOK'
  BY <1>11 DEF schedVars, SchedTypeOK
<1>12. QED
  BY <1>1, <1>2, <1>3, <1>4, <1>5, <1>6, <1>7, <1>8, <1>9, <1>10, <1>11
     DEF SchedNext, Dispatcher

\* The empty scheduler is well typed.
LEMMA SchedInitType == SchedInit => SchedTypeOK
<1> SUFFICES ASSUME SchedInit PROVE SchedTypeOK
  OBVIOUS
<1>1. ready \in Seq(Record) /\ waiting \in Seq(Record)
  BY DEF SchedInit
<1>2. activeGlobal \in 0 .. MaxGlobal
  BY SchedulerAssumption DEF SchedInit
<1>3. QED
  BY <1>1, <1>2 DEF SchedInit, SchedTypeOK

\* The scheduler's state is always well typed: in particular the global
\* counter stays between 0 and MaxGlobal and no heap record is malformed.
THEOREM SchedTypeCorrect == SchedSpec => []SchedTypeOK
BY SchedInitType, TypeStep, PTL DEF SchedSpec


-----------------------------------------------------------------------------
(***************************************************************************)
(* Slot accounting.  SlotsExact bounds the tickets by the counter and the  *)
(* reports nobody owed; the rest of SlotInv says where the tickets come    *)
(* from: one per admission, numbered within the slots and such reports.    *)
(***************************************************************************)

SlotInv ==
    /\ SchedTypeOK
    /\ IsFiniteSet(open)
    /\ open \subseteq Jobs \X (1 .. MaxGlobal + MaxStray)
    /\ SlotsExact
    /\ Unowed <= MaxStray

\* Closing a ticket of a job that has one removes exactly one ticket, of that job.
LEMMA CloseTicketRemoves ==
    ASSUME IsFiniteSet(open), NEW j, Open(j) # {}, CloseTicket(j)
    PROVE  /\ \E t \in Open(j) : open' = open \ {t}
           /\ stray' = stray
           /\ IsFiniteSet(open')
           /\ Cardinality(open) \in Nat \ {0}
           /\ Cardinality(open') = Cardinality(open) - 1
<1>1. PICK t \in Open(j) : open' = open \ {t} /\ stray' = stray
  BY DEF CloseTicket
<1>2. t \in open
  BY DEF Open
<1>3. Cardinality(open) # 0
  BY <1>2, FS_EmptySet
<1>4. QED
  BY <1>1, <1>2, <1>3, FS_RemoveElement, FS_CardinalityType

\* A report for a job without a ticket removes none and is counted as unowed.
LEMMA NothingToClose ==
    ASSUME NEW j, Open(j) = {}, CloseTicket(j)
    PROVE  open' = open /\ stray' = stray + 1
BY DEF CloseTicket

\* Releasing lowers the counter, and with it a ticket or the room for one.
LEMMA ReleaseExact ==
    ASSUME SlotInv, NEW j \in Jobs, ReleaseSlot(j)
    PROVE  /\ IsFiniteSet(open')
           /\ open' \subseteq Jobs \X (1 .. MaxGlobal + MaxStray)
           /\ SlotsExact'
<1>t. activeGlobal \in Nat /\ stray \in Nat /\ Cardinality(open) \in Nat
  BY SchedulerAssumption, FS_CardinalityType DEF SlotInv, SchedTypeOK
<1>0. open' \subseteq Jobs \X (1 .. MaxGlobal + MaxStray)
  BY DEF SlotInv, ReleaseSlot, CloseTicket
<1>1. CASE Open(j) # {}
  <2>1. /\ IsFiniteSet(open') /\ stray' = stray
        /\ Cardinality(open') = Cardinality(open) - 1 /\ Cardinality(open) > 0
    BY <1>1, CloseTicketRemoves DEF SlotInv, ReleaseSlot
  <2>2. QED
    BY <1>t, <1>0, <2>1 DEF SlotInv, SlotsExact, ReleaseSlot, AtLeast0
<1>2. CASE Open(j) = {}
  <2>1. open' = open /\ stray' = stray + 1
    BY <1>2, NothingToClose DEF ReleaseSlot
  <2>2. QED
    BY <1>t, <1>0, <2>1 DEF SlotInv, SlotsExact, ReleaseSlot, AtLeast0
<1>3. QED
  BY <1>1, <1>2

\* A slot is taken together with one fresh ticket of the dispatched job.
LEMMA TakeExact ==
    ASSUME SlotInv, NEW j \in Jobs, NEW m \in Modes, activeGlobal < MaxGlobal,
           TakeSlot(j, m)
    PROVE  /\ IsFiniteSet(open')
           /\ SlotsExact'
           /\ stray' = stray
           /\ Cardinality(open) < MaxGlobal + stray
           /\ \E k \in 1 .. MaxGlobal + MaxStray :
                  <<j, k>> \notin open /\ open' = open \cup {<<j, k>>}
<1>t. /\ activeGlobal \in Nat /\ stray \in Nat /\ Cardinality(open) \in Nat
      /\ MaxGlobal \in Nat /\ MaxStray \in Nat /\ stray <= MaxStray
  BY SchedulerAssumption, FS_CardinalityType DEF SlotInv, SchedTypeOK, Unowed
<1>0. Cardinality(open) < MaxGlobal + stray
  BY <1>t DEF SlotInv, SlotsExact
<1>1. PICK k \in 1 .. Cardinality(open) + 1 :
             <<j, k>> \notin open /\ open' = open \cup {<<j, k>>}
  BY DEF TakeSlot
<1>2. k \in 1 .. MaxGlobal + MaxStray
  BY <1>t, <1>0
<1>3. IsFiniteSet(open') /\ Cardinality(open') = Cardinality(open) + 1
  BY <1>1, FS_AddElement DEF SlotInv
<1>4. activeGlobal' = activeGlobal + 1 /\ stray' = stray
  BY DEF TakeSlot
<1>5. SlotsExact'
  BY <1>t, <1>3, <1>4 DEF SlotInv, SlotsExact
<1>6. QED
  BY <1>0, <1>1, <1>2, <1>3, <1>4, <1>5

\* A report of completion stays within the bound on unowed reports.
LEMMA ReportUnowed ==
    ASSUME SlotInv, NEW j \in Jobs, OnJobDone(j)
    PROVE  Unowed' <= MaxStray
<1>t. stray \in Nat /\ MaxStray \in Nat /\ Unowed <= MaxStray /\ stray <= Unowed
  BY SchedulerAssumption DEF SlotInv, SchedTypeOK, Unowed
<1>1. ReleaseSlot(j) /\ CloseTicket(j) /\ inHand' = inHand
  BY DEF OnJobDone, ReleaseSlot
<1>2. IsFiniteSet(Open(j)) /\ Cardinality(Open(j)) \in Nat
  BY FS_Subset, FS_CardinalityType DEF SlotInv, Open
<1>3. CASE Open(j) = {}
  <2>1. open' = open /\ stray' = stray + 1
    BY <1>1, <1>3, NothingToClose
  <2>2. ~Owed(j)
    BY <1>3, FS_EmptySet DEF Owed
  <2>3. Unowed < MaxStray
    BY <2>2 DEF OnJobDone
  <2>4. Unowed' = Unowed + 1
    BY <1>t, <1>1, <2>1 DEF Unowed, Open
  <2>5. QED
    BY <1>t, <2>3, <2>4 DEF Unowed
<1>4. CASE Open(j) # {} /\ ~Owed(j)
  <2>1. stray' = stray
    BY <1>1, <1>4, CloseTicketRemoves DEF SlotInv
  <2>2. stray < MaxStray
    BY <1>t, <1>4 DEF OnJobDone, Unowed
  <2>3. Unowed' \in {stray, stray + 1}
    BY <1>t, <2>1 DEF Unowed
  <2>4. QED
    BY <1>t, <2>2, <2>3
<1>5. CASE Open(j) # {} /\ Owed(j)
  <2>1. PICK t \in Open(j) : open' = open \ {t} /\ stray' = stray
    BY <1>1, <1>5, CloseTicketRemoves DEF SlotInv
  <2>2. inHand # NoRec /\ Open(inHand.job) # {} => Open(inHand.job)' # {}
    <3>1. CASE inHand.job = j /\ inHand # NoRec
      <4>1. Open(j)' = Open(j) \ {t}
        BY <2>1 DEF Open
      <4>2. Cardinality(Open(j)) > 1
        BY <1>5, <3>1 DEF Owed, InHand
      <4>3. IsFiniteSet(Open(j) \ {t}) /\ Cardinality(Open(j) \ {t}) = Cardinality(Open(j)) - 1
        BY <1>2, FS_RemoveElement
      <4>4. Open(j) \ {t} # {}
        BY <1>2, <4>2, <4>3, FS_EmptySet
      <4>5. QED
        BY <1>1, <3>1, <4>1, <4>4
    <3>2. CASE inHand.job # j
      BY <1>1, <2>1, <3>2 DEF Open
    <3>3. QED
      BY <3>1, <3>2
  <2>3. Unowed' <= Unowed
    BY <1>t, <1>1, <2>1, <2>2 DEF Unowed
  <2>4. Unowed' \in {stray, stray + 1}
    BY <1>t, <2>1 DEF Unowed
  <2>5. QED
    BY <1>t, <2>3, <2>4 DEF Unowed
<1>6. QED
  BY <1>3, <1>4, <1>5

\* Every step keeps the slot accounting.
LEMMA SlotStep == SlotInv /\ [SchedNext]_schedVars => SlotInv'
<1> SUFFICES ASSUME SlotInv, [SchedNext]_schedVars
             PROVE  SlotInv'
  OBVIOUS
<1>t. SchedTypeOK /\ SchedTypeOK'
  BY TypeStep DEF SlotInv
<1>u. stray \in Nat /\ MaxStray \in Nat /\ stray <= MaxStray
  BY SchedulerAssumption DEF SlotInv, SchedTypeOK, Unowed
<1>1. ASSUME UNCHANGED <<activeGlobal, open, inHand, stray>>
      PROVE  SlotInv'
  BY <1>t, <1>1 DEF SlotInv, SlotsExact, Unowed, Open
<1>2. ASSUME Dispatch PROVE SlotInv'
  <2>1. Head(ready) \in Record
    BY <1>2, <1>t DEF Dispatch, SchedTypeOK
  <2>2. /\ Head(ready).job \in Jobs
        /\ Head(ready).mode \in Modes
        /\ TakeSlot(Head(ready).job, Head(ready).mode)
        /\ inHand' = Head(ready)
    BY <1>2, <2>1 DEF Dispatch, Record
  <2>0. activeGlobal < MaxGlobal
    BY <1>2, <1>t, SchedulerAssumption DEF Dispatch, Full, SchedTypeOK
  <2>3. PICK k \in 1 .. MaxGlobal + MaxStray :
                 /\ IsFiniteSet(open') /\ SlotsExact' /\ stray' = stray
                 /\ open' = open \cup {<<Head(ready).job, k>>}
    BY <2>0, <2>2, TakeExact
  <2>4. open' \subseteq Jobs \X (1 .. MaxGlobal + MaxStray)
    BY <2>2, <2>3 DEF SlotInv
  <2>5. Open(inHand.job)' # {}
    <3>1. <<Head(ready).job, k>> \in open'
      BY <2>3
    <3>2. QED
      BY <2>2, <3>1 DEF Open
  <2>6. Unowed' <= MaxStray
    BY <1>u, <2>3, <2>5 DEF Unowed
  <2>7. QED
    BY <1>t, <2>3, <2>4, <2>6 DEF SlotInv
<1>3. ASSUME HandOver PROVE SlotInv'
  <2>1. Unowed' <= MaxStray
    BY <1>u, <1>3 DEF HandOver, Unowed, slotVars
  <2>2. QED
    BY <1>t, <1>3, <2>1 DEF HandOver, SlotInv, SlotsExact, slotVars
<1>4. ASSUME GiveBack PROVE SlotInv'
  <2>1. inHand.job \in Jobs /\ inHand # NoRec /\ ReleaseSlot(inHand.job) /\ inHand' = NoRec
    BY <1>t, <1>4 DEF GiveBack, SchedTypeOK, Record
  <2>2. /\ IsFiniteSet(open') /\ SlotsExact'
        /\ open' \subseteq Jobs \X (1 .. MaxGlobal + MaxStray)
    BY <2>1, ReleaseExact
  <2>3. stray' <= MaxStray
    <3>1. CASE Open(inHand.job) = {}
      <4>1. stray' = stray + 1
        BY <2>1, <3>1, NothingToClose DEF ReleaseSlot
      <4>2. Unowed = stray + 1
        BY <2>1, <3>1 DEF Unowed
      <4>3. QED
        BY <4>1, <4>2 DEF SlotInv
    <3>2. CASE Open(inHand.job) # {}
      BY <1>u, <2>1, <3>2, CloseTicketRemoves DEF ReleaseSlot, SlotInv
    <3>3. QED
      BY <3>1, <3>2
  <2>4. stray' \in Nat
    BY <1>t DEF SchedTypeOK
  <2>5. Unowed' <= MaxStray
    BY <2>1, <2>3, <2>4 DEF Unowed
  <2>6. QED
    BY <1>t, <2>2, <2>5 DEF SlotInv
<1>5. ASSUME NEW j \in Jobs, OnJobDone(j) PROVE SlotInv'
  <2>1. /\ IsFiniteSet(open') /\ SlotsExact'
        /\ open' \subseteq Jobs \X (1 .. MaxGlobal + MaxStray)
    BY <1>5, ReleaseExact DEF OnJobDone
  <2>2. QED
    BY <1>t, <1>5, <2>1, ReportUnowed DEF SlotInv
<1>6. QED
  BY <1>1, <1>2, <1>3, <1>4, <1>5
     DEF SchedNext, Dispatcher, Submit, Ripen, Drop, Reprioritize, Stop, Defer,
         slotVars, heapVars, schedVars

\* The initial state accounts for every slot.
LEMMA SlotInit == SchedInit => SlotInv
BY SchedInitType, SchedulerAssumption, FS_EmptySet DEF SchedInit, SlotInv, SlotsExact, Unowed

\* No slot is lost: the scheduler's global counter never exceeds the dispatches
\* whose end was not reported, and it falls behind them by at most the reports
\* that came for a job with no dispatch open.
THEOREM SlotAccounting == SchedSpec => []SlotsExact
<1>1. SlotInv => SlotsExact
  BY DEF SlotInv
<1>2. QED
  BY <1>1, SlotInit, SlotStep, PTL DEF SchedSpec

-----------------------------------------------------------------------------
(***************************************************************************)
(* The scheduler implements the slot pool.                                 *)
(***************************************************************************)

\* The pool counts as the scheduler's module does.
LEMMA PoolCardinality == \A S : Pool!Cardinality(S) = Cardinality(S)
BY DEF Pool!Cardinality, Cardinality

\* A step of the scheduler admits one ticket, releases one, reports one that
\* nobody holds, or touches none.
LEMMA PoolStep == SlotInv /\ [SchedNext]_schedVars => [Pool!Next]_<<open, stray>>
<1> SUFFICES ASSUME SlotInv, [SchedNext]_schedVars
             PROVE  [Pool!Next]_<<open, stray>>
  OBVIOUS
<1>t. SchedTypeOK
  BY DEF SlotInv
<1>1. ASSUME Dispatch PROVE Pool!Next
  <2>1. Head(ready) \in Record
    BY <1>1, <1>t DEF Dispatch, SchedTypeOK
  <2>2. /\ Head(ready).job \in Jobs
        /\ Head(ready).mode \in Modes
        /\ TakeSlot(Head(ready).job, Head(ready).mode)
    BY <1>1, <2>1 DEF Dispatch, Record
  <2>3. activeGlobal < MaxGlobal
    BY <1>1, <1>t, SchedulerAssumption DEF Dispatch, Full, SchedTypeOK
  <2>4. Cardinality(open) < MaxGlobal + stray /\ stray' = stray
    BY <2>2, <2>3, TakeExact
  <2>5. PICK k \in 1 .. MaxGlobal + MaxStray :
                 /\ <<Head(ready).job, k>> \notin open
                 /\ open' = open \cup {<<Head(ready).job, k>>}
    BY <2>2, <2>3, TakeExact
  <2> DEFINE t == <<Head(ready).job, k>>
  <2>6. t \in (Jobs \X (1 .. MaxGlobal + MaxStray)) \ open /\ open' = open \cup {t}
    BY <2>2, <2>5
  <2> HIDE DEF t
  <2>7. Pool!Admit(t)
    BY <2>4, <2>6, PoolCardinality DEF Pool!Admit
  <2>8. QED
    BY <2>6, <2>7 DEF Pool!Next
<1>2. ASSUME NEW j \in Jobs, ReleaseSlot(j) PROVE Pool!Next
  <2>1. CASE Open(j) # {}
    <3>1. PICK t \in Open(j) : open' = open \ {t}
      BY <1>2, <2>1, CloseTicketRemoves DEF ReleaseSlot, SlotInv
    <3>2. stray' = stray
      BY <1>2, <2>1, CloseTicketRemoves DEF ReleaseSlot, SlotInv
    <3>3. t \in open /\ t \in Jobs \X (1 .. MaxGlobal + MaxStray)
      BY DEF Open, SlotInv
    <3>4. QED
      BY <3>1, <3>2, <3>3 DEF Pool!Next, Pool!Release
  <2>2. CASE Open(j) = {}
    BY <1>2, <2>2, NothingToClose DEF ReleaseSlot, Pool!Next, Pool!Misreport
  <2>3. QED
    BY <2>1, <2>2
<1>3. ASSUME GiveBack PROVE Pool!Next
  BY <1>t, <1>2, <1>3 DEF GiveBack, SchedTypeOK, Record
<1>4. ASSUME NEW j \in Jobs, OnJobDone(j) PROVE Pool!Next
  BY <1>2, <1>4 DEF OnJobDone
<1>5. QED
  BY <1>1, <1>3, <1>4
     DEF SchedNext, Dispatcher, Submit, Ripen, Drop, Reprioritize, Stop, Defer, HandOver,
         slotVars, heapVars, schedVars

\* Whatever is submitted, dropped, dispatched twice or reported, the scheduler
\* admits a dispatch only while fewer than MaxGlobal are open, not counting the
\* room made by reports that came for a job with no dispatch open.
THEOREM SchedulerImplementsSlotPool == SchedSpec => ImplementsSlotPool
<1>1. SchedInit => Pool!Init
  BY DEF SchedInit, Pool!Init
<1>2. QED
  BY <1>1, SlotInit, SlotStep, PoolStep, PTL DEF SchedSpec, ImplementsSlotPool, Pool!Spec

-----------------------------------------------------------------------------
(***************************************************************************)
(* Mode caps.  The counter of a mode bounds the jobs recorded in it, and   *)
(* only the dispatch loop, which tests the cap, raises the counter.        *)
(***************************************************************************)

ModeInv ==
    /\ SchedTypeOK
    /\ \A m \in Modes : IsFiniteSet(JobsIn(m))
    /\ ModeCap

\* The cap of a mode is a natural number.
LEMMA CapType == \A m \in Modes : Cap(m) \in Nat
BY SchedulerAssumption DEF Cap

\* Removing a value from a finite set does not make it larger.
LEMMA LosingElement ==
    ASSUME NEW S, IsFiniteSet(S), NEW x
    PROVE  IsFiniteSet(S \ {x}) /\ Cardinality(S \ {x}) <= Cardinality(S)
BY FS_Subset

\* Adding a value to a finite set makes it larger by at most one.
LEMMA GainingElement ==
    ASSUME NEW S, IsFiniteSet(S), NEW x
    PROVE  /\ IsFiniteSet(S \cup {x})
           /\ Cardinality(S \cup {x}) \in Nat
           /\ Cardinality(S \cup {x}) <= Cardinality(S) + 1
<1>1. Cardinality(S) \in Nat
  BY FS_CardinalityType
<1>2. /\ IsFiniteSet(S \cup {x})
      /\ Cardinality(S \cup {x}) = IF x \in S THEN Cardinality(S) ELSE Cardinality(S) + 1
  BY FS_AddElement
<1>3. QED
  BY <1>1, <1>2

\* Taking a slot adds at most the dispatched job to the jobs of its mode.
LEMMA TakeMode ==
    ASSUME ModeInv, NEW j \in Jobs, NEW m \in Modes, ~ModeFull(m), TakeSlot(j, m)
    PROVE  (\A n \in Modes : IsFiniteSet(JobsIn(n)')) /\ ModeCap'
<1> SUFFICES ASSUME NEW n \in Modes
             PROVE  /\ IsFiniteSet(JobsIn(n)')
                    /\ Cardinality(JobsIn(n)') <= activeByMode'[n]
                    /\ activeByMode'[n] <= Cap(n)
  BY DEF ModeCap, JobsIn, Cap
<1>0. /\ IsFiniteSet(JobsIn(n)) /\ Cardinality(JobsIn(n)) \in Nat
      /\ Cardinality(JobsIn(n)) <= activeByMode[n]
      /\ activeByMode[n] <= Cap(n) /\ activeByMode[n] \in Nat /\ Cap(n) \in Nat
  BY CapType, FS_CardinalityType DEF ModeInv, ModeCap, SchedTypeOK
<1>1. activeJobMode \in [Jobs -> Modes \cup {NoMode}] /\ activeByMode \in [Modes -> Nat]
  BY DEF ModeInv, SchedTypeOK
<1>2. CASE n = m
  <2>1. JobsIn(n)' = JobsIn(n) \cup {j}
    BY <1>1, <1>2 DEF JobsIn, TakeSlot
  <2>2. activeByMode'[n] = activeByMode[n] + 1 /\ activeByMode[n] < Cap(n)
    BY <1>0, <1>1, <1>2 DEF TakeSlot, ModeFull
  <2>3. /\ IsFiniteSet(JobsIn(n)')
        /\ Cardinality(JobsIn(n)') \in Nat
        /\ Cardinality(JobsIn(n)') <= Cardinality(JobsIn(n)) + 1
    BY <1>0, <2>1, GainingElement
  <2>4. QED
    BY <1>0, <2>2, <2>3
<1>3. CASE n # m
  <2>1. JobsIn(n)' = JobsIn(n) \ {j}
    BY <1>1, <1>3 DEF JobsIn, TakeSlot
  <2>2. activeByMode'[n] = activeByMode[n]
    BY <1>1, <1>3 DEF TakeSlot
  <2>3. IsFiniteSet(JobsIn(n)') /\ Cardinality(JobsIn(n)') <= Cardinality(JobsIn(n))
    BY <1>0, <2>1, LosingElement
  <2>4. QED
    BY <1>0, <2>2, <2>3, FS_CardinalityType
<1>4. QED
  BY <1>2, <1>3

\* Releasing removes the job from its mode and lowers the counter by as much.
LEMMA ReleaseMode ==
    ASSUME ModeInv, NEW j \in Jobs, ReleaseSlot(j)
    PROVE  (\A n \in Modes : IsFiniteSet(JobsIn(n)')) /\ ModeCap'
<1> SUFFICES ASSUME NEW n \in Modes
             PROVE  /\ IsFiniteSet(JobsIn(n)')
                    /\ Cardinality(JobsIn(n)') <= activeByMode'[n]
                    /\ activeByMode'[n] <= Cap(n)
  BY DEF ModeCap, JobsIn, Cap
<1>0. /\ IsFiniteSet(JobsIn(n)) /\ Cardinality(JobsIn(n)) \in Nat
      /\ Cardinality(JobsIn(n)) <= activeByMode[n]
      /\ activeByMode[n] <= Cap(n) /\ activeByMode[n] \in Nat /\ Cap(n) \in Nat
  BY CapType, FS_CardinalityType DEF ModeInv, ModeCap, SchedTypeOK
<1>1. activeJobMode \in [Jobs -> Modes \cup {NoMode}] /\ activeByMode \in [Modes -> Nat]
  BY DEF ModeInv, SchedTypeOK
<1>2. JobsIn(n)' = JobsIn(n) \ {j}
  BY <1>1, SchedulerAssumption DEF JobsIn, ReleaseSlot
<1>3. CASE activeJobMode[j] = n
  <2>1. j \in JobsIn(n)
    BY <1>3 DEF JobsIn
  <2>2. Cardinality(JobsIn(n)') = Cardinality(JobsIn(n)) - 1 /\ IsFiniteSet(JobsIn(n)')
    BY <1>0, <1>2, <2>1, FS_RemoveElement
  <2>3. activeByMode'[n] = AtLeast0(activeByMode[n] - 1)
    BY <1>1, <1>3, SchedulerAssumption DEF ReleaseSlot
  <2>4. QED
    BY <1>0, <2>2, <2>3 DEF AtLeast0
<1>4. CASE activeJobMode[j] # n
  <2>1. activeByMode'[n] = activeByMode[n]
    BY <1>1, <1>4 DEF ReleaseSlot
  <2>2. IsFiniteSet(JobsIn(n)') /\ Cardinality(JobsIn(n)') <= Cardinality(JobsIn(n))
    BY <1>0, <1>2, LosingElement
  <2>3. QED
    BY <1>0, <2>1, <2>2, FS_CardinalityType
<1>5. QED
  BY <1>3, <1>4

\* Every step keeps the jobs of a mode within its counter and its cap.
LEMMA ModeStep == ModeInv /\ [SchedNext]_schedVars => ModeInv'
<1> SUFFICES ASSUME ModeInv, [SchedNext]_schedVars
             PROVE  ModeInv'
  OBVIOUS
<1>t. SchedTypeOK /\ SchedTypeOK'
  BY TypeStep DEF ModeInv
<1>1. ASSUME UNCHANGED <<activeByMode, activeJobMode>> PROVE ModeInv'
  BY <1>t, <1>1 DEF ModeInv, ModeCap, JobsIn, Cap
<1>2. ASSUME Dispatch PROVE ModeInv'
  <2>1. Head(ready) \in Record
    BY <1>2, <1>t DEF Dispatch, SchedTypeOK
  <2>2. /\ Head(ready).job \in Jobs
        /\ Head(ready).mode \in Modes
        /\ ~ModeFull(Head(ready).mode)
        /\ TakeSlot(Head(ready).job, Head(ready).mode)
    BY <1>2, <2>1 DEF Dispatch, Record, Full
  <2>3. QED
    BY <1>t, <2>2, TakeMode DEF ModeInv
<1>3. ASSUME NEW j \in Jobs, ReleaseSlot(j) PROVE ModeInv'
  BY <1>t, <1>3, ReleaseMode DEF ModeInv
<1>4. ASSUME GiveBack PROVE ModeInv'
  BY <1>3, <1>4, <1>t DEF GiveBack, SchedTypeOK, Record
<1>5. ASSUME NEW j \in Jobs, OnJobDone(j) PROVE ModeInv'
  BY <1>3, <1>5 DEF OnJobDone
<1>6. QED
  BY <1>1, <1>2, <1>4, <1>5
     DEF SchedNext, Dispatcher, Submit, Ripen, Drop, Reprioritize, Stop, Defer, HandOver,
         slotVars, heapVars, schedVars

\* No job is recorded in a mode at first.
LEMMA ModeInit == SchedInit => ModeInv
<1> SUFFICES ASSUME SchedInit PROVE ModeInv
  OBVIOUS
<1>1. \A m \in Modes : JobsIn(m) = {} /\ activeByMode[m] = 0 /\ Cap(m) \in Nat
  BY SchedulerAssumption, CapType DEF SchedInit, JobsIn
<1>2. QED
  BY <1>1, SchedInitType, FS_EmptySet DEF ModeInv, ModeCap

\* No mode ever has more jobs recorded as running than its cap allows.
THEOREM ModeCapHolds == SchedSpec => []ModeCap
<1>1. ModeInv => ModeCap
  BY DEF ModeInv
<1>2. QED
  BY <1>1, ModeInit, ModeStep, PTL DEF SchedSpec

-----------------------------------------------------------------------------
(***************************************************************************)
(* Leaked mode slots.  A job whose mode is recorded has an open dispatch,  *)
(* so that only a second dispatch finds a mode to overwrite.               *)
(***************************************************************************)

LeakInv ==
    /\ SlotInv
    /\ ModeInv
    /\ \A j \in Jobs : activeJobMode[j] # NoMode => Open(j) # {}

\* Releasing a job's slot leaves the tickets of the other jobs alone.
LEMMA ReleaseOthers ==
    ASSUME SlotInv, NEW j \in Jobs, ReleaseSlot(j)
    PROVE  \A i \in Jobs : i # j => Open(i)' = Open(i)
<1>1. CASE open' = open
  BY <1>1 DEF Open
<1>2. CASE \E t \in Open(j) : open' = open \ {t}
  BY <1>2 DEF Open
<1>3. QED
  BY <1>1, <1>2 DEF ReleaseSlot, CloseTicket

\* A job whose mode is recorded keeps an open dispatch.
LEMMA ReleaseKeepsOpen ==
    ASSUME LeakInv, NEW j \in Jobs, ReleaseSlot(j)
    PROVE  \A i \in Jobs : activeJobMode'[i] # NoMode => Open(i)' # {}
<1> SUFFICES ASSUME NEW i \in Jobs, activeJobMode'[i] # NoMode
             PROVE  Open(i)' # {}
  OBVIOUS
<1>1. i # j /\ activeJobMode'[i] = activeJobMode[i]
  BY DEF ReleaseSlot, LeakInv, SlotInv, SchedTypeOK
<1>2. Open(i)' = Open(i)
  BY <1>1, ReleaseOthers DEF LeakInv
<1>3. QED
  BY <1>1, <1>2 DEF LeakInv

\* Releasing a slot lowers the counter of the job's mode with the jobs in it.
LEMMA ReleaseLeaksNothing ==
    ASSUME LeakInv, NEW j \in Jobs, ReleaseSlot(j), NEW n \in Modes
    PROVE  Leak(n)' = Leak(n)
<1>0. /\ IsFiniteSet(JobsIn(n)) /\ Cardinality(JobsIn(n)) \in Nat
      /\ Cardinality(JobsIn(n)) <= activeByMode[n] /\ activeByMode[n] \in Nat
  BY FS_CardinalityType DEF LeakInv, ModeInv, ModeCap, SchedTypeOK
<1>1. activeJobMode \in [Jobs -> Modes \cup {NoMode}] /\ activeByMode \in [Modes -> Nat]
  BY DEF LeakInv, ModeInv, SchedTypeOK
<1>2. JobsIn(n)' = JobsIn(n) \ {j}
  BY <1>1, SchedulerAssumption DEF JobsIn, ReleaseSlot
<1>3. CASE activeJobMode[j] = n
  <2>1. j \in JobsIn(n)
    BY <1>3 DEF JobsIn
  <2>2. Cardinality(JobsIn(n)') = Cardinality(JobsIn(n)) - 1 /\ Cardinality(JobsIn(n)) # 0
    BY <1>0, <1>2, <2>1, FS_RemoveElement, FS_EmptySet
  <2>3. activeByMode'[n] = AtLeast0(activeByMode[n] - 1)
    BY <1>1, <1>3, SchedulerAssumption DEF ReleaseSlot
  <2>4. activeByMode'[n] = activeByMode[n] - 1
    BY <1>0, <2>2, <2>3 DEF AtLeast0
  <2>5. QED
    BY <1>0, <2>2, <2>4 DEF Leak
<1>4. CASE activeJobMode[j] # n
  <2>1. activeByMode'[n] = activeByMode[n]
    BY <1>1, <1>4 DEF ReleaseSlot
  <2>2. JobsIn(n)' = JobsIn(n)
    BY <1>2, <1>4 DEF JobsIn
  <2>3. QED
    BY <2>1, <2>2 DEF Leak
<1>5. QED
  BY <1>3, <1>4

\* Taking a slot for a job that has none raises the counter with the jobs in it.
LEMMA FirstSlotLeaksNothing ==
    ASSUME LeakInv, NEW j \in Jobs, NEW m \in Modes, Open(j) = {}, TakeSlot(j, m),
           NEW n \in Modes
    PROVE  Leak(n)' = Leak(n)
<1>0. IsFiniteSet(JobsIn(n)) /\ Cardinality(JobsIn(n)) \in Nat /\ activeByMode[n] \in Nat
  BY FS_CardinalityType DEF LeakInv, ModeInv, SchedTypeOK
<1>1. activeJobMode \in [Jobs -> Modes \cup {NoMode}] /\ activeByMode \in [Modes -> Nat]
  BY DEF LeakInv, ModeInv, SchedTypeOK
<1>2. j \notin JobsIn(n)
  BY SchedulerAssumption DEF LeakInv, JobsIn
<1>3. CASE n = m
  <2>1. JobsIn(n)' = JobsIn(n) \cup {j}
    BY <1>1, <1>3 DEF JobsIn, TakeSlot
  <2>2. Cardinality(JobsIn(n)') = Cardinality(JobsIn(n)) + 1
    BY <1>0, <1>2, <2>1, FS_AddElement
  <2>3. activeByMode'[n] = activeByMode[n] + 1
    BY <1>1, <1>3 DEF TakeSlot
  <2>4. QED
    BY <1>0, <2>2, <2>3 DEF Leak
<1>4. CASE n # m
  <2>1. JobsIn(n)' = JobsIn(n)
    BY <1>1, <1>2, <1>4 DEF JobsIn, TakeSlot
  <2>2. activeByMode'[n] = activeByMode[n]
    BY <1>1, <1>4 DEF TakeSlot
  <2>3. QED
    BY <2>1, <2>2 DEF Leak
<1>5. QED
  BY <1>3, <1>4

\* A dispatch keeps LeakInv, and leaks only if the job was dispatched before.
LEMMA DispatchLeak ==
    ASSUME LeakInv, Dispatch
    PROVE  /\ \A i \in Jobs : activeJobMode'[i] # NoMode => Open(i)' # {}
           /\ LeaksKept \/ DispatchedAgain
<1>1. Head(ready) \in Record
  BY DEF Dispatch, LeakInv, SlotInv, SchedTypeOK
<1>2. PICK j \in Jobs, m \in Modes : TakeSlot(j, m) /\ Head(ready).job = j
  BY <1>1 DEF Dispatch, Record
<1>3. inHand = NoRec /\ inHand' = Head(ready) /\ inHand' # NoRec
  BY <1>1, NoRecordAssumption DEF Dispatch, DispatcherFree
<1>4. PICK k : open' = open \cup {<<j, k>>}
  BY <1>2 DEF TakeSlot
<1>5. ASSUME NEW i \in Jobs, activeJobMode'[i] # NoMode PROVE Open(i)' # {}
  <2>1. CASE i = j
    <3>1. <<j, k>> \in open' /\ <<j, k>>[1] = j
      BY <1>4
    <3>2. <<j, k>> \in Open(j)'
      BY <3>1 DEF Open
    <3>3. QED
      BY <2>1, <3>2
  <2>2. CASE i # j
    <3>1. activeJobMode'[i] = activeJobMode[i]
      BY <1>2, <2>2 DEF TakeSlot, LeakInv, SlotInv, SchedTypeOK
    <3>2. Open(i) # {} /\ Open(i) \subseteq Open(i)'
      BY <1>4, <1>5, <3>1 DEF LeakInv, Open
    <3>3. QED
      BY <3>2
  <2>3. QED
    BY <2>1, <2>2
<1>6. Open(j) = {} => LeaksKept
  BY <1>2, FirstSlotLeaksNothing DEF LeaksKept
<1>7. Open(j) # {} => DispatchedAgain
  BY <1>2, <1>3 DEF DispatchedAgain
<1>8. QED
  BY <1>5, <1>6, <1>7

\* Every step keeps LeakInv and is as LeakOnlyByDuplicate says.
LEMMA LeakStep ==
    ASSUME LeakInv, [SchedNext]_schedVars
    PROVE  LeakInv' /\ (LeaksKept \/ DispatchedAgain)
<1>t. SlotInv' /\ ModeInv'
  BY SlotStep, ModeStep DEF LeakInv
<1> DEFINE Kept == \A i \in Jobs : activeJobMode'[i] # NoMode => Open(i)' # {}
<1>1. ASSUME UNCHANGED <<activeByMode, activeJobMode, open>> PROVE Kept /\ LeaksKept
  BY <1>1 DEF LeakInv, Open, Leak, JobsIn, LeaksKept
<1>2. ASSUME NEW j \in Jobs, ReleaseSlot(j) PROVE Kept /\ LeaksKept
  BY <1>2, ReleaseKeepsOpen, ReleaseLeaksNothing DEF LeaksKept
<1>3. ASSUME GiveBack PROVE Kept /\ LeaksKept
  BY <1>2, <1>3 DEF GiveBack, LeakInv, SlotInv, SchedTypeOK, Record
<1>4. ASSUME NEW j \in Jobs, OnJobDone(j) PROVE Kept /\ LeaksKept
  BY <1>2, <1>4 DEF OnJobDone
<1>5. ASSUME Dispatch PROVE Kept /\ (LeaksKept \/ DispatchedAgain)
  BY <1>5, DispatchLeak, Zenon
<1>6. Kept /\ (LeaksKept \/ DispatchedAgain)
  <2> HIDE DEF Kept
  <2> QED
    BY <1>1, <1>3, <1>4, <1>5
       DEF SchedNext, Dispatcher, Submit, Ripen, Drop, Reprioritize, Stop, Defer, HandOver,
           slotVars, heapVars, schedVars
<1>7. QED
  BY <1>t, <1>6 DEF LeakInv

\* A mode's counter drifts away from the jobs recorded in that mode only when a
\* job is dispatched while an earlier dispatch of it is open (_active_job_mode
\* forgets the first slot): every other order of dispatches, give-backs and
\* reports of completion returns to a mode what was taken from it.
THEOREM ModeSlotsReturn == SchedSpec => LeakOnlyByDuplicate
<1>1. SchedInit => LeakInv
  <2> SUFFICES ASSUME SchedInit PROVE LeakInv
    OBVIOUS
  <2>1. SlotInv
    BY SlotInit
  <2>2. ModeInv
    BY ModeInit
  <2>3. QED
    BY <2>1, <2>2 DEF SchedInit, LeakInv
<1>2. LeakInv /\ [SchedNext]_schedVars
        => LeakInv' /\ [LeaksKept \/ DispatchedAgain]_schedVars
  BY LeakStep
<1>3. QED
  BY <1>1, <1>2, PTL DEF SchedSpec, LeakOnlyByDuplicate

==============================================================================
