------------------------------- MODULE SlotPool -------------------------------
(***************************************************************************)
(* What the scheduler's admission promises the rest of the program: a pool *)
(* of Slots interchangeable slots.  A ticket is one dispatch of a job; it  *)
(* is held from the moment the dispatcher admits it until its end is       *)
(* reported.  A report that no held ticket accounts for may free a slot    *)
(* that is in use: the pool is then one larger, and never more than that.  *)
(***************************************************************************)
EXTENDS Naturals, FiniteSets

CONSTANTS Tickets, Slots

VARIABLES held, extra

Init == held = {} /\ extra = 0

Admit(t) ==
    /\ t \in Tickets \ held
    /\ Cardinality(held) < Slots + extra
    /\ held' = held \cup {t}
    /\ UNCHANGED extra

Release(t) ==
    /\ t \in held
    /\ held' = held \ {t}
    /\ UNCHANGED extra

\* A report of completion for which no ticket is held.
Misreport ==
    /\ extra' = extra + 1
    /\ UNCHANGED held

Next == Misreport \/ \E t \in Tickets : Admit(t) \/ Release(t)

Spec == Init /\ [][Next]_<<held, extra>>

==============================================================================
