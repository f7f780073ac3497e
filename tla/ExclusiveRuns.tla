---------------------------- MODULE ExclusiveRuns ----------------------------
(***************************************************************************)
(* What the queue promises for jobs that several server instances may take *)
(* up: a job is begun by one instance at a time, and not more often than   *)
(* its attempts allow.  These are MaxAttempts, and are renewed when the    *)
(* record that counts them is forgotten.  With overlap, a lease may run    *)
(* out under a holder that is alive, and only the number of runs is        *)
(* promised.                                                               *)
(***************************************************************************)
EXTENDS Naturals

CONSTANTS Procs, Jobs, MaxAttempts

VARIABLES
    runners,  \* the instances that run the job
    starts,   \* how many runs of the job have begun
    spent,    \* how many attempts were counted and forgotten since
    overlap

ERInit ==
    /\ runners = [j \in Jobs |-> {}]
    /\ starts = [j \in Jobs |-> 0] /\ spent = [j \in Jobs |-> 0]
    /\ overlap \in BOOLEAN

Begin(p, j) ==
    /\ overlap \/ runners[j] = {}
    /\ starts[j] < spent[j] + MaxAttempts
    /\ starts' = [starts EXCEPT ![j] = @ + 1]
    /\ runners' = [runners EXCEPT ![j] = @ \cup {p}]
    /\ UNCHANGED <<spent, overlap>>

\* The run ends, or its instance dies.
End(p, j) ==
    /\ p \in runners[j]
    /\ runners' = [runners EXCEPT ![j] = @ \ {p}]
    /\ UNCHANGED <<starts, spent, overlap>>

\* The record is forgotten; it had counted some, never more than MaxAttempts.
Renew(j) ==
    /\ \E n \in 1 .. MaxAttempts : spent' = [spent EXCEPT ![j] = @ + n]
    /\ UNCHANGED <<runners, starts, overlap>>

ERNext == (\E p \in Procs, j \in Jobs : Begin(p, j) \/ End(p, j)) \/ \E j \in Jobs : Renew(j)
ERSpec == ERInit /\ [][ERNext]_<<runners, starts, spent, overlap>>
==============================================================================
