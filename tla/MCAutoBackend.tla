----------------------------- MODULE MCAutoBackend -----------------------------
(* Small instances of the choice between the two queues, with one slot.    *)
EXTENDS AutoBackend, TLC

CONSTANTS j1, j2, p1, p2

OneUser == [j \in Jobs |-> "user"]
ByName == [j \in Jobs |-> IF j = j1 THEN 1 ELSE 2]

\* One run at a time per user, as by default.
Plain == [procs |-> {p1}, twoPass |-> {j2}, cap |-> 1, lapse |-> FALSE, expire |-> FALSE,
          ops |-> {}, most |-> 2, crashes |-> 0, flips |-> 0, reboot |-> FALSE]

TwoInstances == [Plain EXCEPT !.procs = {p1, p2}]

\* Redis goes and returns; it goes while there are two jobs; the instance dies or is
\* stopped; two instances.
Outage == [Plain EXCEPT !.flips = 2, !.most = 1]
OutageOfTwo == [Plain EXCEPT !.flips = 1, !.twoPass = {}]
Dying == [Plain EXCEPT !.ops = {"cancel"}, !.crashes = 1, !.most = 1]
Two == TwoInstances
Each == {Outage, OutageOfTwo, Dying, Two}

\* Two jobs, every user operation and an outage; a death and an outage; two instances of
\* which one dies, or which both scan in an outage.
Busy == [Plain EXCEPT !.ops = {"cancel", "pause", "rerun"}, !.flips = 1]
DyingOut == [Plain EXCEPT !.crashes = 1, !.flips = 1, !.most = 1]
TwoDying == [TwoInstances EXCEPT !.crashes = 1, !.most = 1]
TwoOut == [TwoInstances EXCEPT !.flips = 1, !.most = 1, !.twoPass = {}]
Wide == {Busy, DyingOut, TwoDying, TwoOut}

\* Redis is restarted.
Rebooted == {[Plain EXCEPT !.flips = 2, !.reboot = TRUE, !.most = 1]}
==============================================================================
