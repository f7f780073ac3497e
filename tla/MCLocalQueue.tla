----------------------------- MODULE MCLocalQueue -----------------------------
(* Small instances of the local queue.                                     *)
EXTENDS LocalQueue

HighLow == {"high", "low"}
MediumOnly == {"medium"}
SubmitPriorities == {100, 110, 120}
NoModeCaps == [m \in Modes |-> 0]
OneHigh == [m \in Modes |-> IF m = "high" THEN 1 ELSE 0]
NoBackpressure == -1
OneUser == [j \in Jobs |-> "user"]
AllOps == OpNames
==============================================================================
