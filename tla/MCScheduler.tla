----------------------------- MODULE MCScheduler -----------------------------
(* Small instances of the scheduler: the mode caps the runs use.           *)
EXTENDS Scheduler

AllModes == Modes
HighLow == {"high", "low"}
OnePriority == {100}

\* MAX_JOBS_HIGH = 1, the other modes fall back to MAX_CONCURRENCY_GLOBAL.
OneHigh == [m \in Modes |-> IF m = "high" THEN 1 ELSE 0]
NoModeCaps == [m \in Modes |-> 0]
NoBackpressure == -1
==============================================================================
