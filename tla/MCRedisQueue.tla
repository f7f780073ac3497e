----------------------------- MODULE MCRedisQueue -----------------------------
(* Small instances of the Redis queue.                                     *)
EXTENDS RedisQueue, TLC

CONSTANTS j1, j2, p1, p2

OneUser == [j \in Jobs |-> "user"]
ByName == [j \in Jobs |-> IF j = j1 THEN 1 ELSE 2]

Plain == [procs |-> Procs, twoPass |-> {j2}, cap |-> 0, lapse |-> FALSE, expire |-> FALSE,
          ops |-> {}, most |-> 2, crashes |-> 0, flips |-> 0, reboot |-> FALSE]

\* One run at a time per user; an instance dies; users pause; locks run out; the
\* counters of attempts run out; a single instance dies and leaves its count behind.
Capped == [Plain EXCEPT !.cap = 1, !.ops = {"cancel", "rerun"}, !.most = 3]
Crashing == [Plain EXCEPT !.ops = {"cancel", "rerun"}, !.crashes = 1]
Pausing == [Plain EXCEPT !.ops = {"cancel", "pause"}, !.most = 3]
Lapsing == [Plain EXCEPT !.lapse = TRUE, !.ops = {"rerun"}]
Expiring == [Plain EXCEPT !.expire = TRUE, !.ops = {"rerun"}, !.crashes = 1]
Leaving == [Plain EXCEPT !.procs = {p1}, !.cap = 1, !.ops = {"cancel", "rerun"}, !.crashes = 1]
Each == {Capped, Crashing, Pausing, Lapsing, Expiring, Leaving}
==============================================================================
