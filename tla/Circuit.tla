-------------------------------- MODULE Circuit --------------------------------
(***************************************************************************)
(* utils/circuit.py: a circuit breaker as a value and what its methods do  *)
(* to it.  Each method is one critical section of its lock.                *)
(***************************************************************************)
EXTENDS Naturals

CONSTANT Threshold   \* CB_FAIL_THRESHOLD

\* trial: _half_open_inflight; cool: the cooldown since _opened_at is over
Closed == [state |-> "closed", failures |-> 0, trial |-> FALSE, cool |-> FALSE]

CircuitTypeOK(b) ==
    b \in [state: {"closed", "open", "half_open"}, failures: Nat, trial: BOOLEAN, cool: BOOLEAN]

\* allow: its answer, and the breaker after it.
Allows(b) ==
    \/ b.state = "closed"
    \/ b.state = "open" /\ b.cool
    \/ b.state = "half_open" /\ ~b.trial

Asked(b) ==
    IF b.state # "closed" /\ Allows(b)
    THEN [b EXCEPT !.state = "half_open", !.trial = TRUE]
    ELSE b

Opened(b) == [b EXCEPT !.state = "open", !.trial = FALSE, !.cool = FALSE]

Succeeded(b) == Closed

Failed(b) ==
    LET c == [b EXCEPT !.failures = @ + 1] IN
    IF b.state = "half_open" \/ c.failures >= Threshold THEN Opened(c)
    ELSE [c EXCEPT !.state = "closed"]

\* Time passes.
Cooled(b) == [b EXCEPT !.cool = (b.state = "open")]

==============================================================================
