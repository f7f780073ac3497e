------------------------------ MODULE StageProcess ------------------------------
(***************************************************************************)
(* A stage of a job runs in a process of its own (jobs/watchdog.py), which *)
(* the worker forks from the server and watches: it ends by itself, or is  *)
(* killed when the job is canceled or its time is up.  The child starts    *)
(* with the server's models and breakers as they are at the fork, while    *)
(* prewarm threads of the server load, use and evict models.  In the child *)
(* runs recognition (stages/transcription.py), synthesis                   *)
(* (stages/tts_impl.py) or another stage without models.                   *)
(*                                                                         *)
(* The module's own manager is the server's, Kid the child's.              *)
(***************************************************************************)
EXTENDS ModelManager

CONSTANTS
    Main,          \* the thread of the child
    Speech,        \* keys of recognition models
    Xtts, Basic,   \* keys of the two synthesis models
    Threshold,     \* CB_FAIL_THRESHOLD
    Retries,       \* RETRY_MAX
    Setups         \* what a run explores, see SetupType

SetupType ==
    [warm: SUBSET Threads,  \* prewarm threads, and the keys they ask for
     keys: SUBSET Keys,
     kinds: SUBSET {"asr", "tts", "plain"},  \* stages, and how many of them
     phases: Nat,
     steps: Nat,            \* candidates of recognition, lines of synthesis
     cuda: BOOLEAN,         \* recognition runs on the GPU
     big: BOOLEAN,          \* a result may be larger than a pipe
     deaths: BOOLEAN]       \* a child may be killed from outside

ASSUME StageAssumption ==
    /\ Main \notin Loaders \cup {None, Dead}
    /\ Xtts \in Keys /\ Basic \in Keys /\ Speech \subseteq Keys
    /\ Retries \in Nat /\ Threshold \in Nat \ {0}
    /\ Setups \subseteq SetupType

VARIABLES
    setup,
    parent,   \* where run_with_timeout is, "idle" between two stages
    stage,    \* which stage it runs
    left,     \* stages still to come
    late,     \* the deadline has passed
    asked,    \* the row of the job is CANCELED
    child,    \* none, runs, ends (its function is over), dead
    result,   \* history: what its function came to
    pipe,     \* what has been written to the queue's pipe
    outcome,  \* how the last stage ended for the worker
    broken,   \* history: the child was killed from outside, or its result not pickled
    step, n, tries, held,   \* where the stage is; engine._tts is loaded
    engine,   \* there is an engine (COQUI_TOS_AGREED)
    brk,      \* the child's breaker of its stage
    kmodel, krefs, klock, kpc, kwant, khas   \* the child's manager

watchVars == <<parent, stage, left, late, asked, outcome>>
lifeVars == <<child, result, pipe, broken>>
workVars == <<step, n, tries, held, engine, brk>>
kidVars == <<kmodel, krefs, klock, kpc, kwant, khas>>
stageVars == <<setup, watchVars, lifeVars, workVars, kidVars, mmVars>>

Kid == INSTANCE ModelManager WITH Threads <- {Main}, Loaders <- Loaders \cup {Main},
           model <- kmodel, refs <- krefs, lock <- klock, pc <- kpc, want <- kwant, has <- khas
Breaker == INSTANCE Circuit

Alive == child \in {"runs", "ends"}

StageInit ==
    /\ setup \in Setups
    /\ MMInit /\ Kid!MMInit
    /\ parent = "idle" /\ stage = "plain" /\ left = setup.phases
    /\ late = FALSE /\ asked = FALSE
    /\ child = "none" /\ result = "none" /\ pipe = "none" /\ outcome = "none"
    /\ broken = FALSE
    /\ step = "work" /\ n = 1 /\ tries = 0 /\ held = FALSE /\ engine = FALSE
    /\ brk = Breaker!Closed

-----------------------------------------------------------------------------
\* run_with_timeout.

\* The fork copies the memory of the server, and only the thread that forks: a lock
\* another thread has at that moment is never released in the child.  The server
\* itself calls no model, so that its breakers are closed.
Fork(s) ==
    /\ parent = "idle" /\ left > 0 /\ outcome # "cancel"
    /\ parent' = "join" /\ stage' = s /\ left' = left - 1
    /\ late' = FALSE /\ outcome' = "none"
    /\ child' = "runs" /\ result' = "none" /\ pipe' = "none" /\ broken' = FALSE
    /\ step' = (CASE s = "asr" -> "ask" [] s = "tts" -> "line" [] OTHER -> "work")
    /\ n' = 1 /\ tries' = 0 /\ held' = FALSE /\ engine' \in {s = "tts", FALSE}
    /\ brk' = Breaker!Closed
    /\ kmodel' = model /\ krefs' = refs
    /\ klock' = (IF lock = None THEN None ELSE Dead)
    /\ kpc' = [kpc EXCEPT ![Main] = "rest"]
    /\ kwant' = [kwant EXCEPT ![Main] = None] /\ khas' = [khas EXCEPT ![Main] = None]
    /\ UNCHANGED asked

Parent(a, b) == parent = a /\ parent' = b

\* Mutant: the join has no time limit.
JoinWaits ==
    /\ ~Alive /\ Parent("join", "get")
    /\ UNCHANGED <<stage, left, late, asked, outcome, lifeVars>>

\* One turn of the loop: join for a moment, then look at the cancellation and the clock.
Join ==
    /\ Parent("join", IF Alive THEN "check" ELSE "get")
    /\ UNCHANGED <<stage, left, late, asked, outcome, lifeVars>>

Check ==
    /\ parent = "check"
    /\ parent' = (IF asked \/ late THEN "term" ELSE "join")
    /\ outcome' = (IF asked THEN "cancel" ELSE IF late THEN "late" ELSE outcome)
    /\ UNCHANGED <<stage, left, late, asked, lifeVars>>

\* Mutant: nothing but SIGTERM.
KillNot ==
    /\ Parent("kill", "idle")
    /\ UNCHANGED <<child, stage, left, late, asked, outcome, result, pipe, broken>>

\* SIGTERM and two seconds, in which a child may end; it need not, since it has the
\* server's signal handlers.
Terminate ==
    /\ Parent("term", "kill")
    /\ child' \in {child, "dead"}
    /\ UNCHANGED <<stage, left, late, asked, outcome, result, pipe, broken>>

Kill ==
    /\ Parent("kill", "idle")
    /\ child' = "dead"
    /\ UNCHANGED <<stage, left, late, asked, outcome, result, pipe, broken>>

\* get_nowait does not wait for a message, but it does for the rest of one.
Get ==
    /\ Parent("get", "idle") /\ pipe # "part"
    /\ outcome' = (IF pipe = "none" THEN "empty" ELSE pipe)
    /\ UNCHANGED <<stage, left, late, asked, lifeVars>>

Deadline ==
    /\ parent # "idle" /\ ~late
    /\ late' = TRUE
    /\ UNCHANGED <<parent, stage, left, asked, outcome, lifeVars>>

Cancel ==
    /\ ~asked
    /\ asked' = TRUE
    /\ UNCHANGED <<parent, stage, left, late, outcome, lifeVars>>

Watch == Join \/ Check \/ Terminate \/ Kill \/ Get

-----------------------------------------------------------------------------
\* _child_main: the function returns or raises, its result is written by a thread of
\* the queue, for which the process waits before it exits.

Ends(r) == child' = "ends" /\ result' = r /\ UNCHANGED <<pipe, broken>>

Write ==
    /\ child = "ends" /\ pipe = "none" /\ ~broken
    /\ pipe' \in {result} \cup (IF setup.big /\ result = "ok" THEN {"part"} ELSE {})
    /\ UNCHANGED <<child, result, broken>>

\* Mutant: the process does not wait for the thread that writes.
ExitAtOnce ==
    /\ child = "ends" /\ pipe # "part"
    /\ child' = "dead"
    /\ UNCHANGED <<result, pipe, broken>>

\* The result cannot be pickled: nothing is written.
WriteNothing ==
    /\ child = "ends" /\ pipe = "none" /\ result = "ok"
    /\ broken' = TRUE
    /\ UNCHANGED <<child, result, pipe>>

Exit ==
    /\ child = "ends" /\ (pipe = result \/ broken)
    /\ child' = "dead"
    /\ UNCHANGED <<result, pipe, broken>>

\* Killed from outside, by the kernel for its memory.
Dies ==
    /\ setup.deaths /\ Alive
    /\ child' = "dead" /\ broken' = TRUE
    /\ UNCHANGED <<result, pipe>>

Life == Write \/ WriteNothing \/ Exit \/ Dies

-----------------------------------------------------------------------------
\* What the stages do.  At(s) is a step of the child outside the manager.

At(s) == child = "runs" /\ step = s /\ kpc[Main] = "rest"
Then(s) == step' = s
Kept == UNCHANGED <<n, tries, held, engine, brk>>
Sames == UNCHANGED <<lifeVars, kidVars>>

Work == /\ At("work") /\ \E r \in {"ok", "err"} : Ends(r)
        /\ Then("done") /\ Kept /\ UNCHANGED kidVars

\* Get a model: the first step of an acquisition.
Acquire(k) == Kid!Want(Main, k) /\ UNCHANGED lifeVars

\* Recognition.  The candidates of the fallback chain, each one if the breaker allows
\* it; on a GPU one that is not allowed is called all the same, on the CPU.
AsrReuse == /\ At("ask") /\ stage = "asr" /\ n = 1 /\ brk = Breaker!Closed
            /\ Ends("ok") /\ Then("done") /\ Kept /\ UNCHANGED kidVars

AsrAsk ==
    /\ At("ask") /\ n <= setup.steps
    /\ IF Breaker!Allows(brk) \/ setup.cuda
         THEN Then("call") /\ brk' = Breaker!Asked(brk) /\ tries' = 0 /\ UNCHANGED n
         ELSE n' = n + 1 /\ UNCHANGED <<step, brk, tries>>
    /\ UNCHANGED <<held, engine>> /\ Sames

AsrCall(k) ==
    /\ At("call")
    /\ Acquire(k)
    /\ Then("bad") /\ Kept   \* until the call returns

\* The call itself, with the model in use.
AsrReturns ==
    /\ child = "runs" /\ stage = "asr" /\ kpc[Main] = "use"
    /\ \E s \in {"good", "bad"} : Then(s)
    /\ Kid!Leave(Main) /\ Kept /\ UNCHANGED lifeVars

\* Mutant: a success is not told to the breaker.
AsrGoodUnmarked == At("good") /\ Then("work") /\ UNCHANGED <<n, tries, held, engine, brk>> /\ Sames

AsrGood == /\ At("good") /\ brk' = Breaker!Succeeded(brk)
           /\ Then("work") /\ UNCHANGED <<n, tries, held, engine>> /\ Sames

AsrBad ==
    /\ At("bad")
    /\ IF tries < Retries
         THEN Then("call") /\ tries' = tries + 1 /\ UNCHANGED <<n, brk>>
         ELSE Then("ask") /\ n' = n + 1 /\ brk' = Breaker!Failed(brk) /\ UNCHANGED tries
    /\ UNCHANGED <<held, engine>> /\ Sames

AsrExhausted == /\ At("ask") /\ n > setup.steps /\ stage = "asr"
                /\ Ends("err") /\ Then("done") /\ Kept /\ UNCHANGED kidVars

Asr == AsrReuse \/ AsrAsk \/ (\E k \in Speech : AsrCall(k)) \/ AsrReturns \/ AsrGood
       \/ AsrBad \/ AsrExhausted

-----------------------------------------------------------------------------
\* Synthesis, line by line.  XTTS is loaded once and kept (engine._tts); what retry_call
\* repeats is part of a call's outcome.

TtsAsk ==
    /\ At("line") /\ n <= setup.steps
    /\ IF engine /\ Breaker!Allows(brk)
         THEN /\ brk' = Breaker!Asked(brk)
              /\ \E s \in {"clone", "preset", "basic"} : Then(s)   \* by voice mode and reference
         ELSE Then("basic") /\ UNCHANGED brk
    /\ UNCHANGED <<n, tries, held, engine>> /\ Sames

XttsCalls == {"clone", "preset", "speed", "short"}

XttsLoad == /\ At(step) /\ step \in XttsCalls /\ ~held
            /\ Acquire(Xtts)
            /\ UNCHANGED step /\ Kept

\* get_tts without a release.
Hold ==
    /\ child = "runs" /\ stage = "tts" /\ kpc[Main] = "use"
    /\ kpc' = [kpc EXCEPT ![Main] = "rest"]
    /\ kwant' = [kwant EXCEPT ![Main] = None] /\ khas' = [khas EXCEPT ![Main] = None]
    /\ IF step = "basic" THEN Then("pace") /\ UNCHANGED held
                         ELSE UNCHANGED step /\ held' = TRUE
    /\ UNCHANGED <<n, tries, engine, brk, kmodel, krefs, klock, lifeVars>>

NextLine == Then("line") /\ n' = n + 1

\* The calls for the line tell the breaker, those that fit it into its time do not.
XttsReturns ==
    /\ At(step)
    /\ \/ /\ step \in {"clone", "preset"} /\ held
          /\ brk' = Breaker!Succeeded(brk) /\ Then("pace") /\ UNCHANGED n
       \/ /\ step \in {"clone", "preset"}
          /\ brk' = Breaker!Failed(brk)
          /\ Then(IF step = "clone" THEN "preset" ELSE "basic") /\ UNCHANGED n
       \/ step = "speed" /\ Then("cut") /\ UNCHANGED <<n, brk>>
       \/ step = "short" /\ NextLine /\ UNCHANGED brk
    /\ UNCHANGED <<tries, held, engine>> /\ Sames

\* Basic synthesis takes a reference for every line; then espeak, then silence.
TtsBasic == /\ At("basic")
            /\ \/ Acquire(Basic) /\ UNCHANGED step
               \/ Then("pace") /\ UNCHANGED kidVars
            /\ Kept /\ UNCHANGED lifeVars

\* A line that is too long is spoken faster, and then shortened, if the breaker allows.
TtsFit ==
    /\ \/ At("pace") /\ Then("cut") /\ UNCHANGED n
       \/ At("cut") /\ NextLine
    /\ brk' \in {brk} \cup (IF engine THEN {Breaker!Asked(brk)} ELSE {})
    /\ UNCHANGED <<tries, held, engine>> /\ Sames

TtsAgain ==
    /\ \/ At("pace") /\ Then("speed")
       \/ At("cut") /\ Then("short")
    /\ engine /\ Breaker!Allows(brk) /\ brk' = Breaker!Asked(brk)
    /\ UNCHANGED <<n, tries, held, engine>> /\ Sames

TtsDone == /\ At("line") /\ n > setup.steps
           /\ Then("work") /\ Kept /\ Sames

Tts == TtsAsk \/ XttsLoad \/ Hold \/ XttsReturns \/ TtsBasic \/ TtsFit \/ TtsAgain \/ TtsDone

Cool == /\ child = "runs" /\ brk.state = "open" /\ ~brk.cool
        /\ brk' = Breaker!Cooled(brk)
        /\ UNCHANGED <<step, n, tries, held, engine>> /\ Sames

-----------------------------------------------------------------------------

Server == /\ \E t \in setup.warm : Prewarm(t, setup.keys)
          /\ UNCHANGED <<setup, watchVars, lifeVars, workVars, kidVars>>
Forks == /\ \E s \in setup.kinds : Fork(s)
         /\ UNCHANGED <<setup, mmVars>>
Watches == Watch /\ UNCHANGED <<setup, workVars, kidVars, mmVars>>
TimeIsUp == Deadline /\ UNCHANGED <<setup, workVars, kidVars, mmVars>>
Canceled == Cancel /\ UNCHANGED <<setup, workVars, kidVars, mmVars>>
Lives == Life /\ UNCHANGED <<setup, watchVars, workVars, kidVars, mmVars>>
Serves == /\ child = "runs" /\ Kid!Serve(Main)
          /\ UNCHANGED <<setup, watchVars, lifeVars, workVars, mmVars>>
Goes == (Work \/ Asr \/ Tts \/ Cool) /\ UNCHANGED <<setup, watchVars, mmVars>>

StageNext == Server \/ Forks \/ Watches \/ TimeIsUp \/ Canceled \/ Lives \/ Serves \/ Goes

\* The worker's loop turns and time passes; nothing is assumed of the child and of the
\* threads that load models.
StageFairSpec == StageInit /\ [][StageNext]_stageVars /\ WF_stageVars(Watches) /\ WF_stageVars(TimeIsUp)

-----------------------------------------------------------------------------

StageTypeOK ==
    /\ setup \in Setups /\ MMTypeOK /\ Kid!MMTypeOK
    /\ parent \in {"idle", "join", "check", "term", "kill", "get"}
    /\ stage \in {"asr", "tts", "plain"} /\ left \in 0 .. setup.phases
    /\ late \in BOOLEAN /\ asked \in BOOLEAN /\ broken \in BOOLEAN
    /\ child \in {"none", "runs", "ends", "dead"}
    /\ result \in {"none", "ok", "err"} /\ pipe \in {"none", "ok", "err", "part"}
    /\ outcome \in {"none", "ok", "err", "empty", "cancel", "late"}
    /\ step \in {"work", "done", "ask", "call", "good", "bad", "line", "basic", "pace", "cut"}
               \cup XttsCalls
    /\ n \in 1 .. setup.steps + 1 /\ tries \in 0 .. Retries
    /\ held \in BOOLEAN /\ engine \in BOOLEAN
    /\ Breaker!CircuitTypeOK(brk)

\* The worker goes on after every stage, whatever its process does: hang in a load, wait
\* for a lock that died in the fork, or not get rid of its result.  Only a process that
\* is killed from outside in the middle of a large result is waited for without an end.
PhaseEnds == parent # "idle" ~> parent = "idle" \/ (parent = "get" /\ pipe = "part")

\* When the worker goes on, the process of the stage is gone: two stages never write to
\* the files of a job at once.
ChildIsGone == parent = "idle" => ~Alive

\* What the worker is told is what the function came to; only a process that was killed
\* from outside, or a result that cannot be pickled, ends without a result, and only a
\* cancellation or the deadline discards one.
ResultIsNotLost ==
    parent = "idle" =>
        /\ outcome \in {"ok", "err"} => outcome = result
        /\ outcome = "empty" => broken
        /\ outcome = "cancel" => asked
        /\ outcome = "late" => late

\* A half-open breaker that has let a trial through hears of its outcome: recognition
\* never leaves one open for ever.  (Synthesis does, see the README.)
TrialIsAnswered ==
    stage = "asr" /\ brk.state = "half_open" /\ brk.trial => step \in {"call", "good", "bad"}

==============================================================================
