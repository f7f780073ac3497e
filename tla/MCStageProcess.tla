---------------------------- MODULE MCStageProcess ----------------------------
(* Small instances of stages in processes of their own.                    *)
EXTENDS StageProcess

CONSTANTS t1, t2, kSpeech

Plain == [warm |-> {}, keys |-> {}, kinds |-> {"plain"}, phases |-> 0, steps |-> 0,
          cuda |-> FALSE, big |-> FALSE, deaths |-> FALSE]

\* The server's models alone, with more users than the cache has room for.
Models == [Plain EXCEPT !.warm = {t1, t2}, !.keys = Keys]

\* Recognition beside a prewarm thread that wants the same model; synthesis.
Recognition == [Plain EXCEPT !.warm = {t1}, !.keys = {kSpeech}, !.kinds = {"asr"},
                             !.phases = 1, !.steps = 3]
OnGpu == [Recognition EXCEPT !.cuda = TRUE]
Synthesis == [Plain EXCEPT !.kinds = {"tts"}, !.phases = 1, !.steps = 3]

\* Two stages with large results; two whose processes may be killed.
Large == [Plain EXCEPT !.phases = 2, !.big = TRUE, !.deaths = TRUE]

Each == {Models, Recognition, OnGpu, Synthesis, Large}
==============================================================================
