------------------------------- MODULE Pipeline -------------------------------
(***************************************************************************)
(* The dubbing pipeline inside JobQueue._run_job: its stages, the files    *)
(* they leave in the job's work directory and in the output directory,     *)
(* the checkpoint that lets a later run skip a stage, the two passes of    *)
(* voice cloning, re-runs and re-syntheses, phases that fail or are killed *)
(* and restarts of the server (jobs/queue_impl.py, jobs/checkpoint.py,     *)
(* stages/).                                                               *)
(*                                                                         *)
(* _run_job holds the event loop from its first stage to its last, so one  *)
(* job runs at a time and the handlers run between two jobs; which QUEUED  *)
(* job is next is LocalQueue's subject.  An output directory belongs to a  *)
(* video, so two jobs may share one, with its checkpoint.                  *)
(***************************************************************************)
EXTENDS Naturals, FiniteSets

CONSTANTS
    Jobs,
    DirOf,         \* get_job_output_root: the output directory of a job
    TwoPassJobs,   \* jobs submitted with two-pass voice cloning
    None,
    MaxOps,        \* bound of the model: re-runs and re-syntheses
    MaxFaults,     \* bound of the model: phases that fail or are killed
    MaxCrashes     \* bound of the model: restarts of the server

ASSUME PipelineAssumption ==
    /\ TwoPassJobs \subseteq Jobs
    /\ MaxOps \in Nat /\ MaxFaults \in Nat /\ MaxCrashes \in Nat

VARIABLES
    row,      \* the job's row: state, two-pass phase and requests
    file,     \* what is on disk
    ckpt,     \* Output/<stem>/.checkpoint.json: stage -> recorded artifact
    inner,    \* <work dir>/.checkpoint.json, written by the stages themselves
    cache,    \* cache/store.py: whose transcript and track, per video
    run,      \* the job that runs and what it read at its start, or None
    pc,       \* the stage it is in
    made,     \* how often each stage of each job produced its file
    ended,    \* history: how the last run of each job ended
    ops, faults, crashes

pipeVars == <<row, file, ckpt, inner, cache, run, pc, made, ended, ops, faults, crashes>>
notes == <<inner, cache>>
disk == <<file, ckpt, notes>>

Dirs == {DirOf[j] : j \in Jobs}
Stages == {"audio", "transcribe", "translate", "tts", "mix", "mux"}
Inner == {"transcribe", "tts", "mux"}
Cacheable == {"transcribe", "tts"}

\* audio.wav, the transcript, the dialogue track and the muxed video are in the
\* work directory; the translation and the published video are shared.  The
\* second part of a pair (metadata, manifest, MP4) is written last and asked for
\* with the first: without it the file counts as missing.
WorkPaths(j) == {<<f, j>> : f \in {"wav", "srt", "tts", "out"}}
Paths == (UNION {WorkPaths(j) : j \in Jobs}) \cup {<<f, d>> : f \in {"tr", "final"}, d \in Dirs}

\* Who produced a file, in which attempt, and how good it is: cut off while it
\* was written ("torn"), made from such a file ("short"), silence, or whole.
Content == [by : Jobs, ver : Nat, q : {"whole", "short", "torn", "silence"}]

Me == run.job
Dir == DirOf[Me]

\* The file a stage writes.
TargetOf(s, j) == CASE s = "audio" -> <<"wav", j>>
                    [] s = "transcribe" -> <<"srt", j>>
                    [] s = "translate" -> <<"tr", DirOf[j]>>
                    [] s = "tts" -> <<"tts", j>>
                    [] s \in {"mix", "mux"} -> <<"out", j>>
Target(s) == TargetOf(s, Me)
Final == <<"final", Dir>>

\* The file a stage is made from; TTS speaks the original text when there is
\* no translation.
Source(s) == CASE s = "transcribe" -> <<"wav", Me>>
               [] s = "translate" -> <<"srt", Me>>
               [] s = "tts" -> IF file[<<"tr", Dir>>] # None THEN <<"tr", Dir>> ELSE <<"srt", Me>>
               [] s \in {"mix", "mux"} -> <<"tts", Me>>

\* stage_is_done(): the recorded artifact is still there with the same hash.
Done(s) == LET e == ckpt[Dir][s] IN e # None /\ file[e.path] = e.is

\* Mutant: pass 2 skips the mix like any other stage.
HitMixToo(s) ==
    /\ Done(s)
    /\ s \notin {"mix", "mux"} => file[Target(s)] # None
    /\ s = "tts" => ~run.pass2 /\ ~run.resynth

\* Whether this run skips a stage: its checkpoint and its own file are there.
\* TTS and mix are not skipped in pass 2, TTS not on a re-synthesis either.
Hit(s) ==
    /\ Done(s)
    /\ s \notin {"mix", "mux"} => file[Target(s)] # None
    /\ s \in {"tts", "mix"} => ~run.pass2
    /\ s = "tts" => ~run.resynth

\* Pass 2 runs no extraction, recognition or translation.
PassOneOnly == {"audio", "transcribe", "translate"}
Skipped(s) == run.pass2 /\ s \in PassOneOnly /\ ~Hit(s)
Runs(s) == ~Hit(s) /\ ~Skipped(s)

\* The disk when the stage starts to write: pass 2 and a re-synthesis remove
\* the dialogue track first, pass 2 also the published video.
Cleaned(s) ==
    [p \in Paths |->
        IF \/ s = "tts" /\ p = Target(s) /\ (run.pass2 \/ run.resynth)
           \/ s = "mix" /\ p \in {Target(s), Final} /\ run.pass2
        THEN None ELSE file[p]]

\* The transcript or track that the cache knows for this video.
CachedFile(s) ==
    IF s \in Cacheable /\ cache[Dir][s] # None
    THEN Cleaned(s)[TargetOf(s, cache[Dir][s])] ELSE None

\* Mutant: every stage keeps a file that exists.
KeptIfThere(s) == Cleaned(s)[Target(s)] # None

\* The stage process finds its file and leaves it: the extractor whenever it
\* exists, the others when their own checkpoint has it (TTS asks the cache
\* first).
Kept(s) ==
    LET old == Cleaned(s)[Target(s)] IN
    /\ old # None
    /\ s = "audio" \/ (s \in Inner /\ inner[Me][s] = old)
    /\ s = "tts" => CachedFile(s) = None

Copied(s) == ~Kept(s) /\ CachedFile(s) # None
New(s) == ~Kept(s) /\ ~Copied(s)

\* The dialogue track decides which video this is.
Ver(s) == IF s \in {"mix", "mux"} THEN file[<<"tts", Me>>].ver ELSE made[Me][s] + 1
Quality(s) ==
    IF s = "audio" THEN "whole"
    ELSE LET q == file[Source(s)].q IN IF q = "torn" THEN "short" ELSE q
Product(s) ==
    IF Kept(s) THEN Cleaned(s)[Target(s)]
    ELSE IF Copied(s) THEN CachedFile(s)
    ELSE [by |-> Me, ver |-> Ver(s), q |-> Quality(s)]

Completed(s) == [Cleaned(s) EXCEPT ![Target(s)] = Product(s)]
Count(s) == made' = [made EXCEPT ![Me][s] = IF New(s) THEN @ + 1 ELSE @]

\* A stage that made its file writes its own checkpoint (i) and the cache (c).
Remember(s, i, c) ==
    /\ inner' = IF i /\ s \in Inner /\ New(s)
                THEN [inner EXCEPT ![Me][s] = Product(s)] ELSE inner
    /\ cache' = IF c /\ s \in Cacheable /\ New(s)
                THEN [cache EXCEPT ![Dir][s] = Me] ELSE cache

\* A stage is stopped: nothing written (f), the file cut off, or the file complete
\* with the notes written so far (Whisper writes the cache first, TTS last).
\* translated.json is replaced atomically.
CutOff(s, f) ==
    /\ Count(s)
    /\ \/ file' = f /\ UNCHANGED notes
       \/ /\ ~Kept(s) /\ s # "translate"
          /\ file' = [Cleaned(s) EXCEPT ![Target(s)] = [Product(s) EXCEPT !.q = "torn"]]
          /\ UNCHANGED notes
       \/ /\ file' = Completed(s)
          /\ \E i, c \in BOOLEAN :
                /\ IF s = "tts" THEN c => i ELSE i => c
                /\ Remember(s, i, c)

-----------------------------------------------------------------------------

Row == [st : {"none", "QUEUED", "RUNNING", "DONE", "FAILED"},
        phase : {"pass1", "pass2", "done"}, req : BOOLEAN, resynth : BOOLEAN, two : BOOLEAN]
Run == [job : Jobs, pass2 : BOOLEAN, two : BOOLEAN, resynth : BOOLEAN]
Entry == [path : Paths, is : Content]

ASSUME NoneAssumption == None \notin Content \cup Jobs \cup Run \cup Entry

PipeInit ==
    /\ row = [j \in Jobs |-> [st |-> "none", phase |-> "pass1", req |-> FALSE,
                              resynth |-> FALSE, two |-> j \in TwoPassJobs]]
    /\ file = [p \in Paths |-> None]
    /\ ckpt = [d \in Dirs |-> [s \in Stages |-> None]]
    /\ inner = [j \in Jobs |-> [s \in Stages |-> None]]
    /\ cache = [d \in Dirs |-> [s \in Cacheable |-> None]]
    /\ run = None /\ pc = "idle"
    /\ made = [j \in Jobs |-> [s \in Stages |-> 0]]
    /\ ended = [j \in Jobs |-> "never"]
    /\ ops = 0 /\ faults = 0 /\ crashes = 0

\* The handlers run between jobs, and while a finished job's notification is
\* awaited.
HandlerRuns ==
    /\ pc \in {"idle", "notify"}
    /\ UNCHANGED <<disk, run, pc, made, ended, faults, crashes>>

Submit(j) ==
    /\ HandlerRuns /\ row[j].st = "none"
    /\ row' = [row EXCEPT ![j].st = "QUEUED"]
    /\ UNCHANGED ops

Requests(j) ==
    /\ HandlerRuns /\ row[j].st # "none"
    /\ ops < MaxOps /\ ops' = ops + 1

\* POST /api/jobs/{id}/transcript/synthesize and /segments/rerun
Resynth(j) ==
    /\ Requests(j)
    /\ row' = [row EXCEPT ![j].st = "QUEUED", ![j].resynth = TRUE]

\* POST /api/jobs/{id}/two_pass/rerun
RerunPass2(j) ==
    /\ Requests(j)
    /\ row' = [row EXCEPT ![j].st = "QUEUED", ![j].req = TRUE, ![j].two = TRUE]

\* The start of _run_job: a request forces pass 2.
PhaseOf(r) == IF r.req THEN "pass2" ELSE r.phase

StartRun(j) ==
    /\ pc = "idle" /\ row[j].st = "QUEUED"
    /\ row' = [row EXCEPT ![j].st = "RUNNING", ![j].phase = PhaseOf(row[j])]
    /\ run' = [job |-> j, pass2 |-> PhaseOf(row[j]) = "pass2", two |-> row[j].two,
               resynth |-> row[j].resynth]
    /\ pc' = "audio"
    /\ UNCHANGED <<disk, made, ended, ops, faults, crashes>>

-----------------------------------------------------------------------------
\* The stages.

After(s) == CASE s = "audio" -> "transcribe"
              [] s = "transcribe" -> "translate"
              [] s = "translate" -> "tts"
              [] s = "tts" -> "mix"
              [] s \in {"mix", "mux"} -> "move"

\* After pass 1 comes pass 2.
AfterMove == IF run.two /\ ~run.pass2 THEN "requeue" ELSE "publish"

Outcome == <<row, run, ended, ops, crashes>>

\* Leaving _run_job.
Ends(st, how) ==
    /\ row' = [row EXCEPT ![Me].st = st]
    /\ ended' = [ended EXCEPT ![Me] = how]
    /\ run' = None /\ pc' = "idle"
    /\ UNCHANGED <<ops, crashes>>

\* Checkpoint hit.  A video that is published already is not moved again.
Skip(s) ==
    /\ pc = s /\ Hit(s)
    /\ pc' = IF s = "mix" /\ file[Final] # None THEN AfterMove ELSE After(s)
    /\ UNCHANGED <<disk, made, faults, Outcome>>

\* Pass 2 without a checkpoint of pass 1: DONE, nothing made.
LeaveEarly(s) ==
    /\ pc = s /\ Skipped(s)
    /\ Ends("DONE", "early")
    /\ UNCHANGED <<disk, made, faults>>

\* The stage's process returns; it has written its own checkpoint.
Saving == [audio |-> "saveAudio", transcribe |-> "saveTranscribe",
           translate |-> "saveTranslate", tts |-> "saveTts", mix |-> "saveMix"]
Make(s) ==
    /\ pc = s /\ Runs(s)
    /\ file' = Completed(s)
    /\ Count(s)
    /\ Remember(s, TRUE, TRUE)
    /\ pc' = IF s = "mux" THEN "move" ELSE Saving[s]
    /\ UNCHANGED <<ckpt, faults, Outcome>>

\* write_ckpt()
Save(s) ==
    /\ s # "mux" /\ pc = Saving[s]
    /\ ckpt' = [ckpt EXCEPT ![Dir][s] = [path |-> Target(s), is |-> file[Target(s)]]]
    /\ pc' = After(s)
    /\ UNCHANGED <<file, notes, made, faults, Outcome>>

\* The phase raises, or its watchdog kills it.
Fault == faults < MaxFaults /\ faults' = faults + 1

\* A failed extraction, recognition, synthesis (killed) or fallback mux fails
\* the job.
FailRun(s) ==
    /\ pc = s /\ s \in {"audio", "transcribe", "tts", "mux"} /\ Runs(s)
    /\ Fault
    /\ CutOff(s, Cleaned(s))
    /\ Ends("FAILED", "failed")
    /\ UNCHANGED ckpt

\* A failed translation is left out; a translation of before is checkpointed.
TranslateFails ==
    /\ pc = "translate" /\ Runs("translate")
    /\ Fault
    /\ Count("translate")
    /\ pc' = IF file[Target("translate")] # None THEN Saving["translate"] ELSE "tts"
    /\ UNCHANGED <<disk, Outcome>>

\* A synthesis that raises leaves a track, if need be of silence.
Silent == [Cleaned("tts") EXCEPT ![Target("tts")] =
              IF @ = None THEN [by |-> Me, ver |-> Ver("tts"), q |-> "silence"] ELSE @]
SynthesisFails ==
    /\ pc = "tts" /\ Runs("tts")
    /\ Fault
    /\ CutOff("tts", Silent)
    /\ pc' = "mix"
    /\ UNCHANGED <<ckpt, Outcome>>

\* A failed mix falls back to muxing the track as it is.
MixFails ==
    /\ pc = "mix" /\ Runs("mix")
    /\ Fault
    /\ CutOff("mix", Cleaned("mix"))
    /\ pc' = "mux"
    /\ UNCHANGED <<ckpt, Outcome>>

Stage(s) == Skip(s) \/ LeaveEarly(s) \/ Make(s) \/ Save(s)
Fails == (\E s \in Stages : FailRun(s)) \/ TranslateFails \/ SynthesisFails \/ MixFails

-----------------------------------------------------------------------------
\* After the last stage.  NoWork: the disk without the job's work directory.

NoWork == [p \in Paths |-> IF p \in WorkPaths(Me) THEN None ELSE file[p]]

\* The video, if there is one, is moved to the output directory.
Move ==
    /\ pc = "move"
    /\ file' = IF file[<<"out", Me>>] = None THEN file
               ELSE [file EXCEPT ![Final] = file[<<"out", Me>>], ![<<"out", Me>>] = None]
    /\ pc' = AfterMove
    /\ UNCHANGED <<ckpt, notes, made, faults, Outcome>>

\* Mutant: the phase is not advanced.
NextPassSame(r) == [r EXCEPT !.st = "QUEUED", !.two = TRUE]

NextPass(r) == [r EXCEPT !.st = "QUEUED", !.phase = "pass2", !.two = TRUE]

\* Mutant: the end of pass 1 removes the work directory, like the end of a job.
RequeueCleans ==
    /\ pc = "requeue"
    /\ row' = [row EXCEPT ![Me] = NextPass(@)]
    /\ ended' = [ended EXCEPT ![Me] = "pass1"]
    /\ run' = None /\ pc' = "idle"
    /\ file' = NoWork
    /\ UNCHANGED <<ckpt, notes, made, ops, faults, crashes>>

\* End of pass 1: QUEUED for pass 2.
Requeue ==
    /\ pc = "requeue"
    /\ row' = [row EXCEPT ![Me] = NextPass(@)]
    /\ ended' = [ended EXCEPT ![Me] = "pass1"]
    /\ run' = None /\ pc' = "idle"
    /\ UNCHANGED <<disk, made, ops, faults, crashes>>

\* The checkpoint is moved to the published video.
Publish ==
    /\ pc = "publish"
    /\ ckpt' = [ckpt EXCEPT ![Dir]["mix"] =
                   IF file[Final] = None THEN None ELSE [path |-> Final, is |-> file[Final]]]
    /\ pc' = "finish"
    /\ UNCHANGED <<file, notes, made, faults, Outcome>>

Finish ==
    /\ pc = "finish"
    /\ row' = [row EXCEPT ![Me].st = "DONE"]
    /\ ended' = [ended EXCEPT ![Me] = IF run.pass2 THEN "pass2" ELSE "single"]
    /\ pc' = "notify"
    /\ UNCHANGED <<disk, run, made, ops, faults, crashes>>

\* After the notification: requests are cleared, the work directory removed.
Cleared(r) == [r EXCEPT !.req = FALSE, !.resynth = FALSE,
                        !.phase = IF @ = "pass2" THEN "done" ELSE @]
CleanUp ==
    /\ pc = "notify"
    /\ row' = [row EXCEPT ![Me] = Cleared(@)]
    /\ file' = NoWork
    /\ inner' = [inner EXCEPT ![Me] = [s \in Stages |-> None]]
    /\ run' = None /\ pc' = "idle"
    /\ UNCHANGED <<ckpt, cache, made, ended, ops, faults, crashes>>

Recovered ==
    [j \in Jobs |-> IF row[j].st = "RUNNING" THEN [row[j] EXCEPT !.st = "QUEUED"] ELSE row[j]]

\* Mutant: recovery removes the work directory of a run that was interrupted.
CrashCleans ==
    /\ crashes < MaxCrashes /\ crashes' = crashes + 1
    /\ file' = IF run = None THEN file ELSE NoWork
    /\ row' = Recovered
    /\ run' = None /\ pc' = "idle"
    /\ UNCHANGED <<ckpt, notes, made, ended, ops, faults>>

\* The server stops and starts again; the running stage is cut off, and
\* JobQueue.start() makes the RUNNING job QUEUED.
Crash ==
    /\ crashes < MaxCrashes /\ crashes' = crashes + 1
    /\ IF pc \in Stages /\ Runs(pc)
       THEN CutOff(pc, Cleaned(pc))
       ELSE UNCHANGED <<file, notes, made>>
    /\ row' = Recovered
    /\ run' = None /\ pc' = "idle"
    /\ UNCHANGED <<ckpt, ended, ops, faults>>

PipeNext ==
    \/ \E j \in Jobs : Submit(j) \/ Resynth(j) \/ RerunPass2(j) \/ StartRun(j)
    \/ \E s \in Stages : Stage(s)
    \/ Fails
    \/ Move \/ Requeue \/ Publish \/ Finish \/ CleanUp
    \/ Crash

PipeSpec == PipeInit /\ [][PipeNext]_pipeVars

\* A QUEUED job is taken up and a run goes on to its end.
PipeFairSpec ==
    /\ PipeSpec
    /\ \A j \in Jobs : SF_pipeVars(StartRun(j))
    /\ \A s \in Stages : WF_pipeVars(Stage(s))
    /\ WF_pipeVars(Move \/ Requeue \/ Publish \/ Finish \/ CleanUp)

-----------------------------------------------------------------------------

PipeTypeOK ==
    /\ row \in [Jobs -> Row]
    /\ file \in [Paths -> Content \cup {None}]
    /\ ckpt \in [Dirs -> [Stages -> Entry \cup {None}]]
    /\ inner \in [Jobs -> [Stages -> Content \cup {None}]]
    /\ run \in Run \cup {None}
    /\ pc \in {"idle", "move", "requeue", "publish", "finish", "notify"}
             \cup Stages \cup {Saving[s] : s \in DOMAIN Saving}
    /\ (pc = "idle") = (run = None)
    /\ pc \notin {"idle", "notify"} => row[Me].st = "RUNNING"
    /\ cache \in [Dirs -> [Cacheable -> Jobs \cup {None}]]
    /\ made \in [Jobs -> [Stages -> Nat]]
    /\ ended \in [Jobs -> {"never", "early", "failed", "pass1", "pass2", "single"}]
    /\ ops \in 0 .. MaxOps /\ faults \in 0 .. MaxFaults /\ crashes \in 0 .. MaxCrashes

VideoOf(j) == file[<<"final", DirOf[j]>>]

\* Of two passes: a run that ended well leaves the video of its own job with the
\* dialogue track synthesized last, whatever was skipped, retried or repeated on
\* the way: no checkpoint of an earlier pass or run outlives what it stands for.
\* (Jobs submitted with two passes, no two for one video.  A job of one pass that is
\* re-synthesized keeps its old video: README, section 6.)
LastTrackIsOut(j) ==
    row[j].st = "DONE" /\ ended[j] \in {"pass2", "single"}
        => VideoOf(j) # None /\ VideoOf(j).by = j /\ VideoOf(j).ver = made[j]["tts"]
OutputIsCurrent == \A j \in TwoPassJobs : LastTrackIsOut(j)

\* A video that was cut off while it was written is never published: a restart
\* or a kill of the mix leaves one behind, and the next run has to notice.
VideoIsWhole == \A d \in Dirs : file[<<"final", d>>] # None => file[<<"final", d>>].q # "torn"

\* Nor is recognition given audio that was cut off while it was extracted.
AudioIsWhole == pc = "transcribe" => file[<<"wav", Me>>].q = "whole"

\* A job submitted with two passes gets its second pass: a restart at any moment
\* costs it none of what pass 1 has to leave behind.  Only a request for a job
\* that is already cleaned up, or a failed translation, makes pass 2 do nothing.
PassTwoRuns == \A j \in Jobs : ended[j] = "early" => ops + faults > 0

\* A pass 2 that does nothing keeps the video of the run before it, also when a
\* restart interrupted a pass 2 that had removed it.
SkippedKeepsVideo ==
    [][\A j \in Jobs :
          ended'[j] = "early" /\ ended[j] \in {"pass1", "pass2", "single"}
              => VideoOf(j)' # None]_pipeVars

\* Every job comes to an end: no cycle of passes, recoveries and checkpoints.
JobEnds == \A j \in Jobs : row[j].st = "QUEUED" ~> row[j].st \in {"DONE", "FAILED"}

==============================================================================
