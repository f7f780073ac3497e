---------------------------- MODULE PipelineProofs ----------------------------
(***************************************************************************)
(* What the pipeline leaves on disk, for any number of jobs, requests,     *)
(* failures and restarts: the state keeps its type and every stage finds   *)
(* the file it is made from; and, as long as every video is dubbed by one  *)
(* job only, no video that was cut off is published, pass 2 finds what     *)
(* pass 1 made, a skipped pass 2 keeps the video, and the published video  *)
(* is the one synthesized last.                                            *)
(***************************************************************************)
EXTENDS Pipeline, TLAPS

Files == [Paths -> Content \cup {None}]

\* The files that the stage under way is made from, or has just made, are there.
Needs ==
    /\ pc \in {"saveAudio", "transcribe"} => file[<<"wav", Me>>] # None
    /\ pc \in {"saveTranscribe", "translate", "saveTranslate", "tts"} => file[<<"srt", Me>>] # None
    /\ pc = "saveTranslate" => file[<<"tr", Dir>>] # None
    /\ pc \in {"saveTts", "mix", "mux"} => file[<<"tts", Me>>] # None
    /\ pc = "saveMix" => file[<<"out", Me>>] # None

TypeInv == PipeTypeOK /\ Needs

-----------------------------------------------------------------------------
\* Paths and stages.

LEMMA Places ==
  ASSUME NEW j \in Jobs
  PROVE  /\ DirOf[j] \in Dirs
         /\ WorkPaths(j) = {<<"wav", j>>, <<"srt", j>>, <<"tts", j>>, <<"out", j>>}
         /\ WorkPaths(j) \subseteq Paths
         /\ <<"tr", DirOf[j]>> \in Paths /\ <<"final", DirOf[j]>> \in Paths
         /\ <<"tr", DirOf[j]>> \notin WorkPaths(j) /\ <<"final", DirOf[j]>> \notin WorkPaths(j)
  <1>1. DirOf[j] \in Dirs
    BY DEF Dirs
  <1>2. WorkPaths(j) = {<<"wav", j>>, <<"srt", j>>, <<"tts", j>>, <<"out", j>>}
    BY DEF WorkPaths
  <1>3. WorkPaths(j) \subseteq Paths
    BY DEF Paths
  <1>4. <<"tr", DirOf[j]>> \in Paths /\ <<"final", DirOf[j]>> \in Paths
    BY <1>1 DEF Paths
  <1> QED BY <1>1, <1>2, <1>3, <1>4

LEMMA Targets ==
  ASSUME NEW j \in Jobs
  PROVE  /\ TargetOf("audio", j) = <<"wav", j>>
         /\ TargetOf("transcribe", j) = <<"srt", j>>
         /\ TargetOf("translate", j) = <<"tr", DirOf[j]>>
         /\ TargetOf("tts", j) = <<"tts", j>>
         /\ TargetOf("mix", j) = <<"out", j>>
         /\ TargetOf("mux", j) = <<"out", j>>
  BY DEF TargetOf

LEMMA TargetsArePaths ==
  ASSUME NEW j \in Jobs, NEW s \in Stages
  PROVE  TargetOf(s, j) \in Paths /\ TargetOf(s, j) # <<"final", DirOf[j]>>
  <1>1. TargetOf(s, j) \in {<<"wav", j>>, <<"srt", j>>, <<"tr", DirOf[j]>>, <<"tts", j>>, <<"out", j>>}
    BY Targets DEF Stages
  <1>2. {<<"wav", j>>, <<"srt", j>>, <<"tts", j>>, <<"out", j>>} \subseteq Paths
    BY Places
  <1>3. <<"tr", DirOf[j]>> \in Paths
    BY Places
  <1> QED BY <1>1, <1>2, <1>3

LEMMA Savings ==
  /\ DOMAIN Saving = {"audio", "transcribe", "translate", "tts", "mix"}
  /\ Saving["audio"] = "saveAudio" /\ Saving["transcribe"] = "saveTranscribe"
  /\ Saving["translate"] = "saveTranslate" /\ Saving["tts"] = "saveTts"
  /\ Saving["mix"] = "saveMix"
  BY DEF Saving

PCs == {"idle", "move", "requeue", "publish", "finish", "notify",
        "audio", "transcribe", "translate", "tts", "mix", "mux",
        "saveAudio", "saveTranscribe", "saveTranslate", "saveTts", "saveMix"}

LEMMA PCsAre ==
  {"idle", "move", "requeue", "publish", "finish", "notify"}
     \cup Stages \cup {Saving[s] : s \in DOMAIN Saving} = PCs
  <1>1. {Saving[s] : s \in DOMAIN Saving}
          = {"saveAudio", "saveTranscribe", "saveTranslate", "saveTts", "saveMix"}
    BY Savings
  <1> QED BY <1>1 DEF Stages, PCs

LEMMA Running ==
  ASSUME PipeTypeOK, pc # "idle"
  PROVE  run \in Run /\ Me \in Jobs /\ Dir \in Dirs /\ run.pass2 \in BOOLEAN
  <1>1. run \in Run
    BY DEF PipeTypeOK
  <1> QED BY <1>1, Places DEF Run, Me, Dir

-----------------------------------------------------------------------------
\* What a stage reads and writes.

LEMMA CleanedIs ==
  ASSUME PipeTypeOK, pc # "idle", NEW s \in Stages
  PROVE  /\ Cleaned(s) \in Files
         /\ \A p \in Paths : Cleaned(s)[p] = file[p] \/ Cleaned(s)[p] = None
         /\ \A p \in Paths : p # Target(s) /\ p # Final => Cleaned(s)[p] = file[p]
         /\ s # "mix" \/ ~run.pass2 => \A p \in Paths : p # Target(s) => Cleaned(s)[p] = file[p]
  <1>1. \A p \in Paths : file[p] \in Content \cup {None}
    BY DEF PipeTypeOK
  <1>2. Cleaned(s) \in Files
    BY <1>1 DEF Cleaned, Files
  <1>3. \A p \in Paths : p # Target(s) /\ p # Final => Cleaned(s)[p] = file[p]
    BY DEF Cleaned
  <1>4. s # "mix" \/ ~run.pass2 => \A p \in Paths : p # Target(s) => Cleaned(s)[p] = file[p]
    BY DEF Cleaned
  <1> QED BY <1>2, <1>3, <1>4 DEF Cleaned

LEMMA SourceIsThere ==
  ASSUME TypeInv, NEW s \in Stages, pc = s, s # "audio"
  PROVE  file[Source(s)] \in Content
  <1> Me \in Jobs
    BY Running DEF TypeInv, Stages
  <1>1. \A p \in Paths : file[p] # None => file[p] \in Content
    BY DEF TypeInv, PipeTypeOK
  <1>2. CASE s = "transcribe"
    BY <1>1, <1>2, Places DEF Source, TypeInv, Needs
  <1>3. CASE s = "translate"
    BY <1>1, <1>3, Places DEF Source, TypeInv, Needs
  <1>4. CASE s = "tts"
    BY <1>1, <1>4, Places DEF Source, TypeInv, Needs, Dir
  <1>5. CASE s \in {"mix", "mux"}
    <2>1. Source(s) = <<"tts", Me>>
      BY <1>5 DEF Source
    <2> QED BY <1>1, <1>5, <2>1, Places DEF TypeInv, Needs
  <1> QED BY <1>2, <1>3, <1>4, <1>5 DEF Stages

LEMMA CachedIs ==
  ASSUME PipeTypeOK, pc # "idle", NEW s \in Stages
  PROVE  CachedFile(s) \in Content \cup {None}
  <1>1. CASE s \in Cacheable /\ cache[Dir][s] # None
    <2>1. cache[Dir][s] \in Jobs
      BY <1>1, Running DEF PipeTypeOK
    <2>2. TargetOf(s, cache[Dir][s]) \in Paths
      BY <2>1, TargetsArePaths
    <2> QED BY <1>1, <2>2, CleanedIs DEF CachedFile, Files
  <1>2. CASE ~(s \in Cacheable /\ cache[Dir][s] # None)
    BY <1>2 DEF CachedFile
  <1> QED BY <1>1, <1>2

\* What a stage makes itself.
Fresh(s) == [by |-> Me, ver |-> Ver(s), q |-> Quality(s)]

LEMMA FreshIs ==
  ASSUME TypeInv, NEW s \in Stages, pc = s
  PROVE  Fresh(s) \in Content /\ Fresh(s).q # "torn" /\ Ver(s) \in Nat
  <1> Me \in Jobs
    BY Running DEF TypeInv, Stages
  <1>1. Quality(s) \in {"whole", "short", "silence"}
    BY SourceIsThere DEF Quality, Content
  <1>2. Ver(s) \in Nat
    <2>1. CASE s \in {"mix", "mux"}
      BY <2>1, Places DEF TypeInv, PipeTypeOK, Needs, Ver, Content
    <2>2. CASE s \notin {"mix", "mux"}
      BY <2>2 DEF TypeInv, PipeTypeOK, Ver
    <2> QED BY <2>1, <2>2
  <1> QED BY <1>1, <1>2 DEF Fresh, Content

LEMMA ProductIs ==
  ASSUME TypeInv, NEW s \in Stages, pc = s
  PROVE  /\ Product(s) \in Content
         /\ New(s) => Product(s) = Fresh(s)
         /\ Completed(s) \in Files
         /\ Completed(s)[Target(s)] = Product(s)
         /\ \A p \in Paths : p # Target(s) => Completed(s)[p] = Cleaned(s)[p]
  <1> pc # "idle" /\ PipeTypeOK
    BY DEF TypeInv, Stages
  <1> Me \in Jobs
    BY Running
  <1>1. Target(s) \in Paths
    BY TargetsArePaths DEF Target
  <1>2. Cleaned(s) \in Files
    BY CleanedIs
  <1>3. Product(s) \in Content
    <2>1. CASE Kept(s)
      BY <2>1, <1>1, <1>2 DEF Product, Kept, Files
    <2>2. CASE ~Kept(s) /\ Copied(s)
      BY <2>2, CachedIs DEF Product, Copied
    <2>3. CASE ~Kept(s) /\ ~Copied(s)
      BY <2>3, FreshIs DEF Product, Fresh
    <2> QED BY <2>1, <2>2, <2>3
  <1>4. New(s) => Product(s) = Fresh(s)
    BY DEF New, Product, Fresh
  <1> QED BY <1>1, <1>2, <1>3, <1>4 DEF Completed, Files

\* The file cut off while it was written.
Torn(s) == [Product(s) EXCEPT !.q = "torn"]

\* What the process of a stage leaves, however it ends: its own file apart, the disk
\* as it was when it started to write; notes only of what it made itself.
Leaves(s) ==
    /\ file' \in Files
    /\ \A p \in Paths : p # Target(s) => file'[p] = Cleaned(s)[p]
    /\ \/ inner' = inner
       \/ (s \in Inner /\ New(s) /\ inner' = [inner EXCEPT ![Me][s] = Fresh(s)])
    /\ cache' = cache \/ (s \in Cacheable /\ cache' = [cache EXCEPT ![Dir][s] = Me])
    /\ made' = IF New(s) THEN [made EXCEPT ![Me][s] = @ + 1] ELSE made

LEMMA CountIs ==
  ASSUME PipeTypeOK, pc # "idle", NEW s \in Stages, Count(s)
  PROVE  made' = IF New(s) THEN [made EXCEPT ![Me][s] = @ + 1] ELSE made
  <1>1. CASE New(s)
    BY <1>1 DEF Count
  <1>2. CASE ~New(s)
    BY <1>2, Running DEF Count, PipeTypeOK
  <1> QED BY <1>1, <1>2

LEMMA RememberIs ==
  ASSUME TypeInv, NEW s \in Stages, pc = s, NEW i, NEW c, Remember(s, i, c)
  PROVE  /\ \/ inner' = inner
            \/ s \in Inner /\ New(s) /\ inner' = [inner EXCEPT ![Me][s] = Fresh(s)]
         /\ cache' = cache \/ (s \in Cacheable /\ cache' = [cache EXCEPT ![Dir][s] = Me])
  <1>1. CASE New(s)
    <2>1. Product(s) = Fresh(s)
      BY <1>1, ProductIs
    <2> QED BY <1>1, <2>1 DEF Remember
  <1>2. CASE ~New(s)
    BY <1>2 DEF Remember
  <1> QED BY <1>1, <1>2

LEMMA CutOffLeaves ==
  ASSUME TypeInv, NEW s \in Stages, pc = s, NEW f \in Files,
         \A p \in Paths : p # Target(s) => f[p] = Cleaned(s)[p],
         CutOff(s, f)
  PROVE  /\ Leaves(s)
         /\ file'[Target(s)] \in {f[Target(s)], Product(s), Torn(s)}
  <1> PipeTypeOK /\ pc # "idle"
    BY DEF TypeInv, Stages
  <1>1. made' = IF New(s) THEN [made EXCEPT ![Me][s] = @ + 1] ELSE made
    BY CountIs DEF CutOff
  <1>2. CASE file' = f /\ UNCHANGED notes
    <2>1. inner' = inner /\ cache' = cache
      BY <1>2 DEF notes
    <2> QED BY <1>1, <1>2, <2>1 DEF Leaves
  <1>3. CASE /\ file' = [Cleaned(s) EXCEPT ![Target(s)] = Torn(s)]
             /\ UNCHANGED notes
    <2>1. Cleaned(s) \in Files /\ Target(s) \in Paths
      BY CleanedIs, TargetsArePaths, Running DEF Target
    <2>2. Torn(s) \in Content
      BY ProductIs DEF Torn, Content
    <2>3. inner' = inner /\ cache' = cache
      BY <1>3 DEF notes
    <2>4. /\ file' \in Files
          /\ file'[Target(s)] = Torn(s)
          /\ \A p \in Paths : p # Target(s) => file'[p] = Cleaned(s)[p]
      BY <1>3, <2>1, <2>2 DEF Files
    <2> QED BY <1>1, <2>3, <2>4 DEF Leaves
  <1>4. CASE /\ file' = Completed(s)
             /\ \E i, c \in BOOLEAN : Remember(s, i, c)
    BY <1>1, <1>4, ProductIs, RememberIs DEF Leaves
  <1> QED BY <1>2, <1>3, <1>4 DEF CutOff, Torn

LEMMA StoppedLeaves ==
  ASSUME TypeInv, NEW s \in Stages, pc = s, CutOff(s, Cleaned(s))
  PROVE  /\ Leaves(s)
         /\ file'[Target(s)] \in {Cleaned(s)[Target(s)], Product(s), Torn(s)}
  <1> PipeTypeOK /\ pc # "idle"
    BY DEF TypeInv, Stages
  <1> QED BY CutOffLeaves, CleanedIs

LEMMA MakeLeaves ==
  ASSUME TypeInv, NEW s \in Stages, Make(s)
  PROVE  pc = s /\ Runs(s) /\ Leaves(s) /\ file'[Target(s)] = Product(s)
  <1> PipeTypeOK /\ pc # "idle" /\ pc = s
    BY DEF TypeInv, Stages, Make
  <1> QED BY CountIs, ProductIs, RememberIs DEF Make, Leaves

LEMMA SilentIs ==
  ASSUME TypeInv, pc = "tts"
  PROVE  /\ Silent \in Files
         /\ Silent[Target("tts")] \in Content
         /\ \A p \in Paths : p # Target("tts") => Silent[p] = Cleaned("tts")[p]
         /\ Cleaned("tts")[Target("tts")] = None
               => Silent[Target("tts")] = [by |-> Me, ver |-> Ver("tts"), q |-> "silence"]
  <1> PipeTypeOK /\ pc # "idle" /\ "tts" \in Stages
    BY DEF TypeInv, Stages
  <1>1. Cleaned("tts") \in Files /\ Target("tts") \in Paths /\ Me \in Jobs
    BY CleanedIs, TargetsArePaths, Running DEF Target
  <1>2. [by |-> Me, ver |-> Ver("tts"), q |-> "silence"] \in Content
    BY <1>1, FreshIs DEF Content
  <1>3. Silent = [Cleaned("tts") EXCEPT ![Target("tts")] =
                     IF Cleaned("tts")[Target("tts")] = None
                     THEN [by |-> Me, ver |-> Ver("tts"), q |-> "silence"]
                     ELSE Cleaned("tts")[Target("tts")]]
    BY <1>1 DEF Silent, Files
  <1> QED BY <1>1, <1>2, <1>3 DEF Files

LEMMA SynthesisFailsLeaves ==
  ASSUME TypeInv, SynthesisFails
  PROVE  /\ pc = "tts" /\ Leaves("tts")
         /\ file'[Target("tts")] \in {Silent[Target("tts")], Product("tts"), Torn("tts")}
  <1>1. pc = "tts" /\ "tts" \in Stages
    BY DEF SynthesisFails, Stages
  <1> QED BY <1>1, SilentIs, CutOffLeaves DEF SynthesisFails

LEMMA TranslateFailsLeaves ==
  ASSUME TypeInv, TranslateFails
  PROVE  pc = "translate" /\ Leaves("translate") /\ UNCHANGED disk
  <1> PipeTypeOK /\ pc # "idle" /\ pc = "translate" /\ "translate" \in Stages
    BY DEF TypeInv, Stages, TranslateFails
  <1>1. \A p \in Paths : p # Target("translate") => Cleaned("translate")[p] = file[p]
    BY CleanedIs
  <1>2. file \in Files
    BY DEF PipeTypeOK, Files
  <1>3. file' = file /\ inner' = inner /\ cache' = cache
    BY DEF TranslateFails, disk, notes
  <1>4. made' = IF New("translate") THEN [made EXCEPT ![Me]["translate"] = @ + 1] ELSE made
    BY CountIs DEF TranslateFails
  <1>5. Leaves("translate")
    BY <1>1, <1>2, <1>3, <1>4 DEF Leaves
  <1> QED BY <1>5 DEF TranslateFails

-----------------------------------------------------------------------------
\* Types.

DiskTypes ==
    /\ file \in Files
    /\ ckpt \in [Dirs -> [Stages -> Entry \cup {None}]]
    /\ inner \in [Jobs -> [Stages -> Content \cup {None}]]
    /\ cache \in [Dirs -> [Cacheable -> Jobs \cup {None}]]
    /\ made \in [Jobs -> [Stages -> Nat]]

ControlTypes ==
    /\ row \in [Jobs -> Row]
    /\ run \in Run \cup {None}
    /\ pc \in PCs
    /\ (pc = "idle") = (run = None)
    /\ pc \notin {"idle", "notify"} => row[Me].st = "RUNNING"
    /\ ended \in [Jobs -> {"never", "early", "failed", "pass1", "pass2", "single"}]
    /\ ops \in 0 .. MaxOps /\ faults \in 0 .. MaxFaults /\ crashes \in 0 .. MaxCrashes

LEMMA TypeParts == PipeTypeOK => DiskTypes /\ ControlTypes
  BY PCsAre DEF PipeTypeOK, DiskTypes, ControlTypes, Files

LEMMA PartsType == DiskTypes' /\ ControlTypes' => PipeTypeOK'
  BY PCsAre DEF PipeTypeOK, DiskTypes, ControlTypes, Files, Me

LEMMA SameDisk ==
  ASSUME DiskTypes, UNCHANGED <<disk, made>>
  PROVE  DiskTypes'
  BY DEF DiskTypes, disk, notes

LEMMA LeavesTypes ==
  ASSUME PipeTypeOK, NEW s \in Stages, pc = s, Fresh(s) \in Content, Leaves(s), UNCHANGED ckpt
  PROVE  DiskTypes'
  <1> DiskTypes /\ Me \in Jobs /\ Dir \in Dirs
    BY TypeParts, Running DEF Stages
  <1>1. inner' \in [Jobs -> [Stages -> Content \cup {None}]]
    <2>1. CASE inner' = inner
      BY <2>1 DEF DiskTypes
    <2>2. CASE inner' = [inner EXCEPT ![Me][s] = Fresh(s)]
      BY <2>2 DEF DiskTypes
    <2> QED BY <2>1, <2>2 DEF Leaves
  <1>2. cache' \in [Dirs -> [Cacheable -> Jobs \cup {None}]]
    <2>1. CASE cache' = cache
      BY <2>1 DEF DiskTypes
    <2>2. CASE s \in Cacheable /\ cache' = [cache EXCEPT ![Dir][s] = Me]
      BY <2>2 DEF DiskTypes
    <2> QED BY <2>1, <2>2 DEF Leaves
  <1>3. made' \in [Jobs -> [Stages -> Nat]]
    <2>1. CASE New(s)
      BY <2>1 DEF DiskTypes, Leaves
    <2>2. CASE ~New(s)
      BY <2>2 DEF DiskTypes, Leaves
    <2> QED BY <2>1, <2>2
  <1> QED BY <1>1, <1>2, <1>3 DEF DiskTypes, Leaves

\* A step inside a run.
LEMMA GoesTypes ==
  ASSUME ControlTypes, UNCHANGED Outcome, pc \notin {"idle", "notify"}, pc' \in PCs \ {"idle"},
         faults' \in 0 .. MaxFaults
  PROVE  ControlTypes'
  BY DEF ControlTypes, Outcome, Me

\* The end of a run.
LEMMA EndsTypes ==
  ASSUME ControlTypes, pc # "idle", NEW st \in {"DONE", "FAILED"}, NEW how \in {"early", "failed"},
         Ends(st, how), faults' \in 0 .. MaxFaults
  PROVE  ControlTypes'
  <1>1. Me \in Jobs
    BY DEF ControlTypes, Run, Me
  <1>2. row' \in [Jobs -> Row]
    BY <1>1 DEF ControlTypes, Ends, Row
  <1>3. ended' \in [Jobs -> {"never", "early", "failed", "pass1", "pass2", "single"}]
    BY <1>1 DEF ControlTypes, Ends
  <1> QED BY <1>2, <1>3 DEF ControlTypes, Ends, PCs

\* What a request makes of a row, and what the start of a run does.
LEMMA Requested ==
  ASSUME ControlTypes, NEW j \in Jobs
  PROVE  /\ Submit(j) => row' = [row EXCEPT ![j] = [row[j] EXCEPT !.st = "QUEUED"]]
         /\ Resynth(j) => row' = [row EXCEPT ![j] = [row[j] EXCEPT !.st = "QUEUED", !.resynth = TRUE]]
         /\ RerunPass2(j) => row' = [row EXCEPT ![j] =
                 [row[j] EXCEPT !.st = "QUEUED", !.req = TRUE, !.two = TRUE]]
         /\ StartRun(j) => row' = [row EXCEPT ![j] =
                 [row[j] EXCEPT !.st = "RUNNING", !.phase = PhaseOf(row[j])]]
  <1> row \in [Jobs -> Row]
    BY DEF ControlTypes
  <1>1. Submit(j) => row' = [row EXCEPT ![j] = [row[j] EXCEPT !.st = "QUEUED"]]
    BY DEF Submit
  <1>2. Resynth(j) => row' = [row EXCEPT ![j] = [row[j] EXCEPT !.st = "QUEUED", !.resynth = TRUE]]
    BY DEF Resynth
  <1>3. RerunPass2(j) => row' = [row EXCEPT ![j] =
                 [row[j] EXCEPT !.st = "QUEUED", !.req = TRUE, !.two = TRUE]]
    BY DEF RerunPass2
  <1>4. StartRun(j) => row' = [row EXCEPT ![j] =
                 [row[j] EXCEPT !.st = "RUNNING", !.phase = PhaseOf(row[j])]]
    BY DEF StartRun
  <1> QED BY <1>1, <1>2, <1>3, <1>4

LEMMA RowsChanged ==
  ASSUME NEW r \in Row, NEW st \in {"none", "QUEUED", "RUNNING", "DONE", "FAILED"},
         NEW phase \in {"pass1", "pass2", "done"}
  PROVE  /\ [r EXCEPT !.st = st] \in Row
         /\ [r EXCEPT !.st = st, !.resynth = TRUE] \in Row
         /\ [r EXCEPT !.st = st, !.req = TRUE, !.two = TRUE] \in Row
         /\ [r EXCEPT !.st = st, !.phase = phase] \in Row
         /\ [r EXCEPT !.st = st, !.phase = phase, !.two = TRUE] \in Row
  BY DEF Row

LEMMA RowsCleared ==
  ASSUME NEW r \in Row, NEW phase \in {"pass1", "pass2", "done"}
  PROVE  [r EXCEPT !.req = FALSE, !.resynth = FALSE, !.phase = phase] \in Row
  BY DEF Row

LEMMA RowIs ==
  ASSUME ControlTypes, NEW j \in Jobs
  PROVE  /\ row[j].st \in {"none", "QUEUED", "RUNNING", "DONE", "FAILED"}
         /\ row[j].phase \in {"pass1", "pass2", "done"}
         /\ row[j].req \in BOOLEAN /\ row[j].resynth \in BOOLEAN /\ row[j].two \in BOOLEAN
         /\ PhaseOf(row[j]) \in {"pass1", "pass2", "done"}
  BY DEF ControlTypes, Row, PhaseOf

LEMMA HandlerTypes ==
  ASSUME TypeInv, NEW j \in Jobs, Submit(j) \/ Resynth(j) \/ RerunPass2(j)
  PROVE  TypeInv'
  <1> ControlTypes /\ DiskTypes
    BY TypeParts DEF TypeInv
  <1>1. HandlerRuns /\ ops' \in 0 .. MaxOps
    BY PipelineAssumption DEF Submit, Resynth, RerunPass2, Requests, ControlTypes
  <1>2. row' \in [Jobs -> Row]
    <2>1. row \in [Jobs -> Row] /\ row[j] \in Row
      BY DEF ControlTypes
    <2>2. PICK r \in Row : row' = [row EXCEPT ![j] = r]
      <3>1. CASE Submit(j)
        BY <3>1, <2>1, Requested, RowsChanged
      <3>2. CASE Resynth(j)
        BY <3>2, <2>1, Requested, RowsChanged
      <3>3. CASE RerunPass2(j)
        BY <3>3, <2>1, Requested, RowsChanged
      <3> QED BY <3>1, <3>2, <3>3
    <2> QED BY <2>1, <2>2
  <1>3. ControlTypes'
    BY <1>1, <1>2 DEF HandlerRuns, ControlTypes
  <1>4. DiskTypes'
    BY <1>1, SameDisk DEF HandlerRuns
  <1>5. Needs'
    BY <1>1 DEF HandlerRuns, Needs, TypeInv, disk
  <1> QED BY <1>3, <1>4, <1>5, PartsType DEF TypeInv

LEMMA StartRunTypes ==
  ASSUME TypeInv, NEW j \in Jobs, StartRun(j)
  PROVE  TypeInv'
  <1> ControlTypes /\ DiskTypes
    BY TypeParts DEF TypeInv
  <1>1. row' \in [Jobs -> Row]
    <2> DEFINE r == [row[j] EXCEPT !.st = "RUNNING", !.phase = PhaseOf(row[j])]
    <2>1. r \in Row
      <3> row[j] \in Row
        BY DEF ControlTypes
      <3> QED BY RowIs, RowsChanged
    <2>2. row' = [row EXCEPT ![j] = r]
      BY Requested
    <2> HIDE DEF r
    <2> QED BY <2>1, <2>2 DEF ControlTypes
  <1>2. run' \in Run /\ run' # None /\ run'.job = j
    <2>1. run' = [job |-> j, pass2 |-> PhaseOf(row[j]) = "pass2", two |-> row[j].two,
                  resynth |-> row[j].resynth]
      BY DEF StartRun
    <2>2. run' \in Run
      BY <2>1, RowIs DEF Run
    <2> QED BY <2>1, <2>2, NoneAssumption
  <1>3. row'[j].st = "RUNNING"
    BY DEF StartRun, ControlTypes, Row
  <1>4. pc' = "audio" /\ pc' \in PCs
    BY DEF StartRun, PCs
  <1>5. ControlTypes'
    BY <1>1, <1>2, <1>3, <1>4 DEF StartRun, ControlTypes, Me
  <1>6. DiskTypes'
    BY SameDisk DEF StartRun
  <1>7. Needs'
    BY <1>4 DEF Needs
  <1> QED BY <1>5, <1>6, <1>7, PartsType DEF TypeInv

LEMMA NextPc ==
  /\ After("audio") = "transcribe" /\ After("transcribe") = "translate"
  /\ After("translate") = "tts" /\ After("tts") = "mix"
  /\ After("mix") = "move" /\ After("mux") = "move"
  /\ AfterMove \in {"requeue", "publish"}
  BY DEF After, AfterMove

LEMMA SkipTypes ==
  ASSUME TypeInv, NEW s \in Stages, Skip(s)
  PROVE  TypeInv'
  <1> ControlTypes /\ DiskTypes /\ pc = s
    BY TypeParts DEF TypeInv, Skip
  <1> Me \in Jobs /\ run' = run /\ file' = file
    BY Running DEF TypeInv, Stages, Skip, Outcome, disk
  <1>1. pc' \in {AfterMove, After(s)} /\ (pc' = AfterMove => s = "mix" \/ AfterMove = After(s))
    BY DEF Skip
  <1>2. s \notin {"mix", "mux"} => file[Target(s)] # None /\ pc' = After(s)
    BY DEF Skip, Hit
  <1>3. ControlTypes'
    BY <1>1, NextPc, GoesTypes DEF Skip, Stages, PCs, ControlTypes
  <1>4. DiskTypes'
    BY SameDisk DEF Skip
  <1>5. Needs'
    <2>1. CASE s = "audio"
      BY <2>1, <1>2, NextPc, Targets DEF Needs, Target, Me
    <2>2. CASE s = "transcribe"
      BY <2>2, <1>2, NextPc, Targets DEF Needs, Target, Me
    <2>3. CASE s = "translate"
      BY <2>3, <1>2, NextPc DEF Needs, TypeInv, Me
    <2>4. CASE s = "tts"
      BY <2>4, <1>2, NextPc, Targets DEF Needs, Target, Me
    <2>5. CASE s \in {"mix", "mux"}
      BY <2>5, <1>1, NextPc DEF Needs
    <2> QED BY <2>1, <2>2, <2>3, <2>4, <2>5 DEF Stages
  <1> QED BY <1>3, <1>4, <1>5, PartsType DEF TypeInv

LEMMA LeaveEarlyTypes ==
  ASSUME TypeInv, NEW s \in Stages, LeaveEarly(s)
  PROVE  TypeInv'
  <1> ControlTypes /\ DiskTypes /\ pc # "idle"
    BY TypeParts DEF TypeInv, LeaveEarly, Stages
  <1>1. ControlTypes'
    BY EndsTypes DEF LeaveEarly, ControlTypes
  <1>2. DiskTypes'
    BY SameDisk DEF LeaveEarly
  <1>3. Needs'
    BY DEF Needs, LeaveEarly, Ends
  <1> QED BY <1>1, <1>2, <1>3, PartsType DEF TypeInv

LEMMA MakeTypes ==
  ASSUME TypeInv, NEW s \in Stages, Make(s)
  PROVE  TypeInv'
  <1> ControlTypes /\ DiskTypes /\ pc = s /\ Leaves(s) /\ PipeTypeOK
    BY TypeParts, MakeLeaves DEF TypeInv
  <1> Me \in Jobs /\ Dir \in Dirs /\ run' = run
    BY Running DEF Stages, Make, Outcome
  <1>1. file'[Target(s)] # None
    BY MakeLeaves, ProductIs, NoneAssumption
  <1>2. pc' = IF s = "mux" THEN "move" ELSE Saving[s]
    BY DEF Make
  <1>3. ControlTypes'
    BY <1>2, Savings, GoesTypes DEF Make, Stages, PCs, ControlTypes
  <1>4. DiskTypes'
    BY FreshIs, LeavesTypes DEF Make
  <1>5. Needs'
    <2>1. CASE s = "audio"
      BY <2>1, <1>1, <1>2, Savings, Targets DEF Needs, Target, Me
    <2>2. CASE s = "transcribe"
      BY <2>2, <1>1, <1>2, Savings, Targets DEF Needs, Target, Me
    <2>3. CASE s = "translate"
      <3>1. file'[<<"tr", Dir>>] # None
        BY <2>3, <1>1, Targets DEF Target, Dir
      <3>2. file'[<<"srt", Me>>] = file[<<"srt", Me>>]
        <4>1. <<"srt", Me>> \in Paths /\ <<"srt", Me>> # Target("translate")
          BY Targets, Places DEF Target
        <4>2. Cleaned("translate")[<<"srt", Me>>] = file[<<"srt", Me>>]
          BY <2>3, <4>1, CleanedIs
        <4> QED BY <2>3, <4>1, <4>2 DEF Leaves
      <3> QED BY <2>3, <1>2, <3>1, <3>2, Savings DEF Needs, TypeInv, Me, Dir
    <2>4. CASE s = "tts"
      BY <2>4, <1>1, <1>2, Savings, Targets DEF Needs, Target, Me
    <2>5. CASE s = "mix"
      BY <2>5, <1>1, <1>2, Savings, Targets DEF Needs, Target, Me
    <2>6. CASE s = "mux"
      BY <2>6, <1>2 DEF Needs
    <2> QED BY <2>1, <2>2, <2>3, <2>4, <2>5, <2>6 DEF Stages
  <1> QED BY <1>3, <1>4, <1>5, PartsType DEF TypeInv

LEMMA SavedIs ==
  ASSUME TypeInv, NEW s \in Stages, Save(s)
  PROVE  /\ s # "mux" /\ pc = Saving[s] /\ pc \notin {"idle", "notify"} \cup Stages
         /\ pc' = After(s)
         /\ file[Target(s)] \in Content /\ Target(s) \in Paths
  <1> s \in {"audio", "transcribe", "translate", "tts", "mix"} /\ pc = Saving[s] /\ pc' = After(s)
    BY DEF Save, Stages
  <1>1. pc \notin {"idle", "notify"} \cup Stages
    BY Savings DEF Stages
  <1> Me \in Jobs
    BY <1>1, Running DEF TypeInv
  <1>2. file[Target(s)] # None
    <2>1. CASE s = "audio"
      BY <2>1, Savings, Targets DEF TypeInv, Needs, Target
    <2>2. CASE s = "transcribe"
      BY <2>2, Savings, Targets DEF TypeInv, Needs, Target
    <2>3. CASE s = "translate"
      BY <2>3, Savings, Targets DEF TypeInv, Needs, Target, Dir
    <2>4. CASE s = "tts"
      BY <2>4, Savings, Targets DEF TypeInv, Needs, Target
    <2>5. CASE s = "mix"
      BY <2>5, Savings, Targets DEF TypeInv, Needs, Target
    <2> QED BY <2>1, <2>2, <2>3, <2>4, <2>5
  <1>3. Target(s) \in Paths
    BY TargetsArePaths DEF Target
  <1> QED BY <1>1, <1>2, <1>3 DEF TypeInv, PipeTypeOK

LEMMA SaveTypes ==
  ASSUME TypeInv, NEW s \in Stages, Save(s)
  PROVE  TypeInv'
  <1> ControlTypes /\ DiskTypes /\ PipeTypeOK
    BY TypeParts DEF TypeInv
  <1>1. s # "mux" /\ pc = Saving[s] /\ pc \notin {"idle", "notify"} /\ pc' = After(s)
    BY SavedIs
  <1> Me \in Jobs /\ Dir \in Dirs /\ run' = run /\ file' = file
    BY <1>1, Running DEF Save, Outcome
  <1>2. ControlTypes'
    BY <1>1, NextPc, GoesTypes DEF Save, Stages, PCs, ControlTypes
  <1>3. DiskTypes'
    <2>1. [path |-> Target(s), is |-> file[Target(s)]] \in Entry
      BY SavedIs DEF Entry
    <2> QED BY <2>1 DEF Save, DiskTypes, notes
  <1>4. Needs'
    <2>1. CASE s = "audio"
      BY <2>1, <1>1, NextPc, Savings DEF TypeInv, Needs, Me
    <2>2. CASE s = "transcribe"
      BY <2>2, <1>1, NextPc, Savings DEF TypeInv, Needs, Me
    <2>3. CASE s = "translate"
      BY <2>3, <1>1, NextPc, Savings DEF TypeInv, Needs, Me
    <2>4. CASE s = "tts"
      BY <2>4, <1>1, NextPc, Savings DEF TypeInv, Needs, Me
    <2>5. CASE s = "mix"
      BY <2>5, <1>1, NextPc DEF Needs
    <2> QED BY <1>1, <2>1, <2>2, <2>3, <2>4, <2>5 DEF Stages
  <1> QED BY <1>2, <1>3, <1>4, PartsType DEF TypeInv

LEMMA FaultCounts == ControlTypes /\ Fault => faults' \in 0 .. MaxFaults
  BY PipelineAssumption DEF ControlTypes, Fault

LEMMA FailRunTypes ==
  ASSUME TypeInv, NEW s \in Stages, FailRun(s)
  PROVE  TypeInv'
  <1> ControlTypes /\ DiskTypes /\ PipeTypeOK /\ pc = s /\ pc # "idle"
    BY TypeParts DEF TypeInv, FailRun, Stages
  <1>1. ControlTypes'
    BY EndsTypes, FaultCounts DEF FailRun
  <1>2. DiskTypes'
    BY FreshIs, StoppedLeaves, LeavesTypes DEF FailRun
  <1>3. Needs'
    BY DEF Needs, FailRun, Ends
  <1> QED BY <1>1, <1>2, <1>3, PartsType DEF TypeInv

LEMMA TranslateFailsTypes ==
  ASSUME TypeInv, TranslateFails
  PROVE  TypeInv'
  <1> ControlTypes /\ DiskTypes /\ PipeTypeOK /\ pc = "translate" /\ "translate" \in Stages
    BY TypeParts DEF TypeInv, TranslateFails, Stages
  <1>1. pc' = IF file[Target("translate")] # None THEN "saveTranslate" ELSE "tts"
    BY Savings DEF TranslateFails
  <1>2. ControlTypes'
    BY <1>1, GoesTypes, FaultCounts DEF TranslateFails, PCs
  <1>3. DiskTypes'
    BY FreshIs, TranslateFailsLeaves, LeavesTypes DEF disk
  <1>4. Needs'
    BY <1>1, Running, Targets DEF TranslateFails, Needs, TypeInv, Target, Dir, Me, disk, Outcome
  <1> QED BY <1>2, <1>3, <1>4, PartsType DEF TypeInv

LEMMA SynthesisFailsTypes ==
  ASSUME TypeInv, SynthesisFails
  PROVE  TypeInv'
  <1> ControlTypes /\ DiskTypes /\ PipeTypeOK /\ pc = "tts" /\ "tts" \in Stages
    BY TypeParts DEF TypeInv, SynthesisFails, Stages
  <1> Me \in Jobs /\ run' = run /\ pc' = "mix"
    BY Running DEF SynthesisFails, Outcome
  <1>1. ControlTypes'
    BY GoesTypes, FaultCounts DEF SynthesisFails, PCs
  <1>2. DiskTypes'
    BY FreshIs, SynthesisFailsLeaves, LeavesTypes DEF SynthesisFails
  <1>3. file'[Target("tts")] \in Content
    <2>1. Torn("tts") \in Content
      BY ProductIs DEF Torn, Content
    <2> QED BY <2>1, ProductIs, SilentIs, SynthesisFailsLeaves
  <1>4. Needs'
    BY <1>3, Targets, NoneAssumption DEF Needs, Target, Me
  <1> QED BY <1>1, <1>2, <1>4, PartsType DEF TypeInv

LEMMA MixFailsIs ==
  ASSUME TypeInv, MixFails
  PROVE  /\ pc = "mix" /\ "mix" \in Stages /\ pc' = "mux" /\ Runs("mix")
         /\ Leaves("mix") /\ UNCHANGED <<ckpt, Outcome>>
         /\ file'[Target("mix")] \in {Cleaned("mix")[Target("mix")], Product("mix"), Torn("mix")}
  <1> pc = "mix" /\ "mix" \in Stages
    BY DEF MixFails, Stages
  <1> QED BY StoppedLeaves DEF MixFails

LEMMA MixFailsTypes ==
  ASSUME TypeInv, MixFails
  PROVE  TypeInv'
  <1> ControlTypes /\ DiskTypes /\ PipeTypeOK /\ pc = "mix" /\ "mix" \in Stages
    BY TypeParts, MixFailsIs DEF TypeInv
  <1> Me \in Jobs /\ run' = run /\ pc' = "mux"
    BY Running, MixFailsIs DEF Outcome
  <1>1. ControlTypes'
    BY MixFailsIs, GoesTypes, FaultCounts DEF MixFails, PCs
  <1>2. DiskTypes'
    BY FreshIs, MixFailsIs, LeavesTypes
  <1>3. file'[<<"tts", Me>>] = file[<<"tts", Me>>]
    <2>1. <<"tts", Me>> \in Paths /\ <<"tts", Me>> # Target("mix") /\ <<"tts", Me>> # Final
      <3>1. <<"tts", Me>> \in Paths
        BY Places
      <3>2. Target("mix") = <<"out", Me>>
        BY Targets DEF Target
      <3> QED BY <3>1, <3>2 DEF Final
    <2>2. Cleaned("mix")[<<"tts", Me>>] = file[<<"tts", Me>>]
      BY <2>1, CleanedIs
    <2> QED BY <2>1, <2>2, MixFailsIs DEF Leaves
  <1>4. Needs'
    BY <1>3 DEF Needs, TypeInv, Me
  <1> QED BY <1>1, <1>2, <1>4, PartsType DEF TypeInv

LEMMA FinalIs ==
  ASSUME PipeTypeOK, pc # "idle"
  PROVE  /\ Final \in Paths /\ <<"out", Me>> \in Paths /\ Final # <<"out", Me>>
         /\ Final \notin WorkPaths(Me)
  BY Running, Places DEF Final, Dir

LEMMA MoveTypes ==
  ASSUME TypeInv, Move
  PROVE  TypeInv'
  <1> ControlTypes /\ DiskTypes /\ PipeTypeOK /\ pc = "move"
    BY TypeParts DEF TypeInv, Move
  <1>1. ControlTypes'
    BY GoesTypes, NextPc DEF Move, PCs, ControlTypes
  <1>2. file' \in Files
    BY FinalIs DEF Move, DiskTypes, Files
  <1>3. DiskTypes'
    BY <1>2 DEF Move, DiskTypes, notes
  <1>4. Needs'
    BY NextPc DEF Move, Needs
  <1> QED BY <1>1, <1>3, <1>4, PartsType DEF TypeInv

LEMMA RequeueRow ==
  ASSUME ControlTypes, pc # "idle"
  PROVE  /\ Requeue => row' = [row EXCEPT ![Me] =
               [row[Me] EXCEPT !.st = "QUEUED", !.phase = "pass2", !.two = TRUE]]
         /\ CleanUp => row' = [row EXCEPT ![Me] = Cleared(row[Me])]
         /\ Cleared(row[Me]) = [row[Me] EXCEPT !.req = FALSE, !.resynth = FALSE,
                 !.phase = IF row[Me].phase = "pass2" THEN "done" ELSE row[Me].phase]
  <1> Me \in Jobs /\ row \in [Jobs -> Row]
    BY DEF ControlTypes, Run, Me
  <1> row[Me] \in Row
    OBVIOUS
  <1>1. Requeue => row' = [row EXCEPT ![Me] =
               [row[Me] EXCEPT !.st = "QUEUED", !.phase = "pass2", !.two = TRUE]]
    BY DEF Requeue, NextPass
  <1>2. CleanUp => row' = [row EXCEPT ![Me] = Cleared(row[Me])]
    BY DEF CleanUp
  <1>3. Cleared(row[Me]) = [row[Me] EXCEPT !.req = FALSE, !.resynth = FALSE,
                 !.phase = IF row[Me].phase = "pass2" THEN "done" ELSE row[Me].phase]
    BY DEF Cleared, Row
  <1> QED BY <1>1, <1>2, <1>3

LEMMA RequeueTypes ==
  ASSUME TypeInv, Requeue
  PROVE  TypeInv'
  <1> ControlTypes /\ DiskTypes /\ PipeTypeOK /\ pc = "requeue"
    BY TypeParts DEF TypeInv, Requeue
  <1> Me \in Jobs /\ row[Me] \in Row
    BY Running DEF ControlTypes
  <1>1. row' \in [Jobs -> Row]
    BY RequeueRow, RowsChanged DEF ControlTypes
  <1>2. ended' \in [Jobs -> {"never", "early", "failed", "pass1", "pass2", "single"}]
    BY DEF Requeue, ControlTypes
  <1>3. ControlTypes'
    BY <1>1, <1>2 DEF Requeue, ControlTypes, PCs
  <1>4. DiskTypes'
    BY SameDisk DEF Requeue
  <1>5. Needs'
    BY DEF Requeue, Needs
  <1> QED BY <1>3, <1>4, <1>5, PartsType DEF TypeInv

LEMMA PublishTypes ==
  ASSUME TypeInv, Publish
  PROVE  TypeInv'
  <1> ControlTypes /\ DiskTypes /\ PipeTypeOK /\ pc = "publish"
    BY TypeParts DEF TypeInv, Publish
  <1>1. ControlTypes'
    BY GoesTypes DEF Publish, PCs, ControlTypes
  <1>2. ckpt' \in [Dirs -> [Stages -> Entry \cup {None}]]
    <2> DEFINE e == IF file[Final] = None THEN None ELSE [path |-> Final, is |-> file[Final]]
    <2>1. e \in Entry \cup {None}
      BY FinalIs DEF Entry, DiskTypes, Files
    <2>2. ckpt' = [ckpt EXCEPT ![Dir]["mix"] = e]
      BY DEF Publish
    <2> HIDE DEF e
    <2> QED BY <2>1, <2>2 DEF DiskTypes
  <1>3. DiskTypes'
    BY <1>2 DEF Publish, DiskTypes, notes
  <1>4. Needs'
    BY DEF Publish, Needs
  <1> QED BY <1>1, <1>3, <1>4, PartsType DEF TypeInv

LEMMA FinishTypes ==
  ASSUME TypeInv, Finish
  PROVE  TypeInv'
  <1> ControlTypes /\ DiskTypes /\ PipeTypeOK /\ pc = "finish"
    BY TypeParts DEF TypeInv, Finish
  <1> Me \in Jobs /\ row[Me] \in Row
    BY Running DEF ControlTypes
  <1>1. row' \in [Jobs -> Row]
    BY RowsChanged DEF Finish, ControlTypes
  <1>2. ended' \in [Jobs -> {"never", "early", "failed", "pass1", "pass2", "single"}]
    BY DEF Finish, ControlTypes
  <1>3. ControlTypes'
    BY <1>1, <1>2 DEF Finish, ControlTypes, PCs
  <1>4. DiskTypes'
    BY SameDisk DEF Finish
  <1>5. Needs'
    BY DEF Finish, Needs
  <1> QED BY <1>3, <1>4, <1>5, PartsType DEF TypeInv

LEMMA CleanUpTypes ==
  ASSUME TypeInv, CleanUp
  PROVE  TypeInv'
  <1> ControlTypes /\ DiskTypes /\ PipeTypeOK /\ pc = "notify"
    BY TypeParts DEF TypeInv, CleanUp
  <1> Me \in Jobs /\ row[Me] \in Row
    BY Running DEF ControlTypes
  <1>1. row' \in [Jobs -> Row]
    <2>1. Cleared(row[Me]) \in Row
      <3>1. (IF row[Me].phase = "pass2" THEN "done" ELSE row[Me].phase) \in {"pass1", "pass2", "done"}
        BY RowIs
      <3> QED BY <3>1, RequeueRow, RowsCleared
    <2> QED BY <2>1, RequeueRow DEF ControlTypes
  <1>2. ControlTypes'
    BY <1>1 DEF CleanUp, ControlTypes, PCs
  <1>3. file' \in Files
    BY DEF CleanUp, NoWork, DiskTypes, Files
  <1>4. inner' \in [Jobs -> [Stages -> Content \cup {None}]]
    BY DEF CleanUp, DiskTypes
  <1>5. DiskTypes'
    BY <1>3, <1>4 DEF CleanUp, DiskTypes
  <1>6. Needs'
    BY DEF CleanUp, Needs
  <1> QED BY <1>2, <1>5, <1>6, PartsType DEF TypeInv

LEMMA CrashTypes ==
  ASSUME TypeInv, Crash
  PROVE  TypeInv'
  <1> ControlTypes /\ DiskTypes /\ PipeTypeOK
    BY TypeParts DEF TypeInv
  <1>1. row' \in [Jobs -> Row]
    <2>1. \A j \in Jobs : Recovered[j] \in Row
      BY RowsChanged DEF Recovered, ControlTypes
    <2> QED BY <2>1 DEF Crash, Recovered
  <1>2. crashes' \in 0 .. MaxCrashes
    BY PipelineAssumption DEF Crash, ControlTypes
  <1>3. ControlTypes'
    BY <1>1, <1>2 DEF Crash, ControlTypes, PCs
  <1>4. DiskTypes'
    <2>1. CASE pc \in Stages /\ Runs(pc)
      BY <2>1, FreshIs, StoppedLeaves, LeavesTypes DEF Crash
    <2>2. CASE ~(pc \in Stages /\ Runs(pc))
      BY <2>2, SameDisk DEF Crash, disk
    <2> QED BY <2>1, <2>2
  <1>5. Needs'
    BY DEF Crash, Needs
  <1> QED BY <1>3, <1>4, <1>5, PartsType DEF TypeInv

LEMMA InitTypes == PipeInit => TypeInv
  <1> SUFFICES ASSUME PipeInit PROVE TypeInv
    OBVIOUS
  <1>1. DiskTypes
    BY DEF PipeInit, DiskTypes, Files
  <1>2. ControlTypes
    <2>1. row \in [Jobs -> Row]
      BY DEF PipeInit, Row
    <2> QED BY <2>1, PipelineAssumption DEF PipeInit, ControlTypes, PCs
  <1>3. PipeTypeOK
    BY <1>1, <1>2, PCsAre DEF PipeTypeOK, DiskTypes, ControlTypes, Files
  <1>4. Needs
    BY DEF PipeInit, Needs
  <1> QED BY <1>3, <1>4 DEF TypeInv

LEMMA NextTypes ==
  ASSUME TypeInv, [PipeNext]_pipeVars
  PROVE  TypeInv'
  <1>1. CASE \E j \in Jobs : Submit(j) \/ Resynth(j) \/ RerunPass2(j) \/ StartRun(j)
    BY <1>1, HandlerTypes, StartRunTypes
  <1>2. CASE \E s \in Stages : Stage(s)
    BY <1>2, SkipTypes, LeaveEarlyTypes, MakeTypes, SaveTypes DEF Stage
  <1>3. CASE Fails
    BY <1>3, FailRunTypes, TranslateFailsTypes, SynthesisFailsTypes, MixFailsTypes DEF Fails
  <1>4. CASE Move \/ Requeue \/ Publish \/ Finish \/ CleanUp
    BY <1>4, MoveTypes, RequeueTypes, PublishTypes, FinishTypes, CleanUpTypes
  <1>5. CASE Crash
    BY <1>5, CrashTypes
  <1>6. CASE UNCHANGED pipeVars
    BY <1>6 DEF pipeVars, disk, notes, TypeInv, PipeTypeOK, Needs, Me, Dir
  <1> QED BY <1>1, <1>2, <1>3, <1>4, <1>5, <1>6 DEF PipeNext

\* The state keeps its type and a stage that starts finds what it is made from,
\* whatever was skipped, copied, cut off or left out before it: for any jobs,
\* also jobs that share an output directory.
THEOREM PipelineTypes == PipeSpec => [](PipeTypeOK /\ Needs)
  <1>1. PipeInit => TypeInv
    BY InitTypes
  <1>2. TypeInv /\ [PipeNext]_pipeVars => TypeInv'
    BY NextTypes
  <1>3. TypeInv => PipeTypeOK /\ Needs
    BY DEF TypeInv
  <1> QED BY <1>1, <1>2, <1>3, PTL DEF PipeSpec

-----------------------------------------------------------------------------
\* From here on every video is dubbed by one job: two jobs that share a
\* checkpoint do find each other's entries.

OneJobPerVideo == \A j, k \in Jobs : DirOf[j] = DirOf[k] => j = k

\* A checkpoint names the job's own files, and never the fallback mux.
Entries ==
    \A j \in Jobs :
        /\ \A s \in Stages \ {"mix", "mux"} :
              ckpt[DirOf[j]][s] # None => ckpt[DirOf[j]][s].path = TargetOf(s, j)
        /\ ckpt[DirOf[j]]["mix"] # None
              => ckpt[DirOf[j]]["mix"].path \in {<<"out", j>>, <<"final", DirOf[j]>>}
        /\ ckpt[DirOf[j]]["mux"] = None

Caches == \A j \in Jobs, s \in Cacheable : cache[DirOf[j]][s] \in {None, j}

IsWhole(c) == c # None => c.q # "torn"

\* No video that was cut off is published, noted by the fallback mux or recorded
\* in the checkpoint of the mix: whoever trusts one of them gets a whole video.
Wholes ==
    \A j \in Jobs :
        /\ IsWhole(file[<<"final", DirOf[j]>>])
        /\ IsWhole(inner[j]["mux"])
        /\ ckpt[DirOf[j]]["mix"] # None => IsWhole(ckpt[DirOf[j]]["mix"].is)

\* What is about to be moved is there and whole, and then the video is there.
Moving == pc \in {"saveMix", "move"} => file[<<"out", Me>>] # None /\ IsWhole(file[<<"out", Me>>])
Moved == pc \in {"requeue", "publish", "finish", "notify"} => file[Final] # None

VideoInv == Entries /\ Caches /\ Wholes /\ Moving /\ Moved

\* What a step does to the disk.
Writes(s) == pc = s /\ Runs(s) /\ Leaves(s) /\ UNCHANGED ckpt

LEMMA DiskSteps ==
  ASSUME TypeInv, [PipeNext]_pipeVars
  PROVE  \/ UNCHANGED disk
         \/ \E s \in Stages : Save(s) \/ Writes(s)
         \/ Move \/ Publish \/ CleanUp
  <1>1. CASE \E j \in Jobs : Submit(j) \/ Resynth(j) \/ RerunPass2(j) \/ StartRun(j)
    BY <1>1 DEF Submit, Resynth, RerunPass2, Requests, HandlerRuns, StartRun
  <1>2. ASSUME NEW s \in Stages, Stage(s)
        PROVE  UNCHANGED disk \/ Save(s) \/ Writes(s)
    <2>1. CASE Skip(s) \/ LeaveEarly(s)
      BY <2>1 DEF Skip, LeaveEarly
    <2>2. CASE Make(s)
      BY <2>2, MakeLeaves DEF Make, Writes
    <2> QED BY <1>2, <2>1, <2>2 DEF Stage
  <1>3. CASE Fails
    <2>1. ASSUME NEW s \in Stages, FailRun(s) PROVE Writes(s)
      BY <2>1, StoppedLeaves DEF FailRun, Writes
    <2>2. CASE TranslateFails
      BY <2>2 DEF TranslateFails
    <2>3. CASE SynthesisFails
      BY <2>3, SynthesisFailsLeaves DEF SynthesisFails, Writes, Stages
    <2>4. CASE MixFails
      BY <2>4, MixFailsIs DEF Writes
    <2> QED BY <1>3, <2>1, <2>2, <2>3, <2>4 DEF Fails, Stages
  <1>4. CASE Requeue \/ Finish
    BY <1>4 DEF Requeue, Finish
  <1>5. CASE Crash
    <2>1. CASE pc \in Stages /\ Runs(pc)
      BY <1>5, <2>1, StoppedLeaves DEF Crash, Writes
    <2>2. CASE ~(pc \in Stages /\ Runs(pc))
      BY <1>5, <2>2 DEF Crash, disk, notes
    <2> QED BY <2>1, <2>2
  <1>6. CASE UNCHANGED pipeVars
    BY <1>6 DEF pipeVars, disk, notes
  <1> QED BY <1>1, <1>2, <1>3, <1>4, <1>5, <1>6 DEF PipeNext

\* A stage writes its own file, and removes at most others.
LEMMA WritesOwn ==
  ASSUME TypeInv, NEW s \in Stages, Writes(s)
  PROVE  /\ \A p \in Paths : p # Target(s) => file'[p] \in {file[p], None}
         /\ \A p \in Paths : p # Target(s) /\ p # Final => file'[p] = file[p]
         /\ Target(s) = TargetOf(s, Me) /\ Me \in Jobs /\ pc # "idle" /\ PipeTypeOK
  <1> pc # "idle" /\ PipeTypeOK
    BY DEF Writes, Stages, TypeInv
  <1> Me \in Jobs
    BY Running
  <1>1. \A p \in Paths : p # Target(s) => file'[p] = Cleaned(s)[p]
    BY DEF Writes, Leaves
  <1>2. \A p \in Paths : Cleaned(s)[p] = file[p] \/ Cleaned(s)[p] = None
    BY CleanedIs
  <1>3. \A p \in Paths : p # Target(s) /\ p # Final => Cleaned(s)[p] = file[p]
    BY CleanedIs
  <1> QED BY <1>1, <1>2, <1>3 DEF Target

LEMMA EntriesKept ==
  ASSUME OneJobPerVideo, TypeInv, Entries, [PipeNext]_pipeVars
  PROVE  Entries'
  <1>1. CASE ckpt' = ckpt
    BY <1>1 DEF Entries
  <1>2. ASSUME NEW s \in Stages, Save(s) PROVE Entries'
    <2>1. s # "mux" /\ pc # "idle" /\ Me \in Jobs /\ Dir = DirOf[Me]
      BY <1>2, SavedIs, Running DEF TypeInv, Dir
    <2>2. ckpt' = [ckpt EXCEPT ![DirOf[Me]][s] = [path |-> TargetOf(s, Me), is |-> file[Target(s)]]]
      BY <1>2, <2>1 DEF Save, Target
    <2>3. TargetOf("mix", Me) = <<"out", Me>>
      BY <2>1, Targets
    <2>4. \A j \in Jobs : DirOf[j] \in Dirs /\ DirOf[j] \in DOMAIN ckpt /\ Stages = DOMAIN ckpt[DirOf[j]]
      BY Places DEF TypeInv, PipeTypeOK
    <2> SUFFICES ASSUME NEW j \in Jobs
                 PROVE  /\ \A t \in Stages \ {"mix", "mux"} :
                              ckpt'[DirOf[j]][t] # None => ckpt'[DirOf[j]][t].path = TargetOf(t, j)
                        /\ ckpt'[DirOf[j]]["mix"] # None
                              => ckpt'[DirOf[j]]["mix"].path \in {<<"out", j>>, <<"final", DirOf[j]>>}
                        /\ ckpt'[DirOf[j]]["mux"] = None
      BY DEF Entries
    <2>5. CASE j = Me
      BY <2>1, <2>2, <2>3, <2>4, <2>5 DEF Entries
    <2>6. CASE j # Me
      <3>1. DirOf[j] # DirOf[Me]
        BY <2>1, <2>6 DEF OneJobPerVideo
      <3>2. ckpt'[DirOf[j]] = ckpt[DirOf[j]]
        BY <2>2, <2>4, <3>1
      <3> QED BY <3>2 DEF Entries
    <2> QED BY <2>5, <2>6
  <1>3. CASE Publish
    <2>1. pc # "idle" /\ Me \in Jobs /\ Dir = DirOf[Me] /\ Final = <<"final", DirOf[Me]>>
      BY <1>3, Running DEF TypeInv, Publish, Dir, Final
    <2>2. ckpt' = [ckpt EXCEPT ![DirOf[Me]]["mix"] =
                     IF file[Final] = None THEN None ELSE [path |-> Final, is |-> file[Final]]]
      BY <1>3, <2>1 DEF Publish
    <2>3. \A j \in Jobs : DirOf[j] \in DOMAIN ckpt /\ Stages = DOMAIN ckpt[DirOf[j]]
      BY Places DEF TypeInv, PipeTypeOK
    <2> SUFFICES ASSUME NEW j \in Jobs
                 PROVE  /\ \A t \in Stages \ {"mix", "mux"} :
                              ckpt'[DirOf[j]][t] # None => ckpt'[DirOf[j]][t].path = TargetOf(t, j)
                        /\ ckpt'[DirOf[j]]["mix"] # None
                              => ckpt'[DirOf[j]]["mix"].path \in {<<"out", j>>, <<"final", DirOf[j]>>}
                        /\ ckpt'[DirOf[j]]["mux"] = None
      BY DEF Entries
    <2>4. CASE j = Me
      BY <2>1, <2>2, <2>3, <2>4 DEF Entries, Stages
    <2>5. CASE j # Me
      <3>1. DirOf[j] # DirOf[Me]
        BY <2>1, <2>5 DEF OneJobPerVideo
      <3>2. ckpt'[DirOf[j]] = ckpt[DirOf[j]]
        BY <2>2, <2>3, <3>1
      <3> QED BY <3>2 DEF Entries
    <2> QED BY <2>4, <2>5
  <1>4. CASE UNCHANGED disk \/ Move \/ CleanUp \/ \E s \in Stages : Writes(s)
    BY <1>1, <1>4 DEF disk, Move, CleanUp, Writes
  <1> QED BY <1>2, <1>3, <1>4, DiskSteps

LEMMA CachesKept ==
  ASSUME OneJobPerVideo, TypeInv, Caches, [PipeNext]_pipeVars
  PROVE  Caches'
  <1>1. CASE cache' = cache
    BY <1>1 DEF Caches
  <1>2. ASSUME NEW s \in Stages, Writes(s), cache' # cache PROVE Caches'
    <2>1. Me \in Jobs /\ cache' = [cache EXCEPT ![DirOf[Me]][s] = Me]
      BY <1>2, WritesOwn DEF Writes, Leaves, Dir
    <2> SUFFICES ASSUME NEW j \in Jobs, NEW t \in Cacheable PROVE cache'[DirOf[j]][t] \in {None, j}
      BY DEF Caches
    <2>2. CASE DirOf[j] = DirOf[Me]
      BY <2>1, <2>2, Places DEF Caches, OneJobPerVideo, TypeInv, PipeTypeOK
    <2>3. CASE DirOf[j] # DirOf[Me]
      BY <2>1, <2>3, Places DEF Caches, TypeInv, PipeTypeOK
    <2> QED BY <2>2, <2>3
  <1>3. CASE UNCHANGED disk \/ Move \/ CleanUp \/ Publish \/ \E s \in Stages : Save(s)
    BY <1>1, <1>3 DEF disk, notes, Move, CleanUp, Publish, Save
  <1> QED BY <1>1, <1>2, <1>3, DiskSteps

\* The mix is made anew whenever it is made; the fallback mux may keep what it
\* noted before.
LEMMA VideoProduct ==
  ASSUME TypeInv, Wholes, NEW s \in {"mix", "mux"}, pc = s
  PROVE  /\ Product(s) \in Content /\ Product(s).q # "torn"
         /\ s = "mix" => Product(s) = Fresh(s)
         /\ Product(s) # Fresh(s) => Product(s) = Cleaned(s)[Target(s)]
  <1> s \in Stages /\ pc # "idle" /\ PipeTypeOK
    BY DEF Stages, TypeInv
  <1> Me \in Jobs
    BY Running
  <1>1. ~Copied(s)
    BY DEF Copied, CachedFile, Cacheable
  <1>2. CASE Kept(s)
    <2>1. s = "mux" /\ Product(s) = inner[Me]["mux"] /\ Product(s) = Cleaned(s)[Target(s)]
      BY <1>2 DEF Kept, Inner, Product
    <2> QED BY <2>1, ProductIs, NoneAssumption DEF Wholes, IsWhole
  <1>3. CASE ~Kept(s)
    BY <1>1, <1>3, ProductIs, FreshIs DEF New
  <1> QED BY <1>2, <1>3

LEMMA WholesKept ==
  ASSUME OneJobPerVideo, TypeInv, VideoInv, [PipeNext]_pipeVars
  PROVE  Wholes'
  <1> Wholes
    BY DEF VideoInv
  <1>1. CASE UNCHANGED disk
    BY <1>1 DEF Wholes, disk, notes
  <1>2. ASSUME NEW s \in Stages, Writes(s) PROVE Wholes'
    <2> SUFFICES ASSUME NEW j \in Jobs
                 PROVE  /\ IsWhole(file'[<<"final", DirOf[j]>>])
                        /\ IsWhole(inner'[j]["mux"])
      BY <1>2 DEF Wholes, Writes
    <2>1. Me \in Jobs /\ Target(s) = TargetOf(s, Me)
      BY <1>2, WritesOwn
    <2>2. <<"final", DirOf[j]>> \in Paths /\ <<"final", DirOf[j]>> # Target(s)
      <3>1. Target(s) \in {<<"wav", Me>>, <<"srt", Me>>, <<"tr", DirOf[Me]>>, <<"tts", Me>>, <<"out", Me>>}
        BY <2>1, Targets DEF Stages
      <3>2. <<"final", DirOf[j]>> \in Paths
        BY Places
      <3> QED BY <3>1, <3>2
    <2>3. file'[<<"final", DirOf[j]>>] \in {file[<<"final", DirOf[j]>>], None}
      BY <1>2, <2>2, WritesOwn
    <2>4. IsWhole(file'[<<"final", DirOf[j]>>])
      BY <2>3 DEF Wholes, IsWhole
    <2>5. inner'[j]["mux"] = inner[j]["mux"] \/ inner'[j]["mux"] = Fresh(s)
      <3>1. CASE inner' = inner
        BY <3>1
      <3>2. CASE inner' = [inner EXCEPT ![Me][s] = Fresh(s)]
        BY <3>2, <2>1 DEF TypeInv, PipeTypeOK, Stages
      <3> QED BY <1>2, <3>1, <3>2 DEF Writes, Leaves
    <2>6. Fresh(s).q # "torn"
      BY <1>2, FreshIs DEF Writes
    <2> QED BY <2>4, <2>5, <2>6 DEF Wholes, IsWhole
  <1>3. ASSUME NEW s \in Stages, Save(s) PROVE Wholes'
    <2>1. Me \in Jobs /\ Dir = DirOf[Me] /\ pc # "idle"
      BY <1>3, SavedIs, Running DEF TypeInv, Dir
    <2> DEFINE e == [path |-> Target(s), is |-> file[Target(s)]]
    <2>2. ckpt' = [ckpt EXCEPT ![DirOf[Me]][s] = e]
      BY <1>3, <2>1 DEF Save
    <2>3. s = "mix" => IsWhole(e.is)
      BY <1>3, <2>1, Savings, Targets DEF Save, Target, VideoInv, Moving
    <2> HIDE DEF e
    <2>4. \A j \in Jobs : ckpt'[DirOf[j]]["mix"] = ckpt[DirOf[j]]["mix"]
                          \/ (s = "mix" /\ ckpt'[DirOf[j]]["mix"] = e)
      BY <2>1, <2>2, Places DEF TypeInv, PipeTypeOK, Stages
    <2>5. file' = file /\ inner' = inner
      BY <1>3 DEF Save, notes
    <2> QED BY <2>3, <2>4, <2>5 DEF Wholes
  <1>4. CASE Move
    <2>1. pc = "move" /\ Me \in Jobs /\ Final = <<"final", DirOf[Me]>> /\ PipeTypeOK
      BY <1>4, Running DEF TypeInv, Move, Final, Dir
    <2>2. \A j \in Jobs : file'[<<"final", DirOf[j]>>]
                             \in {file[<<"final", DirOf[j]>>], file[<<"out", Me>>]}
      <3>1. CASE file[<<"out", Me>>] = None
        BY <1>4, <3>1 DEF Move
      <3>2. CASE file[<<"out", Me>>] # None
        <4>1. file' = [file EXCEPT ![Final] = file[<<"out", Me>>], ![<<"out", Me>>] = None]
          BY <1>4, <3>2 DEF Move
        <4>2. \A j \in Jobs : <<"final", DirOf[j]>> \in Paths /\ <<"final", DirOf[j]>> # <<"out", Me>>
          BY Places
        <4> QED BY <4>1, <4>2 DEF TypeInv, PipeTypeOK
      <3> QED BY <3>1, <3>2
    <2>3. ckpt' = ckpt /\ inner' = inner
      BY <1>4 DEF Move, notes
    <2> QED BY <2>1, <2>2, <2>3 DEF Wholes, IsWhole, VideoInv, Moving
  <1>5. CASE Publish
    <2>1. Me \in Jobs /\ Dir = DirOf[Me] /\ pc # "idle" /\ Final = <<"final", DirOf[Me]>>
      BY <1>5, Running DEF Publish, TypeInv, Dir, Final
    <2> DEFINE e == IF file[Final] = None THEN None ELSE [path |-> Final, is |-> file[Final]]
    <2>2. ckpt' = [ckpt EXCEPT ![DirOf[Me]]["mix"] = e]
      BY <1>5, <2>1 DEF Publish
    <2>3. e # None => IsWhole(e.is)
      BY <2>1 DEF Wholes
    <2> HIDE DEF e
    <2>4. \A j \in Jobs : ckpt'[DirOf[j]]["mix"] \in {ckpt[DirOf[j]]["mix"], e}
      BY <2>1, <2>2, Places DEF TypeInv, PipeTypeOK, Stages
    <2>5. file' = file /\ inner' = inner
      BY <1>5 DEF Publish, notes
    <2> QED BY <2>3, <2>4, <2>5 DEF Wholes
  <1>6. CASE CleanUp
    <2>1. Me \in Jobs
      BY <1>6, Running DEF CleanUp, TypeInv
    <2>2. \A j \in Jobs : file'[<<"final", DirOf[j]>>] \in {file[<<"final", DirOf[j]>>], None}
      BY <1>6, Places DEF CleanUp, NoWork
    <2>3. \A j \in Jobs : inner'[j]["mux"] \in {inner[j]["mux"], None}
      BY <1>6, <2>1 DEF CleanUp, TypeInv, PipeTypeOK, Stages
    <2>4. ckpt' = ckpt
      BY <1>6 DEF CleanUp
    <2> QED BY <2>2, <2>3, <2>4 DEF Wholes, IsWhole
  <1> QED BY <1>1, <1>2, <1>3, <1>4, <1>5, <1>6, DiskSteps

\* A mix that is skipped is there, or its video is published.
LEMMA MixHit ==
  ASSUME TypeInv, Entries, Wholes, pc # "idle", Hit("mix"), file[Final] = None
  PROVE  file[<<"out", Me>>] # None /\ IsWhole(file[<<"out", Me>>])
  <1>1. Me \in Jobs /\ Dir = DirOf[Me] /\ Final = <<"final", DirOf[Me]>>
    BY Running DEF TypeInv, Dir, Final
  <1> DEFINE e == ckpt[DirOf[Me]]["mix"]
  <1>2. e # None /\ file[e.path] = e.is
    BY <1>1 DEF Hit, Done
  <1>3. e \in Entry
    <2>1. "mix" \in Stages /\ DirOf[Me] \in Dirs
      BY <1>1, Places DEF Stages
    <2>2. e \in Entry \cup {None}
      BY <2>1, TypeParts DEF TypeInv, DiskTypes
    <2> QED BY <1>2, <2>2
  <1>4. e.is # None
    BY <1>3, NoneAssumption DEF Entry
  <1>5. e.path = <<"out", Me>>
    BY <1>1, <1>2, <1>4 DEF Entries
  <1> QED BY <1>1, <1>2, <1>4, <1>5 DEF Wholes

LEMMA NoMuxHit ==
  ASSUME TypeInv, Entries, pc # "idle"
  PROVE  ~Hit("mux")
  BY Running DEF TypeInv, Entries, Hit, Done, Dir

\* Steps that leave the control in a place of no interest.
LEMMA MovingKept ==
  ASSUME OneJobPerVideo, TypeInv, VideoInv, [PipeNext]_pipeVars
  PROVE  Moving' /\ Moved'
  <1> Entries /\ Wholes /\ Moving /\ Moved
    BY DEF VideoInv
  <1>1. CASE \E j \in Jobs : Submit(j) \/ Resynth(j) \/ RerunPass2(j) \/ StartRun(j)
    <2>1. CASE UNCHANGED <<file, run, pc>>
      BY <2>1 DEF Moving, Moved, Me, Final, Dir
    <2>2. CASE pc' = "audio"
      BY <2>2 DEF Moving, Moved
    <2> QED BY <1>1, <2>1, <2>2
            DEF Submit, Resynth, RerunPass2, Requests, HandlerRuns, StartRun, disk
  <1>2. ASSUME NEW s \in Stages, Skip(s) PROVE Moving' /\ Moved'
    <2>1. pc = s /\ Hit(s) /\ file' = file /\ run' = run /\ pc # "idle"
      BY <1>2 DEF Skip, Outcome, disk, Stages
    <2>2. CASE s \notin {"mix", "mux"}
      BY <1>2, <2>2, NextPc DEF Skip, Stages, Moving, Moved
    <2>3. CASE s = "mix"
      <3>1. CASE file[Final] = None
        BY <1>2, <2>1, <2>3, <3>1, NextPc, MixHit DEF Skip, Moving, Moved, Me
      <3>2. CASE file[Final] # None
        BY <1>2, <2>1, <2>3, <3>2, NextPc DEF Skip, Moving, Moved, Final, Dir, Me
      <3> QED BY <3>1, <3>2
    <2>4. CASE s = "mux"
      BY <2>1, <2>4, NoMuxHit
    <2> QED BY <2>2, <2>3, <2>4
  <1>3. ASSUME NEW s \in Stages, LeaveEarly(s) \/ FailRun(s) PROVE Moving' /\ Moved'
    BY <1>3 DEF LeaveEarly, FailRun, Ends, Moving, Moved
  <1>4. ASSUME NEW s \in Stages, Make(s) PROVE Moving' /\ Moved'
    <2>1. pc = s /\ Writes(s) /\ file'[Target(s)] = Product(s) /\ run' = run
          /\ pc' = IF s = "mux" THEN "move" ELSE Saving[s]
      BY <1>4, MakeLeaves DEF Make, Writes, Outcome
    <2>2. CASE s \notin {"mix", "mux"}
      BY <2>1, <2>2, Savings DEF Stages, Moving, Moved
    <2>3. CASE s \in {"mix", "mux"}
      <3>1. Target(s) = <<"out", Me>>
        BY <2>1, <2>3, WritesOwn, Targets
      <3>2. Product(s) # None /\ IsWhole(Product(s))
        BY <2>1, <2>3, VideoProduct, NoneAssumption DEF IsWhole
      <3>3. pc' \in {"saveMix", "move"}
        BY <2>1, <2>3, Savings
      <3> QED BY <2>1, <3>1, <3>2, <3>3 DEF Moving, Moved, Me
    <2> QED BY <2>2, <2>3
  <1>5. ASSUME NEW s \in Stages, Save(s) PROVE Moving' /\ Moved'
    <2>1. pc = Saving[s] /\ pc' = After(s) /\ file' = file /\ run' = run /\ s # "mux"
      BY <1>5, SavedIs DEF Save, Outcome
    <2>2. CASE s = "mix"
      BY <2>1, <2>2, Savings, NextPc DEF Moving, Moved, Me
    <2>3. CASE s # "mix"
      BY <2>1, <2>3, NextPc DEF Stages, Moving, Moved
    <2> QED BY <2>2, <2>3
  <1>6. CASE TranslateFails \/ SynthesisFails \/ MixFails
    BY <1>6, Savings DEF TranslateFails, SynthesisFails, MixFails, Moving, Moved
  <1>7. CASE Move
    <2>1. pc = "move" /\ pc' = AfterMove /\ run' = run /\ PipeTypeOK
      BY <1>7 DEF Move, Outcome, TypeInv
    <2>2. file' = [file EXCEPT ![Final] = file[<<"out", Me>>], ![<<"out", Me>>] = None]
          /\ file[<<"out", Me>>] # None
      BY <1>7, <2>1 DEF Move, Moving
    <2>3. file'[Final] # None
      BY <2>1, <2>2, FinalIs DEF PipeTypeOK
    <2> QED BY <2>1, <2>3, NextPc DEF Moving, Moved, Final, Dir, Me
  <1>8. CASE Publish \/ Finish
    BY <1>8 DEF Publish, Finish, Outcome, disk, Moving, Moved, Final, Dir, Me
  <1>9. CASE Requeue \/ CleanUp \/ Crash
    BY <1>9 DEF Requeue, CleanUp, Crash, Moving, Moved
  <1>10. CASE UNCHANGED pipeVars
    BY <1>10 DEF pipeVars, Moving, Moved, Final, Dir, Me
  <1> QED BY <1>1, <1>2, <1>3, <1>4, <1>5, <1>6, <1>7, <1>8, <1>9, <1>10
          DEF PipeNext, Stage, Fails

LEMMA VideoInvInductive ==
  ASSUME OneJobPerVideo
  PROVE  /\ PipeInit => VideoInv
         /\ TypeInv /\ VideoInv /\ [PipeNext]_pipeVars => VideoInv'
  <1>1. ASSUME PipeInit PROVE VideoInv
    <2>1. Entries /\ Caches
      BY <1>1, Places DEF PipeInit, Entries, Caches, Stages
    <2>2. Wholes
      BY <1>1, Places DEF PipeInit, Wholes, IsWhole, Stages
    <2> QED BY <1>1, <2>1, <2>2 DEF PipeInit, VideoInv, Moving, Moved
  <1>2. ASSUME TypeInv, VideoInv, [PipeNext]_pipeVars PROVE VideoInv'
    BY <1>2, EntriesKept, CachesKept, WholesKept, MovingKept DEF VideoInv
  <1> QED BY <1>1, <1>2

\* A video that was cut off while it was written is never published, whatever
\* stages were killed, failed or interrupted by restarts, in any number
\* (_run_job's moves, the mix's checkpoint, the fallback mux's own), when no two
\* jobs dub one video.
THEOREM PublishedIsWhole == OneJobPerVideo => (PipeSpec => []VideoIsWhole)
  <1> SUFFICES ASSUME OneJobPerVideo PROVE PipeSpec => []VideoIsWhole
    OBVIOUS
  <1>1. PipeInit => TypeInv /\ VideoInv
    BY InitTypes, VideoInvInductive
  <1>2. TypeInv /\ VideoInv /\ [PipeNext]_pipeVars => (TypeInv /\ VideoInv)'
    BY NextTypes, VideoInvInductive
  <1>3. VideoInv => VideoIsWhole
    BY DEF VideoInv, Wholes, IsWhole, VideoIsWhole, Dirs
  <1> QED BY <1>1, <1>2, <1>3, PTL DEF PipeSpec

-----------------------------------------------------------------------------
\* The two passes.

\* What pass 2 asks for: the job's own file, as it was recorded.
Ready(j, s) ==
    /\ file[TargetOf(s, j)] # None
    /\ ckpt[DirOf[j]][s] # None
    /\ ckpt[DirOf[j]][s].is = file[TargetOf(s, j)]
ReadyAll(j) == \A s \in PassOneOnly : Ready(j, s)

LEMMA PassOneStages ==
  /\ PassOneOnly \subseteq Stages \ {"mix", "mux", "tts"}
  /\ "audio" \in PassOneOnly /\ "transcribe" \in PassOneOnly /\ "translate" \in PassOneOnly
  BY DEF PassOneOnly, Stages

LEMMA ReadyHits ==
  ASSUME TypeInv, Entries, pc # "idle", NEW s \in PassOneOnly
  PROVE  Ready(Me, s) <=> Hit(s)
  <1>1. Me \in Jobs /\ Dir = DirOf[Me]
    BY Running DEF TypeInv, Dir
  <1>2. s \in Stages \ {"mix", "mux", "tts"}
    BY PassOneStages
  <1>3. ckpt[DirOf[Me]][s] # None => ckpt[DirOf[Me]][s].path = TargetOf(s, Me)
    BY <1>1, <1>2 DEF Entries
  <1>4. Hit(s) <=> Done(s) /\ file[Target(s)] # None
    BY <1>2 DEF Hit
  <1> QED BY <1>1, <1>3, <1>4 DEF Ready, Done, Target

\* No stage of one job writes what another stage, or job, recorded.
LEMMA OthersTarget ==
  ASSUME OneJobPerVideo, NEW j \in Jobs, NEW k \in Jobs, NEW s \in PassOneOnly, NEW t \in Stages,
         s # t \/ j # k
  PROVE  TargetOf(s, j) # TargetOf(t, k)
  <1>1. DirOf[j] = DirOf[k] => j = k
    BY DEF OneJobPerVideo
  <1>2. CASE s = "audio"
    BY <1>2, Targets DEF Stages
  <1>3. CASE s = "transcribe"
    BY <1>3, Targets DEF Stages
  <1>4. CASE s = "translate"
    BY <1>1, <1>4, Targets DEF Stages
  <1> QED BY <1>2, <1>3, <1>4 DEF PassOneOnly

LEMMA ReadyPaths ==
  ASSUME OneJobPerVideo, NEW j \in Jobs, NEW k \in Jobs, NEW s \in PassOneOnly
  PROVE  /\ TargetOf(s, j) \in Paths
         /\ TargetOf(s, j) # <<"out", k>> /\ TargetOf(s, j) # <<"final", DirOf[k]>>
         /\ j # k => TargetOf(s, j) \notin WorkPaths(k)
  <1>1. TargetOf(s, j) \in {<<"wav", j>>, <<"srt", j>>, <<"tr", DirOf[j]>>}
    BY Targets DEF PassOneOnly
  <1>2. TargetOf(s, j) \in Paths
    BY PassOneStages, TargetsArePaths
  <1>3. WorkPaths(k) = {<<"wav", k>>, <<"srt", k>>, <<"tts", k>>, <<"out", k>>}
    BY Places
  <1> QED BY <1>1, <1>2, <1>3

\* What pass 1 recorded stays until the job is cleaned up.
LEMMA ReadyStays ==
  ASSUME OneJobPerVideo, TypeInv, Entries, [PipeNext]_pipeVars,
         NEW j \in Jobs, NEW s \in PassOneOnly, Ready(j, s), CleanUp => j # Me
  PROVE  Ready(j, s)'
  <1> s \in Stages
    BY PassOneStages
  <1>1. CASE UNCHANGED disk
    BY <1>1 DEF Ready, disk
  <1>2. ASSUME NEW t \in Stages, Save(t) PROVE Ready(j, s)'
    <2>1. Me \in Jobs /\ Dir = DirOf[Me] /\ file' = file
          /\ ckpt' = [ckpt EXCEPT ![DirOf[Me]][t] = [path |-> Target(t), is |-> file[Target(t)]]]
      BY <1>2, SavedIs, Running DEF TypeInv, Save, Dir
    <2>2. CASE j = Me /\ t = s
      <3>1. ckpt'[DirOf[j]][s] = [path |-> Target(t), is |-> file[Target(t)]]
        BY <2>1, <2>2, Places DEF TypeInv, PipeTypeOK
      <3>2. [path |-> Target(t), is |-> file[Target(t)]] \in Entry
        BY <1>2, SavedIs DEF Entry
      <3> QED BY <2>1, <2>2, <3>1, <3>2, NoneAssumption DEF Ready, Target
    <2>3. CASE j # Me \/ t # s
      <3>1. ckpt'[DirOf[j]][s] = ckpt[DirOf[j]][s]
        <4>1. DirOf[j] # DirOf[Me] \/ t # s
          BY <2>1, <2>3 DEF OneJobPerVideo
        <4> QED BY <2>1, <4>1, Places DEF TypeInv, PipeTypeOK
      <3> QED BY <2>1, <3>1 DEF Ready
    <2> QED BY <2>2, <2>3
  <1>3. ASSUME NEW t \in Stages, Writes(t) PROVE Ready(j, s)'
    <2>1. Me \in Jobs /\ Target(t) = TargetOf(t, Me) /\ pc # "idle" /\ ckpt' = ckpt
      BY <1>3, WritesOwn DEF Writes
    <2>2. ~(j = Me /\ t = s)
      BY <1>3, <2>1, ReadyHits DEF Writes, Runs
    <2>3. TargetOf(s, j) # Target(t)
      BY <2>1, <2>2, OthersTarget
    <2>4. TargetOf(s, j) \in Paths /\ TargetOf(s, j) # Final
      BY <2>1, ReadyPaths DEF Final, Dir
    <2>5. file'[TargetOf(s, j)] = file[TargetOf(s, j)]
      BY <1>3, <2>3, <2>4, WritesOwn
    <2> QED BY <2>1, <2>5 DEF Ready
  <1>4. CASE Move
    <2>1. Me \in Jobs /\ ckpt' = ckpt
      BY <1>4, Running DEF Move, TypeInv
    <2>2. TargetOf(s, j) \in Paths /\ TargetOf(s, j) # Final /\ TargetOf(s, j) # <<"out", Me>>
      BY <2>1, ReadyPaths DEF Final, Dir
    <2>3. file'[TargetOf(s, j)] = file[TargetOf(s, j)]
      BY <1>4, <2>2 DEF Move, TypeInv, PipeTypeOK
    <2> QED BY <2>1, <2>3 DEF Ready
  <1>5. CASE Publish
    <2>1. ckpt'[DirOf[j]][s] = ckpt[DirOf[j]][s] /\ file' = file
      BY <1>5, PassOneStages, Places DEF Publish, TypeInv, PipeTypeOK
    <2> QED BY <2>1 DEF Ready
  <1>6. CASE CleanUp
    <2>1. Me \in Jobs /\ ckpt' = ckpt
      BY <1>6, Running DEF CleanUp, TypeInv
    <2>2. TargetOf(s, j) \in Paths /\ TargetOf(s, j) \notin WorkPaths(Me)
      BY <1>6, <2>1, ReadyPaths
    <2>3. file'[TargetOf(s, j)] = file[TargetOf(s, j)]
      BY <1>6, <2>2 DEF CleanUp, NoWork
    <2> QED BY <2>1, <2>3 DEF Ready
  <1> QED BY <1>1, <1>2, <1>3, <1>4, <1>5, <1>6, DiskSteps

\* Pass 2 runs none of the stages of pass 1.
LEMMA PassTwoSkips ==
  ASSUME NEW s \in PassOneOnly, run.pass2
  PROVE  ~Runs(s)
  BY DEF Runs, Skipped

-----------------------------------------------------------------------------
\* The steps of a row and of its history.

LEMMA PhaseSteps ==
  ASSUME TypeInv, [PipeNext]_pipeVars, NEW j \in Jobs
  PROVE  \/ row'[j].phase = row[j].phase
         \/ StartRun(j) /\ row'[j].phase = PhaseOf(row[j])
         \/ Requeue /\ j = Me
         \/ CleanUp /\ j = Me /\ row'[j].phase # "pass2"
  <1> ControlTypes /\ row \in [Jobs -> Row]
    BY TypeParts DEF TypeInv, ControlTypes
  <1> \A k \in Jobs : row[k] \in Row
    OBVIOUS
  <1>1. ASSUME NEW k \in Jobs, Submit(k) \/ Resynth(k) \/ RerunPass2(k)
        PROVE  row'[j].phase = row[j].phase
    <2>1. row[k] \in Row
      OBVIOUS
    <2>2. PICK r : row' = [row EXCEPT ![k] = r] /\ r.phase = row[k].phase
      <3>1. CASE Submit(k)
        <4>1. [row[k] EXCEPT !.st = "QUEUED"].phase = row[k].phase
          BY <2>1 DEF Row
        <4> QED BY <3>1, <4>1, Requested
      <3>2. CASE Resynth(k)
        <4>1. [row[k] EXCEPT !.st = "QUEUED", !.resynth = TRUE].phase = row[k].phase
          BY <2>1 DEF Row
        <4> QED BY <3>2, <4>1, Requested
      <3>3. CASE RerunPass2(k)
        <4>1. [row[k] EXCEPT !.st = "QUEUED", !.req = TRUE, !.two = TRUE].phase = row[k].phase
          BY <2>1 DEF Row
        <4> QED BY <3>3, <4>1, Requested
      <3> QED BY <1>1, <3>1, <3>2, <3>3
    <2> QED BY <2>2
  <1>2. ASSUME NEW k \in Jobs, StartRun(k)
        PROVE  row'[j].phase = row[j].phase \/ (k = j /\ row'[j].phase = PhaseOf(row[j]))
    <2>1. row[k] \in Row
      OBVIOUS
    <2> DEFINE r == [row[k] EXCEPT !.st = "RUNNING", !.phase = PhaseOf(row[k])]
    <2>2. r.phase = PhaseOf(row[k])
      BY <2>1 DEF Row
    <2>3. row' = [row EXCEPT ![k] = r]
      BY <1>2, Requested
    <2> HIDE DEF r
    <2> QED BY <2>2, <2>3
  <1>3. ASSUME NEW st, NEW how, Ends(st, how) PROVE row'[j].phase = row[j].phase
    BY <1>3 DEF Ends, Row
  <1>4. CASE row' = row
    BY <1>4
  <1>5. CASE Requeue
    <2>1. Me \in Jobs
      BY <1>5, Running DEF Requeue, TypeInv
    <2> QED BY <1>5, <2>1, RequeueRow DEF Requeue
  <1>6. CASE Finish
    BY <1>6 DEF Finish, Row
  <1>7. CASE CleanUp
    <2>1. Me \in Jobs /\ pc # "idle"
      BY <1>7, Running DEF CleanUp, TypeInv
    <2>2. row' = [row EXCEPT ![Me] = Cleared(row[Me])]
      BY <1>7, <2>1, RequeueRow
    <2>3. Cleared(row[Me]).phase # "pass2"
      BY <2>1, RequeueRow DEF Row
    <2> QED BY <1>7, <2>2, <2>3
  <1>8. CASE Crash
    BY <1>8 DEF Crash, Recovered, Row
  <1>9. ASSUME NEW s \in Stages, Stage(s) \/ FailRun(s)
        PROVE  row'[j].phase = row[j].phase
    BY <1>9, <1>3 DEF Stage, Skip, LeaveEarly, Make, Save, FailRun, Outcome
  <1>10. CASE \/ TranslateFails \/ SynthesisFails \/ MixFails \/ Move \/ Publish
              \/ UNCHANGED pipeVars
    BY <1>4, <1>10 DEF TranslateFails, SynthesisFails, MixFails, Move, Publish, Outcome, pipeVars
  <1> QED BY <1>1, <1>2, <1>5, <1>6, <1>7, <1>8, <1>9, <1>10 DEF PipeNext, Fails

LEMMA EndedSteps ==
  ASSUME TypeInv, [PipeNext]_pipeVars, NEW j \in Jobs
  PROVE  \/ ended'[j] = ended[j]
         \/ j = Me /\ (\E s \in Stages : LeaveEarly(s)) /\ ended'[j] = "early"
         \/ j = Me /\ ended'[j] = "failed"
         \/ j = Me /\ Requeue /\ ended'[j] = "pass1"
         \/ j = Me /\ Finish /\ ended'[j] = IF run.pass2 THEN "pass2" ELSE "single"
  <1> ended \in [Jobs -> {"never", "early", "failed", "pass1", "pass2", "single"}]
    BY DEF TypeInv, PipeTypeOK
  <1>1. CASE ended' = ended
    BY <1>1
  <1>2. ASSUME NEW s \in Stages, LeaveEarly(s)
        PROVE  ended'[j] = ended[j] \/ (j = Me /\ ended'[j] = "early")
    BY <1>2 DEF LeaveEarly, Ends
  <1>3. ASSUME NEW s \in Stages, FailRun(s)
        PROVE  ended'[j] = ended[j] \/ (j = Me /\ ended'[j] = "failed")
    BY <1>3 DEF FailRun, Ends
  <1>4. CASE Requeue
    BY <1>4 DEF Requeue
  <1>5. CASE Finish
    BY <1>5 DEF Finish
  <1>6. ASSUME NEW s \in Stages, Skip(s) \/ Make(s) \/ Save(s) PROVE ended' = ended
    BY <1>6 DEF Skip, Make, Save, Outcome
  <1>7. CASE \E k \in Jobs : Submit(k) \/ Resynth(k) \/ RerunPass2(k) \/ StartRun(k)
    BY <1>1, <1>7 DEF Submit, Resynth, RerunPass2, Requests, HandlerRuns, StartRun
  <1>8. CASE \/ TranslateFails \/ SynthesisFails \/ MixFails \/ Move \/ Publish \/ CleanUp \/ Crash
             \/ UNCHANGED pipeVars
    BY <1>1, <1>8 DEF TranslateFails, SynthesisFails, MixFails, Move, Publish, CleanUp, Crash,
                      Outcome, pipeVars
  <1> QED BY <1>1, <1>2, <1>3, <1>4, <1>5, <1>6, <1>7, <1>8 DEF PipeNext, Stage, Fails

LEMMA ReqSteps ==
  ASSUME TypeInv, [PipeNext]_pipeVars, NEW j \in Jobs, ops' = ops, row[j].req = FALSE
  PROVE  row'[j].req = FALSE
  <1> ControlTypes /\ row \in [Jobs -> Row]
    BY TypeParts DEF TypeInv, ControlTypes
  <1> \A k \in Jobs : row[k] \in Row
    OBVIOUS
  <1>1. ASSUME NEW k \in Jobs, Submit(k) PROVE row'[j].req = FALSE
    BY <1>1 DEF Submit, Row
  <1>2. ASSUME NEW k \in Jobs, Resynth(k) \/ RerunPass2(k) PROVE FALSE
    BY <1>2 DEF Resynth, RerunPass2, Requests, ControlTypes
  <1>3. ASSUME NEW k \in Jobs, StartRun(k) PROVE row'[j].req = FALSE
    <2> DEFINE r == [row[k] EXCEPT !.st = "RUNNING", !.phase = PhaseOf(row[k])]
    <2>1. row[k] \in Row
      OBVIOUS
    <2>2. r.req = row[k].req
      BY <2>1 DEF Row
    <2>3. row' = [row EXCEPT ![k] = r]
      BY <1>3, Requested
    <2> HIDE DEF r
    <2> QED BY <2>2, <2>3
  <1>4. ASSUME NEW st, NEW how, Ends(st, how) PROVE row'[j].req = FALSE
    BY <1>4 DEF Ends, Row
  <1>5. CASE Requeue
    <2>1. Me \in Jobs /\ row[Me] \in Row
      BY <1>5, Running DEF Requeue, TypeInv
    <2> DEFINE r == [row[Me] EXCEPT !.st = "QUEUED", !.phase = "pass2", !.two = TRUE]
    <2>2. r.req = row[Me].req
      BY <2>1 DEF Row
    <2>3. row' = [row EXCEPT ![Me] = r]
      BY <1>5, RequeueRow DEF Requeue
    <2> HIDE DEF r
    <2> QED BY <2>1, <2>2, <2>3
  <1>6. CASE Finish
    BY <1>6 DEF Finish, Row
  <1>7. CASE CleanUp
    <2>1. Me \in Jobs /\ pc # "idle" /\ row[Me] \in Row
      BY <1>7, Running DEF CleanUp, TypeInv
    <2>2. row' = [row EXCEPT ![Me] = Cleared(row[Me])]
      BY <1>7, <2>1, RequeueRow
    <2>3. Cleared(row[Me]).req = FALSE
      BY <2>1, RequeueRow DEF Row
    <2> QED BY <2>2, <2>3
  <1>8. CASE Crash
    BY <1>8 DEF Crash, Recovered, Row
  <1>9. ASSUME NEW s \in Stages, Stage(s) \/ FailRun(s) PROVE row'[j].req = FALSE
    BY <1>9, <1>4 DEF Stage, Skip, LeaveEarly, Make, Save, FailRun, Outcome
  <1>10. CASE \/ TranslateFails \/ SynthesisFails \/ MixFails \/ Move \/ Publish
              \/ UNCHANGED pipeVars
    BY <1>10 DEF TranslateFails, SynthesisFails, MixFails, Move, Publish, Outcome, pipeVars
  <1> QED BY <1>1, <1>2, <1>3, <1>5, <1>6, <1>7, <1>8, <1>9, <1>10 DEF PipeNext, Fails

\* Nobody has asked for anything and nothing has failed.
Calm == ops + faults = 0

LEMMA CalmBefore ==
  ASSUME TypeInv, [PipeNext]_pipeVars, Calm'
  PROVE  Calm /\ ops' = ops /\ ~Fault
  <1>1. ops \in Nat /\ faults \in Nat
    BY PipelineAssumption DEF TypeInv, PipeTypeOK
  <1>2. ops' \in Nat /\ faults' \in Nat
    BY NextTypes, PipelineAssumption DEF TypeInv, PipeTypeOK
  <1>3. ops' = 0 /\ faults' = 0
    <2>1. ops' + faults' = 0
      BY DEF Calm
    <2>2. \A m, n \in Nat : m + n = 0 => m = 0 /\ n = 0
      OBVIOUS
    <2> QED BY <1>2, <2>1, <2>2
  <1>4. ops' = ops \/ ops' = ops + 1
    BY DEF PipeNext, Submit, Resynth, RerunPass2, Requests, StartRun, Stage, Skip, LeaveEarly,
           Make, Save, Fails, FailRun, TranslateFails, SynthesisFails, MixFails, Move, Requeue,
           Publish, Finish, CleanUp, Crash, Ends, Outcome, pipeVars
  <1>5. faults' = faults \/ faults' = faults + 1
    BY DEF PipeNext, Submit, Resynth, RerunPass2, Requests, HandlerRuns, StartRun, Stage, Skip,
           LeaveEarly, Make, Save, Fails, FailRun, TranslateFails, SynthesisFails, MixFails, Move,
           Requeue, Publish, Finish, CleanUp, Crash, Fault, pipeVars
  <1>6. ops = 0 /\ faults = 0
    BY <1>1, <1>3, <1>4, <1>5
  <1> QED BY <1>3, <1>6 DEF Calm, Fault

\* The places a run comes to after a stage of pass 1.
Later == {"tts", "saveTts", "mix", "saveMix", "mux", "move", "requeue", "publish", "finish", "notify"}
Past == [audio |-> Later \cup {"transcribe", "saveTranscribe", "translate", "saveTranslate"},
         transcribe |-> Later \cup {"translate", "saveTranslate"},
         translate |-> Later]

LEMMA PastIs ==
  /\ Past["audio"] = Later \cup {"transcribe", "saveTranscribe", "translate", "saveTranslate"}
  /\ Past["transcribe"] = Later \cup {"translate", "saveTranslate"}
  /\ Past["translate"] = Later
  /\ \A s \in PassOneOnly : Later \subseteq Past[s]
                            /\ "idle" \notin Past[s] /\ "audio" \notin Past[s] /\ "saveAudio" \notin Past[s]
  BY DEF Past, Later, PassOneOnly

\* Pass 2, and a run that nothing has disturbed, has behind it what pass 1 records.
Reached == \A s \in PassOneOnly : pc \in Past[s] /\ (run.pass2 \/ Calm) => Ready(Me, s)

RunPhase == pc # "idle" => (run.pass2 <=> row[Me].phase = "pass2")

CalmRows ==
    Calm => \A j \in Jobs :
               /\ ended[j] # "early" /\ row[j].req = FALSE
               /\ row[j].phase = "pass2" => ReadyAll(j)

\* After a run that ended well there is a video, or all that pass 2 needs to make it.
Videos ==
    \A j \in Jobs : ended[j] \in {"pass1", "pass2", "single"} =>
        \/ file[<<"final", DirOf[j]>>] # None
        \/ row[j].phase = "pass2" /\ ReadyAll(j)

PassInv == Reached /\ RunPhase /\ CalmRows /\ Videos

LEMMA RunPhaseKept ==
  ASSUME TypeInv, RunPhase, [PipeNext]_pipeVars
  PROVE  RunPhase'
  <1>1. ASSUME NEW j \in Jobs, StartRun(j) PROVE RunPhase'
    <2>1. row'[j].phase = PhaseOf(row[j])
      <3>1. row[j] \in Row /\ row \in [Jobs -> Row]
        BY DEF TypeInv, PipeTypeOK
      <3> DEFINE r == [row[j] EXCEPT !.st = "RUNNING", !.phase = PhaseOf(row[j])]
      <3>2. r.phase = PhaseOf(row[j])
        BY <3>1 DEF Row
      <3>3. row' = [row EXCEPT ![j] = r]
        BY <1>1, Requested, TypeParts DEF TypeInv
      <3> HIDE DEF r
      <3> QED BY <3>1, <3>2, <3>3
    <2>2. run'.job = j /\ (run'.pass2 <=> PhaseOf(row[j]) = "pass2")
      BY <1>1 DEF StartRun
    <2> QED BY <2>1, <2>2 DEF RunPhase, Me
  <1>2. CASE pc' = "idle"
    BY <1>2 DEF RunPhase
  <1>3. CASE run' = run /\ pc # "idle" /\ ~(\E j \in Jobs : StartRun(j)) /\ ~Requeue /\ ~CleanUp
    <2>1. Me \in Jobs
      BY <1>3, Running DEF TypeInv
    <2>2. row'[Me].phase = row[Me].phase
      BY <1>3, <2>1, PhaseSteps
    <2> QED BY <1>3, <2>2 DEF RunPhase, Me
  <1>4. CASE \E j \in Jobs : Submit(j) \/ Resynth(j) \/ RerunPass2(j)
    <2>1. pc' = pc /\ run' = run /\ pc \in {"idle", "notify"}
      BY <1>4 DEF Submit, Resynth, RerunPass2, Requests, HandlerRuns
    <2> QED BY <1>2, <1>3, <2>1 DEF StartRun, Requeue, CleanUp
  <1>5. CASE (\E s \in Stages : Stage(s)) \/ Fails
    <2>1. pc # "idle"
      BY <1>5, Savings DEF Stage, Skip, LeaveEarly, Make, Save, Fails, FailRun, TranslateFails,
                           SynthesisFails, MixFails, Stages
    <2>2. run' = run \/ pc' = "idle"
      BY <1>5 DEF Stage, Skip, LeaveEarly, Make, Save, Fails, FailRun, TranslateFails,
                  SynthesisFails, MixFails, Outcome, Ends
    <2>3. pc \notin {"requeue", "notify"}
      BY <1>5, Savings DEF Stage, Skip, LeaveEarly, Make, Save, Fails, FailRun, TranslateFails,
                           SynthesisFails, MixFails, Stages
    <2> QED BY <1>2, <1>3, <2>1, <2>2, <2>3 DEF StartRun, Requeue, CleanUp
  <1>6. CASE Move \/ Publish \/ Finish
    BY <1>3, <1>6 DEF Move, Publish, Finish, Outcome, StartRun, Requeue, CleanUp
  <1>7. CASE Requeue \/ CleanUp \/ Crash
    BY <1>2, <1>7 DEF Requeue, CleanUp, Crash
  <1>8. CASE UNCHANGED pipeVars
    BY <1>8 DEF pipeVars, RunPhase, Me
  <1> QED BY <1>1, <1>4, <1>5, <1>6, <1>7, <1>8 DEF PipeNext

\* How a run comes past a stage of pass 1.
LEMMA PastSteps ==
  ASSUME TypeInv, [PipeNext]_pipeVars, NEW s \in PassOneOnly, pc' \in Past[s]
  PROVE  /\ ~CleanUp /\ run' = run /\ pc # "idle"
         /\ \/ pc \in Past[s]
            \/ Skip(s) \/ Save(s)
            \/ s = "translate" /\ TranslateFails
  <1>1. ASSUME NEW j \in Jobs, Submit(j) \/ Resynth(j) \/ RerunPass2(j)
        PROVE  pc \in Past[s] /\ run' = run /\ ~CleanUp
    <2>1. pc' = pc /\ run' = run
      BY <1>1 DEF Submit, Resynth, RerunPass2, Requests, HandlerRuns
    <2> QED BY <2>1, PastIs DEF CleanUp
  <1>2. ASSUME NEW j \in Jobs, StartRun(j) PROVE FALSE
    BY <1>2, PastIs DEF StartRun
  <1>3. CASE \/ Requeue \/ CleanUp \/ Crash
             \/ \E t \in Stages : LeaveEarly(t) \/ FailRun(t)
    BY <1>3, PastIs DEF Requeue, CleanUp, Crash, LeaveEarly, FailRun, Ends
  <1>4. CASE Move \/ Publish \/ Finish
    <2>1. pc \in Later /\ run' = run /\ pc # "notify"
      BY <1>4 DEF Move, Publish, Finish, Outcome, Later
    <2> QED BY <2>1, PastIs DEF CleanUp, Later
  <1>5. CASE SynthesisFails \/ MixFails
    <2>1. pc \in Later /\ run' = run /\ pc # "notify"
      BY <1>5 DEF SynthesisFails, MixFails, Outcome, Later
    <2> QED BY <2>1, PastIs DEF CleanUp, Later
  <1>6. ASSUME NEW t \in Stages, Skip(t) \/ Make(t) \/ Save(t) \/ (t = "translate" /\ TranslateFails)
        PROVE  /\ ~CleanUp /\ run' = run /\ pc # "idle"
               /\ \/ pc \in Past[s]
                  \/ Skip(s) \/ Save(s)
                  \/ s = "translate" /\ TranslateFails
    <2>1. run' = run
      BY <1>6 DEF Skip, Make, Save, TranslateFails, Outcome
    <2>2. \/ pc = t /\ t \in Stages
          \/ pc = Saving[t] /\ t \in Stages \ {"mux"}
      BY <1>6 DEF Skip, Make, Save, TranslateFails
    <2>3. pc # "idle" /\ pc # "notify"
      BY <2>2, Savings DEF Stages
    <2>4. CASE t = s
      <3>1. CASE Make(s)
        <4>1. pc' = Saving[s]
          BY <3>1, PassOneStages DEF Make
        <4>2. CASE s = "audio"
          BY <4>1, <4>2, PastIs, Savings DEF Later
        <4>3. CASE s = "transcribe"
          BY <4>1, <4>3, PastIs, Savings DEF Later
        <4>4. CASE s = "translate"
          BY <4>1, <4>4, PastIs, Savings DEF Later
        <4> QED BY <4>2, <4>3, <4>4 DEF PassOneOnly
      <3> QED BY <1>6, <2>1, <2>3, <2>4, <3>1 DEF CleanUp
    <2>5. CASE t # s /\ t \in {"tts", "mix", "mux"}
      BY <2>1, <2>2, <2>3, <2>5, PastIs, Savings DEF CleanUp, Later
    <2>6. CASE t # s /\ t \in PassOneOnly
      <3>1. \/ pc' = Saving[t] \/ pc' = After(t) \/ (t = "translate" /\ pc' = "tts")
        BY <1>6, <2>6 DEF Skip, Make, Save, TranslateFails, PassOneOnly
      <3>2. pc \in Past[s]
        <4>1. CASE t = "audio"
          BY <2>2, <2>6, <3>1, <4>1, NextPc, Savings, PastIs DEF PassOneOnly, Later
        <4>2. CASE t = "transcribe"
          BY <2>2, <2>6, <3>1, <4>2, NextPc, Savings, PastIs DEF PassOneOnly, Later
        <4>3. CASE t = "translate"
          BY <2>2, <2>6, <3>1, <4>3, NextPc, Savings, PastIs DEF PassOneOnly, Later
        <4> QED BY <2>6, <4>1, <4>2, <4>3 DEF PassOneOnly
      <3> QED BY <2>1, <2>3, <3>2 DEF CleanUp
    <2> QED BY <2>4, <2>5, <2>6 DEF Stages, PassOneOnly
  <1>7. CASE UNCHANGED pipeVars
    <2>1. pc' = pc /\ run' = run
      BY <1>7 DEF pipeVars
    <2>2. ~CleanUp
      BY <2>1 DEF CleanUp
    <2> QED BY <2>1, <2>2, PastIs
  <1>8. "translate" \in Stages
    BY DEF Stages
  <1> QED BY <1>1, <1>2, <1>3, <1>4, <1>5, <1>6, <1>7, <1>8, PastIs DEF PipeNext, Stage, Fails

LEMMA ReachedKept ==
  ASSUME OneJobPerVideo, TypeInv, Entries, Reached, [PipeNext]_pipeVars
  PROVE  Reached'
  <1> SUFFICES ASSUME NEW s \in PassOneOnly, pc' \in Past[s], run'.pass2 \/ Calm'
               PROVE  Ready(Me, s)'
    BY DEF Reached
  <1>1. ~CleanUp /\ run' = run /\ pc # "idle"
        /\ (pc \in Past[s] \/ Skip(s) \/ Save(s) \/ (s = "translate" /\ TranslateFails))
    BY PastSteps
  <1>2. run.pass2 \/ (Calm /\ ~Fault)
    BY <1>1, CalmBefore
  <1>3. Me \in Jobs /\ Me' = Me /\ Dir = DirOf[Me] /\ s \in Stages
    BY <1>1, Running, PassOneStages DEF TypeInv, Me, Dir
  <1> DEFINE j == Me
  <1>4. CASE Ready(j, s)
    <2> PICK k \in Jobs : k = Me
      BY <1>3
    <2>1. Ready(k, s)'
      BY <1>1, <1>4, ReadyStays
    <2> QED BY <1>3, <2>1 DEF Ready
  <1>5. CASE pc \in Past[s]
    BY <1>2, <1>4, <1>5 DEF Reached
  <1>6. CASE Skip(s)
    BY <1>1, <1>4, <1>6, ReadyHits DEF Skip
  <1>7. CASE Save(s)
    <2>1. file' = file
          /\ ckpt' = [ckpt EXCEPT ![DirOf[Me]][s] = [path |-> Target(s), is |-> file[Target(s)]]]
      BY <1>3, <1>7 DEF Save
    <2>2. ckpt'[DirOf[Me]][s] = [path |-> Target(s), is |-> file[Target(s)]]
      BY <1>3, <2>1, Places DEF TypeInv, PipeTypeOK
    <2>3. file[Target(s)] # None /\ [path |-> Target(s), is |-> file[Target(s)]] \in Entry
      BY <1>3, <1>7, SavedIs, NoneAssumption DEF Entry
    <2> QED BY <1>3, <2>1, <2>2, <2>3, NoneAssumption DEF Ready, Target
  <1>8. CASE s = "translate" /\ TranslateFails
    <2>1. run.pass2
      BY <1>2, <1>8 DEF TranslateFails
    <2> QED BY <1>8, <2>1, PassTwoSkips DEF TranslateFails
  <1> QED BY <1>1, <1>5, <1>6, <1>7, <1>8

\* A job in pass 2 that nothing has disturbed is not left early.
LEMMA EarlyNeeds ==
  ASSUME TypeInv, Entries, RunPhase, NEW s \in Stages, LeaveEarly(s)
  PROVE  Me \in Jobs /\ row[Me].phase = "pass2" /\ ~ReadyAll(Me)
  <1>1. pc # "idle" /\ Skipped(s)
    BY DEF LeaveEarly, Stages
  <1>2. Me \in Jobs
    BY <1>1, Running DEF TypeInv
  <1>3. ~Ready(Me, s) /\ s \in PassOneOnly /\ run.pass2
    BY <1>1, ReadyHits DEF Skipped
  <1> QED BY <1>1, <1>2, <1>3 DEF RunPhase, ReadyAll

LEMMA CalmRowsKept ==
  ASSUME OneJobPerVideo, TypeInv, Entries, PassInv, [PipeNext]_pipeVars
  PROVE  CalmRows'
  <1> SUFFICES ASSUME Calm', NEW j \in Jobs
               PROVE  /\ ended'[j] # "early" /\ row'[j].req = FALSE
                      /\ row'[j].phase = "pass2" => ReadyAll(j)'
    BY DEF CalmRows
  <1>1. Calm /\ ops' = ops
    BY CalmBefore
  <1>2. ended[j] # "early" /\ row[j].req = FALSE /\ (row[j].phase = "pass2" => ReadyAll(j))
    BY <1>1 DEF PassInv, CalmRows
  <1>3. ended'[j] # "early"
    <2>1. ASSUME NEW s \in Stages, LeaveEarly(s) PROVE FALSE
      BY <1>1, <2>1, EarlyNeeds DEF PassInv, CalmRows
    <2> QED BY <1>2, <2>1, EndedSteps
  <1>4. row'[j].req = FALSE
    BY <1>1, <1>2, ReqSteps
  <1>5. ASSUME row'[j].phase = "pass2" PROVE ReadyAll(j)'
    <2>1. ReadyAll(j) /\ (CleanUp => j # Me)
      <3>1. CASE row'[j].phase = row[j].phase
        <4>1. CleanUp => j # Me
          <5> SUFFICES ASSUME CleanUp, j = Me PROVE FALSE
            OBVIOUS
          <5>1. pc # "idle" /\ row \in [Jobs -> Row]
            BY DEF CleanUp, TypeInv, PipeTypeOK
          <5>2. row' = [row EXCEPT ![Me] = Cleared(row[Me])]
            BY <5>1, RequeueRow, TypeParts DEF TypeInv
          <5>3. Cleared(row[Me]).phase # "pass2"
            BY <5>1, RequeueRow, TypeParts DEF TypeInv, Row
          <5> QED BY <1>5, <5>1, <5>2, <5>3
        <4> QED BY <1>2, <1>5, <3>1, <4>1
      <3>2. CASE StartRun(j) /\ row'[j].phase = PhaseOf(row[j])
        <4>1. row[j].phase = "pass2"
          BY <1>2, <1>5, <3>2 DEF PhaseOf
        <4>2. ~CleanUp
          BY <3>2 DEF StartRun, CleanUp
        <4> QED BY <1>2, <4>1, <4>2
      <3>3. CASE Requeue /\ j = Me
        <4>1. pc = "requeue" /\ ~CleanUp
          BY <3>3 DEF Requeue, CleanUp
        <4>2. \A s \in PassOneOnly : pc \in Past[s]
          BY <4>1, PastIs DEF Later
        <4> QED BY <1>1, <3>3, <4>1, <4>2 DEF PassInv, Reached, ReadyAll
      <3> QED BY <1>5, <3>1, <3>2, <3>3, PhaseSteps
    <2> SUFFICES ASSUME NEW s \in PassOneOnly PROVE Ready(j, s)'
      BY DEF ReadyAll
    <2> QED BY <2>1, ReadyStays DEF ReadyAll
  <1> QED BY <1>3, <1>4, <1>5

\* The published video of a job is removed only by the mix of its own pass 2.
LEMMA VideoGoes ==
  ASSUME OneJobPerVideo, TypeInv, VideoInv, [PipeNext]_pipeVars, NEW j \in Jobs,
         file[<<"final", DirOf[j]>>] # None, file'[<<"final", DirOf[j]>>] = None
  PROVE  j = Me /\ pc = "mix" /\ run.pass2
  <1> DEFINE p == <<"final", DirOf[j]>>
  <1>0. p \in Paths
    BY Places
  <1>1. file' # file
    OBVIOUS
  <1>2. ASSUME NEW s \in Stages, Writes(s) PROVE j = Me /\ pc = "mix" /\ run.pass2
    <2>1. Me \in Jobs /\ Target(s) = TargetOf(s, Me) /\ PipeTypeOK /\ pc = s /\ pc # "idle"
      BY <1>2, WritesOwn DEF Writes
    <2>2. p # Target(s)
      <3>1. Target(s) \in {<<"wav", Me>>, <<"srt", Me>>, <<"tr", DirOf[Me]>>, <<"tts", Me>>, <<"out", Me>>}
        BY <2>1, Targets DEF Stages
      <3> QED BY <3>1
    <2>3. p = Final
      BY <1>0, <1>2, <2>2, WritesOwn
    <2>4. DirOf[j] = DirOf[Me]
      BY <2>3 DEF Final, Dir
    <2>5. j = Me
      BY <2>1, <2>4 DEF OneJobPerVideo
    <2>6. s = "mix" /\ run.pass2
      <3>1. file'[p] = Cleaned(s)[p]
        BY <1>0, <1>2, <2>2 DEF Writes, Leaves
      <3> QED BY <1>0, <2>1, <2>2, <3>1, CleanedIs
    <2> QED BY <2>1, <2>5, <2>6
  <1>3. ASSUME NEW s \in Stages, Save(s) PROVE FALSE
    BY <1>1, <1>3 DEF Save
  <1>4. CASE Move
    <2>1. pc = "move" /\ pc # "idle" /\ PipeTypeOK
      BY <1>4 DEF Move, TypeInv
    <2>2. file' = [file EXCEPT ![Final] = file[<<"out", Me>>], ![<<"out", Me>>] = None]
          /\ file[<<"out", Me>>] # None
      BY <1>4, <2>1 DEF Move, VideoInv, Moving
    <2>3. p # <<"out", Me>>
      OBVIOUS
    <2>4. file'[p] = file[p] \/ file'[p] = file[<<"out", Me>>]
      BY <1>0, <2>1, <2>2, <2>3 DEF PipeTypeOK
    <2> QED BY <2>2, <2>4
  <1>5. CASE Publish \/ UNCHANGED disk
    BY <1>1, <1>5 DEF Publish, disk
  <1>6. CASE CleanUp
    <2>1. Me \in Jobs
      BY <1>6, Running DEF CleanUp, TypeInv
    <2>2. p \notin WorkPaths(Me)
      <3>1. WorkPaths(Me) = {<<"wav", Me>>, <<"srt", Me>>, <<"tts", Me>>, <<"out", Me>>}
        BY <2>1, Places
      <3> QED BY <3>1
    <2> QED BY <1>0, <1>6, <2>2 DEF CleanUp, NoWork
  <1> QED BY <1>2, <1>3, <1>4, <1>5, <1>6, DiskSteps

LEMMA VideosKept ==
  ASSUME OneJobPerVideo, TypeInv, VideoInv, PassInv, [PipeNext]_pipeVars
  PROVE  Videos'
  <1> Entries /\ Moved
    BY DEF VideoInv
  <1> SUFFICES ASSUME NEW j \in Jobs, ended'[j] \in {"pass1", "pass2", "single"}
               PROVE  \/ file'[<<"final", DirOf[j]>>] # None
                      \/ row'[j].phase = "pass2" /\ ReadyAll(j)'
    BY DEF Videos
  <1> DEFINE p == <<"final", DirOf[j]>>
  <1>1. ASSUME ReadyAll(j), CleanUp => j # Me PROVE ReadyAll(j)'
    <2> SUFFICES ASSUME NEW s \in PassOneOnly PROVE Ready(j, s)'
      BY DEF ReadyAll
    <2> QED BY <1>1, ReadyStays DEF ReadyAll
  <1>2. CASE j = Me /\ (Requeue \/ Finish)
    <2>1. file[Final] # None /\ file' = file
      BY <1>2 DEF Requeue, Finish, disk, Moved
    <2>2. Final = p
      BY <1>2 DEF Final, Dir
    <2> QED BY <2>1, <2>2
  <1>3. CASE ended'[j] = ended[j] /\ file[p] # None
    <2>1. CASE file'[p] # None
      BY <2>1
    <2>2. CASE file'[p] = None
      <3>1. j = Me /\ pc = "mix" /\ run.pass2
        BY <1>3, <2>2, VideoGoes
      <3>2. \A s \in PassOneOnly : pc \in Past[s]
        BY <3>1, PastIs DEF Later
      <3>3. ReadyAll(j) /\ ~CleanUp /\ ~Requeue /\ ~StartRun(j)
        BY <3>1, <3>2 DEF PassInv, Reached, ReadyAll, CleanUp, Requeue, StartRun
      <3>4. row'[j].phase = row[j].phase
        BY <3>3, PhaseSteps
      <3>5. row[j].phase = "pass2"
        BY <3>1 DEF PassInv, RunPhase
      <3> QED BY <1>1, <3>3, <3>4, <3>5
    <2> QED BY <2>1, <2>2
  <1>4. CASE ended'[j] = ended[j] /\ file[p] = None
    <2>1. row[j].phase = "pass2" /\ ReadyAll(j)
      BY <1>4 DEF PassInv, Videos
    <2>2. ~(CleanUp /\ j = Me)
      BY <1>4 DEF CleanUp, Moved, Final, Dir
    <2>3. row'[j].phase = "pass2"
      <3>1. CASE StartRun(j) /\ row'[j].phase = PhaseOf(row[j])
        BY <2>1, <3>1 DEF PhaseOf
      <3>2. CASE Requeue /\ j = Me
        BY <1>4, <3>2 DEF Requeue, Moved, Final, Dir
      <3> QED BY <2>1, <2>2, <3>1, <3>2, PhaseSteps
    <2> QED BY <1>1, <2>1, <2>2, <2>3
  <1> QED BY <1>2, <1>3, <1>4, EndedSteps

LEMMA PassInvInductive ==
  ASSUME OneJobPerVideo
  PROVE  /\ PipeInit => PassInv
         /\ TypeInv /\ VideoInv /\ PassInv /\ [PipeNext]_pipeVars => PassInv'
  <1>1. ASSUME PipeInit PROVE PassInv
    <2>1. Reached
      BY <1>1, PastIs DEF PipeInit, Reached
    <2>2. CalmRows /\ Videos /\ RunPhase
      BY <1>1 DEF PipeInit, CalmRows, Videos, RunPhase
    <2> QED BY <2>1, <2>2 DEF PassInv
  <1>2. ASSUME TypeInv, VideoInv, PassInv, [PipeNext]_pipeVars PROVE PassInv'
    <2>1. Entries
      BY <1>2 DEF VideoInv
    <2> QED BY <1>2, <2>1, RunPhaseKept, ReachedKept, CalmRowsKept, VideosKept DEF PassInv
  <1> QED BY <1>1, <1>2

\* A job submitted with two passes gets its second pass: no restart, at no moment and
\* however often, costs it what pass 1 leaves behind.  Only requests and failures do
\* (two-pass orchestration and checkpoints in _run_job), when no two jobs dub one
\* video.
THEOREM SecondPassRuns == OneJobPerVideo => (PipeSpec => []PassTwoRuns)
  <1> SUFFICES ASSUME OneJobPerVideo PROVE PipeSpec => []PassTwoRuns
    OBVIOUS
  <1>1. PipeInit => TypeInv /\ VideoInv /\ PassInv
    BY InitTypes, VideoInvInductive, PassInvInductive
  <1>2. TypeInv /\ VideoInv /\ PassInv /\ [PipeNext]_pipeVars => (TypeInv /\ VideoInv /\ PassInv)'
    BY NextTypes, VideoInvInductive, PassInvInductive
  <1>3. TypeInv /\ PassInv => PassTwoRuns
    <2> SUFFICES ASSUME TypeInv, PassInv, NEW j \in Jobs, ended[j] = "early" PROVE ops + faults > 0
      BY DEF PassTwoRuns
    <2>1. ~Calm
      BY DEF PassInv, CalmRows
    <2>2. ops \in Nat /\ faults \in Nat
      BY PipelineAssumption DEF TypeInv, PipeTypeOK
    <2> QED BY <2>1, <2>2 DEF Calm
  <1> QED BY <1>1, <1>2, <1>3, PTL DEF PipeSpec

\* A pass 2 that finds nothing to work on keeps the video of the run before it, for
\* any requests, failures and restarts: whenever the video is gone, pass 2 has all it
\* needs to make it again (the removal of the pass-1 video before the mix against
\* the early return of pass 2), when no two jobs dub one video.
THEOREM SkipKeepsVideo == OneJobPerVideo => (PipeSpec => SkippedKeepsVideo)
  <1> SUFFICES ASSUME OneJobPerVideo PROVE PipeSpec => SkippedKeepsVideo
    OBVIOUS
  <1>1. PipeInit => TypeInv /\ VideoInv /\ PassInv
    BY InitTypes, VideoInvInductive, PassInvInductive
  <1>2. TypeInv /\ VideoInv /\ PassInv /\ [PipeNext]_pipeVars => (TypeInv /\ VideoInv /\ PassInv)'
    BY NextTypes, VideoInvInductive, PassInvInductive
  <1>3. TypeInv /\ VideoInv /\ PassInv /\ [PipeNext]_pipeVars
          => [\A j \in Jobs :
                ended'[j] = "early" /\ ended[j] \in {"pass1", "pass2", "single"}
                  => VideoOf(j)' # None]_pipeVars
    <2> SUFFICES ASSUME TypeInv, VideoInv, PassInv, [PipeNext]_pipeVars, NEW j \in Jobs,
                        ended'[j] = "early", ended[j] \in {"pass1", "pass2", "single"}
                 PROVE  file'[<<"final", DirOf[j]>>] # None
      BY DEF VideoOf
    <2>1. PICK s \in Stages : LeaveEarly(s) /\ j = Me
      BY EndedSteps
    <2>2. ~ReadyAll(j)
      BY <2>1, EarlyNeeds DEF VideoInv, PassInv
    <2>3. file[<<"final", DirOf[j]>>] # None
      BY <2>2 DEF PassInv, Videos
    <2>4. file' = file
      BY <2>1 DEF LeaveEarly, disk
    <2> QED BY <2>3, <2>4
  <1> QED BY <1>1, <1>2, <1>3, PTL DEF PipeSpec, SkippedKeepsVideo

-----------------------------------------------------------------------------
\* The video that a run which ended well leaves.

\* A file that job j made from the track it synthesized last.
Current(j, c) == c # None /\ c.by = j /\ c.ver = made[j]["tts"]

TwoPasses ==
    /\ \A j \in TwoPassJobs : row[j].two = TRUE
    /\ pc # "idle" /\ Me \in TwoPassJobs => run.two = TRUE

\* Pass 2 makes track and video anew: from its synthesis on, what it has in hand is
\* the latest; and a job of two passes publishes in pass 2 only.
Carries ==
    /\ pc \in {"saveTts", "mix", "mux"} /\ run.pass2 => Current(Me, file[<<"tts", Me>>])
    /\ pc = "mux" /\ run.pass2 /\ file[<<"out", Me>>] # None => Current(Me, file[<<"out", Me>>])
    /\ pc \in {"saveMix", "move"} /\ run.pass2 => Current(Me, file[<<"out", Me>>])
    /\ pc \in {"publish", "finish"} /\ Me \in TwoPassJobs => run.pass2 /\ Current(Me, file[Final])

CurrentInv == TwoPasses /\ Carries /\ OutputIsCurrent

LEMMA TwoPassesKept ==
  ASSUME TypeInv, TwoPasses, [PipeNext]_pipeVars
  PROVE  TwoPasses'
  <1> ControlTypes /\ row \in [Jobs -> Row]
    BY TypeParts DEF TypeInv, ControlTypes
  <1> \A k \in Jobs : row[k] \in Row
    OBVIOUS
  <1>1. ASSUME NEW j \in TwoPassJobs PROVE row'[j].two = TRUE
    <2> j \in Jobs /\ row[j].two = TRUE
      BY PipelineAssumption DEF TwoPasses
    <2>1. ASSUME NEW k \in Jobs, NEW r, row' = [row EXCEPT ![k] = r], k = j => r.two = TRUE
          PROVE  row'[j].two = TRUE
      BY <2>1
    <2>2. ASSUME NEW k \in Jobs, Submit(k) \/ Resynth(k) \/ RerunPass2(k) \/ StartRun(k)
          PROVE  row'[j].two = TRUE
      <3>1. row[k] \in Row /\ (k = j => row[k].two = TRUE)
        OBVIOUS
      <3>2. CASE Submit(k)
        <4>1. k = j => [row[k] EXCEPT !.st = "QUEUED"].two = TRUE
          BY <3>1 DEF Row
        <4> QED BY <2>1, <3>2, <4>1, Requested
      <3>3. CASE Resynth(k)
        <4>1. k = j => [row[k] EXCEPT !.st = "QUEUED", !.resynth = TRUE].two = TRUE
          BY <3>1 DEF Row
        <4> QED BY <2>1, <3>3, <4>1, Requested
      <3>4. CASE RerunPass2(k)
        <4>1. [row[k] EXCEPT !.st = "QUEUED", !.req = TRUE, !.two = TRUE].two = TRUE
          BY <3>1 DEF Row
        <4> QED BY <2>1, <3>4, <4>1, Requested
      <3>5. CASE StartRun(k)
        <4>1. k = j => [row[k] EXCEPT !.st = "RUNNING", !.phase = PhaseOf(row[k])].two = TRUE
          BY <3>1 DEF Row
        <4> QED BY <2>1, <3>5, <4>1, Requested
      <3> QED BY <2>2, <3>2, <3>3, <3>4, <3>5
    <2>3. ASSUME NEW st, NEW how, Ends(st, how) PROVE row'[j].two = TRUE
      BY <2>3 DEF Ends, Row
    <2>4. CASE Requeue
      <3>1. Me \in Jobs /\ row[Me] \in Row
        BY <2>4, Running DEF Requeue, TypeInv
      <3>2. [row[Me] EXCEPT !.st = "QUEUED", !.phase = "pass2", !.two = TRUE].two = TRUE
        BY <3>1 DEF Row
      <3> QED BY <2>1, <2>4, <3>1, <3>2, RequeueRow DEF Requeue
    <2>5. CASE Finish
      BY <2>5 DEF Finish, Row
    <2>6. CASE CleanUp
      <3>1. Me \in Jobs /\ pc # "idle" /\ row[Me] \in Row
        BY <2>6, Running DEF CleanUp, TypeInv
      <3>2. Me = j => Cleared(row[Me]).two = TRUE
        BY <3>1, RequeueRow DEF Row
      <3> QED BY <2>1, <2>6, <3>1, <3>2, RequeueRow
    <2>7. CASE Crash
      BY <2>7 DEF Crash, Recovered, Row
    <2>8. ASSUME NEW s \in Stages, Stage(s) \/ FailRun(s) PROVE row'[j].two = TRUE
      BY <2>8, <2>3 DEF Stage, Skip, LeaveEarly, Make, Save, FailRun, Outcome
    <2>9. CASE \/ TranslateFails \/ SynthesisFails \/ MixFails \/ Move \/ Publish
               \/ UNCHANGED pipeVars
      BY <2>9 DEF TranslateFails, SynthesisFails, MixFails, Move, Publish, Outcome, pipeVars
    <2> QED BY <2>2, <2>4, <2>5, <2>6, <2>7, <2>8, <2>9 DEF PipeNext, Fails
  <1>2. ASSUME pc' # "idle", run'.job \in TwoPassJobs PROVE run'.two = TRUE
    <2>1. ASSUME NEW j \in Jobs, StartRun(j) PROVE run'.two = TRUE
      BY <1>2, <2>1 DEF StartRun, TwoPasses
    <2>2. CASE \E j \in Jobs : Submit(j) \/ Resynth(j) \/ RerunPass2(j)
      BY <1>2, <2>2 DEF Submit, Resynth, RerunPass2, Requests, HandlerRuns, TwoPasses, Me
    <2>3. CASE (\E s \in Stages : Stage(s)) \/ Fails
      <3>1. run' = run
        BY <1>2, <2>3 DEF Stage, Skip, LeaveEarly, Make, Save, Fails, FailRun, TranslateFails,
                          SynthesisFails, MixFails, Outcome, Ends
      <3>2. pc # "idle"
        BY <2>3, Savings DEF Stage, Skip, LeaveEarly, Make, Save, Fails, FailRun, TranslateFails,
                             SynthesisFails, MixFails, Stages
      <3> QED BY <1>2, <3>1, <3>2 DEF TwoPasses, Me
    <2>4. CASE Move \/ Requeue \/ Publish \/ Finish \/ CleanUp \/ Crash
      BY <1>2, <2>4 DEF Move, Requeue, Publish, Finish, CleanUp, Crash, Outcome, TwoPasses, Me
    <2>5. CASE UNCHANGED pipeVars
      BY <1>2, <2>5 DEF pipeVars, TwoPasses, Me
    <2> QED BY <2>1, <2>2, <2>3, <2>4, <2>5 DEF PipeNext
  <1> QED BY <1>1, <1>2 DEF TwoPasses, Me

\* Only the synthesis counts a new track.
LEMMA TrackCounts ==
  ASSUME TypeInv, [PipeNext]_pipeVars, NEW j \in Jobs, made'[j]["tts"] # made[j]["tts"]
  PROVE  pc = "tts" /\ j = Me
  <1>0. made \in [Jobs -> [Stages -> Nat]] /\ "tts" \in Stages
    BY DEF TypeInv, PipeTypeOK, Stages
  <1>1. ASSUME NEW s \in Stages, pc = s, Count(s) PROVE pc = "tts" /\ j = Me
    <2>1. made' = IF New(s) THEN [made EXCEPT ![Me][s] = @ + 1] ELSE made
      BY <1>1, CountIs DEF TypeInv, Stages
    <2>2. made' = [made EXCEPT ![Me][s] = @ + 1]
      BY <2>1
    <2> QED BY <1>0, <1>1, <2>2
  <1>2. CASE made' = made
    BY <1>2
  <1>3. ASSUME NEW s \in Stages, CutOff(s, Cleaned(s)), pc = s PROVE pc = "tts" /\ j = Me
    BY <1>1, <1>3 DEF CutOff
  <1>4. CASE \E k \in Jobs : Submit(k) \/ Resynth(k) \/ RerunPass2(k) \/ StartRun(k)
    BY <1>2, <1>4 DEF Submit, Resynth, RerunPass2, Requests, HandlerRuns, StartRun
  <1>5. ASSUME NEW s \in Stages, Stage(s) \/ FailRun(s) PROVE pc = "tts" /\ j = Me
    BY <1>1, <1>2, <1>3, <1>5 DEF Stage, Skip, LeaveEarly, Make, Save, FailRun
  <1>6. CASE TranslateFails \/ SynthesisFails \/ MixFails
    <2>1. CASE TranslateFails
      BY <1>1, <2>1 DEF TranslateFails, Stages
    <2>2. CASE SynthesisFails
      BY <1>1, <2>2 DEF SynthesisFails, Stages, CutOff
    <2>3. CASE MixFails
      BY <1>3, <2>3 DEF MixFails, Stages
    <2> QED BY <1>6, <2>1, <2>2, <2>3
  <1>7. CASE Move \/ Requeue \/ Publish \/ Finish \/ CleanUp \/ UNCHANGED pipeVars
    BY <1>2, <1>7 DEF Move, Requeue, Publish, Finish, CleanUp, pipeVars
  <1>8. CASE Crash
    BY <1>2, <1>3, <1>8 DEF Crash
  <1> QED BY <1>4, <1>5, <1>6, <1>7, <1>8 DEF PipeNext, Fails

\* The synthesis of pass 2 finds neither a track nor a copy of one.
LEMMA TrackIsNew ==
  ASSUME TypeInv, Caches, pc = "tts", run.pass2
  PROVE  /\ New("tts") /\ Product("tts") = Fresh("tts")
         /\ Cleaned("tts")[Target("tts")] = None
         /\ Ver("tts") = made[Me]["tts"] + 1
         /\ Target("tts") = <<"tts", Me>> /\ Me \in Jobs /\ "tts" \in Stages
  <1>1. Me \in Jobs /\ "tts" \in Stages /\ Dir = DirOf[Me] /\ pc # "idle"
    BY Running DEF TypeInv, Stages, Dir
  <1>2. Target("tts") = <<"tts", Me>>
    BY <1>1, Targets DEF Target
  <1>3. Cleaned("tts")[Target("tts")] = None
    BY <1>1, TargetsArePaths DEF Cleaned, Target
  <1>4. CachedFile("tts") = None
    <2>1. CASE cache[Dir]["tts"] = None
      BY <2>1 DEF CachedFile
    <2>2. CASE cache[Dir]["tts"] # None
      <3>1. cache[Dir]["tts"] = Me
        BY <1>1, <2>2 DEF Caches, Cacheable
      <3> QED BY <1>3, <3>1 DEF CachedFile, Target
    <2> QED BY <2>1, <2>2
  <1>5. New("tts")
    BY <1>3, <1>4 DEF New, Copied, Kept
  <1>6. Product("tts") = Fresh("tts")
    BY <1>1, <1>5, ProductIs
  <1> QED BY <1>1, <1>2, <1>3, <1>5, <1>6 DEF Ver

LEMMA TrackIsCurrent ==
  ASSUME TypeInv, Caches, pc = "tts", run.pass2, Leaves("tts"),
         file'[Target("tts")] \in {Silent[Target("tts")], Product("tts"), Torn("tts")}
  PROVE  /\ file'[<<"tts", Me>>] # None
         /\ file'[<<"tts", Me>>].by = Me
         /\ file'[<<"tts", Me>>].ver = made'[Me]["tts"]
  <1>1. made' = [made EXCEPT ![Me]["tts"] = @ + 1]
    BY TrackIsNew DEF Leaves
  <1>2. made'[Me]["tts"] = Ver("tts")
    BY <1>1, TrackIsNew DEF TypeInv, PipeTypeOK
  <1>3. Fresh("tts") \in Content
    BY TrackIsNew, FreshIs
  <1>4. Silent[Target("tts")] \in Content
        /\ Silent[Target("tts")] = [by |-> Me, ver |-> Ver("tts"), q |-> "silence"]
    BY TrackIsNew, SilentIs
  <1>5. /\ Fresh("tts").by = Me /\ Fresh("tts").ver = Ver("tts")
    BY DEF Fresh
  <1>6. /\ Torn("tts") \in Content /\ Torn("tts").by = Me /\ Torn("tts").ver = Ver("tts")
    BY <1>3, TrackIsNew DEF Torn, Fresh, Content
  <1>7. file'[Target("tts")] \in Content /\ file'[Target("tts")].by = Me
        /\ file'[Target("tts")].ver = Ver("tts")
    BY <1>3, <1>4, <1>5, <1>6, TrackIsNew
  <1> QED BY <1>2, <1>7, TrackIsNew, NoneAssumption
LEMMA MixIsCurrent ==
  ASSUME TypeInv, VideoInv, Carries, run.pass2, NEW s \in {"mix", "mux"}, pc = s
  PROVE  /\ Target(s) = <<"out", Me>> /\ Me \in Jobs
         /\ Product(s) \in Content /\ Current(Me, Product(s))
         /\ Torn(s) \in Content /\ Current(Me, Torn(s))
         /\ s = "mix" => Cleaned(s)[Target(s)] = None
  <1>1. s \in Stages /\ pc # "idle" /\ Wholes /\ PipeTypeOK
    BY DEF Stages, VideoInv, TypeInv
  <1>2. Me \in Jobs
    BY <1>1, Running
  <1>3. Target(s) = <<"out", Me>> /\ <<"out", Me>> \in Paths
    BY <1>2, Targets, Places DEF Target
  <1>4. Product(s) \in Content
    BY <1>1, VideoProduct
  <1>5. Current(Me, Product(s))
    <2>1. CASE Product(s) = Fresh(s)
      <3>1. Product(s).by = Me /\ Product(s).ver = file[<<"tts", Me>>].ver
        BY <2>1 DEF Fresh, Ver
      <3>2. file[<<"tts", Me>>].ver = made[Me]["tts"]
        BY DEF Carries, Current
      <3> QED BY <1>4, <3>1, <3>2, NoneAssumption DEF Current
    <2>2. CASE Product(s) # Fresh(s)
      <3>1. s = "mux" /\ Product(s) = Cleaned(s)[Target(s)]
        BY <1>1, <2>2, VideoProduct
      <3>2. Product(s) = file[<<"out", Me>>]
        BY <1>3, <3>1 DEF Cleaned
      <3>3. Product(s) # None
        BY <1>4, NoneAssumption
      <3> QED BY <3>1, <3>2, <3>3 DEF Carries
    <2> QED BY <2>1, <2>2
  <1>6. Torn(s) \in Content /\ Torn(s).by = Product(s).by /\ Torn(s).ver = Product(s).ver
    BY <1>4 DEF Torn, Content
  <1>7. Current(Me, Torn(s))
    BY <1>5, <1>6, NoneAssumption DEF Current
  <1>8. s = "mix" => Cleaned(s)[Target(s)] = None
    BY <1>3 DEF Cleaned
  <1> QED BY <1>2, <1>3, <1>4, <1>5, <1>6, <1>7, <1>8

LEMMA CarriesKept ==
  ASSUME OneJobPerVideo, TypeInv, VideoInv, TwoPasses, Carries, [PipeNext]_pipeVars
  PROVE  Carries'
  <1> Caches /\ Entries
    BY DEF VideoInv
  <1>0. pc # "tts" /\ pc # "idle" => Me \in Jobs /\ made'[Me]["tts"] = made[Me]["tts"]
    BY TrackCounts, Running DEF TypeInv
  <1>1. CASE \E j \in Jobs : Submit(j) \/ Resynth(j) \/ RerunPass2(j) \/ StartRun(j)
    BY <1>1 DEF Submit, Resynth, RerunPass2, Requests, HandlerRuns, StartRun, Carries
  <1>2. ASSUME NEW s \in Stages, Skip(s) PROVE Carries'
    <2>1. pc = s /\ Hit(s) /\ file' = file /\ run' = run /\ pc # "idle" /\ made' = made
          /\ pc' \in {After(s), AfterMove} /\ (s # "mix" => pc' = After(s))
      BY <1>2 DEF Skip, Outcome, disk, Stages
    <2>2. CASE s \in {"tts", "mix"}
      <3>1. ~run.pass2
        BY <2>1, <2>2 DEF Hit
      <3>2. Me \in TwoPassJobs => AfterMove = "requeue"
        BY <2>1, <3>1 DEF AfterMove, TwoPasses
      <3> QED BY <2>1, <2>2, <3>1, <3>2, NextPc DEF Carries, Me, AfterMove
    <2>3. CASE s = "mux"
      BY <2>1, <2>3, NoMuxHit
    <2>4. CASE s \notin {"tts", "mix", "mux"}
      BY <2>1, <2>4, NextPc DEF Stages, Carries
    <2> QED BY <2>2, <2>3, <2>4
  <1>3. ASSUME NEW s \in Stages, LeaveEarly(s) \/ FailRun(s) PROVE Carries'
    BY <1>3 DEF LeaveEarly, FailRun, Ends, Carries
  <1>4. ASSUME NEW s \in Stages, Make(s) PROVE Carries'
    <2>1. pc = s /\ Leaves(s) /\ file'[Target(s)] = Product(s) /\ run' = run
          /\ pc' = IF s = "mux" THEN "move" ELSE Saving[s]
      BY <1>4, MakeLeaves DEF Make, Outcome
    <2>2. CASE s \notin {"tts", "mix", "mux"}
      BY <2>1, <2>2, Savings DEF Stages, Carries
    <2>3. CASE ~run.pass2
      BY <2>1, <2>3, Savings DEF Stages, Carries
    <2>4. CASE s = "tts" /\ run.pass2
      <3>1. /\ file'[<<"tts", Me>>] # None
            /\ file'[<<"tts", Me>>].by = Me
            /\ file'[<<"tts", Me>>].ver = made'[Me]["tts"]
        BY <2>1, <2>4, TrackIsCurrent
      <3> QED BY <2>1, <2>4, <3>1, Savings DEF Carries, Current, Me
    <2>5. CASE s \in {"mix", "mux"} /\ run.pass2
      <3>1. Me \in Jobs /\ file'[<<"out", Me>>] = Product(s) /\ Current(Me, Product(s))
        BY <2>1, <2>5, MixIsCurrent
      <3>2. made'[Me]["tts"] = made[Me]["tts"]
        BY <1>0, <2>1, <2>5
      <3>3. pc' \in {"saveMix", "move"}
        BY <2>1, <2>5, Savings
      <3> QED BY <2>1, <3>1, <3>2, <3>3 DEF Carries, Current, Me
    <2> QED BY <2>2, <2>3, <2>4, <2>5
  <1>5. ASSUME NEW s \in Stages, Save(s) PROVE Carries'
    <2>1. pc = Saving[s] /\ pc' = After(s) /\ file' = file /\ run' = run /\ made' = made
          /\ s # "mux"
      BY <1>5, SavedIs DEF Save, Outcome
    <2>2. CASE s \in {"tts", "mix"}
      BY <2>1, <2>2, Savings, NextPc DEF Carries, Current, Me
    <2>3. CASE s \notin {"tts", "mix"}
      BY <2>1, <2>3, NextPc DEF Stages, Carries
    <2> QED BY <2>2, <2>3
  <1>6. CASE TranslateFails
    BY <1>6, Savings DEF TranslateFails, Carries
  <1>7. CASE SynthesisFails
    <2>1. pc = "tts" /\ pc' = "mix" /\ run' = run /\ Leaves("tts")
      BY <1>7, SynthesisFailsLeaves DEF SynthesisFails, Outcome
    <2>2. CASE ~run.pass2
      BY <2>1, <2>2 DEF Carries
    <2>3. CASE run.pass2
      <3>1. /\ file'[<<"tts", Me>>] # None
            /\ file'[<<"tts", Me>>].by = Me
            /\ file'[<<"tts", Me>>].ver = made'[Me]["tts"]
        BY <1>7, <2>1, <2>3, SynthesisFailsLeaves, TrackIsCurrent
      <3> QED BY <2>1, <3>1 DEF Carries, Current, Me
    <2> QED BY <2>2, <2>3
  <1>8. CASE MixFails
    <2>1. /\ pc = "mix" /\ pc' = "mux" /\ run' = run /\ Leaves("mix") /\ "mix" \in Stages
          /\ file'[Target("mix")] \in {Cleaned("mix")[Target("mix")], Product("mix"), Torn("mix")}
      BY <1>8, MixFailsIs DEF Outcome
    <2>2. CASE ~run.pass2
      BY <2>1, <2>2 DEF Carries
    <2>3. CASE run.pass2
      <3>1. /\ Target("mix") = <<"out", Me>> /\ Me \in Jobs
            /\ Current(Me, Product("mix")) /\ Current(Me, Torn("mix"))
            /\ Cleaned("mix")[Target("mix")] = None
        BY <2>1, <2>3, MixIsCurrent
      <3>2. made'[Me]["tts"] = made[Me]["tts"]
        BY <1>0, <2>1
      <3>3. file'[<<"out", Me>>] # None => Current(Me, file'[<<"out", Me>>])
        BY <2>1, <3>1
      <3>4. file'[<<"tts", Me>>] = file[<<"tts", Me>>]
        <4>1. <<"tts", Me>> \in Paths
          BY <3>1, Places
        <4>2. <<"tts", Me>> # Target("mix")
          BY <3>1
        <4>3. file'[<<"tts", Me>>] = Cleaned("mix")[<<"tts", Me>>]
          BY <2>1, <4>1, <4>2 DEF Leaves
        <4>4. <<"tts", Me>> # Final
          BY DEF Final
        <4>5. PipeTypeOK /\ pc # "idle"
          BY <2>1 DEF TypeInv
        <4> QED BY <2>1, <4>1, <4>2, <4>3, <4>4, <4>5, CleanedIs
      <3>5. Current(Me, file[<<"tts", Me>>])
        BY <2>1, <2>3 DEF Carries
      <3> QED BY <2>1, <3>2, <3>3, <3>4, <3>5 DEF Carries, Current, Me
    <2> QED BY <2>2, <2>3
  <1>9. CASE Move
    <2>1. pc = "move" /\ pc' = AfterMove /\ run' = run /\ PipeTypeOK /\ made' = made
      BY <1>9 DEF Move, Outcome, TypeInv
    <2>2. CASE ~run.pass2
      <3>1. Me \in TwoPassJobs => AfterMove = "requeue"
        BY <2>1, <2>2 DEF Move, AfterMove, TwoPasses
      <3> QED BY <2>1, <2>2, <3>1 DEF Carries, Me, AfterMove
    <2>3. CASE run.pass2
      <3>1. file' = [file EXCEPT ![Final] = file[<<"out", Me>>], ![<<"out", Me>>] = None]
        BY <1>9, <2>1 DEF Move, VideoInv, Moving
      <3>2. file'[Final] = file[<<"out", Me>>]
        BY <2>1, <3>1, FinalIs DEF PipeTypeOK
      <3>3. Current(Me, file[<<"out", Me>>])
        BY <2>1, <2>3 DEF Carries
      <3> QED BY <2>1, <2>3, <3>2, <3>3, NextPc DEF Carries, Current, Me, Final, Dir
    <2> QED BY <2>2, <2>3
  <1>10. CASE Publish
    BY <1>10 DEF Publish, Outcome, Carries, Current, Me, Final, Dir
  <1>11. CASE Requeue \/ Finish \/ CleanUp \/ Crash
    BY <1>11 DEF Requeue, Finish, CleanUp, Crash, Carries
  <1>12. CASE UNCHANGED pipeVars
    BY <1>12 DEF pipeVars, Carries, Current, Me, Final, Dir
  <1> QED BY <1>1, <1>2, <1>3, <1>4, <1>5, <1>6, <1>7, <1>8, <1>9, <1>10, <1>11, <1>12
          DEF PipeNext, Stage, Fails

\* A job becomes DONE at the end of a run only.
LEMMA DoneSteps ==
  ASSUME TypeInv, [PipeNext]_pipeVars, NEW j \in Jobs, row'[j].st = "DONE"
  PROVE  row[j].st = "DONE" \/ (j = Me /\ (Finish \/ ended'[j] = "early"))
  <1> ControlTypes /\ row \in [Jobs -> Row]
    BY TypeParts DEF TypeInv, ControlTypes
  <1> \A k \in Jobs : row[k] \in Row
    OBVIOUS
  <1> ended \in [Jobs -> {"never", "early", "failed", "pass1", "pass2", "single"}]
    BY DEF ControlTypes
  <1>1. ASSUME NEW k \in Jobs, NEW r, row' = [row EXCEPT ![k] = r], r.st # "DONE"
        PROVE  row[j].st = "DONE"
    BY <1>1
  <1>2. ASSUME NEW k \in Jobs, Submit(k) \/ Resynth(k) \/ RerunPass2(k) \/ StartRun(k)
        PROVE  row[j].st = "DONE"
    <2>1. row[k] \in Row
      OBVIOUS
    <2>2. CASE Submit(k)
      <3>1. [row[k] EXCEPT !.st = "QUEUED"].st # "DONE"
        BY <2>1 DEF Row
      <3> QED BY <1>1, <2>2, <3>1, Requested
    <2>3. CASE Resynth(k)
      <3>1. [row[k] EXCEPT !.st = "QUEUED", !.resynth = TRUE].st # "DONE"
        BY <2>1 DEF Row
      <3> QED BY <1>1, <2>3, <3>1, Requested
    <2>4. CASE RerunPass2(k)
      <3>1. [row[k] EXCEPT !.st = "QUEUED", !.req = TRUE, !.two = TRUE].st # "DONE"
        BY <2>1 DEF Row
      <3> QED BY <1>1, <2>4, <3>1, Requested
    <2>5. CASE StartRun(k)
      <3>1. [row[k] EXCEPT !.st = "RUNNING", !.phase = PhaseOf(row[k])].st # "DONE"
        BY <2>1 DEF Row
      <3> QED BY <1>1, <2>5, <3>1, Requested
    <2> QED BY <1>2, <2>2, <2>3, <2>4, <2>5
  <1>3. CASE row' = row
    BY <1>3
  <1>4. ASSUME NEW s \in Stages, LeaveEarly(s)
        PROVE  row[j].st = "DONE" \/ (j = Me /\ ended'[j] = "early")
    BY <1>4 DEF LeaveEarly, Ends
  <1>5. ASSUME NEW s \in Stages, FailRun(s) PROVE row[j].st = "DONE"
    BY <1>5 DEF FailRun, Ends, Row
  <1>6. CASE Requeue
    <2>1. Me \in Jobs /\ row[Me] \in Row
      BY <1>6, Running DEF Requeue, TypeInv
    <2>2. [row[Me] EXCEPT !.st = "QUEUED", !.phase = "pass2", !.two = TRUE].st # "DONE"
      BY <2>1 DEF Row
    <2> QED BY <1>1, <1>6, <2>1, <2>2, RequeueRow DEF Requeue
  <1>7. CASE Finish
    BY <1>7 DEF Finish
  <1>8. CASE CleanUp
    <2>1. Me \in Jobs /\ pc # "idle" /\ row[Me] \in Row
      BY <1>8, Running DEF CleanUp, TypeInv
    <2>2. Cleared(row[Me]).st = row[Me].st
      BY <2>1, RequeueRow DEF Row
    <2> QED BY <1>8, <2>1, <2>2, RequeueRow
  <1>9. CASE Crash
    BY <1>9 DEF Crash, Recovered, Row
  <1>10. ASSUME NEW s \in Stages, Skip(s) \/ Make(s) \/ Save(s) PROVE row' = row
    BY <1>10 DEF Skip, Make, Save, Outcome
  <1>11. CASE \/ TranslateFails \/ SynthesisFails \/ MixFails \/ Move \/ Publish
              \/ UNCHANGED pipeVars
    BY <1>3, <1>11 DEF TranslateFails, SynthesisFails, MixFails, Move, Publish, Outcome, pipeVars
  <1> QED BY <1>2, <1>3, <1>4, <1>5, <1>6, <1>7, <1>8, <1>9, <1>10, <1>11
          DEF PipeNext, Stage, Fails

\* A published video is changed only while its job runs.
LEMMA VideoChanges ==
  ASSUME OneJobPerVideo, TypeInv, VideoInv, [PipeNext]_pipeVars, NEW j \in Jobs,
         file'[<<"final", DirOf[j]>>] # file[<<"final", DirOf[j]>>]
  PROVE  j = Me /\ pc \in Stages \cup {"move"}
  <1> DEFINE p == <<"final", DirOf[j]>>
  <1>0. p \in Paths
    BY Places
  <1>1. file' # file
    OBVIOUS
  <1>2. ASSUME NEW s \in Stages, Writes(s) PROVE j = Me /\ pc \in Stages
    <2>1. Me \in Jobs /\ Target(s) = TargetOf(s, Me) /\ pc = s
      BY <1>2, WritesOwn DEF Writes
    <2>2. p # Target(s)
      <3>1. Target(s) \in {<<"wav", Me>>, <<"srt", Me>>, <<"tr", DirOf[Me]>>, <<"tts", Me>>, <<"out", Me>>}
        BY <2>1, Targets DEF Stages
      <3> QED BY <3>1
    <2>3. p = Final
      BY <1>0, <1>2, <2>2, WritesOwn
    <2>4. DirOf[j] = DirOf[Me]
      BY <2>3 DEF Final, Dir
    <2> QED BY <2>1, <2>4 DEF OneJobPerVideo
  <1>3. ASSUME NEW s \in Stages, Save(s) PROVE FALSE
    BY <1>1, <1>3 DEF Save
  <1>4. CASE Move
    <2>1. pc = "move" /\ Me \in Jobs /\ PipeTypeOK
      BY <1>4, Running DEF Move, TypeInv
    <2>2. file' = [file EXCEPT ![Final] = file[<<"out", Me>>], ![<<"out", Me>>] = None]
      BY <1>1, <1>4 DEF Move
    <2>3. p = Final \/ p = <<"out", Me>>
      BY <1>0, <2>1, <2>2 DEF PipeTypeOK
    <2>4. DirOf[j] = DirOf[Me]
      BY <2>3 DEF Final, Dir
    <2> QED BY <2>1, <2>4 DEF OneJobPerVideo
  <1>5. CASE Publish \/ UNCHANGED disk
    BY <1>1, <1>5 DEF Publish, disk
  <1>6. CASE CleanUp
    <2>1. Me \in Jobs
      BY <1>6, Running DEF CleanUp, TypeInv
    <2>2. p \notin WorkPaths(Me)
      <3>1. WorkPaths(Me) = {<<"wav", Me>>, <<"srt", Me>>, <<"tts", Me>>, <<"out", Me>>}
        BY <2>1, Places
      <3> QED BY <3>1
    <2> QED BY <1>0, <1>6, <2>2 DEF CleanUp, NoWork
  <1> QED BY <1>2, <1>3, <1>4, <1>5, <1>6, DiskSteps

LEMMA OutputKept ==
  ASSUME OneJobPerVideo, TypeInv, VideoInv, CurrentInv, [PipeNext]_pipeVars
  PROVE  OutputIsCurrent'
  <1> SUFFICES ASSUME NEW j \in TwoPassJobs, row'[j].st = "DONE",
                      ended'[j] \in {"pass2", "single"}
               PROVE  /\ file'[<<"final", DirOf[j]>>] # None
                      /\ file'[<<"final", DirOf[j]>>].by = j
                      /\ file'[<<"final", DirOf[j]>>].ver = made'[j]["tts"]
    BY DEF OutputIsCurrent, LastTrackIsOut, VideoOf
  <1> j \in Jobs
    BY PipelineAssumption
  <1>1. CASE j = Me /\ Finish
    <2>1. pc = "finish" /\ file' = file /\ made' = made
      BY <1>1 DEF Finish, disk
    <2>2. Current(j, file[<<"final", DirOf[j]>>])
      BY <1>1, <2>1 DEF CurrentInv, Carries, Final, Dir
    <2> QED BY <2>1, <2>2 DEF Current
  <1>2. CASE ~(j = Me /\ Finish)
    <2>1. row[j].st = "DONE"
      BY <1>2, DoneSteps
    <2>2. ended'[j] = ended[j]
      BY <1>2, EndedSteps
    <2>3. ~(j = Me /\ pc \notin {"idle", "notify"})
      BY <2>1 DEF TypeInv, PipeTypeOK
    <2>4. file'[<<"final", DirOf[j]>>] = file[<<"final", DirOf[j]>>]
      BY <2>3, VideoChanges DEF Stages
    <2>5. made'[j]["tts"] = made[j]["tts"]
      BY <2>3, TrackCounts
    <2> QED BY <2>1, <2>2, <2>4, <2>5 DEF CurrentInv, OutputIsCurrent, LastTrackIsOut, VideoOf
  <1> QED BY <1>1, <1>2

\* A run that ended well leaves the video of its own job, made from the dialogue
\* track synthesized last, however many requests, failures and restarts came before
\* (the skips of _run_job's stages, the removals of pass 2, the checkpoint of the
\* mix moved to the published video): for the jobs submitted with two passes, when
\* no two jobs dub one video.
THEOREM VideoIsCurrent == OneJobPerVideo => (PipeSpec => []OutputIsCurrent)
  <1> SUFFICES ASSUME OneJobPerVideo PROVE PipeSpec => []OutputIsCurrent
    OBVIOUS
  <1>1. PipeInit => TypeInv /\ VideoInv /\ CurrentInv
    <2> SUFFICES ASSUME PipeInit PROVE CurrentInv
      BY InitTypes, VideoInvInductive
    <2>1. TwoPasses /\ Carries
      BY PipelineAssumption DEF PipeInit, TwoPasses, Carries
    <2>2. OutputIsCurrent
      BY PipelineAssumption DEF PipeInit, OutputIsCurrent, LastTrackIsOut
    <2> QED BY <2>1, <2>2 DEF CurrentInv
  <1>2. TypeInv /\ VideoInv /\ CurrentInv /\ [PipeNext]_pipeVars
          => (TypeInv /\ VideoInv /\ CurrentInv)'
    BY NextTypes, VideoInvInductive, TwoPassesKept, CarriesKept, OutputKept DEF CurrentInv
  <1>3. CurrentInv => OutputIsCurrent
    BY DEF CurrentInv
  <1> QED BY <1>1, <1>2, <1>3, PTL DEF PipeSpec


==============================================================================
