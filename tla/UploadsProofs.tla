----------------------------- MODULE UploadsProofs -----------------------------
(***************************************************************************)
(* What the resumable uploads promise, for any number of uploads, requests *)
(* under way, chunks and versions, with retention and with the process     *)
(* dying between any two writes: the files of an upload against its row.   *)
(***************************************************************************)
EXTENDS Uploads, TLAPS

Chunk == [pc : {"chunk"}, u : Uploads, i : Chunks, v : Versions, row : Rows]
Completion == [pc : {"json", "quota"}, u : Uploads, sha : Sums, row : Rows]

FileTypes ==
    /\ row \in [Uploads -> Rows \cup {NoRow}]
    /\ part \in [Uploads -> Contents \cup {NoFile}]
    /\ final \in [Uploads -> Contents \cup {NoFile}]
    /\ calls \in [Clients -> {Free} \cup Chunk \cup Completion]
    /\ setup \in Setups

Here(u) == row[u] # NoRow
Open(u) == Here(u) /\ ~row[u].done
Holding(c) == calls[c] # Free /\ calls[c].pc = "quota"

\* A request knows its upload: the row it read is the row of that id, of which
\* the announced checksum never changes, or the row has been deleted for good.
Knows(c) ==
    calls[c] # Free =>
        IF Here(calls[c].u) THEN row[calls[c].u].sha = calls[c].row.sha
        ELSE calls[c].u \in gone

\* The completion that holds the lock read what the row still says.
ReadsRight(c) ==
    Holding(c) /\ Here(calls[c].u)
        => Open(calls[c].u) /\ row[calls[c].u].got = calls[c].row.got

\* There is one such completion.
OneHolds(c, d) == Holding(c) /\ Holding(d) /\ calls[c].u = calls[d].u => c = d

\* A new session finds no part file of its id.
StartsEmpty(u) == ~Here(u) /\ u \notin gone => part[u] = NoFile

\* A chunk that counts as received is in the part file, also one that a process
\* wrote and died before it could say so.
Covered(u) ==
    u \notin lost /\ Open(u) =>
        \A i \in Chunks : row[u].got[i] # Hole => part[u] # NoFile /\ part[u][i] # Hole

Announced(u) == Done(u) /\ final[u] # NoFile => Agrees(final[u], row[u].sha)
Agreed(u) ==
    u \notin lost \cup torn /\ Open(u)
        => row[u].got = IF part[u] = NoFile THEN Empty ELSE part[u]
Whole(u) == u \notin lost /\ Done(u) /\ final[u] # NoFile => Missing(final[u]) = {}

CallsOK == \A c \in Clients : Knows(c) /\ ReadsRight(c) /\ \A d \in Clients : OneHolds(c, d)
UploadOK(u) == StartsEmpty(u) /\ Covered(u) /\ Announced(u) /\ Agreed(u) /\ Whole(u)

FileInv == FileTypes /\ CallsOK /\ \A u \in Uploads : UploadOK(u)

LEMMA InitFileInv == UpInit => FileInv
  BY UploadsAssumption
     DEF UpInit, FileInv, FileTypes, CallsOK, UploadOK, Knows, ReadsRight, OneHolds, StartsEmpty, Covered,
         Announced, Agreed, Whole, Here, Open, Holding, Done

\* What the three properties say of an upload, in the words of the invariant.
LEMMA FileInvImplies == FileInv => FinalIsAnnounced /\ PartIsReceived /\ FinalIsWhole
  BY DEF FileInv, UploadOK, Announced, Agreed, Whole, Open, Here, FinalIsAnnounced, PartIsReceived,
         FinalIsWhole

-----------------------------------------------------------------------------
\* Facts about the values.

LEMMA Values ==
  /\ \A v \in Versions : v # Hole
  /\ Empty \in Contents
  /\ \A f \in Contents : f # NoFile
  /\ \A r \in Rows : r # NoRow /\ r.got \in Contents /\ r.done \in BOOLEAN
                     /\ r.sha \in Sums /\ r.idle \in BOOLEAN
  /\ \A f \in Contents, i \in Chunks, v \in Versions : [f EXCEPT ![i] = v] \in Contents
  /\ N \in Chunks
  /\ \A x \in Setups : x.versions \subseteq Versions
  BY UploadsAssumption, SentinelAssumption
     DEF Contents, Rows, Empty, Chunks, Settings

-----------------------------------------------------------------------------
\* Steps that leave the files and rows, or the requests, alone.

LEMMA FilesAlone ==
  ASSUME FileInv, UNCHANGED <<row, part, final, gone, lost, torn>>
  PROVE  \A u \in Uploads : UploadOK(u)'
  BY DEF FileInv, UploadOK, StartsEmpty, Covered, Announced, Agreed, Whole, Here, Open, Done

LEMMA UploadAlone ==
  ASSUME NEW u \in Uploads, UploadOK(u),
         row'[u] = row[u], part'[u] = part[u], final'[u] = final[u],
         gone \subseteq gone', lost \subseteq lost', torn \subseteq torn'
  PROVE  UploadOK(u)'
  <1>1. StartsEmpty(u)' /\ Covered(u)'
    BY DEF UploadOK, StartsEmpty, Covered, Here, Open
  <1>2. Announced(u)' /\ Agreed(u)' /\ Whole(u)'
    BY DEF UploadOK, Announced, Agreed, Whole, Here, Open, Done
  <1> QED BY <1>1, <1>2 DEF UploadOK

\* Requests are answered or go on; rows keep what the requests know of them.
LEMMA CallsAnswered ==
  ASSUME FileInv,
         \A c \in Clients : calls'[c] = calls[c] \/ calls'[c] = Free,
         gone \subseteq gone',
         \A u \in Uploads :
            /\ Here(u)' => Here(u) /\ row'[u].sha = row[u].sha
            /\ ~Here(u)' => ~Here(u) \/ u \in gone',
         \A c \in Clients :
            Holding(c)' /\ Here(calls[c].u)' =>
               /\ row'[calls[c].u].got = row[calls[c].u].got
               /\ row'[calls[c].u].done = row[calls[c].u].done
  PROVE  CallsOK'
  <1> SUFFICES ASSUME NEW c \in Clients, NEW d \in Clients
               PROVE  Knows(c)' /\ ReadsRight(c)' /\ OneHolds(c, d)'
    BY DEF CallsOK
  <1>1. calls[c] # Free => calls[c].u \in Uploads
    BY DEF FileInv, FileTypes, Chunk, Completion
  <1>2. Knows(c) /\ ReadsRight(c) /\ OneHolds(c, d)
    BY DEF FileInv, CallsOK
  <1>3. Knows(c)'
    BY <1>1, <1>2 DEF Knows, Here
  <1>4. ReadsRight(c)'
    BY <1>1, <1>2 DEF ReadsRight, Holding, Here, Open
  <1>5. OneHolds(c, d)'
    BY <1>2 DEF OneHolds, Holding
  <1> QED BY <1>3, <1>4, <1>5

-----------------------------------------------------------------------------
\* Sessions and requests that arrive.

LEMMA NewKeeps ==
  ASSUME FileInv, NEW u \in Uploads, New(u)
  PROVE  FileInv'
  <1> PICK sha \in Sums :
        row' = [row EXCEPT ![u] = [got |-> Empty, done |-> FALSE, sha |-> sha, idle |-> FALSE]]
    BY DEF New
  <1>0. /\ row[u] = NoRow /\ u \notin gone /\ part[u] = NoFile
        /\ UNCHANGED <<fileVars, calls, history, setup>>
    BY DEF New, FileInv, UploadOK, StartsEmpty, Here
  <1>1. FileTypes'
    BY <1>0, Values DEF FileInv, FileTypes, fileVars, Rows
  <1>2. row'[u] \in Rows /\ row'[u].got = Empty /\ row'[u].done = FALSE
        /\ \A x \in Uploads \ {u} : row'[x] = row[x]
    BY Values DEF FileInv, FileTypes, Rows
  <1>3. CallsOK'
    <2>1. \A c \in Clients : calls[c] # Free => calls[c].u \in Uploads \ {u}
      BY <1>0 DEF FileInv, FileTypes, CallsOK, Knows, Here, Chunk, Completion
    <2> QED BY <1>0, <1>2, <2>1
            DEF FileInv, CallsOK, Knows, ReadsRight, OneHolds, Holding, Here, Open, history
  <1>4. ASSUME NEW x \in Uploads PROVE UploadOK(x)'
    BY <1>0, <1>2, Values
       DEF FileInv, UploadOK, StartsEmpty, Covered, Announced, Agreed, Whole, Here, Open, Done,
           Empty, fileVars, history
  <1> QED BY <1>1, <1>3, <1>4 DEF FileInv

\* Only the time of the last work on an upload changes.
LEMMA IdleKeeps ==
  ASSUME FileInv, NEW u \in Uploads, row[u] # NoRow, NEW b \in BOOLEAN,
         row' = [row EXCEPT ![u].idle = b],
         UNCHANGED <<part, final, calls, history, setup>>
  PROVE  FileInv'
  <1>1. \A x \in Uploads :
          /\ row[x] = NoRow => row'[x] = NoRow
          /\ row[x] # NoRow => /\ row'[x] \in Rows /\ row[x] \in Rows
                               /\ row'[x].got = row[x].got /\ row'[x].done = row[x].done
                               /\ row'[x].sha = row[x].sha
    BY Values DEF FileInv, FileTypes, Rows
  <1>2. FileTypes'
    BY <1>1 DEF FileInv, FileTypes
  <1>3. CallsOK'
    BY <1>1, CallsAnswered, Values DEF Here, history
  <1>4. ASSUME NEW x \in Uploads PROVE UploadOK(x)'
    BY <1>1, Values
       DEF FileInv, UploadOK, StartsEmpty, Covered, Announced, Agreed, Whole, Here, Open, Done, history
  <1> QED BY <1>2, <1>3, <1>4 DEF FileInv

LEMMA TakeUpKeeps ==
  ASSUME FileInv, NEW u \in Uploads, TakeUp(u)
  PROVE  FileInv'
  BY IdleKeeps DEF TakeUp, fileVars, history

LEMMA AgeKeeps ==
  ASSUME FileInv, NEW u \in Uploads, Age(u)
  PROVE  FileInv'
  BY IdleKeeps DEF Age, history

\* A request that arrives holds nothing yet.
LEMMA SendKeeps ==
  ASSUME FileInv, NEW c \in Clients, Send(c)
  PROVE  FileInv'
  <1> PICK u \in Uploads :
        \/ \E i \in Chunks, v \in setup.versions : SendChunk(c, u, i, v)
        \/ \E sha \in Sums : SendComplete(c, u, sha)
    BY DEF Send
  <1>1. PICK call \in Chunk \cup Completion :
          /\ calls' = [calls EXCEPT ![c] = call]
          /\ call.u = u /\ call.row = row[u] /\ call.pc # "quota"
          /\ row[u] # NoRow
          /\ UNCHANGED <<row, part, final, history, setup>>
    <2>1. ASSUME NEW i \in Chunks, NEW v \in setup.versions, SendChunk(c, u, i, v)
          PROVE  /\ [pc |-> "chunk", u |-> u, i |-> i, v |-> v, row |-> row[u]] \in Chunk
                 /\ calls' = [calls EXCEPT
                        ![c] = [pc |-> "chunk", u |-> u, i |-> i, v |-> v, row |-> row[u]]]
                 /\ row[u] # NoRow
                 /\ UNCHANGED <<row, part, final, history, setup>>
      BY <2>1, Values DEF SendChunk, FileInv, FileTypes, Chunk, storeVars, fileVars
    <2>2. ASSUME NEW sha \in Sums, SendComplete(c, u, sha)
          PROVE  /\ [pc |-> "json", u |-> u, sha |-> sha, row |-> row[u]] \in Completion
                 /\ calls' = [calls EXCEPT
                        ![c] = [pc |-> "json", u |-> u, sha |-> sha, row |-> row[u]]]
                 /\ row[u] # NoRow
                 /\ UNCHANGED <<row, part, final, history, setup>>
      BY <2>2 DEF SendComplete, FileInv, FileTypes, Completion, storeVars, fileVars
    <2> QED BY <2>1, <2>2
  <1>2. FileTypes'
    BY <1>1 DEF FileInv, FileTypes
  <1>3. calls'[c] = call /\ \A d \in Clients \ {c} : calls'[d] = calls[d]
    BY <1>1 DEF FileInv, FileTypes
  <1>4. CallsOK'
    BY <1>1, <1>3 DEF FileInv, CallsOK, Knows, ReadsRight, OneHolds, Holding, Here, Open, history
  <1> QED BY <1>1, <1>2, <1>4, FilesAlone DEF FileInv, history

\* An answer that changes nothing.
LEMMA AnswerKeeps ==
  ASSUME FileInv, NEW c \in Clients, Answer(c),
         UNCHANGED <<row, part, final, history, setup>>
  PROVE  FileInv'
  <1>1. FileTypes' /\ \A d \in Clients : calls'[d] = calls[d] \/ calls'[d] = Free
    BY DEF FileInv, FileTypes, Answer
  <1>2. CallsOK'
    BY <1>1, CallsAnswered DEF Here, history
  <1> QED BY <1>1, <1>2, FilesAlone DEF FileInv, history

-----------------------------------------------------------------------------
\* A chunk is written where no completion holds the upload.

\* What the write makes of the part file of the chunk's upload u.
ChunkOf(c, u, i, v) == AtChunk(c) /\ calls[c].u = u /\ calls[c].i = i /\ calls[c].v = v
PartOf(u) == IF part[u] = NoFile THEN Empty ELSE part[u]

LEMMA ChunkWrites ==
  ASSUME FileInv, NEW c \in Clients, AtChunk(c), Write(c)
  PROVE  \E u \in Uploads, i \in Chunks, v \in Versions :
           /\ ChunkOf(c, u, i, v)
           /\ PartOf(u) \in Contents
           /\ part' = [part EXCEPT ![u] = [PartOf(u) EXCEPT ![i] = v]]
           /\ part'[u] = [PartOf(u) EXCEPT ![i] = v]
           /\ part'[u] \in Contents /\ part'[u] # NoFile
           /\ \A x \in Uploads \ {u} : part'[x] = part[x]
           /\ part' \in [Uploads -> Contents \cup {NoFile}]
           /\ \A d \in Clients : Holding(d) => calls[d].u \in Uploads \ {u}
  <1> PICK u \in Uploads, i \in Chunks, v \in Versions : ChunkOf(c, u, i, v)
    BY DEF FileInv, FileTypes, AtChunk, ChunkOf, Chunk, Completion
  <1>1. PartOf(u) \in Contents /\ part' = [part EXCEPT ![u] = [PartOf(u) EXCEPT ![i] = v]]
    BY Values DEF FileInv, FileTypes, Write, PartOf, ChunkOf
  <1>2. \A d \in Clients : Holding(d) => calls[d].u \in Uploads \ {u}
    BY DEF FileInv, FileTypes, ChunkOf, AtChunk, Locked, Holding, Chunk, Completion
  <1>3. [PartOf(u) EXCEPT ![i] = v] \in Contents /\ part \in [Uploads -> Contents \cup {NoFile}]
    BY <1>1, Values DEF FileInv, FileTypes
  <1> QED BY <1>1, <1>2, <1>3, Values

\* The chunk may or may not have been noted in the row.
LEMMA ChunkKeepsUpload ==
  ASSUME FileInv, NEW u \in Uploads, NEW i \in Chunks, NEW v \in Versions,
         PartOf(u) \in Contents,
         part'[u] = [PartOf(u) EXCEPT ![i] = v], part'[u] # NoFile,
         \/ row'[u] = row[u] /\ u \in torn'
         \/ row[u] = NoRow /\ row'[u] = NoRow
         \/ /\ row[u] # NoRow /\ row'[u] # NoRow
            /\ row'[u].got = [row[u].got EXCEPT ![i] = v]
            /\ row'[u].done = row[u].done /\ row'[u].sha = row[u].sha,
         row[u] # NoRow \/ u \in gone,
         final'[u] = final[u], lost' = lost, torn \subseteq torn', gone' = gone
  PROVE  UploadOK(u)'
  <1> USE DEF Here, Open, Done
  <1>1. UploadOK(u) /\ (row[u] # NoRow => row[u].got \in Contents) /\ v # Hole
    BY Values DEF FileInv, FileTypes
  <1>2. StartsEmpty(u)'
    BY <1>1 DEF StartsEmpty
  <1>3. Covered(u)'
    <2> SUFFICES ASSUME u \notin lost, Open(u)', NEW k \in Chunks, row'[u].got[k] # Hole
                 PROVE  part'[u][k] # Hole
      BY DEF Covered
    <2>1. k # i => row[u].got[k] # Hole
      BY <1>1 DEF Contents
    <2>2. k # i => part[u] # NoFile /\ part[u][k] # Hole
      BY <1>1, <2>1 DEF UploadOK, Covered
    <2> QED BY <1>1, <2>2 DEF PartOf, Contents
  <1>4. Announced(u)' /\ Whole(u)'
    BY <1>1 DEF UploadOK, Announced, Whole
  <1>5. Agreed(u)'
    <2> SUFFICES ASSUME Open(u)', u \notin lost \cup torn'
                 PROVE  row'[u].got = part'[u]
      BY DEF Agreed
    <2>1. row[u].got = PartOf(u)
      BY <1>1 DEF UploadOK, Agreed, PartOf
    <2> QED BY <2>1
  <1> QED BY <1>2, <1>3, <1>4, <1>5 DEF UploadOK

LEMMA KeepChunkKeeps ==
  ASSUME FileInv, NEW c \in Clients, KeepChunk(c)
  PROVE  FileInv'
  <1>0. /\ AtChunk(c) /\ Write(c) /\ Received(c) /\ Answer(c)
        /\ UNCHANGED <<final, history, setup>>
    BY DEF KeepChunk
  <1>1. PICK u \in Uploads, i \in Chunks, v \in Versions :
          /\ ChunkOf(c, u, i, v)
          /\ PartOf(u) \in Contents
          /\ part'[u] = [PartOf(u) EXCEPT ![i] = v]
          /\ part'[u] \in Contents /\ part'[u] # NoFile
          /\ \A x \in Uploads \ {u} : part'[x] = part[x]
          /\ part' \in [Uploads -> Contents \cup {NoFile}]
          /\ \A d \in Clients : Holding(d) => calls[d].u \in Uploads \ {u}
    BY <1>0, ChunkWrites
  <1>2. row[u] # NoRow \/ u \in gone
    BY <1>1 DEF FileInv, CallsOK, Knows, Here, ChunkOf, AtChunk
  <1>3. /\ row' \in [Uploads -> Rows \cup {NoRow}]
        /\ \A x \in Uploads \ {u} : row'[x] = row[x]
        /\ row[u] = NoRow => row'[u] = NoRow
        /\ row[u] # NoRow =>
              /\ row'[u] # NoRow
              /\ row'[u].got = [row[u].got EXCEPT ![i] = v]
              /\ row'[u].done = row[u].done /\ row'[u].sha = row[u].sha
    <2>1. row \in [Uploads -> Rows \cup {NoRow}]
      BY DEF FileInv, FileTypes
    <2>2. calls[c].u = u /\ calls[c].i = i /\ calls[c].v = v
          /\ (row[u] # NoRow => Reread(c) = row[u])
      BY <1>1 DEF ChunkOf, Reread
    <2>3. CASE row[u] = NoRow
      BY <1>0, <2>1, <2>2, <2>3 DEF Received
    <2>4. CASE row[u] # NoRow
      <3> DEFINE r == [row[u] EXCEPT !.got = [@ EXCEPT ![i] = v], !.idle = FALSE]
      <3>1. r \in Rows /\ r.got = [row[u].got EXCEPT ![i] = v]
            /\ r.done = row[u].done /\ r.sha = row[u].sha
        BY <2>1, <2>4, Values DEF Rows
      <3>2. row' = [row EXCEPT ![u] = r]
        BY <1>0, <2>1, <2>2, <2>4 DEF Received
      <3> HIDE DEF r
      <3> QED BY <2>1, <2>4, <3>1, <3>2, Values
    <2> QED BY <2>3, <2>4
  <1>4. \/ row[u] = NoRow /\ row'[u] = NoRow
        \/ /\ row[u] # NoRow /\ row'[u] # NoRow
           /\ row'[u].got = [row[u].got EXCEPT ![i] = v]
           /\ row'[u].done = row[u].done /\ row'[u].sha = row[u].sha
    BY <1>3
  <1>5. /\ calls' \in [Clients -> {Free} \cup Chunk \cup Completion]
        /\ \A d \in Clients : calls'[d] = calls[d] \/ calls'[d] = Free
    BY <1>0 DEF Answer, FileInv, FileTypes
  <1>6. FileTypes'
    BY <1>0, <1>1, <1>3, <1>5 DEF FileInv, FileTypes
  <1>7. CallsOK'
    <2>1. \A d \in Clients : Holding(d)' => Holding(d)
      BY <1>5 DEF Holding
    <2> QED BY <1>0, <1>1, <1>3, <1>4, <1>5, <2>1, CallsAnswered DEF Here, history
  <1>8. ASSUME NEW x \in Uploads PROVE UploadOK(x)'
    <2>1. CASE x = u
      BY <1>0, <1>1, <1>2, <1>4, <2>1, ChunkKeepsUpload DEF history
    <2>2. CASE x # u
      BY <1>0, <1>1, <1>3, <2>2, UploadAlone DEF FileInv, history
    <2> QED BY <2>1, <2>2
  <1> QED BY <1>6, <1>7, <1>8 DEF FileInv

-----------------------------------------------------------------------------
\* Completions.

LEMMA LockKeeps ==
  ASSUME FileInv, NEW c \in Clients, Lock(c)
  PROVE  FileInv'
  <1>0. /\ calls[c] # Free /\ calls[c].pc = "json" /\ ~Locked(calls[c].u)
        /\ UNCHANGED <<row, part, final, history, setup>>
    BY DEF Lock, storeVars, fileVars
  <1>1. CASE Answer(c)
    BY <1>0, <1>1, AnswerKeeps
  <1>2. CASE /\ ~Reread(c).done
             /\ calls' = [calls EXCEPT ![c].pc = "quota", ![c].row = Reread(c)]
    <2> PICK u \in Uploads : calls[c].u = u /\ calls[c] \in Completion /\ calls[c].row \in Rows
      BY <1>0 DEF FileInv, FileTypes, Chunk, Completion
    <2>1. Reread(c) \in Rows /\ (row[u] # NoRow => Reread(c) = row[u])
      BY DEF Reread, FileInv, FileTypes
    <2> DEFINE call == [calls[c] EXCEPT !.pc = "quota", !.row = Reread(c)]
    <2>2. call \in Completion /\ call.u = u /\ call.row = Reread(c)
      BY <2>1 DEF Completion
    <2>3. calls' = [calls EXCEPT ![c] = call]
      BY <1>2
    <2> HIDE DEF call
    <2>4. FileTypes' /\ calls'[c] = call /\ \A d \in Clients \ {c} : calls'[d] = calls[d]
      BY <1>0, <2>2, <2>3 DEF FileInv, FileTypes
    <2>5. \A d \in Clients : Holding(d) => calls[d].u # u
      BY <1>0 DEF Locked, Holding
    <2>6. CallsOK'
      <3> SUFFICES ASSUME NEW d \in Clients, NEW e \in Clients
                   PROVE  Knows(d)' /\ ReadsRight(d)' /\ OneHolds(d, e)'
        BY DEF CallsOK
      <3>1. Knows(d) /\ ReadsRight(d) /\ OneHolds(d, e) /\ Knows(c)
        BY DEF FileInv, CallsOK
      <3>2. Knows(d)'
        BY <1>0, <2>1, <2>2, <2>4, <3>1 DEF Knows, Here, history
      <3>3. ReadsRight(d)'
        BY <1>0, <1>2, <2>1, <2>2, <2>4, <3>1 DEF ReadsRight, Holding, Here, Open
      <3>4. OneHolds(d, e)'
        BY <2>2, <2>4, <2>5, <3>1 DEF OneHolds, Holding
      <3> QED BY <3>2, <3>3, <3>4
    <2> QED BY <1>0, <2>4, <2>6, FilesAlone DEF FileInv, history
  <1> QED BY <1>1, <1>2 DEF Lock

\* What a completion may move away: the file it has checked is what the row
\* announced, and every chunk is in it.
LEMMA MoveKeepsUpload ==
  ASSUME FileInv, NEW c \in Clients, AtQuota(c), Passes(c),
         NEW u \in Uploads, calls[c].u = u,
         part'[u] = NoFile, final'[u] = part[u],
         \/ row'[u] = row[u] /\ u \in lost'
         \/ row[u] = NoRow /\ row'[u] = NoRow
         \/ /\ row[u] # NoRow
            /\ row'[u].done = TRUE /\ row'[u].sha = row[u].sha,
         lost \subseteq lost'
  PROVE  UploadOK(u)'
  <1> USE DEF Here, Open, Done
  <1>1. UploadOK(u) /\ Knows(c) /\ ReadsRight(c)
    BY DEF FileInv, CallsOK
  <1>2. /\ Missing(calls[c].row.got) = {}
        /\ Agrees(part[u], calls[c].row.sha)
    BY DEF Passes
  <1>3. StartsEmpty(u)'
    BY DEF StartsEmpty
  <1>4. Covered(u)' /\ Agreed(u)'
    BY DEF Covered, Agreed
  <1>5. Announced(u)'
    BY <1>1, <1>2 DEF Announced, Knows, AtQuota
  <1>6. Whole(u)'
    <2> SUFFICES ASSUME u \notin lost', Done(u)', NEW i \in Chunks PROVE part[u][i] # Hole
      BY DEF Whole, Missing
    <2>1. Open(u) /\ row[u].got = calls[c].row.got
      BY <1>1 DEF ReadsRight, Holding, AtQuota
    <2>2. row[u].got[i] # Hole
      BY <1>2, <2>1 DEF Missing
    <2> QED BY <1>1, <2>1, <2>2 DEF UploadOK, Covered
  <1> QED BY <1>3, <1>4, <1>5, <1>6 DEF UploadOK

\* The files are removed: with the row, or on the record, or there is no part file.
LEMMA RemoveKeepsUpload ==
  ASSUME NEW u \in Uploads, UploadOK(u),
         part'[u] = NoFile, final'[u] = NoFile,
         \/ row'[u] = NoRow
         \/ row'[u] = row[u] /\ (u \in lost' \/ part[u] = NoFile),
         lost \subseteq lost', torn \subseteq torn'
  PROVE  UploadOK(u)'
  BY DEF UploadOK, StartsEmpty, Covered, Announced, Agreed, Whole, Here, Open, Done

LEMMA FinishKeeps ==
  ASSUME FileInv, NEW c \in Clients, Finish(c)
  PROVE  FileInv'
  <1> PICK u \in Uploads : calls[c].u = u /\ calls[c] # Free
    BY DEF Finish, AtQuota, FileInv, FileTypes, Chunk, Completion
  <1>0. /\ AtQuota(c) /\ Passes(c) /\ Moved(u) /\ Completed(u) /\ Answer(c)
        /\ UNCHANGED <<history, setup>>
    BY DEF Finish
  <1>1. /\ FileTypes
        /\ part' = [part EXCEPT ![u] = NoFile] /\ final' = [final EXCEPT ![u] = part[u]]
    BY <1>0 DEF FileInv, Moved
  <1>2. /\ row' \in [Uploads -> Rows \cup {NoRow}]
        /\ \A x \in Uploads \ {u} : row'[x] = row[x]
        /\ row[u] = NoRow => row'[u] = NoRow
        /\ row[u] # NoRow => /\ row'[u] # NoRow /\ row'[u].done = TRUE
                             /\ row'[u].sha = row[u].sha /\ row'[u].got = row[u].got
    <2>1. row \in [Uploads -> Rows \cup {NoRow}]
      BY <1>1 DEF FileTypes
    <2>2. CASE row[u] = NoRow
      BY <1>0, <2>1, <2>2 DEF Completed
    <2>3. CASE row[u] # NoRow
      <3> DEFINE r == [row[u] EXCEPT !.done = TRUE, !.idle = FALSE]
      <3>1. r \in Rows /\ r.done = TRUE /\ r.sha = row[u].sha /\ r.got = row[u].got
        BY <2>1, <2>3 DEF Rows
      <3>2. row' = [row EXCEPT ![u] = r]
        BY <1>0, <2>1, <2>3 DEF Completed
      <3> HIDE DEF r
      <3> QED BY <2>1, <2>3, <3>1, <3>2, Values
    <2> QED BY <2>2, <2>3
  <1>3. /\ calls' \in [Clients -> {Free} \cup Chunk \cup Completion]
        /\ calls'[c] = Free
        /\ \A d \in Clients : calls'[d] = calls[d] \/ calls'[d] = Free
    BY <1>0, <1>1 DEF Answer, FileTypes
  <1>4. FileTypes'
    BY <1>0, <1>1, <1>2, <1>3 DEF FileTypes
  <1>5. CallsOK'
    <2>1. \A d \in Clients : Holding(d)' => Holding(d) /\ d # c /\ calls'[d] = calls[d]
      BY <1>3 DEF Holding
    <2>2. \A d \in Clients : Holding(d)' => calls[d].u \in Uploads \ {u}
      BY <1>0, <1>1, <2>1
         DEF FileInv, CallsOK, OneHolds, AtQuota, Holding, FileTypes, Chunk, Completion
    <2> QED BY <1>0, <1>2, <1>3, <2>2, CallsAnswered DEF Here, history
  <1>6. ASSUME NEW x \in Uploads PROVE UploadOK(x)'
    <2>1. CASE x = u
      <3>1. part'[u] = NoFile /\ final'[u] = part[u]
        BY <1>1 DEF FileTypes
      <3> QED BY <1>0, <1>2, <2>1, <3>1, MoveKeepsUpload DEF history
    <2>2. CASE x # u
      BY <1>0, <1>1, <1>2, <2>2, UploadAlone DEF FileInv, FileTypes, history
    <2> QED BY <2>1, <2>2
  <1> QED BY <1>4, <1>5, <1>6 DEF FileInv

LEMMA SpoilKeeps ==
  ASSUME FileInv, NEW c \in Clients, Spoil(c)
  PROVE  FileInv'
  <1> PICK u \in Uploads : calls[c].u = u
    BY DEF Spoil, AtQuota, FileInv, FileTypes, Chunk, Completion
  <1>0. /\ part' = [part EXCEPT ![u] = NoFile] /\ final' = [final EXCEPT ![u] = NoFile]
        /\ lost' = lost \cup {u} /\ Answer(c)
        /\ UNCHANGED <<row, gone, torn, setup>>
    BY DEF Spoil, storeVars
  <1>1. FileTypes' /\ \A d \in Clients : calls'[d] = calls[d] \/ calls'[d] = Free
    BY <1>0 DEF FileInv, FileTypes, Answer
  <1>2. CallsOK'
    BY <1>0, <1>1, CallsAnswered DEF Here
  <1>3. ASSUME NEW x \in Uploads PROVE UploadOK(x)'
    <2>1. CASE x = u
      BY <1>0, <2>1, RemoveKeepsUpload DEF FileInv, FileTypes
    <2>2. CASE x # u
      BY <1>0, <2>2, UploadAlone DEF FileInv, FileTypes
    <2> QED BY <2>1, <2>2
  <1> QED BY <1>1, <1>2, <1>3 DEF FileInv

LEMMA ServeKeeps ==
  ASSUME FileInv, NEW c \in Clients, Serve(c)
  PROVE  FileInv'
  <1>1. CASE SkipChunk(c) \/ Refuse(c)
    BY <1>1, AnswerKeeps DEF SkipChunk, Refuse, storeVars, fileVars
  <1>2. CASE KeepChunk(c)
    BY <1>2, KeepChunkKeeps
  <1>3. CASE Lock(c)
    BY <1>3, LockKeeps
  <1>4. CASE Finish(c)
    BY <1>4, FinishKeeps
  <1>5. CASE Spoil(c)
    BY <1>5, SpoilKeeps
  <1> QED BY <1>1, <1>2, <1>3, <1>4, <1>5 DEF Serve

-----------------------------------------------------------------------------
\* Retention.

LEMMA PurgeKeeps ==
  ASSUME FileInv, NEW u \in Uploads, Purge(u)
  PROVE  FileInv'
  <1>0. /\ part' = [part EXCEPT ![u] = NoFile] /\ final' = [final EXCEPT ![u] = NoFile]
        /\ row' = [row EXCEPT ![u] = NoRow] /\ gone' = gone \cup {u}
        /\ UNCHANGED <<calls, lost, torn, setup>>
    BY DEF Purge
  <1>1. FileTypes'
    BY <1>0 DEF FileInv, FileTypes
  <1>2. row'[u] = NoRow /\ \A x \in Uploads \ {u} : row'[x] = row[x]
    BY <1>0 DEF FileInv, FileTypes
  <1>3. CallsOK'
    BY <1>0, <1>2, CallsAnswered DEF Here, FileInv, FileTypes, Holding, Chunk, Completion
  <1>4. ASSUME NEW x \in Uploads PROVE UploadOK(x)'
    <2>1. CASE x = u
      BY <1>0, <1>2, <2>1, RemoveKeepsUpload DEF FileInv, FileTypes
    <2>2. CASE x # u
      BY <1>0, <1>2, <2>2, UploadAlone DEF FileInv, FileTypes
    <2> QED BY <2>1, <2>2
  <1> QED BY <1>1, <1>3, <1>4 DEF FileInv

LEMMA PurgeFilesKeeps ==
  ASSUME FileInv, NEW u \in Uploads, PurgeFiles(u)
  PROVE  FileInv'
  <1>0. /\ part' = [part EXCEPT ![u] = NoFile] /\ final' = [final EXCEPT ![u] = NoFile]
        /\ lost' = IF part[u] # NoFile THEN lost \cup {u} ELSE lost
        /\ UNCHANGED <<row, calls, gone, torn, setup>>
    BY DEF PurgeFiles, storeVars
  <1>1. FileTypes'
    BY <1>0 DEF FileInv, FileTypes
  <1>2. CallsOK'
    BY <1>0, CallsAnswered DEF Here
  <1>3. ASSUME NEW x \in Uploads PROVE UploadOK(x)'
    <2>1. CASE x = u
      BY <1>0, <2>1, RemoveKeepsUpload DEF FileInv, FileTypes
    <2>2. CASE x # u
      BY <1>0, <2>2, UploadAlone DEF FileInv, FileTypes
    <2> QED BY <2>1, <2>2
  <1> QED BY <1>1, <1>2, <1>3 DEF FileInv

LEMMA RetainKeeps ==
  ASSUME FileInv, Retain
  PROVE  FileInv'
  <1> PICK u \in Uploads : Age(u) \/ Doom(u) \/ Purge(u) \/ PurgeFiles(u)
    BY DEF Retain
  <1>1. CASE Doom(u)
    <2>1. UNCHANGED <<row, part, final, calls, history, setup>>
      BY <1>1 DEF Doom, storeVars, fileVars
    <2>2. FileTypes' /\ CallsOK'
      BY <2>1, CallsAnswered DEF FileInv, FileTypes, Here, history
    <2> QED BY <2>1, <2>2, FilesAlone DEF FileInv, history
  <1> QED BY <1>1, AgeKeeps, PurgeKeeps, PurgeFilesKeeps

-----------------------------------------------------------------------------
\* The process dies.  No request survives, so only the files and rows matter.

LEMMA DeadKeeps ==
  ASSUME FileInv, calls' = [c \in Clients |-> Free], setup' = setup,
         row' \in [Uploads -> Rows \cup {NoRow}],
         part' \in [Uploads -> Contents \cup {NoFile}],
         final' \in [Uploads -> Contents \cup {NoFile}],
         \A u \in Uploads : UploadOK(u)'
  PROVE  FileInv'
  BY DEF FileInv, FileTypes, CallsOK, Knows, ReadsRight, OneHolds, Holding

LEMMA DieKeeps ==
  ASSUME FileInv, Die
  PROVE  FileInv'
  <1>0. /\ calls' = [c \in Clients |-> Free]
        /\ UNCHANGED <<row, part, final, history, setup>>
    BY DEF Die, Restart, storeVars, history
  <1> QED BY <1>0, FilesAlone, DeadKeeps DEF FileInv, FileTypes, history

LEMMA DieInChunkKeeps ==
  ASSUME FileInv, NEW c \in Clients, DieInChunk(c)
  PROVE  FileInv'
  <1>0. /\ calls' = [d \in Clients |-> Free] /\ AtChunk(c) /\ Write(c)
        /\ torn' = torn \cup {calls[c].u}
        /\ UNCHANGED <<row, final, gone, lost, setup>>
    BY DEF DieInChunk, Restart, storeVars
  <1>1. PICK u \in Uploads, i \in Chunks, v \in Versions :
          /\ ChunkOf(c, u, i, v)
          /\ PartOf(u) \in Contents
          /\ part'[u] = [PartOf(u) EXCEPT ![i] = v]
          /\ part'[u] \in Contents /\ part'[u] # NoFile
          /\ \A x \in Uploads \ {u} : part'[x] = part[x]
          /\ part' \in [Uploads -> Contents \cup {NoFile}]
    BY <1>0, ChunkWrites
  <1>2. row[u] # NoRow \/ u \in gone
    BY <1>1 DEF FileInv, CallsOK, Knows, Here, ChunkOf, AtChunk
  <1>3. u \in torn' /\ torn \subseteq torn'
    BY <1>0, <1>1 DEF ChunkOf
  <1>4. ASSUME NEW x \in Uploads PROVE UploadOK(x)'
    <2>1. CASE x = u
      BY <1>0, <1>1, <1>2, <1>3, <2>1, ChunkKeepsUpload
    <2>2. CASE x # u
      BY <1>0, <1>1, <1>3, <2>2, UploadAlone DEF FileInv
    <2> QED BY <2>1, <2>2
  <1> QED BY <1>0, <1>1, <1>4, DeadKeeps DEF FileInv, FileTypes

\* After the move of the file: the row is not marked, or it is and only the
\* charge is missing.
LEMMA DieMovedKeeps ==
  ASSUME FileInv, NEW c \in Clients, DieMoved(c) \/ DieUncharged(c)
  PROVE  FileInv'
  <1> PICK u \in Uploads : calls[c].u = u /\ calls[c] # Free
    BY DEF DieMoved, DieUncharged, AtQuota, FileInv, FileTypes, Chunk, Completion
  <1>0. /\ AtQuota(c) /\ Passes(c) /\ Moved(u)
        /\ calls' = [d \in Clients |-> Free]
        /\ UNCHANGED <<gone, torn, setup>>
        /\ \/ row' = row /\ lost' = lost \cup {u}
           \/ Completed(u) /\ lost' = lost
    BY DEF DieMoved, DieUncharged, Restart, storeVars
  <1>1. /\ FileTypes
        /\ part' = [part EXCEPT ![u] = NoFile] /\ final' = [final EXCEPT ![u] = part[u]]
    BY <1>0 DEF FileInv, Moved
  <1>2. /\ part' \in [Uploads -> Contents \cup {NoFile}]
        /\ final' \in [Uploads -> Contents \cup {NoFile}]
        /\ part'[u] = NoFile /\ final'[u] = part[u]
    BY <1>1 DEF FileTypes
  <1>3. /\ row' \in [Uploads -> Rows \cup {NoRow}]
        /\ \A x \in Uploads \ {u} : row'[x] = row[x]
        /\ \/ row'[u] = row[u] /\ u \in lost'
           \/ row[u] = NoRow /\ row'[u] = NoRow
           \/ /\ row[u] # NoRow
              /\ row'[u].done = TRUE /\ row'[u].sha = row[u].sha
    <2>1. row \in [Uploads -> Rows \cup {NoRow}]
      BY <1>1 DEF FileTypes
    <2>2. CASE row' = row /\ lost' = lost \cup {u}
      BY <2>1, <2>2
    <2>3. CASE row[u] = NoRow /\ Completed(u)
      BY <2>1, <2>3 DEF Completed
    <2>4. CASE row[u] # NoRow /\ Completed(u)
      <3> DEFINE r == [row[u] EXCEPT !.done = TRUE, !.idle = FALSE]
      <3>1. r \in Rows /\ r.done = TRUE /\ r.sha = row[u].sha
        BY <2>1, <2>4 DEF Rows
      <3>2. row' = [row EXCEPT ![u] = r]
        BY <2>1, <2>4 DEF Completed
      <3> HIDE DEF r
      <3> QED BY <2>1, <2>4, <3>1, <3>2
    <2> QED BY <1>0, <2>2, <2>3, <2>4
  <1>4. ASSUME NEW x \in Uploads PROVE UploadOK(x)'
    <2>1. CASE x = u
      BY <1>0, <1>2, <1>3, <2>1, MoveKeepsUpload
    <2>2. CASE x # u
      BY <1>0, <1>1, <1>3, <2>2, UploadAlone DEF FileInv, FileTypes
    <2> QED BY <2>1, <2>2
  <1> QED BY <1>0, <1>2, <1>3, <1>4, DeadKeeps

LEMMA DiesKeeps ==
  ASSUME FileInv, Dies
  PROVE  FileInv'
  BY DieKeeps, DieInChunkKeeps, DieMovedKeeps DEF Dies

LEMMA UpNextKeeps ==
  ASSUME FileInv, UpNext
  PROVE  FileInv'
  <1>1. CASE \E u \in Uploads : New(u) \/ TakeUp(u)
    BY <1>1, NewKeeps, TakeUpKeeps
  <1>2. CASE \E c \in Clients : Send(c) \/ Serve(c)
    BY <1>2, SendKeeps, ServeKeeps
  <1>3. CASE Retain
    BY <1>3, RetainKeeps
  <1> QED BY <1>1, <1>2, <1>3 DEF UpNext

\* Steps of others.
LEMMA StutterKeeps ==
  ASSUME FileInv, UNCHANGED <<row, part, final, calls, history, setup>>
  PROVE  FileInv'
  <1>1. FileTypes' /\ CallsOK'
    BY CallsAnswered DEF FileInv, FileTypes, Here, history
  <1> QED BY <1>1, FilesAlone DEF FileInv, history

\* Uploads by themselves: files and rows agree, whoever sends what, when the
\* process dies and what retention deletes (web/routes/uploads.py).
THEOREM UploadsAreSound == UpSpec => [](FinalIsAnnounced /\ PartIsReceived /\ FinalIsWhole)
  <1>1. UpInit => FileInv
    BY InitFileInv
  <1>2. FileInv /\ [UpNext \/ Dies]_upVars => FileInv'
    BY UpNextKeeps, DiesKeeps, StutterKeeps DEF upVars, storeVars, fileVars
  <1>3. FileInv => FinalIsAnnounced /\ PartIsReceived /\ FinalIsWhole
    BY FileInvImplies
  <1> QED BY <1>1, <1>2, <1>3, PTL DEF UpSpec

==============================================================================
