------------------------------- MODULE Uploads -------------------------------
(***************************************************************************)
(* Resumable uploads (web/routes/uploads.py) and the part of retention     *)
(* that deletes them (ops/retention.py): a session is made, chunks arrive  *)
(* in any order and more than once, several requests are under way at a    *)
(* time, a completion checks the file and moves it to its final place, and *)
(* the process may die between any two writes.                             *)
(*                                                                         *)
(* A step is what a handler does between two awaits that suspend it: the   *)
(* body of the request, the lock of the upload, and the quota overrides,   *)
(* which are kept in Redis (without Redis that await does not suspend, and *)
(* the two steps around it are one).  Retention runs in a thread of its    *)
(* own and reads all rows before it deletes the first.                     *)
(*                                                                         *)
(* One user.  A chunk is one unit of storage, and its content is a version *)
(* of it.  A request that fails a check which depends on the request alone *)
(* (checksum, offset, size, index) changes nothing and is left out.        *)
(***************************************************************************)
EXTENDS Naturals, FiniteSets

CONSTANTS
    Uploads,   \* upload ids
    Clients,   \* upload requests under way at a time
    Subs,      \* job submissions under way at a time (module Submission)
    N,         \* chunks per upload
    Versions,  \* what a chunk may contain
    Sums,      \* the checksums clients announce, Hole among them for none
    Hole,      \* no chunk: bytes never written, a chunk not received, no checksum
    NoRow, NoFile, Free,
    Setups     \* the settings and bounds under which the system is run

Chunks == 1 .. N
Settings ==
    [uploads : SUBSET Uploads,                      \* who takes part
     subs : SUBSET Subs,
     versions : SUBSET Versions,
     sources : SUBSET {"direct", "path", "batch"},  \* submissions without an upload
     bytes : Nat,                                   \* MAX_STORAGE_BYTES_PER_USER
     retention : BOOLEAN,                           \* RETENTION_ENABLED
     redis : {"up", "down", "either"},              \* whether Redis answers
     crashes : Nat, days : Nat, sends : Nat]        \* bounds: deaths of the process,
                                                    \* midnights, submissions

ASSUME UploadsAssumption ==
    /\ N \in Nat \ {0}
    /\ Hole \notin Versions /\ Hole \in Sums /\ Sums \subseteq Versions \cup {Hole}
    /\ Setups \subseteq Settings

VARIABLES
    row,      \* the upload's record in the store
    part,     \* <id>.part
    final,    \* final_path
    charged,  \* uploads counted in upload_storage
    used,     \* user_storage: bytes stored by the user
    pending,  \* _LOCAL_PENDING_STORAGE: bytes reserved by submissions
    calls,    \* the upload requests under way
    doomed,   \* uploads whose row retention has read and found abandoned
    old,      \* uploads whose files were last written long ago
    gone,     \* history: uploads whose row was deleted
    lost,     \* history: uploads whose part file was moved or deleted while their
              \* row still says that its chunks are received
    torn,     \* history: uploads for which the process died between the file and the row
    setup, crashes

fileVars == <<part, final, old>>
storeVars == <<row, charged, used>>
history == <<gone, lost, torn>>
upVars == <<storeVars, fileVars, pending, calls, doomed, history, setup, crashes>>

Contents == [Chunks -> Versions \cup {Hole}]
Empty == [i \in Chunks |-> Hole]
Pure(v) == [i \in Chunks |-> v]   \* the file whose checksum a client announces as v
Rows == [got : Contents, done : BOOLEAN, sha : Sums, idle : BOOLEAN]

ASSUME SentinelAssumption == NoRow \notin Rows /\ NoFile \notin Contents

UpInit ==
    /\ row = [u \in Uploads |-> NoRow] /\ charged = {} /\ used = 0 /\ pending = 0
    /\ part = [u \in Uploads |-> NoFile] /\ final = [u \in Uploads |-> NoFile]
    /\ calls = [c \in Clients |-> Free]
    /\ doomed = {} /\ old = {} /\ gone = {} /\ lost = {} /\ torn = {}
    /\ setup \in Setups /\ crashes = 0

\* Mutant: what submissions have reserved is not counted.
RoomStored(n) == used + n <= setup.bytes
\* check_upload_bytes, check_storage_bytes: room for n more bytes.
Room(n) == used + pending + n <= setup.bytes

-----------------------------------------------------------------------------
\* POST /api/uploads/init: a new session, with or without the checksum of the
\* whole file, or an existing one taken up again.

New(u) ==
    /\ u \in setup.uploads \ gone /\ row[u] = NoRow
    /\ Room(N)
    /\ \E sha \in Sums :
         row' = [row EXCEPT ![u] = [got |-> Empty, done |-> FALSE, sha |-> sha, idle |-> FALSE]]
    /\ UNCHANGED <<charged, used, fileVars, pending, calls, doomed, history, setup, crashes>>

TakeUp(u) ==
    /\ row[u] # NoRow
    /\ row' = [row EXCEPT ![u].idle = FALSE]
    /\ UNCHANGED <<charged, used, fileVars, pending, calls, doomed, history, setup, crashes>>

\* POST /api/uploads/{id}/chunk.  What it knows of the upload while it waits for
\* its body is what it read before, the completed flag among it.
SendChunk(c, u, i, v) ==
    /\ calls[c] = Free /\ row[u] # NoRow /\ ~row[u].done
    /\ Room(N)
    /\ calls' = [calls EXCEPT ![c] = [pc |-> "chunk", u |-> u, i |-> i, v |-> v, row |-> row[u]]]
    /\ UNCHANGED <<storeVars, fileVars, pending, doomed, history, setup, crashes>>

\* _upload_lock is held by a completion that waits for the quota.
Locked(u) == \E c \in Clients : calls[c] # Free /\ calls[c].pc = "quota" /\ calls[c].u = u

\* Mutant: the row is not read again under the lock.
ReadBefore(c) == calls[c].row
\* store.get_upload(upload_id) or rec
Reread(c) == IF row[calls[c].u] # NoRow THEN row[calls[c].u] ELSE calls[c].row

AtChunk(c) == calls[c] # Free /\ calls[c].pc = "chunk" /\ ~Locked(calls[c].u)
Known(c) == Reread(c).got[calls[c].i] = calls[c].v   \* received with the same checksum

\* Random access: a new file where there is none.
Write(c) ==
    LET u == calls[c].u
        old_ == IF part[u] = NoFile THEN Empty ELSE part[u]
    IN part' = [part EXCEPT ![u] = [old_ EXCEPT ![calls[c].i] = calls[c].v]]

\* update_upload: nothing, when the row is gone.
Received(c) ==
    LET u == calls[c].u
    IN row' = IF row[u] = NoRow THEN row
              ELSE [row EXCEPT ![u].got = [Reread(c).got EXCEPT ![calls[c].i] = calls[c].v],
                               ![u].idle = FALSE]

Answer(c) == calls' = [calls EXCEPT ![c] = Free]

SkipChunk(c) ==
    /\ AtChunk(c) /\ Known(c)
    /\ Answer(c)
    /\ UNCHANGED <<storeVars, fileVars, pending, doomed, history, setup, crashes>>

KeepChunk(c) ==
    /\ AtChunk(c) /\ ~Known(c)
    /\ Write(c) /\ Received(c) /\ Answer(c)
    /\ old' = old \ {calls[c].u}
    /\ UNCHANGED <<charged, used, final, pending, doomed, history, setup, crashes>>

-----------------------------------------------------------------------------
\* POST /api/uploads/{id}/complete, with or without final_sha256.

SendComplete(c, u, sha) ==
    /\ calls[c] = Free /\ row[u] # NoRow
    /\ calls' = [calls EXCEPT ![c] = [pc |-> "json", u |-> u, sha |-> sha, row |-> row[u]]]
    /\ UNCHANGED <<storeVars, fileVars, pending, doomed, history, setup, crashes>>

Lock(c) ==
    /\ calls[c] # Free /\ calls[c].pc = "json" /\ ~Locked(calls[c].u)
    /\ IF Reread(c).done THEN Answer(c)
       ELSE calls' = [calls EXCEPT ![c].pc = "quota", ![c].row = Reread(c)]
    /\ UNCHANGED <<storeVars, fileVars, pending, doomed, history, setup, crashes>>

\* The checks of a completion, on the row read when the lock was taken: the quota,
\* all chunks received, the size (the last byte is there), both checksums.
Missing(got) == {i \in Chunks : got[i] = Hole}
Agrees(file, sha) == sha # Hole => file = Pure(sha)
\* Mutants: the checksum of the session is not compared, or no chunk is looked for.
PassesUnannounced(c) ==
    LET call == calls[c]  file == part[call.u]
    IN /\ Room(N) /\ file # NoFile /\ Missing(call.row.got) = {} /\ file[N] # Hole
       /\ Agrees(file, call.sha)
PassesBySize(c) ==
    LET call == calls[c]  file == part[call.u]
    IN /\ Room(N) /\ file # NoFile /\ file[N] # Hole
       /\ Agrees(file, call.sha) /\ Agrees(file, call.row.sha)
Passes(c) ==
    LET call == calls[c]  file == part[call.u]
    IN /\ Room(N)
       /\ file # NoFile
       /\ Missing(call.row.got) = {}
       /\ file[N] # Hole
       /\ Agrees(file, call.sha) /\ Agrees(file, call.row.sha)

AtQuota(c) == calls[c] # Free /\ calls[c].pc = "quota"

Refuse(c) ==
    /\ AtQuota(c) /\ ~Passes(c)
    /\ Answer(c)
    /\ UNCHANGED <<storeVars, fileVars, pending, doomed, history, setup, crashes>>

\* part_path.replace(final_path)
Moved(u) ==
    /\ final' = [final EXCEPT ![u] = part[u]]
    /\ part' = [part EXCEPT ![u] = NoFile]

\* Mutant: the row is not marked.
CompletedNot(u) == row' = row
Completed(u) ==
    row' = IF row[u] = NoRow THEN row ELSE [row EXCEPT ![u].done = TRUE, ![u].idle = FALSE]

\* set_upload_storage_bytes, whether or not the upload has a row.
Charge(u) ==
    /\ charged' = charged \cup {u}
    /\ used' = IF u \in charged THEN used ELSE used + N

Finish(c) ==
    LET u == calls[c].u
    IN /\ AtQuota(c) /\ Passes(c)
       /\ Moved(u) /\ Completed(u) /\ Charge(u) /\ Answer(c)
       /\ UNCHANGED <<old, pending, doomed, history, setup, crashes>>

\* ffprobe, or the encryption at rest, fails on the moved file: it is removed, and
\* the row stays as it was.
Spoil(c) ==
    LET u == calls[c].u
    IN /\ AtQuota(c) /\ Passes(c)
       /\ part' = [part EXCEPT ![u] = NoFile]
       /\ final' = [final EXCEPT ![u] = NoFile]
       /\ lost' = lost \cup {u}
       /\ Answer(c)
       /\ UNCHANGED <<storeVars, old, pending, doomed, gone, torn, setup, crashes>>

-----------------------------------------------------------------------------
\* Retention.  Hours pass while nobody works on the upload.

Age(u) ==
    /\ setup.retention /\ row[u] # NoRow
    /\ \A c \in Clients : calls[c] # Free => calls[c].u # u
    /\ row' = [row EXCEPT ![u].idle = TRUE]
    /\ old' = old \cup {u}
    /\ UNCHANGED <<charged, used, part, final, pending, calls, doomed, history, setup, crashes>>

\* purge_abandoned_uploads reads the rows ...
Doom(u) ==
    /\ setup.retention
    /\ row[u] # NoRow /\ ~row[u].done /\ row[u].idle
    /\ doomed' = doomed \cup {u}
    /\ UNCHANGED <<storeVars, fileVars, pending, calls, history, setup, crashes>>

\* ... and deletes files, row and charge, whatever has happened to the upload since.
Purge(u) ==
    /\ u \in doomed
    /\ doomed' = doomed \ {u}
    /\ part' = [part EXCEPT ![u] = NoFile]
    /\ final' = [final EXCEPT ![u] = NoFile]
    /\ row' = [row EXCEPT ![u] = NoRow]
    /\ charged' = charged \ {u}
    /\ used' = IF u \in charged THEN used - N ELSE used
    /\ gone' = gone \cup {u}
    /\ UNCHANGED <<old, pending, calls, lost, torn, setup, crashes>>

\* purge_old_inputs goes by the age of the files alone.
PurgeFiles(u) ==
    /\ setup.retention /\ u \in old
    /\ part[u] # NoFile \/ final[u] # NoFile
    /\ part' = [part EXCEPT ![u] = NoFile]
    /\ final' = [final EXCEPT ![u] = NoFile]
    /\ lost' = IF part[u] # NoFile THEN lost \cup {u} ELSE lost
    /\ UNCHANGED <<storeVars, old, pending, calls, doomed, gone, torn, setup, crashes>>

-----------------------------------------------------------------------------
\* The process dies and is started again: files and store stay.

Restart ==
    /\ crashes < setup.crashes /\ crashes' = crashes + 1
    /\ calls' = [c \in Clients |-> Free]
    /\ doomed' = {} /\ pending' = 0
    /\ UNCHANGED <<gone, old, setup>>

Die == Restart /\ UNCHANGED <<storeVars, part, final, lost, torn>>

\* Between the write of a chunk and the update of the row.
DieInChunk(c) ==
    /\ AtChunk(c) /\ ~Known(c)
    /\ Restart /\ Write(c)
    /\ torn' = torn \cup {calls[c].u}
    /\ UNCHANGED <<storeVars, final, lost>>

\* Between the move of the file and the update of the row.
DieMoved(c) ==
    /\ AtQuota(c) /\ Passes(c)
    /\ Restart /\ Moved(calls[c].u)
    /\ lost' = lost \cup {calls[c].u}
    /\ UNCHANGED <<storeVars, torn>>

\* Between the update of the row and the charge.
DieUncharged(c) ==
    /\ AtQuota(c) /\ Passes(c)
    /\ Restart /\ Moved(calls[c].u) /\ Completed(calls[c].u)
    /\ UNCHANGED <<charged, used, lost, torn>>

Dies == Die \/ \E c \in Clients : DieInChunk(c) \/ DieMoved(c) \/ DieUncharged(c)

-----------------------------------------------------------------------------

Send(c) == \E u \in Uploads :
    \/ \E i \in Chunks, v \in setup.versions : SendChunk(c, u, i, v)
    \/ \E sha \in Sums : SendComplete(c, u, sha)
Serve(c) == SkipChunk(c) \/ KeepChunk(c) \/ Lock(c) \/ Refuse(c) \/ Finish(c) \/ Spoil(c)
Retain == \E u \in Uploads : Age(u) \/ Doom(u) \/ Purge(u) \/ PurgeFiles(u)

UpNext ==
    \/ \E u \in Uploads : New(u) \/ TakeUp(u)
    \/ \E c \in Clients : Send(c) \/ Serve(c)
    \/ Retain

UpSpec == UpInit /\ [][UpNext \/ Dies]_upVars

\* A client that does not give up: it sends a chunk that is missing, or completes.
Insist(u) ==
    /\ row[u] # NoRow /\ ~row[u].done
    /\ \E c \in Clients :
         \/ \E i \in Missing(row[u].got), v \in setup.versions : SendChunk(c, u, i, v)
         \/ Missing(row[u].got) = {} /\ SendComplete(c, u, Hole)

\* Requests that wait for a lock get it in turn (asyncio.Lock), clients insist.
UpFair ==
    /\ \A c \in Clients : SF_upVars(Serve(c))
    /\ \A u \in Uploads : SF_upVars(Insist(u))

-----------------------------------------------------------------------------

UpTypeOK ==
    /\ row \in [Uploads -> Rows \cup {NoRow}]
    /\ part \in [Uploads -> Contents \cup {NoFile}]
    /\ final \in [Uploads -> Contents \cup {NoFile}]
    /\ used \in Nat /\ pending \in Nat /\ crashes \in Nat
    /\ charged \subseteq Uploads /\ doomed \subseteq Uploads /\ old \subseteq Uploads
    /\ gone \subseteq Uploads /\ lost \subseteq Uploads /\ torn \subseteq Uploads
    /\ calls \in [Clients ->
         {Free}
         \cup [pc : {"chunk"}, u : Uploads, i : Chunks, v : Versions, row : Rows]
         \cup [pc : {"json", "quota"}, u : Uploads, sha : Sums, row : Rows]]
    /\ setup \in Setups

Done(u) == row[u] # NoRow /\ row[u].done

\* A completed upload whose checksum was announced is the announced file, whatever
\* was re-sent, sent late, sent by two requests at once or cut off by a crash.
FinalIsAnnounced ==
    \A u \in Uploads : Done(u) /\ final[u] # NoFile => Agrees(final[u], row[u].sha)

\* The store and the file agree on every chunk of an upload that is not completed,
\* unless the process died between the two or the file was taken away.
PartIsReceived ==
    \A u \in Uploads \ (lost \cup torn) :
        row[u] # NoRow /\ ~row[u].done =>
            row[u].got = IF part[u] = NoFile THEN Empty ELSE part[u]

\* Also without a checksum no completed upload has bytes nobody sent, unless its
\* part file was taken away while the row went on listing the chunks.
FinalIsWhole ==
    \A u \in Uploads \ lost : Done(u) /\ final[u] # NoFile => Missing(final[u]) = {}

\* Uploads and submissions never take more than the user's storage quota, however
\* many are under way at once.
IntakeRespectsCap ==
    [][used' + pending' > used + pending => used' + pending' <= setup.bytes]_<<used, pending>>

\* An upload whose client does not give up is completed, unless its part file was
\* taken away or the upload was purged; there is room for all uploads of the user.
\* (Uploads announced without a hash, and while nothing is submitted.)
UploadEnds ==
    setup.subs = {} /\ Cardinality(setup.uploads) * N <= setup.bytes =>
        \A u \in Uploads :
            row[u] # NoRow /\ row[u].sha = Hole ~> Done(u) \/ u \in gone \cup lost

==============================================================================
