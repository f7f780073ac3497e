------------------------------- MODULE MCIntake -------------------------------
(* Small instances of uploads and submissions.                             *)
EXTENDS Submission, TLC

CONSTANTS u1, s1, s2, v1, v2

Plain == [uploads |-> {}, subs |-> {}, versions |-> {}, sources |-> {}, bytes |-> 6,
          retention |-> FALSE, redis |-> "up", crashes |-> 0, days |-> 0, sends |-> 0]

\* One upload with two versions of its chunks; also with a crash; with retention.
Upload == [Plain EXCEPT !.uploads = {u1}, !.versions = {v1, v2}]
UploadDies == [Upload EXCEPT !.crashes = 1]
UploadAges == [Upload EXCEPT !.versions = {v1}, !.retention = TRUE]

\* Submissions: one against another, with every source, Redis, midnight, crash.
Submits == [Plain EXCEPT !.subs = {s1, s2}, !.sends = 3, !.sources = {"direct", "path"}]
Batches == [Submits EXCEPT !.sources = {"path", "batch"}, !.bytes = 8]
NoRedis == [Submits EXCEPT !.redis = "down", !.sources = {"path", "batch"}]
Flaky == [Submits EXCEPT !.redis = "either", !.sources = {"path"}, !.days = 1, !.sends = 2]
Late == [Submits EXCEPT !.sources = {"path"}, !.days = 1]
Dying == [Submits EXCEPT !.sources = {"path"}, !.crashes = 1]

\* An upload and a submission of it share the storage quota.
Both == [Upload EXCEPT !.versions = {v1}, !.subs = {s1}, !.sends = 1, !.sources = {"direct"},
                       !.bytes = 4, !.crashes = 1]

Each == {Upload, UploadDies, UploadAges, Submits, Batches, NoRedis, Flaky, Late, Dying, Both}
==============================================================================
