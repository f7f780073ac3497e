------------------------------ MODULE MCPipeline ------------------------------
(* Instances of Pipeline for TLC. *)
EXTENDS Pipeline

CONSTANTS d1

\* All jobs dub the same video.
SameDir == [j \in Jobs |-> d1]

==============================================================================
