--------------------------- MODULE PipelineCacheMC --------------------------
(* The pipeline over a cache that just keeps what is put, and the steps by   *)
(* which one Cache object keeps it, with crashes between them: a behaviour   *)
(* is of one of the two, and the other is at rest in it.                     *)
EXTENDS PipelineRunMC, CacheStore

VARIABLE part  \* the level of this behaviour

PartInit ==
  /\ part \in {"pipeline", "files"}
  /\ PipelineInit /\ Init
  /\ part # "files" => /\ key = [c \in Caches |-> CHOOSE k \in Keys : TRUE]
                       /\ bodySize = [n \in PutNumber |-> Min(BodySizes)]

PartNext ==
  /\ UNCHANGED part
  /\ \/ part = "pipeline" /\ PipelineNext /\ UNCHANGED vars
     \/ part = "files" /\ Next /\ UNCHANGED pipelineVars

PartSpec == PartInit /\ [][PartNext]_<<part, vars, pipelineVars>>

\* Sound for safety: nothing tells the hashes of the cache apart either.
PartSymmetry == Symmetry \union Permutations(Keys)
=============================================================================
