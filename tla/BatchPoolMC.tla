----------------------------- MODULE BatchPoolMC ----------------------------
(* Instances of BatchPool for TLC. *)
EXTENDS BatchPool, TLC

\* Nothing tells batches, items or hosts apart.  For safety only.
Symmetry == Permutations(Batches) \union Permutations(Items)
              \union Permutations(Hosts)
=============================================================================
