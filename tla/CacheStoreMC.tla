---------------------------- MODULE CacheStoreMC ----------------------------
(* Instances of CacheStore for TLC. *)
EXTENDS CacheStore, TLC

\* Nothing tells keys, or Cache objects, apart.
Symmetry == Permutations(Keys) \union Permutations(Caches)
=============================================================================
