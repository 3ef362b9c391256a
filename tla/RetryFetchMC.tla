---------------------------- MODULE RetryFetchMC ----------------------------
(* Instances of RetryFetch for TLC. *)
EXTENDS RetryFetch, TLC

\* Nothing tells requests, or hosts, apart.  For safety only.
Symmetry == Permutations(Requests) \union Permutations(Hosts)
=============================================================================
