---------------------------- MODULE PipelineRunMC ---------------------------
(* Instances of PipelineRun for TLC, on the site of PipelineSite. *)
EXTENDS PipelineRun, PipelineSite, TLC

\* Sound for safety: requests differ only by name.
Symmetry == Permutations(Requests)
=============================================================================
