-------------------------- MODULE MCGenerationJobs --------------------------
(* Small instances of GenerationJobs for TLC.                               *)
EXTENDS GenerationJobs, TLC

Symmetry == Permutations(Runs) \cup Permutations(Keys)
============================================================================
