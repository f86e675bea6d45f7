----------------------------- MODULE MCPipeline -----------------------------
(* Pipeline for TLC: interchangeable files and workers. *)
EXTENDS Pipeline, TLC

Symmetry == Permutations(Files) \cup Permutations(Workers)
=============================================================================
