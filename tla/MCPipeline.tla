----------------------------- MODULE MCPipeline -----------------------------
(* Model values and symmetry for checking Pipeline with TLC.               *)
EXTENDS Pipeline, TLC

Symmetry == Permutations(Workers) \cup Permutations(Videos) \cup Permutations(Jobs)
=============================================================================
