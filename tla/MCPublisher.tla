----------------------------- MODULE MCPublisher -----------------------------
(* Model values and symmetry for checking Publisher with TLC.              *)
EXTENDS Publisher, TLC

Symmetry == Permutations(Handlers)
=============================================================================
