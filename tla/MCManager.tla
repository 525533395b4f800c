------------------------------ MODULE MCManager ------------------------------
(* Model values and symmetry for checking Manager with TLC.                *)
EXTENDS Manager, TLC

Symmetry == Permutations(Msgs) \cup Permutations(Workers)
=============================================================================
