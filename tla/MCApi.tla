-------------------------------- MODULE MCApi --------------------------------
(* Model values and symmetry for checking Api with TLC.                    *)
EXTENDS Api, TLC

Symmetry == Permutations(Handlers) \cup Permutations(Videos) \cup Permutations(Jobs)
=============================================================================
