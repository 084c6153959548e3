--------------------------- MODULE MCCapRegistry ---------------------------
(* Small instances of CapRegistry for TLC.                                  *)
EXTENDS CapRegistry, TLC

CONSTANTS x, y, z, pair, single

\* One group of two capabilities, one of a single capability.
TwoGroups == x :> pair @@ y :> pair @@ z :> single

Symmetry == Permutations(Callers) \cup Permutations({x, y})
=============================================================================
