---------------------------- MODULE MCMemoryStore ----------------------------
(* Small instances of MemoryStore for TLC.                                  *)
EXTENDS MemoryStore

Symmetry == Permutations(Facts) \cup Permutations(Labels)
=============================================================================
