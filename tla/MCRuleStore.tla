---------------------------- MODULE MCRuleStore ----------------------------
(* Small instances of RuleStore for TLC.                                    *)
EXTENDS RuleStore, TLC

Symmetry == Permutations(Writers \ {RouterTask}) \cup Permutations(RuleIds) \cup Permutations(Bodies)
=============================================================================
