----------------------------- MODULE MCLuaJobs -----------------------------
(* Small instances of LuaJobs for TLC.                                      *)
EXTENDS LuaJobs, TLC

CONSTANTS a, b, c, g

\* Two names that share a group, and one without a group.
GroupKinds == {[name |-> a, group |-> NoGroup],
               [name |-> b, group |-> g], [name |-> c, group |-> g]}

\* One name.
OneKind == {[name |-> a, group |-> NoGroup]}

\* Two names without a group.
TwoKinds == {[name |-> a, group |-> NoGroup], [name |-> b, group |-> NoGroup]}

\* The clients are interchangeable, and so are the names that share a group.
Symmetry == Permutations(Clients) \cup Permutations({b, c})
=============================================================================
