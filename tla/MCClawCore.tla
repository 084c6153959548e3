----------------------------- MODULE MCClawCore -----------------------------
(* TLC instances of ClawCore. *)
EXTENDS ClawCore, TLC

CONSTANTS c1, c2, r1, l1

OneConsole  == {c1}
TwoConsoles == {c1, c2}
OneRouter   == {r1}
OneListener == {l1}
Nobody      == {}

ConsoleSymmetry == Permutations(TwoConsoles)
=============================================================================
