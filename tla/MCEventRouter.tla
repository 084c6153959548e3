--------------------------- MODULE MCEventRouter ---------------------------
(* Small instances of EventRouter for TLC.                                  *)
EXTENDS EventRouter, TLC
=============================================================================
