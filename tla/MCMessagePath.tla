---------------------------- MODULE MCMessagePath ----------------------------
(* Small instances of MessagePath for TLC.                                  *)
EXTENDS MessagePath
=============================================================================
