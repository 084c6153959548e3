---------------------------- MODULE MCScheduler ----------------------------
(* Small instances of Scheduler for TLC.                                    *)
EXTENDS Scheduler

Plan == [kind |-> "once", start |-> 0, every |-> 0, end |-> 0, max |-> 0, on |-> TRUE]

Alarm == [Plan EXCEPT !.start = Epoch + 1]
Beat == [Plan EXCEPT !.kind = "interval", !.every = 1, !.max = 1]

Plans == {Alarm, Beat}
=============================================================================
