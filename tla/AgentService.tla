---------------------------- MODULE AgentService ----------------------------
(***************************************************************************)
(* What claw_core promises the rest of the firmware, whatever queues,      *)
(* locks and lists it is made of: requests are served one at a time in the *)
(* order they were accepted, each has one outcome, a cancel concerns the   *)
(* request being served at that moment and no other, and an answer is      *)
(* collected at most once.                                                 *)
(***************************************************************************)
EXTENDS Naturals, Sequences

CONSTANTS Outcomes   \* "cancelled" may be one of them

VARIABLES
  accepted,   \* how many requests were ever accepted: tickets 0..accepted-1
  queue,      \* tickets accepted and not begun
  phase,      \* "free", "working" or "concluded"
  serving,    \* the ticket being served, 0 while free
  cancelling, \* a cancel was accepted for the ticket being served
  outcome,    \* the outcome of the ticket being served once concluded
  ready       \* answers nobody has collected

vars == <<accepted, queue, phase, serving, cancelling, outcome, ready>>

Init ==
  /\ accepted = 0 /\ queue = <<>> /\ phase = "free" /\ serving = 0
  /\ cancelling = FALSE /\ outcome = "none" /\ ready = {}

Accept ==
  /\ queue' = Append(queue, accepted)
  /\ accepted' = accepted + 1
  /\ UNCHANGED <<phase, serving, cancelling, outcome, ready>>

Begin ==
  /\ phase = "free"
  /\ queue # <<>>
  /\ serving' = Head(queue)
  /\ queue' = Tail(queue)
  /\ phase' = "working"
  /\ UNCHANGED <<accepted, cancelling, outcome, ready>>

Cancel ==
  /\ phase = "working"
  /\ cancelling' = TRUE
  /\ UNCHANGED <<accepted, queue, phase, serving, outcome, ready>>

Conclude ==
  /\ phase = "working"
  /\ outcome' \in Outcomes
  /\ outcome' = "cancelled" => cancelling
  /\ cancelling' = FALSE
  /\ phase' = "concluded"
  /\ UNCHANGED <<accepted, queue, serving, ready>>

\* The answer is handed over, or leaves by another way (an event).
Release ==
  /\ phase = "concluded"
  /\ phase' = "free" /\ serving' = 0 /\ outcome' = "none"
  /\ ready' \in {ready \cup {[ticket |-> serving, result |-> outcome]}, ready}
  /\ UNCHANGED <<accepted, queue, cancelling>>

\* An answer is taken by a client, or lost.
Collect ==
  /\ \E a \in ready : ready' = ready \ {a}
  /\ UNCHANGED <<accepted, queue, phase, serving, cancelling, outcome>>

Next == Accept \/ Begin \/ Cancel \/ Conclude \/ Release \/ Collect

Spec == Init /\ [][Next]_vars
=============================================================================
