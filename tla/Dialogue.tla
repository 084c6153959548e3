------------------------------ MODULE Dialogue ------------------------------
(***************************************************************************)
(* What somebody who writes to the device may rely on, whatever queues,    *)
(* tasks and locks lie between a message and its answer: the answers come  *)
(* in the order the messages were accepted, one at most for each; an       *)
(* accepted message may be lost, and nothing else happens to it.           *)
(***************************************************************************)
EXTENDS Sequences, SequencesExt

CONSTANT Messages

VARIABLES
  accepted,  \* every message that was ever accepted, in that order
  waiting,   \* those that are neither answered nor lost
  answered   \* in the order of the answers

vars == <<accepted, waiting, answered>>

Init == accepted = <<>> /\ waiting = {} /\ answered = <<>>

Accept(m) ==
  /\ m \notin ToSet(accepted)
  /\ accepted' = Append(accepted, m)
  /\ waiting' = waiting \cup {m}
  /\ UNCHANGED answered

\* Only the oldest message that is not lost is answered.
Answer ==
  \E i \in DOMAIN accepted :
    /\ accepted[i] \in waiting
    /\ \A j \in 1..(i - 1) : accepted[j] \notin waiting
    /\ answered' = Append(answered, accepted[i])
    /\ waiting' = waiting \ {accepted[i]}
    /\ UNCHANGED accepted

Lose(m) ==
  /\ m \in waiting
  /\ waiting' = waiting \ {m}
  /\ UNCHANGED <<accepted, answered>>

Next ==
  \/ \E m \in Messages : Accept(m) \/ Lose(m)
  \/ Answer

Spec == Init /\ [][Next]_vars
=============================================================================
