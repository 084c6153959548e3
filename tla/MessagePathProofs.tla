-------------------------- MODULE MessagePathProofs --------------------------
(* Proofs about MessagePath, for any messages and sizes of the queues.      *)
EXTENDS MessagePath, FunctionTheorems, FiniteSetTheorems, SequenceTheorems, TLAPS

\* What an element added at the end, or taken from the front, does to the set
\* of elements of a queue.
LEMMA ToSetAppend ==
  ASSUME NEW S, NEW s \in Seq(S), NEW e \in S
  PROVE  ToSet(Append(s, e)) = ToSet(s) \cup {e}
<1>1. /\ Append(s, e) \in Seq(S)
      /\ Len(Append(s, e)) = Len(s) + 1
      /\ \A i \in 1..Len(s) : Append(s, e)[i] = s[i]
      /\ Append(s, e)[Len(s) + 1] = e
  BY AppendProperties
<1>2. /\ Len(s) \in Nat
      /\ DOMAIN s = 1..Len(s)
      /\ DOMAIN Append(s, e) = 1..(Len(s) + 1)
  BY <1>1, LenProperties
<1> QED BY <1>1, <1>2 DEF ToSet

\* The first element and the rest make up the elements.
LEMMA ToSetTail ==
  ASSUME NEW S, NEW s \in Seq(S), s # <<>>
  PROVE  ToSet(s) = {Head(s)} \cup ToSet(Tail(s))
<1>1. /\ Tail(s) \in Seq(S)
      /\ Len(Tail(s)) = Len(s) - 1
      /\ \A i \in 1..Len(Tail(s)) : Tail(s)[i] = s[i + 1]
  BY HeadTailProperties
<1>2. /\ Len(s) \in Nat \ {0}
      /\ DOMAIN s = 1..Len(s)
      /\ DOMAIN Tail(s) = 1..(Len(s) - 1)
      /\ Head(s) = s[1]
  BY <1>1, LenProperties, EmptySeq
<1>3. \A x : x \in ToSet(s) => x \in {Head(s)} \cup ToSet(Tail(s))
  <2> SUFFICES ASSUME NEW i \in 1..Len(s)
               PROVE  s[i] \in {Head(s)} \cup ToSet(Tail(s))
    BY <1>2 DEF ToSet
  <2>1. CASE i = 1
    BY <1>2, <2>1
  <2>2. CASE i # 1
    <3>1. i - 1 \in 1..(Len(s) - 1) /\ (i - 1) + 1 = i
      BY <1>2, <2>2
    <3> QED BY <1>1, <1>2, <3>1 DEF ToSet
  <2> QED BY <2>1, <2>2
<1>4. \A x : x \in {Head(s)} \cup ToSet(Tail(s)) => x \in ToSet(s)
  BY <1>1, <1>2 DEF ToSet
<1> QED BY <1>3, <1>4

\* No two places of a queue hold the same.
Distinct(s) == \A i, j \in 1..Len(s) : s[i] = s[j] => i = j

\* What joins a queue and was not in it leaves it without a pair of equals.
LEMMA DistinctAppend ==
  ASSUME NEW S, NEW s \in Seq(S), NEW e \in S, Distinct(s), e \notin ToSet(s)
  PROVE  Distinct(Append(s, e))
<1>1. /\ Len(s) \in Nat
      /\ Len(Append(s, e)) = Len(s) + 1
      /\ \A i \in 1..Len(s) : Append(s, e)[i] = s[i]
      /\ Append(s, e)[Len(s) + 1] = e
  BY AppendProperties
<1>2. \A i \in 1..Len(s) : s[i] # e
  BY DEF ToSet
<1> QED BY <1>1, <1>2 DEF Distinct

\* The head of such a queue is not in its tail.
LEMMA DistinctTail ==
  ASSUME NEW S, NEW s \in Seq(S), s # <<>>, Distinct(s)
  PROVE  Distinct(Tail(s)) /\ Head(s) \notin ToSet(Tail(s))
<1>1. /\ Len(s) \in Nat \ {0}
      /\ Tail(s) \in Seq(S)
      /\ Len(Tail(s)) = Len(s) - 1
      /\ \A i \in 1..Len(Tail(s)) : Tail(s)[i] = s[i + 1]
      /\ Head(s) = s[1]
  BY HeadTailProperties
<1>2. Distinct(Tail(s))
  BY <1>1 DEF Distinct
<1>3. DOMAIN Tail(s) = 1..Len(Tail(s))
  BY <1>1
<1>4. \A i \in 1..Len(Tail(s)) : Tail(s)[i] # Head(s)
  BY <1>1 DEF Distinct
<1> QED BY <1>2, <1>3, <1>4 DEF ToSet

-----------------------------------------------------------------------------
(* Types.                                                                  *)

\* Whoever is at work has a message in hand.
Carried ==
  /\ router.pc # "receive" => router.msg \in Messages
  /\ core.pc # "receive" => core.msg \in Messages
  /\ worker.pc # "receive" => worker.msg \in Messages

Typed == TypeOK /\ Carried

LEMMA TypedInit == Init => Typed
BY SlotsAssumption DEF Init, Typed, TypeOK, Carried, Holders

LEMMA TypedPublisher ==
  ASSUME Typed, NEW m \in Messages,
         Call(m) \/ Track(m) \/ Send(m) \/ SendTimesOut(m) \/ Untrack(m)
  PROVE  Typed'
<1> USE DEF Typed, TypeOK, Carried
<1>1. CASE Call(m) BY <1>1 DEF Call
<1>2. CASE Track(m) BY <1>2 DEF Track
<1>3. CASE Send(m)
  <2>1. [kind |-> "in", msg |-> m] \in Events
    BY DEF Events
  <2>2. events' \in Seq(Events) /\ Len(events') <= EventSlots
    BY <1>3, <2>1, AppendProperties, SlotsAssumption DEF Send, Room
  <2> QED BY <1>3, <2>2 DEF Send
<1>4. CASE SendTimesOut(m) BY <1>4 DEF SendTimesOut
<1>5. CASE Untrack(m) BY <1>5 DEF Untrack
<1> QED BY <1>1, <1>2, <1>3, <1>4, <1>5

LEMMA TypedRouter ==
  ASSUME Typed, Router
  PROVE  Typed'
<1> USE DEF Typed, TypeOK, Carried
<1>0. RouterIdle \in [pc : {"receive", "match", "submit", "submitLocked", "deliver"},
                      kind : {"in", "out"}, msg : Holders] /\ RouterIdle.pc = "receive"
  BY DEF RouterIdle, Holders
<1>1. CASE RouterReceives
  <2>1. /\ Head(events) \in Events /\ Tail(events) \in Seq(Events)
        /\ Len(Tail(events)) <= EventSlots
    BY <1>1, HeadTailProperties, SlotsAssumption DEF RouterReceives
  <2> QED BY <1>1, <2>1 DEF RouterReceives, Events, Holders
<1>2. CASE RouterMatches
  <2>1. PICK pc \in {"deliver", "submitLocked", "submit"} :
          router' = [router EXCEPT !.pc = pc]
    BY <1>2 DEF RouterMatches
  <2> QED BY <1>2, <2>1 DEF RouterMatches
<1>3. CASE RouterSubmits
  <2>1. router.msg \in Messages
    BY <1>3 DEF RouterSubmits, AtSubmit
  <2>2. requests' \in Seq(Messages) /\ Len(requests') <= RequestSlots
    BY <1>3, <2>1, AppendProperties, SlotsAssumption DEF RouterSubmits, Room
  <2> QED BY <1>0, <1>3, <2>2 DEF RouterSubmits
<1>4. CASE SubmitTimesOut BY <1>0, <1>4 DEF SubmitTimesOut
<1>5. CASE RouterDelivers
  <2>1. answers' \in Seq(Messages)
    BY <1>5, AppendProperties DEF RouterDelivers
  <2> QED BY <1>0, <1>5, <2>1 DEF RouterDelivers
<1>6. CASE DeliveryFails BY <1>0, <1>6 DEF DeliveryFails
<1> QED BY <1>1, <1>2, <1>3, <1>4, <1>5, <1>6 DEF Router

LEMMA TypedCore ==
  ASSUME Typed, Core
  PROVE  Typed'
<1> USE DEF Typed, TypeOK, Carried
<1>0. /\ CoreIdle.pc = "receive"
      /\ CoreIdle \in [pc : {"receive", "start", "queue", "work", "tool", "collect",
                             "wait", "track", "send", "untrack"},
                       msg : Holders, tools : 0..MaxTools]
  BY SlotsAssumption DEF CoreIdle, Holders
<1>1. CASE CoreReceives
  <2>1. /\ Head(requests) \in Messages /\ Tail(requests) \in Seq(Messages)
        /\ Len(Tail(requests)) <= RequestSlots
    BY <1>1, HeadTailProperties, SlotsAssumption DEF CoreReceives
  <2> QED BY <1>1, <2>1, SlotsAssumption DEF CoreReceives, Holders
<1>2. CASE StartExtract
  <2>1. jobs' \in [Messages -> {"none", "linked", "completed"}]
    BY <1>2 DEF StartExtract
  <2> QED BY <1>2, <2>1 DEF StartExtract, CoreAt, CoreGoto
<1>3. CASE QueueExtract
  <2>1. core.msg \in Messages
    BY <1>3 DEF QueueExtract, CoreAt
  <2>2. extracts' \in Seq(Messages) /\ Len(extracts') <= ExtractSlots
    BY <1>3, <2>1, AppendProperties, SlotsAssumption DEF QueueExtract, Room
  <2> QED BY <1>3, <2>2 DEF QueueExtract, CoreAt, CoreGoto
<1>4. CASE QueueExtractFails BY <1>4 DEF QueueExtractFails, CoreAt, CoreGoto
<1>5. CASE Work
  <2>1. CASE core' = [core EXCEPT !.pc = "tool", !.tools = @ + 1] /\ core.tools < MaxTools
    <3>1. core.tools + 1 \in 0..MaxTools
      BY <2>1, SlotsAssumption
    <3> QED BY <1>5, <2>1, <3>1 DEF Work, CoreAt
  <2>2. CASE CoreGoto("collect") \/ CoreGoto("track")
    BY <1>5, <2>2 DEF Work, CoreAt, CoreGoto
  <2> QED BY <1>5, <2>1, <2>2 DEF Work
<1>6. CASE UseTool BY <1>6 DEF UseTool, CoreAt, CoreGoto
<1>7. CASE Collect
  <2>1. jobs' \in [Messages -> {"none", "linked", "completed"}]
    BY <1>7 DEF Collect
  <2> QED BY <1>7, <2>1 DEF Collect, CoreAt, CoreGoto
<1>8. CASE Wait BY <1>8 DEF Wait, CoreAt, CoreGoto
<1>9. CASE TrackAnswer BY <1>9 DEF TrackAnswer, CoreAt, CoreGoto
<1>10. CASE SendAnswer
  <2>1. [kind |-> "out", msg |-> core.msg] \in Events
    BY <1>10 DEF SendAnswer, CoreAt, Events
  <2>2. events' \in Seq(Events) /\ Len(events') <= EventSlots
    BY <1>10, <2>1, AppendProperties, SlotsAssumption DEF SendAnswer, Room
  <2> QED BY <1>0, <1>10, <2>2 DEF SendAnswer
<1>11. CASE AnswerTimesOut BY <1>11 DEF AnswerTimesOut, CoreAt, CoreGoto
<1>12. CASE UntrackAnswer BY <1>0, <1>12 DEF UntrackAnswer
<1> QED BY <1>1, <1>2, <1>3, <1>4, <1>5, <1>6, <1>7, <1>8, <1>9, <1>10,
           <1>11, <1>12 DEF Core

LEMMA TypedWorker ==
  ASSUME Typed, Worker
  PROVE  Typed'
<1> USE DEF Typed, TypeOK, Carried
<1>1. CASE WorkerReceives
  <2>1. /\ Head(extracts) \in Messages /\ Tail(extracts) \in Seq(Messages)
        /\ Len(Tail(extracts)) <= ExtractSlots
    BY <1>1, HeadTailProperties, SlotsAssumption DEF WorkerReceives
  <2> QED BY <1>1, <2>1 DEF WorkerReceives, Holders
<1>2. CASE Commit BY <1>2 DEF Commit
<1>3. CASE Give BY <1>3 DEF Give, Holders
<1> QED BY <1>1, <1>2, <1>3 DEF Worker

LEMMA TypedNext == Typed /\ [Next]_vars => Typed'
<1> SUFFICES ASSUME Typed, [Next]_vars PROVE Typed'
  OBVIOUS
<1>1. CASE UNCHANGED vars
  BY <1>1 DEF vars, Typed, TypeOK, Carried
<1>2. CASE \E m \in Messages : Call(m) \/ Publisher(m)
  BY <1>2, TypedPublisher DEF Publisher
<1> QED BY <1>1, <1>2, TypedRouter, TypedCore, TypedWorker DEF Next

\* Every variable keeps its type and every queue its length, and whoever is
\* at work has a message in hand.
THEOREM PathTyped == Spec => []Typed
<1> QED BY TypedInit, TypedNext, PTL DEF Spec

\* MessagePath keeps its types.
THEOREM PathTypeOK == Spec => []TypeOK
<1>1. Typed => TypeOK
  BY DEF Typed
<1> QED BY PathTyped, <1>1, PTL

-----------------------------------------------------------------------------
(* The jobs of the extraction.                                             *)

\* A job is queued once, and is in one place: in the queue, in the hands of
\* the worker that chats about it, or in those of the core that queues it.
\* A job the core waits for was not freed.
HandsApart ==
  /\ Distinct(extracts)
  /\ worker.pc = "chat" => worker.msg \notin ToSet(extracts)
  /\ core.pc = "queue" => core.msg \notin ToSet(extracts)
  /\ core.pc = "queue" /\ worker.pc = "chat" => core.msg # worker.msg
  /\ core.pc = "wait" => jobs[core.msg] # "none"

JobsInv == Typed /\ JobsInHand /\ HandsApart /\ WaiterWakes

Linked == {m \in Messages : jobs[m] = "linked"}

LEMMA JobsInit == Init => JobsInHand /\ HandsApart /\ WaiterWakes
BY DEF Init, JobsInHand, HandsApart, WaiterWakes, Held, CoreAt, Distinct, ToSet

\* What leaves the jobs and the worker alone and takes the core neither from
\* queueing nor to queueing nor to waiting disturbs nothing.
LEMMA JobsElsewhere ==
  ASSUME JobsInv, UNCHANGED <<jobs, extracts, worker>>,
         \/ UNCHANGED <<core, woken>>
         \/ core.pc # "queue" /\ core'.pc \notin {"queue", "wait"}
  PROVE  JobsInHand' /\ HandsApart' /\ WaiterWakes'
BY DEF JobsInv, JobsInHand, HandsApart, WaiterWakes, Held, CoreAt, Distinct, ToSet

LEMMA JobsCore ==
  ASSUME JobsInv, Core
  PROVE  JobsInHand' /\ HandsApart' /\ WaiterWakes'
<1> USE DEF CoreAt, CoreGoto
<1>0. Typed /\ TypeOK /\ Carried
  BY DEF JobsInv, Typed
<1>1. CASE CoreReceives BY <1>0, <1>1, JobsElsewhere DEF CoreReceives, TypeOK
<1>2. CASE StartExtract
  <2>0. core.pc = "start" /\ core.msg \in Messages /\ UNCHANGED <<extracts, worker, woken>>
    BY <1>0, <1>2 DEF StartExtract, Carried
  <2>1. CASE core' = [core EXCEPT !.pc = "work"] /\ UNCHANGED jobs
    BY <1>0, <2>0, <2>1, JobsElsewhere DEF TypeOK
  <2>2. ASSUME NEW swept \in SUBSET Sweepable,
               jobs' = [m \in Messages |->
                          IF m \in swept \ {core.msg} THEN "none"
                          ELSE IF m = core.msg /\ jobs[m] = "none" THEN "linked"
                          ELSE jobs[m]],
               core' = [core EXCEPT !.pc = IF jobs[core.msg] = "none" THEN "queue" ELSE "work"]
        PROVE  JobsInHand' /\ HandsApart' /\ WaiterWakes'
    <3>1. \A m \in swept : jobs[m] = "completed"
      BY <2>2 DEF Sweepable
    <3>2. Linked' = IF jobs[core.msg] = "none" THEN Linked \cup {core.msg} ELSE Linked
      BY <1>0, <2>0, <2>2, <3>1 DEF Linked, TypeOK
    <3>3. core'.pc = (IF jobs[core.msg] = "none" THEN "queue" ELSE "work")
          /\ core'.msg = core.msg
      BY <1>0, <2>2 DEF TypeOK
    <3>4. jobs[core.msg] = "none" =>
            core.msg \notin ToSet(extracts) \cup Held({"chat"}, worker.pc, worker.msg)
      BY <2>0 DEF JobsInv, JobsInHand
    <3>5. JobsInHand'
      BY <2>0, <3>2, <3>3 DEF JobsInv, JobsInHand, Linked, Held
    <3>6. HandsApart'
      BY <2>0, <3>3, <3>4 DEF JobsInv, HandsApart, Held, Distinct, ToSet
    <3>7. WaiterWakes'
      BY <3>3 DEF WaiterWakes
    <3> QED BY <3>5, <3>6, <3>7
  <2> QED BY <1>2, <2>1, <2>2 DEF StartExtract
<1>3. CASE QueueExtract
  <2>0. /\ core.pc = "queue" /\ core.msg \in Messages /\ UNCHANGED <<jobs, worker, woken>>
        /\ extracts \in Seq(Messages) /\ extracts' = Append(extracts, core.msg)
        /\ core'.pc = "work" /\ core'.msg = core.msg
    BY <1>0, <1>3 DEF QueueExtract, Carried, TypeOK
  <2>1. ToSet(extracts') = ToSet(extracts) \cup {core.msg}
    BY <2>0, ToSetAppend
  <2>2. Distinct(extracts')
    BY <2>0, DistinctAppend DEF JobsInv, HandsApart
  <2>3. JobsInHand'
    BY <2>0, <2>1 DEF JobsInv, JobsInHand, Held
  <2>4. HandsApart'
    BY <2>0, <2>1, <2>2 DEF JobsInv, HandsApart
  <2>5. WaiterWakes'
    BY <2>0 DEF WaiterWakes
  <2> QED BY <2>3, <2>4, <2>5
<1>4. CASE QueueExtractFails
  <2>0. /\ core.pc = "queue" /\ core.msg \in Messages /\ UNCHANGED <<extracts, worker, woken>>
        /\ jobs' = [jobs EXCEPT ![core.msg] = "none"] /\ core'.pc = "work"
    BY <1>0, <1>4 DEF QueueExtractFails, Carried, TypeOK
  <2>1. Linked' = Linked \ {core.msg}
    BY <1>0, <2>0 DEF Linked, TypeOK
  <2>2. core.msg \notin ToSet(extracts) \cup Held({"chat"}, worker.pc, worker.msg)
    BY <2>0 DEF JobsInv, HandsApart, Held
  <2>3. JobsInHand'
    BY <2>0, <2>1, <2>2 DEF JobsInv, JobsInHand, Linked, Held
  <2>4. HandsApart' /\ WaiterWakes'
    BY <2>0 DEF JobsInv, HandsApart, WaiterWakes, Distinct, ToSet
  <2> QED BY <2>3, <2>4
<1>5. CASE Work BY <1>0, <1>5, JobsElsewhere DEF Work, TypeOK
<1>6. CASE UseTool BY <1>0, <1>6, JobsElsewhere DEF UseTool, TypeOK
<1>7. CASE Collect
  <2>0. core.pc = "collect" /\ core.msg \in Messages /\ UNCHANGED <<extracts, worker>>
    BY <1>0, <1>7 DEF Collect, Carried
  <2>1. CASE core' = [core EXCEPT !.pc = "wait"] /\ jobs[core.msg] = "linked"
             /\ UNCHANGED <<jobs, woken>>
    <3>1. core'.pc = "wait" /\ core'.msg = core.msg
      BY <1>0, <2>1 DEF TypeOK
    <3>2. core.msg \in ToSet(extracts) \cup Held({"chat"}, worker.pc, worker.msg)
      BY <2>0, <2>1 DEF JobsInv, JobsInHand, Held
    <3>3. JobsInHand'
      BY <2>0, <2>1, <3>1 DEF JobsInv, JobsInHand, Held
    <3>4. HandsApart'
      BY <2>0, <2>1, <3>1 DEF JobsInv, HandsApart, Distinct, ToSet
    <3>5. WaiterWakes'
      BY <2>0, <2>1, <3>1, <3>2 DEF WaiterWakes, Held, ToSet
    <3> QED BY <3>3, <3>4, <3>5
  <2>2. CASE core' = [core EXCEPT !.pc = "track"] /\ Linked' = Linked
    <3>1. core'.pc = "track"
      BY <1>0, <2>2 DEF TypeOK
    <3>2. JobsInHand'
      BY <2>0, <2>2, <3>1 DEF JobsInv, JobsInHand, Held, Linked
    <3>3. HandsApart' /\ WaiterWakes'
      BY <2>0, <3>1 DEF JobsInv, HandsApart, WaiterWakes, Distinct, ToSet
    <3> QED BY <3>2, <3>3
  <2>3. ASSUME NEW swept \in SUBSET Sweepable,
               jobs' = [m \in Messages |-> IF m \in swept THEN "none" ELSE jobs[m]]
        PROVE  Linked' = Linked
    BY <1>0, <2>3 DEF Linked, Sweepable, TypeOK
  <2>4. jobs[core.msg] = "completed" /\ jobs' = [jobs EXCEPT ![core.msg] = "none"]
          => Linked' = Linked
    BY <1>0, <2>0 DEF Linked, TypeOK
  <2> QED BY <1>7, <2>1, <2>2, <2>3, <2>4 DEF Collect
<1>8. CASE Wait BY <1>0, <1>8, JobsElsewhere DEF Wait, TypeOK
<1>9. CASE TrackAnswer BY <1>0, <1>9, JobsElsewhere DEF TrackAnswer, TypeOK
<1>10. CASE SendAnswer BY <1>10, JobsElsewhere DEF SendAnswer, CoreIdle
<1>11. CASE AnswerTimesOut BY <1>0, <1>11, JobsElsewhere DEF AnswerTimesOut, TypeOK
<1>12. CASE UntrackAnswer BY <1>12, JobsElsewhere DEF UntrackAnswer, CoreIdle
<1> QED BY <1>1, <1>2, <1>3, <1>4, <1>5, <1>6, <1>7, <1>8, <1>9, <1>10,
           <1>11, <1>12 DEF Core

LEMMA JobsWorker ==
  ASSUME JobsInv, Worker
  PROVE  JobsInHand' /\ HandsApart' /\ WaiterWakes'
<1>0. Typed /\ TypeOK /\ Carried
  BY DEF JobsInv, Typed
<1>1. CASE WorkerReceives
  <2>0. /\ worker.pc = "receive" /\ UNCHANGED <<core, jobs, woken>>
        /\ extracts \in Seq(Messages) /\ extracts # <<>> /\ extracts' = Tail(extracts)
        /\ worker'.pc = "chat" /\ worker'.msg = Head(extracts)
    BY <1>0, <1>1 DEF WorkerReceives, TypeOK
  <2>1. ToSet(extracts) = {worker'.msg} \cup ToSet(extracts')
    BY <2>0, ToSetTail
  <2>2. Distinct(extracts') /\ worker'.msg \notin ToSet(extracts')
    BY <2>0, DistinctTail DEF JobsInv, HandsApart
  <2>3. JobsInHand'
    BY <2>0, <2>1 DEF JobsInv, JobsInHand, Held
  <2>4. HandsApart'
    BY <2>0, <2>1, <2>2 DEF JobsInv, HandsApart
  <2>5. WaiterWakes'
    BY <2>0, <2>1 DEF JobsInv, WaiterWakes, Held, CoreAt
  <2> QED BY <2>3, <2>4, <2>5
<1>2. CASE Commit
  <2>0. /\ worker.pc = "chat" /\ worker.msg \in Messages /\ UNCHANGED <<core, extracts, woken>>
        /\ jobs' = [jobs EXCEPT ![worker.msg] = "completed"]
        /\ worker'.pc = "give" /\ worker'.msg = worker.msg
    BY <1>0, <1>2 DEF Commit, Carried, TypeOK
  <2>1. Linked' = Linked \ {worker.msg}
    BY <1>0, <2>0 DEF Linked, TypeOK
  <2>2. worker.msg \notin ToSet(extracts) \cup Held({"queue"}, core.pc, core.msg)
    BY <2>0 DEF JobsInv, HandsApart, Held
  <2>3. JobsInHand'
    BY <2>0, <2>1, <2>2 DEF JobsInv, JobsInHand, Linked, Held
  <2>4. HandsApart'
    BY <1>0, <2>0 DEF JobsInv, HandsApart, Distinct, ToSet, TypeOK, Carried
  <2>5. WaiterWakes'
    BY <2>0 DEF JobsInv, WaiterWakes, Held, CoreAt, ToSet
  <2> QED BY <2>3, <2>4, <2>5
<1>3. CASE Give
  <2>0. /\ worker.pc = "give" /\ worker.msg \in Messages /\ UNCHANGED <<core, extracts, jobs>>
        /\ woken' = IF jobs[worker.msg] = "none" THEN woken ELSE woken \cup {worker.msg}
        /\ worker'.pc = "receive"
    BY <1>0, <1>3 DEF Give, Carried
  <2>1. JobsInHand' /\ HandsApart'
    BY <2>0 DEF JobsInv, JobsInHand, HandsApart, Held, Distinct, ToSet
  <2>2. WaiterWakes'
    BY <2>0 DEF JobsInv, WaiterWakes, HandsApart, Held, CoreAt, ToSet
  <2> QED BY <2>1, <2>2
<1> QED BY <1>1, <1>2, <1>3 DEF Worker

\* The inductive invariant: JobsInHand and WaiterWakes hold because a job is
\* queued once and is in one pair of hands, and because only the core frees
\* the job it waits for.
THEOREM PathInductive == Spec => []JobsInv
<1>1. Init => JobsInv
  BY TypedInit, JobsInit DEF JobsInv
<1>3. JobsInv /\ [Next]_vars => JobsInv'
  <2> SUFFICES ASSUME JobsInv, [Next]_vars PROVE JobsInHand' /\ HandsApart' /\ WaiterWakes'
    BY TypedNext DEF JobsInv
  <2>1. CASE UNCHANGED <<core, jobs, extracts, worker, woken>>
    BY <2>1, JobsElsewhere
  <2>2. CASE \E m \in Messages : Call(m) \/ Publisher(m)
    BY <2>1, <2>2 DEF Publisher, Call, Track, Send, SendTimesOut, Untrack
  <2>3. CASE Router
    BY <2>1, <2>3 DEF Router, RouterReceives, RouterMatches, RouterSubmits,
                      SubmitTimesOut, RouterDelivers, DeliveryFails
  <2>4. CASE UNCHANGED vars
    BY <2>1, <2>4 DEF vars
  <2> QED BY <2>2, <2>3, <2>4, JobsCore, JobsWorker DEF Next
<1> QED BY <1>1, <1>3, PTL DEF Spec

\* No job that the worker still writes to is freed, and none that is in the
\* list is forgotten.
THEOREM PathJobsInHand == Spec => []JobsInHand
<1>1. JobsInv => JobsInHand
  BY DEF JobsInv
<1> QED BY PathInductive, <1>1, PTL

\* The core never waits for a semaphore that nobody will give.
THEOREM PathWaiterWakes == Spec => []WaiterWakes
<1>1. JobsInv => WaiterWakes
  BY DEF JobsInv
<1> QED BY PathInductive, <1>1, PTL

\* WaitEnds: no job is freed under the worker, and every wait of the core for
\* one ends, for any messages and any lengths of the queues.
THEOREM PathWaitEnds == Spec => []WaitEnds
<1>1. JobsInv => WaitEnds
  BY DEF JobsInv, WaitEnds
<1> QED BY PathInductive, <1>1, PTL

-----------------------------------------------------------------------------
(* The order of the messages under way.                                    *)

\* a was accepted before b.
Older(a, b) ==
  \E i, j \in DOMAIN accepted : i < j /\ accepted[i] = a /\ accepted[j] = b

AllOlder(A, B) == \A a \in A, b \in B : Older(a, b)

\* The stations a message passes, the last one first.
AtRouter(kind) ==
  IF router.pc # "receive" /\ router.kind = kind THEN {router.msg} ELSE {}
Queued(kind) ==
  {events[i].msg : i \in {j \in 1..Len(events) : events[j].kind = kind}}
AtCore == IF core.pc # "receive" THEN {core.msg} ELSE {}
Asked == {requests[i] : i \in 1..Len(requests)}

\* What is at a station nearer to the answer is older than what is at one
\* further off.
StationsInOrder ==
  /\ AllOlder(AtRouter("out"),
              Queued("out") \cup AtCore \cup Asked \cup Queued("in"))
  /\ AllOlder(Queued("out"),
              AtCore \cup Asked \cup AtRouter("in") \cup Queued("in"))
  /\ AllOlder(AtCore, Asked \cup AtRouter("in") \cup Queued("in"))
  /\ AllOlder(Asked, AtRouter("in") \cup Queued("in"))
  /\ AllOlder(AtRouter("in"), Queued("in"))

\* In each queue, too.
EventsInOrder ==
  \A i, j \in 1..Len(events) :
    i < j /\ events[i].kind = events[j].kind => Older(events[i].msg, events[j].msg)
RequestsInOrder ==
  \A i, j \in 1..Len(requests) : i < j => Older(requests[i], requests[j])

\* A message is accepted once, by its publisher, and what is under way was.
AcceptedOnce ==
  /\ Distinct(accepted)
  /\ \A m \in Messages : gateway[m] # "done" => m \notin ToSet(accepted)
  /\ UnderWay \subseteq ToSet(accepted)

\* Who is not at work has no message in hand.
IdleHands ==
  /\ router.pc = "receive" => router.msg = None
  /\ core.pc = "receive" => core.msg = None

OrderInv ==
  /\ Typed /\ IdleHands /\ AcceptedOnce
  /\ StationsInOrder /\ EventsInOrder /\ RequestsInOrder

\* UnderWay is what is at the stations.
StationsSum ==
  UnderWay = (Queued("out") \cup Queued("in")) \cup Asked
               \cup (AtRouter("out") \cup AtRouter("in") \cup AtCore)

LEMMA StationsHold == Typed /\ IdleHands => StationsSum
<1> SUFFICES ASSUME Typed, IdleHands PROVE StationsSum
  OBVIOUS
<1> DEFINE M == {e.msg : e \in ToSet(events)}
<1> DEFINE H == {router.msg, core.msg} \ {None}
<1>1. /\ DOMAIN events = 1..Len(events) /\ DOMAIN requests = 1..Len(requests)
      /\ \A i \in 1..Len(events) : events[i] \in Events
  BY DEF Typed, TypeOK
<1>2. M = Queued("out") \cup Queued("in")
  BY <1>1 DEF ToSet, Queued, Events
<1>3. ToSet(requests) = Asked
  BY <1>1 DEF ToSet, Asked
<1>4. H = AtRouter("out") \cup AtRouter("in") \cup AtCore
  BY SlotsAssumption DEF Typed, TypeOK, Carried, IdleHands, AtRouter, AtCore
<1>5. UnderWay = M \cup ToSet(requests) \cup H
  BY DEF UnderWay
<1> HIDE DEF M, H
<1> QED BY <1>2, <1>3, <1>4, <1>5 DEF StationsSum

\* Nobody is older than itself, and no two are each the older.
LEMMA OlderStrict ==
  ASSUME Typed, Distinct(accepted), NEW a, NEW b, Older(a, b)
  PROVE  a # b /\ ~Older(b, a)
<1>1. DOMAIN accepted = 1..Len(accepted) /\ Len(accepted) \in Nat
  BY DEF Typed, TypeOK
<1>2. PICK i, j \in 1..Len(accepted) : i < j /\ accepted[i] = a /\ accepted[j] = b
  BY <1>1 DEF Older
<1>3. a # b
  BY <1>1, <1>2 DEF Distinct
<1>4. ASSUME NEW k \in 1..Len(accepted), NEW l \in 1..Len(accepted), k < l,
             accepted[k] = b, accepted[l] = a
      PROVE  FALSE
  <2>1. k = j /\ l = i
    BY <1>2, <1>4 DEF Distinct
  <2> QED BY <1>1, <1>2, <1>4, <2>1
<1> QED BY <1>1, <1>3, <1>4 DEF Older

\* What is accepted comes after everything accepted before.
LEMMA OlderAppend ==
  ASSUME Typed, NEW m \in Messages, accepted' = Append(accepted, m)
  PROVE  /\ \A a, b : Older(a, b) => Older(a, b)'
         /\ \A a \in ToSet(accepted) : Older(a, m)'
<1>1. /\ Len(accepted) \in Nat
      /\ DOMAIN accepted = 1..Len(accepted)
      /\ DOMAIN accepted' = 1..(Len(accepted) + 1)
      /\ \A i \in 1..Len(accepted) : accepted'[i] = accepted[i]
      /\ accepted'[Len(accepted) + 1] = m
  BY AppendProperties DEF Typed, TypeOK
<1>2. \A a, b : Older(a, b) => Older(a, b)'
  BY <1>1 DEF Older
<1>3. \A a \in ToSet(accepted) : Older(a, m)'
  BY <1>1 DEF Older, ToSet
<1> QED BY <1>2, <1>3

\* The stations after an event joins the queue.
LEMMA QueuedAppend ==
  ASSUME Typed, NEW e \in Events, events' = Append(events, e)
  PROVE  \A k \in {"in", "out"} :
           Queued(k)' = IF k = e.kind THEN Queued(k) \cup {e.msg} ELSE Queued(k)
<1>1. /\ Len(events) \in Nat
      /\ Len(events') = Len(events) + 1
      /\ \A i \in 1..Len(events) : events'[i] = events[i]
      /\ events'[Len(events) + 1] = e
  BY AppendProperties DEF Typed, TypeOK
<1> QED BY <1>1 DEF Queued

\* The stations after an event leaves it.
LEMMA QueuedTail ==
  ASSUME Typed, EventsInOrder, events # <<>>, events' = Tail(events)
  PROVE  \A k \in {"in", "out"} :
           /\ Queued(k) = IF k = Head(events).kind THEN Queued(k)' \cup {Head(events).msg}
                                                   ELSE Queued(k)'
           /\ k = Head(events).kind => AllOlder({Head(events).msg}, Queued(k)')
<1>1. /\ Len(events) \in Nat \ {0}
      /\ Len(events') = Len(events) - 1
      /\ \A i \in 1..Len(events') : events'[i] = events[i + 1]
      /\ \A i \in 2..Len(events) : events[i] = events'[i - 1] /\ i - 1 \in 1..Len(events')
      /\ Head(events) = events[1]
  BY HeadTailProperties DEF Typed, TypeOK
<1> SUFFICES ASSUME NEW k \in {"in", "out"}
             PROVE  /\ Queued(k) = IF k = Head(events).kind
                                     THEN Queued(k)' \cup {Head(events).msg}
                                     ELSE Queued(k)'
                    /\ k = Head(events).kind => AllOlder({Head(events).msg}, Queued(k)')
  OBVIOUS
<1>2. \A x : x \in Queued(k)' => x \in Queued(k)
  BY <1>1 DEF Queued
<1>3. \A x : x \in Queued(k) => x \in Queued(k)' \/ (k = Head(events).kind /\ x = Head(events).msg)
  <2> SUFFICES ASSUME NEW i \in 1..Len(events), events[i].kind = k, i # 1
               PROVE  events[i].msg \in Queued(k)'
    BY <1>1 DEF Queued
  <2>1. i \in 2..Len(events)
    BY <1>1
  <2> QED BY <1>1, <2>1 DEF Queued
<1>4. k = Head(events).kind => Head(events).msg \in Queued(k)
  BY <1>1 DEF Queued
<1>5. ASSUME k = Head(events).kind, NEW i \in 1..Len(events'), events'[i].kind = k
      PROVE  Older(Head(events).msg, events'[i].msg)
  <2>1. 1 \in 1..Len(events) /\ i + 1 \in 1..Len(events) /\ 1 < i + 1
    BY <1>1
  <2> QED BY <1>1, <1>5, <2>1 DEF EventsInOrder
<1>6. k = Head(events).kind => AllOlder({Head(events).msg}, Queued(k)')
  BY <1>5 DEF AllOlder, Queued
<1> QED BY <1>2, <1>3, <1>4, <1>6


\* Nobody starts with a message.
LEMMA OrderInit == Init => OrderInv
<1> SUFFICES ASSUME Init PROVE OrderInv
  OBVIOUS
<1>1. /\ events = <<>> /\ requests = <<>> /\ accepted = <<>>
      /\ router.pc = "receive" /\ router.msg = None
      /\ core.pc = "receive" /\ core.msg = None
  BY DEF Init
<1>2. Typed
  BY TypedInit
<1>3. IdleHands /\ EventsInOrder /\ RequestsInOrder /\ StationsInOrder
  BY <1>1 DEF IdleHands, EventsInOrder, RequestsInOrder, StationsInOrder, AllOlder,
              AtRouter, Queued, AtCore, Asked
<1>4. UnderWay = {} /\ ToSet(accepted) = {} /\ Distinct(accepted)
  BY <1>1 DEF UnderWay, ToSet, Distinct
<1> QED BY <1>2, <1>3, <1>4 DEF OrderInv, AcceptedOnce

\* A step that leaves the stations and the history alone.
LEMMA OrderElsewhere ==
  ASSUME OrderInv, Typed', UNCHANGED <<events, requests, accepted>>,
         router'.msg = router.msg, router'.kind = router.kind,
         (router'.pc = "receive") <=> (router.pc = "receive"),
         core'.msg = core.msg, (core'.pc = "receive") <=> (core.pc = "receive"),
         \A m \in Messages : gateway'[m] # "done" => gateway[m] # "done"
  PROVE  OrderInv' /\ UnderWay' = UnderWay
<1>1. \A a, b : Older(a, b)' <=> Older(a, b)
  BY DEF Older
<1>2. /\ \A k : AtRouter(k)' = AtRouter(k) /\ Queued(k)' = Queued(k)
      /\ AtCore' = AtCore /\ Asked' = Asked
  BY DEF AtRouter, Queued, AtCore, Asked
<1>3. UnderWay' = UnderWay
  BY DEF UnderWay
<1>4. StationsInOrder'
  BY <1>1, <1>2 DEF OrderInv, StationsInOrder, AllOlder
<1>5. EventsInOrder' /\ RequestsInOrder' /\ IdleHands'
  BY <1>1 DEF OrderInv, EventsInOrder, RequestsInOrder, IdleHands
<1>6. AcceptedOnce'
  BY <1>3 DEF OrderInv, AcceptedOnce
<1> QED BY <1>3, <1>4, <1>5, <1>6 DEF OrderInv

\* A message is accepted: it is the youngest.
LEMMA OrderSend ==
  ASSUME OrderInv, Typed', NEW m \in Messages, Send(m)
  PROVE  /\ OrderInv' /\ UnderWay' = UnderWay \cup {m}
         /\ m \notin ToSet(accepted)
<1> DEFINE e == [kind |-> "in", msg |-> m]
<1>0. /\ e \in Events /\ e.kind = "in" /\ e.msg = m
      /\ events' = Append(events, e)
      /\ accepted' = Append(accepted, m)
      /\ gateway[m] = "send" /\ gateway' = [gateway EXCEPT ![m] = "done"]
      /\ UNCHANGED <<router, requests, core>>
      /\ Typed /\ IdleHands /\ AcceptedOnce
  BY DEF Send, Events, OrderInv
<1>10. \A i \in 1..Len(events) : events[i].kind \in {"in", "out"}
  <2>1. events \in Seq(Events)
    BY DEF OrderInv, Typed, TypeOK
  <2>2. \A i \in 1..Len(events) : events[i] \in Events
    BY <2>1
  <2> QED BY <2>2 DEF Events
<1> HIDE DEF e
<1>1. /\ \A a, b : Older(a, b) => Older(a, b)'
      /\ \A a \in ToSet(accepted) : Older(a, m)'
  BY <1>0, OlderAppend
<1>2. /\ Queued("in")' = Queued("in") \cup {m} /\ Queued("out")' = Queued("out")
      /\ AtRouter("in")' = AtRouter("in") /\ AtRouter("out")' = AtRouter("out")
      /\ AtCore' = AtCore /\ Asked' = Asked
  BY <1>0, QueuedAppend DEF AtRouter, AtCore, Asked
<1>3. IdleHands'
  BY <1>0 DEF IdleHands
<1>4. UnderWay' = UnderWay \cup {m}
  <2>1. Typed' /\ IdleHands' => StationsSum'
    BY StationsHold, PTL
  <2>2. UnderWay' = (Queued("out")' \cup Queued("in")') \cup Asked'
                      \cup (AtRouter("out")' \cup AtRouter("in")' \cup AtCore')
    BY <1>3, <2>1 DEF StationsSum
  <2>3. UnderWay' = (Queued("out") \cup (Queued("in") \cup {m})) \cup Asked
                      \cup (AtRouter("out") \cup AtRouter("in") \cup AtCore)
    BY <1>2, <2>2
  <2>4. UnderWay = (Queued("out") \cup Queued("in")) \cup Asked
                     \cup (AtRouter("out") \cup AtRouter("in") \cup AtCore)
    BY <1>0, StationsHold DEF StationsSum
  <2> QED BY <2>3, <2>4
<1>5. m \notin ToSet(accepted)
  BY <1>0 DEF AcceptedOnce
<1>6. AcceptedOnce'
  <2>1. ToSet(accepted') = ToSet(accepted) \cup {m} /\ Distinct(accepted')
    BY <1>0, <1>5, ToSetAppend, DistinctAppend DEF Typed, TypeOK, AcceptedOnce
  <2> QED BY <1>0, <1>4, <2>1 DEF AcceptedOnce, Typed, TypeOK
<1>7. /\ Queued("out") \cup Queued("in") \cup Asked
           \cup AtRouter("out") \cup AtRouter("in") \cup AtCore \subseteq ToSet(accepted)
  BY <1>0, StationsHold DEF AcceptedOnce, StationsSum
<1>8. StationsInOrder'
  BY <1>1, <1>2, <1>7 DEF OrderInv, StationsInOrder, AllOlder
<1>9. EventsInOrder'
  <2>1. /\ Len(events) \in Nat
        /\ Len(events') = Len(events) + 1
        /\ \A i \in 1..Len(events) : events'[i] = events[i]
        /\ events'[Len(events) + 1] = e
    BY <1>0, AppendProperties DEF Typed, TypeOK
  <2>2. \A i \in 1..Len(events) : events[i].msg \in ToSet(accepted)
    <3> TAKE i \in 1..Len(events)
    <3>1. events[i].kind \in {"in", "out"}
      BY <1>10
    <3>2. events[i].msg \in Queued(events[i].kind)
      BY DEF Queued
    <3>3. Queued("in") \subseteq ToSet(accepted) /\ Queued("out") \subseteq ToSet(accepted)
      BY <1>7
    <3> QED BY <3>1, <3>2, <3>3
  <2> QED BY <1>0, <1>1, <2>1, <2>2 DEF OrderInv, EventsInOrder
<1>11. RequestsInOrder'
  BY <1>0, <1>1 DEF OrderInv, RequestsInOrder
<1> QED BY <1>3, <1>4, <1>5, <1>6, <1>8, <1>9, <1>11 DEF OrderInv

\* The history does not change when a message moves or is lost.
LEMMA OrderKept ==
  ASSUME OrderInv, Typed', UNCHANGED <<gateway, accepted>>,
         IdleHands', StationsInOrder', EventsInOrder', RequestsInOrder',
         UnderWay' \subseteq UnderWay
  PROVE  OrderInv'
BY DEF OrderInv, AcceptedOnce

LEMMA OlderKept ==
  ASSUME UNCHANGED accepted
  PROVE  \A a, b : Older(a, b)' <=> Older(a, b)
BY DEF Older

\* The order of a list is that of its rest.
LEMMA EventsTail ==
  ASSUME Typed, EventsInOrder, events # <<>>, events' = Tail(events), UNCHANGED accepted
  PROVE  EventsInOrder'
<1>1. /\ Len(events) \in Nat \ {0}
      /\ Len(events') = Len(events) - 1
      /\ \A i \in 1..Len(events') : events'[i] = events[i + 1]
  BY HeadTailProperties DEF Typed, TypeOK
<1> QED BY <1>1, OlderKept DEF EventsInOrder

\* The router takes the oldest event of its kind.
LEMMA OrderReceives ==
  ASSUME OrderInv, Typed', RouterReceives
  PROVE  OrderInv' /\ UnderWay' = UnderWay
<1> DEFINE e == Head(events)
<1>1. /\ Typed /\ IdleHands /\ EventsInOrder
      /\ events # <<>> /\ events' = Tail(events)
      /\ router.pc = "receive"
      /\ router'.pc = "match" /\ router'.kind = e.kind /\ router'.msg = e.msg
      /\ UNCHANGED <<gateway, requests, core, accepted>>
  BY DEF OrderInv, RouterReceives
<1>2. e \in Events
  BY <1>1, HeadTailProperties DEF Typed, TypeOK
<1>3. e.kind \in {"in", "out"}
  BY <1>2 DEF Events
<1>4. \A k \in {"in", "out"} :
        /\ Queued(k) = IF k = e.kind THEN Queued(k)' \cup {e.msg} ELSE Queued(k)'
        /\ k = e.kind => AllOlder({e.msg}, Queued(k)')
  BY <1>1, QueuedTail
<1> HIDE DEF e
<1>5. /\ \A k \in {"in", "out"} : /\ AtRouter(k) = {}
                                  /\ AtRouter(k)' = IF k = e.kind THEN {e.msg} ELSE {}
      /\ AtCore' = AtCore /\ Asked' = Asked
  BY <1>1 DEF AtRouter, AtCore, Asked
<1>6. \A a, b : Older(a, b)' <=> Older(a, b)
  BY <1>1, OlderKept
<1>7. StationsInOrder'
  BY <1>3, <1>4, <1>5, <1>6 DEF OrderInv, StationsInOrder, AllOlder
<1>8. IdleHands' /\ EventsInOrder' /\ RequestsInOrder'
  BY <1>1, <1>6, EventsTail DEF IdleHands, OrderInv, RequestsInOrder
<1>9. UnderWay' = UnderWay
  <2>1. StationsSum /\ StationsSum'
    <3>1. Typed' /\ IdleHands' => StationsSum'
      BY StationsHold, PTL
    <3> QED BY <1>1, <1>8, <3>1, StationsHold
  <2>2. /\ Queued("out")' \cup Queued("in")' \cup AtRouter("out")' \cup AtRouter("in")'
             = Queued("out") \cup Queued("in") \cup AtRouter("out") \cup AtRouter("in")
    BY <1>3, <1>4, <1>5
  <2> QED BY <1>5, <2>1, <2>2 DEF StationsSum
<1> QED BY <1>1, <1>7, <1>8, <1>9, OrderKept

\* The router hands the message over: behind everything already asked.
LEMMA OrderSubmits ==
  ASSUME OrderInv, Typed', RouterSubmits, router.kind = "in"
  PROVE  OrderInv' /\ UnderWay' = UnderWay
<1>1. /\ Typed /\ IdleHands
      /\ router.pc # "receive" /\ router.msg \in Messages
      /\ requests' = Append(requests, router.msg)
      /\ router'.pc = "receive" /\ router'.msg = None
      /\ UNCHANGED <<gateway, events, core, accepted>>
  BY DEF OrderInv, RouterSubmits, RouterIdle, AtSubmit, Typed, Carried
<1>2. /\ Len(requests) \in Nat
      /\ Len(requests') = Len(requests) + 1
      /\ \A i \in 1..Len(requests) : requests'[i] = requests[i]
      /\ requests'[Len(requests) + 1] = router.msg
  BY <1>1, AppendProperties DEF Typed, TypeOK
<1>3. /\ Asked' = Asked \cup {router.msg}
      /\ AtRouter("in") = {router.msg} /\ AtRouter("out") = {}
      /\ AtRouter("in")' = {} /\ AtRouter("out")' = {}
      /\ AtCore' = AtCore /\ Queued("in")' = Queued("in") /\ Queued("out")' = Queued("out")
  <2>1. Asked' = Asked \cup {router.msg}
    BY <1>2 DEF Asked
  <2> QED BY <1>1, <2>1 DEF AtRouter, AtCore, Queued
<1>4. \A a, b : Older(a, b)' <=> Older(a, b)
  BY <1>1, OlderKept
<1>5. StationsInOrder'
  BY <1>3, <1>4 DEF OrderInv, StationsInOrder, AllOlder
<1>6. IdleHands' /\ EventsInOrder'
  BY <1>1, <1>4 DEF IdleHands, OrderInv, EventsInOrder
<1>7. RequestsInOrder'
  <2>1. \A i \in 1..Len(requests) : Older(requests[i], router.msg)
    BY <1>3 DEF OrderInv, StationsInOrder, AllOlder, Asked
  <2> QED BY <1>2, <1>4, <2>1 DEF OrderInv, RequestsInOrder
<1>8. UnderWay' = UnderWay
  <2>1. StationsSum /\ StationsSum'
    <3>1. Typed' /\ IdleHands' => StationsSum'
      BY StationsHold, PTL
    <3> QED BY <1>1, <1>6, <3>1, StationsHold
  <2> QED BY <1>3, <2>1 DEF StationsSum
<1> QED BY <1>1, <1>5, <1>6, <1>7, <1>8, OrderKept

\* The core takes the oldest request.
LEMMA OrderTakes ==
  ASSUME OrderInv, Typed', CoreReceives
  PROVE  OrderInv' /\ UnderWay' = UnderWay
<1>1. /\ Typed /\ IdleHands
      /\ requests # <<>> /\ requests' = Tail(requests)
      /\ core.pc = "receive" /\ core'.pc = "start" /\ core'.msg = Head(requests)
      /\ UNCHANGED <<gateway, events, router, accepted>>
  BY DEF OrderInv, CoreReceives, CoreAt
<1>2. /\ Len(requests) \in Nat \ {0}
      /\ Len(requests') = Len(requests) - 1
      /\ \A i \in 1..Len(requests') : requests'[i] = requests[i + 1]
      /\ Head(requests) = requests[1]
  BY <1>1, HeadTailProperties DEF Typed, TypeOK
<1>3. /\ Asked = Asked' \cup {Head(requests)}
      /\ AtCore = {} /\ AtCore' = {Head(requests)}
      /\ \A k : AtRouter(k)' = AtRouter(k) /\ Queued(k)' = Queued(k)
  <2>1. \A i \in 1..Len(requests) : i # 1 =>
           requests[i] = requests'[i - 1] /\ i - 1 \in 1..Len(requests')
    BY <1>2
  <2>2. Asked = Asked' \cup {Head(requests)}
    BY <1>2, <2>1 DEF Asked
  <2> QED BY <1>1, <2>2 DEF AtRouter, AtCore, Queued
<1>4. \A a, b : Older(a, b)' <=> Older(a, b)
  BY <1>1, OlderKept
<1>5. AllOlder({Head(requests)}, Asked')
  BY <1>2 DEF OrderInv, RequestsInOrder, AllOlder, Asked
<1>6. StationsInOrder'
  BY <1>3, <1>4, <1>5 DEF OrderInv, StationsInOrder, AllOlder
<1>7. IdleHands' /\ EventsInOrder'
  BY <1>1, <1>4 DEF IdleHands, OrderInv, EventsInOrder
<1>8. RequestsInOrder'
  BY <1>2, <1>4 DEF OrderInv, RequestsInOrder
<1>9. UnderWay' = UnderWay
  <2>1. StationsSum /\ StationsSum'
    <3>1. Typed' /\ IdleHands' => StationsSum'
      BY StationsHold, PTL
    <3> QED BY <1>1, <1>7, <3>1, StationsHold
  <2> QED BY <1>3, <2>1 DEF StationsSum
<1> QED BY <1>1, <1>6, <1>7, <1>8, <1>9, OrderKept

\* The answer goes behind the answers before it.
LEMMA OrderAnswers ==
  ASSUME OrderInv, Typed', SendAnswer
  PROVE  OrderInv' /\ UnderWay' = UnderWay
<1> DEFINE e == [kind |-> "out", msg |-> core.msg]
<1>1. /\ Typed /\ IdleHands
      /\ core.pc # "receive" /\ core.msg \in Messages
      /\ events' = Append(events, e)
      /\ core'.pc = "receive" /\ core'.msg = None
      /\ UNCHANGED <<gateway, requests, router, accepted>>
  BY DEF OrderInv, SendAnswer, CoreIdle, CoreAt, Typed, Carried
<1>2. e \in Events /\ e.kind = "out" /\ e.msg = core.msg
  BY <1>1 DEF Events
<1> HIDE DEF e
<1>3. /\ Queued("out")' = Queued("out") \cup {core.msg} /\ Queued("in")' = Queued("in")
      /\ AtCore = {core.msg} /\ AtCore' = {}
      /\ Asked' = Asked /\ AtRouter("in")' = AtRouter("in") /\ AtRouter("out")' = AtRouter("out")
  <2>1. Queued("out")' = Queued("out") \cup {core.msg} /\ Queued("in")' = Queued("in")
    BY <1>1, <1>2, QueuedAppend
  <2> QED BY <1>1, <2>1 DEF AtRouter, AtCore, Asked
<1>4. \A a, b : Older(a, b)' <=> Older(a, b)
  BY <1>1, OlderKept
<1>5. StationsInOrder'
  BY <1>3, <1>4 DEF OrderInv, StationsInOrder, AllOlder
<1>6. IdleHands' /\ RequestsInOrder'
  BY <1>1, <1>4 DEF IdleHands, OrderInv, RequestsInOrder
<1>7. EventsInOrder'
  <2>1. /\ Len(events) \in Nat
        /\ Len(events') = Len(events) + 1
        /\ \A i \in 1..Len(events) : events'[i] = events[i]
        /\ events'[Len(events) + 1] = e
    BY <1>1, <1>2, AppendProperties DEF Typed, TypeOK
  <2>2. \A i \in 1..Len(events) : events[i].kind = "out" => Older(events[i].msg, core.msg)
    BY <1>3 DEF OrderInv, StationsInOrder, AllOlder, Queued
  <2> QED BY <1>2, <1>4, <2>1, <2>2 DEF OrderInv, EventsInOrder
<1>8. UnderWay' = UnderWay
  <2>1. StationsSum /\ StationsSum'
    <3>1. Typed' /\ IdleHands' => StationsSum'
      BY StationsHold, PTL
    <3> QED BY <1>1, <1>6, <3>1, StationsHold
  <2> QED BY <1>3, <2>1 DEF StationsSum
<1> QED BY <1>1, <1>5, <1>6, <1>7, <1>8, OrderKept

\* The router hands in what came in and delivers what goes out.
KindsMatch ==
  /\ AtSubmit => router.kind = "in"
  /\ router.pc = "deliver" => router.kind = "out"

LEMMA KindsNext == Typed /\ KindsMatch /\ [Next]_vars => KindsMatch'
<1> SUFFICES ASSUME Typed, KindsMatch, [Next]_vars PROVE KindsMatch'
  OBVIOUS
<1> USE DEF KindsMatch, AtSubmit
<1>1. CASE UNCHANGED router
  BY <1>1
<1>2. CASE Router
  <2>1. CASE RouterReceives BY <2>1 DEF RouterReceives
  <2>2. CASE RouterMatches
    <3>1. PICK pc \in IF router.kind = "out" THEN {"deliver"} ELSE {"submitLocked", "submit"} :
            router' = [router EXCEPT !.pc = pc]
      BY <2>2 DEF RouterMatches
    <3>2. router'.pc = pc /\ router'.kind = router.kind /\ router.kind \in {"in", "out"}
      BY <3>1 DEF Typed, TypeOK
    <3> QED BY <3>1, <3>2
  <2>3. CASE router' = RouterIdle BY <2>3 DEF RouterIdle
  <2> QED BY <1>2, <2>1, <2>2, <2>3
          DEF Router, RouterSubmits, SubmitTimesOut, RouterDelivers, DeliveryFails
<1>3. CASE Core \/ Worker
  BY <1>1, <1>3 DEF Core, CoreReceives, StartExtract, QueueExtract, QueueExtractFails,
        Work, UseTool, Collect, Wait, TrackAnswer, SendAnswer, AnswerTimesOut,
        UntrackAnswer, Worker, WorkerReceives, Commit, Give
<1>4. CASE \E m \in Messages : Call(m) \/ Publisher(m)
  BY <1>1, <1>4 DEF Call, Publisher, Track, Send, SendTimesOut, Untrack
<1> QED BY <1>1, <1>2, <1>3, <1>4 DEF Next, vars

\* A message at the router or the core is nowhere else.
LEMMA HandsAlone ==
  ASSUME OrderInv
  PROVE  /\ router.pc # "receive" =>
              router.msg \notin Queued("out") \cup Queued("in") \cup Asked \cup AtCore
         /\ core.pc # "receive" =>
              core.msg \notin Queued("out") \cup Queued("in") \cup Asked
                              \cup AtRouter("in") \cup AtRouter("out")
<1>1. \A a : ~Older(a, a)
  BY OlderStrict DEF OrderInv, AcceptedOnce
<1>2. router.kind \in {"in", "out"}
  BY DEF OrderInv, Typed, TypeOK
<1>3. ASSUME router.pc # "receive"
      PROVE  router.msg \notin Queued("out") \cup Queued("in") \cup Asked \cup AtCore
  BY <1>1, <1>2, <1>3 DEF OrderInv, StationsInOrder, AllOlder, AtRouter
<1>4. ASSUME core.pc # "receive"
      PROVE  core.msg \notin Queued("out") \cup Queued("in") \cup Asked
                             \cup AtRouter("in") \cup AtRouter("out")
  BY <1>1, <1>4 DEF OrderInv, StationsInOrder, AllOlder, AtCore
<1> QED BY <1>3, <1>4

\* The router is done with a message: answered, or lost.
LEMMA OrderRouterEnds ==
  ASSUME OrderInv, Typed', router.pc # "receive", router' = RouterIdle,
         UNCHANGED <<gateway, events, requests, core, accepted>>
  PROVE  /\ OrderInv' /\ router.msg \in UnderWay
         /\ UnderWay' = UnderWay \ {router.msg}
<1>1. /\ Typed /\ IdleHands /\ router.kind \in {"in", "out"}
      /\ router'.pc = "receive" /\ router'.msg = None
  BY DEF OrderInv, RouterIdle, Typed, TypeOK
<1>2. /\ AtRouter("in") \cup AtRouter("out") = {router.msg}
      /\ AtRouter("in")' = {} /\ AtRouter("out")' = {}
      /\ AtCore' = AtCore /\ Queued("in")' = Queued("in") /\ Queued("out")' = Queued("out")
      /\ Asked' = Asked
  BY <1>1 DEF AtRouter, AtCore, Queued, Asked
<1>3. \A a, b : Older(a, b)' <=> Older(a, b)
  BY OlderKept
<1>4. StationsInOrder'
  BY <1>2, <1>3 DEF OrderInv, StationsInOrder, AllOlder
<1>5. IdleHands' /\ EventsInOrder' /\ RequestsInOrder'
  BY <1>1, <1>3 DEF IdleHands, OrderInv, EventsInOrder, RequestsInOrder
<1>6. router.msg \notin Queued("out") \cup Queued("in") \cup Asked \cup AtCore
  BY HandsAlone
<1>7. router.msg \in UnderWay /\ UnderWay' = UnderWay \ {router.msg}
  <2>1. StationsSum /\ StationsSum'
    <3>1. Typed' /\ IdleHands' => StationsSum'
      BY StationsHold, PTL
    <3> QED BY <1>1, <1>5, <3>1, StationsHold
  <2> QED BY <1>2, <1>6, <2>1 DEF StationsSum
<1> QED BY <1>4, <1>5, <1>7, OrderKept

\* The core gives an answer up.
LEMMA OrderCoreEnds ==
  ASSUME OrderInv, Typed', core.pc # "receive", core' = CoreIdle,
         UNCHANGED <<gateway, events, requests, router, accepted>>
  PROVE  /\ OrderInv' /\ core.msg \in UnderWay
         /\ UnderWay' = UnderWay \ {core.msg}
<1>1. /\ Typed /\ IdleHands /\ core'.pc = "receive" /\ core'.msg = None
  BY DEF OrderInv, CoreIdle
<1>2. /\ AtCore = {core.msg} /\ AtCore' = {}
      /\ \A k : AtRouter(k)' = AtRouter(k) /\ Queued(k)' = Queued(k)
      /\ Asked' = Asked
  BY <1>1 DEF AtRouter, AtCore, Queued, Asked
<1>3. \A a, b : Older(a, b)' <=> Older(a, b)
  BY OlderKept
<1>4. StationsInOrder'
  BY <1>2, <1>3 DEF OrderInv, StationsInOrder, AllOlder
<1>5. IdleHands' /\ EventsInOrder' /\ RequestsInOrder'
  BY <1>1, <1>3 DEF IdleHands, OrderInv, EventsInOrder, RequestsInOrder
<1>6. core.msg \notin Queued("out") \cup Queued("in") \cup Asked
                      \cup AtRouter("in") \cup AtRouter("out")
  BY HandsAlone
<1>7. core.msg \in UnderWay /\ UnderWay' = UnderWay \ {core.msg}
  <2>1. StationsSum /\ StationsSum'
    <3>1. Typed' /\ IdleHands' => StationsSum'
      BY StationsHold, PTL
    <3> QED BY <1>1, <1>5, <3>1, StationsHold
  <2> QED BY <1>2, <1>6, <2>1 DEF StationsSum
<1> QED BY <1>4, <1>5, <1>7, OrderKept

-----------------------------------------------------------------------------
(* The promise of Dialogue.                                                *)

\* What a step of the path is to Dialogue.
Kept == Promise!Next \/ UNCHANGED Promise!vars

\* Accepting, and the steps of a publisher that Dialogue does not see.
LEMMA KeptPublisher ==
  ASSUME OrderInv, Typed', NEW m \in Messages, Call(m) \/ Publisher(m)
  PROVE  OrderInv' /\ Kept
<1>1. CASE Send(m)
  <2>1. /\ OrderInv' /\ UnderWay' = UnderWay \cup {m} /\ m \notin ToSet(accepted)
    BY <1>1, OrderSend
  <2>2. accepted' = Append(accepted, m) /\ UNCHANGED answers
    BY <1>1 DEF Send
  <2>3. Promise!Accept(m)
    BY <2>1, <2>2 DEF Promise!Accept, Promise!ToSet, ToSet
  <2> QED BY <2>1, <2>3 DEF Kept, Promise!Next
<1>2. CASE Call(m) \/ Track(m) \/ SendTimesOut(m) \/ Untrack(m)
  <2>1. /\ UNCHANGED <<events, requests, router, core, accepted, answers>>
        /\ gateway[m] # "done"
        /\ \A n \in Messages \ {m} : gateway'[n] = gateway[n]
    BY <1>2 DEF Call, Track, SendTimesOut, Untrack, OrderInv, Typed, TypeOK
  <2>2. OrderInv' /\ UnderWay' = UnderWay
    BY <2>1, OrderElsewhere
  <2> QED BY <2>1, <2>2 DEF Kept, Promise!vars
<1> QED BY <1>1, <1>2 DEF Publisher

\* What the router delivers is the oldest message under way.
LEMMA DeliversOldest ==
  ASSUME OrderInv, KindsMatch, router.pc = "deliver"
  PROVE  \E i \in DOMAIN accepted :
           /\ accepted[i] = router.msg
           /\ \A j \in 1..(i - 1) : accepted[j] \notin UnderWay
<1>1. /\ Typed /\ IdleHands /\ Distinct(accepted) /\ UnderWay \subseteq ToSet(accepted)
      /\ DOMAIN accepted = 1..Len(accepted) /\ Len(accepted) \in Nat
      /\ router.kind = "out"
  BY DEF OrderInv, AcceptedOnce, KindsMatch, Typed, TypeOK
<1>2. StationsSum
  BY <1>1, StationsHold
<1>3. AtRouter("out") = {router.msg} /\ AtRouter("in") = {}
  BY <1>1 DEF AtRouter
<1>4. router.msg \in UnderWay
  BY <1>2, <1>3 DEF StationsSum
<1>5. PICK i \in 1..Len(accepted) : accepted[i] = router.msg
  BY <1>1, <1>4 DEF ToSet
<1>6. \A w \in UnderWay : w = router.msg \/ Older(router.msg, w)
  BY <1>2, <1>3 DEF StationsSum, OrderInv, StationsInOrder, AllOlder
<1>7. ASSUME NEW j \in 1..(i - 1), accepted[j] \in UnderWay PROVE FALSE
  <2>1. j \in 1..Len(accepted) /\ j # i
    BY <1>1, <1>5
  <2>2. accepted[j] # router.msg
    BY <1>1, <1>5, <2>1 DEF Distinct
  <2>3. Older(router.msg, accepted[j]) /\ Older(accepted[j], router.msg)
    BY <1>1, <1>5, <1>6, <1>7, <2>1, <2>2 DEF Older
  <2> QED BY <1>1, <2>3, OlderStrict
<1> QED BY <1>1, <1>5, <1>7

LEMMA KeptRouter ==
  ASSUME OrderInv, KindsMatch, Typed', Router
  PROVE  OrderInv' /\ Kept
<1>1. CASE RouterReceives
  <2>1. OrderInv' /\ UnderWay' = UnderWay /\ UNCHANGED <<accepted, answers>>
    BY <1>1, OrderReceives DEF RouterReceives
  <2> QED BY <2>1 DEF Kept, Promise!vars
<1>2. CASE RouterMatches
  <2>1. /\ UNCHANGED <<gateway, events, requests, core, accepted, answers>>
        /\ router'.msg = router.msg /\ router'.kind = router.kind
        /\ router.pc # "receive" /\ router'.pc # "receive"
    BY <1>2 DEF RouterMatches, OrderInv, Typed, TypeOK
  <2>2. OrderInv' /\ UnderWay' = UnderWay
    BY <2>1, OrderElsewhere
  <2> QED BY <2>1, <2>2 DEF Kept, Promise!vars
<1>3. CASE RouterSubmits
  <2>1. OrderInv' /\ UnderWay' = UnderWay /\ UNCHANGED <<accepted, answers>>
    BY <1>3, OrderSubmits DEF RouterSubmits, KindsMatch
  <2> QED BY <2>1 DEF Kept, Promise!vars
<1>4. CASE SubmitTimesOut \/ DeliveryFails
  <2>1. /\ UNCHANGED <<gateway, events, requests, core, accepted, answers>>
        /\ router.pc # "receive" /\ router' = RouterIdle /\ router.msg \in Messages
    BY <1>4 DEF SubmitTimesOut, DeliveryFails, AtSubmit, OrderInv, Typed, Carried
  <2>2. /\ OrderInv' /\ router.msg \in UnderWay
        /\ UnderWay' = UnderWay \ {router.msg}
    BY <2>1, OrderRouterEnds
  <2>3. Promise!Lose(router.msg)
    BY <2>1, <2>2 DEF Promise!Lose
  <2> QED BY <2>1, <2>2, <2>3 DEF Kept, Promise!Next
<1>5. CASE RouterDelivers
  <2>1. /\ UNCHANGED <<gateway, events, requests, core, accepted>>
        /\ router.pc = "deliver" /\ router' = RouterIdle
        /\ answers' = Append(answers, router.msg)
    BY <1>5 DEF RouterDelivers
  <2>2. /\ OrderInv' /\ router.msg \in UnderWay
        /\ UnderWay' = UnderWay \ {router.msg}
    BY <2>1, OrderRouterEnds
  <2>3. PICK i \in DOMAIN accepted : /\ accepted[i] = router.msg
                                     /\ \A j \in 1..(i - 1) : accepted[j] \notin UnderWay
    BY <2>1, DeliversOldest
  <2>4. Promise!Answer
    BY <2>1, <2>2, <2>3 DEF Promise!Answer
  <2> QED BY <2>2, <2>4 DEF Kept, Promise!Next
<1> QED BY <1>1, <1>2, <1>3, <1>4, <1>5 DEF Router

LEMMA KeptCore ==
  ASSUME OrderInv, Typed', Core
  PROVE  OrderInv' /\ Kept
<1>1. CASE CoreReceives
  <2>1. OrderInv' /\ UnderWay' = UnderWay /\ UNCHANGED <<accepted, answers>>
    BY <1>1, OrderTakes DEF CoreReceives
  <2> QED BY <2>1 DEF Kept, Promise!vars
<1>2. CASE SendAnswer
  <2>1. OrderInv' /\ UnderWay' = UnderWay /\ UNCHANGED <<accepted, answers>>
    BY <1>2, OrderAnswers DEF SendAnswer
  <2> QED BY <2>1 DEF Kept, Promise!vars
<1>3. CASE UntrackAnswer
  <2>1. /\ UNCHANGED <<gateway, events, requests, router, accepted, answers>>
        /\ core.pc # "receive" /\ core' = CoreIdle /\ core.msg \in Messages
    BY <1>3 DEF UntrackAnswer, CoreAt, OrderInv, Typed, Carried
  <2>2. OrderInv' /\ core.msg \in UnderWay /\ UnderWay' = UnderWay \ {core.msg}
    BY <2>1, OrderCoreEnds
  <2>3. Promise!Lose(core.msg)
    BY <2>1, <2>2 DEF Promise!Lose
  <2> QED BY <2>1, <2>2, <2>3 DEF Kept, Promise!Next
<1>4. CASE \/ StartExtract \/ QueueExtract \/ QueueExtractFails \/ Work \/ UseTool
           \/ Collect \/ Wait \/ TrackAnswer \/ AnswerTimesOut
  <2>1. /\ UNCHANGED <<gateway, events, requests, router, accepted, answers>>
        /\ core'.msg = core.msg /\ core.pc # "receive" /\ core'.pc # "receive"
    <3>1. \A pc : CoreGoto(pc) => core'.msg = core.msg /\ core'.pc = pc
      BY DEF CoreGoto, OrderInv, Typed, TypeOK
    <3>2. CASE Work
      <4>1. CASE CoreGoto("collect") \/ CoreGoto("track")
        BY <3>1, <3>2, <4>1 DEF Work, CoreAt
      <4>2. CASE core' = [core EXCEPT !.pc = "tool", !.tools = @ + 1]
        <5>1. core'.msg = core.msg /\ core'.pc = "tool"
          BY <4>2 DEF OrderInv, Typed, TypeOK
        <5> QED BY <3>2, <5>1 DEF Work, CoreAt
      <4> QED BY <3>2, <4>1, <4>2 DEF Work
    <3>3. CASE StartExtract \/ QueueExtract \/ QueueExtractFails
      BY <3>1, <3>3 DEF StartExtract, QueueExtract, QueueExtractFails, CoreAt
    <3>4. CASE UseTool \/ Collect \/ Wait \/ TrackAnswer \/ AnswerTimesOut
      BY <3>1, <3>4 DEF UseTool, Collect, Wait, TrackAnswer, AnswerTimesOut, CoreAt
    <3> QED BY <1>4, <3>2, <3>3, <3>4
  <2>2. OrderInv' /\ UnderWay' = UnderWay
    BY <2>1, OrderElsewhere
  <2> QED BY <2>1, <2>2 DEF Kept, Promise!vars
<1> QED BY <1>1, <1>2, <1>3, <1>4 DEF Core

LEMMA KeptNext ==
  ASSUME OrderInv, KindsMatch, [Next]_vars
  PROVE  OrderInv' /\ KindsMatch' /\ Kept
<1>1. Typed' /\ KindsMatch'
  BY TypedNext, KindsNext DEF OrderInv
<1>2. CASE \E m \in Messages : Call(m) \/ Publisher(m)
  BY <1>1, <1>2, KeptPublisher
<1>3. CASE Router
  BY <1>1, <1>3, KeptRouter
<1>4. CASE Core
  BY <1>1, <1>4, KeptCore
<1>5. CASE Worker \/ UNCHANGED vars
  <2>1. UNCHANGED <<gateway, events, requests, router, core, accepted, answers>>
    BY <1>5 DEF Worker, WorkerReceives, Commit, Give, vars
  <2>2. OrderInv' /\ UnderWay' = UnderWay
    BY <1>1, <2>1, OrderElsewhere
  <2> QED BY <1>1, <2>1, <2>2 DEF Kept, Promise!vars
<1> QED BY <1>1, <1>2, <1>3, <1>4, <1>5 DEF Next

\* Whatever waits for whatever, the messages under way keep the order in which
\* they were accepted, from the station nearest to the answer to the last.
THEOREM PathOrdered == Spec => [](OrderInv /\ KindsMatch)
<1>1. Init => OrderInv /\ KindsMatch
  BY OrderInit DEF Init, KindsMatch, AtSubmit
<1>2. OrderInv /\ KindsMatch /\ [Next]_vars => (OrderInv /\ KindsMatch)'
  BY KeptNext
<1> QED BY <1>1, <1>2, PTL DEF Spec

\* InOrder: router, queues, mutex, timeouts and worker keep the promise of
\* Dialogue, answers in the order of acceptance and one at most for each.
THEOREM PathInOrder == Spec => InOrder
<1>1. Init => Promise!Init
  <2> SUFFICES ASSUME Init PROVE Promise!Init
    OBVIOUS
  <2>1. UnderWay = {}
    BY DEF Init, UnderWay, ToSet
  <2> QED BY <2>1 DEF Init, Promise!Init
<1>2. OrderInv /\ KindsMatch /\ [Next]_vars => [Promise!Next]_(Promise!vars)
  BY KeptNext DEF Kept
<1> QED BY <1>1, <1>2, PathOrdered, PTL DEF Spec, InOrder, Promise!Spec

-----------------------------------------------------------------------------
(* Losses.                                                                 *)

\* As many messages are under way as can be told apart.
LEMMA UnderWayCounts ==
  ASSUME OrderInv, NEW n \in Nat, NEW f \in [1..n -> UnderWay],
         \A i, j \in 1..n : f[i] = f[j] => i = j
  PROVE  Cardinality(UnderWay) \in Nat /\ n <= Cardinality(UnderWay)
<1>1. UnderWay \subseteq ToSet(accepted) /\ accepted \in Seq(Messages)
  BY DEF OrderInv, AcceptedOnce, Typed, TypeOK
<1>2. IsFiniteSet(ToSet(accepted))
  <2>1. Len(accepted) \in Nat /\ DOMAIN accepted = 1..Len(accepted)
    BY <1>1
  <2>2. accepted \in Surjection(DOMAIN accepted, ToSet(accepted))
    BY <1>1 DEF Surjection, ToSet
  <2>3. IsFiniteSet(DOMAIN accepted)
    BY <2>1, FS_Interval
  <2> QED BY <2>2, <2>3, FS_Surjection
<1>3. IsFiniteSet(UnderWay) /\ Cardinality(UnderWay) \in Nat
  BY <1>1, <1>2, FS_Subset, FS_CardinalityType
<1>4. f \in Injection(1..n, UnderWay)
  BY DEF Injection, IsInjective
<1>5. Cardinality(1..n) = n
  BY FS_Interval
<1> QED BY <1>3, <1>4, <1>5, FS_Injection

\* No two events, and no two requests, are of one message.
LEMMA QueuesApart ==
  ASSUME OrderInv
  PROVE  /\ \A i, j \in 1..Len(events) : events[i].msg = events[j].msg => i = j
         /\ \A i, j \in 1..Len(requests) : requests[i] = requests[j] => i = j
         /\ \A i \in 1..Len(events) : events[i].msg \in UnderWay
         /\ \A i \in 1..Len(requests) : requests[i] \in UnderWay
<1>1. /\ Typed /\ StationsSum /\ Len(events) \in Nat /\ Len(requests) \in Nat
      /\ \A i \in 1..Len(events) : events[i] \in Events
  BY StationsHold DEF OrderInv, Typed, TypeOK
<1>2. \A i \in 1..Len(events) : events[i].kind \in {"in", "out"}
  BY <1>1 DEF Events
<1>3. \A a : ~Older(a, a)
  BY OlderStrict DEF OrderInv, AcceptedOnce
<1>4. ASSUME NEW i \in 1..Len(events), NEW j \in 1..Len(events), i < j,
             events[i].msg = events[j].msg
      PROVE  FALSE
  <2>1. events[i].kind # events[j].kind
    BY <1>3, <1>4 DEF OrderInv, EventsInOrder
  <2>2. /\ events[i].msg \in Queued(events[i].kind)
        /\ events[j].msg \in Queued(events[j].kind)
    BY DEF Queued
  <2>3. events[i].msg \in Queued("in") /\ events[i].msg \in Queued("out")
    BY <1>2, <1>4, <2>1, <2>2
  <2>4. ~(events[i].msg \in Queued("in") /\ events[i].msg \in Queued("out"))
    BY <1>3 DEF OrderInv, StationsInOrder, AllOlder
  <2> QED BY <2>3, <2>4
<1>5. \A i, j \in 1..Len(events) : events[i].msg = events[j].msg => i = j
  BY <1>1, <1>4
<1>6. \A i, j \in 1..Len(requests) : requests[i] = requests[j] => i = j
  BY <1>1, <1>3 DEF OrderInv, RequestsInOrder
<1>7. \A i \in 1..Len(events) : events[i].msg \in Queued("in") \cup Queued("out")
  BY <1>2 DEF Queued
<1>8. \A i \in 1..Len(requests) : requests[i] \in Asked
  BY DEF Asked
<1> QED BY <1>1, <1>5, <1>6, <1>7, <1>8 DEF StationsSum

\* A request queue without room and the router's message.
LEMMA DropNeedsLoad ==
  ASSUME OrderInv, SubmitTimesOut
  PROVE  Cardinality(UnderWay) > RequestSlots
<1> DEFINE f == [i \in 1..(Len(requests) + 1) |->
                   IF i <= Len(requests) THEN requests[i] ELSE router.msg]
<1>1. /\ Len(requests) \in Nat /\ Len(requests) >= RequestSlots /\ RequestSlots \in Nat
      /\ router.pc # "receive" /\ router.kind \in {"in", "out"}
  BY SlotsAssumption DEF SubmitTimesOut, AtSubmit, Room, OrderInv, Typed, TypeOK
<1>2. router.msg \in UnderWay
  BY <1>1, StationsHold DEF OrderInv, StationsSum, AtRouter
<1>3. \A i \in 1..Len(requests) : requests[i] # router.msg
  BY <1>1, HandsAlone DEF Asked
<1>4. f \in [1..(Len(requests) + 1) -> UnderWay]
  BY <1>1, <1>2, QueuesApart
<1>5. \A i, j \in 1..(Len(requests) + 1) : f[i] = f[j] => i = j
  BY <1>1, <1>3, QueuesApart
<1> HIDE DEF f
<1>6. Len(requests) + 1 <= Cardinality(UnderWay) /\ Cardinality(UnderWay) \in Nat
  BY <1>1, <1>4, <1>5, UnderWayCounts
<1> QED BY <1>1, <1>6

\* An event queue without room.
LEMMA RefusalNeedsLoad ==
  ASSUME OrderInv, ~Room(events, EventSlots)
  PROVE  Cardinality(UnderWay) >= EventSlots
<1> DEFINE f == [i \in 1..Len(events) |-> events[i].msg]
<1>1. Len(events) \in Nat /\ Len(events) >= EventSlots /\ EventSlots \in Nat
  BY SlotsAssumption DEF Room, OrderInv, Typed, TypeOK
<1>2. f \in [1..Len(events) -> UnderWay]
  BY QueuesApart
<1>3. \A i, j \in 1..Len(events) : f[i] = f[j] => i = j
  BY QueuesApart
<1> HIDE DEF f
<1>4. Len(events) <= Cardinality(UnderWay) /\ Cardinality(UnderWay) \in Nat
  BY <1>1, <1>2, <1>3, UnderWayCounts
<1> QED BY <1>1, <1>4

\* An event queue without room and the answer of the core.
LEMMA AnswerNeedsLoad ==
  ASSUME OrderInv, ~Room(events, EventSlots), core.pc # "receive"
  PROVE  Cardinality(UnderWay) > EventSlots
<1> DEFINE f == [i \in 1..(Len(events) + 1) |->
                   IF i <= Len(events) THEN events[i].msg ELSE core.msg]
<1>1. Len(events) \in Nat /\ Len(events) >= EventSlots /\ EventSlots \in Nat
  BY SlotsAssumption DEF Room, OrderInv, Typed, TypeOK
<1>2. core.msg \in UnderWay
  BY StationsHold DEF OrderInv, StationsSum, AtCore
<1>3. \A i \in 1..Len(events) : events[i].msg # core.msg
  <2>1. \A i \in 1..Len(events) : events[i] \in Events
    BY DEF OrderInv, Typed, TypeOK
  <2>2. \A i \in 1..Len(events) : events[i].msg \in Queued("in") \cup Queued("out")
    BY <2>1 DEF Queued, Events
  <2> QED BY <2>2, HandsAlone
<1>4. f \in [1..(Len(events) + 1) -> UnderWay]
  BY <1>1, <1>2, QueuesApart
<1>5. \A i, j \in 1..(Len(events) + 1) : f[i] = f[j] => i = j
  BY <1>1, <1>3, QueuesApart
<1> HIDE DEF f
<1>6. Len(events) + 1 <= Cardinality(UnderWay) /\ Cardinality(UnderWay) \in Nat
  BY <1>1, <1>4, <1>5, UnderWayCounts
<1> QED BY <1>1, <1>6

\* Only a timeout loses a message for want of room.
LEMMA LossStep ==
  ASSUME OrderInv, Next
  PROVE  /\ \A m \in Messages :
              /\ outcome'[m] = "dropped" =>
                   outcome[m] = "dropped" \/ Cardinality(UnderWay) > RequestSlots
              /\ gateway[m] = "send" /\ gateway'[m] = "untrack" =>
                   Cardinality(UnderWay) >= EventSlots
         /\ CoreAt("send") /\ core'.pc = "untrack" =>
              Cardinality(UnderWay) > EventSlots
<1>0. Typed
  BY DEF OrderInv
<1>1. ASSUME NEW m \in Messages, outcome'[m] = "dropped", outcome[m] # "dropped"
      PROVE  SubmitTimesOut
  <2>1. CASE UNCHANGED outcome
    BY <1>1, <2>1
  <2>2. CASE \E n : \E v \in {"open", "refused", "answered", "unsent"} :
               outcome' = [outcome EXCEPT ![n] = v]
    <3>1. PICK n : \E v \in {"open", "refused", "answered", "unsent"} :
            outcome' = [outcome EXCEPT ![n] = v]
      BY <2>2
    <3>2. PICK v \in {"open", "refused", "answered", "unsent"} :
            outcome' = [outcome EXCEPT ![n] = v]
      BY <3>1
    <3> QED BY <1>0, <1>1, <3>2 DEF Typed, TypeOK
  <2>3. CASE \E n \in Messages : Call(n) \/ Publisher(n)
    BY <2>1, <2>2, <2>3 DEF Call, Publisher, Track, Send, SendTimesOut, Untrack
  <2>4. CASE Router
    BY <2>1, <2>2, <2>4 DEF Router, RouterReceives, RouterMatches, RouterSubmits,
                            RouterDelivers, DeliveryFails
  <2>5. CASE Core \/ Worker
    BY <2>1, <2>2, <2>5 DEF Core, CoreReceives, StartExtract, QueueExtract,
          QueueExtractFails, Work, UseTool, Collect, Wait, TrackAnswer, SendAnswer,
          AnswerTimesOut, UntrackAnswer, Worker, WorkerReceives, Commit, Give
  <2> QED BY <2>3, <2>4, <2>5 DEF Next
<1>2. ASSUME NEW m \in Messages, gateway[m] = "send", gateway'[m] = "untrack"
      PROVE  ~Room(events, EventSlots)
  <2>1. CASE UNCHANGED gateway
    BY <1>2, <2>1
  <2>2. CASE \E n \in Messages : Call(n) \/ Publisher(n)
    BY <1>0, <1>2, <2>2 DEF Call, Publisher, Track, Send, SendTimesOut, Untrack,
                            Typed, TypeOK
  <2>3. CASE Router \/ Core \/ Worker
    BY <2>1, <2>3 DEF Router, RouterReceives, RouterMatches, RouterSubmits,
          SubmitTimesOut, RouterDelivers, DeliveryFails, Core, CoreReceives,
          StartExtract, QueueExtract, QueueExtractFails, Work, UseTool, Collect, Wait,
          TrackAnswer, SendAnswer, AnswerTimesOut, UntrackAnswer, Worker,
          WorkerReceives, Commit, Give
  <2> QED BY <2>2, <2>3 DEF Next
<1>3. ASSUME CoreAt("send"), core'.pc = "untrack"
      PROVE  ~Room(events, EventSlots)
  <2>1. CASE UNCHANGED core
    BY <1>3, <2>1 DEF CoreAt
  <2>2. CASE Core
    BY <1>3, <2>2 DEF CoreAt, Core, CoreReceives, StartExtract, QueueExtract,
          QueueExtractFails, Work, UseTool, Collect, Wait, TrackAnswer, SendAnswer,
          CoreIdle, AnswerTimesOut, UntrackAnswer
  <2>3. CASE Router \/ Worker \/ \E n \in Messages : Call(n) \/ Publisher(n)
    BY <2>1, <2>3 DEF Router, RouterReceives, RouterMatches, RouterSubmits,
          SubmitTimesOut, RouterDelivers, DeliveryFails, Worker, WorkerReceives,
          Commit, Give, Call, Publisher, Track, Send, SendTimesOut, Untrack
  <2> QED BY <2>2, <2>3 DEF Next
<1>4. CoreAt("send") => core.pc # "receive"
  BY DEF CoreAt
<1> QED BY <1>1, <1>2, <1>3, <1>4, DropNeedsLoad, RefusalNeedsLoad, AnswerNeedsLoad

\* LossNeedsLoad: no message is lost for want of room while fewer are under
\* way than the queue in question has slots, for queues of any length.
THEOREM PathLossNeedsLoad == Spec => LossNeedsLoad
<1>1. OrderInv /\ [Next]_vars =>
        [/\ \A m \in Messages :
              /\ outcome'[m] = "dropped" =>
                   outcome[m] = "dropped" \/ Cardinality(UnderWay) > RequestSlots
              /\ gateway[m] = "send" /\ gateway'[m] = "untrack" =>
                   Cardinality(UnderWay) >= EventSlots
         /\ CoreAt("send") /\ core'.pc = "untrack" =>
              Cardinality(UnderWay) > EventSlots]_vars
  BY LossStep
<1> QED BY <1>1, PathOrdered, PTL DEF Spec, LossNeedsLoad

=============================================================================
