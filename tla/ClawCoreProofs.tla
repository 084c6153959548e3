--------------------------- MODULE ClawCoreProofs ---------------------------
(* Theorems about ClawCore, for every value of its constants. *)
EXTENDS ClawCore, SequenceTheorems, TLAPS

(* Facts about the sequences that stand for queues and lists. *)

\* Taking one element out of a list keeps the others in their order.
LEMMA RemoveAtSeq ==
  ASSUME NEW S, NEW s \in Seq(S), NEW i \in 1..Len(s)
  PROVE  /\ RemoveAt(s, i) \in Seq(S)
         /\ Len(RemoveAt(s, i)) = Len(s) - 1
         /\ \A j \in 1..(Len(s) - 1) :
              RemoveAt(s, i)[j] = IF j < i THEN s[j] ELSE s[j + 1]
<1> DEFINE a == SubSeq(s, 1, i - 1)
           b == SubSeq(s, i + 1, Len(s))
<1>0. Len(s) \in Nat /\ \A k \in 1..Len(s) : s[k] \in S
  BY ElementOfSeq, LenProperties
<1>1. /\ a \in Seq(S)
      /\ Len(a) = i - 1
      /\ \A k \in 1..(i - 1) : a[k] = s[k]
  <2>1. \A k \in 1..(i - 1) : s[k] \in S
    BY <1>0
  <2>2. /\ SubSeq(s, 1, i - 1) \in Seq(S)
        /\ Len(SubSeq(s, 1, i - 1)) = IF 1 <= i - 1 THEN (i - 1) - 1 + 1 ELSE 0
        /\ \A k \in 1..((i - 1) - 1 + 1) : SubSeq(s, 1, i - 1)[k] = s[1 + k - 1]
    BY <1>0, <2>1, SubSeqProperties
  <2> QED BY <1>0, <2>2
<1>2. /\ b \in Seq(S)
      /\ Len(b) = Len(s) - i
      /\ \A k \in 1..(Len(s) - i) : b[k] = s[i + k]
  <2>1. \A k \in (i + 1)..Len(s) : s[k] \in S
    BY <1>0
  <2>2. /\ SubSeq(s, i + 1, Len(s)) \in Seq(S)
        /\ Len(SubSeq(s, i + 1, Len(s)))
             = IF i + 1 <= Len(s) THEN Len(s) - (i + 1) + 1 ELSE 0
        /\ \A k \in 1..(Len(s) - (i + 1) + 1) :
             SubSeq(s, i + 1, Len(s))[k] = s[(i + 1) + k - 1]
    BY <1>0, <2>1, SubSeqProperties
  <2> QED BY <1>0, <2>2
<1> HIDE DEF a, b
<1>3. /\ a \o b \in Seq(S)
      /\ Len(a \o b) = Len(a) + Len(b)
      /\ \A k \in 1..(Len(a) + Len(b)) :
           (a \o b)[k] = IF k <= Len(a) THEN a[k] ELSE b[k - Len(a)]
  BY <1>1, <1>2, ConcatProperties
<1>4. RemoveAt(s, i) = a \o b
  BY DEF RemoveAt, a, b
<1>5. Len(a) = i - 1 /\ Len(b) = Len(s) - i /\ Len(a) + Len(b) = Len(s) - 1
  BY <1>0, <1>1, <1>2
<1>6. ASSUME NEW j \in 1..(Len(s) - 1)
      PROVE  (a \o b)[j] = IF j < i THEN s[j] ELSE s[j + 1]
  <2>1. j \in 1..(Len(a) + Len(b))
    BY <1>5
  <2>2. (a \o b)[j] = IF j <= Len(a) THEN a[j] ELSE b[j - Len(a)]
    BY <1>3, <2>1
  <2>3. CASE j < i
    <3>1. j \in 1..(i - 1)
      BY <1>0, <2>3
    <3>2. j <= Len(a)
      BY <1>5, <1>0, <2>3
    <3> QED BY <1>1, <2>2, <2>3, <3>1, <3>2
  <2>4. CASE ~(j < i)
    <3>1. j - (i - 1) \in 1..(Len(s) - i)
      BY <1>0, <2>4
    <3>2. ~(j <= Len(a)) /\ j - Len(a) = j - (i - 1)
      BY <1>5, <1>0, <2>4
    <3>3. b[j - (i - 1)] = s[i + (j - (i - 1))] /\ i + (j - (i - 1)) = j + 1
      BY <1>0, <1>2, <3>1
    <3>4. (a \o b)[j] = b[j - (i - 1)]
      BY <2>2, <3>2
    <3> QED BY <2>4, <3>3, <3>4
  <2> QED BY <2>3, <2>4
<1> QED BY <1>3, <1>4, <1>5, <1>6

\* What an element taken from the front, the end or the middle does to the
\* set of elements.
LEMMA ToSetAppend ==
  ASSUME NEW S, NEW s \in Seq(S), NEW e \in S
  PROVE  ToSet(Append(s, e)) = ToSet(s) \cup {e}
<1>1. /\ Append(s, e) \in Seq(S)
      /\ Len(Append(s, e)) = Len(s) + 1
      /\ \A i \in 1..Len(s) : Append(s, e)[i] = s[i]
      /\ Append(s, e)[Len(s) + 1] = e
  BY AppendProperties
<1>2. /\ Len(s) \in Nat
      /\ DOMAIN s = 1..Len(s)
      /\ DOMAIN Append(s, e) = 1..(Len(s) + 1)
  BY <1>1, LenProperties
<1> QED BY <1>1, <1>2 DEF ToSet

\* The first element and the rest make up the elements.
LEMMA ToSetTail ==
  ASSUME NEW S, NEW s \in Seq(S), s # <<>>
  PROVE  ToSet(s) = {Head(s)} \cup ToSet(Tail(s))
<1>1. /\ Tail(s) \in Seq(S)
      /\ Len(Tail(s)) = Len(s) - 1
      /\ \A i \in 1..Len(Tail(s)) : Tail(s)[i] = s[i + 1]
  BY HeadTailProperties
<1>2. /\ Len(s) \in Nat \ {0}
      /\ DOMAIN s = 1..Len(s)
      /\ DOMAIN Tail(s) = 1..(Len(s) - 1)
      /\ Head(s) = s[1]
  BY <1>1, LenProperties, EmptySeq
<1>3. \A x : x \in ToSet(s) => x \in {Head(s)} \cup ToSet(Tail(s))
  <2> SUFFICES ASSUME NEW i \in 1..Len(s)
               PROVE  s[i] \in {Head(s)} \cup ToSet(Tail(s))
    BY <1>2 DEF ToSet
  <2>1. CASE i = 1
    BY <1>2, <2>1
  <2>2. CASE i # 1
    <3>1. i - 1 \in 1..(Len(s) - 1) /\ (i - 1) + 1 = i
      BY <1>2, <2>2
    <3> QED BY <1>1, <1>2, <3>1 DEF ToSet
  <2> QED BY <2>1, <2>2
<1>4. \A x : x \in {Head(s)} \cup ToSet(Tail(s)) => x \in ToSet(s)
  BY <1>1, <1>2 DEF ToSet
<1> QED BY <1>3, <1>4

\* The removed element and the rest make up the elements.
LEMMA ToSetRemoveAt ==
  ASSUME NEW S, NEW s \in Seq(S), NEW i \in 1..Len(s)
  PROVE  ToSet(s) = {s[i]} \cup ToSet(RemoveAt(s, i))
<1>1. /\ RemoveAt(s, i) \in Seq(S)
      /\ Len(RemoveAt(s, i)) = Len(s) - 1
      /\ \A j \in 1..(Len(s) - 1) :
           RemoveAt(s, i)[j] = IF j < i THEN s[j] ELSE s[j + 1]
  BY RemoveAtSeq
<1>2. /\ Len(s) \in Nat \ {0}
      /\ DOMAIN s = 1..Len(s)
      /\ DOMAIN RemoveAt(s, i) = 1..(Len(s) - 1)
  BY <1>1, LenProperties
<1>3. ASSUME NEW k \in 1..Len(s)
      PROVE  s[k] \in {s[i]} \cup ToSet(RemoveAt(s, i))
  <2>1. CASE k < i
    <3>1. k \in 1..(Len(s) - 1) /\ RemoveAt(s, i)[k] = s[k]
      BY <1>1, <1>2, <2>1
    <3> QED BY <1>2, <3>1 DEF ToSet
  <2>2. CASE k > i
    <3>1. k - 1 \in 1..(Len(s) - 1) /\ RemoveAt(s, i)[k - 1] = s[k]
      BY <1>1, <1>2, <2>2
    <3> QED BY <1>2, <3>1 DEF ToSet
  <2>3. CASE k = i
    BY <2>3
  <2> QED BY <1>2, <2>1, <2>2, <2>3
<1>4. ASSUME NEW k \in 1..(Len(s) - 1)
      PROVE  RemoveAt(s, i)[k] \in ToSet(s)
  <2>1. k \in 1..Len(s) /\ k + 1 \in 1..Len(s)
    BY <1>2
  <2>2. RemoveAt(s, i)[k] = s[k] \/ RemoveAt(s, i)[k] = s[k + 1]
    BY <1>1
  <2> QED BY <1>2, <2>1, <2>2 DEF ToSet
<1>5. \A x : x \in ToSet(s) => x \in {s[i]} \cup ToSet(RemoveAt(s, i))
  BY <1>2, <1>3 DEF ToSet
<1>6. \A x : x \in {s[i]} \cup ToSet(RemoveAt(s, i)) => x \in ToSet(s)
  BY <1>2, <1>4 DEF ToSet
<1> QED BY <1>5, <1>6

-----------------------------------------------------------------------------

\* The disjuncts of the next-state relation, each with its parameter.
LEMMA NextCases ==
  ASSUME Next
  PROVE  \/ TakeRequest \/ BeginRequest \/ BuildContext \/ Chat \/ AbortedChat
         \/ RunTools \/ Complete \/ FinishRequest \/ PublishOutMessage \/ PushResponse
         \/ \E c \in Clients : Submit(c) \/ Enqueue(c) \/ SubmitTimeout(c)
         \/ \E c \in Clients : Receive(c)
         \/ \E c \in Clients :
              \/ ReceivePending(c) \/ ReceiveLock(c) \/ ReceiveMatch(c)
              \/ ReceiveOther(c) \/ ReceiveTimeout(c)
         \/ \E id \in 0..MaxRequests : CancelRequest(id)
BY DEF Next, Worker, Sending, Receiving, Clients

\* The answer the worker is about to hand over is a response.
LEMMA ReplyType ==
  ASSUME TypeOK, pc # "idle"
  PROVE  Reply \in Response
BY DEF TypeOK, Reply, Response, Request

\* TypeOK: every queue stays within its length and holds requests or
\* responses, the worker has a request exactly while it is not idle.
\* TypeOK for any number of callers, queue lengths and tool iterations.
THEOREM TypeCorrect == Spec => []TypeOK
<1>1. Init => TypeOK
  <2>1. Init => inflightAbort \in BOOLEAN
    BY DEF Init
  <2> QED BY <2>1, SizeAssumption DEF Init, TypeOK, Stages, Results, Inflight
<1>2. TypeOK /\ [Next]_vars => TypeOK'
  <2> SUFFICES ASSUME TypeOK, [Next]_vars
               PROVE  TypeOK'
    OBVIOUS
  <2>1. CASE TakeRequest
    <3>1. Head(requests) \in Request /\ Tail(requests) \in Seq(Request)
          /\ Len(Tail(requests)) = Len(requests) - 1
      BY <2>1, HeadTailProperties DEF TypeOK, TakeRequest
    <3> QED BY <2>1, <3>1, SizeAssumption
            DEF TypeOK, TakeRequest, Stages, abortVars, clientVars, ghostVars
  <2>2. CASE BeginRequest
    <3>1. inflightAbort' \in BOOLEAN
      BY <2>2 DEF BeginRequest
    <3> QED BY <2>2, <3>1, SizeAssumption
            DEF TypeOK, BeginRequest, Stages, Inflight, Results, Request, Ids,
                queueVars, clientVars, ghostVars
  <2>3. CASE BuildContext
    BY <2>3 DEF TypeOK, BuildContext, AbortSeen, Stages, Inflight,
                queueVars, abortVars, clientVars, ghostVars
  <2>4. CASE Chat
    BY <2>4 DEF TypeOK, Chat, Stages, Inflight,
                queueVars, abortVars, clientVars, ghostVars
  <2>5. CASE AbortedChat
    BY <2>5 DEF TypeOK, AbortedChat, Stages, Inflight,
                queueVars, abortVars, clientVars, ghostVars
  <2>6. CASE RunTools
    BY <2>6, SizeAssumption DEF TypeOK, RunTools, LastRound, Stages, Inflight,
                queueVars, abortVars, clientVars, ghostVars
  <2>7. CASE Complete
    BY <2>7 DEF TypeOK, Complete, Stages, Inflight, Results, Request,
                queueVars, abortVars, clientVars, ghostVars
  <2>8. CASE FinishRequest
    <3>1. inflightAbort' \in BOOLEAN
      BY <2>8 DEF FinishRequest, Conclusion, Disarm
    <3> QED BY <2>8, <3>1, SizeAssumption
            DEF TypeOK, FinishRequest, Conclusion, Disarm, Stages, Results, Inflight,
                queueVars, clientVars, ghostVars
  <2>9. CASE PublishOutMessage
    <3>1. Reply \in Response
      BY <2>9, ReplyType DEF PublishOutMessage
    <3> QED BY <2>9, <3>1, SizeAssumption
            DEF TypeOK, PublishOutMessage, Retire, Stages, Results,
                queueVars, abortVars, clientVars
  <2>10. CASE PushResponse
    <3>1. Reply \in Response
      BY <2>10, ReplyType DEF PushResponse, Room
    <3>2. Append(responses, Reply) \in Seq(Response)
          /\ Len(Append(responses, Reply)) = Len(responses) + 1
      BY <3>1, AppendProperties DEF TypeOK
    <3> QED BY <2>10, <3>2, SizeAssumption
            DEF TypeOK, PushResponse, Room, Retire, Stages, Results,
                abortVars, clientVars, ghostVars
  <2>11. ASSUME NEW c \in Clients, Submit(c)
         PROVE  TypeOK'
    BY <2>11, SizeAssumption
       DEF TypeOK, Submit, queueVars, abortVars, workerVars, ghostVars
  <2>12. ASSUME NEW c \in Clients, Enqueue(c)
         PROVE  TypeOK'
    <3> DEFINE new == [id |-> want[c], ticket |-> accepted, detached |-> c \in Routers]
    <3>1. new \in Request
      BY <2>12, SizeAssumption DEF TypeOK, Enqueue, Request, Ids
    <3>2. Append(requests, new) \in Seq(Request)
          /\ Len(Append(requests, new)) = Len(requests) + 1
      BY <3>1, AppendProperties DEF TypeOK
    <3> HIDE DEF new
    <3>3. requests' = Append(requests, new)
      BY <2>12 DEF Enqueue, new
    <3>4. Len(requests') <= RequestQueueLen
      BY <2>12, <3>2, <3>3, LenProperties, SizeAssumption DEF TypeOK, Enqueue
    <3>5. accepted' \in Nat
      BY <2>12 DEF TypeOK, Enqueue
    <3>6. CASE c \in Routers
      <4>1. /\ client' = [client EXCEPT ![c] = "idle"]
            /\ want' = [want EXCEPT ![c] = 0]
        BY <2>12, <3>6 DEF Enqueue, Return
      <4> QED BY <2>12, <3>2, <3>3, <3>4, <3>5, <4>1, SizeAssumption
              DEF TypeOK, Enqueue, abortVars, workerVars
    <3>7. CASE c \notin Routers
      BY <2>12, <3>2, <3>3, <3>4, <3>5, <3>7, SizeAssumption
         DEF TypeOK, Enqueue, abortVars, workerVars
    <3> QED BY <3>6, <3>7
  <2>13. ASSUME NEW c \in Clients, SubmitTimeout(c)
         PROVE  TypeOK'
    BY <2>13, SizeAssumption DEF TypeOK, SubmitTimeout, Return,
                 queueVars, abortVars, workerVars, ghostVars
  <2>14. ASSUME NEW c \in Clients, Receive(c)
         PROVE  TypeOK'
    BY <2>14, SizeAssumption DEF TypeOK, Receive, queueVars, abortVars, workerVars, ghostVars
  <2>15. ASSUME NEW c \in Clients, ReceivePending(c)
         PROVE  TypeOK'
    <3>1. PICK i \in DOMAIN pending :
            pending' = RemoveAt(pending, i) /\ Deliver(c, pending[i])
      BY <2>15 DEF ReceivePending, Unpark
    <3>2. i \in 1..Len(pending) /\ pending[i] \in Response
      BY ElementOfSeq, LenProperties DEF TypeOK
    <3>3. pending' \in Seq(Response)
      BY <3>1, <3>2, RemoveAtSeq DEF TypeOK
    <3> QED BY <2>15, <3>1, <3>2, <3>3, SizeAssumption
            DEF TypeOK, ReceivePending, Unpark, Deliver, Return, abortVars, workerVars
  <2>16. ASSUME NEW c \in Clients, ReceiveLock(c)
         PROVE  TypeOK'
    BY <2>16 DEF TypeOK, ReceiveLock, Parked, abortVars, workerVars, ghostVars
  <2>17. ASSUME NEW c \in Clients, ReceiveMatch(c)
         PROVE  TypeOK'
    <3>1. Head(responses) \in Response /\ Tail(responses) \in Seq(Response)
          /\ Len(Tail(responses)) = Len(responses) - 1
      BY <2>17, HeadTailProperties DEF TypeOK, ReceiveMatch, GiveLock
    <3> QED BY <2>17, <3>1, SizeAssumption
            DEF TypeOK, ReceiveMatch, GiveLock, Deliver, Return, abortVars, workerVars
  <2>18. ASSUME NEW c \in Clients, ReceiveOther(c)
         PROVE  TypeOK'
    <3>1. Head(responses) \in Response /\ Tail(responses) \in Seq(Response)
          /\ Len(Tail(responses)) = Len(responses) - 1
      BY <2>18, HeadTailProperties DEF TypeOK, ReceiveOther, Park
    <3>2. Append(pending, Head(responses)) \in Seq(Response)
      BY <3>1, AppendProperties DEF TypeOK
    <3>3. pending' \in Seq(Response)
      BY <2>18, <3>2 DEF TypeOK, ReceiveOther, Park
    <3>4. responses' \in Seq(Response) /\ Len(responses') <= ResponseQueueLen
      BY <2>18, <3>1, LenProperties, SizeAssumption DEF TypeOK, ReceiveOther, Park
    <3> QED BY <2>18, <3>3, <3>4
            DEF TypeOK, ReceiveOther, Park, abortVars, workerVars, clientVars, ghostVars
  <2>19. ASSUME NEW c \in Clients, ReceiveTimeout(c)
         PROVE  TypeOK'
    BY <2>19, SizeAssumption DEF TypeOK, ReceiveTimeout, GiveLock, Return, abortVars, workerVars, ghostVars
  <2>20. ASSUME NEW id \in 0..MaxRequests, CancelRequest(id)
         PROVE  TypeOK'
    <3>1. inflightAbort' \in BOOLEAN /\ (pc \in {"context", "tools"}) \in BOOLEAN
      BY <2>20 DEF CancelRequest, Hits
    <3>2. inflightId \in Ids
      BY <2>20, SizeAssumption DEF TypeOK, CancelRequest, Hits, Ids
    <3>3. armed' \subseteq [asked : 0..MaxRequests, hit : Ids, early : BOOLEAN]
      <4> DEFINE Cancels == [asked : 0..MaxRequests, hit : Ids, early : BOOLEAN]
      <4>1. \A e \in BOOLEAN : [asked |-> id, hit |-> inflightId, early |-> e] \in Cancels
        BY <2>20, <3>2
      <4>2. armed \subseteq Cancels
        BY DEF TypeOK
      <4> HIDE DEF Cancels
      <4>3. armed' \subseteq Cancels
        BY <2>20, <3>1, <4>1, <4>2, Zenon DEF CancelRequest, Hits
      <4> QED BY <4>3 DEF Cancels
    <3> QED BY <2>20, <3>1, <3>3
            DEF TypeOK, CancelRequest, Hits, queueVars, workerVars, clientVars
  <2>21. CASE UNCHANGED vars
    BY <2>21 DEF TypeOK, vars
  <2> QED BY <2>1, <2>2, <2>3, <2>4, <2>5, <2>6, <2>7, <2>8, <2>9, <2>10, <2>11,
             <2>12, <2>13, <2>14, <2>15, <2>16, <2>17, <2>18, <2>19, <2>20, <2>21,
             NextCases
<1> QED BY <1>1, <1>2, PTL DEF Spec

-----------------------------------------------------------------------------
\* What the clients do leaves the worker and the abort flag alone.
LEMMA ClientSteps ==
  ASSUME NEW c \in Clients,
         \/ Submit(c) \/ Enqueue(c) \/ SubmitTimeout(c) \/ Receive(c)
         \/ ReceivePending(c) \/ ReceiveLock(c) \/ ReceiveMatch(c)
         \/ ReceiveOther(c) \/ ReceiveTimeout(c)
  PROVE  UNCHANGED <<inflightId, inflightAbort, pc, cur, iteration, result,
                     armed, published>>
BY DEF Submit, Enqueue, SubmitTimeout, Receive, ReceivePending, Unpark, ReceiveLock, Parked,
       ReceiveMatch, GiveLock, ReceiveOther, Park, ReceiveTimeout, GiveLock, abortVars, workerVars, ghostVars

\* InflightInv: the id cancellation compares with is the id of the request the
\* worker is busy with, and an abort never outlives its request.
LEMMA InflightStep == InflightInv /\ [Next]_vars => InflightInv'
<1> SUFFICES ASSUME InflightInv, [Next]_vars
             PROVE  InflightInv'
  OBVIOUS
<1>1. CASE TakeRequest \/ PushResponse
  BY <1>1 DEF InflightInv, TakeRequest, PushResponse, Room, Retire, Inflight, abortVars
<1>2. CASE BeginRequest
  BY <1>2 DEF InflightInv, BeginRequest, Inflight
<1>3. CASE BuildContext \/ Chat \/ AbortedChat
  BY <1>3 DEF InflightInv, BuildContext, AbortSeen, Chat, AbortedChat, Inflight, abortVars
<1>4. CASE RunTools
  BY <1>4 DEF InflightInv, RunTools, LastRound, Inflight, abortVars
<1>5. CASE Complete
  BY <1>5 DEF InflightInv, Complete, Inflight, abortVars
<1>6. CASE FinishRequest
  BY <1>6 DEF InflightInv, FinishRequest, Conclusion, Disarm, Inflight
<1>7. CASE PublishOutMessage
  BY <1>7 DEF InflightInv, PublishOutMessage, Retire, Inflight, abortVars
<1>8. ASSUME NEW c \in Clients,
             \/ Submit(c) \/ Enqueue(c) \/ SubmitTimeout(c) \/ Receive(c)
             \/ ReceivePending(c) \/ ReceiveLock(c) \/ ReceiveMatch(c)
             \/ ReceiveOther(c) \/ ReceiveTimeout(c)
      PROVE  InflightInv'
  <2>1. UNCHANGED <<inflightId, inflightAbort, pc, cur>>
    BY <1>8, ClientSteps
  <2> QED BY <2>1 DEF InflightInv
<1>9. ASSUME NEW id \in 0..MaxRequests, CancelRequest(id)
      PROVE  InflightInv'
  BY <1>9 DEF InflightInv, CancelRequest, Hits, workerVars
<1>10. CASE UNCHANGED vars
  BY <1>10 DEF InflightInv, vars
<1> QED BY <1>1, <1>2, <1>3, <1>4, <1>5, <1>6, <1>7, <1>8, <1>9, <1>10, NextCases

\* In every reachable state the id that claw_core_cancel_request compares with
\* is that of the request the worker has taken, and the abort flag is down
\* between requests: a cancel cannot spill over into the next request.
THEOREM InflightCorrect == Spec => []InflightInv
<1>1. Init => InflightInv
  BY DEF Init, InflightInv, Inflight
<1> QED BY <1>1, InflightStep, PTL DEF Spec

-----------------------------------------------------------------------------
\* LockInv: response_lock is held by the receiver waiting on the queue.
LEMMA LockStep == TypeOK /\ LockInv /\ [Next]_vars => LockInv'
<1> SUFFICES ASSUME TypeOK, LockInv, [Next]_vars
             PROVE  LockInv'
  OBVIOUS
<1> USE ClientAssumption
<1>1. CASE \/ TakeRequest \/ BeginRequest \/ BuildContext \/ Chat \/ AbortedChat
           \/ RunTools \/ Complete \/ FinishRequest \/ PublishOutMessage
           \/ PushResponse
  <2>1. UNCHANGED <<client, holder>>
    BY <1>1 DEF TakeRequest, BeginRequest, BuildContext, AbortSeen, Chat, AbortedChat, RunTools, LastRound,
                Complete, FinishRequest, Conclusion, Disarm, PublishOutMessage, PushResponse, Room,
                queueVars, clientVars
  <2> QED BY <2>1 DEF LockInv
<1>2. ASSUME NEW c \in Clients, Submit(c) \/ SubmitTimeout(c) \/ Receive(c)
      PROVE  LockInv'
  BY <1>2 DEF LockInv, TypeOK, Submit, SubmitTimeout, Receive, Return, queueVars
<1>3. ASSUME NEW c \in Clients, Enqueue(c)
      PROVE  LockInv'
  <2>1. holder' = holder /\ client[c] = "sending"
    BY <1>3 DEF Enqueue
  <2>2. \E a \in {"idle", "locking"} : client' = [client EXCEPT ![c] = a]
    BY <1>3 DEF Enqueue, Return
  <2> QED BY <2>1, <2>2 DEF LockInv, TypeOK
<1>4. ASSUME NEW c \in Clients, ReceivePending(c)
      PROVE  LockInv'
  <2>1. /\ holder' = holder /\ client[c] = "locking"
        /\ client' = [client EXCEPT ![c] = "idle"]
    BY <1>4 DEF ReceivePending, Unpark, Deliver, Return
  <2> QED BY <2>1 DEF LockInv, TypeOK
<1>5. ASSUME NEW c \in Clients, ReceiveLock(c)
      PROVE  LockInv'
  BY <1>5 DEF LockInv, TypeOK, ReceiveLock, Parked
<1>6. ASSUME NEW c \in Clients, ReceiveMatch(c) \/ ReceiveTimeout(c)
      PROVE  LockInv'
  <2>1. /\ holder' = NoClient /\ client[c] = "waiting"
        /\ client' = [client EXCEPT ![c] = "idle"]
    BY <1>6 DEF ReceiveMatch, ReceiveTimeout, GiveLock, Deliver, Return
  <2> QED BY <2>1 DEF LockInv, TypeOK
<1>7. ASSUME NEW c \in Clients, ReceiveOther(c)
      PROVE  LockInv'
  BY <1>7 DEF LockInv, ReceiveOther, Park, clientVars
<1>8. ASSUME NEW id \in 0..MaxRequests, CancelRequest(id)
      PROVE  LockInv'
  BY <1>8 DEF LockInv, CancelRequest, Hits, queueVars, clientVars
<1>9. CASE UNCHANGED vars
  BY <1>9 DEF LockInv, vars
<1> QED BY <1>1, <1>2, <1>3, <1>4, <1>5, <1>6, <1>7, <1>8, <1>9, NextCases

\* response_lock is held exactly by the caller of claw_core_receive_for that
\* waits on the response queue: no path returns with the lock held.
THEOREM LockCorrect == Spec => []LockInv
<1>1. Init => LockInv
  BY ClientAssumption DEF Init, LockInv
<1> QED BY <1>1, LockStep, TypeCorrect, PTL DEF Spec

\* NoMissedPending: a receiver that waits on the queue has nothing parked for
\* it.  Inductive with LockInv: whoever parks a response holds the lock, so
\* nobody else is waiting.
LEMMA NoMissedStep ==
  TypeOK /\ LockInv /\ NoMissedPending /\ [Next]_vars => NoMissedPending'
<1> SUFFICES ASSUME TypeOK, LockInv, NoMissedPending, [Next]_vars,
                    NEW w \in Clients, client'[w] = "waiting",
                    NEW k \in DOMAIN pending'
             PROVE  want'[w] # 0 /\ pending'[k].id # want'[w]
  BY DEF NoMissedPending, Matches
<1> USE DEF Matches
<1>1. ASSUME UNCHANGED <<pending, client, want>>
      PROVE  want'[w] # 0 /\ pending'[k].id # want'[w]
  BY <1>1 DEF NoMissedPending
<1>2. CASE \/ TakeRequest \/ BeginRequest \/ BuildContext \/ Chat \/ AbortedChat
           \/ RunTools \/ Complete \/ FinishRequest \/ PublishOutMessage
           \/ PushResponse
  BY <1>1, <1>2 DEF TakeRequest, BeginRequest, BuildContext, AbortSeen, Chat, AbortedChat,
                RunTools, LastRound, Complete, FinishRequest, Conclusion, Disarm, PublishOutMessage, PushResponse, Room,
                queueVars, clientVars
<1>3. ASSUME NEW c \in Clients, \/ Submit(c) \/ SubmitTimeout(c) \/ Receive(c)
                                \/ ReceiveMatch(c) \/ ReceiveTimeout(c)
      PROVE  want'[w] # 0 /\ pending'[k].id # want'[w]
  <2>1. /\ pending' = pending
        /\ \E a \in {"idle", "sending", "locking"} : client' = [client EXCEPT ![c] = a]
        /\ \E n : want' = [want EXCEPT ![c] = n]
    BY <1>3 DEF Submit, SubmitTimeout, Receive, ReceiveMatch, ReceiveTimeout, GiveLock,
                Deliver, Return, queueVars
  <2>2. c # w /\ client[w] = "waiting" /\ want'[w] = want[w]
    BY <2>1 DEF TypeOK
  <2> QED BY <2>1, <2>2 DEF NoMissedPending
<1>4. ASSUME NEW c \in Clients, Enqueue(c)
      PROVE  want'[w] # 0 /\ pending'[k].id # want'[w]
  <2>1. /\ pending' = pending
        /\ \E a \in {"idle", "locking"} : client' = [client EXCEPT ![c] = a]
        /\ \E n : want' = [want EXCEPT ![c] = n]
    BY <1>4 DEF Enqueue, Return, TypeOK
  <2>2. c # w /\ client[w] = "waiting" /\ want'[w] = want[w]
    BY <2>1 DEF TypeOK
  <2> QED BY <2>1, <2>2 DEF NoMissedPending
<1>5. ASSUME NEW c \in Clients, ReceivePending(c)
      PROVE  want'[w] # 0 /\ pending'[k].id # want'[w]
  <2>1. PICK i \in DOMAIN pending : pending' = RemoveAt(pending, i)
    BY <1>5 DEF ReceivePending, Unpark
  <2>2. /\ client' = [client EXCEPT ![c] = "idle"]
        /\ want' = [want EXCEPT ![c] = 0]
        /\ holder = NoClient
    BY <1>5 DEF ReceivePending, Unpark, Deliver, Return
  <2>3. c # w /\ client[w] = "waiting"
    BY <2>2 DEF TypeOK
  <2> QED BY <2>2, <2>3, ClientAssumption DEF LockInv
<1>6. ASSUME NEW c \in Clients, ReceiveLock(c)
      PROVE  want'[w] # 0 /\ pending'[k].id # want'[w]
  BY <1>6, ClientAssumption DEF ReceiveLock, Parked, LockInv, TypeOK
<1>7. ASSUME NEW c \in Clients, ReceiveOther(c)
      PROVE  want'[w] # 0 /\ pending'[k].id # want'[w]
  <2>1. w = c /\ UNCHANGED <<client, want>>
    BY <1>7 DEF ReceiveOther, Park, LockInv, clientVars
  <2>2. CASE pending' = pending
    BY <1>1, <2>1, <2>2
  <2>3. CASE pending' = Append(pending, Head(responses))
    <3>1. Head(responses) \in Response
      BY <1>7, HeadTailProperties DEF ReceiveOther, Park, TypeOK
    <3>2. /\ Len(pending') = Len(pending) + 1
          /\ \A i \in 1..Len(pending) : pending'[i] = pending[i]
          /\ pending'[Len(pending) + 1] = Head(responses)
          /\ Len(pending) \in Nat
          /\ DOMAIN pending = 1..Len(pending)
          /\ DOMAIN pending' = 1..Len(pending')
      BY <2>3, <3>1, AppendProperties, LenProperties DEF TypeOK
    <3>3. CASE k = Len(pending) + 1
      BY <1>7, <2>1, <3>2, <3>3 DEF ReceiveOther, Park
    <3>4. CASE k \in 1..Len(pending)
      BY <2>1, <3>2, <3>4 DEF NoMissedPending
    <3> QED BY <3>2, <3>3, <3>4
  <2> QED BY <1>7, <2>2, <2>3 DEF ReceiveOther, Park
<1>8. ASSUME NEW id \in 0..MaxRequests, CancelRequest(id)
      PROVE  want'[w] # 0 /\ pending'[k].id # want'[w]
  BY <1>1, <1>8 DEF CancelRequest, Hits, queueVars, clientVars
<1>9. CASE UNCHANGED vars
  BY <1>1, <1>9 DEF vars
<1> QED BY <1>2, <1>3, <1>4, <1>5, <1>6, <1>7, <1>8, <1>9, NextCases

\* A caller of claw_core_receive_for never waits on the queue for a response
\* that another caller has already moved to the list of pending responses.
THEOREM NoMissedPendingCorrect == Spec => []NoMissedPending
<1>1. Init => NoMissedPending
  BY DEF Init, NoMissedPending
<1> QED BY <1>1, NoMissedStep, TypeCorrect, LockCorrect, PTL DEF Spec

-----------------------------------------------------------------------------
\* Answers only move, get lost, or are the one the worker concludes with.
LEMMA AnswersGrow ==
  ASSUME TypeOK, [Next]_vars
  PROVE  Answers' \subseteq Answers \cup
           (IF pc' \in {"publish", "reply"} THEN {Reply'} ELSE {})
<1> DEFINE Stored == ToSet(pending) \cup ToSet(responses)
           Seen   == published \cup {d.response : d \in delivered}
<1> SUFFICES /\ Stored' \subseteq Answers
             /\ Seen' \subseteq Answers
  BY DEF Answers
<1>1. ASSUME UNCHANGED <<pending, responses, published, delivered>>
      PROVE  Stored' \subseteq Answers /\ Seen' \subseteq Answers
  BY <1>1 DEF Answers
<1>2. CASE \/ TakeRequest \/ BeginRequest \/ BuildContext \/ Chat \/ AbortedChat
           \/ RunTools \/ Complete \/ FinishRequest
  BY <1>1, <1>2 DEF TakeRequest, BeginRequest, BuildContext, AbortSeen, Chat, AbortedChat,
                    RunTools, LastRound, Complete, FinishRequest, Conclusion, Disarm, queueVars, ghostVars
<1>3. CASE PublishOutMessage
  <2>1. UNCHANGED <<pending, responses, delivered>>
    BY <1>3 DEF PublishOutMessage, queueVars
  <2>2. published' \subseteq published \cup {Reply} /\ Reply \in Answers
    BY <1>3 DEF PublishOutMessage, Answers
  <2> QED BY <2>1, <2>2 DEF Answers
<1>4. CASE PushResponse
  <2>1. UNCHANGED <<pending, published, delivered>> /\ Reply \in Answers
    BY <1>4 DEF PushResponse, Room, ghostVars, Answers
  <2>2. ToSet(responses') = ToSet(responses) \cup {Reply}
    BY <1>4, ReplyType, ToSetAppend DEF PushResponse, Room, TypeOK
  <2> QED BY <2>1, <2>2 DEF Answers
<1>5. ASSUME NEW c \in Clients,
             Submit(c) \/ SubmitTimeout(c) \/ Receive(c) \/ ReceiveLock(c) \/ ReceiveTimeout(c)
      PROVE  Stored' \subseteq Answers /\ Seen' \subseteq Answers
  BY <1>1, <1>5 DEF Submit, SubmitTimeout, Receive, ReceiveLock, Parked, ReceiveTimeout, GiveLock,
                    queueVars, ghostVars
<1>6. ASSUME NEW c \in Clients, Enqueue(c)
      PROVE  Stored' \subseteq Answers /\ Seen' \subseteq Answers
  BY <1>1, <1>6 DEF Enqueue
<1>7. ASSUME NEW c \in Clients, ReceivePending(c)
      PROVE  Stored' \subseteq Answers /\ Seen' \subseteq Answers
  <2>1. PICK i \in DOMAIN pending :
          /\ pending' = RemoveAt(pending, i)
          /\ Deliver(c, pending[i])
    BY <1>7 DEF ReceivePending, Unpark
  <2>2. ToSet(pending) = {pending[i]} \cup ToSet(pending')
    BY <2>1, ToSetRemoveAt, LenProperties DEF TypeOK
  <2>3. UNCHANGED <<responses, published>>
    BY <1>7 DEF ReceivePending, Unpark
  <2>4. delivered' = delivered \cup
          {[to |-> c, wanted |-> want[c], response |-> pending[i]]}
    BY <2>1 DEF Deliver
  <2> QED BY <2>2, <2>3, <2>4 DEF Answers
<1>8. ASSUME NEW c \in Clients, ReceiveMatch(c)
      PROVE  Stored' \subseteq Answers /\ Seen' \subseteq Answers
  <2>1. ToSet(responses) = {Head(responses)} \cup ToSet(responses')
    BY <1>8, ToSetTail DEF ReceiveMatch, GiveLock, TypeOK
  <2>2. UNCHANGED <<pending, published>>
    BY <1>8 DEF ReceiveMatch, GiveLock
  <2>3. delivered' = delivered \cup
          {[to |-> c, wanted |-> want[c], response |-> Head(responses)]}
    BY <1>8 DEF ReceiveMatch, GiveLock, Deliver
  <2> QED BY <2>1, <2>2, <2>3 DEF Answers
<1>9. ASSUME NEW c \in Clients, ReceiveOther(c)
      PROVE  Stored' \subseteq Answers /\ Seen' \subseteq Answers
  <2>1. ToSet(responses) = {Head(responses)} \cup ToSet(responses')
    BY <1>9, ToSetTail DEF ReceiveOther, Park, TypeOK
  <2>2. ToSet(pending') \subseteq ToSet(pending) \cup {Head(responses)}
    <3>1. Head(responses) \in Response
      BY <1>9, HeadTailProperties DEF ReceiveOther, Park, TypeOK
    <3>2. ToSet(Append(pending, Head(responses)))
            = ToSet(pending) \cup {Head(responses)}
      BY <3>1, ToSetAppend DEF TypeOK
    <3> QED BY <1>9, <3>2 DEF ReceiveOther, Park
  <2>3. UNCHANGED <<published, delivered>>
    BY <1>9 DEF ReceiveOther, Park, ghostVars
  <2> QED BY <2>1, <2>2, <2>3 DEF Answers
<1>10. ASSUME NEW id \in 0..MaxRequests, CancelRequest(id)
       PROVE  Stored' \subseteq Answers /\ Seen' \subseteq Answers
  BY <1>1, <1>10 DEF CancelRequest, Hits, queueVars
<1>11. CASE UNCHANGED vars
  BY <1>1, <1>11 DEF vars
<1> QED BY <1>2, <1>3, <1>4, <1>5, <1>6, <1>7, <1>8, <1>9, <1>10, <1>11, NextCases

\* Somebody asked for this id, or for whatever was running, and hit it.
Asked(id) == \E x \in armed : x.hit = id /\ x.asked \in {0, id}

\* The strengthening: the abort flag and the worker's own result are as
\* accountable as the answers that have left it.
CancelInv ==
  /\ InflightInv
  /\ inflightAbort => Asked(cur.id)
  /\ result = "cancelled" => pc \in {"publish", "reply"}
  /\ CancelledOnlyIfAsked

\* CancelledOnlyIfAsked: a cancel never reaches another request than the one
\* in flight when it was accepted.
LEMMA CancelStep == TypeOK /\ CancelInv /\ [Next]_vars => CancelInv'
<1> SUFFICES ASSUME TypeOK, CancelInv, [Next]_vars
             PROVE  CancelInv'
  OBVIOUS
<1>1. armed \subseteq armed'
  BY NextCases, ClientSteps
     DEF TakeRequest, BeginRequest, BuildContext, AbortSeen, Chat, AbortedChat, RunTools, LastRound,
         Complete, FinishRequest, Conclusion, Disarm, PublishOutMessage, PushResponse, Room, CancelRequest, Hits,
         vars, ghostVars
<1>2. ASSUME NEW id, Asked(id)
      PROVE  Asked(id)'
  BY <1>1, <1>2 DEF Asked
<1>3. InflightInv'
  BY InflightStep DEF CancelInv
<1>4. ASSUME inflightAbort'
      PROVE  Asked(cur.id)'
  <2>1. CASE \E id \in 0..MaxRequests : CancelRequest(id)
    <3>1. PICK id \in 0..MaxRequests : CancelRequest(id)
      BY <2>1
    <3>2. inflightId = cur.id /\ cur' = cur
      BY <3>1 DEF CancelInv, InflightInv, CancelRequest, Hits, workerVars
    <3>3. [asked |-> id, hit |-> inflightId, early |-> pc \in {"context", "tools"}]
            \in armed'
      BY <3>1 DEF CancelRequest, Hits
    <3>4. id \in {0, inflightId}
      BY <3>1 DEF CancelRequest, Hits
    <3> QED BY <3>2, <3>3, <3>4 DEF Asked
  <2>2. CASE inflightAbort /\ cur' = cur
    BY <1>2, <2>2 DEF CancelInv
  <2>3. \/ inflightAbort /\ cur' = cur
        \/ \E id \in 0..MaxRequests : CancelRequest(id)
    BY <1>4, NextCases, ClientSteps
       DEF CancelInv, InflightInv, Inflight, TakeRequest, BeginRequest, BuildContext, AbortSeen,
           Chat, AbortedChat, RunTools, LastRound, Complete, FinishRequest, Conclusion, Disarm, PublishOutMessage,
           PushResponse, Room, vars, abortVars
  <2> QED BY <2>1, <2>2, <2>3
<1>5. ASSUME result' = "cancelled"
      PROVE  /\ pc' \in {"publish", "reply"}
             /\ \/ UNCHANGED <<cur, result>> /\ pc \in {"publish", "reply"}
                \/ UNCHANGED cur /\ inflightAbort
  BY <1>5, NextCases, ClientSteps
     DEF CancelInv, TakeRequest, BeginRequest, BuildContext, AbortSeen, Chat, AbortedChat,
         RunTools, LastRound, Complete, FinishRequest, Conclusion, Disarm, PublishOutMessage, PushResponse, Room, Retire,
         CancelRequest, Hits, vars, workerVars
<1>6. ASSUME NEW a \in Answers', a.result = "cancelled"
      PROVE  Asked(a.id)'
  <2>1. CASE a \in Answers
    BY <1>2, <1>6, <2>1 DEF CancelInv, CancelledOnlyIfAsked, Asked
  <2>2. CASE a = Reply' /\ pc' \in {"publish", "reply"}
    <3>1. result' = "cancelled" /\ a.id = cur'.id
      BY <1>6, <2>2 DEF Reply
    <3>2. CASE UNCHANGED <<cur, result>> /\ pc \in {"publish", "reply"}
      <4>1. Reply \in Answers /\ Reply.result = "cancelled" /\ Reply.id = a.id
        BY <3>1, <3>2 DEF Answers, Reply
      <4> QED BY <1>2, <4>1 DEF CancelInv, CancelledOnlyIfAsked, Asked
    <3>3. CASE UNCHANGED cur /\ inflightAbort
      BY <1>2, <3>1, <3>3 DEF CancelInv
    <3> QED BY <1>5, <3>1, <3>2, <3>3
  <2> QED BY <1>6, <2>1, <2>2, AnswersGrow
<1> QED BY <1>3, <1>4, <1>5, <1>6 DEF CancelInv, CancelledOnlyIfAsked, Asked

\* A request is answered as cancelled only if claw_core_cancel_request was
\* called for it, by its id or by 0, while it was in flight.
THEOREM CancelledCorrect == Spec => []CancelledOnlyIfAsked
<1>1. Init => CancelInv
  BY DEF Init, CancelInv, InflightInv, Inflight, CancelledOnlyIfAsked, Answers, ToSet
<1>2. CancelInv => CancelledOnlyIfAsked
  BY DEF CancelInv
<1> QED BY <1>1, <1>2, CancelStep, TypeCorrect, PTL DEF Spec

-----------------------------------------------------------------------------
(* PipelineInOrder.  Three lemmas say what taking the first, adding a last *)
(* and removing some element does to the order of tickets.                 *)

Below(s, n) == \A i \in DOMAIN s : s[i].ticket < n

\* Taking the oldest request out of a queue and working on it keeps the order.
LEMMA TailOrder ==
  ASSUME NEW S, NEW s \in Seq(S), s # <<>>
  PROVE  /\ InOrder(s) => InOrder(Tail(s)) /\ Precedes(<<Head(s)>>, Tail(s))
         /\ \A t : Precedes(t, s) => Precedes(t, Tail(s)) /\ Precedes(t, <<Head(s)>>)
         /\ \A t : Precedes(s, t) => Precedes(Tail(s), t) /\ Precedes(<<Head(s)>>, t)
         /\ \A n : Below(s, n) => Below(Tail(s), n) /\ Below(<<Head(s)>>, n)
<1> DEFINE u == Tail(s)
           h == <<Head(s)>>
<1>1. /\ DOMAIN s = 1..Len(s) /\ Len(s) \in Nat \ {0}
      /\ DOMAIN u = 1..(Len(s) - 1)
      /\ \A i \in DOMAIN u : u[i] = s[i + 1] /\ i + 1 \in DOMAIN s
  BY HeadTailProperties, LenProperties, EmptySeq
<1>2. DOMAIN h = {1} /\ h[1] = s[1] /\ 1 \in DOMAIN s
  BY <1>1
<1> HIDE DEF u, h
<1>3. InOrder(s) => InOrder(u) /\ Precedes(h, u)
  BY <1>1, <1>2 DEF InOrder, Precedes
<1>4. ASSUME NEW t
      PROVE  /\ Precedes(t, s) => Precedes(t, u) /\ Precedes(t, h)
             /\ Precedes(s, t) => Precedes(u, t) /\ Precedes(h, t)
  BY <1>1, <1>2 DEF Precedes
<1>5. ASSUME NEW n
      PROVE  Below(s, n) => Below(u, n) /\ Below(h, n)
  BY <1>1, <1>2 DEF Below
<1> QED BY <1>3, <1>4, <1>5 DEF u, h

\* Appending what the worker held to a queue keeps the order.
LEMMA AppendOrder ==
  ASSUME NEW S, NEW s \in Seq(S), NEW e \in S
  PROVE  /\ InOrder(s) /\ Precedes(s, <<e>>) => InOrder(Append(s, e))
         /\ \A t : Precedes(t, s) /\ Precedes(t, <<e>>) => Precedes(t, Append(s, e))
         /\ \A t : Precedes(s, t) /\ Precedes(<<e>>, t) => Precedes(Append(s, e), t)
         /\ \A n : Below(s, n) /\ Below(<<e>>, n) => Below(Append(s, e), n)
<1> DEFINE u == Append(s, e)
           h == <<e>>
<1>1. /\ DOMAIN s = 1..Len(s) /\ Len(s) \in Nat
      /\ DOMAIN u = 1..(Len(s) + 1)
      /\ \A i \in DOMAIN s : u[i] = s[i]
      /\ u[Len(s) + 1] = e
  BY AppendProperties, LenProperties
<1>2. DOMAIN h = {1} /\ h[1] = e
  OBVIOUS
<1>3. \A i \in DOMAIN u : i \in DOMAIN s \/ i = Len(s) + 1
  BY <1>1
<1> HIDE DEF u, h
<1>4. ASSUME InOrder(s), Precedes(s, h), NEW i \in DOMAIN u, NEW j \in DOMAIN u, i < j
      PROVE  u[i].ticket < u[j].ticket
  <2>1. i \in DOMAIN s
    BY <1>1, <1>4
  <2>2. CASE j \in DOMAIN s
    BY <1>1, <1>4, <2>1, <2>2 DEF InOrder
  <2>3. CASE j = Len(s) + 1
    BY <1>1, <1>2, <1>4, <2>1, <2>3 DEF Precedes
  <2> QED BY <1>3, <2>2, <2>3
<1>5. ASSUME NEW t
      PROVE  /\ Precedes(t, s) /\ Precedes(t, h) => Precedes(t, u)
             /\ Precedes(s, t) /\ Precedes(h, t) => Precedes(u, t)
  BY <1>1, <1>2, <1>3 DEF Precedes
<1>6. ASSUME NEW n
      PROVE  Below(s, n) /\ Below(h, n) => Below(u, n)
  BY <1>1, <1>2, <1>3 DEF Below
<1>7. InOrder(s) /\ Precedes(s, h) => InOrder(u)
  BY <1>4 DEF InOrder
<1> QED BY <1>5, <1>6, <1>7 DEF u, h

\* Taking a parked response out of the middle keeps the order.
LEMMA RemoveOrder ==
  ASSUME NEW S, NEW s \in Seq(S), NEW k \in 1..Len(s)
  PROVE  /\ InOrder(s) => InOrder(RemoveAt(s, k))
         /\ \A t : Precedes(s, t) => Precedes(RemoveAt(s, k), t)
         /\ \A n : Below(s, n) => Below(RemoveAt(s, k), n)
<1> DEFINE u == RemoveAt(s, k)
           at(i) == IF i < k THEN i ELSE i + 1
<1>1. /\ DOMAIN s = 1..Len(s) /\ Len(s) \in Nat \ {0}
      /\ DOMAIN u = 1..(Len(s) - 1)
      /\ \A i \in DOMAIN u : u[i] = s[at(i)]
  <2>1. /\ u \in Seq(S) /\ Len(u) = Len(s) - 1
        /\ \A j \in 1..(Len(s) - 1) : u[j] = IF j < k THEN s[j] ELSE s[j + 1]
    BY RemoveAtSeq
  <2>2. DOMAIN s = 1..Len(s) /\ Len(s) \in Nat \ {0}
    BY LenProperties
  <2>3. DOMAIN u = 1..(Len(s) - 1)
    BY <2>1, LenProperties
  <2> HIDE DEF u
  <2> QED BY <2>1, <2>2, <2>3
<1>2. \A i \in DOMAIN u : at(i) \in DOMAIN s
  BY <1>1
<1>3. \A i, j \in DOMAIN u : i < j => at(i) < at(j)
  BY <1>1
<1> HIDE DEF u, at
<1>4. InOrder(s) => InOrder(u)
  BY <1>1, <1>2, <1>3 DEF InOrder
<1>5. ASSUME NEW t
      PROVE  Precedes(s, t) => Precedes(u, t)
  BY <1>1, <1>2 DEF Precedes
<1>6. ASSUME NEW n
      PROVE  Below(s, n) => Below(u, n)
  BY <1>1, <1>2 DEF Below
<1> QED BY <1>4, <1>5, <1>6 DEF u

\* The pipeline with explicit arguments.
Ordered(p, q, w, r, n) ==
  /\ InOrder(p) /\ InOrder(q) /\ InOrder(r)
  /\ Precedes(p, q) /\ Precedes(p, w) /\ Precedes(p, r)
  /\ Precedes(q, w) /\ Precedes(q, r) /\ Precedes(w, r)
  /\ Below(p, n) /\ Below(q, n) /\ Below(w, n) /\ Below(r, n)

\* PipelineInOrder is the order of the four stations of the pipeline.
LEMMA PipelineIsOrdered ==
  PipelineInOrder <=> Ordered(pending, responses, Working, requests, accepted)
BY DEF PipelineInOrder, Ordered, Issued, Below

\* An empty station is in order with any other.
LEMMA EmptyOrder ==
  ASSUME NEW t, NEW n
  PROVE  InOrder(<<>>) /\ Precedes(<<>>, t) /\ Precedes(t, <<>>) /\ Below(<<>>, n)
BY DEF InOrder, Precedes, Below

\* Two elements with one ticket are interchangeable.
LEMMA SameTicket ==
  ASSUME NEW a, NEW b, a.ticket = b.ticket, NEW t, NEW n
  PROVE  /\ Precedes(<<a>>, t) => Precedes(<<b>>, t)
         /\ Precedes(t, <<a>>) => Precedes(t, <<b>>)
         /\ Below(<<a>>, n) => Below(<<b>>, n)
BY DEF Precedes, Below

\* No step of the core breaks the order of the pipeline.
LEMMA OrderStep == TypeOK /\ PipelineInOrder /\ [Next]_vars => PipelineInOrder'
<1> SUFFICES ASSUME TypeOK, PipelineInOrder, [Next]_vars
             PROVE  Ordered(pending', responses', Working', requests', accepted')
  BY PipelineIsOrdered DEF PipelineInOrder, Ordered, Issued, Below
<1>0. Ordered(pending, responses, Working, requests, accepted)
  BY PipelineIsOrdered
<1>1. ASSUME UNCHANGED <<pending, responses, requests, accepted>>, Working' = Working
      PROVE  Ordered(pending', responses', Working', requests', accepted')
  BY <1>0, <1>1
<1>2. CASE TakeRequest
  <2>1. /\ Working = <<>> /\ Working' = <<Head(requests)>>
        /\ requests' = Tail(requests) /\ requests # <<>>
        /\ UNCHANGED <<pending, responses, accepted>>
    BY <1>2 DEF TakeRequest, Working, ghostVars
  <2> QED BY <1>0, <2>1, TailOrder DEF Ordered, TypeOK
<1>3. CASE \/ BeginRequest \/ BuildContext \/ Chat \/ AbortedChat \/ RunTools
           \/ Complete \/ FinishRequest
  BY <1>1, <1>3 DEF BeginRequest, BuildContext, AbortSeen, Chat, AbortedChat, RunTools, LastRound, Complete,
                    FinishRequest, Conclusion, Disarm, Working, queueVars, ghostVars
<1>4. CASE PublishOutMessage
  <2>1. UNCHANGED <<pending, responses, requests, accepted>>
    BY <1>4 DEF PublishOutMessage, queueVars
  <2>2. Working' = Working \/ Working' = <<>>
    BY <1>4 DEF PublishOutMessage, Retire, Working
  <2> QED BY <1>0, <2>1, <2>2, EmptyOrder DEF Ordered
<1>5. CASE PushResponse
  <2>1. /\ Working = <<cur>> /\ Working' = <<>>
        /\ responses' = Append(responses, Reply)
        /\ UNCHANGED <<pending, requests, accepted>>
    BY <1>5 DEF PushResponse, Room, Retire, Working, ghostVars
  <2>2. Reply \in Response /\ cur.ticket = Reply.ticket
    BY <1>5, ReplyType DEF PushResponse, Room, Reply
  <2>3. /\ Precedes(responses, <<Reply>>) /\ Precedes(<<Reply>>, requests)
        /\ Precedes(pending, <<Reply>>) /\ Below(<<Reply>>, accepted)
    BY <1>0, <2>1, <2>2, SameTicket DEF Ordered
  <2> QED BY <1>0, <2>1, <2>2, <2>3, AppendOrder, EmptyOrder DEF Ordered, TypeOK
<1>6. ASSUME NEW c \in Clients,
             \/ Submit(c) \/ SubmitTimeout(c) \/ Receive(c) \/ ReceiveLock(c)
             \/ ReceiveTimeout(c)
      PROVE  Ordered(pending', responses', Working', requests', accepted')
  BY <1>1, <1>6 DEF Submit, SubmitTimeout, Receive, ReceiveLock, Parked, ReceiveTimeout, GiveLock,
                    Working, queueVars, workerVars, ghostVars
<1>7. ASSUME NEW c \in Clients, Enqueue(c)
      PROVE  Ordered(pending', responses', Working', requests', accepted')
  <2> DEFINE new == [id |-> want[c], ticket |-> accepted, detached |-> c \in Routers]
  <2>1. /\ requests' = Append(requests, new) /\ accepted' = accepted + 1
        /\ UNCHANGED <<pending, responses>> /\ Working' = Working
    BY <1>7 DEF Enqueue, Working, workerVars
  <2>2. new \in Request /\ new.ticket = accepted /\ accepted \in Nat
    BY <1>7, SizeAssumption DEF TypeOK, Enqueue, Request, Ids
  <2> HIDE DEF new
  <2>3. \A s : Below(s, accepted) => Precedes(s, <<new>>)
    BY <2>2 DEF Below, Precedes
  <2>4. Below(<<new>>, accepted + 1)
    BY <2>2 DEF Below
  <2>5. ASSUME NEW s, Below(s, accepted), \A i \in DOMAIN s : s[i].ticket \in Nat
        PROVE  Below(s, accepted + 1)
    BY <2>2, <2>5 DEF Below
  <2>6. /\ \A i \in DOMAIN pending : pending[i].ticket \in Nat
        /\ \A i \in DOMAIN responses : responses[i].ticket \in Nat
        /\ \A i \in DOMAIN requests : requests[i].ticket \in Nat
        /\ \A i \in DOMAIN Working : Working[i].ticket \in Nat
    <3>1. /\ \A i \in DOMAIN pending : pending[i] \in Response
          /\ \A i \in DOMAIN responses : responses[i] \in Response
          /\ \A i \in DOMAIN requests : requests[i] \in Request
      BY ElementOfSeq, LenProperties DEF TypeOK
    <3>2. \A i \in DOMAIN Working : Working[i] \in Request
      BY DEF TypeOK, Working
    <3> QED BY <3>1, <3>2 DEF Request, Response
  <2> QED BY <1>0, <2>1, <2>2, <2>3, <2>4, <2>5, <2>6, AppendOrder DEF Ordered, TypeOK
<1>8. ASSUME NEW c \in Clients, ReceivePending(c)
      PROVE  Ordered(pending', responses', Working', requests', accepted')
  <2>1. PICK i \in DOMAIN pending : pending' = RemoveAt(pending, i)
    BY <1>8 DEF ReceivePending, Unpark
  <2>2. i \in 1..Len(pending)
    BY LenProperties DEF TypeOK
  <2>3. UNCHANGED <<responses, requests, accepted>> /\ Working' = Working
    BY <1>8 DEF ReceivePending, Unpark, Working, workerVars
  <2> QED BY <1>0, <2>1, <2>2, <2>3, RemoveOrder DEF Ordered, TypeOK
<1>9. ASSUME NEW c \in Clients, ReceiveMatch(c)
      PROVE  Ordered(pending', responses', Working', requests', accepted')
  <2>1. /\ responses' = Tail(responses) /\ responses # <<>>
        /\ UNCHANGED <<pending, requests, accepted>> /\ Working' = Working
    BY <1>9 DEF ReceiveMatch, GiveLock, Working, workerVars
  <2> QED BY <1>0, <2>1, TailOrder DEF Ordered, TypeOK
<1>10. ASSUME NEW c \in Clients, ReceiveOther(c)
       PROVE  Ordered(pending', responses', Working', requests', accepted')
  <2>1. /\ responses' = Tail(responses) /\ responses # <<>>
        /\ UNCHANGED <<requests, accepted>> /\ Working' = Working
    BY <1>10 DEF ReceiveOther, Park, Working, workerVars, ghostVars
  <2>2. Ordered(pending, Tail(responses), Working, requests, accepted)
    BY <1>0, <2>1, TailOrder DEF Ordered, TypeOK
  <2>3. /\ Precedes(pending, <<Head(responses)>>)
        /\ Precedes(<<Head(responses)>>, Tail(responses))
        /\ Precedes(<<Head(responses)>>, Working)
        /\ Precedes(<<Head(responses)>>, requests)
        /\ Below(<<Head(responses)>>, accepted)
    BY <1>0, <2>1, TailOrder DEF Ordered, TypeOK
  <2>4. Head(responses) \in Response
    BY <2>1, HeadTailProperties DEF TypeOK
  <2>5. CASE pending' = pending
    BY <2>1, <2>2, <2>5
  <2>6. CASE pending' = Append(pending, Head(responses))
    BY <2>1, <2>2, <2>3, <2>4, <2>6, AppendOrder DEF Ordered, TypeOK
  <2> QED BY <1>10, <2>5, <2>6 DEF ReceiveOther, Park
<1>11. ASSUME NEW id \in 0..MaxRequests, CancelRequest(id)
       PROVE  Ordered(pending', responses', Working', requests', accepted')
  BY <1>1, <1>11 DEF CancelRequest, Hits, Working, queueVars, workerVars
<1>12. CASE UNCHANGED vars
  BY <1>1, <1>12 DEF vars, Working
<1> QED BY <1>2, <1>3, <1>4, <1>5, <1>6, <1>7, <1>8, <1>9, <1>10, <1>11, <1>12, NextCases

\* PipelineInOrder: first come, first served, from the request queue to the
\* list of parked responses, and nothing is ever in two places.
THEOREM OrderCorrect == Spec => []PipelineInOrder
<1>1. Init => PipelineInOrder
  BY EmptyOrder DEF Init, PipelineInOrder, Issued, Working, InOrder, Precedes
<1> QED BY <1>1, OrderStep, TypeCorrect, PTL DEF Spec

-----------------------------------------------------------------------------
(* EarlyCancelWins.  An id is in one place at a time: with a caller that   *)
(* waits for room, in the request queue, with the worker, or answered.     *)

Unsent(id)   == \E c \in Clients : client[c] = "sending" /\ want[c] = id
Queued(id)   == \E i \in DOMAIN requests : requests[i].id = id
Answered(id) == \E a \in Answers : a.id = id

IdsApart ==
  /\ \A c, d \in Clients :
       client[c] = "sending" /\ client[d] = "sending" /\ want[c] = want[d] => c = d
  /\ \A i, j \in DOMAIN requests : requests[i].id = requests[j].id => i = j
  /\ \A id : Queued(id) => ~Unsent(id) /\ cur.id # id
  /\ \A id : Answered(id) => ~Unsent(id) /\ ~Queued(id)
  /\ ~Unsent(cur.id)
  /\ Answered(cur.id) => pc \in {"publish", "reply"}
  /\ cur.id < nextId
  /\ \A id : Unsent(id) \/ Queued(id) \/ Answered(id) => id < nextId

\* What the worker's stage says about the request whose cancel came early.
EarlyInv ==
  /\ pc \notin {"finish", "publish", "reply"} => result = "failed"
  /\ \A x \in armed : x.early =>
       /\ x.hit < nextId /\ ~Unsent(x.hit) /\ ~Queued(x.hit)
       /\ x.hit = cur.id =>
            \/ pc \in {"publish", "reply"}
            \/ /\ pc \in {"context", "abortedChat", "tools", "finish"}
               /\ inflightAbort /\ result = "failed"
       /\ \A a \in Answers : a.id = x.hit => a.result = "cancelled"

\* A caller takes a fresh id into xQueueSend, and no other step makes one.
LEMMA UnsentMoves ==
  ASSUME TypeOK, IdsApart, [Next]_vars
  PROVE  /\ nextId' \in Nat /\ nextId <= nextId'
         /\ \A id : Unsent(id)' => Unsent(id) \/ (id = nextId /\ id < nextId')
         /\ \A c, d \in Clients :
              (client[c] = "sending" /\ client[d] = "sending" /\ want[c] = want[d])' => c = d
<1>1. nextId \in Nat /\ client \in [Clients -> {"idle", "sending", "locking", "waiting"}]
      /\ want \in [Clients -> 0..MaxRequests] /\ MaxRequests \in Nat
  BY SizeAssumption DEF TypeOK
<1> DEFINE Goal ==
      /\ nextId' \in Nat /\ nextId <= nextId'
      /\ \A id : Unsent(id)' => Unsent(id) \/ (id = nextId /\ id < nextId')
      /\ \A c, d \in Clients :
           (client[c] = "sending" /\ client[d] = "sending" /\ want[c] = want[d])' => c = d
<1>2. ASSUME NEW c \in Clients, Submit(c)
      PROVE  Goal
  <2>1. /\ client' = [client EXCEPT ![c] = "sending"]
        /\ want' = [want EXCEPT ![c] = nextId] /\ nextId' = nextId + 1
    BY <1>2 DEF Submit
  <2>2. \A d \in Clients : client[d] = "sending" => want[d] < nextId
    BY DEF IdsApart, Unsent
  <2>3. \A d \in Clients : d # c => client'[d] = client[d] /\ want'[d] = want[d]
    BY <1>1, <2>1
  <2>4. client'[c] = "sending" /\ want'[c] = nextId
    BY <1>1, <2>1
  <2>5. \A id : Unsent(id)' => Unsent(id) \/ id = nextId
    BY <2>3, <2>4 DEF Unsent
  <2>6. ASSUME NEW d \in Clients, NEW e \in Clients,
               client'[d] = "sending", client'[e] = "sending", want'[d] = want'[e]
        PROVE  d = e
    <3>1. \A f \in Clients : want[f] \in Nat
      BY <1>1
    <3> QED BY <1>1, <2>2, <2>3, <2>4, <2>6, <3>1 DEF IdsApart
  <2> QED BY <1>1, <2>1, <2>5, <2>6
<1>3. ASSUME NEW c \in Clients,
             \A d \in Clients : client'[d] = "sending" =>
               client[d] = "sending" /\ want'[d] = want[d],
             nextId' = nextId
      PROVE  Goal
  BY <1>1, <1>3 DEF IdsApart, Unsent
<1>4. ASSUME NEW c \in Clients,
             \/ Enqueue(c) \/ SubmitTimeout(c) \/ Receive(c)
             \/ ReceivePending(c) \/ ReceiveLock(c) \/ ReceiveMatch(c)
             \/ ReceiveOther(c) \/ ReceiveTimeout(c)
      PROVE  Goal
  <2>1. nextId' = nextId
    BY <1>4 DEF Enqueue, SubmitTimeout, Receive, ReceivePending, ReceiveLock, ReceiveMatch,
                ReceiveOther, ReceiveTimeout, clientVars
  <2>2. \/ UNCHANGED <<client, want>>
        \/ /\ \E a \in {"idle", "locking", "waiting"} : client' = [client EXCEPT ![c] = a]
           /\ want' = want \/ want' = [want EXCEPT ![c] = 0]
    BY <1>4 DEF Enqueue, SubmitTimeout, Receive, ReceivePending, ReceiveLock, ReceiveMatch,
                ReceiveOther, ReceiveTimeout, Deliver, Return, clientVars
  <2>3. \A d \in Clients : client'[d] = "sending" =>
          client[d] = "sending" /\ want'[d] = want[d]
    BY <1>1, <2>2
  <2> QED BY <1>3, <2>1, <2>3
<1>5. CASE UNCHANGED clientVars
  BY <1>1, <1>5 DEF clientVars, IdsApart, Unsent
<1>6. \/ UNCHANGED clientVars
      \/ \E c \in Clients : Submit(c)
      \/ \E c \in Clients :
           \/ Enqueue(c) \/ SubmitTimeout(c) \/ Receive(c)
           \/ ReceivePending(c) \/ ReceiveLock(c) \/ ReceiveMatch(c)
           \/ ReceiveOther(c) \/ ReceiveTimeout(c)
  BY NextCases DEF TakeRequest, BeginRequest, BuildContext, Chat, AbortedChat, RunTools,
       Complete, FinishRequest, PublishOutMessage, PushResponse, CancelRequest, vars, clientVars
<1> QED BY <1>2, <1>4, <1>5, <1>6

\* An id enters the request queue only from the hand of its caller.
LEMMA QueuedMoves ==
  ASSUME TypeOK, IdsApart, [Next]_vars
  PROVE  /\ \A id : Queued(id)' => Queued(id) \/ (Unsent(id) /\ ~Unsent(id)')
         /\ (\A i, j \in DOMAIN requests : requests[i].id = requests[j].id => i = j)'
<1>1. /\ client \in [Clients -> {"idle", "sending", "locking", "waiting"}]
      /\ want \in [Clients -> 0..MaxRequests]
      /\ requests \in Seq(Request) /\ DOMAIN requests = 1..Len(requests) /\ Len(requests) \in Nat
  BY LenProperties DEF TypeOK
<1> DEFINE Goal ==
      /\ \A id : Queued(id)' => Queued(id) \/ (Unsent(id) /\ ~Unsent(id)')
      /\ (\A i, j \in DOMAIN requests : requests[i].id = requests[j].id => i = j)'
<1>2. CASE requests' = requests
  BY <1>2 DEF Queued, IdsApart
<1>3. CASE TakeRequest
  <2>1. /\ DOMAIN requests' = 1..(Len(requests) - 1)
        /\ \A i \in DOMAIN requests' : requests'[i] = requests[i + 1] /\ i + 1 \in DOMAIN requests
    BY <1>1, <1>3, HeadTailProperties, LenProperties, EmptySeq DEF TakeRequest
  <2>2. \A id : Queued(id)' => Queued(id)
    BY <2>1 DEF Queued
  <2>3. ASSUME NEW i \in DOMAIN requests', NEW j \in DOMAIN requests',
               requests'[i].id = requests'[j].id
        PROVE  i = j
    <3>1. i + 1 = j + 1
      BY <2>1, <2>3 DEF IdsApart
    <3> QED BY <1>1, <2>1, <3>1
  <2> QED BY <2>2, <2>3
<1>4. ASSUME NEW c \in Clients, Enqueue(c)
      PROVE  Goal
  <2> DEFINE new == [id |-> want[c], ticket |-> accepted, detached |-> c \in Routers]
  <2>1. new \in Request /\ new.id = want[c] /\ requests' = Append(requests, new)
    BY <1>4, SizeAssumption DEF TypeOK, Enqueue, Request, Ids
  <2> HIDE DEF new
  <2>2. /\ DOMAIN requests' = 1..(Len(requests) + 1)
        /\ \A i \in DOMAIN requests : requests'[i] = requests[i]
        /\ requests'[Len(requests) + 1] = new
    BY <1>1, <2>1, AppendProperties, LenProperties
  <2>3. /\ client[c] = "sending"
        /\ \A d \in Clients : d # c => client'[d] = client[d] /\ want'[d] = want[d]
        /\ client'[c] # "sending"
    BY <1>1, <1>4 DEF Enqueue, Return
  <2>4. Unsent(want[c]) /\ ~Queued(want[c])
    BY <2>3 DEF Unsent, IdsApart
  <2>5. ASSUME NEW id, id = want[c]
        PROVE  ~Unsent(id)'
    BY <2>3, <2>5 DEF Unsent, IdsApart
  <2>6. \A i \in DOMAIN requests' : i \in DOMAIN requests \/ i = Len(requests) + 1
    BY <1>1, <2>2
  <2>7. \A id : Queued(id)' => Queued(id) \/ id = want[c]
    BY <2>1, <2>2, <2>6 DEF Queued
  <2>8. ASSUME NEW i \in DOMAIN requests', NEW j \in DOMAIN requests',
               requests'[i].id = requests'[j].id
        PROVE  i = j
    BY <2>1, <2>2, <2>4, <2>6, <2>8 DEF IdsApart, Queued
  <2> QED BY <2>4, <2>5, <2>7, <2>8
<1>5. \/ requests' = requests \/ TakeRequest \/ \E c \in Clients : Enqueue(c)
  BY NextCases DEF BeginRequest, BuildContext, Chat, AbortedChat, RunTools,
       Complete, FinishRequest, PublishOutMessage, PushResponse, CancelRequest, vars,
       Submit, SubmitTimeout, Receive, ReceivePending, ReceiveLock, ReceiveMatch,
       ReceiveOther, ReceiveTimeout, queueVars
<1> QED BY <1>2, <1>3, <1>4, <1>5

\* The worker's request leaves the queue for the worker, keeps it until its
\* answer goes out, and leaves nothing behind.
LEMMA CurMoves ==
  ASSUME TypeOK, IdsApart, [Next]_vars
  PROVE  \/ cur'.id = 0 /\ pc' = "idle"
         \/ /\ cur' = cur
            /\ pc \in {"publish", "reply"} => pc' \in {"publish", "reply"} /\ result' = result
         \/ /\ Queued(cur'.id) /\ ~Queued(cur.id)' /\ pc' = "begin"
            /\ cur'.id \in Nat \ {0}
<1>1. CASE TakeRequest
  <2>1. /\ requests \in Seq(Request) /\ requests # <<>> /\ cur' = Head(requests)
        /\ pc' = "begin" /\ requests' = Tail(requests)
    BY <1>1 DEF TakeRequest, TypeOK
  <2>2. /\ DOMAIN requests = 1..Len(requests) /\ Len(requests) \in Nat \ {0}
        /\ DOMAIN requests' = 1..(Len(requests) - 1)
        /\ \A i \in DOMAIN requests' : requests'[i] = requests[i + 1] /\ i + 1 \in DOMAIN requests
        /\ cur' = requests[1] /\ cur' \in Request
    BY <2>1, HeadTailProperties, LenProperties, EmptySeq
  <2>3. cur'.id \in Nat \ {0}
    BY <2>2, SizeAssumption DEF Request, Ids
  <2>4. Queued(cur'.id)
    BY <2>2 DEF Queued
  <2>5. ASSUME NEW i \in DOMAIN requests', requests'[i].id = cur'.id
        PROVE  FALSE
    <3>1. i + 1 = 1
      BY <2>2, <2>5 DEF IdsApart
    <3> QED BY <2>2, <3>1
  <2> QED BY <2>1, <2>3, <2>4, <2>5 DEF Queued
<1>2. CASE Retire
  BY <1>2 DEF Retire, NoRequest
<1>3. CASE \/ BeginRequest \/ BuildContext \/ Chat \/ AbortedChat \/ RunTools
           \/ Complete \/ FinishRequest \/ PublishOutMessage \/ PushResponse
  BY <1>2, <1>3 DEF BeginRequest, BuildContext, Chat, AbortedChat, RunTools,
       Complete, FinishRequest, PublishOutMessage, PushResponse
<1>4. CASE UNCHANGED workerVars
  BY <1>4 DEF workerVars
<1>5. \/ UNCHANGED workerVars \/ TakeRequest
      \/ BeginRequest \/ BuildContext \/ Chat \/ AbortedChat \/ RunTools
      \/ Complete \/ FinishRequest \/ PublishOutMessage \/ PushResponse
  BY NextCases, ClientSteps DEF CancelRequest, vars, workerVars
<1> QED BY <1>1, <1>3, <1>4, <1>5

\* An id is answered by the worker's reply and by nothing else.
LEMMA AnsweredMoves ==
  ASSUME TypeOK, [Next]_vars
  PROVE  \A id : Answered(id)' =>
           Answered(id) \/ (cur'.id = id /\ pc' \in {"publish", "reply"})
<1> SUFFICES ASSUME NEW a \in Answers', a \notin Answers
             PROVE  cur'.id = a.id /\ pc' \in {"publish", "reply"}
  BY DEF Answered
<1>1. a = Reply' /\ pc' \in {"publish", "reply"}
  BY AnswersGrow
<1> QED BY <1>1 DEF Reply

\* claw_core_submit hands out no id twice, and an id is in one place.
LEMMA IdsStep == TypeOK /\ IdsApart /\ [Next]_vars => IdsApart'
<1> SUFFICES ASSUME TypeOK, IdsApart, [Next]_vars
             PROVE  IdsApart'
  OBVIOUS
<1>0. /\ nextId \in Nat \ {0} /\ nextId' \in Nat /\ nextId <= nextId'
      /\ ~Unsent(0) /\ ~Queued(0) /\ ~Answered(0)
      /\ \A id : Unsent(id) \/ Queued(id) \/ Answered(id) => id \in Nat
  <2>1. nextId \in Nat \ {0} /\ nextId' \in Nat /\ nextId <= nextId'
    BY UnsentMoves, SizeAssumption DEF TypeOK
  <2>2. \A id : Unsent(id) => id \in Nat \ {0}
    BY SizeAssumption DEF TypeOK, Unsent
  <2>3. \A id : Queued(id) => id \in Nat \ {0}
    <3>1. \A i \in DOMAIN requests : requests[i] \in Request
      BY ElementOfSeq, LenProperties DEF TypeOK
    <3> QED BY <3>1, SizeAssumption DEF Queued, Request, Ids
  <2>4. \A id : Answered(id) => id \in Nat \ {0}
    <3>1. Answers \subseteq Response
      <4>1. ToSet(pending) \subseteq Response /\ ToSet(responses) \subseteq Response
        BY ElementOfSeq, LenProperties DEF TypeOK, ToSet
      <4>2. pc \in {"publish", "reply"} => Reply \in Response
        BY ReplyType
      <4> QED BY <4>1, <4>2 DEF TypeOK, Answers
    <3> QED BY <3>1, SizeAssumption DEF Answered, Response, Ids
  <2> QED BY <2>1, <2>2, <2>3, <2>4
<1>1. \A id : Unsent(id)' => ~Queued(id)'
  BY <1>0, UnsentMoves, QueuedMoves DEF IdsApart
<1>2. \A id : Queued(id)' => cur'.id # id
  BY <1>0, CurMoves, QueuedMoves DEF IdsApart
<1>3. ~Unsent(cur.id)'
  BY <1>0, CurMoves, UnsentMoves DEF IdsApart
<1>4. Answered(cur.id)' => pc' \in {"publish", "reply"}
  BY <1>0, CurMoves, AnsweredMoves DEF IdsApart
<1>5. \A id : Answered(id)' => ~Unsent(id)' /\ ~Queued(id)'
  BY <1>0, <1>2, <1>3, UnsentMoves, QueuedMoves, AnsweredMoves DEF IdsApart
<1>6. cur'.id < nextId'
  <2>1. cur.id \in Nat
    BY SizeAssumption DEF TypeOK, NoRequest, Request, Ids
  <2> QED BY <1>0, <2>1, CurMoves DEF IdsApart
<1>7. \A id : Unsent(id)' \/ Queued(id)' \/ Answered(id)' => id < nextId'
  BY <1>0, <1>6, UnsentMoves, QueuedMoves, AnsweredMoves DEF IdsApart
<1> QED BY <1>1, <1>2, <1>3, <1>4, <1>5, <1>6, <1>7, UnsentMoves, QueuedMoves DEF IdsApart

\* A cancel accepted before the next chat starts keeps its hold on the request
\* until the worker has concluded it.
LEMMA EarlyStep ==
  TypeOK /\ InflightInv /\ IdsApart /\ EarlyInv /\ [Next]_vars => EarlyInv'
<1> SUFFICES ASSUME TypeOK, InflightInv, IdsApart, EarlyInv, [Next]_vars
             PROVE  EarlyInv'
  OBVIOUS
<1>1. pc' \notin {"finish", "publish", "reply"} => result' = "failed"
  BY NextCases, ClientSteps
     DEF EarlyInv, TakeRequest, BeginRequest, BuildContext, AbortSeen, Chat, AbortedChat, RunTools,
         Complete, FinishRequest, PublishOutMessage, PushResponse, Retire, CancelRequest,
         vars, workerVars
<1>2. ASSUME NEW x \in armed, x.early
      PROVE  /\ x.hit < nextId' /\ ~Unsent(x.hit)' /\ ~Queued(x.hit)'
             /\ x.hit = cur'.id =>
                  \/ pc' \in {"publish", "reply"}
                  \/ /\ pc' \in {"context", "abortedChat", "tools", "finish"}
                     /\ inflightAbort' /\ result' = "failed"
             /\ \A a \in Answers' : a.id = x.hit => a.result = "cancelled"
  <2>1. /\ x.hit \in Nat \ {0} /\ nextId \in Nat /\ nextId' \in Nat /\ nextId <= nextId'
        /\ x.hit < nextId
    BY <1>2, UnsentMoves, SizeAssumption DEF TypeOK, EarlyInv, Ids
  <2>2. ~Unsent(x.hit)' /\ ~Queued(x.hit)'
    BY <1>2, <2>1, UnsentMoves, QueuedMoves DEF EarlyInv
  <2>3. ASSUME x.hit = cur'.id
        PROVE  cur' = cur
    BY <1>2, <2>1, <2>3, CurMoves DEF EarlyInv
  <2>4. ASSUME x.hit = cur.id, cur' = cur, pc \notin {"publish", "reply"}
        PROVE  \/ pc' = "publish" /\ result' = "cancelled"
               \/ /\ pc' \in {"context", "abortedChat", "tools", "finish"}
                  /\ inflightAbort' /\ result' = "failed"
    <3>1. /\ pc \in {"context", "abortedChat", "tools", "finish"}
          /\ inflightAbort /\ result = "failed"
      BY <1>2, <2>4 DEF EarlyInv
    <3>2. CASE UNCHANGED <<pc, result, inflightAbort>>
      BY <3>1, <3>2
    <3>3. CASE BuildContext \/ AbortedChat \/ RunTools
      BY <3>1, <3>3 DEF BuildContext, AbortSeen, AbortedChat, RunTools, abortVars
    <3>4. CASE FinishRequest
      BY <3>1, <3>4 DEF FinishRequest, Conclusion
    <3>5. CASE \E id \in 0..MaxRequests : CancelRequest(id)
      BY <3>1, <3>5 DEF CancelRequest, workerVars
    <3> QED BY <3>1, <3>2, <3>3, <3>4, <3>5, NextCases, ClientSteps
            DEF TakeRequest, BeginRequest, Chat, Complete, PublishOutMessage, PushResponse, vars
  <2>5. x.hit = cur'.id =>
          \/ pc' \in {"publish", "reply"}
          \/ /\ pc' \in {"context", "abortedChat", "tools", "finish"}
             /\ inflightAbort' /\ result' = "failed"
    <3> SUFFICES ASSUME x.hit = cur'.id
                 PROVE  \/ pc' \in {"publish", "reply"}
                        \/ /\ pc' \in {"context", "abortedChat", "tools", "finish"}
                           /\ inflightAbort' /\ result' = "failed"
      OBVIOUS
    <3>1. cur' = cur /\ x.hit = cur.id
      BY <2>3
    <3>2. CASE pc \in {"publish", "reply"}
      <4>1. cur'.id # 0 /\ ~Queued(cur'.id)
        BY <1>2, <2>1 DEF EarlyInv
      <4> QED BY <3>2, <4>1, CurMoves
    <3>3. CASE pc \notin {"publish", "reply"}
      BY <2>4, <3>1, <3>3
    <3> QED BY <3>2, <3>3
  <2>6. ASSUME NEW a \in Answers', a.id = x.hit
        PROVE  a.result = "cancelled"
    <3>1. CASE a \in Answers
      BY <1>2, <2>6, <3>1 DEF EarlyInv
    <3>2. CASE a = Reply' /\ pc' \in {"publish", "reply"}
      <4>1. cur'.id = x.hit /\ a.result = result' /\ cur' = cur
        BY <2>3, <2>6, <3>2 DEF Reply
      <4>2. CASE pc \in {"publish", "reply"}
        <5>1. Reply \in Answers /\ Reply.id = x.hit /\ Reply.result = result
          BY <4>1, <4>2 DEF Answers, Reply
        <5>2. result' = result
          BY <2>1, <3>2, <4>1, <4>2, CurMoves
        <5> QED BY <1>2, <4>1, <5>1, <5>2 DEF EarlyInv
      <4>3. CASE pc \notin {"publish", "reply"}
        BY <2>4, <3>2, <4>1, <4>3
      <4> QED BY <4>2, <4>3
    <3> QED BY <3>1, <3>2, AnswersGrow
  <2> QED BY <2>1, <2>2, <2>5, <2>6
<1>3. ASSUME NEW x \in armed', x \notin armed, x.early
      PROVE  /\ x.hit < nextId' /\ ~Unsent(x.hit)' /\ ~Queued(x.hit)'
             /\ /\ pc' \in {"context", "abortedChat", "tools", "finish"}
                /\ inflightAbort' /\ result' = "failed"
             /\ \A a \in Answers' : a.id = x.hit => a.result = "cancelled"
  <2>1. PICK id \in 0..MaxRequests : CancelRequest(id)
    BY <1>3, NextCases, ClientSteps
       DEF TakeRequest, BeginRequest, BuildContext, Chat, AbortedChat, RunTools,
           Complete, FinishRequest, PublishOutMessage, PushResponse, vars, ghostVars
  <2>2. /\ UNCHANGED <<requests, responses, pending, published, delivered,
                       client, want, nextId, cur, pc, result>>
        /\ inflightAbort' = TRUE
        /\ x = [asked |-> id, hit |-> inflightId, early |-> pc \in {"context", "tools"}]
    BY <1>3, <2>1 DEF CancelRequest, queueVars, clientVars, workerVars
  <2>3. x.hit = cur.id /\ pc \in {"context", "tools"}
    BY <1>3, <2>2 DEF InflightInv, Inflight
  <2>4. Answers' = Answers /\ Unsent(cur.id)' = Unsent(cur.id) /\ Queued(cur.id)' = Queued(cur.id)
    BY <2>2 DEF Answers, Reply, Unsent, Queued
  <2>5. ~Answered(cur.id) /\ ~Unsent(cur.id) /\ ~Queued(cur.id) /\ cur.id < nextId
    BY <2>3 DEF IdsApart
  <2> QED BY <2>2, <2>3, <2>4, <2>5 DEF Answered, EarlyInv
<1> QED BY <1>1, <1>2, <1>3 DEF EarlyInv

\* EarlyCancelWins: a request whose cancel returned ESP_OK while no chat was
\* under way ends as cancelled, and every answer to it says so.
THEOREM EarlyCancelCorrect == Spec => []EarlyCancelWins
<1>1. Init => IdsApart /\ EarlyInv
  <2>1. Init => Answers = {}
    BY DEF Init, Answers, ToSet
  <2> QED BY <2>1 DEF Init, IdsApart, EarlyInv, Unsent, Queued, Answered, NoRequest
<1>2. EarlyInv => EarlyCancelWins
  BY DEF EarlyInv, EarlyCancelWins
<1> QED BY <1>1, <1>2, IdsStep, EarlyStep, InflightCorrect, TypeCorrect, PTL DEF Spec

-----------------------------------------------------------------------------
(* The core implements AgentService: each step of the core is a step of    *)
(* the service or leaves everything the service speaks of as it was.       *)

\* What the service sees of the core.
Seen(r)  == [ticket |-> r.ticket, result |-> r.result]
Ready    == {Seen(r) : r \in ToSet(pending) \cup ToSet(responses)}
Phase    == IF pc = "idle" THEN "free"
            ELSE IF pc \in {"publish", "reply"} THEN "concluded"
            ELSE "working"
Outcome  == IF pc \in {"publish", "reply"} THEN result ELSE "none"

\* A step the service does not notice.
Unseen ==
  /\ accepted' = accepted /\ TicketsOf(requests)' = TicketsOf(requests)
  /\ Phase' = Phase /\ cur'.ticket = cur.ticket /\ inflightAbort' = inflightAbort
  /\ Outcome' = Outcome /\ Ready' = Ready

LEMMA UnseenStutters ==
  ASSUME Unseen
  PROVE  UNCHANGED Service!vars
BY DEF Unseen, Service!vars, Ready, Seen, Phase, Outcome

\* The queue of tickets follows the queue of requests.
LEMMA TicketsAppend ==
  ASSUME NEW s \in Seq(Request), NEW e \in Request
  PROVE  TicketsOf(Append(s, e)) = Append(TicketsOf(s), e.ticket)
<1> DEFINE t == TicketsOf(s)
           u == TicketsOf(Append(s, e))
<1>1. /\ Len(s) \in Nat /\ DOMAIN s = 1..Len(s)
      /\ \A i \in 1..Len(s) : s[i] \in Request
      /\ Append(s, e) \in Seq(Request) /\ Len(Append(s, e)) = Len(s) + 1
      /\ \A i \in 1..Len(s) : Append(s, e)[i] = s[i]
      /\ Append(s, e)[Len(s) + 1] = e
      /\ DOMAIN Append(s, e) = 1..(Len(s) + 1)
  BY AppendProperties, LenProperties, ElementOfSeq
<1>0. e.ticket \in Nat
  BY DEF Request
<1>2. t = [i \in 1..Len(s) |-> s[i].ticket] /\ \A i \in 1..Len(s) : s[i].ticket \in Nat
  BY <1>1 DEF TicketsOf, Request
<1>3. u = [i \in 1..(Len(s) + 1) |-> Append(s, e)[i].ticket]
      /\ \A i \in 1..(Len(s) + 1) : Append(s, e)[i].ticket \in Nat
  BY <1>0, <1>1, <1>2 DEF TicketsOf
<1>4. t \in Seq(Nat) /\ Len(t) = Len(s)
  <2>1. t \in [1..Len(s) -> Nat]
    BY <1>2
  <2> QED BY <1>1, <2>1, LenProperties DEF Seq
<1>5. u \in Seq(Nat) /\ Len(u) = Len(s) + 1
  BY <1>1, <1>3, IsASeq, LenProperties
<1>6. /\ Append(t, e.ticket) \in Seq(Nat) /\ Len(Append(t, e.ticket)) = Len(s) + 1
      /\ \A i \in 1..Len(s) : Append(t, e.ticket)[i] = t[i]
      /\ Append(t, e.ticket)[Len(s) + 1] = e.ticket
  BY <1>0, <1>1, <1>4, AppendProperties
<1>7. \A i \in 1..(Len(s) + 1) : u[i] = Append(t, e.ticket)[i]
  <2> SUFFICES ASSUME NEW i \in 1..(Len(s) + 1)
               PROVE  u[i] = Append(t, e.ticket)[i]
    OBVIOUS
  <2>1. CASE i = Len(s) + 1
    BY <1>1, <1>3, <1>6, <2>1
  <2>2. CASE i \in 1..Len(s)
    BY <1>1, <1>2, <1>3, <1>6, <2>2
  <2>3. i = Len(s) + 1 \/ i \in 1..Len(s)
    BY <1>1
  <2> QED BY <2>1, <2>2, <2>3
<1> HIDE DEF t, u
<1>8. u = Append(t, e.ticket)
  BY <1>5, <1>6, <1>7, SeqEqual
<1> QED BY <1>8 DEF t, u

LEMMA TicketsTail ==
  ASSUME NEW s \in Seq(Request), s # <<>>
  PROVE  /\ TicketsOf(s) # <<>>
         /\ Head(TicketsOf(s)) = Head(s).ticket
         /\ TicketsOf(Tail(s)) = Tail(TicketsOf(s))
<1> DEFINE t == TicketsOf(s)
           u == TicketsOf(Tail(s))
<1>1. /\ Len(s) \in Nat \ {0} /\ DOMAIN s = 1..Len(s)
      /\ \A i \in 1..Len(s) : s[i] \in Request
      /\ Tail(s) \in Seq(Request) /\ DOMAIN Tail(s) = 1..(Len(s) - 1)
      /\ \A i \in 1..(Len(s) - 1) : Tail(s)[i] = s[i + 1]
      /\ Head(s) = s[1]
  BY HeadTailProperties, LenProperties, ElementOfSeq, EmptySeq
<1>2. t = [i \in 1..Len(s) |-> s[i].ticket] /\ \A i \in 1..Len(s) : s[i].ticket \in Nat
  BY <1>1 DEF TicketsOf, Request
<1>3. u = [i \in 1..(Len(s) - 1) |-> s[i + 1].ticket]
      /\ \A i \in 1..(Len(s) - 1) : s[i + 1].ticket \in Nat
  BY <1>1, <1>2 DEF TicketsOf
<1>4. t \in Seq(Nat) /\ Len(t) = Len(s) /\ t # <<>>
  BY <1>1, <1>2, IsASeq, LenProperties, EmptySeq
<1>5. u \in Seq(Nat) /\ Len(u) = Len(s) - 1
  <2>1. Len(s) - 1 \in Nat /\ u \in [1..(Len(s) - 1) -> Nat]
    BY <1>1, <1>3
  <2> QED BY <2>1, LenProperties DEF Seq
<1>6. /\ Tail(t) \in Seq(Nat) /\ Len(Tail(t)) = Len(s) - 1
      /\ \A i \in 1..(Len(s) - 1) : Tail(t)[i] = t[i + 1]
      /\ Head(t) = t[1]
  BY <1>1, <1>4, HeadTailProperties
<1>7. \A i \in 1..(Len(s) - 1) : u[i] = Tail(t)[i]
  BY <1>1, <1>2, <1>3, <1>6
<1>8. Head(t) = Head(s).ticket
  BY <1>1, <1>2, <1>6
<1> HIDE DEF t, u
<1>9. u = Tail(t)
  BY <1>5, <1>6, <1>7, SeqEqual
<1> QED BY <1>4, <1>8, <1>9 DEF t, u

\* What the response queue and the parked list hold.
LEMMA StoredType ==
  ASSUME TypeOK
  PROVE  /\ \A j \in DOMAIN pending : pending[j] \in Response /\ pending[j].ticket \in Nat
         /\ \A j \in DOMAIN responses : responses[j] \in Response /\ responses[j].ticket \in Nat
<1>1. /\ \A j \in DOMAIN pending : pending[j] \in Response
      /\ \A j \in DOMAIN responses : responses[j] \in Response
  BY ElementOfSeq, LenProperties DEF TypeOK
<1> QED BY <1>1 DEF Response

\* The client actions that take an answer take one that stands alone: in the
\* order of the pipeline no other has its ticket.
LEMMA TakeParked ==
  ASSUME TypeOK, PipelineInOrder, NEW i \in DOMAIN pending,
         pending' = RemoveAt(pending, i), UNCHANGED responses
  PROVE  Seen(pending[i]) \in Ready /\ Ready' = Ready \ {Seen(pending[i])}
<1>1. /\ pending \in Seq(Response) /\ responses \in Seq(Response)
      /\ DOMAIN pending = 1..Len(pending) /\ Len(pending) \in Nat
      /\ pending' \in Seq(Response) /\ DOMAIN pending' = 1..(Len(pending) - 1)
      /\ \A j \in 1..(Len(pending) - 1) :
           pending'[j] = IF j < i THEN pending[j] ELSE pending[j + 1]
  <2>1. pending \in Seq(Response) /\ responses \in Seq(Response)
    BY DEF TypeOK
  <2>2. DOMAIN pending = 1..Len(pending) /\ Len(pending) \in Nat
    BY <2>1, LenProperties
  <2>3. /\ RemoveAt(pending, i) \in Seq(Response)
        /\ Len(RemoveAt(pending, i)) = Len(pending) - 1
        /\ \A j \in 1..(Len(pending) - 1) :
             RemoveAt(pending, i)[j] = IF j < i THEN pending[j] ELSE pending[j + 1]
    BY <2>1, <2>2, RemoveAtSeq
  <2>4. DOMAIN RemoveAt(pending, i) = 1..(Len(pending) - 1)
    BY <2>3, LenProperties
  <2> QED BY <2>1, <2>2, <2>3, <2>4
<1>2. \A j \in DOMAIN pending : pending[j].ticket \in Nat
  BY StoredType
<1>3. \A j \in DOMAIN responses : responses[j].ticket \in Nat
  BY StoredType
<1>4. ASSUME NEW r \in ToSet(pending')
      PROVE  r.ticket # pending[i].ticket
  <2>1. PICK j \in 1..(Len(pending) - 1) : r = pending'[j]
    BY <1>1 DEF ToSet
  <2>2. CASE j < i
    <3>1. r = pending[j] /\ j \in DOMAIN pending
      BY <1>1, <2>1, <2>2
    <3> QED BY <1>2, <2>2, <3>1 DEF PipelineInOrder, InOrder
  <2>3. CASE ~(j < i)
    <3>1. r = pending[j + 1] /\ j + 1 \in DOMAIN pending /\ i < j + 1
      BY <1>1, <2>1, <2>3
    <3> QED BY <1>2, <3>1 DEF PipelineInOrder, InOrder
  <2> QED BY <2>2, <2>3
<1>5. ASSUME NEW r \in ToSet(responses)
      PROVE  r.ticket # pending[i].ticket
  BY <1>2, <1>3 DEF PipelineInOrder, Precedes, ToSet
<1>6. ToSet(pending) = {pending[i]} \cup ToSet(pending')
  BY <1>1, ToSetRemoveAt
<1> QED BY <1>4, <1>5, <1>6 DEF Ready, Seen

LEMMA TakeResponse ==
  ASSUME TypeOK, PipelineInOrder, responses # <<>>,
         responses' = Tail(responses), UNCHANGED pending
  PROVE  Seen(Head(responses)) \in Ready /\ Ready' = Ready \ {Seen(Head(responses))}
<1>1. /\ pending \in Seq(Response) /\ responses \in Seq(Response)
      /\ DOMAIN responses = 1..Len(responses) /\ Len(responses) \in Nat \ {0}
      /\ DOMAIN responses' = 1..(Len(responses) - 1)
      /\ \A j \in 1..(Len(responses) - 1) : responses'[j] = responses[j + 1]
      /\ Head(responses) = responses[1]
  BY HeadTailProperties, LenProperties, EmptySeq DEF TypeOK
<1>2. \A j \in DOMAIN pending : pending[j].ticket \in Nat
  BY StoredType
<1>3. \A j \in DOMAIN responses : responses[j].ticket \in Nat
  BY StoredType
<1>4. ASSUME NEW r \in ToSet(responses')
      PROVE  r.ticket # Head(responses).ticket
  <2>1. PICK j \in 1..(Len(responses) - 1) : r = responses[j + 1]
    BY <1>1 DEF ToSet
  <2>2. 1 \in DOMAIN responses /\ j + 1 \in DOMAIN responses /\ 1 < j + 1
    BY <1>1
  <2> QED BY <1>1, <1>3, <2>1, <2>2 DEF PipelineInOrder, InOrder
<1>5. ASSUME NEW r \in ToSet(pending)
      PROVE  r.ticket # Head(responses).ticket
  <2>1. 1 \in DOMAIN responses
    BY <1>1
  <2> QED BY <1>1, <1>2, <1>3, <2>1 DEF PipelineInOrder, Precedes, ToSet
<1>6. ToSet(responses) = {Head(responses)} \cup ToSet(responses')
  BY <1>1, ToSetTail
<1> QED BY <1>4, <1>5, <1>6 DEF Ready, Seen

\* What the worker does is beginning, concluding and releasing.
LEMMA WorkerServes ==
  ASSUME TypeOK, InflightInv, CancelInv,
         \/ TakeRequest \/ BeginRequest \/ BuildContext \/ Chat \/ AbortedChat
         \/ RunTools \/ Complete \/ FinishRequest \/ PublishOutMessage \/ PushResponse
  PROVE  Service!Next \/ UNCHANGED Service!vars
<1>1. CASE TakeRequest
  <2>1. /\ pc = "idle" /\ pc' = "begin" /\ requests # <<>> /\ requests \in Seq(Request)
        /\ cur' = Head(requests) /\ requests' = Tail(requests)
        /\ UNCHANGED <<responses, pending, inflightAbort, accepted>>
    BY <1>1 DEF TakeRequest, TypeOK, abortVars, ghostVars
  <2>2. /\ TicketsOf(requests) # <<>> /\ Head(TicketsOf(requests)) = cur'.ticket
        /\ TicketsOf(requests)' = Tail(TicketsOf(requests))
    BY <2>1, TicketsTail
  <2>3. Phase = "free" /\ Phase' = "working" /\ Outcome' = Outcome /\ Ready' = Ready
    BY <2>1 DEF Phase, Outcome, Ready
  <2> QED BY <2>1, <2>2, <2>3 DEF Service!Next, Service!Begin, Phase, Outcome, Ready, Seen
<1>2. CASE BeginRequest
  <2>1. /\ UNCHANGED <<requests, responses, pending, accepted, cur>>
        /\ pc = "begin" /\ pc' \in {"context", "finish"} /\ inflightAbort' = FALSE
        /\ inflightAbort = FALSE
    <3>1. /\ UNCHANGED <<requests, responses, pending, accepted, cur>>
          /\ pc = "begin" /\ pc' \in {"context", "finish"} /\ inflightAbort' = FALSE
      BY <1>2 DEF BeginRequest, queueVars, ghostVars
    <3>2. inflightAbort \in BOOLEAN /\ ~inflightAbort
      BY <3>1 DEF TypeOK, InflightInv, Inflight
    <3> QED BY <3>1, <3>2
  <2> QED BY <2>1, UnseenStutters DEF Unseen, Phase, Outcome, Ready
<1>3. CASE BuildContext \/ Chat \/ AbortedChat \/ RunTools \/ Complete
  <2>1. /\ UNCHANGED <<requests, responses, pending, accepted, cur, inflightAbort>>
        /\ pc \notin {"idle", "publish", "reply"} /\ pc' \notin {"idle", "publish", "reply"}
    BY <1>3 DEF BuildContext, Chat, AbortedChat, RunTools, Complete,
                queueVars, abortVars, ghostVars
  <2> QED BY <2>1, UnseenStutters DEF Unseen, Phase, Outcome, Ready
<1>4. CASE FinishRequest
  <2>1. /\ UNCHANGED <<requests, responses, pending, accepted, cur>>
        /\ pc = "finish" /\ pc' = "publish" /\ inflightAbort' = FALSE
        /\ result' \in Results
        /\ result' = "cancelled" => inflightAbort
    <3>1. pc = "finish" /\ result' = Conclusion /\ result \in Results /\ result # "cancelled"
      BY <1>4 DEF FinishRequest, TypeOK, CancelInv
    <3> QED BY <1>4, <3>1 DEF FinishRequest, Disarm, Conclusion, Results, queueVars, ghostVars
  <2>2. Phase = "working" /\ Phase' = "concluded" /\ Outcome' = result' /\ Ready' = Ready
    BY <2>1 DEF Phase, Outcome, Ready
  <2> QED BY <2>1, <2>2 DEF Service!Next, Service!Conclude, Phase, Outcome, Ready, Seen
<1>5. ASSUME pc \in {"publish", "reply"}, Retire,
             UNCHANGED <<requests, accepted, inflightAbort>>,
             Ready' \in {Ready \cup {Seen(Reply)}, Ready}
      PROVE  Service!Release
  <2>1. /\ Phase = "concluded" /\ Phase' = "free" /\ cur'.ticket = 0 /\ Outcome' = "none"
        /\ Seen(Reply) = [ticket |-> cur.ticket, result |-> Outcome]
    BY <1>5 DEF Retire, Phase, Outcome, NoRequest, Seen, Reply
  <2> QED BY <1>5, <2>1 DEF Service!Release, Phase, Outcome, Ready, Seen
<1>6. CASE PublishOutMessage
  <2>1. UNCHANGED <<requests, responses, pending, accepted, inflightAbort>> /\ pc = "publish"
    BY <1>6 DEF PublishOutMessage, queueVars, abortVars
  <2>2. Ready' = Ready
    BY <2>1 DEF Ready
  <2>3. CASE cur.detached
    BY <1>5, <1>6, <2>1, <2>2, <2>3 DEF PublishOutMessage, Service!Next
  <2>4. CASE ~cur.detached
    <3>1. pc' = "reply" /\ UNCHANGED <<cur, result>>
      BY <1>6, <2>4 DEF PublishOutMessage
    <3> QED BY <2>1, <2>2, <3>1, UnseenStutters DEF Unseen, Phase, Outcome
  <2> QED BY <2>3, <2>4
<1>7. CASE PushResponse
  <2>1. /\ UNCHANGED <<requests, pending, accepted, inflightAbort>> /\ pc = "reply" /\ Retire
        /\ responses' = Append(responses, Reply) /\ responses \in Seq(Response)
    BY <1>7 DEF PushResponse, TypeOK, abortVars, ghostVars
  <2>2. ToSet(responses') = ToSet(responses) \cup {Reply}
    BY <2>1, ReplyType, ToSetAppend
  <2>3. Ready' = Ready \cup {Seen(Reply)}
    BY <2>1, <2>2 DEF Ready, Seen
  <2> QED BY <1>5, <2>1, <2>3 DEF Service!Next
<1> QED BY <1>1, <1>2, <1>3, <1>4, <1>6, <1>7

\* What a caller does is handing a request in and collecting an answer.
LEMMA ClientServes ==
  ASSUME TypeOK, PipelineInOrder, NEW c \in Clients,
         \/ Submit(c) \/ Enqueue(c) \/ SubmitTimeout(c) \/ Receive(c)
         \/ ReceivePending(c) \/ ReceiveLock(c) \/ ReceiveMatch(c)
         \/ ReceiveOther(c) \/ ReceiveTimeout(c)
  PROVE  Service!Next \/ UNCHANGED Service!vars
<1>0. UNCHANGED <<pc, cur, result, inflightAbort>>
  BY ClientSteps
<1>1. Phase' = Phase /\ Outcome' = Outcome
  BY <1>0 DEF Phase, Outcome
<1>2. ASSUME UNCHANGED <<requests, accepted>>, Ready' = Ready
      PROVE  UNCHANGED Service!vars
  BY <1>0, <1>1, <1>2, UnseenStutters DEF Unseen
<1>3. ASSUME UNCHANGED <<requests, accepted>>, NEW a \in Ready, Ready' = Ready \ {a}
      PROVE  Service!Collect
  BY <1>0, <1>1, <1>3 DEF Service!Collect, Phase, Outcome, Ready, Seen
<1>4. CASE Submit(c) \/ SubmitTimeout(c) \/ Receive(c) \/ ReceiveLock(c) \/ ReceiveTimeout(c)
  <2>1. UNCHANGED <<requests, responses, pending, accepted>>
    BY <1>4 DEF Submit, SubmitTimeout, Receive, ReceiveLock, ReceiveTimeout, queueVars, ghostVars
  <2> QED BY <1>2, <2>1 DEF Ready
<1>5. CASE Enqueue(c)
  <2> DEFINE new == [id |-> want[c], ticket |-> accepted, detached |-> c \in Routers]
  <2>1. /\ new \in Request /\ new.ticket = accepted
        /\ requests' = Append(requests, new) /\ accepted' = accepted + 1
        /\ requests \in Seq(Request) /\ UNCHANGED <<responses, pending>>
    BY <1>5, SizeAssumption DEF TypeOK, Enqueue, Request, Ids
  <2> HIDE DEF new
  <2>2. TicketsOf(requests)' = Append(TicketsOf(requests), accepted)
    BY <2>1, TicketsAppend
  <2>3. Ready' = Ready
    BY <2>1 DEF Ready
  <2> QED BY <1>0, <1>1, <2>1, <2>2, <2>3
          DEF Service!Next, Service!Accept, Phase, Outcome, Ready, Seen
<1>6. CASE ReceivePending(c)
  <2>1. PICK i \in DOMAIN pending : pending' = RemoveAt(pending, i)
    BY <1>6 DEF ReceivePending, Unpark
  <2>2. UNCHANGED <<requests, responses, accepted>>
    BY <1>6 DEF ReceivePending
  <2> QED BY <1>3, <2>1, <2>2, TakeParked DEF Service!Next
<1>7. CASE ReceiveMatch(c)
  <2>1. /\ responses # <<>> /\ responses' = Tail(responses)
        /\ UNCHANGED <<requests, pending, accepted>>
    BY <1>7 DEF ReceiveMatch
  <2> QED BY <1>3, <2>1, TakeResponse DEF Service!Next
<1>8. CASE ReceiveOther(c)
  <2>1. /\ responses # <<>> /\ responses' = Tail(responses)
        /\ UNCHANGED <<requests, accepted>>
    BY <1>8 DEF ReceiveOther, ghostVars
  <2>2. CASE pending' = pending
    BY <1>3, <2>1, <2>2, TakeResponse DEF Service!Next
  <2>3. CASE pending' = Append(pending, Head(responses))
    <3>1. ToSet(responses) = {Head(responses)} \cup ToSet(responses')
      BY <2>1, ToSetTail DEF TypeOK
    <3>2. Head(responses) \in Response
      BY <2>1, HeadTailProperties DEF TypeOK
    <3>3. ToSet(pending') = ToSet(pending) \cup {Head(responses)}
      BY <2>3, <3>2, ToSetAppend DEF TypeOK
    <3>4. Ready' = Ready
      BY <3>1, <3>3 DEF Ready
    <3> QED BY <1>2, <2>1, <3>4
  <2> QED BY <1>8, <2>2, <2>3 DEF ReceiveOther, Park
<1> QED BY <1>4, <1>5, <1>6, <1>7, <1>8

\* ImplementsService: whatever its queues, locks and lists do, the core serves
\* requests first come, first served, answers each at most once, and cancels
\* none but the one it is serving.
THEOREM ServiceImplemented == Spec => ImplementsService
<1>1. Init => Service!Init
  <2> SUFFICES ASSUME Init PROVE Service!Init
    OBVIOUS
  <2>1. /\ requests = <<>> /\ responses = <<>> /\ pending = <<>> /\ pc = "idle"
        /\ cur.ticket = 0 /\ inflightAbort = FALSE /\ accepted = 0
    BY DEF Init, NoRequest
  <2>2. TicketsOf(requests) = <<>>
    BY <2>1 DEF TicketsOf
  <2>3. {[ticket |-> r.ticket, result |-> r.result] :
           r \in ToSet(pending) \cup ToSet(responses)} = {}
    BY <2>1 DEF ToSet
  <2> QED BY <2>1, <2>2, <2>3 DEF Service!Init
<1>2. TypeOK /\ InflightInv /\ CancelInv /\ PipelineInOrder /\ [Next]_vars
        => [Service!Next]_(Service!vars)
  <2> SUFFICES ASSUME TypeOK, InflightInv, CancelInv, PipelineInOrder, [Next]_vars
               PROVE  Service!Next \/ UNCHANGED Service!vars
    OBVIOUS
  <2>1. ASSUME NEW id \in 0..MaxRequests, CancelRequest(id)
        PROVE  Service!Cancel
    <3>1. /\ UNCHANGED <<requests, responses, pending, accepted, cur, pc, result>>
          /\ inflightAbort' = TRUE /\ inflightId # 0
      BY <2>1 DEF CancelRequest, queueVars, workerVars
    <3>2. pc \in Inflight
      BY <3>1 DEF InflightInv
    <3>3. Phase = "working" /\ Phase' = Phase /\ Outcome' = Outcome /\ Ready' = Ready
      BY <3>1, <3>2 DEF Phase, Outcome, Ready, Inflight
    <3> QED BY <3>1, <3>3 DEF Service!Cancel, Phase, Outcome, Ready, Seen
  <2>2. CASE UNCHANGED vars
    BY <2>2, UnseenStutters DEF Unseen, Phase, Outcome, Ready, vars
  <2> QED BY <2>1, <2>2, NextCases, WorkerServes, ClientServes DEF Service!Next
<1>3. Init => CancelInv
  BY DEF Init, CancelInv, InflightInv, Inflight, CancelledOnlyIfAsked, Answers, ToSet
<1> QED BY <1>1, <1>2, <1>3, CancelStep, TypeCorrect, InflightCorrect, OrderCorrect, PTL
        DEF Spec, ImplementsService, Service!Spec
=============================================================================
