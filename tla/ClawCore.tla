------------------------------ MODULE ClawCore ------------------------------
(***************************************************************************)
(* The agent core of components/claw_modules/claw_core: one worker task    *)
(* takes requests from a bounded FreeRTOS queue, runs the LLM/tool loop,   *)
(* and hands each response to a bounded response queue from which client   *)
(* tasks collect by request id.  A response that is not the one a receiver *)
(* waits for is parked in an unbounded pending list guarded by             *)
(* response_lock.  Any task may cancel the request in flight.              *)
(*                                                                         *)
(* A block of C that runs under inflight_lock, or that only touches the    *)
(* pending list while response_lock is held, is one step here.             *)
(***************************************************************************)
EXTENDS Naturals, Sequences, FiniteSets, SequencesExt

CONSTANTS
  Consoles,          \* tasks that submit a request and wait for its response
  Routers,           \* tasks that submit with SKIP_RESPONSE_QUEUE and PUBLISH_OUT_MESSAGE
  Listeners,         \* tasks that call claw_core_receive: any response will do
  RequestQueueLen,   \* request_queue_len
  ResponseQueueLen,  \* response_queue_len
  MaxToolIterations, \* max_tool_iterations
  MaxRequests,       \* bound of the model: the number of ids handed out
  MaxCancels,        \* bound of the model: the number of cancels remembered
  NoClient           \* response_lock is free

Clients == Consoles \cup Routers \cup Listeners

ASSUME ClientAssumption ==
  /\ Consoles \cap Routers = {}
  /\ (Consoles \cup Routers) \cap Listeners = {}
  /\ NoClient \notin Clients

ASSUME SizeAssumption ==
  /\ RequestQueueLen \in Nat \ {0}
  /\ ResponseQueueLen \in Nat \ {0}
  /\ MaxToolIterations \in Nat \ {0}
  /\ MaxRequests \in Nat
  /\ MaxCancels \in Nat

VARIABLES
  requests,      \* request_queue
  responses,     \* response_queue
  pending,       \* the pending_head list
  holder,        \* owner of response_lock
  inflightId,    \* inflight_request_id, 0 when none
  inflightAbort, \* inflight_abort
  pc,            \* where claw_core_task is
  cur,           \* the request the worker has dequeued
  iteration,     \* tool rounds done for cur
  result,        \* how cur ends
  client,        \* where each client is
  want,          \* the id each client submitted or waits for (0: any)
  nextId,        \* the next request id
  accepted,      \* history: number of requests ever queued
  armed,         \* history: cancels that returned ESP_OK
  published,     \* history: out_message events handed to the event router
  delivered      \* history: responses handed to a client

queueVars  == <<requests, responses, pending, holder>>
abortVars  == <<inflightId, inflightAbort>>
workerVars == <<pc, cur, iteration, result>>
clientVars == <<client, want, nextId>>
ghostVars  == <<accepted, armed, published, delivered>>
vars == <<requests, responses, pending, holder, inflightId, inflightAbort,
          pc, cur, iteration, result, client, want, nextId,
          accepted, armed, published, delivered>>

Ids == 1..MaxRequests

\* ticket is the position in which the queue accepted the request.
Request  == [id : Ids, ticket : Nat, detached : BOOLEAN]

\* "ok" a text, "failed" an error, "unallocated" an error reported while err
\* is still ESP_OK, "cancelled" the error text replaced on cancellation.
Results  == {"ok", "failed", "unallocated", "cancelled"}
Response == [id : Ids, ticket : Nat, result : Results]

NoRequest == [id |-> 0, ticket |-> 0, detached |-> FALSE]

\* The worker's stages between arming and disarming the abort flag.
Inflight == {"context", "chat", "abortedChat", "tools", "complete", "finish"}
Stages   == {"idle", "begin", "publish", "reply"} \cup Inflight

Reply == [id |-> cur.id, ticket |-> cur.ticket, result |-> result]

Matches(c, r) == want[c] = 0 \/ r.id = want[c]

\* pop_pending_response finds a response for c; the variant looks at the
\* oldest one only.
ParkedFirst(c) == pending # <<>> /\ Matches(c, pending[1])
Parked(c)      == \E i \in DOMAIN pending : Matches(c, pending[i])

\* enqueue_pending_response appends; the variant inserts at the front.
ParkInFront(r) == <<r>> \o pending
Park(r)        == Append(pending, r)

\* The i-th parked response is unlinked.
Unpark(i) == RemoveAt(pending, i)

\* Every return from the wait gives response_lock back; the variant keeps it.
KeepLock == UNCHANGED holder
GiveLock == holder' = NoClient

\* The call of c returns.
Return(c) ==
  /\ client' = [client EXCEPT ![c] = "idle"]
  /\ want' = [want EXCEPT ![c] = 0]

Init ==
  /\ requests = <<>> /\ responses = <<>> /\ pending = <<>>
  /\ holder = NoClient
  /\ inflightId = 0 /\ inflightAbort = FALSE
  /\ pc = "idle" /\ cur = NoRequest /\ iteration = 0 /\ result = "failed"
  /\ client = [c \in Clients |-> "idle"]
  /\ want = [c \in Clients |-> 0]
  /\ nextId = 1
  /\ accepted = 0 /\ armed = {} /\ published = {}
  /\ delivered = {}

-----------------------------------------------------------------------------
(* claw_core_submit: the caller has taken its id before it blocks in       *)
(* xQueueSend, and loses it when the queue stays full until the timeout.   *)

Submit(c) ==
  /\ client[c] = "idle"
  /\ nextId <= MaxRequests
  /\ client' = [client EXCEPT ![c] = "sending"]
  /\ want' = [want EXCEPT ![c] = nextId]
  /\ nextId' = nextId + 1
  /\ UNCHANGED <<queueVars, abortVars, workerVars, ghostVars>>

Enqueue(c) ==
  /\ client[c] = "sending"
  /\ Len(requests) < RequestQueueLen
  /\ requests' = Append(requests, [id |-> want[c], ticket |-> accepted,
                                   detached |-> c \in Routers])
  /\ accepted' = accepted + 1
  /\ IF c \in Routers
       THEN Return(c)
       ELSE client' = [client EXCEPT ![c] = "locking"] /\ UNCHANGED want
  /\ UNCHANGED <<responses, pending, holder, abortVars, workerVars, nextId,
                 armed, published, delivered>>

SubmitTimeout(c) ==
  /\ client[c] = "sending"
  /\ Len(requests) = RequestQueueLen
  /\ Return(c)
  /\ UNCHANGED <<queueVars, abortVars, workerVars, nextId, ghostVars>>

-----------------------------------------------------------------------------
(* claw_core_receive and claw_core_receive_for.                            *)

Receive(c) ==
  /\ client[c] = "idle"
  /\ client' = [client EXCEPT ![c] = "locking"]
  /\ want' = [want EXCEPT ![c] = 0]
  /\ UNCHANGED <<queueVars, abortVars, workerVars, nextId, ghostVars>>

Deliver(c, r) ==
  /\ delivered' = delivered \cup {[to |-> c, wanted |-> want[c], response |-> r]}
  /\ Return(c)

\* The oldest parked response that matches is taken and the lock given back.
ReceivePending(c) ==
  /\ client[c] = "locking"
  /\ holder = NoClient
  /\ \E i \in DOMAIN pending :
       /\ Matches(c, pending[i])
       /\ \A j \in 1..(i - 1) : ~Matches(c, pending[j])
       /\ pending' = Unpark(i)
       /\ Deliver(c, pending[i])
  /\ UNCHANGED <<requests, responses, holder, abortVars, workerVars, nextId,
                 accepted, armed, published>>

\* Nothing parked for it: the receiver keeps response_lock while it waits.
ReceiveLock(c) ==
  /\ client[c] = "locking"
  /\ holder = NoClient
  /\ ~Parked(c)
  /\ holder' = c
  /\ client' = [client EXCEPT ![c] = "waiting"]
  /\ UNCHANGED <<requests, responses, pending, abortVars, workerVars, want, nextId,
                 ghostVars>>

ReceiveMatch(c) ==
  /\ client[c] = "waiting"
  /\ responses # <<>>
  /\ Matches(c, Head(responses))
  /\ responses' = Tail(responses)
  /\ GiveLock
  /\ Deliver(c, Head(responses))
  /\ UNCHANGED <<requests, pending, abortVars, workerVars, nextId,
                 accepted, armed, published>>

\* Somebody else's response: parked, or dropped when calloc fails.
ReceiveOther(c) ==
  /\ client[c] = "waiting"
  /\ responses # <<>>
  /\ ~Matches(c, Head(responses))
  /\ responses' = Tail(responses)
  /\ pending' \in {Park(Head(responses)), pending}
  /\ UNCHANGED <<requests, holder, abortVars, workerVars, clientVars, ghostVars>>

\* The elapsed-time test is made before every wait, so it may fire whatever
\* the queue holds.
ReceiveTimeout(c) ==
  /\ client[c] = "waiting"
  /\ GiveLock
  /\ Return(c)
  /\ UNCHANGED <<requests, responses, pending, abortVars, workerVars, nextId,
                 ghostVars>>

-----------------------------------------------------------------------------
(* claw_core_cancel_request: request_id 0 stands for whatever is running.  *)

\* The variant hits whatever is in flight.
HitsAny(id) == id \in 0..MaxRequests
Hits(id)    == id = 0 \/ id = inflightId

\* early: no chat is under way that might end before it sees the flag.
CancelRequest(id) ==
  /\ Cardinality(armed) < MaxCancels
  /\ inflightId # 0
  /\ Hits(id)
  /\ inflightAbort' = TRUE
  /\ armed' = armed \cup {[asked |-> id, hit |-> inflightId,
                          early |-> pc \in {"context", "tools"}]}
  /\ UNCHANGED <<queueVars, inflightId, workerVars, clientVars,
                 accepted, published, delivered>>

-----------------------------------------------------------------------------
(* claw_core_task.                                                         *)

TakeRequest ==
  /\ pc = "idle"
  /\ requests # <<>>
  /\ cur' = Head(requests)
  /\ requests' = Tail(requests)
  /\ pc' = "begin"
  /\ UNCHANGED <<responses, pending, holder, abortVars, iteration, result,
                 clientVars, ghostVars>>

\* The abort flag is cleared for the new request.  When the response target
\* or the message array cannot be allocated the request ends at once, mostly
\* with err still ESP_OK.
BeginRequest ==
  /\ pc = "begin"
  /\ inflightId' = cur.id
  /\ inflightAbort' = FALSE
  /\ \/ pc' = "context" /\ UNCHANGED result
     \/ pc' = "finish" /\ result' \in {"unallocated", "failed"}
  /\ UNCHANGED <<queueVars, cur, iteration, clientVars, ghostVars>>

\* http_event_handler fails every event of a chat that starts with the abort
\* flag set; the variant never looks.
AbortUnseen == FALSE
AbortSeen   == inflightAbort

\* build_iteration_context, up to the start of the next chat.
BuildContext ==
  /\ pc = "context"
  /\ pc' \in {IF AbortSeen THEN "abortedChat" ELSE "chat", "finish"}
  /\ UNCHANGED <<queueVars, abortVars, cur, iteration, result, clientVars, ghostVars>>

\* claw_core_llm_chat_messages returns tool calls, a text, or an error.
Chat ==
  /\ pc = "chat"
  /\ pc' \in {"tools", "complete", "finish"}
  /\ UNCHANGED <<queueVars, abortVars, cur, iteration, result, clientVars, ghostVars>>

AbortedChat ==
  /\ pc = "abortedChat"
  /\ pc' = "finish"
  /\ UNCHANGED <<queueVars, abortVars, cur, iteration, result, clientVars, ghostVars>>

\* The iteration was the last one allowed.
LastRound(n) == n >= MaxToolIterations

\* The assistant message and the tool results are appended; out of memory
\* ends the request, and so does the last iteration allowed.
RunTools ==
  /\ pc = "tools"
  /\ \/ pc' = "finish" /\ UNCHANGED iteration
     \/ /\ iteration' = iteration + 1
        /\ pc' = IF LastRound(iteration + 1) THEN "finish" ELSE "context"
  /\ UNCHANGED <<queueVars, abortVars, cur, result, clientVars, ghostVars>>

\* A copied text is appended to the session and shown to the observers; a
\* text that cannot be copied is an error with err = ESP_OK.
Complete ==
  /\ pc = "complete"
  /\ result' \in {"ok", "unallocated"}
  /\ pc' = "finish"
  /\ UNCHANGED <<queueVars, abortVars, cur, iteration, clientVars, ghostVars>>

\* Only a request that was cancelled and failed is reported cancelled; the
\* variant blames every failure on a cancel.
ConclusionBlind == IF result = "failed" THEN "cancelled" ELSE result
Conclusion == IF inflightAbort /\ result = "failed" THEN "cancelled" ELSE result

\* The abort flag goes down with the request.
Disarm == inflightId' = 0 /\ inflightAbort' = FALSE

FinishRequest ==
  /\ pc = "finish"
  /\ Disarm
  /\ result' = Conclusion
  /\ pc' = "publish"
  /\ UNCHANGED <<queueVars, cur, iteration, clientVars, ghostVars>>

\* The variables of one turn of the worker's loop end with it.
Retire ==
  /\ pc' = "idle" /\ cur' = NoRequest /\ iteration' = 0 /\ result' = "failed"

\* publish_out_message_if_requested: the event router may refuse the event.
\* A detached response is then freed, never queued.
PublishOutMessage ==
  /\ pc = "publish"
  /\ IF cur.detached
       THEN /\ published' \in {published \cup {Reply}, published}
            /\ Retire
       ELSE pc' = "reply" /\ UNCHANGED <<published, cur, iteration, result>>
  /\ UNCHANGED <<queueVars, abortVars, clientVars, accepted, armed, delivered>>

\* The variant wastes the last place.
RoomBelowLast == Len(responses) + 1 < ResponseQueueLen
Room          == Len(responses) < ResponseQueueLen

\* push_response waits for room for ever (portMAX_DELAY).
PushResponse ==
  /\ pc = "reply"
  /\ Room
  /\ responses' = Append(responses, Reply)
  /\ Retire
  /\ UNCHANGED <<requests, pending, holder, abortVars, clientVars, ghostVars>>

-----------------------------------------------------------------------------
Worker ==
  \/ TakeRequest \/ BeginRequest \/ BuildContext \/ Chat \/ AbortedChat
  \/ RunTools \/ Complete \/ FinishRequest \/ PublishOutMessage \/ PushResponse

\* What a client does once it has begun a call.
Sending(c)   == Enqueue(c) \/ SubmitTimeout(c)
Receiving(c) == \/ ReceivePending(c) \/ ReceiveLock(c)
                \/ ReceiveMatch(c) \/ ReceiveOther(c) \/ ReceiveTimeout(c)

Next ==
  \/ Worker
  \/ \E c \in Consoles \cup Routers : Submit(c)
  \/ \E c \in Consoles \cup Routers : Sending(c)
  \/ \E c \in Listeners : Receive(c)
  \/ \E c \in Consoles \cup Listeners : Receiving(c)
  \/ \E id \in 0..MaxRequests : CancelRequest(id)

Spec == Init /\ [][Next]_vars

(* The worker and each caller are tasks the scheduler keeps running; a     *)
(* chat and a tool call return because the transport and the capabilities  *)
(* bound them.  A receiver blocked on response_lock gets it when it is     *)
(* free again and again.  Nobody has to submit, to receive or to cancel.   *)
FairSpec ==
  /\ Spec
  /\ WF_vars(Worker)
  /\ \A c \in Consoles \cup Routers : WF_vars(Sending(c))
  /\ \A c \in Consoles \cup Listeners :
       SF_vars(ReceivePending(c) \/ ReceiveLock(c)) /\ WF_vars(Receiving(c))

-----------------------------------------------------------------------------
(* Properties.                                                             *)

TypeOK ==
  /\ requests \in Seq(Request) /\ Len(requests) <= RequestQueueLen
  /\ responses \in Seq(Response) /\ Len(responses) <= ResponseQueueLen
  /\ pending \in Seq(Response)
  /\ holder \in Clients \cup {NoClient}
  /\ inflightId \in 0..MaxRequests /\ inflightAbort \in BOOLEAN
  /\ pc \in Stages /\ result \in Results
  /\ IF pc = "idle" THEN cur = NoRequest ELSE cur \in Request
  /\ iteration \in 0..MaxToolIterations
  /\ pc \in {"idle", "begin", "context", "chat", "tools"} => iteration < MaxToolIterations
  /\ client \in [Clients -> {"idle", "sending", "locking", "waiting"}]
  /\ want \in [Clients -> 0..MaxRequests]
  /\ \A c \in Clients : client[c] = "sending" => want[c] # 0
  /\ nextId \in 1..(MaxRequests + 1)
  /\ accepted \in Nat
  /\ armed \subseteq [asked : 0..MaxRequests, hit : Ids, early : BOOLEAN]
  /\ published \subseteq Response
  /\ delivered \subseteq [to : Clients, wanted : 0..MaxRequests, response : Response]

\* Cancellation sees exactly the request the worker is busy with: the id it
\* compares with is the dequeued request's id from BeginRequest until
\* FinishRequest and 0 otherwise, and no abort outlives its request.
InflightInv ==
  /\ inflightId = IF pc \in Inflight THEN cur.id ELSE 0
  /\ inflightAbort => pc \in Inflight

\* response_lock is held by exactly the receiver that waits on the queue.
LockInv == \A c \in Clients : client[c] = "waiting" <=> holder = c

\* No receiver waits on the queue for a response that is parked already,
\* whoever parked it.
NoMissedPending ==
  \A c \in Clients : client[c] = "waiting" =>
    \A i \in DOMAIN pending : ~Matches(c, pending[i])

\* The stations a request passes through, each oldest first.
Working == IF pc = "idle" THEN <<>> ELSE <<cur>>

InOrder(s)     == \A i, j \in DOMAIN s : i < j => s[i].ticket < s[j].ticket
Precedes(s, t) == \A i \in DOMAIN s, j \in DOMAIN t : s[i].ticket < t[j].ticket
Issued(s)      == \A i \in DOMAIN s : s[i].ticket < accepted

\* Requests are served and their responses queued and parked in the order the
\* request queue accepted them; no request and no response is in two places.
PipelineInOrder ==
  /\ InOrder(pending) /\ InOrder(responses) /\ InOrder(requests)
  /\ Precedes(pending, responses) /\ Precedes(pending, Working)
  /\ Precedes(pending, requests) /\ Precedes(responses, Working)
  /\ Precedes(responses, requests) /\ Precedes(Working, requests)
  /\ Issued(pending) /\ Issued(responses) /\ Issued(Working) /\ Issued(requests)

Answers == ToSet(pending) \cup ToSet(responses) \cup published
             \cup {d.response : d \in delivered}
             \cup (IF pc \in {"publish", "reply"} THEN {Reply} ELSE {})

\* A request is reported cancelled only if somebody asked for it, by its id
\* or with 0, while it was in flight: no cancel leaks into the next request.
CancelledOnlyIfAsked ==
  \A a \in Answers : a.result = "cancelled" =>
    \E x \in armed : x.hit = a.id /\ x.asked \in {0, a.id}

\* A cancel that returns ESP_OK between two chats is never overtaken by a
\* normal answer: the request is reported cancelled.
EarlyCancelWins ==
  \A x \in armed : x.early =>
    \A a \in Answers : a.id = x.hit => a.result = "cancelled"

\* The worker cannot hand its response over.
Blocked == pc = "reply" /\ Len(responses) = ResponseQueueLen

\* As long as somebody keeps making room in the response queue, the worker
\* comes to every request the queue has accepted, detached or not.
QueuedServed ==
  []<>(~Blocked) =>
    \A id \in Ids : (\E i \in DOMAIN requests : requests[i].id = id) ~> (cur.id = id)

\* Every submit and every receive returns, although each receiver waits for
\* the others on response_lock.
CallsReturn == \A c \in Clients : client[c] # "idle" ~> client[c] = "idle"

TicketsOf(s) == [i \in DOMAIN s |-> s[i].ticket]

Service == INSTANCE AgentService WITH
  Outcomes   <- Results,
  queue      <- TicketsOf(requests),
  phase      <- IF pc = "idle" THEN "free"
                ELSE IF pc \in {"publish", "reply"} THEN "concluded"
                ELSE "working",
  serving    <- cur.ticket,
  cancelling <- inflightAbort,
  outcome    <- IF pc \in {"publish", "reply"} THEN result ELSE "none",
  ready      <- {[ticket |-> r.ticket, result |-> r.result] :
                   r \in ToSet(pending) \cup ToSet(responses)}

\* The queues, the parked list, the locks and the abort flag together behave
\* as a first-come first-served agent service with cancellation.
ImplementsService == Service!Spec
=============================================================================
