---------------------------- MODULE MessagePath -----------------------------
(***************************************************************************)
(* The way of a message through the firmware, and of the answer back:      *)
(*                                                                         *)
(*   gateway -> event queue -> router task -> request queue -> core task   *)
(*           <- router task <- event queue <-------------------'           *)
(*                                                                         *)
(* with the worker that looks for memories in the user's text while the    *)
(* core works, and for which the core waits before it answers.  EventRouter*)
(* and ClawCore model the two services by themselves; here is what only    *)
(* shows when they wait for each other: the router keeps its mutex while   *)
(* it hands a message to the core, and the core needs that mutex to        *)
(* publish the answer.                                                     *)
(*                                                                         *)
(* Cancelling is left to EventRouter and ClawCore, the rules are those     *)
(* the firmware ships: a message goes to the agent, an answer to its chat. *)
(***************************************************************************)
EXTENDS Naturals, FiniteSets, SequencesExt

CONSTANTS
  Messages,      \* each published once, by a gateway
  None,
  EventSlots,    \* the event queue
  RequestSlots,  \* the core's request queue
  ExtractSlots,  \* CLAW_MEMORY_ASYNC_EXTRACT_QUEUE_LEN
  MaxTools       \* max_tool_iterations

ASSUME SlotsAssumption ==
  /\ EventSlots \in Nat \ {0}
  /\ RequestSlots \in Nat \ {0}
  /\ ExtractSlots \in Nat \ {0}
  /\ MaxTools \in Nat
  /\ None \notin Messages

VARIABLES
  gateway,   \* where each message's publisher is
  events,    \* event_queue
  router,    \* the router task
  requests,  \* request_queue
  core,      \* the core task
  jobs,      \* s_async_extract.jobs, by request
  extracts,  \* s_async_extract.queue
  worker,    \* the extraction worker
  woken,     \* the requests whose done_sem was given
  outcome,   \* what became of each message
  accepted,  \* history: the messages the event queue took, in that order
  answers    \* history: the answers, in the order of delivery

vars == <<gateway, events, router, requests, core, jobs, extracts, worker,
          woken, outcome, accepted, answers>>

Events == [kind : {"in", "out"}, msg : Messages]
Holders == Messages \cup {None}

Init ==
  /\ gateway = [m \in Messages |-> "idle"]
  /\ events = <<>>
  /\ router = [pc |-> "receive", kind |-> "in", msg |-> None]
  /\ requests = <<>>
  /\ core = [pc |-> "receive", msg |-> None, tools |-> 0]
  /\ jobs = [m \in Messages |-> "none"]
  /\ extracts = <<>>
  /\ worker = [pc |-> "receive", msg |-> None]
  /\ woken = {}
  /\ outcome = [m \in Messages |-> "none"]
  /\ accepted = <<>>
  /\ answers = <<>>

\* The router task keeps the mutex while an action of a rule runs; the
\* others only for their work on the pending table.
MutexFree == router.pc \notin {"submitLocked", "deliver"}

\* Variant: a slot too few.
RoomShort(queue, slots) == Len(queue) < slots - 1

Room(queue, slots) == Len(queue) < slots

-----------------------------------------------------------------------------
(* A gateway: claw_event_router_publish.                                   *)

Call(m) ==
  /\ gateway[m] = "idle"
  /\ gateway' = [gateway EXCEPT ![m] = "track"]
  /\ UNCHANGED <<events, router, requests, core, jobs, extracts, worker,
                 woken, outcome, accepted, answers>>

Track(m) ==
  /\ gateway[m] = "track"
  /\ MutexFree
  /\ gateway' = [gateway EXCEPT ![m] = "send"]
  /\ UNCHANGED <<events, router, requests, core, jobs, extracts, worker,
                 woken, outcome, accepted, answers>>

Send(m) ==
  /\ gateway[m] = "send"
  /\ Room(events, EventSlots)
  /\ events' = Append(events, [kind |-> "in", msg |-> m])
  /\ gateway' = [gateway EXCEPT ![m] = "done"]
  /\ outcome' = [outcome EXCEPT ![m] = "open"]
  /\ accepted' = Append(accepted, m)
  /\ UNCHANGED <<router, requests, core, jobs, extracts, worker, woken, answers>>

\* After a second the message is taken from the table again.
SendTimesOut(m) ==
  /\ gateway[m] = "send"
  /\ ~Room(events, EventSlots)
  /\ gateway' = [gateway EXCEPT ![m] = "untrack"]
  /\ UNCHANGED <<events, router, requests, core, jobs, extracts, worker,
                 woken, outcome, accepted, answers>>

Untrack(m) ==
  /\ gateway[m] = "untrack"
  /\ MutexFree
  /\ gateway' = [gateway EXCEPT ![m] = "done"]
  /\ outcome' = [outcome EXCEPT ![m] = "refused"]
  /\ UNCHANGED <<events, router, requests, core, jobs, extracts, worker,
                 woken, accepted, answers>>

Publisher(m) == Track(m) \/ Send(m) \/ SendTimesOut(m) \/ Untrack(m)

-----------------------------------------------------------------------------
(* The router task.                                                        *)

RouterReceives ==
  /\ router.pc = "receive"
  /\ events # <<>>
  /\ router' = [pc |-> "match", kind |-> Head(events).kind, msg |-> Head(events).msg]
  /\ events' = Tail(events)
  /\ UNCHANGED <<gateway, requests, core, jobs, extracts, worker, woken,
                 outcome, accepted, answers>>

\* A rule runs the agent or delivers the answer under the mutex; without a
\* rule for messages the default is the agent, and the mutex is given back.
RouterMatches ==
  /\ router.pc = "match"
  /\ router' \in {[router EXCEPT !.pc = pc] : pc \in
       IF router.kind = "out" THEN {"deliver"} ELSE {"submitLocked", "submit"}}
  /\ UNCHANGED <<gateway, events, requests, core, jobs, extracts, worker,
                 woken, outcome, accepted, answers>>

AtSubmit == router.pc \in {"submit", "submitLocked"}

RouterIdle == [pc |-> "receive", kind |-> "in", msg |-> None]

\* claw_core_submit
RouterSubmits ==
  /\ AtSubmit
  /\ Room(requests, RequestSlots)
  /\ requests' = Append(requests, router.msg)
  /\ router' = RouterIdle
  /\ UNCHANGED <<gateway, events, core, jobs, extracts, worker, woken,
                 outcome, accepted, answers>>

\* Variant: the submit waits without a limit.
SubmitNeverTimesOut == FALSE /\ UNCHANGED vars

\* core_submit_timeout_ms has passed: the message is dropped, only the
\* result of the rule tells.
SubmitTimesOut ==
  /\ AtSubmit
  /\ ~Room(requests, RequestSlots)
  /\ outcome' = [outcome EXCEPT ![router.msg] = "dropped"]
  /\ router' = RouterIdle
  /\ UNCHANGED <<gateway, events, requests, core, jobs, extracts, worker,
                 woken, accepted, answers>>

\* The capability that sends to the chat.
RouterDelivers ==
  /\ router.pc = "deliver"
  /\ outcome' = [outcome EXCEPT ![router.msg] = "answered"]
  /\ answers' = Append(answers, router.msg)
  /\ router' = RouterIdle
  /\ UNCHANGED <<gateway, events, requests, core, jobs, extracts, worker, woken,
                 accepted>>

DeliveryFails ==
  /\ router.pc = "deliver"
  /\ outcome' = [outcome EXCEPT ![router.msg] = "unsent"]
  /\ router' = RouterIdle
  /\ UNCHANGED <<gateway, events, requests, core, jobs, extracts, worker,
                 woken, accepted, answers>>

Router ==
  \/ RouterReceives \/ RouterMatches \/ RouterSubmits \/ SubmitTimesOut
  \/ RouterDelivers \/ DeliveryFails

-----------------------------------------------------------------------------
(* The core task.                                                          *)

CoreAt(pc) == core.pc = pc
CoreGoto(pc) == core' = [core EXCEPT !.pc = pc]

CoreReceives ==
  /\ CoreAt("receive")
  /\ requests # <<>>
  /\ core' = [pc |-> "start", msg |-> Head(requests), tools |-> 0]
  /\ requests' = Tail(requests)
  /\ UNCHANGED <<gateway, events, router, jobs, extracts, worker, woken,
                 outcome, accepted, answers>>

\* Variant: jobs are swept by the time of their creation.
SweepableAny == {m \in Messages : jobs[m] # "none"}

\* claw_memory_async_extract_sweep_locked frees jobs completed a minute ago
\* and not collected.
Sweepable == {m \in Messages : jobs[m] = "completed"}

\* claw_memory_async_extract_ensure_started: a job in the list.  A message
\* without a session, or an allocation that fails, has none.
StartExtract ==
  /\ CoreAt("start")
  /\ \/ /\ \E swept \in SUBSET Sweepable :
             jobs' = [m \in Messages |->
                        IF m \in swept \ {core.msg} THEN "none"
                        ELSE IF m = core.msg /\ jobs[m] = "none" THEN "linked"
                        ELSE jobs[m]]
        /\ CoreGoto(IF jobs[core.msg] = "none" THEN "queue" ELSE "work")
     \/ /\ CoreGoto("work")
        /\ UNCHANGED jobs
  /\ UNCHANGED <<gateway, events, router, requests, extracts, worker, woken,
                 outcome, accepted, answers>>

QueueExtract ==
  /\ CoreAt("queue")
  /\ Room(extracts, ExtractSlots)
  /\ extracts' = Append(extracts, core.msg)
  /\ CoreGoto("work")
  /\ UNCHANGED <<gateway, events, router, requests, jobs, worker, woken,
                 outcome, accepted, answers>>

\* The queue is full: the job is taken out and freed, the request goes on.
QueueExtractFails ==
  /\ CoreAt("queue")
  /\ ~Room(extracts, ExtractSlots)
  /\ jobs' = [jobs EXCEPT ![core.msg] = "none"]
  /\ CoreGoto("work")
  /\ UNCHANGED <<gateway, events, router, requests, extracts, worker, woken,
                 outcome, accepted, answers>>

\* A round with the model: a text, an error, or a tool that needs the
\* router, such as those that manage the rules.
Work ==
  /\ CoreAt("work")
  /\ \/ CoreGoto("collect")
     \/ CoreGoto("track")
     \/ /\ core.tools < MaxTools
        /\ core' = [core EXCEPT !.pc = "tool", !.tools = @ + 1]
  /\ UNCHANGED <<gateway, events, router, requests, jobs, extracts, worker,
                 woken, outcome, accepted, answers>>

UseTool ==
  /\ CoreAt("tool")
  /\ MutexFree
  /\ CoreGoto("work")
  /\ UNCHANGED <<gateway, events, router, requests, jobs, extracts, worker,
                 woken, outcome, accepted, answers>>

\* claw_memory_async_extract_take_summary_list under its lock.  Freeing the
\* job deletes its semaphore.
Collect ==
  /\ CoreAt("collect")
  /\ \/ /\ jobs[core.msg] = "none"
        /\ \E swept \in SUBSET Sweepable :
             jobs' = [m \in Messages |-> IF m \in swept THEN "none" ELSE jobs[m]]
        /\ CoreGoto("track")
        /\ UNCHANGED woken
     \/ /\ jobs[core.msg] = "completed"
        /\ jobs' = [jobs EXCEPT ![core.msg] = "none"]
        /\ woken' = woken \ {core.msg}
        /\ CoreGoto("track")
     \/ /\ jobs[core.msg] = "linked"
        /\ CoreGoto("wait")
        /\ UNCHANGED <<jobs, woken>>
  /\ UNCHANGED <<gateway, events, router, requests, extracts, worker,
                 outcome, accepted, answers>>

\* portMAX_DELAY
Wait ==
  /\ CoreAt("wait")
  /\ core.msg \in woken
  /\ woken' = woken \ {core.msg}
  /\ CoreGoto("collect")
  /\ UNCHANGED <<gateway, events, router, requests, jobs, extracts, worker,
                 outcome, accepted, answers>>

\* publish_out_message_if_requested, whether the request failed or not
TrackAnswer ==
  /\ CoreAt("track")
  /\ MutexFree
  /\ CoreGoto("send")
  /\ UNCHANGED <<gateway, events, router, requests, jobs, extracts, worker,
                 woken, outcome, accepted, answers>>

CoreIdle == [pc |-> "receive", msg |-> None, tools |-> 0]

\* Variant: the answer goes to the front of the event queue.
SendAnswerFirst ==
  /\ CoreAt("send")
  /\ Room(events, EventSlots)
  /\ events' = <<[kind |-> "out", msg |-> core.msg]>> \o events
  /\ core' = CoreIdle
  /\ UNCHANGED <<gateway, router, requests, jobs, extracts, worker, woken,
                 outcome, accepted, answers>>

SendAnswer ==
  /\ CoreAt("send")
  /\ Room(events, EventSlots)
  /\ events' = Append(events, [kind |-> "out", msg |-> core.msg])
  /\ core' = CoreIdle
  /\ UNCHANGED <<gateway, router, requests, jobs, extracts, worker, woken,
                 outcome, accepted, answers>>

AnswerTimesOut ==
  /\ CoreAt("send")
  /\ ~Room(events, EventSlots)
  /\ CoreGoto("untrack")
  /\ UNCHANGED <<gateway, events, router, requests, jobs, extracts, worker,
                 woken, outcome, accepted, answers>>

\* The failure is logged; the answer is gone.
UntrackAnswer ==
  /\ CoreAt("untrack")
  /\ MutexFree
  /\ outcome' = [outcome EXCEPT ![core.msg] = "unsent"]
  /\ core' = CoreIdle
  /\ UNCHANGED <<gateway, events, router, requests, jobs, extracts, worker,
                 woken, accepted, answers>>

Core ==
  \/ CoreReceives \/ StartExtract \/ QueueExtract \/ QueueExtractFails
  \/ Work \/ UseTool \/ Collect \/ Wait
  \/ TrackAnswer \/ SendAnswer \/ AnswerTimesOut \/ UntrackAnswer

-----------------------------------------------------------------------------
(* The extraction worker: claw_memory_async_extract_task.                  *)

WorkerReceives ==
  /\ worker.pc = "receive"
  /\ extracts # <<>>
  /\ worker' = [pc |-> "chat", msg |-> Head(extracts)]
  /\ extracts' = Tail(extracts)
  /\ UNCHANGED <<gateway, events, router, requests, core, jobs, woken,
                 outcome, accepted, answers>>

\* The model has answered, or failed to: both complete the job.
Commit ==
  /\ worker.pc = "chat"
  /\ jobs' = [jobs EXCEPT ![worker.msg] = "completed"]
  /\ worker' = [worker EXCEPT !.pc = "give"]
  /\ UNCHANGED <<gateway, events, router, requests, core, extracts, woken,
                 outcome, accepted, answers>>

\* The lock was given back: the core may have freed the job by now, and the
\* worker gives a semaphore that nobody owns.
Give ==
  /\ worker.pc = "give"
  /\ woken' = IF jobs[worker.msg] = "none" THEN woken ELSE woken \cup {worker.msg}
  /\ worker' = [pc |-> "receive", msg |-> None]
  /\ UNCHANGED <<gateway, events, router, requests, core, jobs, extracts,
                 outcome, accepted, answers>>

Worker == WorkerReceives \/ Commit \/ Give

-----------------------------------------------------------------------------
Next ==
  \/ \E m \in Messages : Call(m) \/ Publisher(m)
  \/ Router \/ Core \/ Worker

Spec == Init /\ [][Next]_vars

FairSpec ==
  /\ Spec
  /\ WF_vars(Router) /\ WF_vars(Core) /\ WF_vars(Worker)
  /\ \A m \in Messages : WF_vars(Publisher(m))

-----------------------------------------------------------------------------
(* Properties.                                                             *)

TypeOK ==
  /\ gateway \in [Messages -> {"idle", "track", "send", "untrack", "done"}]
  /\ events \in Seq(Events) /\ Len(events) <= EventSlots
  /\ router \in [pc : {"receive", "match", "submit", "submitLocked", "deliver"},
                 kind : {"in", "out"}, msg : Holders]
  /\ requests \in Seq(Messages) /\ Len(requests) <= RequestSlots
  /\ core \in [pc : {"receive", "start", "queue", "work", "tool", "collect",
                     "wait", "track", "send", "untrack"},
               msg : Holders, tools : 0..MaxTools]
  /\ jobs \in [Messages -> {"none", "linked", "completed"}]
  /\ extracts \in Seq(Messages) /\ Len(extracts) <= ExtractSlots
  /\ worker \in [pc : {"receive", "chat", "give"}, msg : Holders]
  /\ woken \subseteq Messages
  /\ outcome \in [Messages -> {"none", "refused", "open", "dropped", "unsent", "answered"}]
  /\ accepted \in Seq(Messages)
  /\ answers \in Seq(Messages)

Held(pcs, pc, m) == IF pc \in pcs THEN {m} ELSE {}

\* The jobs of the list that are not completed are exactly those that are
\* queued for the worker, in its hands, or about to be queued by the core:
\* what the worker writes to was not freed, and what the core may wait for
\* will be completed.
JobsInHand ==
  {m \in Messages : jobs[m] = "linked"} =
    ToSet(extracts) \cup Held({"chat"}, worker.pc, worker.msg)
                    \cup Held({"queue"}, core.pc, core.msg)

\* The core never waits for a semaphore that nobody will give: its job is
\* queued, or in the hands of the worker, or the semaphore was given.
WaiterWakes ==
  CoreAt("wait") =>
    core.msg \in ToSet(extracts) \cup Held({"chat", "give"}, worker.pc, worker.msg)
                 \cup woken

\* Whatever queue is full and whatever the sweep frees, no job is freed under
\* the worker and the core's wait for its job at the end of a request ends.
WaitEnds == JobsInHand /\ WaiterWakes

\* The messages under way: accepted, and not yet answered or lost.
UnderWay ==
  {e.msg : e \in ToSet(events)} \cup ToSet(requests)
    \cup ({router.msg, core.msg} \ {None})

Promise == INSTANCE Dialogue WITH waiting <- UnderWay, answered <- answers

\* Queues, mutex, timeouts and worker keep the promise of Dialogue: one
\* answer at most for a message, in the order of acceptance.
InOrder == Promise!Spec

\* A message is lost for want of room only when more messages are under way
\* than the queue in question has slots: a smaller load never loses one,
\* however the tasks wait for each other.
LossNeedsLoad ==
  [][/\ \A m \in Messages :
          /\ outcome'[m] = "dropped" =>
               outcome[m] = "dropped" \/ Cardinality(UnderWay) > RequestSlots
          /\ gateway[m] = "send" /\ gateway'[m] = "untrack" =>
               Cardinality(UnderWay) >= EventSlots
     /\ CoreAt("send") /\ core'.pc = "untrack" =>
          Cardinality(UnderWay) > EventSlots]_vars

\* Every message that a gateway publishes comes to an end: an answer, or a
\* loss that is reported to somebody.  No cycle of queues, mutex and
\* semaphore lasts.
Settles ==
  \A m \in Messages :
    gateway[m] = "track" ~> outcome[m] \in {"refused", "dropped", "unsent", "answered"}
=============================================================================
