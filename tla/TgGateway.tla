------------------------------ MODULE TgGateway ------------------------------
(***************************************************************************)
(* The Telegram gateway of components/claw_capabilities/cap_im_tg: a task  *)
(* that asks the service for updates with a long poll, a ring of the keys  *)
(* of the last updates, a queue of attachments with a task that downloads  *)
(* them, and start, stop and set_token, which one task calls: the app at   *)
(* boot, the console later.                                                *)
(*                                                                         *)
(* The service is modelled from how the code uses it: it numbers the       *)
(* updates of a bot, an offset in a request makes it forget every update   *)
(* before the offset, and an answer holds at most Batch of the others, the *)
(* oldest first.  An answer may get lost, and it may begin with updates    *)
(* that were answered before, which is what the ring is for.               *)
(***************************************************************************)
EXTENDS Integers, SequencesExt, FiniteSetsExt

CONSTANTS
  Bots,         \* a bot has its token and its own numbers
  Configured,   \* the bot of the settings, taken at boot
  Tasks,        \* names for the tasks that download
  Batch,        \* how many updates the service answers at once
  RingSize,     \* CAP_IM_TG_DEDUP_CACHE_SIZE
  QueueLen,     \* CAP_IM_TG_ATTACHMENT_QUEUE_LEN
  Scripts,      \* what is written to the bots: functions from Bots to sequences
  MaxCalls, MaxMishaps   \* bounds: calls after boot, faults and power cuts

\* "other": an update without a message, such as an edited one.
Kinds == {"text", "file", "other"}

ASSUME BotAssumption == Configured \in Bots
ASSUME SizeAssumption ==
  /\ Batch \in Nat \ {0} /\ RingSize \in Nat \ {0}
  /\ QueueLen \in Nat /\ MaxCalls \in Nat /\ MaxMishaps \in Nat
ASSUME ScriptAssumption == Scripts \subseteq [Bots -> Seq(Kinds)]

VARIABLES
  sent,             \* the updates of each bot; the number is the place
  forgotten,        \* up to which number the service has forgotten them
  bot_token, next_update_id, seen_update_keys, seen_update_idx,
  attachment_queue, \* how many jobs it holds, NoQueue when there is none
  stop_requested,
  poll_task, attachment_task,   \* whether the handles are set
  poll,             \* where the poll task is, and what it holds
  download,         \* where each download task is
  caller,           \* where the calling task is in its call
  handled,          \* history: the messages of each bot looked at so far
  handed,           \* history: what was handed on since the token was set
  wanted,           \* history: what the last call asked for
  crossed,          \* history: a token was set while the poll task ran
  doubled,          \* history: a second download task was started
  calls, mishaps

service == <<sent, forgotten>>
dedup   == <<next_update_id, seen_update_keys, seen_update_idx>>
handles == <<stop_requested, poll_task, attachment_task>>
history == <<handled, handed, wanted, crossed, doubled>>
counts  == <<calls, mishaps>>
vars == <<service, bot_token, dedup, attachment_queue, handles, poll, download,
          caller, history, counts>>

NoQueue == -1
Nobody  == [at |-> "off", bot |-> Configured, offset |-> 0, batch |-> <<>>]
Checking == [Nobody EXCEPT !.at = "check"]

Numbers(b) == 1..Max({Len(script[b]) : script \in Scripts})

-----------------------------------------------------------------------------
(* The service.                                                            *)

\* Someone writes to a bot, or edits what he wrote.
Write(b, k) ==
  /\ sent' = [sent EXCEPT ![b] = Append(@, k)]
  /\ \E script \in Scripts : \A c \in Bots : IsPrefix(sent'[c], script[c])
  /\ UNCHANGED <<forgotten, bot_token, dedup, attachment_queue, handles, poll,
                 download, caller, history, counts>>

\* The first update an answer may begin with: the oldest that is left, or one
\* the gateway was given before and the ring still has to know.
Oldest == Max({forgotten[poll.bot] + 1, poll.offset})
Repeats ==
  IF mishaps = MaxMishaps THEN {}
  ELSE {i \in ToSet(handed) : i < Oldest /\ i >= poll.offset - RingSize}

From(first) ==
  [i \in 1..Min({Batch, Len(sent[poll.bot]) - first + 1}) |-> first + i - 1]

\* What is left of an answer; the loop goes on when nothing is.
Answered(batch) ==
  IF batch = <<>> THEN Checking ELSE [poll EXCEPT !.at = "handle", !.batch = batch]

\* The long poll ends with what there is, or with nothing after its 20 s.
Answer ==
  /\ poll.at = "wait"
  /\ poll' = Answered(From(Oldest))
  /\ UNCHANGED <<service, bot_token, dedup, attachment_queue, handles, download,
                 caller, history, counts>>

AnswerAgain ==
  /\ poll.at = "wait"
  /\ \E first \in Repeats :
       poll' = Answered(From(first))
  /\ mishaps' = mishaps + 1
  /\ UNCHANGED <<service, bot_token, dedup, attachment_queue, handles, download,
                 caller, history, calls>>

-----------------------------------------------------------------------------
(* The poll task.                                                          *)

\* The loop looks at the stop flag; the request is built before its address.
PollBegins ==
  /\ poll.at = "check"
  /\ ~stop_requested
  /\ poll' = [poll EXCEPT !.at = "ask", !.offset = next_update_id]
  /\ UNCHANGED <<service, bot_token, dedup, attachment_queue, handles, download,
                 caller, history, counts>>

PollEnds ==
  /\ poll.at = "check"
  /\ stop_requested
  /\ poll' = Nobody
  /\ poll_task' = FALSE
  /\ UNCHANGED <<service, bot_token, dedup, attachment_queue, stop_requested,
                 attachment_task, download, caller, history, counts>>

\* The request reaches the service, which forgets what the offset confirms.
PollAsks ==
  /\ poll.at = "ask"
  /\ poll' = [poll EXCEPT !.at = "wait", !.bot = bot_token]
  /\ forgotten' = [forgotten EXCEPT
       ![bot_token] = Max({@, Min({poll.offset - 1, Len(sent[bot_token])})})]
  /\ UNCHANGED <<sent, bot_token, dedup, attachment_queue, handles, download,
                 caller, history, counts>>

\* The request or its answer is lost, or the answer is not what it should be.
\* The loop looks at the flag again, at once and after a delay.
PollFails ==
  /\ poll.at \in {"ask", "wait"}
  /\ mishaps < MaxMishaps
  /\ poll' = Checking
  /\ mishaps' = mishaps + 1
  /\ UNCHANGED <<service, bot_token, dedup, attachment_queue, handles, download,
                 caller, history, calls>>

\* Variant: one update is skipped.
OffsetAfterWide(id) == IF id >= next_update_id THEN id + 2 ELSE next_update_id

OffsetAfter(id) == IF id >= next_update_id THEN id + 1 ELSE next_update_id

Seen(id) == id \in ToSet(seen_update_keys)

\* Variant: the ring has one place.
RecordFirst(id) ==
  /\ seen_update_keys' = [seen_update_keys EXCEPT ![1] = id]
  /\ UNCHANGED seen_update_idx

Record(id) ==
  /\ seen_update_keys' = [seen_update_keys EXCEPT ![seen_update_idx] = id]
  /\ seen_update_idx' = (seen_update_idx % RingSize) + 1

\* A text goes to the router, which may be out of room for it; a file goes to
\* the queue, which may be full or gone.
Handed(k) ==
  IF k = "text"
  THEN {<<TRUE, attachment_queue>>, <<FALSE, attachment_queue>>}
  ELSE IF attachment_queue \in {NoQueue, QueueLen}
       THEN {<<FALSE, attachment_queue>>}
       ELSE {<<TRUE, attachment_queue + 1>>}

HandleUpdate ==
  /\ poll.at = "handle"
  /\ LET id == Head(poll.batch)
         kind == sent[poll.bot][id]
     IN /\ poll' = Answered(Tail(poll.batch))
        /\ IF kind = "other"
           THEN UNCHANGED <<dedup, attachment_queue, handled, handed>>
           ELSE /\ next_update_id' = OffsetAfter(id)
                /\ handled' = [handled EXCEPT ![poll.bot] = @ \cup {id}]
                /\ IF Seen(id)
                   THEN UNCHANGED <<seen_update_keys, seen_update_idx,
                                    attachment_queue, handed>>
                   ELSE /\ Record(id)
                        /\ \E out \in Handed(kind) :
                             /\ attachment_queue' = out[2]
                             /\ handed' = IF out[1] THEN Append(handed, id)
                                                    ELSE handed
  /\ UNCHANGED <<service, bot_token, handles, download, caller, wanted, crossed,
                 doubled, counts>>

PollStep ==
  \/ PollBegins \/ PollEnds \/ PollAsks \/ HandleUpdate \/ Answer

-----------------------------------------------------------------------------
(* The download tasks.                                                     *)

Receive(t) ==
  /\ download[t] = "receive"
  /\ attachment_queue > 0
  /\ attachment_queue' = attachment_queue - 1
  /\ download' = [download EXCEPT ![t] = "save"]
  /\ UNCHANGED <<service, bot_token, dedup, handles, poll, caller, history, counts>>

\* The file is saved and its event published, or not.
Save(t) ==
  /\ download[t] = "save"
  /\ download' = [download EXCEPT ![t] = "receive"]
  /\ UNCHANGED <<service, bot_token, dedup, attachment_queue, handles, poll, caller,
                 history, counts>>

\* Nothing came for 200 ms; the flag is looked at after that.
Waits(t) ==
  /\ download[t] = "receive"
  /\ attachment_queue = 0
  /\ download' = [download EXCEPT ![t] = "look"]
  /\ UNCHANGED <<service, bot_token, dedup, attachment_queue, handles, poll, caller,
                 history, counts>>

Looks(t) ==
  /\ download[t] = "look"
  /\ download' = [download EXCEPT ![t] = IF stop_requested THEN "leave" ELSE "receive"]
  /\ UNCHANGED <<service, bot_token, dedup, attachment_queue, handles, poll, caller,
                 history, counts>>

Leave(t) ==
  /\ download[t] = "leave"
  /\ attachment_task' = FALSE
  /\ download' = [download EXCEPT ![t] = "off"]
  /\ UNCHANGED <<service, bot_token, dedup, attachment_queue, stop_requested,
                 poll_task, poll, caller, history, counts>>

DownloadStep(t) == Receive(t) \/ Save(t) \/ Waits(t) \/ Looks(t) \/ Leave(t)

-----------------------------------------------------------------------------
(* The calls: start, stop, set_token.  A call begins in the boot or from   *)
(* the console.                                                            *)

Free(t) == download[t] = "off"

\* Bounds: MaxCalls, and none after a token was set while the gateway ran, when
\* nothing is promised any more.
Calling(next) ==
  /\ \/ caller = "boot"
     \/ caller = "idle" /\ calls < MaxCalls /\ ~crossed
  /\ calls' = IF caller = "boot" THEN calls ELSE calls + 1
  /\ caller' = next

\* The handle tells that the task is there, be it on its way out.
StartAgain ==
  /\ poll_task
  /\ Calling("idle")
  /\ wanted' = IF stop_requested THEN "unsure" ELSE "on"
  /\ UNCHANGED <<service, bot_token, dedup, attachment_queue, handles, poll,
                 download, handled, handed, crossed, doubled, mishaps>>

StartNoMemory ==
  /\ ~poll_task
  /\ attachment_queue = NoQueue
  /\ mishaps < MaxMishaps
  /\ Calling("idle")
  /\ stop_requested' = FALSE
  /\ wanted' = "off"
  /\ mishaps' = mishaps + 1
  /\ UNCHANGED <<service, bot_token, dedup, attachment_queue, poll_task,
                 attachment_task, poll, download, handled, handed, crossed,
                 doubled>>

\* Variant: a stop of earlier stays in force.
StopKept == stop_requested

StopFlagAtStart == FALSE

Start ==
  /\ ~poll_task
  /\ Calling("start")
  /\ stop_requested' = StopFlagAtStart
  /\ attachment_queue' = IF attachment_queue = NoQueue THEN 0 ELSE attachment_queue
  /\ \E t \in Tasks : Free(t)
  /\ download' = [download EXCEPT ![CHOOSE t \in Tasks : Free(t)] = "receive"]
  /\ attachment_task' = TRUE
  /\ doubled' = (doubled \/ \E t \in Tasks : ~Free(t))
  /\ UNCHANGED <<service, bot_token, dedup, poll_task, poll, handled, handed,
                 wanted, crossed, mishaps>>

\* The first task cannot be created: the queue goes, whoever reads it.
StartFails ==
  /\ ~poll_task
  /\ mishaps < MaxMishaps
  /\ Calling("idle")
  /\ stop_requested' = FALSE
  /\ attachment_queue' = NoQueue
  /\ attachment_task' = FALSE
  /\ wanted' = "off"
  /\ doubled' = (doubled \/ \E t \in Tasks : ~Free(t))
  /\ mishaps' = mishaps + 1
  /\ UNCHANGED <<service, bot_token, dedup, poll_task, poll, download, handled,
                 handed, crossed>>

StartPoll ==
  /\ caller = "start"
  /\ caller' = "idle"
  /\ poll_task' = TRUE
  /\ poll' = Checking
  /\ wanted' = "on"
  /\ UNCHANGED <<service, bot_token, dedup, attachment_queue, stop_requested,
                 attachment_task, download, handled, handed, crossed, doubled,
                 counts>>

\* The second task cannot be created: the first is told to end.
StartPollFails ==
  /\ caller = "start"
  /\ mishaps < MaxMishaps
  /\ caller' = "undo"
  /\ stop_requested' = TRUE
  /\ wanted' = "off"
  /\ mishaps' = mishaps + 1
  /\ UNCHANGED <<service, bot_token, dedup, attachment_queue, poll_task,
                 attachment_task, poll, download, handled, handed, crossed,
                 doubled, calls>>

\* Variant: nobody looks whether the downloads are over.
NoWait == TRUE

DownloadsOver == ~attachment_task

\* The failed start, and the stop, delete the queue and free what it holds.
DeleteQueue ==
  /\ caller \in {"undo", "stop_download"}
  /\ DownloadsOver
  /\ attachment_queue' = NoQueue
  /\ caller' = "idle"
  /\ UNCHANGED <<service, bot_token, dedup, handles, poll, download, history,
                 counts>>

StopNothing ==
  /\ ~poll_task
  /\ caller = "idle"
  /\ Calling("idle")
  /\ wanted' = "off"
  /\ UNCHANGED <<service, bot_token, dedup, attachment_queue, handles, poll,
                 download, handled, handed, crossed, doubled, mishaps>>

Stop ==
  /\ poll_task
  /\ caller = "idle"
  /\ Calling("stop_poll")
  /\ stop_requested' = TRUE
  /\ wanted' = "off"
  /\ UNCHANGED <<service, bot_token, dedup, attachment_queue, poll_task,
                 attachment_task, poll, download, handled, handed, crossed,
                 doubled, mishaps>>

StopPollOver ==
  /\ caller = "stop_poll"
  /\ ~poll_task
  /\ caller' = "stop_download"
  /\ UNCHANGED <<service, bot_token, dedup, attachment_queue, handles, poll,
                 download, history, counts>>

\* Five seconds are over, of a poll of 20 s or a download of any length.
StopTimesOut ==
  /\ \/ caller = "stop_poll" /\ poll_task
     \/ caller = "stop_download" /\ attachment_task
  /\ caller' = "idle"
  /\ UNCHANGED <<service, bot_token, dedup, attachment_queue, handles, poll,
                 download, history, counts>>

\* Nothing asks whether the gateway runs.
SetToken ==
  /\ caller = "idle"
  /\ Calling("reset")
  /\ \E b \in Bots : bot_token' = b
  /\ crossed' = (crossed \/ poll.at # "off")
  /\ UNCHANGED <<service, dedup, attachment_queue, handles, poll, download,
                 handled, handed, wanted, doubled, mishaps>>

Forget ==
  /\ next_update_id' = 0
  /\ seen_update_keys' = [i \in 1..RingSize |-> 0]
  /\ seen_update_idx' = 1
  /\ handed' = <<>>

SetTokenResets ==
  /\ caller = "reset"
  /\ caller' = "idle"
  /\ Forget
  /\ UNCHANGED <<service, bot_token, attachment_queue, handles, poll, download,
                 handled, wanted, crossed, doubled, counts>>

CallStep ==
  \/ StartPoll \/ DeleteQueue \/ StopPollOver \/ StopTimesOut \/ SetTokenResets

-----------------------------------------------------------------------------
Boot ==
  /\ bot_token = Configured
  /\ next_update_id = 0
  /\ seen_update_keys = [i \in 1..RingSize |-> 0]
  /\ seen_update_idx = 1
  /\ attachment_queue = NoQueue
  /\ stop_requested = FALSE
  /\ poll_task = FALSE
  /\ attachment_task = FALSE
  /\ poll = Nobody
  /\ download = [t \in Tasks |-> "off"]
  /\ caller = "boot"
  /\ handed = <<>>
  /\ wanted = "off"
  /\ doubled = FALSE

Init ==
  /\ Boot
  /\ sent = [b \in Bots |-> <<>>]
  /\ forgotten = [b \in Bots |-> 0]
  /\ handled = [b \in Bots |-> {}]
  /\ crossed = FALSE
  /\ calls = 0
  /\ mishaps = 0

\* A restart: after a power cut, or because a task reads a queue that is gone.
Restart ==
  /\ \/ mishaps < MaxMishaps
     \/ attachment_queue = NoQueue /\ \E t \in Tasks : download[t] = "receive"
  /\ mishaps' = IF mishaps < MaxMishaps THEN mishaps + 1 ELSE mishaps
  /\ bot_token' = Configured
  /\ Forget
  /\ attachment_queue' = NoQueue
  /\ stop_requested' = FALSE
  /\ poll_task' = FALSE
  /\ attachment_task' = FALSE
  /\ poll' = Nobody
  /\ download' = [t \in Tasks |-> "off"]
  /\ caller' = "boot"
  /\ wanted' = "off"
  /\ doubled' = FALSE
  /\ UNCHANGED <<service, handled, crossed, calls>>

Next ==
  \/ \E b \in Bots, k \in Kinds : Write(b, k)
  \/ PollStep \/ AnswerAgain \/ PollFails
  \/ \E t \in Tasks : DownloadStep(t)
  \/ StartAgain \/ StartNoMemory \/ Start \/ StartFails \/ StartPollFails
  \/ StopNothing \/ Stop \/ SetToken \/ CallStep
  \/ Restart

Spec == Init /\ [][Next]_vars

\* Every task runs on, and the service answers in the end: faults are few.
FairSpec ==
  /\ Spec
  /\ WF_vars(PollStep)
  /\ \A t \in Tasks : WF_vars(DownloadStep(t))
  /\ WF_vars(CallStep)

-----------------------------------------------------------------------------
(* Properties.                                                             *)

\* The types of the state: numbers are places in what was sent, and the queue
\* holds no more than it may.
TypeOK ==
  /\ sent \in [Bots -> Seq(Kinds)] /\ forgotten \in [Bots -> Nat]
  /\ \A b \in Bots : forgotten[b] <= Len(sent[b])
  /\ bot_token \in Bots /\ next_update_id \in Nat
  /\ seen_update_keys \in [1..RingSize -> Nat] /\ seen_update_idx \in 1..RingSize
  /\ attachment_queue \in {NoQueue} \cup 0..QueueLen
  /\ stop_requested \in BOOLEAN /\ poll_task \in BOOLEAN
  /\ attachment_task \in BOOLEAN /\ crossed \in BOOLEAN /\ doubled \in BOOLEAN
  /\ poll \in [at : {"off", "check", "ask", "wait", "handle"}, bot : Bots, offset : Nat,
               batch : Seq(Nat)]
  /\ poll.at = "handle" => poll.batch # <<>>
  /\ download \in [Tasks -> {"off", "receive", "save", "look", "leave"}]
  /\ caller \in {"boot", "idle", "start", "undo", "stop_poll", "stop_download", "reset"}
  /\ handled \in [Bots -> SUBSET Nat] /\ handed \in Seq(Nat)
  /\ wanted \in {"off", "on", "unsure"} /\ calls \in Nat /\ mishaps \in Nat

\* The service forgets a message only after the gateway has looked at it, in
\* this boot or an earlier one, through lost and repeated answers, stops and
\* restarts of the gateway and of the device.  Not so when a token was set while
\* the poll task ran: the answer to the old token moves the offset of the new
\* bot, or the offset of the old bot goes out with the new token
\* (cap_im_tg_poll_once, cap_im_tg_set_token).
ForgottenHandled ==
  \A b \in Bots : \A id \in 1..forgotten[b] :
    sent[b][id] # "other" => id \in handled[b] \/ crossed

\* Between two settings of the token no update is handed on twice or after a
\* later one, although answers repeat as many updates as the ring has places
\* (cap_im_tg_dedup_check_and_record).
HandedInOrder ==
  \A i, j \in DOMAIN handed : i < j => handed[i] < handed[j] \/ crossed

\* The queue is there as long as a task reads it, whichever of a stop, a stop
\* that ran out of time and a start that failed came before.  Not so when a
\* start found a download task of a stop that had run out of time: it makes a
\* second, and both share one handle (cap_im_tg_gateway_start, _stop).
QueueOutlives ==
  \A t \in Tasks : download[t] # "off" => attachment_queue # NoQueue \/ doubled

\* Updates without a message do not move the offset; Batch of them in a row are
\* answered for ever.
Clogged(b) ==
  \E first \in DOMAIN sent[b] :
    /\ first + Batch - 1 \in DOMAIN sent[b]
    /\ \A i \in first..first + Batch - 1 : sent[b][i] = "other"

\* A message to the bot of the gateway is looked at in the end, unless the
\* gateway is stopped, was started while a stop was under way, got its token while
\* it ran, or is clogged (cap_im_tg_poll_task, cap_im_tg_handle_update).
MessagesHandled ==
  \A b \in Bots : \A id \in Numbers(b) :
    (id \in DOMAIN sent[b] /\ sent[b][id] # "other")
      ~> (id \in handled[b] \/ bot_token # b \/ wanted # "on" \/ crossed \/ Clogged(b))
=============================================================================
