---------------------------- MODULE EventRouter ----------------------------
(***************************************************************************)
(* The queue of components/claw_modules/claw_event_router.  Publishers     *)
(* note an event in the pending table and then wait up to a second for     *)
(* room in the event queue; one router task takes events out, skips the    *)
(* cancelled ones and runs the rules on the others with the router's       *)
(* recursive mutex held.  An emit_event action publishes from inside the   *)
(* router task.  Cancelling marks an entry of the table by event id.       *)
(*                                                                         *)
(* An event id is made by the publisher: a prefix with the time in ms for  *)
(* most, but one fixed string for every event of the MCP server: an event  *)
(* may carry the id of an earlier one.                                     *)
(***************************************************************************)
EXTENDS Naturals, Sequences, FiniteSets, SequencesExt

CONSTANTS
  Publishers,   \* tasks that call claw_event_router_publish
  Classes,      \* (event_type, source_cap) pairs of events
  RouterClass,  \* the class whose source_cap is "claw_event_router"
  QueueLen,     \* event_queue_len
  TableSize,    \* CLAW_EVENT_ROUTER_PENDING_TABLE_SIZE
  MaxEvents     \* bound of the model: the number of events created

ASSUME SizeAssumption ==
  /\ QueueLen \in Nat \ {0}
  /\ TableSize \in Nat \ {0}
  /\ QueueLen <= TableSize   \* checked by claw_event_router_init
  /\ MaxEvents \in Nat

ASSUME ClassAssumption == RouterClass \in Classes

VARIABLES
  queue,      \* event_queue
  table,      \* the pending table
  pub,        \* where each publisher is in claw_event_router_publish
  event,      \* the event each publisher is publishing
  task,       \* where claw_event_router_task is
  current,    \* the event the router task has taken
  emitted,    \* the event an emit_event action is publishing
  stamp,      \* the newest id used
  created,    \* how many events were created
  cancelled,  \* history: events a cancel or a purge reported as marked
  skipped,    \* history: events the router task skipped
  processed   \* history: events the router task ran the rules on

vars == <<queue, table, pub, event, task, current, emitted, stamp, created,
          cancelled, skipped, processed>>
historyVars == <<cancelled, skipped, processed>>

\* serial tells two events with one id apart; the code cannot.
Event == [serial : 1..MaxEvents, id : 1..MaxEvents, class : Classes]
NoEvent == [serial |-> 0, id |-> 0, class |-> RouterClass]

Slots == 1..TableSize
Free  == [used |-> FALSE, id |-> 0, class |-> RouterClass, cancelled |-> FALSE]
Entry == [used : {TRUE}, id : 1..MaxEvents, class : Classes, cancelled : BOOLEAN]

\* The router's mutex is held while the rules run, emit_event included; the
\* variant keeps it when it finds a cancelled event.
LockedLeak == task \in {"rules", "emit"} \/ skipped # {}
Locked == task \in {"rules", "emit"}

Least(S) == CHOOSE i \in S : \A j \in S : i <= j

Init ==
  /\ queue = <<>>
  /\ table = [i \in Slots |-> Free]
  /\ pub = [p \in Publishers |-> "idle"]
  /\ event = [p \in Publishers |-> NoEvent]
  /\ task = "ready" /\ current = NoEvent /\ emitted = NoEvent
  /\ stamp = 0 /\ created = 0
  /\ cancelled = {} /\ skipped = {} /\ processed = {}

-----------------------------------------------------------------------------
(* The pending table.                                                      *)

SlotsOf(id) == {i \in Slots : table[i].used /\ table[i].id = id}

\* pending_alloc_slot_locked: a free slot, else the first that is not
\* cancelled, else the first.  The variant evicts whatever comes first.
VictimFirst(S) == 1
Victim(S) == IF S = {} THEN 1 ELSE Least(S)

AllocSlot ==
  LET free == {i \in Slots : ~table[i].used}
  IN  IF free # {} THEN Least(free)
      ELSE Victim({i \in Slots : ~table[i].cancelled})

\* pending_track: the slot of the id, or a new one, is filled afresh.
TrackSlot(e) == IF SlotsOf(e.id) # {} THEN Least(SlotsOf(e.id)) ELSE AllocSlot
Track(e) ==
  table' = [table EXCEPT ![TrackSlot(e)] =
              [used |-> TRUE, id |-> e.id, class |-> e.class, cancelled |-> FALSE]]

\* pending_take_for_event_id; the variant leaves the entry behind.
ForgetNothing(e) == e = e /\ UNCHANGED table
Forget(e) ==
  table' = IF SlotsOf(e.id) = {} THEN table
           ELSE [table EXCEPT ![Least(SlotsOf(e.id))] = Free]

IsCancelled(e) == SlotsOf(e.id) # {} /\ table[Least(SlotsOf(e.id))].cancelled

\* Events that were tracked and not yet taken: in the queue, on the way in or
\* being undone, or just taken out by the router task.
Pending ==
  ToSet(queue)
    \cup {event[p] : p \in {q \in Publishers : pub[q] \in {"send", "undo"}}}
    \cup (IF task = "take" THEN {current} ELSE {})
    \cup (IF task = "emit" THEN {emitted} ELSE {})

-----------------------------------------------------------------------------
(* claw_event_router_publish.                                              *)

\* A fresh id, or one used before.
Ids == 1..(stamp + 1)

NewEvents == [serial : {created + 1}, id : Ids, class : Classes]
Newest(id) == IF id > stamp THEN id ELSE stamp

Publish(p) ==
  /\ pub[p] = "idle"
  /\ created < MaxEvents
  /\ \E e \in NewEvents :
       /\ event' = [event EXCEPT ![p] = e]
       /\ stamp' = Newest(e.id)
  /\ created' = created + 1
  /\ pub' = [pub EXCEPT ![p] = "track"]
  /\ UNCHANGED <<queue, table, task, current, emitted, historyVars>>

PublishTrack(p) ==
  /\ pub[p] = "track"
  /\ ~Locked
  /\ Track(event[p])
  /\ pub' = [pub EXCEPT ![p] = "send"]
  /\ UNCHANGED <<queue, event, task, current, emitted, stamp, created, historyVars>>

PublishSend(p) ==
  /\ pub[p] = "send"
  /\ Len(queue) < QueueLen
  /\ queue' = Append(queue, event[p])
  /\ pub' = [pub EXCEPT ![p] = "idle"]
  /\ event' = [event EXCEPT ![p] = NoEvent]
  /\ UNCHANGED <<table, task, current, emitted, stamp, created, historyVars>>

PublishTimeout(p) ==
  /\ pub[p] = "send"
  /\ Len(queue) = QueueLen
  /\ pub' = [pub EXCEPT ![p] = "undo"]
  /\ UNCHANGED <<queue, table, event, task, current, emitted, stamp, created,
                 historyVars>>

PublishUndo(p) ==
  /\ pub[p] = "undo"
  /\ ~Locked
  /\ Forget(event[p])
  /\ pub' = [pub EXCEPT ![p] = "idle"]
  /\ event' = [event EXCEPT ![p] = NoEvent]
  /\ UNCHANGED <<queue, task, current, emitted, stamp, created, historyVars>>

-----------------------------------------------------------------------------
(* claw_event_router_task.                                                 *)

Receive ==
  /\ task = "ready"
  /\ queue # <<>>
  /\ current' = Head(queue)
  /\ queue' = Tail(queue)
  /\ task' = "take"
  /\ UNCHANGED <<table, pub, event, emitted, stamp, created, historyVars>>

\* A cancelled event is dropped here; an event of the router's own making is
\* let through without rules.
Take ==
  /\ task = "take"
  /\ Forget(current)
  /\ IF IsCancelled(current)
       THEN /\ skipped' = skipped \cup {current}
            /\ task' = "ready" /\ current' = NoEvent
            /\ UNCHANGED processed
       ELSE /\ processed' = processed \cup {current}
            /\ IF current.class = RouterClass
                 THEN task' = "ready" /\ current' = NoEvent
                 ELSE task' = "lock" /\ UNCHANGED current
            /\ UNCHANGED skipped
  /\ UNCHANGED <<queue, pub, event, emitted, stamp, created, cancelled>>

RunRules ==
  /\ task = "lock"
  /\ task' = "rules"
  /\ UNCHANGED <<queue, table, pub, event, current, emitted, stamp, created,
                 historyVars>>

\* emit_event: pending_track under the mutex the task already holds, then
\* the same bounded wait, on the queue only this task empties.
Emit ==
  /\ task = "rules"
  /\ created < MaxEvents
  /\ \E e \in NewEvents :
       /\ emitted' = e
       /\ stamp' = Newest(e.id)
       /\ Track(e)
  /\ created' = created + 1
  /\ task' = "emit"
  /\ UNCHANGED <<queue, pub, event, current, historyVars>>

EmitSend ==
  /\ task = "emit"
  /\ Len(queue) < QueueLen
  /\ queue' = Append(queue, emitted)
  /\ task' = "rules" /\ emitted' = NoEvent
  /\ UNCHANGED <<table, pub, event, current, stamp, created, historyVars>>

\* The variant waits for room with no time limit.
NeverInTime == FALSE
InTime == Len(queue) = QueueLen

EmitTimeout ==
  /\ task = "emit"
  /\ InTime
  /\ Forget(emitted)
  /\ task' = "rules" /\ emitted' = NoEvent
  /\ UNCHANGED <<queue, pub, event, current, stamp, created, historyVars>>

EndRules ==
  /\ task = "rules"
  /\ task' = "ready" /\ current' = NoEvent
  /\ UNCHANGED <<queue, table, pub, event, emitted, stamp, created, historyVars>>

-----------------------------------------------------------------------------
(* claw_event_router_cancel_event and claw_event_router_purge_queue, which *)
(* report the entries they mark.                                           *)

Mark(S) ==
  table' = [i \in Slots |-> IF i \in S THEN [table[i] EXCEPT !.cancelled = TRUE]
                            ELSE table[i]]

Cancel(id) ==
  /\ ~Locked
  /\ SlotsOf(id) # {}
  /\ LET i == Least(SlotsOf(id)) IN ~table[i].cancelled /\ Mark({i})
  /\ cancelled' = cancelled \cup {e \in Pending : e.id = id}
  /\ UNCHANGED <<queue, pub, event, task, current, emitted, stamp, created, skipped,
                 processed>>

\* pending_match_filter
MatchFilter(i, filter) == table[i].class \in filter

\* A filter names one class, or lets every class through.
Filters == {{class} : class \in Classes} \cup {Classes}

Purge(filter) ==
  LET hit == {i \in Slots : /\ table[i].used /\ ~table[i].cancelled
                            /\ MatchFilter(i, filter)}
  IN /\ ~Locked
     /\ hit # {}
     /\ Mark(hit)
     /\ cancelled' = cancelled \cup
          {e \in Pending : e.class \in filter /\ \E i \in hit : table[i].id = e.id}
     /\ UNCHANGED <<queue, pub, event, task, current, emitted, stamp, created,
                    skipped, processed>>

-----------------------------------------------------------------------------
Router == \/ Receive \/ Take \/ RunRules \/ EmitSend \/ EmitTimeout \/ EndRules
Publishing(p) == \/ PublishTrack(p) \/ PublishSend(p) \/ PublishTimeout(p)
                 \/ PublishUndo(p)

Next ==
  \/ Router \/ Emit
  \/ \E p \in Publishers : Publish(p) \/ Publishing(p)
  \/ \E id \in 1..MaxEvents : Cancel(id)
  \/ \E filter \in Filters : Purge(filter)

Spec == Init /\ [][Next]_vars

(* The router task and the publishers are tasks the scheduler keeps        *)
(* running, and every action of a rule ends; a publisher blocked on the    *)
(* mutex is woken when it is free often enough (priority inheritance and   *)
(* first-come wake-up of FreeRTOS mutexes).                                *)
FairSpec ==
  /\ Spec
  /\ WF_vars(Router)
  /\ \A p \in Publishers : SF_vars(PublishTrack(p) \/ PublishUndo(p))
  /\ \A p \in Publishers : WF_vars(PublishSend(p) \/ PublishTimeout(p))

-----------------------------------------------------------------------------
(* Properties.                                                             *)

\* The types of the state; a taken or emitted event exists exactly while the
\* task is working on it.
TypeOK ==
  /\ queue \in Seq(Event) /\ Len(queue) <= QueueLen
  /\ table \in [Slots -> Entry \cup {Free}]
  /\ pub \in [Publishers -> {"idle", "track", "send", "undo"}]
  /\ event \in [Publishers -> Event \cup {NoEvent}]
  /\ \A p \in Publishers : (event[p] = NoEvent) <=> (pub[p] = "idle")
  /\ task \in {"ready", "take", "lock", "rules", "emit"}
  /\ current \in Event \cup {NoEvent}
  /\ (current = NoEvent) <=> (task = "ready")
  /\ emitted \in Event \cup {NoEvent}
  /\ (emitted = NoEvent) <=> (task # "emit")
  /\ created \in 0..MaxEvents /\ stamp \in 0..created
  /\ cancelled \subseteq Event /\ skipped \subseteq Event /\ processed \subseteq Event

\* The pending table holds no leftovers: a used entry is that of an event still
\* on its way, of that id and class, and no two entries have one id, whatever
\* mix of publishes, timeouts, evictions and cancels came before.
TableLive ==
  /\ \A i \in Slots : table[i].used =>
       \E e \in Pending : e.id = table[i].id /\ e.class = table[i].class
  /\ \A i, j \in Slots :
       table[i].used /\ table[j].used /\ table[i].id = table[j].id => i = j

\* An event that a cancel or a purge reported as marked is never given to the
\* rules, whatever is published between the mark and its turn.
CancelledNeverProcessed == cancelled \cap processed = {}

\* Only an event is skipped that has the id of one a cancel or a purge marked,
\* whoever has the entry by then.
OnlyCancelledSkipped == \A e \in skipped : \E c \in cancelled : c.id = e.id

\* With a full table an event can be evicted, but a cancelled one not before
\* every entry is a cancelled one: as long as no two events have one id, fewer
\* cancels than entries are all kept.
FewCancelsKept ==
  stamp = created /\ Cardinality(cancelled) < TableSize => CancelledNeverProcessed

\* A call of claw_event_router_publish returns, even when a rule that emits
\* events into a full queue holds the mutex.
PublishReturns ==
  \A p \in Publishers : pub[p] # "idle" ~> pub[p] = "idle"

\* Every event that got into the queue is processed or skipped in the end.
QueuedHandled ==
  \A n \in 1..MaxEvents :
    (\E e \in ToSet(queue) : e.serial = n)
      ~> (\E e \in skipped \cup processed : e.serial = n)
=============================================================================
