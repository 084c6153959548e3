----------------------------- MODULE RouterProofs -----------------------------
(* Proofs about the two parts of claw_event_router: EventRouter, for any     *)
(* publishers, classes and sizes of the queue and the table, and RuleStore,  *)
(* for any tasks, rules and limit on their number.                           *)
EXTENDS EventRouter, RuleStore, SequenceTheorems, FiniteSetTheorems, TLAPS

\* What an element added at the end, or taken from the front, does to the set
\* of elements of a queue.
LEMMA ToSetAppend ==
  ASSUME NEW S, NEW s \in Seq(S), NEW e \in S
  PROVE  ToSet(Append(s, e)) = ToSet(s) \cup {e}
<1>1. /\ Append(s, e) \in Seq(S)
      /\ Len(Append(s, e)) = Len(s) + 1
      /\ \A i \in 1..Len(s) : Append(s, e)[i] = s[i]
      /\ Append(s, e)[Len(s) + 1] = e
  BY AppendProperties
<1>2. /\ Len(s) \in Nat
      /\ DOMAIN s = 1..Len(s)
      /\ DOMAIN Append(s, e) = 1..(Len(s) + 1)
  BY <1>1, LenProperties
<1> QED BY <1>1, <1>2 DEF ToSet

\* The first element and the rest make up the elements.
LEMMA ToSetTail ==
  ASSUME NEW S, NEW s \in Seq(S), s # <<>>
  PROVE  ToSet(s) = {Head(s)} \cup ToSet(Tail(s))
<1>1. /\ Tail(s) \in Seq(S)
      /\ Len(Tail(s)) = Len(s) - 1
      /\ \A i \in 1..Len(Tail(s)) : Tail(s)[i] = s[i + 1]
  BY HeadTailProperties
<1>2. /\ Len(s) \in Nat \ {0}
      /\ DOMAIN s = 1..Len(s)
      /\ DOMAIN Tail(s) = 1..(Len(s) - 1)
      /\ Head(s) = s[1]
  BY <1>1, LenProperties, EmptySeq
<1>3. \A x : x \in ToSet(s) => x \in {Head(s)} \cup ToSet(Tail(s))
  <2> SUFFICES ASSUME NEW i \in 1..Len(s)
               PROVE  s[i] \in {Head(s)} \cup ToSet(Tail(s))
    BY <1>2 DEF ToSet
  <2>1. CASE i = 1
    BY <1>2, <2>1
  <2>2. CASE i # 1
    <3>1. i - 1 \in 1..(Len(s) - 1) /\ (i - 1) + 1 = i
      BY <1>2, <2>2
    <3> QED BY <1>1, <1>2, <3>1 DEF ToSet
  <2> QED BY <2>1, <2>2
<1>4. \A x : x \in {Head(s)} \cup ToSet(Tail(s)) => x \in ToSet(s)
  BY <1>1, <1>2 DEF ToSet
<1> QED BY <1>3, <1>4

\* The disjuncts of the next-state relation, each with its parameters.
LEMMA NextCases ==
  ASSUME [Next]_vars
  PROVE  \/ Receive \/ Take \/ RunRules \/ Emit \/ EmitSend \/ EmitTimeout \/ EndRules
         \/ \E p \in Publishers :
              \/ Publish(p) \/ PublishTrack(p) \/ PublishSend(p)
              \/ PublishTimeout(p) \/ PublishUndo(p)
         \/ \E id \in 1..MaxEvents : Cancel(id)
         \/ \E filter \in Filters : Purge(filter)
         \/ UNCHANGED vars
BY DEF Next, Router, Publishing

-----------------------------------------------------------------------------
(* The table.                                                              *)

\* A set of slots has a least element.
LEMMA LeastSlot ==
  ASSUME NEW S, S \subseteq Slots, S # {}
  PROVE  Least(S) \in S
<1> DEFINE R == OpToRel(<, Nat)
<1>1. IsWellFoundedOn(R, Nat)
  BY NatLessThanWellFounded, Zenon
<1>2. S \subseteq Nat
  BY DEF Slots
<1>3. PICK i \in S : \A j \in S : ~(<<j, i>> \in R)
  <2> HIDE DEF R
  <2> QED BY <1>1, <1>2, WFMin
<1>4. \A j \in S : <<j, i>> \in R <=> j < i
  BY <1>2, Zenon DEF OpToRel
<1>5. \A j \in S : i <= j
  <2> HIDE DEF R
  <2>1. \A j \in S : ~(j < i)
    BY <1>3, <1>4
  <2>2. i \in Nat /\ \A j \in S : j \in Nat
    BY <1>2
  <2> QED BY <2>1, <2>2
<1>6. \E k \in S : \A j \in S : k <= j
  BY <1>5
<1> HIDE DEF R
<1> QED BY <1>6 DEF Least

\* An event is noted in the slot of its id, or in one that is free or given up.
LEMMA TrackSlotType ==
  ASSUME NEW e
  PROVE  /\ TrackSlot(e) \in Slots
         /\ SlotsOf(e.id) # {} => TrackSlot(e) \in SlotsOf(e.id)
<1>1. 1 \in Slots
  BY SizeAssumption DEF Slots
<1>2. SlotsOf(e.id) \subseteq Slots
  BY DEF SlotsOf
<1>3. ASSUME NEW S, S \subseteq Slots PROVE Victim(S) \in Slots
  BY <1>1, <1>3, LeastSlot DEF Victim
<1>4. AllocSlot \in Slots
  BY <1>3, LeastSlot DEF AllocSlot
<1> QED BY <1>2, <1>4, LeastSlot DEF TrackSlot

LEMMA NoEventApart == NoEvent \notin Event /\ \A e \in Event : e.serial \in Nat \ {0}
BY DEF NoEvent, Event

\* Stamps keep pace with creations: an id in use is one of a created event.
LEMMA NewEventType ==
  ASSUME TypeOK, created < MaxEvents, NEW e \in NewEvents
  PROVE  /\ e \in Event /\ e # NoEvent
         /\ Newest(e.id) \in 0..(created + 1)
         /\ created + 1 \in 0..MaxEvents
BY SizeAssumption, NoEventApart DEF TypeOK, NewEvents, Ids, Event, Newest

LEMMA EntryType ==
  ASSUME NEW e \in Event
  PROVE  [used |-> TRUE, id |-> e.id, class |-> e.class, cancelled |-> FALSE] \in Entry
BY DEF Event, Entry

TableOK == table \in [Slots -> Entry \cup {Free}]

LEMMA TrackTable ==
  ASSUME TableOK, NEW e \in Event, Track(e)
  PROVE  TableOK'
BY EntryType, TrackSlotType DEF TableOK, Track

LEMMA ForgetTable ==
  ASSUME TableOK, NEW e \in Event, Forget(e)
  PROVE  TableOK'
BY LeastSlot DEF TableOK, Forget, SlotsOf

LEMMA MarkTable ==
  ASSUME TableOK, NEW S, \A i \in S : i \in Slots /\ table[i].used, Mark(S)
  PROVE  TableOK'
<1>1. ASSUME NEW i \in S PROVE [table[i] EXCEPT !.cancelled = TRUE] \in Entry
  <2>1. table[i] \in Entry
    BY <1>1 DEF TableOK, Free
  <2> QED BY <2>1 DEF Entry
<1> QED BY <1>1 DEF TableOK, Mark

\* TypeOK: the queue keeps its length, the table its shape, and an event is in
\* hand exactly while its publisher or the router task works on it.
THEOREM TypeCorrect == Spec => []TypeOK
<1>1. Init => TypeOK
  BY SizeAssumption DEF Init, TypeOK
<1>2. TypeOK /\ [Next]_vars => TypeOK'
  <2> SUFFICES ASSUME TypeOK, [Next]_vars
               PROVE  TypeOK'
    OBVIOUS
  <2>0. TableOK
    BY DEF TypeOK, TableOK
  <2>1. CASE Receive
    <3>1. Head(queue) \in Event /\ Tail(queue) \in Seq(Event)
          /\ Len(Tail(queue)) = Len(queue) - 1
      BY <2>1, HeadTailProperties DEF TypeOK, Receive
    <3> QED BY <2>1, <3>1, SizeAssumption, NoEventApart DEF TypeOK, Receive, historyVars
  <2>2. CASE Take
    <3>1. current \in Event
      BY <2>2 DEF TypeOK, Take
    <3>2. TableOK'
      BY <2>0, <2>2, <3>1, ForgetTable DEF Take
    <3> QED BY <2>2, <3>1, <3>2 DEF TypeOK, Take, TableOK
  <2>3. CASE RunRules
    BY <2>3 DEF TypeOK, RunRules, historyVars
  <2>4. CASE Emit
    <3>1. PICK e \in NewEvents : /\ emitted' = e
                                 /\ stamp' = Newest(e.id)
                                 /\ Track(e)
      BY <2>4 DEF Emit
    <3>2. created < MaxEvents
      BY <2>4 DEF Emit
    <3>3. TableOK'
      BY <2>0, <3>1, <3>2, NewEventType, TrackTable
    <3> QED BY <2>4, <3>1, <3>2, <3>3, NewEventType DEF TypeOK, Emit, TableOK, historyVars
  <2>5. CASE EmitSend
    <3>1. emitted \in Event
      BY <2>5 DEF TypeOK, EmitSend
    <3>2. Append(queue, emitted) \in Seq(Event)
          /\ Len(Append(queue, emitted)) = Len(queue) + 1
      BY <3>1, AppendProperties DEF TypeOK
    <3> QED BY <2>5, <3>2, SizeAssumption DEF TypeOK, EmitSend, historyVars
  <2>6. CASE EmitTimeout
    <3>1. emitted \in Event
      BY <2>6 DEF TypeOK, EmitTimeout
    <3>2. TableOK'
      BY <2>0, <2>6, <3>1, ForgetTable DEF EmitTimeout
    <3> QED BY <2>6, <3>2 DEF TypeOK, EmitTimeout, TableOK, historyVars
  <2>7. CASE EndRules
    BY <2>7 DEF TypeOK, EndRules, historyVars
  <2>8. ASSUME NEW p \in Publishers, Publish(p)
        PROVE  TypeOK'
    <3>1. PICK e \in NewEvents : /\ event' = [event EXCEPT ![p] = e]
                                 /\ stamp' = Newest(e.id)
      BY <2>8 DEF Publish
    <3>2. created < MaxEvents
      BY <2>8 DEF Publish
    <3> QED BY <2>8, <3>1, <3>2, NewEventType DEF TypeOK, Publish, historyVars
  <2>9. ASSUME NEW p \in Publishers, PublishTrack(p)
        PROVE  TypeOK'
    <3>1. event[p] \in Event
      BY <2>9 DEF TypeOK, PublishTrack
    <3>2. TableOK'
      BY <2>0, <2>9, <3>1, TrackTable DEF PublishTrack
    <3> QED BY <2>9, <3>2 DEF TypeOK, PublishTrack, TableOK, historyVars
  <2>10. ASSUME NEW p \in Publishers, PublishSend(p)
         PROVE  TypeOK'
    <3>1. event[p] \in Event
      BY <2>10 DEF TypeOK, PublishSend
    <3>2. Append(queue, event[p]) \in Seq(Event)
          /\ Len(Append(queue, event[p])) = Len(queue) + 1
      BY <3>1, AppendProperties DEF TypeOK
    <3> QED BY <2>10, <3>2, SizeAssumption DEF TypeOK, PublishSend, historyVars
  <2>11. ASSUME NEW p \in Publishers, PublishTimeout(p)
         PROVE  TypeOK'
    BY <2>11 DEF TypeOK, PublishTimeout, historyVars
  <2>12. ASSUME NEW p \in Publishers, PublishUndo(p)
         PROVE  TypeOK'
    <3>1. event[p] \in Event
      BY <2>12 DEF TypeOK, PublishUndo
    <3>2. TableOK'
      BY <2>0, <2>12, <3>1, ForgetTable DEF PublishUndo
    <3> QED BY <2>12, <3>2 DEF TypeOK, PublishUndo, TableOK, historyVars
  <2>13. Pending \subseteq Event
    <3>1. ToSet(queue) \subseteq Event
      BY DEF TypeOK, ToSet
    <3> QED BY <3>1 DEF TypeOK, Pending
  <2>14. ASSUME NEW id \in 1..MaxEvents, Cancel(id)
         PROVE  TypeOK'
    <3>1. Least(SlotsOf(id)) \in SlotsOf(id)
      BY <2>14, LeastSlot DEF Cancel, SlotsOf
    <3>2. TableOK'
      BY <2>0, <2>14, <3>1, MarkTable DEF Cancel, SlotsOf
    <3> QED BY <2>13, <2>14, <3>2 DEF TypeOK, Cancel, TableOK
  <2>15. ASSUME NEW filter \in Filters, Purge(filter)
         PROVE  TypeOK'
    <3>1. TableOK'
      BY <2>0, <2>15, MarkTable DEF Purge
    <3> QED BY <2>13, <2>15, <3>1 DEF TypeOK, Purge, TableOK
  <2>16. CASE UNCHANGED vars
    BY <2>16 DEF TypeOK, vars, historyVars
  <2> QED BY <2>1, <2>2, <2>3, <2>4, <2>5, <2>6, <2>7, <2>8, <2>9, <2>10, <2>11,
             <2>12, <2>14, <2>15, <2>16, NextCases
<1> QED BY <1>1, <1>2, PTL DEF Spec

-----------------------------------------------------------------------------
(* The table and the events on their way.                                  *)

Owned == \A i \in Slots : table[i].used =>
           \E e \in Pending : e.id = table[i].id /\ e.class = table[i].class

Unique == \A i, j \in Slots :
            table[i].used /\ table[j].used /\ table[i].id = table[j].id => i = j

\* Whoever carries a cancelled mark carries it for an event that was cancelled.
MarkTold == \A i \in Slots : table[i].used /\ table[i].cancelled =>
              \E c \in cancelled : c.id = table[i].id

LEMMA PendingType ==
  ASSUME TypeOK
  PROVE  Pending \subseteq Event
<1>1. ToSet(queue) \subseteq Event
  BY DEF TypeOK, ToSet
<1> QED BY <1>1 DEF TypeOK, Pending

\* Noting an event leaves one entry of its id, unmarked, and the others alone.
LEMMA TrackEntries ==
  ASSUME TypeOK, Unique, NEW e \in Event, Track(e)
  PROVE  /\ table'[TrackSlot(e)] =
              [used |-> TRUE, id |-> e.id, class |-> e.class, cancelled |-> FALSE]
         /\ \A i \in Slots \ {TrackSlot(e)} :
              table'[i] = table[i] /\ (table[i].used => table[i].id # e.id)
<1>1. TrackSlot(e) \in Slots
  BY TrackSlotType
<1>2. ASSUME NEW i \in Slots \ {TrackSlot(e)}, table[i].used, table[i].id = e.id
      PROVE  FALSE
  <2>1. i \in SlotsOf(e.id)
    BY <1>2 DEF SlotsOf
  <2>2. TrackSlot(e) \in SlotsOf(e.id)
    BY <2>1, TrackSlotType
  <2> QED BY <1>2, <2>1, <2>2 DEF Unique, SlotsOf
<1> QED BY <1>1, <1>2 DEF Track, TypeOK

\* Forgetting an event takes the one entry of its id out.
LEMMA ForgetEntries ==
  ASSUME TypeOK, Unique, NEW e \in Event, Forget(e)
  PROVE  /\ \A i \in Slots : table'[i].used => table'[i] = table[i] /\ table[i].id # e.id
         /\ \A i \in Slots : table[i].used /\ table[i].id # e.id => table'[i] = table[i]
<1>1. CASE SlotsOf(e.id) = {}
  BY <1>1 DEF Forget, SlotsOf
<1>2. CASE SlotsOf(e.id) # {}
  <2> DEFINE s == Least(SlotsOf(e.id))
  <2>1. s \in SlotsOf(e.id)
    BY <1>2, LeastSlot DEF SlotsOf
  <2>2. s \in Slots /\ table[s].used /\ table[s].id = e.id
    BY <2>1 DEF SlotsOf
  <2>3. table' = [table EXCEPT ![s] = Free]
    BY <1>2 DEF Forget
  <2> HIDE DEF s
  <2>4. ASSUME NEW i \in Slots, i # s, table[i].used
        PROVE  table[i].id # e.id
    BY <2>2, <2>4 DEF Unique
  <2>5. ~Free.used
    BY DEF Free
  <2> QED BY <2>2, <2>3, <2>4, <2>5 DEF TypeOK
<1> QED BY <1>1, <1>2

\* Marking changes nothing but the marks.
LEMMA MarkEntries ==
  ASSUME TypeOK, NEW S, \A i \in S : i \in Slots /\ table[i].used, Mark(S)
  PROVE  \A i \in Slots :
           /\ table'[i].used = table[i].used
           /\ table[i].used => /\ table'[i].id = table[i].id
                               /\ table'[i].class = table[i].class
                               /\ table'[i].cancelled = (table[i].cancelled \/ i \in S)
           /\ i \notin S => table'[i] = table[i]
<1>1. ASSUME NEW i \in Slots, i \in S
      PROVE  /\ table[i] \in Entry
             /\ table'[i] = [table[i] EXCEPT !.cancelled = TRUE]
  BY <1>1 DEF TypeOK, Mark, Free
<1>2. ASSUME NEW i \in Slots, i \notin S
      PROVE  table'[i] = table[i]
  BY <1>2 DEF Mark
<1>3. ASSUME NEW i \in Slots, table[i].used
      PROVE  table[i].cancelled \in BOOLEAN /\ table[i].used = TRUE
  <2>1. table[i] \in Entry
    BY <1>3 DEF TypeOK, Free
  <2> QED BY <2>1 DEF Entry
<1>4. ASSUME NEW i \in Slots, i \in S
      PROVE  /\ table'[i].used = table[i].used
             /\ table'[i].id = table[i].id /\ table'[i].class = table[i].class
             /\ table'[i].cancelled = TRUE
  <2>1. table[i] \in Entry /\ table'[i] = [table[i] EXCEPT !.cancelled = TRUE]
    BY <1>1, <1>4
  <2> QED BY <2>1 DEF Entry
<1> QED BY <1>2, <1>3, <1>4

\* The entries after an event was noted.
LEMMA TrackKeeps ==
  ASSUME TypeOK, TableLive, MarkTold, NEW e \in Event, Track(e), e \in Pending',
         Pending \subseteq Pending', cancelled' = cancelled
  PROVE  TableLive' /\ MarkTold'
<1>1. Unique
  BY DEF TableLive, Unique
<1>2. /\ table'[TrackSlot(e)] =
           [used |-> TRUE, id |-> e.id, class |-> e.class, cancelled |-> FALSE]
      /\ \A i \in Slots \ {TrackSlot(e)} :
           table'[i] = table[i] /\ (table[i].used => table[i].id # e.id)
  BY <1>1, TrackEntries
<1>3. Owned'
  BY <1>2 DEF TableLive, Owned
<1>4. Unique'
  BY <1>2 DEF TableLive, Unique
<1>5. MarkTold'
  BY <1>2 DEF MarkTold
<1> QED BY <1>3, <1>4, <1>5 DEF TableLive, Owned, Unique

\* The entries after an event was forgotten.
LEMMA ForgetKeeps ==
  ASSUME TypeOK, TableLive, MarkTold, NEW e \in Event, Forget(e),
         \A x \in Pending : x = e \/ x \in Pending', cancelled' = cancelled
  PROVE  TableLive' /\ MarkTold'
<1>1. Unique
  BY DEF TableLive, Unique
<1>2. \A i \in Slots : table'[i].used => table'[i] = table[i] /\ table[i].id # e.id
  BY <1>1, ForgetEntries
<1>3. Owned'
  BY <1>2 DEF TableLive, Owned
<1>4. Unique'
  BY <1>2 DEF TableLive, Unique
<1>5. MarkTold'
  BY <1>2 DEF MarkTold
<1> QED BY <1>3, <1>4, <1>5 DEF TableLive, Owned, Unique

\* The entries after some were marked, and events of all their ids reported.
LEMMA MarkKeeps ==
  ASSUME TypeOK, TableLive, MarkTold, NEW S, \A i \in S : i \in Slots /\ table[i].used,
         Mark(S), Pending' = Pending, cancelled \subseteq cancelled',
         \A i \in S : \E c \in cancelled' : c.id = table[i].id
  PROVE  TableLive' /\ MarkTold'
<1>1. \A i \in Slots :
        /\ table'[i].used = table[i].used
        /\ table[i].used => /\ table'[i].id = table[i].id
                            /\ table'[i].class = table[i].class
                            /\ table'[i].cancelled = (table[i].cancelled \/ i \in S)
  BY MarkEntries
<1>2. Owned'
  BY <1>1 DEF TableLive, Owned
<1>3. Unique'
  BY <1>1 DEF TableLive, Unique
<1>4. MarkTold'
  BY <1>1 DEF MarkTold
<1> QED BY <1>2, <1>3, <1>4 DEF TableLive, Owned, Unique

\* The entries of a step that leaves the table alone.
LEMMA StillKeeps ==
  ASSUME TableLive, MarkTold, table' = table, Pending \subseteq Pending',
         cancelled' = cancelled
  PROVE  TableLive' /\ MarkTold'
BY DEF TableLive, MarkTold

-----------------------------------------------------------------------------
(* What each action does to the events on their way.                       *)

LEMMA ReceivePending ==
  ASSUME TypeOK, Receive
  PROVE  Pending' = Pending
<1>1. ToSet(queue) = {current'} \cup ToSet(queue')
  BY ToSetTail DEF TypeOK, Receive
<1> QED BY <1>1 DEF Receive, Pending

LEMMA TakePending ==
  ASSUME Take
  PROVE  Pending = Pending' \cup {current}
BY DEF Take, Pending

LEMMA EmitPending ==
  ASSUME Emit
  PROVE  Pending' = Pending \cup {emitted'}
BY DEF Emit, Pending, historyVars

LEMMA EmitSendPending ==
  ASSUME TypeOK, EmitSend
  PROVE  Pending' = Pending
<1>1. emitted \in Event
  BY DEF TypeOK, EmitSend
<1>2. ToSet(queue') = ToSet(queue) \cup {emitted}
  BY <1>1, ToSetAppend DEF TypeOK, EmitSend
<1> QED BY <1>2 DEF EmitSend, Pending

LEMMA EmitTimeoutPending ==
  ASSUME EmitTimeout
  PROVE  Pending = Pending' \cup {emitted}
BY DEF EmitTimeout, Pending

LEMMA TaskPending ==
  ASSUME RunRules \/ EndRules \/ UNCHANGED vars
  PROVE  Pending' = Pending
BY DEF RunRules, EndRules, Pending, vars

LEMMA PublishPending ==
  ASSUME TypeOK, NEW p \in Publishers, Publish(p)
  PROVE  Pending' = Pending
<1>1. /\ queue' = queue /\ task' = task /\ current' = current /\ emitted' = emitted
      /\ pub[p] = "idle" /\ pub'[p] = "track"
      /\ \A q \in Publishers \ {p} : pub'[q] = pub[q] /\ event'[q] = event[q]
  BY DEF TypeOK, Publish
<1>2. {event'[q] : q \in {r \in Publishers : pub'[r] \in {"send", "undo"}}}
        = {event[q] : q \in {r \in Publishers : pub[r] \in {"send", "undo"}}}
  BY <1>1
<1> QED BY <1>1, <1>2 DEF Pending

LEMMA PublishTrackPending ==
  ASSUME TypeOK, NEW p \in Publishers, PublishTrack(p)
  PROVE  Pending' = Pending \cup {event[p]}
<1>1. /\ queue' = queue /\ task' = task /\ current' = current /\ emitted' = emitted
      /\ pub[p] = "track" /\ pub'[p] = "send" /\ event' = event
      /\ \A q \in Publishers \ {p} : pub'[q] = pub[q]
  BY DEF TypeOK, PublishTrack
<1>2. {event'[q] : q \in {r \in Publishers : pub'[r] \in {"send", "undo"}}}
        = {event[q] : q \in {r \in Publishers : pub[r] \in {"send", "undo"}}} \cup {event[p]}
  BY <1>1
<1> QED BY <1>1, <1>2 DEF Pending

LEMMA PublishSendPending ==
  ASSUME TypeOK, NEW p \in Publishers, PublishSend(p)
  PROVE  Pending' = Pending
<1>1. /\ task' = task /\ current' = current /\ emitted' = emitted
      /\ pub[p] = "send" /\ pub'[p] = "idle"
      /\ \A q \in Publishers \ {p} : pub'[q] = pub[q] /\ event'[q] = event[q]
  BY DEF TypeOK, PublishSend
<1>2. event[p] \in Event
  BY <1>1 DEF TypeOK
<1>3. ToSet(queue') = ToSet(queue) \cup {event[p]}
  BY <1>2, ToSetAppend DEF TypeOK, PublishSend
<1>4. {event'[q] : q \in {r \in Publishers : pub'[r] \in {"send", "undo"}}} \cup {event[p]}
        = {event[q] : q \in {r \in Publishers : pub[r] \in {"send", "undo"}}}
  BY <1>1
<1> QED BY <1>1, <1>3, <1>4 DEF Pending

LEMMA PublishTimeoutPending ==
  ASSUME TypeOK, NEW p \in Publishers, PublishTimeout(p)
  PROVE  Pending' = Pending
<1>1. /\ queue' = queue /\ task' = task /\ current' = current /\ emitted' = emitted
      /\ pub[p] = "send" /\ pub'[p] = "undo" /\ event' = event
      /\ \A q \in Publishers \ {p} : pub'[q] = pub[q]
  BY DEF TypeOK, PublishTimeout
<1>2. {event'[q] : q \in {r \in Publishers : pub'[r] \in {"send", "undo"}}}
        = {event[q] : q \in {r \in Publishers : pub[r] \in {"send", "undo"}}}
  BY <1>1
<1> QED BY <1>1, <1>2 DEF Pending

LEMMA PublishUndoPending ==
  ASSUME TypeOK, NEW p \in Publishers, PublishUndo(p)
  PROVE  Pending = Pending' \cup {event[p]}
<1>1. /\ queue' = queue /\ task' = task /\ current' = current /\ emitted' = emitted
      /\ pub[p] = "undo" /\ pub'[p] = "idle"
      /\ \A q \in Publishers \ {p} : pub'[q] = pub[q] /\ event'[q] = event[q]
  BY DEF TypeOK, PublishUndo
<1>2. {event'[q] : q \in {r \in Publishers : pub'[r] \in {"send", "undo"}}} \cup {event[p]}
        = {event[q] : q \in {r \in Publishers : pub[r] \in {"send", "undo"}}}
  BY <1>1
<1> QED BY <1>1, <1>2 DEF Pending

LEMMA CancelPending ==
  ASSUME (\E id \in 1..MaxEvents : Cancel(id)) \/ (\E filter \in Filters : Purge(filter))
  PROVE  Pending' = Pending
<1>1. UNCHANGED <<queue, pub, event, task, current, emitted>>
  BY DEF Cancel, Purge
<1> QED BY <1>1 DEF Pending

-----------------------------------------------------------------------------
(* No leftovers, and no event skipped unasked.                             *)

TableInv == TypeOK /\ TableLive /\ MarkTold

LEMMA TableRouter ==
  ASSUME TableInv, Receive \/ Take \/ RunRules \/ Emit \/ EmitSend \/ EmitTimeout \/ EndRules
  PROVE  TableLive' /\ MarkTold'
<1> USE DEF TableInv
<1>1. CASE Receive
  BY <1>1, ReceivePending, StillKeeps DEF Receive, historyVars
<1>2. CASE Take
  <2>1. current \in Event
    BY <1>2 DEF TypeOK, Take
  <2>2. \A x \in Pending : x = current \/ x \in Pending'
    BY <1>2, TakePending
  <2> QED BY <1>2, <2>1, <2>2, ForgetKeeps DEF Take
<1>3. CASE RunRules
  BY <1>3, TaskPending, StillKeeps DEF RunRules, historyVars
<1>4. CASE Emit
  <2>1. PICK e \in NewEvents : emitted' = e /\ Track(e)
    BY <1>4 DEF Emit
  <2>2. e \in Event
    BY <1>4, NewEventType DEF Emit
  <2> QED BY <1>4, <2>1, <2>2, EmitPending, TrackKeeps DEF Emit, historyVars
<1>5. CASE EmitSend
  BY <1>5, EmitSendPending, StillKeeps DEF EmitSend, historyVars
<1>6. CASE EmitTimeout
  <2>1. emitted \in Event
    BY <1>6 DEF TypeOK, EmitTimeout
  <2>2. \A x \in Pending : x = emitted \/ x \in Pending'
    BY <1>6, EmitTimeoutPending
  <2> QED BY <1>6, <2>1, <2>2, ForgetKeeps DEF EmitTimeout, historyVars
<1>7. CASE EndRules
  BY <1>7, TaskPending, StillKeeps DEF EndRules, historyVars
<1> QED BY <1>1, <1>2, <1>3, <1>4, <1>5, <1>6, <1>7

LEMMA TablePublisher ==
  ASSUME TableInv, NEW p \in Publishers,
         \/ Publish(p) \/ PublishTrack(p) \/ PublishSend(p)
         \/ PublishTimeout(p) \/ PublishUndo(p)
  PROVE  TableLive' /\ MarkTold'
<1> USE DEF TableInv
<1>1. CASE Publish(p)
  BY <1>1, PublishPending, StillKeeps DEF Publish, historyVars
<1>2. CASE PublishTrack(p)
  <2>1. event[p] \in Event
    BY <1>2 DEF TypeOK, PublishTrack
  <2> QED BY <1>2, <2>1, PublishTrackPending, TrackKeeps DEF PublishTrack, historyVars
<1>3. CASE PublishSend(p)
  BY <1>3, PublishSendPending, StillKeeps DEF PublishSend, historyVars
<1>4. CASE PublishTimeout(p)
  BY <1>4, PublishTimeoutPending, StillKeeps DEF PublishTimeout, historyVars
<1>5. CASE PublishUndo(p)
  <2>1. event[p] \in Event
    BY <1>5 DEF TypeOK, PublishUndo
  <2>2. \A x \in Pending : x = event[p] \/ x \in Pending'
    BY <1>5, PublishUndoPending
  <2> QED BY <1>5, <2>1, <2>2, ForgetKeeps DEF PublishUndo, historyVars
<1> QED BY <1>1, <1>2, <1>3, <1>4, <1>5

LEMMA TableCancel ==
  ASSUME TableInv, NEW id \in 1..MaxEvents, Cancel(id)
  PROVE  TableLive' /\ MarkTold'
<1> USE DEF TableInv
<1> DEFINE s == Least(SlotsOf(id))
<1>1. s \in SlotsOf(id)
  BY LeastSlot DEF Cancel, SlotsOf
<1>2. s \in Slots /\ table[s].used /\ table[s].id = id
  BY <1>1 DEF SlotsOf
<1>3. Mark({s}) /\ cancelled' = cancelled \cup {e \in Pending : e.id = id}
  BY DEF Cancel
<1> HIDE DEF s
<1>4. PICK e \in Pending : e.id = id
  BY <1>2 DEF TableLive
<1>5. Pending' = Pending
  BY CancelPending
<1> QED BY <1>2, <1>3, <1>4, <1>5, MarkKeeps

\* The entries a purge marks, and the events it reports.
Hits(filter) == {i \in Slots : table[i].used /\ ~table[i].cancelled /\ MatchFilter(i, filter)}
Told(filter) == {e \in Pending : e.class \in filter /\ \E i \in Hits(filter) : table[i].id = e.id}

LEMMA PurgeStep ==
  ASSUME NEW filter \in Filters, Purge(filter)
  PROVE  Mark(Hits(filter)) /\ cancelled' = cancelled \cup Told(filter) /\ ~Locked
BY DEF Purge, Hits, Told

LEMMA TablePurge ==
  ASSUME TableInv, NEW filter \in Filters, Purge(filter)
  PROVE  TableLive' /\ MarkTold'
<1> USE DEF TableInv
<1>1. ASSUME NEW i \in Hits(filter)
      PROVE  \E c \in cancelled' : c.id = table[i].id
  <2>1. i \in Slots /\ table[i].used /\ table[i].class \in filter
    BY DEF Hits, MatchFilter
  <2>2. PICK e \in Pending : e.id = table[i].id /\ e.class = table[i].class
    BY <2>1 DEF TableLive
  <2>3. e \in Told(filter)
    BY <2>1, <2>2 DEF Told
  <2> QED BY <2>2, <2>3, PurgeStep
<1>2. Pending' = Pending
  BY CancelPending
<1>3. \A i \in Hits(filter) : i \in Slots /\ table[i].used
  BY DEF Hits
<1>4. Mark(Hits(filter)) /\ cancelled \subseteq cancelled'
  BY PurgeStep
<1> QED BY <1>1, <1>2, <1>3, <1>4, MarkKeeps

\* TableLive is inductive together with the types and MarkTold: a mark is put
\* only on an entry whose event is on its way and is reported with it.
THEOREM TableInductive == Spec => []TableInv
<1>1. Init => TableInv
  BY SizeAssumption DEF Init, TableInv, TypeOK, TableLive, MarkTold, Free
<1>2. TableInv /\ [Next]_vars => TableLive' /\ MarkTold'
  <2> SUFFICES ASSUME TableInv, [Next]_vars
               PROVE  TableLive' /\ MarkTold'
    OBVIOUS
  <2>1. CASE UNCHANGED vars
    BY <2>1, TaskPending, StillKeeps DEF TableInv, vars
  <2> QED BY <2>1, NextCases, TableRouter, TablePublisher, TableCancel, TablePurge
<1>3. TypeOK /\ TableInv /\ [Next]_vars /\ TypeOK' => TableInv'
  BY <1>2 DEF TableInv
<1> QED BY <1>1, <1>3, TypeCorrect, PTL DEF Spec

\* TableLive: the table holds no leftovers and no id twice.
THEOREM TableCorrect == Spec => []TableLive
<1>1. TableInv => TableLive
  BY DEF TableInv
<1> QED BY <1>1, TableInductive, PTL

\* OnlyCancelledSkipped: an event is skipped only when one of its id was
\* cancelled, through evictions, ids used again and timeouts.
THEOREM SkippedCorrect == Spec => []OnlyCancelledSkipped
<1>1. Init => OnlyCancelledSkipped
  BY DEF Init, OnlyCancelledSkipped
<1>2. TableInv /\ OnlyCancelledSkipped /\ [Next]_vars => OnlyCancelledSkipped'
  <2> SUFFICES ASSUME TableInv, OnlyCancelledSkipped, [Next]_vars
               PROVE  OnlyCancelledSkipped'
    OBVIOUS
  <2>1. CASE Take /\ IsCancelled(current)
    <3> DEFINE s == Least(SlotsOf(current.id))
    <3>1. s \in SlotsOf(current.id)
      BY <2>1, LeastSlot DEF IsCancelled, SlotsOf
    <3>2. s \in Slots /\ table[s].used /\ table[s].cancelled /\ table[s].id = current.id
      BY <2>1, <3>1 DEF IsCancelled, SlotsOf
    <3> HIDE DEF s
    <3>3. \E c \in cancelled : c.id = current.id
      BY <3>2 DEF TableInv, MarkTold
    <3>4. skipped' = skipped \cup {current} /\ cancelled' = cancelled
      BY <2>1 DEF Take
    <3> QED BY <3>3, <3>4 DEF OnlyCancelledSkipped
  <2>2. CASE skipped' = skipped /\ cancelled \subseteq cancelled'
    BY <2>2 DEF OnlyCancelledSkipped
  <2>3. CASE Take /\ ~IsCancelled(current)
    BY <2>2, <2>3 DEF Take
  <2>4. CASE Receive \/ RunRules \/ Emit \/ EmitSend \/ EmitTimeout \/ EndRules \/ UNCHANGED vars
    BY <2>2, <2>4 DEF Receive, RunRules, Emit, EmitSend, EmitTimeout, EndRules, vars, historyVars
  <2>5. ASSUME NEW p \in Publishers,
               \/ Publish(p) \/ PublishTrack(p) \/ PublishSend(p)
               \/ PublishTimeout(p) \/ PublishUndo(p)
        PROVE  OnlyCancelledSkipped'
    BY <2>2, <2>5 DEF Publish, PublishTrack, PublishSend, PublishTimeout, PublishUndo, historyVars
  <2>6. ASSUME NEW id \in 1..MaxEvents, Cancel(id)
        PROVE  OnlyCancelledSkipped'
    BY <2>2, <2>6 DEF Cancel
  <2>7. ASSUME NEW filter \in Filters, Purge(filter)
        PROVE  OnlyCancelledSkipped'
    BY <2>2, <2>7 DEF Purge
  <2> QED BY <2>1, <2>3, <2>4, <2>5, <2>6, <2>7, NextCases
<1> QED BY <1>1, <1>2, TableInductive, PTL DEF Spec

-----------------------------------------------------------------------------
(* Every event is in one place.                                            *)

\* The event the router task has taken and not yet looked up.
Taken == IF task = "take" THEN current ELSE NoEvent

\* The events that are somewhere, NoEvent standing for an empty hand.
On == ToSet(queue) \cup {event[p] : p \in Publishers} \cup {Taken, emitted}

\* No event is in two places.
Apart ==
  /\ \A i, j \in 1..Len(queue) : i # j => queue[i].serial # queue[j].serial
  /\ \A p, q \in Publishers :
       p # q /\ event[p].serial # 0 => event[p].serial # event[q].serial
  /\ \A x \in ToSet(queue) :
       /\ x.serial # Taken.serial /\ x.serial # emitted.serial
       /\ \A p \in Publishers : x.serial # event[p].serial
  /\ \A p \in Publishers : event[p].serial # 0 =>
       event[p].serial # Taken.serial /\ event[p].serial # emitted.serial

\* Serials follow the creations, and so do ids as long as all were fresh.
Numbered == \A x \in On : x.serial <= created /\ (stamp = created => x.id = x.serial)

\* What was dealt with is nowhere any more.
Past == \A d \in skipped \cup processed :
          d.serial <= created /\ \A x \in On : x.serial # d.serial

Serials == Apart /\ Numbered /\ Past

\* A step that creates nothing and deals with nothing.
LEMMA SerialsMove ==
  ASSUME TypeOK, Serials, Apart', On' \subseteq On \cup {NoEvent},
         stamp' = stamp, created' = created, skipped' = skipped, processed' = processed
  PROVE  Serials'
<1>1. NoEvent.serial = 0 /\ NoEvent.id = 0
  BY DEF NoEvent
<1>2. created \in Nat
  BY DEF TypeOK
<1>3. Numbered'
  BY <1>1, <1>2 DEF Serials, Numbered
<1>4. \A d \in skipped \cup processed : d.serial # 0
  BY NoEventApart DEF TypeOK
<1>5. Past'
  BY <1>1, <1>4 DEF Serials, Past
<1> QED BY <1>3, <1>5 DEF Serials

\* A step that creates an event.
LEMMA SerialsCreate ==
  ASSUME TypeOK, Serials, Apart', created < MaxEvents,
         NEW e \in NewEvents, On' \subseteq On \cup {NoEvent, e},
         stamp' = Newest(e.id), created' = created + 1,
         skipped' = skipped, processed' = processed
  PROVE  Serials'
<1>1. NoEvent.serial = 0 /\ NoEvent.id = 0
  BY DEF NoEvent
<1>2. created \in Nat /\ stamp \in 0..created
  BY SizeAssumption DEF TypeOK
<1>3. e.serial = created + 1 /\ e.id \in 1..(stamp + 1)
  BY DEF NewEvents, Ids
<1>4. ASSUME stamp' = created'
      PROVE  stamp = created /\ e.id = created + 1
  BY <1>2, <1>3, <1>4 DEF Newest
<1>5. Numbered'
  <2> SUFFICES ASSUME NEW x \in On'
               PROVE  x.serial <= created' /\ (stamp' = created' => x.id = x.serial)
    BY DEF Numbered
  <2>1. CASE x \in On
    <3>1. x.serial <= created /\ (stamp = created => x.id = x.serial)
      BY <2>1 DEF Serials, Numbered
    <3>2. x \in Event \cup {NoEvent}
      BY <2>1 DEF On, Taken, TypeOK, ToSet
    <3>3. x.serial \in Nat
      BY <1>1, <3>2 DEF Event
    <3> QED BY <1>2, <1>4, <3>1, <3>3
  <2>2. CASE x = NoEvent
    BY <1>1, <1>2, <2>2
  <2>3. CASE x = e
    BY <1>2, <1>3, <1>4, <2>3
  <2> QED BY <2>1, <2>2, <2>3
<1>6. Past'
  <2> SUFFICES ASSUME NEW d \in skipped \cup processed
               PROVE  d.serial <= created' /\ \A x \in On' : x.serial # d.serial
    BY DEF Past
  <2>1. d.serial \in Nat \ {0}
    BY NoEventApart DEF TypeOK
  <2>2. d.serial <= created /\ \A x \in On : x.serial # d.serial
    BY DEF Serials, Past
  <2> QED BY <1>1, <1>2, <1>3, <2>1, <2>2
<1> QED BY <1>5, <1>6 DEF Serials

\* Whatever is somewhere has a number.
LEMMA OnType ==
  ASSUME TypeOK
  PROVE  /\ On \subseteq Event \cup {NoEvent}
         /\ \A x \in On : x.serial \in Nat
         /\ \A x \in ToSet(queue) : x.serial # 0
<1>1. ToSet(queue) \subseteq Event
  BY DEF TypeOK, ToSet
<1>2. On \subseteq Event \cup {NoEvent}
  BY <1>1 DEF On, Taken, TypeOK
<1>3. NoEvent.serial = 0
  BY DEF NoEvent
<1> QED BY <1>1, <1>2, <1>3, NoEventApart

LEMMA ReceiveSerials ==
  ASSUME TypeOK, Serials, Receive
  PROVE  Serials'
<1>1. /\ Len(queue) \in Nat \ {0} /\ Head(queue) = queue[1]
      /\ Len(Tail(queue)) = Len(queue) - 1
      /\ \A i \in 1..Len(Tail(queue)) : Tail(queue)[i] = queue[i + 1]
      /\ DOMAIN Tail(queue) = 1..Len(Tail(queue))
  BY HeadTailProperties, EmptySeq DEF TypeOK, Receive
<1>2. /\ queue' = Tail(queue) /\ Taken' = Head(queue)
      /\ Taken = NoEvent /\ emitted' = emitted /\ event' = event
  BY DEF Receive, Taken
<1>3. ToSet(queue) = {Head(queue)} \cup ToSet(Tail(queue))
  BY ToSetTail DEF TypeOK, Receive
<1>4. ASSUME NEW x \in ToSet(Tail(queue)) PROVE x.serial # Head(queue).serial
  <2>1. PICK i \in 1..Len(Tail(queue)) : x = queue[i + 1]
    BY <1>1 DEF ToSet
  <2>2. i + 1 \in 1..Len(queue) /\ 1 \in 1..Len(queue) /\ i + 1 # 1
    BY <1>1
  <2> QED BY <1>1, <2>1, <2>2 DEF Serials, Apart
<1>5. \A i, j \in 1..Len(queue') : i # j => queue'[i].serial # queue'[j].serial
  BY <1>1, <1>2 DEF Serials, Apart
<1>6. Head(queue) \in ToSet(queue) /\ ToSet(Tail(queue)) \subseteq ToSet(queue)
  BY <1>3
<1>7. Apart'
  BY <1>2, <1>4, <1>5, <1>6 DEF Serials, Apart
<1>8. On' \subseteq On
  BY <1>2, <1>3 DEF On
<1> QED BY <1>7, <1>8, SerialsMove DEF Receive, historyVars

LEMMA TakeSerials ==
  ASSUME TypeOK, Serials, Take
  PROVE  Serials' /\ \A x \in On' : x.serial # current.serial
<1>1. /\ queue' = queue /\ Taken' = NoEvent /\ Taken = current /\ event' = event
      /\ emitted' = emitted /\ emitted = NoEvent
      /\ current \in Event
  BY DEF Take, Taken, TypeOK
<1>2. NoEvent.serial = 0 /\ current.serial \in Nat \ {0}
  BY <1>1, NoEventApart DEF NoEvent
<1>3. \A x \in ToSet(queue) : x.serial # 0
  BY OnType
<1>4. Apart'
  BY <1>1, <1>2, <1>3 DEF Serials, Apart
<1>5. On' \subseteq On \cup {NoEvent}
  BY <1>1 DEF On
<1>6. \A x \in On' : x.serial # current.serial
  <2>1. \A p \in Publishers : event[p].serial # current.serial
    BY <1>1, <1>2 DEF Serials, Apart
  <2>2. \A x \in ToSet(queue) : x.serial # current.serial
    BY <1>1 DEF Serials, Apart
  <2> QED BY <1>1, <1>2, <2>1, <2>2 DEF On
<1>7. /\ skipped' \cup processed' = skipped \cup processed \cup {current}
      /\ stamp' = stamp /\ created' = created
  BY DEF Take
<1>8. created \in Nat /\ current \in On
  BY <1>1 DEF TypeOK, On
<1>9. Numbered'
  BY <1>2, <1>5, <1>7, <1>8 DEF Serials, Numbered, NoEvent
<1>10. Past'
  <2>1. ASSUME NEW d \in skipped \cup processed
        PROVE  d.serial <= created' /\ \A x \in On' : x.serial # d.serial
    <3>1. d.serial # 0
      BY NoEventApart DEF TypeOK
    <3> QED BY <1>2, <1>5, <1>7, <3>1 DEF Serials, Past
  <2>2. current.serial <= created'
    BY <1>7, <1>8 DEF Serials, Numbered
  <2> QED BY <1>6, <1>7, <2>1, <2>2 DEF Past
<1> QED BY <1>4, <1>6, <1>9, <1>10 DEF Serials

LEMMA EmitSerials ==
  ASSUME TypeOK, Serials, NEW e \in NewEvents, emitted' = e, Emit, stamp' = Newest(e.id)
  PROVE  Serials' /\ \A x \in On : x.serial # e.serial
<1>1. /\ queue' = queue /\ Taken' = NoEvent /\ Taken = NoEvent /\ event' = event
      /\ emitted = NoEvent /\ created < MaxEvents /\ created' = created + 1
  BY DEF Emit, Taken, TypeOK
<1>2. NoEvent.serial = 0 /\ created \in Nat /\ e.serial = created + 1
  BY DEF NoEvent, TypeOK, NewEvents
<1>3. \A x \in On : x.serial \in Nat /\ x.serial <= created
  BY OnType DEF Serials, Numbered
<1>4. \A x \in On : x.serial # e.serial
  BY <1>2, <1>3
<1>5. /\ \A x \in ToSet(queue) : x.serial # e.serial
      /\ \A p \in Publishers : event[p].serial # e.serial
  BY <1>4 DEF On
<1>6. Apart'
  BY <1>1, <1>2, <1>5 DEF Serials, Apart
<1>7. On' \subseteq On \cup {NoEvent, e}
  BY <1>1 DEF On
<1> QED BY <1>1, <1>4, <1>6, <1>7, SerialsCreate DEF Emit, historyVars

LEMMA PublishSerials ==
  ASSUME TypeOK, Serials, NEW p \in Publishers, NEW e \in NewEvents, Publish(p),
         event' = [event EXCEPT ![p] = e], stamp' = Newest(e.id)
  PROVE  Serials' /\ \A x \in On : x.serial # e.serial
<1>1. /\ queue' = queue /\ Taken' = Taken /\ emitted' = emitted
      /\ event'[p] = e /\ \A q \in Publishers \ {p} : event'[q] = event[q]
      /\ created < MaxEvents /\ created' = created + 1
  BY DEF Publish, Taken, TypeOK
<1>2. created \in Nat /\ e.serial = created + 1
  BY DEF TypeOK, NewEvents
<1>3. \A x \in On : x.serial \in Nat /\ x.serial <= created
  BY OnType DEF Serials, Numbered
<1>4. \A x \in On : x.serial # e.serial
  BY <1>2, <1>3
<1>5. /\ \A x \in ToSet(queue) : x.serial # e.serial
      /\ \A q \in Publishers : event[q].serial # e.serial
      /\ Taken.serial # e.serial /\ emitted.serial # e.serial
  BY <1>4 DEF On
<1>6. Apart'
  BY <1>1, <1>5 DEF Serials, Apart
<1>7. On' \subseteq On \cup {NoEvent, e}
  BY <1>1 DEF On
<1> QED BY <1>1, <1>4, <1>6, <1>7, SerialsCreate DEF Publish, historyVars

\* An event that joins the queue from a hand.
LEMMA JoinApart ==
  ASSUME TypeOK, Serials, NEW e \in Event, queue' = Append(queue, e),
         \A x \in ToSet(queue) : x.serial # e.serial
  PROVE  /\ \A i, j \in 1..Len(queue') : i # j => queue'[i].serial # queue'[j].serial
         /\ ToSet(queue') = ToSet(queue) \cup {e}
<1>1. /\ Len(queue) \in Nat
      /\ Len(Append(queue, e)) = Len(queue) + 1
      /\ \A i \in 1..Len(queue) : Append(queue, e)[i] = queue[i]
      /\ Append(queue, e)[Len(queue) + 1] = e
  BY AppendProperties, LenProperties DEF TypeOK
<1>2. \A i \in 1..Len(queue) : queue[i].serial # e.serial
  BY LenProperties DEF ToSet, TypeOK
<1>3. ToSet(queue') = ToSet(queue) \cup {e}
  BY ToSetAppend DEF TypeOK
<1> QED BY <1>1, <1>2, <1>3 DEF Serials, Apart

LEMMA EmitSendSerials ==
  ASSUME TypeOK, Serials, EmitSend
  PROVE  Serials'
<1>1. /\ emitted \in Event /\ queue' = Append(queue, emitted) /\ emitted' = NoEvent
      /\ Taken' = Taken /\ Taken = NoEvent /\ event' = event
  BY DEF EmitSend, TypeOK, Taken
<1>2. NoEvent.serial = 0 /\ emitted.serial # 0 /\ \A x \in ToSet(queue) : x.serial # 0
  BY <1>1, NoEventApart, OnType DEF NoEvent
<1>3. \A x \in ToSet(queue) : x.serial # emitted.serial
  BY DEF Serials, Apart
<1>4. /\ \A i, j \in 1..Len(queue') : i # j => queue'[i].serial # queue'[j].serial
      /\ ToSet(queue') = ToSet(queue) \cup {emitted}
  BY <1>1, <1>3, JoinApart
<1>5. \A p \in Publishers : event[p].serial # emitted.serial
  BY <1>2 DEF Serials, Apart
<1>6. Apart'
  BY <1>1, <1>2, <1>3, <1>4, <1>5 DEF Serials, Apart
<1>7. On' \subseteq On \cup {NoEvent}
  BY <1>1, <1>4 DEF On
<1> QED BY <1>6, <1>7, SerialsMove DEF EmitSend, historyVars

LEMMA EmitTimeoutSerials ==
  ASSUME TypeOK, Serials, EmitTimeout
  PROVE  Serials' /\ \A x \in On' : x.serial # emitted.serial
<1>1. /\ emitted \in Event /\ queue' = queue /\ emitted' = NoEvent
      /\ Taken' = Taken /\ Taken = NoEvent /\ event' = event
  BY DEF EmitTimeout, TypeOK, Taken
<1>2. NoEvent.serial = 0 /\ emitted.serial # 0 /\ \A x \in ToSet(queue) : x.serial # 0
  BY <1>1, NoEventApart, OnType DEF NoEvent
<1>3. Apart'
  BY <1>1, <1>2 DEF Serials, Apart
<1>4. On' \subseteq On \cup {NoEvent}
  BY <1>1 DEF On
<1>5. /\ \A x \in ToSet(queue) : x.serial # emitted.serial
      /\ \A p \in Publishers : event[p].serial # emitted.serial
  BY <1>2 DEF Serials, Apart
<1>6. \A x \in On' : x.serial # emitted.serial
  BY <1>1, <1>2, <1>5 DEF On
<1> QED BY <1>3, <1>4, <1>6, SerialsMove DEF EmitTimeout, historyVars

LEMMA StillSerials ==
  ASSUME TypeOK, Serials, RunRules \/ EndRules \/ UNCHANGED vars
  PROVE  Serials'
<1>1. /\ queue' = queue /\ event' = event /\ emitted' = emitted /\ Taken' = Taken
      /\ stamp' = stamp /\ created' = created /\ skipped' = skipped /\ processed' = processed
  BY DEF RunRules, EndRules, Taken, vars, historyVars
<1> QED BY <1>1 DEF Serials, Apart, Numbered, Past, On

LEMMA PublisherSerials ==
  ASSUME TypeOK, Serials, NEW p \in Publishers,
         PublishTrack(p) \/ PublishTimeout(p)
  PROVE  Serials'
<1>1. /\ queue' = queue /\ event' = event /\ emitted' = emitted /\ Taken' = Taken
      /\ stamp' = stamp /\ created' = created /\ skipped' = skipped /\ processed' = processed
  BY DEF PublishTrack, PublishTimeout, Taken, historyVars
<1> QED BY <1>1 DEF Serials, Apart, Numbered, Past, On

LEMMA PublishSendSerials ==
  ASSUME TypeOK, Serials, NEW p \in Publishers, PublishSend(p)
  PROVE  Serials'
<1>1. /\ event[p] \in Event /\ queue' = Append(queue, event[p]) /\ event'[p] = NoEvent
      /\ Taken' = Taken /\ emitted' = emitted
      /\ \A q \in Publishers \ {p} : event'[q] = event[q]
  BY DEF PublishSend, TypeOK, Taken
<1>2. NoEvent.serial = 0 /\ event[p].serial # 0 /\ \A x \in ToSet(queue) : x.serial # 0
  BY <1>1, NoEventApart, OnType DEF NoEvent
<1>3. \A x \in ToSet(queue) : x.serial # event[p].serial
  BY DEF Serials, Apart
<1>4. /\ \A i, j \in 1..Len(queue') : i # j => queue'[i].serial # queue'[j].serial
      /\ ToSet(queue') = ToSet(queue) \cup {event[p]}
  BY <1>1, <1>3, JoinApart
<1>5. /\ event[p].serial # Taken.serial /\ event[p].serial # emitted.serial
      /\ \A q \in Publishers \ {p} : event[q].serial # event[p].serial
  BY <1>2 DEF Serials, Apart
<1>6. Apart'
  BY <1>1, <1>2, <1>3, <1>4, <1>5 DEF Serials, Apart
<1>7. On' \subseteq On \cup {NoEvent}
  BY <1>1, <1>4 DEF On
<1> QED BY <1>6, <1>7, SerialsMove DEF PublishSend, historyVars

LEMMA PublishUndoSerials ==
  ASSUME TypeOK, Serials, NEW p \in Publishers, PublishUndo(p)
  PROVE  Serials' /\ \A x \in On' : x.serial # event[p].serial
<1>1. /\ event[p] \in Event /\ queue' = queue /\ event'[p] = NoEvent
      /\ Taken' = Taken /\ emitted' = emitted
      /\ \A q \in Publishers \ {p} : event'[q] = event[q]
  BY DEF PublishUndo, TypeOK, Taken
<1>2. NoEvent.serial = 0 /\ event[p].serial # 0 /\ \A x \in ToSet(queue) : x.serial # 0
  BY <1>1, NoEventApart, OnType DEF NoEvent
<1>3. Apart'
  BY <1>1, <1>2 DEF Serials, Apart
<1>4. On' \subseteq On \cup {NoEvent}
  BY <1>1 DEF On
<1>5. /\ event[p].serial # Taken.serial /\ event[p].serial # emitted.serial
      /\ \A q \in Publishers \ {p} : event[q].serial # event[p].serial
      /\ \A x \in ToSet(queue) : x.serial # event[p].serial
  BY <1>2 DEF Serials, Apart
<1>6. \A x \in On' : x.serial # event[p].serial
  BY <1>1, <1>2, <1>5 DEF On
<1> QED BY <1>3, <1>4, <1>6, SerialsMove DEF PublishUndo, historyVars

LEMMA CancelSerials ==
  ASSUME TypeOK, Serials,
         (\E id \in 1..MaxEvents : Cancel(id)) \/ (\E filter \in Filters : Purge(filter))
  PROVE  Serials'
<1>1. /\ queue' = queue /\ event' = event /\ emitted' = emitted /\ task' = task
      /\ current' = current
      /\ stamp' = stamp /\ created' = created /\ skipped' = skipped /\ processed' = processed
  BY DEF Cancel, Purge
<1>2. Taken' = Taken
  BY <1>1 DEF Taken
<1> QED BY <1>1, <1>2 DEF Serials, Apart, Numbered, Past, On

\* An event is in one place, has a number of its own, and is dealt with once.
THEOREM SerialsInductive == Spec => []Serials
<1>1. Init => Serials
  <2> SUFFICES ASSUME Init PROVE Serials
    OBVIOUS
  <2>1. queue = <<>> /\ ToSet(queue) = {} /\ Len(queue) = 0
    BY DEF Init, ToSet
  <2>2. Taken = NoEvent /\ emitted = NoEvent /\ \A p \in Publishers : event[p] = NoEvent
    BY DEF Init, Taken
  <2>3. NoEvent.serial = 0 /\ NoEvent.id = 0
    BY DEF NoEvent
  <2>4. On \subseteq {NoEvent}
    BY <2>1, <2>2 DEF On
  <2> QED BY <2>1, <2>2, <2>3, <2>4 DEF Init, Serials, Apart, Numbered, Past
<1>2. TypeOK /\ Serials /\ [Next]_vars => Serials'
  <2> SUFFICES ASSUME TypeOK, Serials, [Next]_vars PROVE Serials'
    OBVIOUS
  <2>1. CASE Emit
    <3>1. PICK e \in NewEvents : emitted' = e /\ stamp' = Newest(e.id)
      BY <2>1 DEF Emit
    <3> QED BY <2>1, <3>1, EmitSerials
  <2>2. ASSUME NEW p \in Publishers, Publish(p) PROVE Serials'
    <3>1. PICK e \in NewEvents : event' = [event EXCEPT ![p] = e] /\ stamp' = Newest(e.id)
      BY <2>2 DEF Publish
    <3> QED BY <2>2, <3>1, PublishSerials
  <2> QED BY <2>1, <2>2, NextCases, ReceiveSerials, TakeSerials, EmitSendSerials,
             EmitTimeoutSerials, StillSerials, PublisherSerials, PublishSendSerials,
             PublishUndoSerials, CancelSerials
<1> QED BY <1>1, <1>2, TypeCorrect, PTL DEF Spec

-----------------------------------------------------------------------------
(* No cancel is lost as long as there are fewer of them than entries.      *)

\* An event that was reported as marked is known by its number, and is not on
\* its way into the table any more.
ToldOnce ==
  \A c \in cancelled :
    /\ c.serial <= created
    /\ \A p \in Publishers : pub[p] = "track" => event[p].serial # c.serial
    /\ \A x \in cancelled \cup Pending : x.serial = c.serial => x = c

LEMMA PendingOn == Pending \subseteq On
BY DEF Pending, On, Taken

\* No two events on their way share a number.
LEMMA OneNumber ==
  ASSUME TypeOK, Serials, NEW x \in On, NEW y \in On, x.serial = y.serial, x.serial # 0
  PROVE  x = y
<1>1. /\ \A z \in ToSet(queue) : \E i \in 1..Len(queue) : z = queue[i]
      /\ \A i \in 1..Len(queue) : queue[i] \in ToSet(queue)
  BY LenProperties DEF ToSet, TypeOK
<1>2. task = "take" => emitted = NoEvent
  BY DEF TypeOK
<1>3. Taken = NoEvent \/ emitted = NoEvent
  BY <1>2 DEF Taken
<1>4. NoEvent.serial = 0
  BY DEF NoEvent
<1>5. CASE x \in ToSet(queue) /\ y \in ToSet(queue)
  BY <1>1, <1>5 DEF Serials, Apart
<1>6. CASE x \in ToSet(queue) /\ y \notin ToSet(queue)
  BY <1>6 DEF On, Serials, Apart
<1>7. CASE x \notin ToSet(queue) /\ y \in ToSet(queue)
  BY <1>7 DEF On, Serials, Apart
<1>8. CASE x \notin ToSet(queue) /\ y \notin ToSet(queue)
  BY <1>3, <1>4, <1>8 DEF On, Serials, Apart
<1> QED BY <1>5, <1>6, <1>7, <1>8

LEMMA ToldInit == Init => ToldOnce
BY DEF Init, ToldOnce

\* A step that reports nothing and lets nothing into the table.
LEMMA ToldStill ==
  ASSUME TypeOK, ToldOnce, cancelled' = cancelled, created \in Nat,
         created' \in {created, created + 1}, Pending' \subseteq Pending,
         \A p \in Publishers : pub'[p] = "track" =>
           \/ pub[p] = "track" /\ event'[p] = event[p]
           \/ event'[p].serial = created + 1
  PROVE  ToldOnce'
<1>1. \A c \in cancelled : c.serial \in Nat
  BY NoEventApart DEF TypeOK
<1> QED BY <1>1 DEF ToldOnce

\* A step that lets an event into the table no cancel has told of.
LEMMA ToldTrack ==
  ASSUME TypeOK, ToldOnce, cancelled' = cancelled, created' \in {created, created + 1},
         NEW e, Pending' \subseteq Pending \cup {e},
         \A c \in cancelled : e.serial # c.serial,
         \A p \in Publishers : pub'[p] = "track" => pub[p] = "track" /\ event'[p] = event[p]
  PROVE  ToldOnce'
<1>1. \A c \in cancelled : c.serial \in Nat
  BY NoEventApart DEF TypeOK
<1>2. created \in Nat
  BY DEF TypeOK
<1> QED BY <1>1, <1>2 DEF ToldOnce

\* A step that reports events on their way.
LEMMA ToldReport ==
  ASSUME TypeOK, Serials, ToldOnce, NEW S, S \subseteq Pending, cancelled' = cancelled \cup S,
         created' = created, UNCHANGED <<pub, event>>, Pending' = Pending,
         \A p \in Publishers : pub[p] = "track" => event[p] \notin Pending
  PROVE  ToldOnce'
<1>1. \A x \in Pending : x \in On /\ x \in Event /\ x.serial # 0
  BY PendingOn, PendingType, NoEventApart
<1>2. \A x, y \in Pending : x.serial = y.serial => x = y
  BY <1>1, OneNumber
<1>3. ASSUME NEW c \in S
      PROVE  /\ c.serial <= created
             /\ \A p \in Publishers : pub[p] = "track" => event[p].serial # c.serial
             /\ \A x \in cancelled' \cup Pending : x.serial = c.serial => x = c
  <2>1. c \in Pending /\ c \in On /\ c.serial # 0
    BY <1>1, <1>3
  <2>2. c.serial <= created
    BY <2>1 DEF Serials, Numbered
  <2>3. ASSUME NEW p \in Publishers, pub[p] = "track", event[p].serial = c.serial
        PROVE  FALSE
    <3>1. event[p] \in On
      BY DEF On
    <3>2. event[p] = c
      BY <2>1, <2>3, <3>1, OneNumber
    <3> QED BY <2>1, <2>3, <3>2
  <2>4. ASSUME NEW x \in cancelled, x.serial = c.serial
        PROVE  x = c
    BY <2>1, <2>4 DEF ToldOnce
  <2> QED BY <1>2, <2>1, <2>2, <2>3, <2>4
<1>4. ASSUME NEW c \in cancelled
      PROVE  \A x \in cancelled' \cup Pending : x.serial = c.serial => x = c
  BY <1>4 DEF ToldOnce
<1> QED BY <1>3, <1>4 DEF ToldOnce

\* A publisher about to note its event has not noted it yet.
LEMMA TrackNotPending ==
  ASSUME TypeOK, Serials, NEW p \in Publishers, pub[p] = "track"
  PROVE  event[p] \notin Pending
<1>1. event[p] \in Event /\ event[p].serial # 0
  BY NoEventApart DEF TypeOK
<1>2. \A x \in ToSet(queue) : x # event[p]
  BY DEF Serials, Apart
<1>3. \A q \in Publishers : pub[q] \in {"send", "undo"} => event[q] # event[p]
  <2>1. \A q \in Publishers : pub[q] \in {"send", "undo"} => q # p
    OBVIOUS
  <2> QED BY <1>1, <2>1 DEF Serials, Apart
<1>4. task = "take" => current # event[p]
  BY <1>1 DEF Serials, Apart, Taken
<1>5. emitted # event[p]
  BY <1>1 DEF Serials, Apart
<1> QED BY <1>2, <1>3, <1>4, <1>5 DEF Pending

ToldInv == TypeOK /\ Serials /\ ToldOnce

LEMMA ToldRouter ==
  ASSUME ToldInv, Serials',
         Receive \/ Take \/ RunRules \/ Emit \/ EmitSend \/ EmitTimeout \/ EndRules
  PROVE  ToldOnce'
<1> USE DEF ToldInv
<1>1. created \in Nat /\ UNCHANGED <<pub, event, cancelled>>
  BY DEF TypeOK, Receive, Take, RunRules, Emit, EmitSend, EmitTimeout, EndRules, historyVars
<1>2. CASE Emit
  <2>1. PICK e \in NewEvents : emitted' = e
    BY <1>2 DEF Emit
  <2>2. e.serial = created + 1
    BY DEF NewEvents
  <2>3. \A c \in cancelled : c.serial \in Nat /\ e.serial # c.serial
    BY <1>1, <2>2, NoEventApart DEF ToldOnce, TypeOK
  <2>4. Pending' \subseteq Pending \cup {e} /\ created' = created + 1
    BY <1>2, <2>1, EmitPending DEF Emit
  <2> QED BY <1>1, <2>3, <2>4, ToldTrack
<1>3. CASE Receive \/ Take \/ RunRules \/ EmitSend \/ EmitTimeout \/ EndRules
  <2>1. Pending' \subseteq Pending
    BY <1>3, ReceivePending, TakePending, EmitSendPending, EmitTimeoutPending, TaskPending
  <2>2. created' = created
    BY <1>3 DEF Receive, Take, RunRules, EmitSend, EmitTimeout, EndRules
  <2> QED BY <1>1, <2>1, <2>2, ToldStill
<1> QED BY <1>2, <1>3

LEMMA ToldPublisher ==
  ASSUME ToldInv, NEW p \in Publishers,
         \/ Publish(p) \/ PublishTrack(p) \/ PublishSend(p)
         \/ PublishTimeout(p) \/ PublishUndo(p)
  PROVE  ToldOnce'
<1> USE DEF ToldInv
<1>1. created \in Nat /\ cancelled' = cancelled
  BY DEF TypeOK, Publish, PublishTrack, PublishSend, PublishTimeout, PublishUndo, historyVars
<1>2. CASE Publish(p)
  <2>1. PICK e \in NewEvents : event' = [event EXCEPT ![p] = e]
    BY <1>2 DEF Publish
  <2>2. e.serial = created + 1 /\ created' = created + 1
    BY <1>2 DEF NewEvents, Publish
  <2>3. \A q \in Publishers : pub'[q] = "track" =>
          (pub[q] = "track" /\ event'[q] = event[q]) \/ event'[q].serial = created + 1
    BY <1>2, <2>1, <2>2 DEF TypeOK, Publish
  <2>4. Pending' \subseteq Pending
    BY <1>2, PublishPending
  <2> QED BY <1>1, <2>2, <2>3, <2>4, ToldStill
<1>3. CASE PublishTrack(p)
  <2>1. \A c \in cancelled : event[p].serial # c.serial
    BY <1>3 DEF ToldOnce, PublishTrack
  <2>2. /\ Pending' \subseteq Pending \cup {event[p]}
        /\ \A q \in Publishers : pub'[q] = "track" => pub[q] = "track" /\ event'[q] = event[q]
        /\ created' = created
    BY <1>3, PublishTrackPending DEF TypeOK, PublishTrack
  <2> QED BY <1>1, <2>1, <2>2, ToldTrack
<1>4. CASE PublishSend(p) \/ PublishTimeout(p) \/ PublishUndo(p)
  <2>1. Pending' \subseteq Pending
    BY <1>4, PublishSendPending, PublishTimeoutPending, PublishUndoPending
  <2>2. /\ \A q \in Publishers : pub'[q] = "track" => pub[q] = "track" /\ event'[q] = event[q]
        /\ created' = created
    BY <1>4 DEF TypeOK, PublishSend, PublishTimeout, PublishUndo
  <2> QED BY <1>1, <2>1, <2>2, ToldStill
<1> QED BY <1>2, <1>3, <1>4

LEMMA ToldCancel ==
  ASSUME ToldInv,
         (\E id \in 1..MaxEvents : Cancel(id)) \/ (\E filter \in Filters : Purge(filter))
  PROVE  ToldOnce'
<1> USE DEF ToldInv
<1>1. PICK S : S \subseteq Pending /\ cancelled' = cancelled \cup S
  <2>1. CASE \E id \in 1..MaxEvents : Cancel(id)
    <3>1. PICK id \in 1..MaxEvents : Cancel(id)
      BY <2>1
    <3> QED BY <3>1 DEF Cancel
  <2>2. CASE \E filter \in Filters : Purge(filter)
    <3>1. PICK filter \in Filters : Purge(filter)
      BY <2>2
    <3> QED BY <3>1, PurgeStep DEF Told
  <2> QED BY <2>1, <2>2
<1>2. created' = created /\ UNCHANGED <<pub, event>>
  BY DEF Cancel, Purge
<1> QED BY <1>1, <1>2, CancelPending, TrackNotPending, ToldReport

\* What a cancel reports, it reports once per event.
THEOREM ToldInductive == Spec => []ToldOnce
<1>1. TypeOK /\ Serials /\ Serials' /\ ToldOnce /\ [Next]_vars => ToldOnce'
  <2> SUFFICES ASSUME TypeOK, Serials, Serials', ToldOnce, [Next]_vars PROVE ToldOnce'
    OBVIOUS
  <2>1. ToldInv
    BY DEF ToldInv
  <2>2. CASE UNCHANGED vars
    BY <2>2, TaskPending DEF ToldOnce, vars
  <2> QED BY <2>1, <2>2, NextCases, ToldRouter, ToldPublisher, ToldCancel
<1> QED BY <1>1, ToldInit, TypeCorrect, SerialsInductive, PTL DEF Spec

\* The events of different numbers that were reported are finitely many.
LEMMA CancelledFinite ==
  ASSUME TypeOK, ToldOnce
  PROVE  IsFiniteSet(cancelled)
<1> DEFINE f == [c \in cancelled |-> c.serial]
<1>1. \A c \in cancelled : c.serial \in 1..MaxEvents
  BY DEF TypeOK, Event
<1>2. f \in Injection(cancelled, 1..MaxEvents)
  BY <1>1 DEF Injection, IsInjective, ToldOnce
<1>3. IsFiniteSet(1..MaxEvents)
  BY FS_Interval, SizeAssumption
<1> QED BY <1>2, <1>3, FS_Injection

\* The premise of FewCancelsKept.
Few == stamp = created /\ Cardinality(cancelled) < TableSize

Marks ==
  Few => \A c \in cancelled :
           /\ c \notin processed
           /\ c \in Pending =>
                \E i \in Slots : table[i].used /\ table[i].cancelled /\ table[i].id = c.id

\* The premise never begins to hold.
LEMMA FewBefore ==
  ASSUME TypeOK, IsFiniteSet(cancelled'), cancelled \subseteq cancelled', Few',
         \/ stamp' = stamp /\ created' = created
         \/ \E e \in NewEvents : stamp' = Newest(e.id) /\ created' = created + 1
  PROVE  Few
<1>2. /\ Cardinality(cancelled) <= Cardinality(cancelled')
      /\ Cardinality(cancelled) \in Nat /\ Cardinality(cancelled') \in Nat
  BY FS_Subset, FS_CardinalityType
<1>3. Cardinality(cancelled') < TableSize /\ stamp' = created'
  BY DEF Few
<1>4. stamp = created
  BY <1>3 DEF TypeOK, NewEvents, Ids, Newest
<1> QED BY <1>2, <1>3, <1>4, SizeAssumption DEF Few

\* A marked entry of a cancelled event's id outlives noting another event: the
\* one noted has another id, and with fewer cancels than entries some entry is
\* free or unmarked.
LEMMA TrackSparesMark ==
  ASSUME TypeOK, TableLive, MarkTold, IsFiniteSet(cancelled), Few,
         NEW e \in Event, NEW i \in Slots, table[i].used, table[i].cancelled,
         table[i].id # e.id
  PROVE  TrackSlot(e) # i
<1> SUFFICES ASSUME TrackSlot(e) = i PROVE FALSE
  OBVIOUS
<1>1. SlotsOf(e.id) = {}
  BY TrackSlotType DEF SlotsOf
<1>2. AllocSlot = i
  BY <1>1 DEF TrackSlot
<1>3. {j \in Slots : ~table[j].used} = {}
  <2> SUFFICES ASSUME {j \in Slots : ~table[j].used} # {} PROVE FALSE
    OBVIOUS
  <2>1. AllocSlot \in {j \in Slots : ~table[j].used}
    BY LeastSlot DEF AllocSlot
  <2> QED BY <1>2, <2>1
<1>4. {j \in Slots : ~table[j].cancelled} = {}
  <2> SUFFICES ASSUME {j \in Slots : ~table[j].cancelled} # {} PROVE FALSE
    OBVIOUS
  <2>1. AllocSlot \in {j \in Slots : ~table[j].cancelled}
    BY <1>3, LeastSlot DEF AllocSlot, Victim
  <2> QED BY <1>2, <2>1
<1>5. \A j \in Slots : table[j].used /\ table[j].cancelled
  BY <1>3, <1>4
<1> DEFINE f == [j \in Slots |-> CHOOSE c \in cancelled : c.id = table[j].id]
<1>6. \A j \in Slots : f[j] \in cancelled /\ f[j].id = table[j].id
  BY <1>5 DEF MarkTold
<1>7. f \in Injection(Slots, cancelled)
  <2>1. \A j, k \in Slots : f[j] = f[k] => j = k
    BY <1>5, <1>6 DEF TableLive
  <2>2. f \in [Slots -> cancelled]
    BY <1>6
  <2> HIDE DEF f
  <2> QED BY <2>1, <2>2 DEF Injection, IsInjective
<1> HIDE DEF f
<1>8. Cardinality(Slots) <= Cardinality(cancelled)
  BY <1>7, FS_Injection
<1>9. Cardinality(Slots) = TableSize
  <2>1. Cardinality(1..TableSize) = IF 1 > TableSize THEN 0 ELSE TableSize - 1 + 1
    BY FS_Interval, SizeAssumption
  <2> QED BY <2>1, SizeAssumption DEF Slots
<1>10. Cardinality(cancelled) \in Nat
  BY FS_CardinalityType
<1> QED BY <1>8, <1>9, <1>10, SizeAssumption DEF Few

\* What TableInv and the histories give at a step, and what they give after it.
MarksInv ==
  /\ TypeOK /\ TableLive /\ MarkTold /\ Serials /\ ToldOnce
  /\ IsFiniteSet(cancelled)
  /\ Marks

\* With fresh ids an event on its way has its number for its id.
LEMMA OwnId ==
  ASSUME Serials, stamp = created, NEW x \in On
  PROVE  x.id = x.serial
BY DEF Serials, Numbered

\* Noting an event.
LEMMA MarksTrack ==
  ASSUME MarksInv, Few, NEW e \in Event, Track(e), e.id = e.serial,
         \A c \in cancelled : c.serial # e.serial,
         Pending' \subseteq Pending \cup {e}, UNCHANGED <<cancelled, processed>>
  PROVE  Marks'
<1> USE DEF MarksInv
<1>1. ASSUME NEW c \in cancelled, c \in Pending'
      PROVE  \E i \in Slots : table'[i].used /\ table'[i].cancelled /\ table'[i].id = c.id
  <2>1. c \in Pending /\ c.serial # e.serial
    BY <1>1
  <2>2. c.id = c.serial
    BY <2>1, PendingOn, OwnId DEF Few
  <2>3. PICK i \in Slots : table[i].used /\ table[i].cancelled /\ table[i].id = c.id
    BY <2>1 DEF Marks
  <2>4. TrackSlot(e) # i
    BY <2>1, <2>2, <2>3, TrackSparesMark
  <2>5. table'[i] = table[i]
    BY <2>4 DEF Track, TypeOK
  <2> QED BY <2>3, <2>5
<1> QED BY <1>1 DEF Marks

\* Forgetting an event that is nowhere any more.
LEMMA MarksForget ==
  ASSUME MarksInv, Few, NEW e \in On, e \in Event, Forget(e), Pending' \subseteq Pending,
         \A x \in On' : x.serial # e.serial, UNCHANGED cancelled,
         \A c \in cancelled : c \in processed' => c \in processed
  PROVE  Marks'
<1> USE DEF MarksInv
<1>1. Unique
  BY DEF TableLive, Unique
<1>2. ASSUME NEW c \in cancelled, c \in Pending'
      PROVE  \E i \in Slots : table'[i].used /\ table'[i].cancelled /\ table'[i].id = c.id
  <2>1. c \in Pending /\ c \in On
    BY <1>2, PendingOn
  <2>2. c \in On'
    BY <1>2 DEF Pending, On, Taken
  <2>3. c.id # e.id
    BY <2>1, <2>2, OwnId DEF Few
  <2>4. PICK i \in Slots : table[i].used /\ table[i].cancelled /\ table[i].id = c.id
    BY <2>1 DEF Marks
  <2>5. table'[i] = table[i]
    BY <1>1, <2>3, <2>4, ForgetEntries
  <2> QED BY <2>4, <2>5
<1> QED BY <1>2 DEF Marks

\* Marking entries and reporting the events of their ids.
LEMMA MarksReport ==
  ASSUME MarksInv, Few, NEW S, \A i \in S : i \in Slots /\ table[i].used, Mark(S),
         NEW T, T \subseteq Pending, \A c \in T : \E i \in S : table[i].id = c.id,
         cancelled' = cancelled \cup T, Pending' = Pending, processed' = processed
  PROVE  Marks'
<1> USE DEF MarksInv
<1>1. \A i \in Slots :
        /\ table'[i].used = table[i].used
        /\ table[i].used => /\ table'[i].id = table[i].id
                            /\ table'[i].cancelled = (table[i].cancelled \/ i \in S)
  BY MarkEntries
<1>2. ASSUME NEW c \in T
      PROVE  /\ c \notin processed
             /\ \E i \in Slots : table'[i].used /\ table'[i].cancelled /\ table'[i].id = c.id
  <2>1. c \notin processed
    BY <1>2, PendingOn DEF Serials, Past
  <2>2. PICK i \in S : table[i].id = c.id
    BY <1>2
  <2> QED BY <1>1, <2>1, <2>2
<1>3. ASSUME NEW c \in cancelled, c \in Pending
      PROVE  \E i \in Slots : table'[i].used /\ table'[i].cancelled /\ table'[i].id = c.id
  <2>1. PICK i \in Slots : table[i].used /\ table[i].cancelled /\ table[i].id = c.id
    BY <1>3 DEF Marks
  <2> QED BY <1>1, <2>1
<1> QED BY <1>2, <1>3 DEF Marks

\* A step that leaves the table and the histories alone.
LEMMA MarksStill ==
  ASSUME MarksInv, Few, table' = table, Pending' \subseteq Pending,
         UNCHANGED <<cancelled, processed>>
  PROVE  Marks'
BY DEF MarksInv, Marks

LEMMA MarksRouter ==
  ASSUME MarksInv, Few, Few', Serials',
         Receive \/ Take \/ RunRules \/ Emit \/ EmitSend \/ EmitTimeout \/ EndRules
  PROVE  Marks'
<1> USE DEF MarksInv
<1>1. CASE Receive
  BY <1>1, ReceivePending, MarksStill DEF Receive, historyVars
<1>2. CASE Take
  <2>1. current \in Event /\ current \in On /\ current \in Pending
    BY <1>2 DEF TypeOK, Take, On, Taken, Pending
  <2>2. \A x \in On' : x.serial # current.serial
    BY <1>2, TakeSerials
  <2>3. ASSUME NEW c \in cancelled, c \in processed', c \notin processed
        PROVE  FALSE
    <3>1. c = current /\ ~IsCancelled(current)
      BY <1>2, <2>3 DEF Take
    <3>2. PICK i \in Slots : table[i].used /\ table[i].cancelled /\ table[i].id = current.id
      BY <2>1, <2>3, <3>1 DEF Marks
    <3>3. i \in SlotsOf(current.id)
      BY <3>2 DEF SlotsOf
    <3>4. Least(SlotsOf(current.id)) \in SlotsOf(current.id)
      BY <3>3, LeastSlot DEF SlotsOf
    <3>5. Least(SlotsOf(current.id)) = i
      BY <3>3, <3>4 DEF SlotsOf, TableLive
    <3> QED BY <3>1, <3>2, <3>3, <3>5 DEF IsCancelled
  <2>4. Pending' \subseteq Pending
    BY <1>2, TakePending
  <2> QED BY <1>2, <2>1, <2>2, <2>3, <2>4, MarksForget DEF Take
<1>3. CASE RunRules \/ EndRules
  BY <1>3, TaskPending, MarksStill DEF RunRules, EndRules, historyVars
<1>4. CASE Emit
  <2>1. PICK e \in NewEvents : emitted' = e /\ stamp' = Newest(e.id) /\ Track(e)
    BY <1>4 DEF Emit
  <2>2. e \in Event /\ e.serial = created + 1
    BY <1>4, NewEventType DEF Emit, NewEvents
  <2>3. \A c \in cancelled : c.serial # e.serial
    <3>1. created \in Nat /\ \A c \in cancelled : c.serial \in Nat /\ c.serial <= created
      BY NoEventApart DEF TypeOK, ToldOnce
    <3> QED BY <2>2, <3>1
  <2>4. e.id = e.serial
    BY <2>1 DEF Serials, Numbered, On, Few
  <2>5. Pending' = Pending \cup {e}
    BY <1>4, <2>1, EmitPending
  <2> QED BY <1>4, <2>1, <2>2, <2>3, <2>4, <2>5, MarksTrack DEF Emit, historyVars
<1>5. CASE EmitSend
  BY <1>5, EmitSendPending, MarksStill DEF EmitSend, historyVars
<1>6. CASE EmitTimeout
  <2>1. emitted \in Event /\ emitted \in On
    BY <1>6 DEF TypeOK, EmitTimeout, On
  <2>2. \A x \in On' : x.serial # emitted.serial
    BY <1>6, EmitTimeoutSerials
  <2>3. Pending' \subseteq Pending
    BY <1>6, EmitTimeoutPending
  <2> QED BY <1>6, <2>1, <2>2, <2>3, MarksForget DEF EmitTimeout, historyVars
<1> QED BY <1>1, <1>2, <1>3, <1>4, <1>5, <1>6

LEMMA MarksPublisher ==
  ASSUME MarksInv, Few, NEW p \in Publishers,
         \/ Publish(p) \/ PublishTrack(p) \/ PublishSend(p)
         \/ PublishTimeout(p) \/ PublishUndo(p)
  PROVE  Marks'
<1> USE DEF MarksInv
<1>1. CASE Publish(p)
  BY <1>1, PublishPending, MarksStill DEF Publish, historyVars
<1>2. CASE PublishTrack(p)
  <2>1. event[p] \in Event /\ event[p] \in On
    BY <1>2 DEF TypeOK, PublishTrack, On
  <2>2. event[p].id = event[p].serial
    BY <2>1, OwnId DEF Few
  <2>3. \A c \in cancelled : c.serial # event[p].serial
    BY <1>2 DEF ToldOnce, PublishTrack
  <2> QED BY <1>2, <2>1, <2>2, <2>3, PublishTrackPending, MarksTrack
          DEF PublishTrack, historyVars
<1>3. CASE PublishSend(p)
  BY <1>3, PublishSendPending, MarksStill DEF PublishSend, historyVars
<1>4. CASE PublishTimeout(p)
  BY <1>4, PublishTimeoutPending, MarksStill DEF PublishTimeout, historyVars
<1>5. CASE PublishUndo(p)
  <2>1. event[p] \in Event /\ event[p] \in On
    BY <1>5 DEF TypeOK, PublishUndo, On
  <2>2. \A x \in On' : x.serial # event[p].serial
    BY <1>5, PublishUndoSerials
  <2>3. Pending' \subseteq Pending
    BY <1>5, PublishUndoPending
  <2> QED BY <1>5, <2>1, <2>2, <2>3, MarksForget DEF PublishUndo, historyVars
<1> QED BY <1>1, <1>2, <1>3, <1>4, <1>5

LEMMA MarksCancel ==
  ASSUME MarksInv, Few, NEW id \in 1..MaxEvents, Cancel(id)
  PROVE  Marks'
<1> DEFINE s == Least(SlotsOf(id))
           T == {e \in Pending : e.id = id}
<1>1. s \in SlotsOf(id)
  BY LeastSlot DEF Cancel, SlotsOf
<1>2. s \in Slots /\ table[s].used /\ table[s].id = id
  BY <1>1 DEF SlotsOf
<1>3. Mark({s}) /\ cancelled' = cancelled \cup T /\ processed' = processed
  BY DEF Cancel
<1>4. T \subseteq Pending /\ \A c \in T : c.id = id
  OBVIOUS
<1> HIDE DEF s, T
<1> QED BY <1>2, <1>3, <1>4, CancelPending, MarksReport

LEMMA MarksPurge ==
  ASSUME MarksInv, Few, NEW filter \in Filters, Purge(filter)
  PROVE  Marks'
<1>1. \A i \in Hits(filter) : i \in Slots /\ table[i].used
  BY DEF Hits
<1>2. Told(filter) \subseteq Pending
      /\ \A c \in Told(filter) : \E i \in Hits(filter) : table[i].id = c.id
  BY DEF Told
<1>3. processed' = processed
  BY DEF Purge
<1> QED BY <1>1, <1>2, <1>3, PurgeStep, CancelPending, MarksReport

\* As long as ids are fresh and cancels fewer than entries, whatever was
\* reported as marked and is on its way is marked in the table.
LEMMA MarksStep ==
  ASSUME MarksInv, Serials', IsFiniteSet(cancelled'), [Next]_vars
  PROVE  Marks'
<1> SUFFICES ASSUME Few' PROVE Marks'
  BY DEF Marks
<1>1. Few
  <2>1. \/ stamp' = stamp /\ created' = created
        \/ \E e \in NewEvents : stamp' = Newest(e.id) /\ created' = created + 1
    BY NextCases
       DEF Receive, Take, RunRules, Emit, EmitSend, EmitTimeout, EndRules, Publish,
           PublishTrack, PublishSend, PublishTimeout, PublishUndo, Cancel, Purge, vars
  <2>2. cancelled \subseteq cancelled'
    BY NextCases
       DEF Receive, Take, RunRules, Emit, EmitSend, EmitTimeout, EndRules, Publish,
           PublishTrack, PublishSend, PublishTimeout, PublishUndo, Cancel, Purge, vars,
           historyVars
  <2> QED BY <2>1, <2>2, FewBefore DEF MarksInv
<1>2. CASE UNCHANGED vars
  BY <1>1, <1>2, TaskPending, MarksStill DEF vars
<1> QED BY <1>1, <1>2, NextCases, MarksRouter, MarksPublisher, MarksCancel, MarksPurge

\* FewCancelsKept: with fresh ids and fewer cancels than entries, no event that
\* was reported as marked is given to the rules.
THEOREM FewCancelsCorrect == Spec => []FewCancelsKept
<1> DEFINE Finite == IsFiniteSet(cancelled)
<1>1. TypeOK /\ ToldOnce => Finite
  BY CancelledFinite
<1>2. Init => Marks
  BY DEF Init, Marks
<1>3. /\ TableInv /\ Serials /\ ToldOnce /\ Finite /\ Marks /\ [Next]_vars
      /\ Serials' /\ Finite'
      => Marks'
  BY MarksStep DEF MarksInv, TableInv
<1>4. Marks => FewCancelsKept
  BY DEF Marks, Few, FewCancelsKept, CancelledNeverProcessed
<1> HIDE DEF Finite
<1>5. Spec => []Finite
  BY <1>1, TypeCorrect, ToldInductive, PTL
<1> QED BY <1>2, <1>3, <1>4, <1>5, TableInductive, SerialsInductive, ToldInductive, PTL DEF Spec

-----------------------------------------------------------------------------
(* The rules and the rules file.                                            *)

\* The disjuncts of the next-state relation, each with its parameters.
LEMMA RulesNextCases ==
  ASSUME [RulesNext]_ruleVars
  PROVE  \/ \E w \in Writers, change \in Changes \cup {Reload} : Begin(w, change)
         \/ \E w \in Writers : Read(w)
         \/ \E w \in Writers : ReadFails(w)
         \/ \E w \in Writers : OpenTemp(w)
         \/ \E w \in Writers : Write(w)
         \/ \E w \in Writers : WriteFails(w)
         \/ \E w \in Writers : CloseFails(w)
         \/ \E w \in Writers : RemoveOld(w)
         \/ \E w \in Writers : RemoveFails(w)
         \/ \E w \in Writers : Rename(w)
         \/ \E w \in Writers : RenameFails(w)
         \/ \E w \in Writers : Swap(w)
         \/ StartEvent \/ EndEvent \/ Restart \/ UNCHANGED ruleVars
BY DEF RulesNext

\* An empty file is a list of rules, within any limit.
LEMMA NoRulesType == NoRules \in Lists
<1>1. {i \in RuleIds : NoRules[i] # NoRule} = {}
  BY DEF NoRules
<1>2. Cardinality({i \in RuleIds : NoRules[i] # NoRule}) = 0
  BY <1>1, FS_EmptySet
<1> QED BY <1>2, RuleAssumption DEF NoRules, Lists

\* A change that claw_event_router_add_rule, _update_rule or _delete_rule
\* accepts keeps the list within max_rules.
LEMMA EditedType ==
  ASSUME NEW l \in Lists, NEW change \in Changes, Accepts(change, l)
  PROVE  Edited(change, l) \in Lists
<1> DEFINE e == Edited(change, l)
           Used(f) == {i \in RuleIds : f[i] # NoRule}
<1>1. change.id \in RuleIds /\ change.body \in Bodies \cup {NoRule}
  BY DEF Changes
<1>2. e \in [RuleIds -> Bodies \cup {NoRule}]
  BY <1>1 DEF Edited, Lists
<1>3. IsFiniteSet(Used(l)) /\ IsFiniteSet(Used(e))
  BY RuleAssumption, FS_Subset
<1>4. Cardinality(Used(l)) \in Nat /\ Cardinality(Used(e)) \in Nat
      /\ Cardinality(Used(l)) <= MaxRules
  BY <1>3, FS_CardinalityType DEF Lists
<1>5. CASE change.kind = "add"
  <2>1. Used(e) \subseteq Used(l) \cup {change.id}
    BY <1>1 DEF Edited, Lists
  <2>2. IsFiniteSet(Used(l) \cup {change.id})
        /\ Cardinality(Used(l) \cup {change.id}) <= Cardinality(Used(l)) + 1
    <3>1. /\ IsFiniteSet(Used(l) \cup {change.id})
          /\ Cardinality(Used(l) \cup {change.id}) =
               IF change.id \in Used(l) THEN Cardinality(Used(l)) ELSE Cardinality(Used(l)) + 1
      BY <1>3, FS_AddElement, Zenon
    <3> HIDE DEF Used
    <3> QED BY <1>4, <3>1
  <2>3. Cardinality(Used(e)) <= Cardinality(Used(l) \cup {change.id})
    BY <2>1, <2>2, FS_Subset
  <2>4. Cardinality(Used(l) \cup {change.id}) \in Nat
    BY <2>2, FS_CardinalityType
  <2>5. Cardinality(Used(l)) < MaxRules
    BY <1>5 DEF Accepts, Size
  <2>6. Cardinality(Used(e)) <= MaxRules
    BY <1>4, <2>2, <2>3, <2>4, <2>5, RuleAssumption
  <2> QED BY <1>2, <2>6 DEF Lists
<1>6. CASE change.kind # "add"
  <2>1. l[change.id] # NoRule
    BY <1>6 DEF Accepts, Changes
  <2>2. Used(e) \subseteq Used(l)
    BY <1>1, <2>1 DEF Edited, Lists
  <2>3. Cardinality(Used(e)) <= MaxRules
    BY <1>3, <1>4, <2>2, FS_Subset, RuleAssumption
  <2> QED BY <1>2, <2>3 DEF Lists
<1> QED BY <1>5, <1>6

\* What a task read, edited and wrote is a list within the limit.
LEMMA TypeStep ==
  ASSUME RulesTypeOK, [RulesNext]_ruleVars
  PROVE  RulesTypeOK'
<1> USE NoRulesType
<1>1. ASSUME NEW w \in Writers, NEW change \in Changes \cup {Reload}, Begin(w, change)
      PROVE  RulesTypeOK'
  BY <1>1 DEF RulesTypeOK, Begin, At, Mishap, Stages
<1>2. ASSUME NEW w \in Writers, Read(w) PROVE RulesTypeOK'
  <2>1. PICK l \in {Loaded(file), NoRules} \ {Garbled} :
          /\ IF l = Loaded(file) THEN UNCHANGED mishap ELSE Mishap("loss")
          /\ \/ /\ op[w].change = Reload
                /\ op' = [op EXCEPT ![w].pc = "swap", ![w].list = l]
             \/ /\ op[w].change # Reload
                /\ Accepts(op[w].change, l)
                /\ op' = [op EXCEPT ![w].pc = "open", ![w].list = Edited(op[w].change, l)]
             \/ /\ op[w].change # Reload
                /\ ~Accepts(op[w].change, l)
                /\ Return(w)
    BY <1>2 DEF Read
  <2>2. l \in Lists
    BY DEF Loaded, RulesTypeOK
  <2>3. op[w].change # Reload /\ Accepts(op[w].change, l) =>
          Edited(op[w].change, l) \in Lists
    BY <2>2, EditedType DEF RulesTypeOK
  <2>4. op' \in [Writers -> [pc : Stages, change : Changes \cup {Reload}, list : Lists]]
    BY <2>1, <2>2, <2>3 DEF RulesTypeOK, Return, Quiet, Stages
  <2>5. mishap' \in {"none", "loss", "garbling"}
    BY <2>1 DEF RulesTypeOK, Mishap
  <2> QED BY <1>2, <2>4, <2>5 DEF Read, RulesTypeOK
<1>3. ASSUME NEW w \in Writers, ReadFails(w) PROVE RulesTypeOK'
  BY <1>3 DEF RulesTypeOK, ReadFails, Return, Quiet, Stages
<1>4. ASSUME NEW w \in Writers, OpenTemp(w) PROVE RulesTypeOK'
  BY <1>4 DEF RulesTypeOK, OpenTemp, Goto, Stages
<1>5. ASSUME NEW w \in Writers, Write(w) PROVE RulesTypeOK'
  <2>1. file' \in Lists \cup {Missing, Garbled} /\ temp' \in Lists \cup {Missing, Garbled}
    BY <1>5 DEF RulesTypeOK, Write
  <2> QED BY <1>5, <2>1 DEF RulesTypeOK, Write, Goto, Stages
<1>6. ASSUME NEW w \in Writers, WriteFails(w) PROVE RulesTypeOK'
  BY <1>6 DEF RulesTypeOK, WriteFails, Return, Quiet, Stages
<1>7. ASSUME NEW w \in Writers, CloseFails(w) PROVE RulesTypeOK'
  BY <1>7 DEF RulesTypeOK, CloseFails, Mishap, Goto, Stages
<1>8. ASSUME NEW w \in Writers, RemoveOld(w) PROVE RulesTypeOK'
  BY <1>8 DEF RulesTypeOK, RemoveOld, Goto, Stages
<1>9. ASSUME NEW w \in Writers, RemoveFails(w) PROVE RulesTypeOK'
  BY <1>9 DEF RulesTypeOK, RemoveFails, Return, Quiet, Stages
<1>10. ASSUME NEW w \in Writers, Rename(w) PROVE RulesTypeOK'
  BY <1>10 DEF RulesTypeOK, Rename, Goto, Stages
<1>11. ASSUME NEW w \in Writers, RenameFails(w) PROVE RulesTypeOK'
  BY <1>11 DEF RulesTypeOK, RenameFails, Mishap, Return, Quiet, Stages
<1>12. ASSUME NEW w \in Writers, Swap(w) PROVE RulesTypeOK'
  <2>1. kept' \in [RuleIds -> Bodies \cup {NoRule}]
    BY <1>12 DEF RulesTypeOK, Swap, Edited, Changes
  <2> QED BY <1>12, <2>1 DEF RulesTypeOK, Swap, Return, Quiet, Stages
<1>13. CASE StartEvent
  BY <1>13 DEF RulesTypeOK, StartEvent
<1>14. CASE EndEvent
  BY <1>14 DEF RulesTypeOK, EndEvent
<1>15. CASE Restart
  <2>1. memory' \in Lists
    BY <1>15 DEF RulesTypeOK, Restart, Loaded
  <2>2. kept' \in [RuleIds -> Bodies \cup {NoRule}]
    BY <1>15, <2>1 DEF Restart, Lists
  <2> QED BY <1>15, <2>1, <2>2 DEF RulesTypeOK, Restart, Mishap, Quiet, Stages
<1>16. CASE UNCHANGED ruleVars
  BY <1>16 DEF RulesTypeOK, ruleVars
<1> QED
  BY <1>1, <1>2, <1>3, <1>4, <1>5, <1>6, <1>7, <1>8, <1>9, <1>10, <1>11, <1>12, <1>13,
     <1>14, <1>15, <1>16, RulesNextCases

\* claw_event_router_init starts from whatever whole file it finds.
LEMMA InitType ==
  ASSUME RulesInit
  PROVE  RulesTypeOK
<1>1. memory \in Lists
  BY NoRulesType DEF RulesInit, Loaded
<1>2. kept \in [RuleIds -> Bodies \cup {NoRule}]
  BY <1>1 DEF RulesInit, Lists
<1>3. op \in [Writers -> [pc : Stages, change : Changes \cup {Reload}, list : Lists]]
  BY NoRulesType DEF RulesInit, Quiet, Stages
<1> QED BY <1>1, <1>2, <1>3, NoRulesType DEF RulesInit, RulesTypeOK

\* RulesTypeOK: however the tasks interleave and whatever fails or restarts, the
\* list in memory and in a whole file keeps max_rules.
THEOREM RulesTypeCorrect == RulesSpec => []RulesTypeOK
<1>1. RulesInit => RulesTypeOK
  BY InitType
<1>2. RulesTypeOK /\ [RulesNext]_ruleVars => RulesTypeOK'
  BY TypeStep
<1> QED BY <1>1, <1>2, PTL DEF RulesSpec

\* While no mishap can garble a file, one task at a time is in an operation,
\* and the temporary file is what that task has made of it.
FileInv ==
  mishap # "garbling" =>
    /\ file # Garbled
    /\ \A v, w \in Writers : op[v].pc # "idle" /\ op[w].pc # "idle" => v = w
    /\ \A w \in Writers :
         /\ op[w].pc = "write" => temp = Garbled
         /\ op[w].pc \in {"remove", "rename"} => temp = op[w].list

\* Without a mishap the task in an operation has in hand the rules it read with
\* its change made, and the file has them once it is renamed.
DoneInv ==
  mishap = "none" =>
    /\ memory = kept
    /\ Between => Loaded(file) = kept
    /\ \A w \in Writers :
         /\ op[w].pc \in {"open", "write", "remove", "rename"} =>
              op[w].change # Reload /\ op[w].list = Edited(op[w].change, kept)
         /\ op[w].pc = "swap" =>
              op[w].list = IF op[w].change = Reload THEN kept ELSE Edited(op[w].change, kept)
         /\ op[w].pc = "rename" => file = Missing
         /\ op[w].pc = "swap" => Loaded(file) = op[w].list

\* A mishap that can garble a file is remembered.
LEMMA GarblingStays ==
  ASSUME [RulesNext]_ruleVars, mishap' # "garbling"
  PROVE  mishap # "garbling"
BY RulesNextCases DEF Begin, Read, ReadFails, OpenTemp, Write, WriteFails, CloseFails, RemoveOld,
   RemoveFails, Rename, RenameFails, Swap, StartEvent, EndEvent, Restart, Mishap, ruleVars

\* No single task, and no restart, lets anything but a whole list be renamed to
\* the rules file.
LEMMA FileStep ==
  ASSUME RulesTypeOK, FileInv, [RulesNext]_ruleVars
  PROVE  FileInv'
<1> SUFFICES ASSUME mishap' # "garbling"
             PROVE  /\ file' # Garbled
                    /\ \A v, w \in Writers : op'[v].pc # "idle" /\ op'[w].pc # "idle" => v = w
                    /\ \A w \in Writers :
                         /\ op'[w].pc = "write" => temp' = Garbled
                         /\ op'[w].pc \in {"remove", "rename"} => temp' = op'[w].list
  BY DEF FileInv
<1> DEFINE Goal == /\ file' # Garbled
                   /\ \A v, w \in Writers : op'[v].pc # "idle" /\ op'[w].pc # "idle" => v = w
                   /\ \A w \in Writers :
                        /\ op'[w].pc = "write" => temp' = Garbled
                        /\ op'[w].pc \in {"remove", "rename"} => temp' = op'[w].list
<1>0. /\ file # Garbled
      /\ \A v, w \in Writers : op[v].pc # "idle" /\ op[w].pc # "idle" => v = w
      /\ \A w \in Writers :
           /\ op[w].pc = "write" => temp = Garbled
           /\ op[w].pc \in {"remove", "rename"} => temp = op[w].list
  BY GarblingStays DEF FileInv
<1>1. ASSUME NEW w \in Writers, NEW change \in Changes \cup {Reload}, Begin(w, change)
      PROVE  Goal
  <2>1. \A v \in Writers \ {w} : op[v].pc = "idle"
    BY <1>1, GarblingStays DEF Begin, Mishap, At
  <2> QED BY <1>0, <1>1, <2>1 DEF Begin, At, RulesTypeOK
<1>2. ASSUME NEW w \in Writers, Read(w) PROVE Goal
  <2>1. /\ op[w].pc = "read"
        /\ UNCHANGED <<file, temp>>
        /\ \E l \in {Loaded(file), NoRules} \ {Garbled} :
             \/ op' = [op EXCEPT ![w].pc = "swap", ![w].list = l]
             \/ op' = [op EXCEPT ![w].pc = "open", ![w].list = Edited(op[w].change, l)]
             \/ op' = [op EXCEPT ![w] = Quiet]
    BY <1>2 DEF Read, At, Return
  <2> QED BY <1>0, <2>1 DEF RulesTypeOK, Quiet
<1>3. ASSUME NEW w \in Writers, ReadFails(w) PROVE Goal
  BY <1>0, <1>3 DEF ReadFails, Return, Quiet, RulesTypeOK
<1>4. ASSUME NEW w \in Writers, OpenTemp(w) PROVE Goal
  BY <1>0, <1>4 DEF OpenTemp, At, Goto, RulesTypeOK
<1>5. ASSUME NEW w \in Writers, Write(w) PROVE Goal
  <2>1. temp = Garbled /\ op[w].pc = "write" /\ op' = [op EXCEPT ![w].pc = "remove"]
    BY <1>0, <1>5 DEF Write, At, Goto
  <2>2. \A v \in Writers \ {w} : op[v].pc = "idle"
    BY <1>0, <2>1
  <2>3. UNCHANGED file /\ temp' = op[w].list
    BY <1>5, <2>1, <2>2, RuleAssumption DEF Write
  <2> QED BY <1>0, <2>1, <2>2, <2>3 DEF RulesTypeOK
<1>6. ASSUME NEW w \in Writers, WriteFails(w) PROVE Goal
  BY <1>0, <1>6 DEF WriteFails, At, Return, Quiet, RulesTypeOK
<1>7. ASSUME NEW w \in Writers, CloseFails(w) PROVE Goal
  BY <1>7 DEF CloseFails, Mishap
<1>8. ASSUME NEW w \in Writers, RemoveOld(w) PROVE Goal
  BY <1>0, <1>8, RuleAssumption DEF RemoveOld, At, Goto, RulesTypeOK
<1>9. ASSUME NEW w \in Writers, RemoveFails(w) PROVE Goal
  BY <1>0, <1>9 DEF RemoveFails, At, Return, Quiet, RulesTypeOK
<1>10. ASSUME NEW w \in Writers, Rename(w) PROVE Goal
  <2>1. op[w].pc = "rename" /\ file' = op[w].list /\ op' = [op EXCEPT ![w].pc = "swap"]
    BY <1>0, <1>10 DEF Rename, At, Goto
  <2>2. \A v \in Writers \ {w} : op[v].pc = "idle"
    BY <1>0, <2>1
  <2>3. op[w].list \in Lists
    BY DEF RulesTypeOK
  <2> QED BY <2>1, <2>2, <2>3, FileAssumption DEF RulesTypeOK
<1>11. ASSUME NEW w \in Writers, RenameFails(w) PROVE Goal
  BY <1>0, <1>11 DEF RenameFails, At, Return, Quiet, RulesTypeOK
<1>12. ASSUME NEW w \in Writers, Swap(w) PROVE Goal
  BY <1>0, <1>12 DEF Swap, Return, Quiet, RulesTypeOK
<1>13. CASE Restart
  BY <1>0, <1>13 DEF Restart, Quiet
<1>14. ASSUME UNCHANGED <<file, temp, op>> PROVE Goal
  BY <1>0, <1>14
<1> QED
  BY <1>1, <1>2, <1>3, <1>4, <1>5, <1>6, <1>7, <1>8, <1>9, <1>10, <1>11, <1>12, <1>13,
     <1>14, RulesNextCases DEF StartEvent, EndEvent, ruleVars

\* The rules a change reports as done are those in memory and in the file.
LEMMA DoneStep ==
  ASSUME RulesTypeOK, FileInv, DoneInv, [RulesNext]_ruleVars
  PROVE  DoneInv'
<1> DEFINE Hand(w) ==
             /\ op[w].pc \in {"open", "write", "remove", "rename"} =>
                  op[w].change # Reload /\ op[w].list = Edited(op[w].change, kept)
             /\ op[w].pc = "swap" =>
                  op[w].list = IF op[w].change = Reload THEN kept
                                                        ELSE Edited(op[w].change, kept)
             /\ op[w].pc = "rename" => file = Missing
             /\ op[w].pc = "swap" => Loaded(file) = op[w].list
<1> SUFFICES ASSUME mishap' = "none"
             PROVE  /\ memory' = kept'
                    /\ Between' => Loaded(file') = kept'
                    /\ \A w \in Writers : Hand(w)'
  BY DEF DoneInv, Loaded
<1> DEFINE Goal == /\ memory' = kept'
                   /\ Between' => Loaded(file') = kept'
                   /\ \A w \in Writers : Hand(w)'
<1>0. /\ mishap = "none"
      /\ memory = kept
      /\ Between => Loaded(file) = kept
      /\ \A w \in Writers : Hand(w)
      /\ file # Garbled
      /\ \A v, w \in Writers : op[v].pc # "idle" /\ op[w].pc # "idle" => v = w
      /\ \A w \in Writers : op[w].pc \in {"remove", "rename"} => temp = op[w].list
  <2>1. mishap = "none"
    BY RulesNextCases DEF Begin, Read, ReadFails, OpenTemp, Write, WriteFails, CloseFails,
       RemoveOld, RemoveFails, Rename, RenameFails, Swap, StartEvent, EndEvent, Restart,
       Mishap, ruleVars, RulesTypeOK
  <2> QED BY <2>1 DEF DoneInv, FileInv
<1>1. ASSUME NEW w \in Writers, op[w].pc # "idle"
      PROVE  \A v \in Writers \ {w} : op[v].pc = "idle"
  BY <1>0, <1>1
<1>2. ASSUME NEW w \in Writers, op[w].pc \in {"read", "open", "write", "remove"}
      PROVE  Loaded(file) = kept
  BY <1>0, <1>1, <1>2 DEF Between
<1>3. ASSUME NEW w \in Writers, op' = [op EXCEPT ![w] = Quiet],
             \A v \in Writers \ {w} : op[v].pc = "idle",
             memory' = kept', Loaded(file') = kept'
      PROVE  Goal
  BY <1>3 DEF RulesTypeOK, Quiet
<1>4. ASSUME NEW w \in Writers, NEW change \in Changes \cup {Reload}, Begin(w, change)
      PROVE  Goal
  <2>1. \A v \in Writers \ {w} : op[v].pc = "idle"
    BY <1>4 DEF Begin, Mishap, At
  <2>2. Loaded(file) = kept
    BY <1>0, <1>4, <2>1 DEF Between, Begin, At
  <2> QED BY <1>0, <1>4, <2>1, <2>2 DEF Begin, At, RulesTypeOK
<1>5. ASSUME NEW w \in Writers, Read(w) PROVE Goal
  <2>1. op[w].pc = "read"
    BY <1>5 DEF Read, At
  <2>2. Loaded(file) = kept
    BY <1>2, <2>1
  <2>3. \/ op[w].change = Reload /\ op' = [op EXCEPT ![w].pc = "swap", ![w].list = kept]
        \/ op[w].change # Reload
           /\ op' = [op EXCEPT ![w].pc = "open", ![w].list = Edited(op[w].change, kept)]
        \/ op' = [op EXCEPT ![w] = Quiet]
    BY <1>5, <2>2 DEF Read, Return, Mishap
  <2>4. UNCHANGED <<file, memory, kept>>
    BY <1>5 DEF Read
  <2> QED BY <1>0, <1>1, <2>1, <2>2, <2>3, <2>4 DEF RulesTypeOK, Quiet
<1>6. ASSUME NEW w \in Writers, ReadFails(w) PROVE Goal
  BY <1>0, <1>1, <1>2, <1>3, <1>6 DEF ReadFails, At, Return
<1>7. ASSUME NEW w \in Writers, OpenTemp(w) PROVE Goal
  BY <1>0, <1>1, <1>2, <1>7 DEF OpenTemp, At, Goto, RulesTypeOK
<1>8. ASSUME NEW w \in Writers, Write(w) PROVE Goal
  <2>1. op[w].pc = "write" /\ op' = [op EXCEPT ![w].pc = "remove"]
        /\ UNCHANGED <<memory, kept>>
    BY <1>8 DEF Write, At, Goto
  <2>2. temp = Garbled
    BY <1>0, <2>1 DEF FileInv
  <2>3. UNCHANGED file
    BY <1>8, <2>2, RuleAssumption DEF Write
  <2>4. Loaded(file) = kept
    BY <1>2, <2>1
  <2> QED BY <1>0, <1>1, <2>1, <2>3, <2>4 DEF RulesTypeOK
<1>9. ASSUME NEW w \in Writers, WriteFails(w) PROVE Goal
  BY <1>0, <1>1, <1>2, <1>3, <1>9 DEF WriteFails, At, Return
<1>10. ASSUME NEW w \in Writers, CloseFails(w) PROVE Goal
  BY <1>0, <1>10 DEF CloseFails, Mishap
<1>11. ASSUME NEW w \in Writers, RemoveOld(w) PROVE Goal
  <2>1. op[w].pc = "remove" /\ op' = [op EXCEPT ![w].pc = "rename"] /\ file' = Missing
        /\ UNCHANGED <<memory, kept>>
    BY <1>11 DEF RemoveOld, At, Goto
  <2>2. op'[w].pc = "rename"
    BY <2>1 DEF RulesTypeOK
  <2>3. ~Between'
    BY <2>2 DEF Between
  <2> QED BY <1>0, <1>1, <2>1, <2>3 DEF RulesTypeOK
<1>12. ASSUME NEW w \in Writers, RemoveFails(w) PROVE Goal
  BY <1>0, <1>1, <1>2, <1>3, <1>12 DEF RemoveFails, At, Return
<1>13. ASSUME NEW w \in Writers, Rename(w) PROVE Goal
  <2>1. op[w].pc = "rename" /\ op' = [op EXCEPT ![w].pc = "swap"] /\ file' = op[w].list
        /\ UNCHANGED <<memory, kept>>
    BY <1>0, <1>13 DEF Rename, At, Goto
  <2>2. op'[w].pc = "swap"
    BY <2>1 DEF RulesTypeOK
  <2>3. ~Between'
    BY <2>2 DEF Between
  <2>4. op[w].list \in Lists
    BY DEF RulesTypeOK
  <2>5. Loaded(file') = op[w].list
    BY <2>1, <2>4, FileAssumption DEF Loaded
  <2> QED BY <1>0, <1>1, <2>1, <2>3, <2>5 DEF RulesTypeOK
<1>14. ASSUME NEW w \in Writers, RenameFails(w) PROVE Goal
  BY <1>0, <1>14 DEF RenameFails, Mishap
<1>15. ASSUME NEW w \in Writers, Swap(w) PROVE Goal
  <2>1. /\ op[w].pc = "swap"
        /\ memory' = op[w].list
        /\ kept' = IF op[w].change = Reload THEN kept ELSE Edited(op[w].change, kept)
        /\ op' = [op EXCEPT ![w] = Quiet]
        /\ file' = file
    BY <1>15 DEF Swap, At, Return
  <2>2. memory' = kept' /\ Loaded(file') = kept'
    BY <1>0, <2>1
  <2> QED BY <1>1, <1>3, <2>1, <2>2
<1>16. CASE Restart
  <2>1. memory' = Loaded(file) /\ kept' = memory' /\ file' = file
        /\ op' = [w \in Writers |-> Quiet]
    BY <1>0, <1>16 DEF Restart
  <2> QED BY <2>1 DEF Quiet
<1>17. ASSUME UNCHANGED <<file, memory, op, kept>> PROVE Goal
  BY <1>0, <1>17 DEF Between
<1> QED
  BY <1>4, <1>5, <1>6, <1>7, <1>8, <1>9, <1>10, <1>11, <1>12, <1>13, <1>14, <1>15, <1>16,
     <1>17, RulesNextCases DEF StartEvent, EndEvent, ruleVars
\* The inductive invariant of the rule store.
StoreInv == RulesTypeOK /\ FileInv /\ DoneInv /\ MatchedAlive

\* The mutex keeps every other task from replacing the list in memory while the
\* router task matches an event against it.
LEMMA AliveStep ==
  ASSUME RulesTypeOK, MatchedAlive, [RulesNext]_ruleVars
  PROVE  MatchedAlive'
<1>1. ASSUME UNCHANGED <<memory, router>> PROVE MatchedAlive'
  BY <1>1 DEF MatchedAlive
<1>2. ASSUME NEW w \in Writers, Swap(w) PROVE MatchedAlive'
  <2>1. CASE w = RouterTask
    BY <1>2, <2>1 DEF MatchedAlive, Swap, RulesTypeOK
  <2>2. CASE w # RouterTask
    BY <1>2, <2>2 DEF MatchedAlive, Swap, MayLock, RulesTypeOK
  <2> QED BY <2>1, <2>2
<1>3. CASE StartEvent
  BY <1>3 DEF MatchedAlive, StartEvent
<1>4. CASE EndEvent
  BY <1>4 DEF MatchedAlive, EndEvent
<1>5. CASE Restart
  <2>1. router'.at \in {"idle", "down"}
    BY <1>5 DEF Restart
  <2> QED BY <2>1 DEF MatchedAlive
<1> QED
  BY <1>1, <1>2, <1>3, <1>4, <1>5, RulesNextCases
  DEF Begin, Read, ReadFails, OpenTemp, Write, WriteFails, CloseFails, RemoveOld,
      RemoveFails, Rename, RenameFails, ruleVars

\* Every reachable state of the store satisfies the inductive invariant.
THEOREM StoreInvariant == RulesSpec => []StoreInv
<1>1. RulesInit => StoreInv
  <2> SUFFICES ASSUME RulesInit
               PROVE  StoreInv
    OBVIOUS
  <2>1. FileInv
    BY FileAssumption, RuleAssumption DEF RulesInit, FileInv, Quiet
  <2>2. DoneInv
    BY DEF RulesInit, DoneInv, Quiet
  <2>3. MatchedAlive
    BY DEF RulesInit, MatchedAlive
  <2> QED BY <2>1, <2>2, <2>3, InitType DEF StoreInv
<1>2. StoreInv /\ [RulesNext]_ruleVars => StoreInv'
  BY TypeStep, FileStep, DoneStep, AliveStep DEF StoreInv
<1> QED BY <1>1, <1>2, PTL DEF RulesSpec

\* DoneIsKept: a change that was reported as done is in memory and in the file
\* until another replaces it, unless two tasks overlapped or a file operation
\* went wrong unseen.
THEOREM DoneCorrect == RulesSpec => []DoneIsKept
<1>1. StoreInv => DoneIsKept
  BY DEF StoreInv, DoneInv, DoneIsKept
<1> QED BY <1>1, StoreInvariant, PTL

\* FileWhole: one task at a time never leaves a rules file that does not parse,
\* whatever operation on files fails and wherever a restart falls.
THEOREM FileCorrect == RulesSpec => []FileWhole
<1>1. StoreInv => FileWhole
  BY DEF StoreInv, FileInv, FileWhole
<1> QED BY <1>1, StoreInvariant, PTL

\* MatchedAlive: rules are freed only when no event is being matched, or by an
\* action of theirs.
THEOREM AliveCorrect == RulesSpec => []MatchedAlive
<1>1. StoreInv => MatchedAlive
  BY DEF StoreInv
<1> QED BY <1>1, StoreInvariant, PTL

\* RestartAtomic: a restart inside a change comes up with the rules from before
\* the change or after it.
THEOREM RestartCorrect == RulesSpec => RestartAtomic
<1> DEFINE Atomic == Restart /\ mishap' = "none" =>
             memory' \in {memory} \cup {op[w].list : w \in {v \in Writers : At(v, "swap")}}
<1>1. StoreInv /\ [RulesNext]_ruleVars => [Atomic]_ruleVars
  <2> SUFFICES ASSUME StoreInv, Restart, mishap' = "none"
               PROVE  memory' \in {memory} \cup
                        {op[w].list : w \in {v \in Writers : At(v, "swap")}}
    OBVIOUS
  <2>1. mishap = "none" /\ \A w \in Writers : op[w].pc # "rename"
    BY DEF Restart, Mishap, At, StoreInv, RulesTypeOK
  <2>2. memory' = Loaded(file)
    BY <2>1 DEF Restart, StoreInv, FileInv
  <2>3. CASE \E w \in Writers : op[w].pc = "swap"
    <3>1. PICK w \in Writers : op[w].pc = "swap"
      BY <2>3
    <3>2. Loaded(file) = op[w].list
      BY <2>1, <3>1 DEF StoreInv, DoneInv
    <3> QED BY <2>2, <3>1, <3>2 DEF At
  <2>4. CASE ~ \E w \in Writers : op[w].pc = "swap"
    <3>1. Between
      BY <2>1, <2>4 DEF Between
    <3> QED BY <2>1, <2>2, <3>1 DEF StoreInv, DoneInv
  <2> QED BY <2>3, <2>4
<1> QED BY <1>1, StoreInvariant, PTL DEF RulesSpec, RestartAtomic
=============================================================================
