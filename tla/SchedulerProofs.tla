-------------------------- MODULE SchedulerProofs --------------------------
(* Proofs about Scheduler, for any users, schedules and bounds.             *)
EXTENDS Scheduler, TLAPS

\* The disjuncts of the next-state relation, each with its parameters.
LEMMA NextCases ==
  ASSUME [Next]_vars
  PROVE  \/ \E u \in Users : \/ AskFor(u) \/ Refuse(u) \/ Change(u) \/ Trigger(u)
                             \/ Reload(u)
         \/ NotifySync \/ Sync \/ Wake \/ Look
         \/ \E i \in Ids : Publish(i) \/ PublishFails(i) \/ Miss(i)
         \/ SaveDefinitions \/ SaveDefinitionsFails \/ SaveState \/ SaveStateFails
         \/ LoadDefinitions \/ LoadDefinitionsFails \/ LoadState \/ LoadStateFails
         \/ TimePasses \/ SetClock \/ \E soft \in BOOLEAN : Restart(soft)
         \/ UNCHANGED vars
BY DEF Next, Asks, Fire, Save, Load

-----------------------------------------------------------------------------
(* Fire times.                                                             *)

LEMMA GridType ==
  ASSUME NEW start \in Nat, NEW every \in Nat \ {0}, NEW anchor \in Nat
  PROVE  /\ NextOnGrid(start, every, anchor) \in Nat
         /\ NextOnGrid(start, every, anchor) >= start
<1>1. CASE anchor < start
  BY <1>1 DEF NextOnGrid
<1>2. CASE anchor >= start
  <2> DEFINE q == (anchor - start) \div every
  <2>1. q \in Nat
    BY <1>2
  <2> HIDE DEF q
  <2>2. every * (q + 1) \in Nat
    BY <2>1
  <2>3. NextOnGrid(start, every, anchor) = start + every * (q + 1)
    BY <1>2 DEF NextOnGrid, q
  <2> QED BY <2>2, <2>3
<1> QED BY <1>1, <1>2

\* The next fire time of a schedule is a time to come, or there is none.
LEMMA NextFireType ==
  ASSUME NEW item \in Sound, NEW anchor \in Nat, NEW runs \in Nat, Computable(item, runs)
  PROVE  /\ NextFire(item, anchor, runs) \in Int
         /\ NextFire(item, anchor, runs) >= 0 => NextFire(item, anchor, runs) > 0
<1>1. item \in Item /\ Valid(item)
  BY DEF Sound
<1>2. CASE Used(item, runs)
  BY <1>2 DEF NextFire
<1>3. CASE ~Used(item, runs)
  <2> DEFINE t == Following(item, anchor)
  <2>1. item.kind = "cron" => item.every \in Nat \ {0}
    BY <1>1, <1>3 DEF Computable, Item
  <2>2. t \in Int /\ (t >= 0 => t > 0)
    <3>1. CASE item.kind = "once"
      BY <1>1, <3>1 DEF Following, Valid, Item
    <3>2. CASE item.kind = "interval" /\ item.start = 0
      BY <1>1, <3>2 DEF Following, Valid, Item
    <3>3. CASE item.kind = "interval" /\ item.start > 0
      <4>1. item.start \in Nat /\ item.every \in Nat \ {0}
        BY <1>1, <3>3 DEF Valid, Item
      <4>2. t = NextOnGrid(item.start, item.every, anchor)
        BY <3>3, <4>1 DEF Following
      <4>3. t \in Nat /\ t >= item.start
        BY <4>1, <4>2, GridType, Zenon
      <4> HIDE DEF t
      <4> QED BY <3>3, <4>1, <4>3
    <3>4. CASE item.kind = "cron"
      <4>1. t = NextOnGrid(item.every, item.every, anchor)
        BY <3>4 DEF Following
      <4>2. t \in Nat /\ t >= item.every
        BY <2>1, <3>4, <4>1, GridType, Zenon
      <4> HIDE DEF t
      <4> QED BY <2>1, <3>4, <4>2
    <3> QED BY <1>1, <3>1, <3>2, <3>3, <3>4 DEF Item, Kinds
  <2>3. NextFire(item, anchor, runs) = IF item.end > 0 /\ t > item.end THEN -1 ELSE t
    BY <1>3 DEF NextFire
  <2> HIDE DEF t
  <2> QED BY <2>2, <2>3
<1> QED BY <1>2, <1>3

\* An entry in the hands of its publication is "running".
Working == [item : Sound, status : Statuses \cup {"running"}, next : Int, last : Nat, runs : Nat]

\* Once the clock is known to be set, what is scheduled has a time.
Timed(e) == e.status = "scheduled" => e.next > 0

LEMMA RefreshedType ==
  ASSUME NEW e \in Working, NEW anchor \in Nat, NEW valid \in BOOLEAN
  PROVE  LET r == Refreshed(e, anchor, valid) IN
         /\ r \in Entry /\ r.item = e.item
         /\ valid => Timed(r)
<1> DEFINE r == Refreshed(e, anchor, valid)
           t == NextFire(e.item, anchor, e.runs)
<1>1. /\ e.item \in Sound /\ e.runs \in Nat /\ e.last \in Nat /\ e.next \in Int
      /\ e.status \in Statuses \cup {"running"}
      /\ e = [item |-> e.item, status |-> e.status, next |-> e.next, last |-> e.last,
              runs |-> e.runs]
  BY DEF Working
<1>2. e.item.on \in BOOLEAN
  BY <1>1 DEF Sound, Item
<1>3. CASE ~e.item.on
  <2>1. r = [e EXCEPT !.status = "disabled", !.next = -1]
    BY <1>3 DEF Refreshed
  <2>2. r = [item |-> e.item, status |-> "disabled", next |-> -1, last |-> e.last,
             runs |-> e.runs]
    BY <1>1, <2>1
  <2> QED BY <1>1, <2>2 DEF Entry, Statuses, Timed
<1>4. CASE e.item.on /\ e.status = "paused"
  <2>1. r = e
    BY <1>4 DEF Refreshed
  <2> QED BY <1>1, <1>4, <2>1 DEF Entry, Statuses, Timed
<1>5. CASE e.item.on /\ e.status # "paused" /\ ~valid /\ NeedsTime(e.item)
  <2>1. r = [e EXCEPT !.status = "scheduled", !.next = -1]
    BY <1>5 DEF Refreshed
  <2>2. r = [item |-> e.item, status |-> "scheduled", next |-> -1, last |-> e.last,
             runs |-> e.runs]
    BY <1>1, <2>1
  <2> QED BY <1>1, <1>5, <2>2 DEF Entry, Statuses
<1>6. CASE e.item.on /\ e.status # "paused" /\ ~(~valid /\ NeedsTime(e.item))
           /\ ~Computable(e.item, e.runs)
  <2>1. r = [e EXCEPT !.status = "error"]
    BY <1>6 DEF Refreshed
  <2> QED BY <1>1, <2>1 DEF Entry, Statuses, Timed
<1>7. CASE e.item.on /\ e.status # "paused" /\ ~(~valid /\ NeedsTime(e.item))
           /\ Computable(e.item, e.runs)
  <2>1. r = [e EXCEPT !.next = t, !.status = IF t < 0 THEN "completed" ELSE "scheduled"]
    BY <1>7 DEF Refreshed
  <2>2. t \in Int /\ (t >= 0 => t > 0)
    BY <1>1, <1>7, NextFireType
  <2> HIDE DEF t
  <2>3. r = [item |-> e.item, status |-> IF t < 0 THEN "completed" ELSE "scheduled",
             next |-> t, last |-> e.last, runs |-> e.runs]
    BY <1>1, <2>1
  <2> QED BY <1>1, <2>2, <2>3 DEF Entry, Statuses, Timed
<1> QED BY <1>2, <1>3, <1>4, <1>5, <1>6, <1>7 DEF Timed

-----------------------------------------------------------------------------
(* What a step makes of an entry.                                          *)

LEMMA NowType ==
  ASSUME TypeOK
  PROVE  Now \in Nat
BY DEF TypeOK, Now

LEMMA AbsentItem == NoItem \notin Sound /\ Free \in Entry /\ Free.item = NoItem
BY AbsentAssumption DEF Sound, Free, Entry, Statuses

LEMMA CallType ==
  ASSUME NEW c \in Call
  PROVE  /\ c.now \in Nat
         /\ c.kind \notin {"tick", "sync", "load"} => c.id \in Ids
         /\ c.kind \in {"add", "update"} => c.item \in Sound
         /\ \A n \in Nat : [c EXCEPT !.now = n] \in Call
         /\ \A n \in Nat : [c EXCEPT !.now = n].kind = c.kind
         /\ \A n \in Nat : [c EXCEPT !.now = n].id = c.id
<1>1. CASE c \in [kind : {"add", "update"}, id : Ids, item : Items, now : Nat]
  <2>1. /\ c.kind \in {"add", "update"} /\ c.id \in Ids /\ c.item \in Items /\ c.now \in Nat
        /\ \A n \in Nat : [c EXCEPT !.now = n] \in
             [kind : {"add", "update"}, id : Ids, item : Items, now : Nat]
        /\ \A n \in Nat : [c EXCEPT !.now = n].kind = c.kind
        /\ \A n \in Nat : [c EXCEPT !.now = n].id = c.id
    BY <1>1
  <2> QED BY <2>1, ItemAssumption DEF Call
<1>2. CASE c \in [kind : {"remove", "enable", "disable", "pause", "resume", "trigger"},
                  id : Ids, item : {NoItem}, now : Nat]
  <2>1. /\ c.kind \in {"remove", "enable", "disable", "pause", "resume", "trigger"}
        /\ c.id \in Ids /\ c.now \in Nat
        /\ \A n \in Nat : [c EXCEPT !.now = n] \in
             [kind : {"remove", "enable", "disable", "pause", "resume", "trigger"},
              id : Ids, item : {NoItem}, now : Nat]
        /\ \A n \in Nat : [c EXCEPT !.now = n].kind = c.kind
        /\ \A n \in Nat : [c EXCEPT !.now = n].id = c.id
    BY <1>2
  <2> QED BY <2>1 DEF Call
<1>3. CASE c \in [kind : {"tick", "sync", "load"}, id : {NoId}, item : {NoItem}, now : Nat]
  <2>1. /\ c.kind \in {"tick", "sync", "load"} /\ c.now \in Nat
        /\ \A n \in Nat : [c EXCEPT !.now = n] \in
             [kind : {"tick", "sync", "load"}, id : {NoId}, item : {NoItem}, now : Nat]
        /\ \A n \in Nat : [c EXCEPT !.now = n].kind = c.kind
        /\ \A n \in Nat : [c EXCEPT !.now = n].id = c.id
    BY <1>3
  <2> QED BY <2>1 DEF Call
<1> QED BY <1>1, <1>2, <1>3 DEF Call

\* The record of an entry with an item.
LEMMA EntryFields ==
  ASSUME NEW e \in Entry, e.item # NoItem
  PROVE  /\ e.item \in Sound /\ e.status \in Statuses /\ e.next \in Int
         /\ e.last \in Nat /\ e.runs \in Nat
         /\ e = [item |-> e.item, status |-> e.status, next |-> e.next, last |-> e.last,
                 runs |-> e.runs]
BY DEF Entry

LEMMA FreshType ==
  ASSUME NEW item \in Sound
  PROVE  Fresh(item) \in Entry /\ Fresh(item).item = item
<1>1. item # NoItem
  BY AbsentItem
<1>2. Fresh(item) = [item |-> item, status |-> IF item.on THEN "scheduled" ELSE "disabled",
                     next |-> -1, last |-> 0, runs |-> 0]
  BY <1>1 DEF Fresh
<1> QED BY <1>2 DEF Entry, Statuses

\* Good(e): an entry with a time if it waits for one.
Good(e) == e.item # NoItem => Timed(e)

\* What a change leaves, and how it deals with what is paused.
LEMMA ChangedType ==
  ASSUME NEW e \in Entry, NEW call \in Call, timeValid \in BOOLEAN,
         call.kind \notin {"tick", "sync", "load", "trigger"},
         call.kind # "add" => e.item # NoItem
  PROVE  /\ Changed(e, call) \in Entry
         /\ timeValid /\ Good(e) => Good(Changed(e, call))
         /\ call.kind \in {"pause", "resume"} => Changed(e, call).item = e.item
         /\ call.kind = "pause" => Changed(e, call).status = "paused"
         /\ call.kind = "update" /\ e.status = "paused" =>
              Changed(e, call).item # NoItem /\ Changed(e, call).status = "paused"
<1> DEFINE r == Changed(e, call)
<1>0. call.now \in Nat /\ (call.kind \in {"add", "update"} => call.item \in Sound)
  BY CallType
<1>1. CASE call.kind = "add"
  <2> DEFINE f == [Fresh(call.item) EXCEPT !.next = 0]
  <2>1. Fresh(call.item) \in Entry /\ Fresh(call.item).item = call.item /\ call.item # NoItem
    BY <1>0, <1>1, FreshType, AbsentItem
  <2>2. f \in Working
    BY <2>1, EntryFields, <1>0, <1>1 DEF Working
  <2>3. r = Refreshed(f, call.now, timeValid)
    BY <1>1 DEF Changed
  <2> HIDE DEF f
  <2> QED BY <1>0, <1>1, <2>2, <2>3, RefreshedType DEF Good
<1>2. CASE call.kind = "update" /\ e.status = "paused"
  <2>1. r = [e EXCEPT !.item = call.item]
    BY <1>2 DEF Changed
  <2>2. r = [item |-> call.item, status |-> e.status, next |-> e.next, last |-> e.last,
             runs |-> e.runs]
    BY <1>2, <2>1, EntryFields
  <2> QED BY <1>0, <1>2, <2>2, EntryFields, AbsentItem DEF Entry, Good, Timed
<1>3. CASE call.kind = "update" /\ e.status # "paused"
  <2> DEFINE f == [e EXCEPT !.item = call.item]
  <2>1. f = [item |-> call.item, status |-> e.status, next |-> e.next, last |-> e.last,
             runs |-> e.runs]
    BY <1>3, EntryFields
  <2>2. f \in Working
    BY <1>0, <1>3, <2>1, EntryFields DEF Working
  <2>3. r = Refreshed(f, call.now, timeValid)
    BY <1>3 DEF Changed
  <2> HIDE DEF f
  <2> QED BY <1>0, <1>3, <2>2, <2>3, RefreshedType DEF Good
<1>4. CASE call.kind = "remove"
  <2>1. r = Free
    BY <1>4 DEF Changed
  <2> QED BY <1>4, <2>1, AbsentItem DEF Good
<1>5. ASSUME NEW on \in BOOLEAN, e.item # NoItem, r = Refreshed(Switched(e, on), call.now, timeValid)
      PROVE  r \in Entry /\ (timeValid => Good(r))
  <2> DEFINE f == Switched(e, on)
             item == [e.item EXCEPT !.on = on]
  <2>1. item \in Sound
    BY <1>5, EntryFields DEF Sound, Item, Valid
  <2>2. /\ e = [item |-> e.item, status |-> e.status, next |-> e.next, last |-> e.last,
                runs |-> e.runs]
        /\ f = [e EXCEPT !.item = item, !.status = IF on THEN "scheduled" ELSE "disabled"]
    BY <1>5, EntryFields DEF Switched
  <2> HIDE DEF item
  <2>3. f = [item |-> item, status |-> IF on THEN "scheduled" ELSE "disabled", next |-> e.next,
             last |-> e.last, runs |-> e.runs]
    <3> HIDE DEF f
    <3> QED BY <2>2
  <2>4. f \in Working
    BY <1>5, <2>1, <2>3, EntryFields DEF Working, Statuses
  <2> HIDE DEF f
  <2> QED BY <1>0, <1>5, <2>4, RefreshedType DEF Good, f
<1>6. CASE call.kind = "enable"
  <2>1. r = Refreshed(Switched(e, TRUE), call.now, timeValid)
    BY <1>6 DEF Changed
  <2> QED BY <1>5, <1>6, <2>1
<1>7. CASE call.kind = "disable"
  <2>1. r = Refreshed(Switched(e, FALSE), call.now, timeValid)
    BY <1>7 DEF Changed
  <2> QED BY <1>5, <1>7, <2>1
<1>8. CASE call.kind = "pause"
  <2>1. r = [e EXCEPT !.status = "paused"]
    BY <1>8 DEF Changed
  <2>2. r = [item |-> e.item, status |-> "paused", next |-> e.next, last |-> e.last,
             runs |-> e.runs]
    BY <1>8, <2>1, EntryFields
  <2> QED BY <1>8, <2>2, EntryFields DEF Entry, Statuses, Good, Timed
<1>9. CASE call.kind = "resume"
  <2>1. r = Refreshed(e, call.now, timeValid)
    BY <1>9 DEF Changed
  <2>2. e \in Working
    BY <1>9, EntryFields DEF Working
  <2> QED BY <1>0, <1>9, <2>1, <2>2, RefreshedType DEF Good
<1>10. call.kind \in {"add", "update", "remove", "enable", "disable", "pause", "resume"}
  BY DEF Call
<1> QED BY <1>1, <1>2, <1>3, <1>4, <1>6, <1>7, <1>8, <1>9, <1>10

LEMMA FiredOffType ==
  ASSUME NEW e \in Entry, e.item # NoItem, held.call.now \in Nat, timeValid \in BOOLEAN
  PROVE  /\ FiredOff(e) \in Entry /\ FiredOff(e).item = e.item
         /\ timeValid => Timed(FiredOff(e))
<1> DEFINE f == [e EXCEPT !.status = "running", !.last = held.call.now, !.runs = @ + 1]
<1>1. f = [e EXCEPT !.status = "running", !.last = held.call.now, !.runs = @ + 1]
  OBVIOUS
<1>2. FiredOff(e) = IF e.item.kind = "once" THEN [f EXCEPT !.next = -1, !.status = "completed"]
                    ELSE Refreshed(f, Planned(e), timeValid)
  BY DEF FiredOff
<1> HIDE DEF f
<1>3. e = [item |-> e.item, status |-> e.status, next |-> e.next, last |-> e.last,
           runs |-> e.runs]
  BY EntryFields
<1>4. f = [item |-> e.item, status |-> "running", next |-> e.next,
           last |-> held.call.now, runs |-> e.runs + 1]
  BY <1>1, <1>3
<1>5. f \in Working /\ f.item = e.item
  BY <1>4, EntryFields DEF Working
<1>6. Planned(e) \in Nat
  BY EntryFields DEF Planned
<1>7. CASE e.item.kind = "once"
  <2>1. FiredOff(e) = [f EXCEPT !.next = -1, !.status = "completed"]
    BY <1>2, <1>7
  <2>2. FiredOff(e) = [item |-> e.item, status |-> "completed", next |-> -1,
                       last |-> held.call.now, runs |-> e.runs + 1]
    BY <1>4, <2>1
  <2> QED BY <2>2, EntryFields DEF Entry, Statuses, Timed
<1>8. CASE e.item.kind # "once"
  BY <1>5, <1>6, <1>2, <1>8, RefreshedType
<1> QED BY <1>7, <1>8

LEMMA SyncedType ==
  ASSUME NEW e \in Entry, e.item # NoItem, Now \in Nat
  PROVE  /\ Synced(e) \in Entry /\ Synced(e).item = e.item /\ Timed(Synced(e))
         /\ e.status = "paused" => Synced(e).status = "paused"
<1> DEFINE g == [e EXCEPT !.last = 0, !.next = -1]
           f == IF ~timeValid /\ e.item.kind = "interval" /\ ~NeedsTime(e.item) THEN g ELSE e
<1>1. g = [e EXCEPT !.last = 0, !.next = -1]
  OBVIOUS
<1>2. Synced(e) = IF f.status = "paused" THEN f ELSE Refreshed(f, Now, TRUE)
  BY DEF Synced
<1> HIDE DEF g
<1>3. e = [item |-> e.item, status |-> e.status, next |-> e.next, last |-> e.last,
           runs |-> e.runs]
  BY EntryFields
<1>4. g = [item |-> e.item, status |-> e.status, next |-> -1, last |-> 0, runs |-> e.runs]
  BY <1>1, <1>3
<1>5. f \in Entry /\ f.item = e.item /\ f.status = e.status
  BY <1>4, EntryFields DEF Entry
<1> HIDE DEF f
<1>6. f \in Working
  BY <1>5, EntryFields DEF Working, Entry
<1>7. CASE f.status = "paused"
  BY <1>5, <1>2, <1>7 DEF Timed
<1>8. CASE f.status # "paused"
  BY <1>5, <1>2, <1>6, <1>8, RefreshedType
<1> QED BY <1>7, <1>8

LEMMA MergedType ==
  ASSUME NEW e \in Entry, NEW run \in RunState \cup {NoRun}
  PROVE  /\ Merged(e, run) \in Entry /\ Merged(e, run).item = e.item
         /\ e.item # NoItem /\ run # NoRun => Merged(e, run).status = run.status
<1>1. CASE e.item = NoItem \/ run = NoRun
  BY <1>1 DEF Merged
<1>2. CASE e.item # NoItem /\ run # NoRun
  <2>1. Merged(e, run) = [item |-> e.item, status |-> run.status, next |-> run.next,
                          last |-> run.last, runs |-> run.runs]
    BY <1>2 DEF Merged
  <2>2. run \in RunState
    BY <1>2
  <2> QED BY <1>2, <2>1, <2>2, EntryFields DEF Entry, RunState
<1> QED BY <1>1, <1>2

LEMMA ReanchoredType ==
  ASSUME NEW e \in Entry, NEW now \in Nat, timeValid \in BOOLEAN
  PROVE  /\ Reanchored(e, now) \in Entry /\ Reanchored(e, now).item = e.item
         /\ timeValid => Good(Reanchored(e, now))
         /\ e.status = "paused" => Reanchored(e, now) = e
<1>1. CASE e.item = NoItem \/ e.status = "paused"
  BY <1>1 DEF Reanchored, Good, Timed
<1>2. CASE e.item # NoItem /\ e.status # "paused"
  <2>1. Reanchored(e, now) = Refreshed(e, IF e.last > 0 THEN e.last ELSE now, timeValid)
    BY <1>2 DEF Reanchored
  <2>2. e \in Working /\ e.last \in Nat
    BY <1>2, EntryFields DEF Working
  <2> QED BY <1>2, <2>1, <2>2, RefreshedType DEF Good
<1> QED BY <1>1, <1>2

-----------------------------------------------------------------------------
(* Types.                                                                  *)

\* What is being fired has an item.
TodoInv == At("publish") => \A i \in held.todo : Occupied(i)

TypeInv == TypeOK /\ TodoInv

LEMMA HeldType ==
  ASSUME TypeOK, held # NoCall
  PROVE  /\ held \in Holding
         /\ held.by \in Tasks \cup {Boot} /\ held.call \in Call /\ held.stage \in Stages
         /\ held.prev \in Entry /\ held.todo \in SUBSET Ids /\ held.call.now \in Nat
<1>1. held \in Holding
  BY DEF TypeOK, Holding
<1>2. held.by \in Tasks \cup {Boot} /\ held.call \in Call /\ held.stage \in Stages
      /\ held.prev \in Entry /\ held.todo \in SUBSET Ids
  BY <1>1 DEF Holding
<1> QED BY <1>1, <1>2, CallType

LEMMA GotoType ==
  ASSUME TypeOK, held # NoCall, NEW stage \in Stages, Goto(stage)
  PROVE  /\ held' \in Holding /\ held' # NoCall /\ held'.stage = stage
         /\ held'.call = held.call /\ held'.by = held.by /\ held'.todo = held.todo
         /\ held'.prev = held.prev
<1>1. held \in Holding
  BY HeldType
<1> QED BY <1>1, CallAssumption DEF Goto, Holding

LEMMA ReleaseType ==
  ASSUME TypeOK, Release
  PROVE  held' = NoCall /\ calls' \in [Tasks -> Call \cup {NoCall}]
BY DEF TypeOK, Release

LEMMA HoldType ==
  ASSUME TypeOK, NEW u \in Tasks, calls[u] # NoCall, NEW stage \in Stages, NEW prev \in Entry,
         NEW todo \in SUBSET Ids, NEW now \in Nat, Hold(u, stage, prev, todo, now)
  PROVE  /\ held' \in Holding /\ held'.stage = stage /\ held'.todo = todo
         /\ held'.by = u /\ held'.prev = prev
         /\ held'.call.kind = calls[u].kind /\ held'.call.id = calls[u].id
<1>1. calls[u] \in Call
  BY DEF TypeOK
<1>2. PICK c \in Call : /\ c = [calls[u] EXCEPT !.now = now]
                        /\ c.kind = calls[u].kind /\ c.id = calls[u].id
  BY <1>1, CallType
<1>3. held' = [by |-> u, call |-> c, stage |-> stage, prev |-> prev, todo |-> todo]
  BY <1>2 DEF Hold
<1> QED BY <1>2, <1>3 DEF Holding

LEMMA BeginType ==
  ASSUME TypeOK, NEW u \in Tasks, NEW kind, NEW id, NEW item, Begin(u, kind, id, item),
         \A n \in Nat : [kind |-> kind, id |-> id, item |-> item, now |-> n] \in Call
  PROVE  calls' \in [Tasks -> Call \cup {NoCall}]
<1>1. (IF kind \in ReadFirst THEN Now ELSE 0) \in Nat
  BY NowType
<1> QED BY <1>1 DEF TypeOK, Begin

LEMMA AskForType ==
  ASSUME TypeOK, NEW u \in Users, AskFor(u)
  PROVE  /\ calls' \in [Tasks -> Call \cup {NoCall}]
         /\ UNCHANGED <<memory, files, wall, up, clockSet, held, history>>
         /\ rested' = rested
<1>0. u \in Tasks
  BY DEF Tasks
<1>1. ASSUME NEW kind \in {"add", "update"}, NEW id \in Ids, NEW item \in Items,
             Ask(u, kind, id, item)
      PROVE  calls' \in [Tasks -> Call \cup {NoCall}]
  BY <1>0, <1>1, BeginType DEF Ask, Call
<1>2. ASSUME NEW kind \in {"remove", "enable", "disable", "pause", "resume", "trigger"},
             NEW id \in Ids, Ask(u, kind, id, NoItem)
      PROVE  calls' \in [Tasks -> Call \cup {NoCall}]
  BY <1>0, <1>2, BeginType DEF Ask, Call
<1>3. ASSUME Ask(u, "load", NoId, NoItem)
      PROVE  calls' \in [Tasks -> Call \cup {NoCall}]
  BY <1>0, <1>3, BeginType DEF Ask, Call
<1>4. /\ UNCHANGED <<memory, files, wall, up, clockSet, held, history>>
      /\ rested' = rested
  BY DEF AskFor, Ask, Begin
<1> QED BY <1>1, <1>2, <1>3, <1>4 DEF AskFor

LEMMA StateType ==
  ASSUME NEW es \in [Ids -> Entry]
  PROVE  /\ State(es) \in [Ids -> RunState \cup {NoRun}]
         /\ Definitions(es) \in [Ids -> Sound \cup {NoItem}]
<1>1. \A i \in Ids : es[i] \in Entry
  OBVIOUS
<1>2. \A i \in Ids : es[i].item \in Sound \cup {NoItem} /\ Run(es[i]) \in RunState
  BY <1>1 DEF Entry, Run, RunState
<1> QED BY <1>2 DEF State, Definitions

LEMMA UndoneType ==
  ASSUME TypeOK, held # NoCall
  PROVE  Undone \in [Ids -> Entry]
<1>1. held.prev \in Entry /\ held.call \in Call
  BY HeldType
<1> QED BY <1>1, CallType DEF Undone, TypeOK

\* Whatever leaves the table and the holder alone.
LEMMA StillType ==
  ASSUME TypeInv, UNCHANGED <<memory, files, held, history>>,
         calls' \in [Tasks -> Call \cup {NoCall}], wall' \in Nat, up' \in Nat,
         clockSet' \in BOOLEAN, rested' \in BOOLEAN
  PROVE  TypeInv'
BY DEF TypeInv, TypeOK, TodoInv, At, Occupied, memory, files, history

LEMMA ChangeType ==
  ASSUME TypeInv, NEW u \in Users, Change(u)
  PROVE  TypeInv'
<1> USE DEF TypeInv
<1> DEFINE call == calls[u]
<1>1. u \in Tasks
  BY DEF Tasks
<1>2. call \in Call /\ call # NoCall /\ call.kind \notin {"tick", "sync", "load", "trigger"}
  BY <1>1 DEF Change, TypeOK
<1>3. call.id \in Ids /\ call.now \in Nat
  BY <1>2, CallType
<1>4. call.kind # "add" => entries[call.id].item # NoItem
  BY <1>2 DEF Change, Accepts, Occupied
<1>5. entries[call.id] \in Entry
  BY <1>3 DEF TypeOK
<1>6. Changed(entries[call.id], call) \in Entry
  BY <1>2, <1>4, <1>5, ChangedType DEF TypeOK
<1>7. entries' \in [Ids -> Entry]
  BY <1>3, <1>6 DEF TypeOK, Change
<1>8. FirstSave(call.kind) \in Stages \ {"publish"}
  BY DEF FirstSave, Stages
<1>9. held' \in Holding /\ held'.stage # "publish"
  BY <1>1, <1>2, <1>3, <1>5, <1>8, HoldType DEF Change
<1>10. mishaps' \subseteq Mishaps
  BY DEF Change, Mishap, Mishaps, TypeOK
<1>11. Never \in [of : Item \cup {NoItem}, times : Nat]
  BY DEF Never
<1>12. fired' \in [Ids -> [of : Item \cup {NoItem}, times : Nat]] /\ quiet' \subseteq Ids
  BY <1>11 DEF Change, TypeOK
<1> QED BY <1>7, <1>9, <1>10, <1>12 DEF Change, TypeOK, TodoInv, At, Holding, files, time

LEMMA TriggerType ==
  ASSUME TypeInv, NEW u \in Users, Trigger(u)
  PROVE  TypeInv'
<1> USE DEF TypeInv
<1>1. u \in Tasks
  BY DEF Tasks
<1>2. calls[u] \in Call /\ calls[u] # NoCall /\ calls[u].kind = "trigger"
  BY <1>1 DEF Trigger, TypeOK
<1>3. calls[u].id \in Ids /\ Occupied(calls[u].id)
  BY <1>2, CallType DEF Trigger, Accepts
<1>4. Free \in Entry /\ Now \in Nat /\ "publish" \in Stages
  BY AbsentItem, NowType DEF Stages
<1>5. held' \in Holding /\ held'.todo = {calls[u].id}
  BY <1>1, <1>2, <1>3, <1>4, HoldType DEF Trigger
<1>6. mishaps' \subseteq Mishaps
  BY DEF Trigger, Mishap, Mishaps, TypeOK
<1> QED BY <1>3, <1>5, <1>6
        DEF Trigger, TypeOK, TodoInv, Occupied, Holding, memory, files, time

LEMMA LookType ==
  ASSUME TypeInv, Look
  PROVE  TypeInv'
<1> USE DEF TypeInv
<1> DEFINE due == Due(calls[Task].now)
<1>1. Task \in Tasks /\ calls[Task] \in Call /\ calls[Task] # NoCall
  BY DEF Look, TypeOK, Tasks
<1>2. calls[Task].now \in Nat
  BY <1>1, CallType
<1>3. due \in SUBSET Ids /\ \A i \in due : Occupied(i)
  BY DEF Due
<1>4. CASE due = {}
  BY <1>4, StillType DEF Look, TypeOK, time
<1>5. CASE due # {}
  <2>1. Free \in Entry /\ "publish" \in Stages
    BY AbsentItem DEF Stages
  <2>2. Hold(Task, "publish", Free, due, calls[Task].now)
    BY <1>5 DEF Look
  <2> HIDE DEF due
  <2>3. held' \in Holding /\ held'.todo = due
    BY <1>1, <1>2, <1>3, <2>1, <2>2, HoldType
  <2>4. /\ calls' = calls \/ calls' = [calls EXCEPT ![Task] = NoCall]
        /\ UNCHANGED <<memory, files, time, history>>
    BY DEF Look
  <2> QED BY <1>3, <2>3, <2>4
          DEF TypeOK, TodoInv, Occupied, Holding, memory, files, time, history
<1> QED BY <1>4, <1>5

LEMMA SyncType ==
  ASSUME TypeInv, Sync
  PROVE  TypeInv'
<1> USE DEF TypeInv
<1>1. Clock \in Tasks /\ calls[Clock] # NoCall
  BY DEF Sync, Tasks
<1>2. Free \in Entry /\ Now \in Nat /\ "state" \in Stages
  BY AbsentItem, NowType DEF Stages
<1>3. held' \in Holding /\ held'.stage = "state"
  BY <1>1, <1>2, HoldType DEF Sync
<1>4. ASSUME NEW i \in Ids, Occupied(i)
      PROVE  Synced(entries[i]) \in Entry
  <2>1. entries[i] \in Entry /\ entries[i].item # NoItem
    BY <1>4 DEF TypeOK, Occupied
  <2> QED BY <1>2, <2>1, SyncedType
<1>5. entries' \in [Ids -> Entry]
  BY <1>2, <1>4 DEF Sync
<1> QED BY <1>3, <1>5 DEF Sync, TypeOK, TodoInv, At, Holding, files, time, history

LEMMA ReloadType ==
  ASSUME TypeInv, NEW u \in Users, Reload(u)
  PROVE  TypeInv'
<1> USE DEF TypeInv
<1>1. u \in Tasks /\ calls[u] # NoCall
  BY DEF Reload, Tasks
<1>2. Free \in Entry /\ Now \in Nat /\ "load" \in Stages
  BY AbsentItem, NowType DEF Stages
<1>3. held' \in Holding /\ held'.stage = "load"
  BY <1>1, <1>2, HoldType DEF Reload
<1> QED BY <1>3 DEF Reload, TypeOK, TodoInv, At, Holding, memory, files, time, history

\* An entry that is fired, not fired or late goes on as an entry with its item.
LEMMA FireEntry ==
  ASSUME TypeInv, NEW i \in Ids, Publish(i) \/ PublishFails(i) \/ Miss(i)
  PROVE  /\ entries[i] \in Entry /\ entries[i].item # NoItem
         /\ entries'[i] \in Entry /\ entries'[i].item = entries[i].item
         /\ timeValid => Timed(entries'[i])
         /\ entries' = [entries EXCEPT ![i] = entries'[i]]
<1> USE DEF TypeInv
<1>1. held # NoCall /\ i \in held.todo
  BY DEF Publish, PublishFails, Miss, Handled, At
<1>2. entries[i] \in Entry /\ entries[i].item # NoItem
  BY DEF TypeOK, TodoInv, Occupied, Publish, PublishFails, Miss, Handled
<1>3. held.call.now \in Nat /\ timeValid \in BOOLEAN
  BY <1>1, HeldType DEF TypeOK
<1>4. CASE Publish(i)
  BY <1>2, <1>3, <1>4, FiredOffType DEF Publish, TypeOK
<1>5. CASE PublishFails(i)
  <2>1. PICK f : f = [entries[i] EXCEPT !.status = "error", !.last = held.call.now]
    OBVIOUS
  <2>2. entries[i] = [item |-> entries[i].item, status |-> entries[i].status,
                      next |-> entries[i].next, last |-> entries[i].last,
                      runs |-> entries[i].runs]
    BY <1>2, EntryFields
  <2>3. f = [item |-> entries[i].item, status |-> "error", next |-> entries[i].next,
             last |-> held.call.now, runs |-> entries[i].runs]
    BY <2>1, <2>2
  <2>4. f \in Entry /\ f.item = entries[i].item /\ Timed(f)
    BY <1>2, <1>3, <2>3, EntryFields DEF Entry, Statuses, Timed
  <2>5. entries' = [entries EXCEPT ![i] = f]
    BY <1>5, <2>1 DEF PublishFails
  <2> QED BY <1>2, <2>4, <2>5 DEF TypeOK
<1>6. CASE Miss(i)
  <2>1. entries[i] \in Working
    BY <1>2, EntryFields DEF Working
  <2> QED BY <1>2, <1>3, <1>6, <2>1, RefreshedType DEF Miss, TypeOK
<1> QED BY <1>4, <1>5, <1>6

LEMMA FireType ==
  ASSUME TypeInv, NEW i \in Ids, Publish(i) \/ PublishFails(i) \/ Miss(i)
  PROVE  TypeInv'
<1> USE DEF TypeInv
<1>1. /\ entries[i] \in Entry /\ entries[i].item # NoItem
      /\ entries'[i] \in Entry /\ entries'[i].item = entries[i].item
      /\ entries' = [entries EXCEPT ![i] = entries'[i]]
  BY FireEntry
<1>2. entries' \in [Ids -> Entry] /\ \A j \in Ids : entries'[j].item = entries[j].item
  BY <1>1 DEF TypeOK
<1>3. Handled(i) /\ held # NoCall /\ held \in Holding
  BY HeldType DEF Publish, PublishFails, Miss, Handled, At
<1>4. held' \in Holding /\ held'.todo \subseteq held.todo
  BY <1>3 DEF Handled, Holding, Stages
<1>5. \A j \in held.todo : entries'[j].item # NoItem
  BY <1>2, <1>3 DEF TodoInv, Handled, Occupied, Holding
<1>6. fired' \in [Ids -> [of : Item \cup {NoItem}, times : Nat]]
  <2>1. fired[i] \in [of : Item \cup {NoItem}, times : Nat]
    BY DEF TypeOK
  <2>2. Body(entries[i]) \in Item
    BY <1>1, EntryFields DEF Body, Sound, Item
  <2>3. [of |-> Body(entries[i]), times |-> Times(i) + 1] \in [of : Item \cup {NoItem}, times : Nat]
    BY <2>1, <2>2 DEF Times
  <2> QED BY <2>3 DEF TypeOK, Publish, PublishFails, Miss
<1>7. mishaps' \subseteq Mishaps
  BY DEF TypeOK, Publish, PublishFails, Miss, Mishap, Mishaps
<1> QED BY <1>2, <1>3, <1>4, <1>5, <1>6, <1>7
        DEF TypeOK, TodoInv, Occupied, Handled, Holding, files, time

LEMMA SaveType ==
  ASSUME TypeInv, SaveDefinitions \/ SaveDefinitionsFails \/ SaveState \/ SaveStateFails
  PROVE  TypeInv'
<1> USE DEF TypeInv
<1>1. held # NoCall
  BY DEF SaveDefinitions, SaveDefinitionsFails, SaveState, SaveStateFails, At
<1>2. /\ Definitions(entries) \in [Ids -> Sound \cup {NoItem}]
      /\ State(entries) \in [Ids -> RunState \cup {NoRun}]
      /\ Undone \in [Ids -> Entry]
  BY <1>1, StateType, UndoneType DEF TypeOK
<1>3. "merge" \in Stages /\ "state" \in Stages
  BY DEF Stages
<1>4. CASE SaveDefinitions
  <2>1. held' \in Holding /\ held'.stage # "publish"
    <3>1. CASE Loading
      BY <1>1, <1>3, <1>4, <3>1, GotoType DEF SaveDefinitions
    <3>2. CASE ~Loading
      BY <1>1, <1>3, <1>4, <3>2, GotoType DEF SaveDefinitions
    <3> QED BY <3>1, <3>2
  <2> QED BY <1>2, <1>4, <2>1 DEF SaveDefinitions, TypeOK, TodoInv, At, Holding, memory, time
<1>5. CASE SaveDefinitionsFails
  <2>1. mishaps' \subseteq Mishaps /\ defs' \in [Ids -> Sound \cup {NoItem}] \cup {Missing, Garbled}
    BY <1>5 DEF SaveDefinitionsFails, Mishap, Mishaps, TypeOK
  <2>2. CASE Loading
    <3>1. held' \in Holding /\ held'.stage = "merge" /\ calls' = calls
      BY <1>1, <1>3, <1>5, <2>2, GotoType DEF SaveDefinitionsFails
    <3> QED BY <1>2, <1>5, <2>1, <3>1
            DEF SaveDefinitionsFails, TypeOK, TodoInv, At, Holding, time
  <2>3. CASE ~Loading
    <3>1. held' = NoCall /\ calls' \in [Tasks -> Call \cup {NoCall}]
      BY <1>5, <2>3, ReleaseType DEF SaveDefinitionsFails
    <3> QED BY <1>2, <1>5, <2>1, <3>1 DEF SaveDefinitionsFails, TypeOK, TodoInv, At, time
  <2> QED BY <2>2, <2>3
<1>6. CASE SaveState
  <2>1. held' = NoCall /\ calls' \in [Tasks -> Call \cup {NoCall}]
    BY <1>6, ReleaseType DEF SaveState
  <2>2. quiet' \subseteq Ids
    <3>1. held.call.kind = "pause" => held.call.id \in Ids
      BY <1>1, HeldType, CallType
    <3> QED BY <1>6, <3>1 DEF SaveState, TypeOK
  <2> QED BY <1>2, <1>6, <2>1, <2>2 DEF SaveState, TypeOK, TodoInv, At, memory, time
<1>7. CASE SaveStateFails
  <2>1. held' = NoCall /\ calls' \in [Tasks -> Call \cup {NoCall}]
    BY <1>7, ReleaseType DEF SaveStateFails
  <2>2. mishaps' \subseteq Mishaps /\ blob' \in [Ids -> RunState \cup {NoRun}] \cup {Missing}
    BY <1>7 DEF SaveStateFails, Mishaps, TypeOK
  <2> QED BY <1>2, <1>7, <2>1, <2>2 DEF SaveStateFails, TypeOK, TodoInv, At, time
<1> QED BY <1>4, <1>5, <1>6, <1>7

\* What the boot holds the mutex with.
LEMMA RestartedType ==
  ASSUME NEW stage \in Stages \ {"publish"}, Restarted(stage)
  PROVE  held' \in Holding /\ held'.stage = stage
<1>1. [kind |-> "load", id |-> NoId, item |-> NoItem, now |-> 0] \in Call
  BY DEF Call
<1> QED BY <1>1, AbsentItem DEF Restarted, Holding

\* The entries a load makes of the definitions, and then of the saved state.
LEMMA LoadedType ==
  ASSUME TypeInv, defs # Garbled
  PROVE  \A i \in Ids :
           LET item == IF defs = Missing THEN NoItem ELSE defs[i] IN
           Fresh(item) \in Entry /\ Fresh(item).item = item
<1> SUFFICES ASSUME NEW i \in Ids
             PROVE  LET item == IF defs = Missing THEN NoItem ELSE defs[i] IN
                    Fresh(item) \in Entry /\ Fresh(item).item = item
  OBVIOUS
<1> DEFINE item == IF defs = Missing THEN NoItem ELSE defs[i]
<1>1. item \in Sound \cup {NoItem}
  BY DEF TypeInv, TypeOK
<1>2. Fresh(NoItem) = Free
  BY DEF Fresh
<1> QED BY <1>1, <1>2, FreshType, AbsentItem

LEMMA MergeStepType ==
  ASSUME TypeInv, LoadState \/ LoadStateFails
  PROVE  \A i \in Ids :
           /\ entries'[i] \in Entry /\ entries'[i].item = entries[i].item
           /\ timeValid => Good(entries'[i])
<1> SUFFICES ASSUME NEW i \in Ids
             PROVE  /\ entries'[i] \in Entry /\ entries'[i].item = entries[i].item
                    /\ timeValid => Good(entries'[i])
  OBVIOUS
<1>1. entries[i] \in Entry /\ timeValid \in BOOLEAN /\ Now \in Nat
  BY NowType DEF TypeInv, TypeOK
<1>2. blob # Missing => blob[i] \in RunState \cup {NoRun}
  BY DEF TypeInv, TypeOK
<1>3. CASE LoadState
  <2> DEFINE e == IF blob = Missing THEN entries[i] ELSE Merged(entries[i], blob[i])
  <2>1. e \in Entry /\ e.item = entries[i].item
    BY <1>1, <1>2, MergedType
  <2>2. entries'[i] = Reanchored(e, Now)
    BY <1>3 DEF LoadState
  <2> HIDE DEF e
  <2> QED BY <1>1, <2>1, <2>2, ReanchoredType
<1>4. CASE LoadStateFails
  BY <1>1, <1>4, ReanchoredType DEF LoadStateFails
<1> QED BY <1>3, <1>4

LEMMA LoadType ==
  ASSUME TypeInv, LoadDefinitions \/ LoadDefinitionsFails \/ LoadState \/ LoadStateFails
  PROVE  TypeInv'
<1> USE DEF TypeInv
<1>1. held # NoCall /\ {"load", "defs", "state"} \subseteq Stages
  BY DEF LoadDefinitions, LoadDefinitionsFails, LoadState, LoadStateFails, At, Stages
<1>2. CASE LoadDefinitions
  <2>1. held' \in Holding /\ held'.stage = "defs"
    BY <1>1, <1>2, GotoType DEF LoadDefinitions
  <2>2. entries' \in [Ids -> Entry]
    BY <1>2, LoadedType DEF LoadDefinitions
  <2> QED BY <1>2, <2>1, <2>2
          DEF LoadDefinitions, TypeOK, TodoInv, At, Holding, files, time, history
<1>3. CASE LoadDefinitionsFails /\ Booting
  <2>1. held' \in Holding /\ held'.stage = "load" /\ calls' = calls
    BY <1>1, <1>3, RestartedType DEF LoadDefinitionsFails
  <2> QED BY <1>3, <2>1
          DEF LoadDefinitionsFails, TypeOK, TodoInv, At, Holding, memory, files, time, history
<1>4. CASE LoadDefinitionsFails /\ ~Booting
  <2>1. held' = NoCall /\ calls' \in [Tasks -> Call \cup {NoCall}]
    BY <1>4, ReleaseType DEF LoadDefinitionsFails
  <2> QED BY <1>4, <2>1
          DEF LoadDefinitionsFails, TypeOK, TodoInv, At, memory, files, time, history
<1>5. CASE LoadState \/ LoadStateFails
  <2>1. held' \in Holding /\ held'.stage = "state"
    BY <1>1, <1>5, GotoType DEF LoadState, LoadStateFails
  <2>2. entries' \in [Ids -> Entry]
    BY <1>5, MergeStepType DEF LoadState, LoadStateFails
  <2>3. mishaps' \subseteq Mishaps
    BY <1>5 DEF LoadState, LoadStateFails, Mishap, Mishaps, TypeOK, history
  <2> QED BY <1>5, <2>1, <2>2, <2>3
          DEF LoadState, LoadStateFails, TypeOK, TodoInv, At, Holding, files, time, history
<1> QED BY <1>2, <1>3, <1>4, <1>5

LEMMA RestartType ==
  ASSUME TypeInv, NEW soft \in BOOLEAN, Restart(soft)
  PROVE  TypeInv'
<1> USE DEF TypeInv
<1>1. held' \in Holding /\ held'.stage = "load"
  BY RestartedType DEF Restart, Stages
<1>2. entries' \in [Ids -> Entry]
  BY AbsentItem DEF Restart, Empty
<1>3. defs' \in [Ids -> Sound \cup {NoItem}] \cup {Missing, Garbled}
  BY DEF Restart, TypeOK
<1>4. mishaps' \subseteq Mishaps
  BY DEF Restart, Mishaps, TypeOK
<1>5. clockSet' \in BOOLEAN /\ up' \in Nat
  BY DEF Restart, TypeOK
<1> QED BY <1>1, <1>2, <1>3, <1>4, <1>5 DEF Restart, TypeOK, TodoInv, At, Holding

\* Through every interleaving, failure and restart no entry has an
\* invalid schedule or is left as running, and only an entry with a schedule is
\* fired.
THEOREM TypeInductive == Spec => []TypeInv
<1>1. Init => TypeInv
  <2> SUFFICES ASSUME Init PROVE TypeInv
    OBVIOUS
  <2>1. entries \in [Ids -> Entry]
    BY AbsentItem DEF Init, Empty
  <2>2. wall \in Nat /\ up \in Nat
    BY TimeAssumption DEF Init
  <2>3. fired \in [Ids -> [of : Item \cup {NoItem}, times : Nat]]
    BY DEF Init, Never
  <2> QED BY <2>1, <2>2, <2>3 DEF Init, TypeInv, TypeOK, TodoInv, At
<1>2. TypeInv /\ [Next]_vars => TypeInv'
  <2> SUFFICES ASSUME TypeInv, [Next]_vars PROVE TypeInv'
    OBVIOUS
  <2>1. TypeOK
    BY DEF TypeInv
  <2>2. ASSUME NEW u \in Users, AskFor(u) PROVE TypeInv'
    BY <2>1, <2>2, AskForType, StillType DEF TypeOK
  <2>3. ASSUME NEW u \in Users, Refuse(u) PROVE TypeInv'
    <3>1. calls' \in [Tasks -> Call \cup {NoCall}]
      BY <2>1, <2>3 DEF TypeOK, Refuse
    <3> QED BY <2>1, <2>3, <3>1, StillType DEF TypeOK, Refuse, time
  <2>4. CASE NotifySync
    <3>1. Clock \in Tasks /\ \A n \in Nat :
            [kind |-> "sync", id |-> NoId, item |-> NoItem, now |-> n] \in Call
      BY DEF Tasks, Call
    <3> QED BY <2>1, <2>4, <3>1, BeginType, StillType DEF TypeOK, NotifySync, Begin
  <2>5. CASE Wake
    <3>1. Task \in Tasks /\ \A n \in Nat :
            [kind |-> "tick", id |-> NoId, item |-> NoItem, now |-> n] \in Call
      BY DEF Tasks, Call
    <3> QED BY <2>1, <2>5, <3>1, BeginType, StillType DEF TypeOK, Wake, Begin
  <2>6. CASE TimePasses \/ SetClock
    <3>1. wall \in Nat /\ up \in Nat /\ clockSet \in BOOLEAN /\ rested \in BOOLEAN
      BY <2>1 DEF TypeOK
    <3>2. wall' \in Nat /\ up' \in Nat
      BY <2>6, <3>1 DEF TimePasses, SetClock
    <3>3. clockSet' \in BOOLEAN /\ rested' \in BOOLEAN
      BY <2>6, <3>1 DEF TimePasses, SetClock
    <3>4. UNCHANGED <<memory, files, held, history, calls>>
      BY <2>6 DEF TimePasses, SetClock
    <3> QED BY <2>1, <3>2, <3>3, <3>4, StillType DEF TypeOK
  <2>7. CASE UNCHANGED vars
    BY <2>1, <2>7, StillType DEF TypeOK, vars, time
  <2>8. ASSUME NEW u \in Users, Change(u) \/ Trigger(u) \/ Reload(u) PROVE TypeInv'
    BY <2>8, ChangeType, TriggerType, ReloadType
  <2>9. ASSUME NEW i \in Ids, Publish(i) \/ PublishFails(i) \/ Miss(i) PROVE TypeInv'
    BY <2>9, FireType
  <2>10. ASSUME NEW soft \in BOOLEAN, Restart(soft) PROVE TypeInv'
    BY <2>10, RestartType
  <2>11. CASE Sync \/ Look
    BY <2>11, SyncType, LookType
  <2>12. CASE \/ SaveDefinitions \/ SaveDefinitionsFails \/ SaveState \/ SaveStateFails
              \/ LoadDefinitions \/ LoadDefinitionsFails \/ LoadState \/ LoadStateFails
    BY <2>12, SaveType, LoadType
  <2> QED BY <2>2, <2>3, <2>4, <2>5, <2>6, <2>7, <2>8, <2>9, <2>10, <2>11, <2>12, NextCases
<1> QED BY <1>1, <1>2, PTL DEF Spec

\* TypeOK: an entry always has a valid schedule, a status and a fire time, and
\* is never left as running.
THEOREM TypeCorrect == Spec => []TypeOK
<1>1. TypeInv => TypeOK
  BY DEF TypeInv
<1> QED BY <1>1, TypeInductive, PTL

-----------------------------------------------------------------------------
(* Where a call is.                                                        *)

Changes == {"add", "update", "remove", "enable", "disable", "pause", "resume"}

\* Only a load is in the steps of loading, only a load or a change saves the
\* definitions, and a pause has only its state to save.
StageInv ==
  held # NoCall =>
    /\ held.stage \in {"load", "merge"} => Loading
    /\ held.stage = "publish" => held.call.kind \notin Changes \cup {"load"}
    /\ held.stage = "defs" => held.call.kind \in Changes \cup {"load"}
    /\ held.call.kind = "pause" => /\ held.stage = "state" /\ Occupied(held.call.id)
                                   /\ entries[held.call.id].status = "paused"

\* Steps that leave the table and the holder alone.
LEMMA StillCases ==
  ASSUME \/ \E u \in Users : AskFor(u) \/ Refuse(u)
         \/ NotifySync \/ Wake \/ TimePasses \/ SetClock \/ UNCHANGED vars
  PROVE  UNCHANGED <<memory, files, held, history>>
BY DEF AskFor, Ask, Refuse, NotifySync, Wake, Begin, TimePasses, SetClock, vars

\* What a call of a user is about, once it has the mutex.
LEMMA ChangeCall ==
  ASSUME TypeOK, NEW u \in Users, Change(u)
  PROVE  /\ u \in Tasks /\ calls[u] \in Call /\ calls[u].kind \in Changes
         /\ calls[u].id \in Ids /\ calls[u].now \in Nat
         /\ entries[calls[u].id] \in Entry
         /\ calls[u].kind # "add" => entries[calls[u].id].item # NoItem
         /\ held' \in Holding /\ held'.stage = FirstSave(calls[u].kind)
         /\ held'.by = u /\ held'.prev = entries[calls[u].id]
         /\ held'.call.kind = calls[u].kind /\ held'.call.id = calls[u].id
         /\ held = NoCall
<1>1. u \in Tasks
  BY DEF Tasks
<1>2. calls[u] \in Call /\ calls[u] # NoCall /\ calls[u].kind \in Changes
  BY <1>1 DEF Change, TypeOK, Call, Changes
<1>3. calls[u].id \in Ids /\ calls[u].now \in Nat
  BY <1>2, CallType DEF Changes
<1>4. entries[calls[u].id] \in Entry
  BY <1>3 DEF TypeOK
<1>5. calls[u].kind # "add" => entries[calls[u].id].item # NoItem
  BY <1>2 DEF Change, Accepts, Occupied, Changes
<1>6. FirstSave(calls[u].kind) \in Stages
  BY DEF FirstSave, Stages
<1>7. Hold(u, FirstSave(calls[u].kind), entries[calls[u].id], {}, calls[u].now) /\ held = NoCall
  BY DEF Change, MutexFree
<1> QED BY <1>1, <1>2, <1>3, <1>4, <1>5, <1>6, <1>7, HoldType

LEMMA TriggerCall ==
  ASSUME TypeOK, NEW u \in Users, Trigger(u)
  PROVE  /\ held' \in Holding /\ held'.stage = "publish" /\ held'.call.kind = "trigger"
         /\ held'.todo = {calls[u].id} /\ held'.prev = Free
<1>1. u \in Tasks
  BY DEF Tasks
<1>2. calls[u] \in Call /\ calls[u] # NoCall /\ calls[u].kind = "trigger"
  BY <1>1 DEF Trigger, TypeOK
<1>3. calls[u].id \in Ids
  BY <1>2, CallType
<1>4. Free \in Entry /\ Now \in Nat /\ "publish" \in Stages
  BY AbsentItem, NowType DEF Stages
<1> QED BY <1>1, <1>2, <1>3, <1>4, HoldType DEF Trigger

LEMMA LookCall ==
  ASSUME TypeOK, Look
  PROVE  \/ held' = held /\ held = NoCall
         \/ /\ held' \in Holding /\ held'.stage = "publish" /\ held'.prev = Free
            /\ held'.call.kind = calls[Task].kind
            /\ held'.todo = Due(calls[Task].now)
<1>1. Task \in Tasks /\ calls[Task] \in Call /\ calls[Task] # NoCall /\ held = NoCall
  BY DEF Look, TypeOK, Tasks, MutexFree
<1>2. calls[Task].now \in Nat
  BY <1>1, CallType
<1>3. Due(calls[Task].now) \in SUBSET Ids
  BY DEF Due
<1>4. Free \in Entry /\ "publish" \in Stages
  BY AbsentItem DEF Stages
<1> QED BY <1>1, <1>2, <1>3, <1>4, HoldType DEF Look

LEMMA SyncCall ==
  ASSUME TypeOK, Sync
  PROVE  held' \in Holding /\ held'.stage = "state" /\ held'.prev = Free /\ held = NoCall
         /\ held'.call.kind = calls[Clock].kind
<1>1. Clock \in Tasks /\ calls[Clock] # NoCall /\ held = NoCall
  BY DEF Sync, Tasks, MutexFree
<1>2. Free \in Entry /\ Now \in Nat /\ "state" \in Stages
  BY AbsentItem, NowType DEF Stages
<1> QED BY <1>1, <1>2, HoldType DEF Sync

LEMMA ReloadCall ==
  ASSUME TypeOK, NEW u \in Users, Reload(u)
  PROVE  held' \in Holding /\ held'.stage = "load" /\ held'.call.kind = "load"
         /\ held'.prev = Free /\ held'.by = u /\ held = NoCall
<1>1. u \in Tasks /\ calls[u] # NoCall /\ held = NoCall
  BY DEF Reload, Tasks, MutexFree
<1>2. Free \in Entry /\ Now \in Nat /\ "load" \in Stages
  BY AbsentItem, NowType DEF Stages
<1> QED BY <1>1, <1>2, HoldType DEF Reload

\* The scheduler task only ticks, the time service only tells of the time.
KindsInv ==
  /\ calls[Task] # NoCall => calls[Task].kind = "tick"
  /\ calls[Clock] # NoCall => calls[Clock].kind = "sync"

LEMMA KindsStep ==
  ASSUME TypeOK, KindsInv, [Next]_vars
  PROVE  KindsInv'
<1>0. Task \in Tasks /\ Clock \in Tasks /\ Task # Clock /\ Task \notin Users /\ Clock \notin Users
  BY TaskAssumption DEF Tasks
<1>1. calls \in [Tasks -> Call \cup {NoCall}]
  BY DEF TypeOK
<1>2. ASSUME \/ calls' = calls \/ \E u \in Tasks : calls' = [calls EXCEPT ![u] = NoCall]
             \/ calls' = [u \in Tasks |-> NoCall]
             \/ \E u \in Users : \E c : calls' = [calls EXCEPT ![u] = c]
      PROVE  KindsInv'
  BY <1>0, <1>1, <1>2 DEF KindsInv
<1>3. ASSUME NEW u \in Users, AskFor(u) \/ Refuse(u) \/ Change(u) \/ Trigger(u) \/ Reload(u)
      PROVE  KindsInv'
  <2>1. u \in Tasks
    BY DEF Tasks
  <2> QED BY <1>2, <1>3, <2>1 DEF AskFor, Ask, Begin, Refuse, Change, Trigger, Reload
<1>4. CASE NotifySync
  <2>1. calls' = [calls EXCEPT ![Clock] =
                    [kind |-> "sync", id |-> NoId, item |-> NoItem,
                     now |-> IF "sync" \in ReadFirst THEN Now ELSE 0]]
    BY <1>4 DEF NotifySync, Begin
  <2>2. calls'[Clock].kind = "sync" /\ calls'[Task] = calls[Task]
    BY <1>0, <1>1, <2>1
  <2> QED BY <2>2 DEF KindsInv
<1>5. CASE Wake
  <2>1. calls' = [calls EXCEPT ![Task] =
                    [kind |-> "tick", id |-> NoId, item |-> NoItem,
                     now |-> IF "tick" \in ReadFirst THEN Now ELSE 0]]
    BY <1>5 DEF Wake, Begin
  <2>2. calls'[Task].kind = "tick" /\ calls'[Clock] = calls[Clock]
    BY <1>0, <1>1, <2>1
  <2> QED BY <2>2 DEF KindsInv
<1>6. CASE Look \/ Sync \/ TimePasses \/ SetClock \/ UNCHANGED vars
  BY <1>0, <1>2, <1>6 DEF Look, Sync, TimePasses, SetClock, vars
<1>7. ASSUME NEW i \in Ids, Publish(i) \/ PublishFails(i) \/ Miss(i)
      PROVE  KindsInv'
  BY <1>2, <1>7 DEF Publish, PublishFails, Miss, Handled
<1>8. ASSUME Release PROVE KindsInv'
  <2>1. \A u \in Tasks : calls'[u] = NoCall \/ calls'[u] = calls[u]
    BY <1>8 DEF Release
  <2> QED BY <1>0, <2>1 DEF KindsInv
<1>9. CASE \/ SaveDefinitions \/ SaveDefinitionsFails \/ SaveState \/ SaveStateFails
           \/ LoadDefinitions \/ LoadDefinitionsFails \/ LoadState \/ LoadStateFails
  BY <1>2, <1>8, <1>9 DEF SaveDefinitions, SaveDefinitionsFails, SaveState, SaveStateFails,
       LoadDefinitions, LoadDefinitionsFails, LoadState, LoadStateFails
<1>10. ASSUME NEW soft \in BOOLEAN, Restart(soft) PROVE KindsInv'
  BY <1>2, <1>10 DEF Restart
<1> QED BY <1>3, <1>4, <1>5, <1>6, <1>7, <1>9, <1>10, NextCases

LEMMA StageStep ==
  ASSUME TypeInv, KindsInv, StageInv, [Next]_vars
  PROVE  StageInv'
<1> USE DEF TypeInv
<1>1. CASE UNCHANGED <<memory, files, held, history>>
  BY <1>1 DEF StageInv, Loading, Occupied, memory
<1>2. ASSUME NEW u \in Users, Change(u) PROVE StageInv'
  <2>1. /\ held'.stage = FirstSave(held'.call.kind) /\ held'.call.kind = calls[u].kind
        /\ held'.call.id = calls[u].id /\ calls[u].id \in Ids
        /\ calls[u].kind \in Changes
    BY <1>2, ChangeCall
  <2>2. held'.stage \in {"state", "defs"} /\ (held'.call.kind = "pause" => held'.stage = "state")
    BY <2>1 DEF FirstSave
  <2>3. held'.call.kind = "pause" =>
          entries'[held'.call.id].item # NoItem /\ entries'[held'.call.id].status = "paused"
    <3> SUFFICES ASSUME calls[u].kind = "pause"
                 PROVE  entries'[calls[u].id].item # NoItem /\ entries'[calls[u].id].status = "paused"
      BY <2>1
    <3>1. /\ calls[u] \in Call /\ entries[calls[u].id] \in Entry
          /\ entries[calls[u].id].item # NoItem /\ timeValid \in BOOLEAN
      BY <1>2, ChangeCall DEF TypeOK
    <3>2. /\ Changed(entries[calls[u].id], calls[u]).item = entries[calls[u].id].item
          /\ Changed(entries[calls[u].id], calls[u]).status = "paused"
      BY <3>1, ChangedType
    <3> QED BY <1>2, <2>1, <3>1, <3>2 DEF Change, TypeOK
  <2> QED BY <2>1, <2>2, <2>3 DEF StageInv, Loading, Occupied
<1>3. ASSUME NEW u \in Users, Trigger(u) PROVE StageInv'
  BY <1>3, TriggerCall DEF StageInv, Loading, Changes
<1>4. ASSUME NEW u \in Users, Reload(u) PROVE StageInv'
  BY <1>4, ReloadCall DEF StageInv, Loading, Changes
<1>5. CASE Look
  BY <1>1, <1>5, LookCall DEF StageInv, Loading, Changes, Look, KindsInv
<1>6. CASE Sync
  BY <1>6, SyncCall DEF StageInv, Loading, Changes, Sync, KindsInv
<1>7. ASSUME NEW i \in Ids, Publish(i) \/ PublishFails(i) \/ Miss(i) PROVE StageInv'
  <2>1. Handled(i) /\ held # NoCall /\ held \in Holding /\ held.stage = "publish"
    BY <1>7, HeldType DEF Publish, PublishFails, Miss, Handled, At
  <2>2. held'.call = held.call /\ held'.stage \in {"publish", "state"}
    BY <2>1 DEF Handled, Holding
  <2> QED BY <2>1, <2>2 DEF StageInv, Loading, Changes
<1>8. ASSUME held # NoCall, NEW stage \in {"defs", "merge", "state"}, Goto(stage), Loading
      PROVE  StageInv'
  <2>1. held'.stage = stage /\ held'.call = held.call
    BY <1>8, GotoType DEF Stages
  <2> QED BY <1>8, <2>1 DEF StageInv, Loading
<1>9. ASSUME held # NoCall, Goto("state"), held.stage = "defs" PROVE StageInv'
  <2>1. held'.stage = "state" /\ held'.call = held.call
    BY <1>9, GotoType DEF Stages
  <2> QED BY <1>9, <2>1 DEF StageInv, Loading
<1>10. ASSUME Release PROVE StageInv'
  BY <1>10 DEF Release, StageInv
<1>11. CASE SaveDefinitions
  BY <1>8, <1>9, <1>11 DEF SaveDefinitions, At
<1>12. CASE SaveDefinitionsFails
  BY <1>8, <1>10, <1>12 DEF SaveDefinitionsFails, At
<1>13. CASE SaveState \/ SaveStateFails
  BY <1>10, <1>13 DEF SaveState, SaveStateFails
<1>14. CASE LoadDefinitions \/ LoadState \/ LoadStateFails
  BY <1>8, <1>14 DEF LoadDefinitions, LoadState, LoadStateFails, At, StageInv
<1>15. ASSUME NEW stage \in {"load"}, Restarted(stage) PROVE StageInv'
  BY <1>15 DEF StageInv, Loading, Restarted, Changes
<1>16. CASE LoadDefinitionsFails
  BY <1>10, <1>15, <1>16 DEF LoadDefinitionsFails
<1>17. ASSUME NEW soft \in BOOLEAN, Restart(soft) PROVE StageInv'
  BY <1>15, <1>17 DEF Restart
<1> QED BY <1>1, <1>2, <1>3, <1>4, <1>5, <1>6, <1>7, <1>11, <1>12, <1>13, <1>14, <1>16,
           <1>17, NextCases, StillCases

\* No call is ever in a step that is not its own.
THEOREM StagesInductive == Spec => [](KindsInv /\ StageInv)
<1>1. Init => KindsInv /\ StageInv
  BY DEF Init, KindsInv, StageInv, Tasks
<1>2. TypeInv /\ KindsInv /\ StageInv /\ [Next]_vars => (KindsInv /\ StageInv)'
  BY KindsStep, StageStep DEF TypeInv
<1> QED BY <1>1, <1>2, TypeInductive, PTL DEF Spec

-----------------------------------------------------------------------------
(* Once the clock is set every schedule that waits has a time.             *)

\* A load has read the definitions and not yet the saved state.
Unmerged == held # NoCall /\ Loading /\ held.stage \in {"defs", "merge"}

TimedInv ==
  timeValid => /\ ~Unmerged => \A i \in Ids : Good(entries[i])
               /\ held # NoCall => Good(held.prev)

\* What a load does to the table, step by step.
LEMMA GoodFree == Good(Free)
BY AbsentItem DEF Good

LEMMA TimedUndone ==
  ASSUME TypeInv, TimedInv, timeValid, held # NoCall, \A i \in Ids : Good(entries[i])
  PROVE  \A i \in Ids : Good(Undone[i])
<1>1. \A i \in Ids : Undone[i] \in {entries[i], held.prev}
  BY DEF Undone, TypeInv, TypeOK
<1> QED BY <1>1 DEF TimedInv

LEMMA TimedStep ==
  ASSUME TypeInv, StageInv, TimedInv, [Next]_vars
  PROVE  TimedInv'
<1> USE DEF TypeInv
<1>0. timeValid \in BOOLEAN
  BY DEF TypeOK
<1>1. CASE UNCHANGED <<memory, files, held, history>>
  BY <1>1 DEF TimedInv, Unmerged, Loading, memory
<1>2. ASSUME NEW u \in Users, Change(u) PROVE TimedInv'
  <2>1. /\ calls[u] \in Call /\ entries[calls[u].id] \in Entry /\ calls[u].id \in Ids
        /\ calls[u].kind # "add" => entries[calls[u].id].item # NoItem
        /\ calls[u].kind \notin {"tick", "sync", "load", "trigger"}
        /\ held'.prev = entries[calls[u].id] /\ held = NoCall
    BY <1>2, ChangeCall DEF Changes
  <2>2. timeValid /\ Good(entries[calls[u].id]) => Good(Changed(entries[calls[u].id], calls[u]))
    BY <1>0, <2>1, ChangedType
  <2>3. \A i \in Ids : entries'[i] = IF i = calls[u].id THEN Changed(entries[i], calls[u])
                                     ELSE entries[i]
    BY <1>2, <2>1 DEF Change, TypeOK
  <2>4. timeValid => \A i \in Ids : Good(entries[i])
    BY <2>1 DEF TimedInv, Unmerged
  <2>5. timeValid' = timeValid
    BY <1>2 DEF Change
  <2> QED BY <2>1, <2>2, <2>3, <2>4, <2>5 DEF TimedInv
<1>3. ASSUME NEW u \in Users, Trigger(u) \/ Reload(u) PROVE TimedInv'
  <2>1. held'.prev = Free /\ held = NoCall /\ UNCHANGED memory
    BY <1>3, TriggerCall, ReloadCall DEF Trigger, Reload, MutexFree
  <2> QED BY <2>1, GoodFree DEF TimedInv, Unmerged, memory
<1>4. CASE Look
  <2>1. (held'.prev = Free \/ held' = held) /\ held = NoCall /\ UNCHANGED memory
    BY <1>4, LookCall DEF Look, MutexFree
  <2> QED BY <2>1, GoodFree DEF TimedInv, Unmerged, memory
<1>5. CASE Sync
  <2>1. held'.prev = Free
    BY <1>5, SyncCall
  <2>2. ASSUME NEW i \in Ids PROVE Good(entries'[i])
    <3>1. CASE entries[i].item # NoItem
      <4>1. entries[i] \in Entry /\ Now \in Nat
        BY NowType DEF TypeOK
      <4>2. entries'[i] = Synced(entries[i])
        BY <1>5, <3>1 DEF Sync, Occupied
      <4> QED BY <3>1, <4>1, <4>2, SyncedType DEF Good
    <3>2. CASE entries[i].item = NoItem
      BY <1>5, <3>2, GoodFree DEF Sync, Occupied
    <3> QED BY <3>1, <3>2
  <2> QED BY <2>1, <2>2, GoodFree DEF TimedInv
<1>6. ASSUME NEW i \in Ids, Publish(i) \/ PublishFails(i) \/ Miss(i) PROVE TimedInv'
  <2>1. /\ timeValid => Good(entries'[i])
        /\ entries' = [entries EXCEPT ![i] = entries'[i]]
    BY <1>6, FireEntry DEF Good
  <2>2. Handled(i) /\ held # NoCall /\ held \in Holding /\ held.stage = "publish"
    BY <1>6, HeldType DEF Publish, PublishFails, Miss, Handled, At
  <2>3. held'.prev = held.prev /\ timeValid' = timeValid
    BY <2>2 DEF Handled, Holding
  <2>4. timeValid => \A j \in Ids : Good(entries[j])
    BY <2>2 DEF TimedInv, Unmerged
  <2>5. \A j \in Ids : j # i => entries'[j] = entries[j]
    BY <2>1 DEF TypeOK
  <2> QED BY <2>1, <2>2, <2>3, <2>4, <2>5 DEF TimedInv
<1>7. CASE SaveDefinitions
  <2>1. held # NoCall /\ held.stage = "defs" /\ UNCHANGED memory
    BY <1>7 DEF SaveDefinitions, At
  <2>2. /\ held'.prev = held.prev /\ held'.call = held.call
        /\ held' # NoCall /\ held'.stage = IF Loading THEN "merge" ELSE "state"
    <3>1. CASE Loading
      BY <1>7, <2>1, <3>1, GotoType DEF SaveDefinitions, Stages
    <3>2. CASE ~Loading
      BY <1>7, <2>1, <3>2, GotoType DEF SaveDefinitions, Stages
    <3> QED BY <3>1, <3>2
  <2> QED BY <2>1, <2>2 DEF TimedInv, Unmerged, Loading, memory
<1>8. CASE SaveDefinitionsFails
  <2>1. held # NoCall /\ held.stage = "defs" /\ entries' = Undone /\ timeValid' = timeValid
    BY <1>8 DEF SaveDefinitionsFails, At
  <2>2. CASE Loading
    <3>1. /\ held'.prev = held.prev /\ held'.call = held.call
          /\ held' # NoCall /\ held'.stage = "merge"
      BY <1>8, <2>1, <2>2, GotoType DEF SaveDefinitionsFails, Stages
    <3> QED BY <2>1, <2>2, <3>1 DEF TimedInv, Unmerged, Loading
  <2>3. CASE ~Loading
    <3>1. held' = NoCall
      BY <1>8, <2>3 DEF SaveDefinitionsFails, Release
    <3> QED BY <2>1, <2>3, <3>1, TimedUndone DEF TimedInv, Unmerged
  <2> QED BY <2>2, <2>3
<1>9. CASE SaveState
  BY <1>9 DEF SaveState, Release, At, TimedInv, Unmerged, memory
<1>10. CASE SaveStateFails
  <2>1. /\ held # NoCall /\ held.stage = "state" /\ held' = NoCall
        /\ entries' = Undone /\ timeValid' = timeValid
    BY <1>10 DEF SaveStateFails, At, Release
  <2> QED BY <2>1, TimedUndone DEF TimedInv, Unmerged
<1>11. CASE LoadDefinitions
  <2>1. held # NoCall /\ held.stage = "load" /\ Loading /\ timeValid' = timeValid
    BY <1>11 DEF LoadDefinitions, At, StageInv
  <2>2. held'.prev = held.prev /\ held'.call = held.call /\ held'.stage = "defs" /\ held' \in Holding
    BY <1>11, <2>1, GotoType DEF LoadDefinitions, Stages
  <2>3. Unmerged'
    BY <2>1, <2>2, CallAssumption DEF Unmerged, Loading
  <2> QED BY <1>11, <2>1, <2>2, <2>3 DEF TimedInv
<1>12. CASE LoadDefinitionsFails
  <2>1. /\ held # NoCall /\ held.stage = "load" /\ UNCHANGED memory
        /\ held' = NoCall \/ held'.prev = Free
    BY <1>12 DEF LoadDefinitionsFails, At, Release, Restarted
  <2> QED BY <2>1, GoodFree DEF TimedInv, Unmerged, memory
<1>13. CASE LoadState \/ LoadStateFails
  <2>1. /\ held # NoCall /\ timeValid' = timeValid
        /\ Goto("state")
    BY <1>13 DEF LoadState, LoadStateFails, At
  <2>2. held'.prev = held.prev
    BY <2>1, GotoType DEF Stages
  <2> QED BY <1>13, <2>1, <2>2, MergeStepType DEF TimedInv
<1>14. ASSUME NEW soft \in BOOLEAN, Restart(soft) PROVE TimedInv'
  BY <1>14 DEF Restart, TimedInv
<1> QED BY <1>1, <1>2, <1>3, <1>4, <1>5, <1>6, <1>7, <1>8, <1>9, <1>10, <1>11, <1>12, <1>13,
           <1>14, NextCases, StillCases

\* ScheduledHasTime: no schedule that is on waits for the clock once the
\* scheduler knows that it is set, whatever read the clock before.
THEOREM TimeCorrect == Spec => []ScheduledHasTime
<1>1. Init => TimedInv
  BY DEF Init, TimedInv
<1>2. TypeInv /\ KindsInv /\ StageInv /\ TimedInv /\ [Next]_vars => TimedInv'
  BY TimedStep
<1>3. TimedInv => ScheduledHasTime
  BY DEF TimedInv, ScheduledHasTime, Unmerged, Loading, Good, Timed, Occupied
<1> QED BY <1>1, <1>2, <1>3, TypeInductive, StagesInductive, PTL DEF Spec

-----------------------------------------------------------------------------
(* The definitions file and the table.                                     *)

\* Between the calls, and in a call before its change and after its save.
KeptInv ==
  "refused" \notin mishaps /\ ~At("defs") /\ ~(At("load") /\ Booting) =>
    Definitions(entries) = (IF defs = Missing THEN [i \in Ids |-> NoItem] ELSE defs)

LEMMA SameItems ==
  ASSUME NEW es, NEW fs, \A i \in Ids : fs[i].item = es[i].item
  PROVE  Definitions(fs) = Definitions(es)
BY DEF Definitions

\* A step that leaves the files and every item alone, past the definitions.
LEMMA KeptStill ==
  ASSUME KeptInv, \A i \in Ids : entries'[i].item = entries[i].item, defs' = defs,
         "refused" \in mishaps => "refused" \in mishaps',
         ~At("defs"), ~(At("load") /\ Booting)
  PROVE  KeptInv'
<1>1. Definitions(entries') = Definitions(entries)
  BY SameItems
<1>2. Definitions(entries)' = Definitions(entries')
  BY DEF Definitions
<1> QED BY <1>1, <1>2 DEF KeptInv

LEMMA KeptStep ==
  ASSUME TypeInv, StageInv, KeptInv, [Next]_vars
  PROVE  KeptInv'
<1> USE DEF TypeInv
<1>1. CASE UNCHANGED <<memory, files, held, history>>
  <2>1. Definitions(entries)' = Definitions(entries)
    BY <1>1 DEF Definitions, memory
  <2> QED BY <1>1, <2>1 DEF KeptInv, At, Booting, files, history
<1>2. ASSUME NEW u \in Users, Change(u) PROVE KeptInv'
  <2>1. /\ calls[u] \in Call /\ entries[calls[u].id] \in Entry /\ calls[u].id \in Ids
        /\ calls[u].kind # "add" => entries[calls[u].id].item # NoItem
        /\ calls[u].kind \notin {"tick", "sync", "load", "trigger"}
        /\ held' \in Holding /\ held'.stage = FirstSave(calls[u].kind) /\ held = NoCall
    BY <1>2, ChangeCall DEF Changes
  <2>2. CASE calls[u].kind \in {"pause", "resume"}
    <3>1. Changed(entries[calls[u].id], calls[u]).item = entries[calls[u].id].item
      BY <2>1, <2>2, ChangedType DEF TypeOK
    <3>2. \A i \in Ids : entries'[i].item = entries[i].item
      BY <1>2, <2>1, <3>1 DEF Change, TypeOK
    <3> QED BY <1>2, <2>1, <3>2, KeptStill DEF Change, Mishap, At, files
  <2>3. CASE calls[u].kind \notin {"pause", "resume"}
    BY <2>1, <2>3, CallAssumption DEF KeptInv, At, FirstSave
  <2> QED BY <2>2, <2>3
<1>3. ASSUME (\E u \in Users : Trigger(u) \/ Reload(u)) \/ Look PROVE KeptInv'
  <2>1. held = NoCall /\ UNCHANGED <<memory, files>> /\ mishaps \subseteq mishaps'
    BY <1>3 DEF Trigger, Reload, Look, MutexFree, Mishap, history
  <2> QED BY <2>1, KeptStill DEF At, memory, files
<1>4. CASE Sync
  <2>1. held = NoCall /\ UNCHANGED <<files, mishaps>>
    BY <1>4 DEF Sync, MutexFree, history
  <2>2. ASSUME NEW i \in Ids PROVE entries'[i].item = entries[i].item
    <3>1. CASE entries[i].item # NoItem
      <4>1. entries[i] \in Entry /\ Now \in Nat
        BY NowType DEF TypeOK
      <4>2. entries'[i] = Synced(entries[i])
        BY <1>4, <3>1 DEF Sync, Occupied
      <4> QED BY <3>1, <4>1, <4>2, SyncedType
    <3>2. CASE entries[i].item = NoItem
      BY <1>4, <3>2, AbsentItem DEF Sync, Occupied
    <3> QED BY <3>1, <3>2
  <2> QED BY <2>1, <2>2, KeptStill DEF At, files
<1>5. ASSUME NEW i \in Ids, Publish(i) \/ PublishFails(i) \/ Miss(i) PROVE KeptInv'
  <2>1. \A j \in Ids : entries'[j].item = entries[j].item
    BY <1>5, FireEntry DEF TypeOK
  <2>2. held.stage = "publish" /\ UNCHANGED files /\ mishaps \subseteq mishaps'
    BY <1>5 DEF Publish, PublishFails, Miss, Handled, At, Mishap
  <2> QED BY <2>1, <2>2, KeptStill DEF At, files
<1>6. CASE SaveDefinitions
  <2>1. defs' = Definitions(entries) /\ entries' = entries /\ defs' \in [Ids -> Sound \cup {NoItem}]
    BY <1>6, StateType DEF SaveDefinitions, memory, TypeOK
  <2>2. Definitions(entries)' = Definitions(entries) /\ defs' # Missing
    BY <2>1, AbsentAssumption DEF Definitions
  <2> QED BY <2>1, <2>2 DEF KeptInv
<1>7. CASE SaveDefinitionsFails
  BY <1>7 DEF SaveDefinitionsFails, Mishap, KeptInv
<1>8. CASE SaveState
  BY <1>8, KeptStill DEF SaveState, At, memory
<1>9. CASE SaveStateFails
  <2>1. held.stage = "state" /\ entries' = Undone /\ defs' = defs /\ mishaps \subseteq mishaps'
    BY <1>9 DEF SaveStateFails, At
  <2>2. CASE Definitions(Undone) = Definitions(entries)
    <3>1. Definitions(entries)' = Definitions(entries)
      BY <2>1, <2>2 DEF Definitions
    <3> QED BY <2>1, <3>1 DEF KeptInv, At
  <2>3. CASE Definitions(Undone) # Definitions(entries)
    BY <1>9, <2>3 DEF SaveStateFails, KeptInv
  <2> QED BY <2>2, <2>3
<1>10. CASE LoadDefinitions
  <2>1. held' # NoCall /\ held'.stage = "defs"
    BY <1>10, GotoType DEF LoadDefinitions, At, Stages
  <2> QED BY <2>1 DEF KeptInv, At
<1>11. CASE LoadDefinitionsFails /\ Booting
  <2>1. held' \in Holding /\ held'.stage = "load" /\ held'.by = Boot
    BY <1>11, RestartedType DEF LoadDefinitionsFails, Restarted, Stages
  <2> QED BY <2>1, CallAssumption DEF KeptInv, At, Booting
<1>12. CASE LoadDefinitionsFails /\ ~Booting
  BY <1>12, KeptStill DEF LoadDefinitionsFails, At, memory, files, history
<1>13. CASE LoadState \/ LoadStateFails
  <2>1. /\ held.stage = "merge" /\ defs' = defs /\ mishaps \subseteq mishaps'
    BY <1>13 DEF LoadState, LoadStateFails, At, Mishap, files, history
  <2> QED BY <1>13, <2>1, MergeStepType, KeptStill DEF At
<1>14. ASSUME NEW soft \in BOOLEAN, Restart(soft) PROVE KeptInv'
  <2>1. held' \in Holding /\ held'.stage = "load" /\ held'.by = Boot
    BY <1>14, RestartedType DEF Restart, Restarted, Stages
  <2> QED BY <2>1, CallAssumption DEF KeptInv, At, Booting
<1> QED BY <1>1, <1>2, <1>3, <1>4, <1>5, <1>6, <1>7, <1>8, <1>9, <1>10, <1>11, <1>12, <1>13,
           <1>14, NextCases, StillCases

\* DefinitionsKept: without a write that failed or was cut the file and the
\* table name the same schedules whenever no call is between them.
THEOREM DefinitionsCorrect == Spec => []DefinitionsKept
<1>1. Init => KeptInv
  BY DEF Init, KeptInv, Definitions, Empty, Free
<1>2. TypeInv /\ KindsInv /\ StageInv /\ KeptInv /\ [Next]_vars => KeptInv'
  BY KeptStep
<1>3. KeptInv => DefinitionsKept
  BY DEF KeptInv, DefinitionsKept, At
<1> QED BY <1>1, <1>2, <1>3, TypeInductive, StagesInductive, PTL DEF Spec

-----------------------------------------------------------------------------
(* What is paused stays silent.                                            *)

\* The definitions file, when it can be read, does not name the schedule.
Undefined(i) == defs \notin {Missing, Garbled} => defs[i] = NoItem

\* A paused schedule is paused in the table and in the saved state; it is missing
\* from either only when a restart could not bring it back.
QuietAt(i) ==
  /\ blob # Missing
  /\ blob[i] # NoRun => blob[i].status = "paused"
  /\ blob[i] = NoRun => ~Occupied(i) /\ Undefined(i)
  /\ ~Unmerged /\ Occupied(i) => entries[i].status = "paused"
  /\ ~(At("load") /\ Booting) /\ ~Occupied(i) => Undefined(i)
  /\ held # NoCall /\ held.call.kind \in Changes /\ held.call.id = i =>
       Occupied(i) /\ held.prev.item # NoItem /\ held.prev.status = "paused"
  /\ At("publish") => i \notin held.todo

QuietInv == "lost" \notin mishaps => \A i \in quiet : QuietAt(i)

\* A step that leaves the files and what is paused alone, while no load is at
\* work or the load that is goes no further.
LEMMA QuietStill ==
  ASSUME NEW i \in Ids, QuietAt(i), UNCHANGED files,
         entries'[i].item = entries[i].item,
         entries[i].status = "paused" => entries'[i].status = "paused",
         ~Unmerged, ~(At("load") /\ Booting),
         held' # NoCall /\ held'.call.kind \in Changes /\ held'.call.id = i =>
           Occupied(i) /\ held'.prev.item # NoItem /\ held'.prev.status = "paused",
         At("publish")' => i \notin held'.todo
  PROVE  QuietAt(i)'
BY DEF QuietAt, Undefined, Occupied, files

\* Undoing a change of a paused schedule leaves it paused.
LEMMA QuietUndone ==
  ASSUME TypeOK, NEW i \in Ids, QuietAt(i), held # NoCall, ~Unmerged
  PROVE  /\ Undone[i].item # NoItem <=> entries[i].item # NoItem
         /\ Undone[i].item # NoItem => Undone[i].status = "paused"
<1>1. held.call.kind \in Changes \/ Undone[i] = entries[i]
  BY HeldType DEF Undone, Call, Changes
<1>2. Undone[i] = entries[i] \/ (held.call.id = i /\ Undone[i] = held.prev)
  BY DEF Undone, TypeOK
<1> QED BY <1>1, <1>2 DEF QuietAt, Occupied

LEMMA QuietStep ==
  ASSUME TypeInv, TypeInv', KindsInv, StageInv, QuietInv, [Next]_vars
  PROVE  QuietInv'
<1> USE DEF TypeInv
<1> SUFFICES ASSUME "lost" \notin mishaps', NEW i \in quiet'
             PROVE  QuietAt(i)'
  BY DEF QuietInv
<1>0. i \in Ids
  BY DEF TypeOK
<1>1. CASE UNCHANGED <<memory, files, held, history>>
  <2>1. QuietAt(i)
    BY <1>1 DEF QuietInv, history
  <2> QED BY <1>1, <2>1
          DEF QuietAt, Undefined, Occupied, Unmerged, Loading, At, Booting, memory, files
<1>2. ASSUME NEW u \in Users, Change(u) PROVE QuietAt(i)'
  <2>1. /\ calls[u] \in Call /\ entries[calls[u].id] \in Entry /\ calls[u].id \in Ids
        /\ calls[u].kind \in Changes
        /\ calls[u].kind # "add" => entries[calls[u].id].item # NoItem
        /\ held' \in Holding /\ held'.stage = FirstSave(calls[u].kind)
        /\ held'.prev = entries[calls[u].id]
        /\ held'.call.kind = calls[u].kind /\ held'.call.id = calls[u].id
        /\ held = NoCall
    BY <1>2, ChangeCall
  <2>2. i \in quiet /\ "lost" \notin mishaps
        /\ (i = calls[u].id => calls[u].kind \in {"pause", "update"})
    BY <1>2, <2>1 DEF Change, Mishap, Changes
  <2>3. QuietAt(i)
    BY <2>2 DEF QuietInv
  <2>4. held'.stage # "publish"
    BY <2>1 DEF FirstSave
  <2>5. CASE i # calls[u].id
    <3>1. entries'[i] = entries[i]
      BY <1>0, <1>2, <2>1, <2>5 DEF Change, TypeOK
    <3> QED BY <1>0, <1>2, <2>1, <2>3, <2>4, <2>5, <3>1, QuietStill
            DEF Change, At, Unmerged, files
  <2>6. CASE i = calls[u].id
    <3>1. entries[i].item # NoItem /\ entries[i].status = "paused"
      BY <2>1, <2>2, <2>3, <2>6 DEF QuietAt, Occupied, Unmerged
    <3>2. entries'[i] = Changed(entries[i], calls[u])
      BY <1>0, <1>2, <2>6 DEF Change, TypeOK
    <3>3. entries'[i].status = "paused" /\ entries'[i].item # NoItem
      <4>1. CASE calls[u].kind = "pause"
        BY <2>1, <2>6, <3>1, <3>2, <4>1, ChangedType DEF TypeOK
      <4>2. CASE calls[u].kind = "update"
        BY <2>1, <2>6, <3>1, <3>2, <4>2, ChangedType DEF TypeOK
      <4> QED BY <2>2, <2>6, <4>1, <4>2
    <3> QED BY <1>2, <2>1, <2>3, <2>4, <2>6, <3>1, <3>3
            DEF QuietAt, Undefined, Occupied, At, Change, files
  <2> QED BY <2>5, <2>6
<1>3. ASSUME NEW u \in Users, Trigger(u) PROVE QuietAt(i)'
  <2>1. /\ held' \in Holding /\ held'.call.kind = "trigger" /\ held'.todo = {calls[u].id}
        /\ held = NoCall /\ i \in quiet /\ i # calls[u].id
        /\ "lost" \notin mishaps /\ UNCHANGED <<memory, files>>
    BY <1>3, TriggerCall DEF Trigger, MutexFree, Mishap
  <2>2. QuietAt(i)
    BY <2>1 DEF QuietInv
  <2> QED BY <1>0, <2>1, <2>2, QuietStill DEF At, Unmerged, Changes, memory
<1>4. ASSUME NEW u \in Users, Reload(u) PROVE QuietAt(i)'
  <2>1. /\ held' \in Holding /\ held'.call.kind = "load" /\ held'.stage = "load"
        /\ held = NoCall /\ UNCHANGED <<memory, files, history>>
    BY <1>4, ReloadCall DEF Reload
  <2>2. QuietAt(i)
    BY <2>1 DEF QuietInv, history
  <2> QED BY <1>0, <2>1, <2>2, QuietStill DEF At, Unmerged, Changes, memory
<1>5. CASE Look
  <2>1. held = NoCall /\ UNCHANGED <<memory, files, history>>
    BY <1>5 DEF Look, MutexFree
  <2>2. QuietAt(i)
    BY <2>1 DEF QuietInv, history
  <2>3. \/ held' = NoCall
        \/ held'.call.kind = "tick" /\ held'.todo = Due(calls[Task].now)
    BY <1>5, <2>1, LookCall DEF KindsInv, Look
  <2>4. i \notin Due(calls[Task].now)
    BY <2>1, <2>2 DEF Due, QuietAt, Unmerged
  <2> QED BY <1>0, <2>1, <2>2, <2>3, <2>4, QuietStill DEF At, Unmerged, Changes, memory
<1>6. CASE Sync
  <2>1. /\ held = NoCall /\ held' \in Holding /\ held'.stage = "state"
        /\ held'.call.kind = "sync" /\ UNCHANGED <<files, history>>
    BY <1>6, SyncCall DEF Sync, KindsInv
  <2>2. QuietAt(i)
    BY <2>1 DEF QuietInv, history
  <2>3. /\ entries'[i].item = entries[i].item
        /\ entries[i].item # NoItem =>
             (entries[i].status = "paused" => entries'[i].status = "paused")
    <3>1. CASE entries[i].item # NoItem
      <4>1. entries[i] \in Entry /\ Now \in Nat
        BY <1>0, NowType DEF TypeOK
      <4>2. entries'[i] = Synced(entries[i])
        BY <1>0, <1>6, <3>1 DEF Sync, Occupied
      <4> QED BY <3>1, <4>1, <4>2, SyncedType
    <3>2. CASE entries[i].item = NoItem
      BY <1>0, <1>6, <3>2, AbsentItem DEF Sync, Occupied
    <3> QED BY <3>1, <3>2
  <2> QED BY <2>1, <2>2, <2>3
          DEF QuietAt, Undefined, Occupied, At, Booting, Unmerged, Changes, files
<1>7. ASSUME NEW j \in Ids, Publish(j) \/ PublishFails(j) \/ Miss(j) PROVE QuietAt(i)'
  <2>1. /\ Handled(j) /\ held # NoCall /\ held \in Holding /\ held.stage = "publish"
        /\ j \in held.todo /\ UNCHANGED <<files, quiet>> /\ "lost" \notin mishaps
    BY <1>7, HeldType DEF Publish, PublishFails, Miss, Handled, At, Mishap
  <2>2. QuietAt(i) /\ i \notin held.todo
    BY <2>1 DEF QuietInv, QuietAt, At
  <2>3. entries'[i] = entries[i]
    <3>1. entries' = [entries EXCEPT ![j] = entries'[j]]
      BY <1>7, FireEntry
    <3> QED BY <1>0, <2>1, <2>2, <3>1 DEF TypeOK
  <2>4. held'.call = held.call /\ held'.prev = held.prev /\ held'.todo \subseteq held.todo
    BY <2>1 DEF Handled, Holding
  <2>5. held.call.kind \notin Changes
    BY <2>1 DEF StageInv
  <2> QED BY <1>0, <2>1, <2>2, <2>3, <2>4, <2>5, QuietStill DEF At, Unmerged
<1>8. CASE SaveDefinitions
  <2>1. /\ held # NoCall /\ held.stage = "defs" /\ UNCHANGED <<memory, blob, quiet>>
        /\ defs' = [j \in Ids |-> entries[j].item] /\ "lost" \notin mishaps
    BY <1>8 DEF SaveDefinitions, At, Definitions
  <2>2. QuietAt(i)
    BY <2>1 DEF QuietInv
  <2>3. /\ held'.prev = held.prev /\ held'.call = held.call /\ held' # NoCall
        /\ held'.stage = IF Loading THEN "merge" ELSE "state"
    <3>1. CASE Loading
      BY <1>8, <2>1, <3>1, GotoType DEF SaveDefinitions, Stages
    <3>2. CASE ~Loading
      BY <1>8, <2>1, <3>2, GotoType DEF SaveDefinitions, Stages
    <3> QED BY <3>1, <3>2
  <2> QED BY <1>0, <2>1, <2>2, <2>3
          DEF QuietAt, Undefined, Occupied, Unmerged, Loading, At, memory
<1>9. CASE SaveDefinitionsFails
  <2>1. /\ held # NoCall /\ held.stage = "defs" /\ UNCHANGED <<blob, quiet>>
        /\ defs' \in {defs, Garbled} /\ entries' = Undone /\ "lost" \notin mishaps
    BY <1>9 DEF SaveDefinitionsFails, At, Mishap
  <2>2. QuietAt(i)
    BY <2>1 DEF QuietInv
  <2>3. CASE Loading
    <3>1. entries' = entries
      BY <2>1, <2>3 DEF Undone, Loading
    <3>2. /\ held'.call = held.call /\ held' # NoCall /\ held'.stage = "merge"
      BY <1>9, <2>1, <2>3, GotoType DEF SaveDefinitionsFails, Stages
    <3> QED BY <2>1, <2>2, <2>3, <3>1, <3>2
            DEF QuietAt, Undefined, Occupied, Unmerged, Loading, Changes, At
  <2>4. CASE ~Loading
    <3>1. held' = NoCall
      BY <1>9, <2>4 DEF SaveDefinitionsFails, Release
    <3>2. /\ entries'[i].item # NoItem <=> entries[i].item # NoItem
          /\ entries'[i].item # NoItem => entries'[i].status = "paused"
      BY <1>0, <2>1, <2>2, <2>4, QuietUndone DEF Unmerged
    <3> QED BY <2>1, <2>2, <2>4, <3>1, <3>2
            DEF QuietAt, Undefined, Occupied, Unmerged, Loading, At
  <2> QED BY <2>3, <2>4
<1>10. CASE SaveState
  <2>1. /\ held # NoCall /\ held.stage = "state" /\ held' = NoCall
        /\ UNCHANGED <<memory, defs, mishaps>> /\ blob' = State(entries)
    BY <1>10 DEF SaveState, At, Release
  <2>2. /\ blob' \in [Ids -> RunState \cup {NoRun}]
        /\ entries[i] \in Entry
    BY <1>0, <2>1, StateType DEF TypeOK
  <2>3. /\ blob' # Missing
        /\ entries[i].item = NoItem => blob'[i] = NoRun
        /\ entries[i].item # NoItem => blob'[i] # NoRun /\ blob'[i].status = entries[i].status
    <3>1. blob'[i] = IF entries[i].item = NoItem THEN NoRun ELSE Run(entries[i])
      BY <1>0, <2>1 DEF State
    <3>2. CASE entries[i].item # NoItem
      <4>1. Run(entries[i]) \in RunState /\ Run(entries[i]).status = entries[i].status
        BY <2>2, <3>2, EntryFields DEF Run, RunState
      <4> QED BY <2>2, <3>1, <3>2, <4>1, AbsentAssumption
    <3> QED BY <2>2, <3>1, <3>2, AbsentAssumption
  <2>4. /\ entries[i].item # NoItem => entries[i].status = "paused"
        /\ entries[i].item = NoItem => Undefined(i)
    <3>1. CASE held.call.kind = "pause" /\ held.call.id = i
      BY <2>1, <3>1 DEF StageInv, Occupied
    <3>2. CASE ~(held.call.kind = "pause" /\ held.call.id = i)
      BY <1>10, <2>1, <3>2 DEF SaveState, QuietInv, QuietAt, Occupied, Unmerged, At
    <3> QED BY <3>1, <3>2
  <2> QED BY <2>1, <2>3, <2>4 DEF QuietAt, Undefined, Occupied, Unmerged, At, memory
<1>11. CASE SaveStateFails
  <2>1. /\ held # NoCall /\ held.stage = "state" /\ held' = NoCall /\ entries' = Undone
        /\ UNCHANGED <<defs, quiet>> /\ blob' = blob /\ "lost" \notin mishaps
    BY <1>11 DEF SaveStateFails, At, Release
  <2>2. QuietAt(i)
    BY <2>1 DEF QuietInv
  <2>3. /\ entries'[i].item # NoItem <=> entries[i].item # NoItem
        /\ entries'[i].item # NoItem => entries'[i].status = "paused"
    BY <1>0, <2>1, <2>2, QuietUndone DEF Unmerged
  <2> QED BY <2>1, <2>2, <2>3 DEF QuietAt, Undefined, Occupied, Unmerged, At
<1>12. CASE LoadDefinitions
  <2>1. /\ held # NoCall /\ held.stage = "load" /\ Loading /\ defs # Garbled
        /\ UNCHANGED <<files, history>>
    BY <1>12 DEF LoadDefinitions, At, StageInv
  <2>2. QuietAt(i)
    BY <2>1 DEF QuietInv, history
  <2>3. held'.call = held.call /\ held' # NoCall /\ held'.stage = "defs"
    BY <1>12, <2>1, GotoType DEF LoadDefinitions, Stages
  <2>4. entries'[i].item = IF defs = Missing THEN NoItem ELSE defs[i]
    BY <1>0, <1>12, <2>1, LoadedType DEF LoadDefinitions
  <2> QED BY <2>1, <2>2, <2>3, <2>4
          DEF QuietAt, Undefined, Occupied, Unmerged, Loading, Changes, At, files
<1>13. CASE LoadDefinitionsFails
  <2>1. held # NoCall /\ held.stage = "load" /\ UNCHANGED <<memory, files, history>>
    BY <1>13 DEF LoadDefinitionsFails, At
  <2>2. QuietAt(i)
    BY <2>1 DEF QuietInv, history
  <2>3. CASE Booting
    <3>1. /\ held'.by = Boot /\ held'.call.kind = "load" /\ held'.stage = "load"
          /\ held' # NoCall
      BY <1>13, <2>3, RestartedType, CallAssumption DEF LoadDefinitionsFails, Restarted, Stages
    <3> QED BY <2>1, <2>2, <2>3, <3>1
            DEF QuietAt, Undefined, Occupied, Unmerged, Loading, Booting, Changes, At, memory, files
  <2>4. CASE ~Booting
    <3>1. held' = NoCall
      BY <1>13, <2>4 DEF LoadDefinitionsFails, Release
    <3> QED BY <1>0, <2>1, <2>2, <2>4, <3>1, QuietStill DEF At, Unmerged, memory
  <2> QED BY <2>3, <2>4
<1>14. CASE LoadStateFails
  BY <1>14 DEF LoadStateFails, Mishap
<1>15. CASE LoadState
  <2>1. /\ held # NoCall /\ held.stage = "merge" /\ Loading /\ UNCHANGED <<files, history>>
    BY <1>15 DEF LoadState, At, StageInv
  <2>2. QuietAt(i)
    BY <2>1 DEF QuietInv, history
  <2>3. held'.call = held.call /\ held' # NoCall /\ held'.stage = "state"
    BY <1>15, <2>1, GotoType DEF LoadState, Stages
  <2>4. entries'[i].item = entries[i].item
    BY <1>0, <1>15, MergeStepType
  <2>5. entries[i].item # NoItem => entries'[i].status = "paused"
    <3> SUFFICES ASSUME entries[i].item # NoItem PROVE entries'[i].status = "paused"
      OBVIOUS
    <3> DEFINE e == Merged(entries[i], blob[i])
    <3>1. /\ entries[i] \in Entry /\ blob[i] \in RunState \cup {NoRun} /\ Now \in Nat
          /\ timeValid \in BOOLEAN /\ blob[i] # NoRun /\ blob[i].status = "paused"
      BY <1>0, <2>2, NowType DEF QuietAt, Occupied, TypeOK
    <3>2. e \in Entry /\ e.status = "paused"
      BY <3>1, MergedType
    <3>3. entries'[i] = Reanchored(e, Now)
      BY <1>0, <1>15, <2>2 DEF LoadState, QuietAt
    <3> HIDE DEF e
    <3> QED BY <3>1, <3>2, <3>3, ReanchoredType
  <2> QED BY <2>1, <2>2, <2>3, <2>4, <2>5
          DEF QuietAt, Undefined, Occupied, Unmerged, Loading, Changes, At, files
<1>16. ASSUME NEW soft \in BOOLEAN, Restart(soft) PROVE QuietAt(i)'
  <2>1. /\ held'.by = Boot /\ held'.call.kind = "load" /\ held'.stage = "load"
        /\ held' # NoCall
    BY <1>16, RestartedType, CallAssumption DEF Restart, Restarted, Stages
  <2>2. /\ entries'[i].item = NoItem /\ blob' = blob /\ quiet' = quiet
        /\ defs' \in {defs, Garbled} /\ "lost" \notin mishaps
    BY <1>0, <1>16 DEF Restart, Empty, Free
  <2>3. QuietAt(i)
    BY <2>2 DEF QuietInv
  <2> QED BY <2>1, <2>2, <2>3
          DEF QuietAt, Undefined, Occupied, Unmerged, Loading, Booting, Changes, At
<1> QED BY <1>1, <1>2, <1>3, <1>4, <1>5, <1>6, <1>7, <1>8, <1>9, <1>10, <1>11, <1>12, <1>13,
           <1>14, <1>15, <1>16, NextCases, StillCases

\* PausedSilent: unless the saved state was lost, what was paused is not fired,
\* through updates, failed writes, time syncs, reloads and restarts.
THEOREM PausedCorrect == Spec => []PausedSilent
<1>1. Init => QuietInv
  BY DEF Init, QuietInv
<1>2. TypeInv /\ TypeInv' /\ KindsInv /\ StageInv /\ QuietInv /\ [Next]_vars => QuietInv'
  BY QuietStep
<1>3. QuietInv => PausedSilent
  BY DEF QuietInv, QuietAt, PausedSilent
<1> QED BY <1>1, <1>2, <1>3, TypeInductive, StagesInductive, PTL DEF Spec

-----------------------------------------------------------------------------
(* Times and counts of what was fired.                                     *)

\* A schedule at one time has no other time than its own, unless it is paused.
Aim(e) ==
  e.item # NoItem /\ e.item.kind = "once" /\ e.status # "paused" /\ e.next > 0 =>
    e.next = e.item.start

\* A refreshed entry keeps its counts, and has a time only if it is not used up.
LEMMA RefreshedTimes ==
  ASSUME NEW e \in Working, NEW anchor \in Nat, NEW valid \in BOOLEAN
  PROVE  LET r == Refreshed(e, anchor, valid) IN
         /\ r.runs = e.runs /\ r.last = e.last
         /\ r.next > 0 =>
              (r.next = e.next /\ e.status = "paused") \/ ~Used(e.item, e.runs)
         /\ e.item.kind = "once" /\ r.next > 0 =>
              /\ e.item.on
              /\ e.next > 0 \/ anchor < e.item.start
         /\ Aim(r)
<1> DEFINE r == Refreshed(e, anchor, valid)
           t == NextFire(e.item, anchor, e.runs)
<1>1. /\ e.item \in Sound /\ e.runs \in Nat /\ e.last \in Nat /\ e.next \in Int
      /\ e = [item |-> e.item, status |-> e.status, next |-> e.next, last |-> e.last,
              runs |-> e.runs]
  BY DEF Working
<1>2. e.item.on \in BOOLEAN /\ e.item.start \in Nat
  BY <1>1 DEF Sound, Item
<1>3. CASE ~e.item.on
  <2>1. r = [e EXCEPT !.status = "disabled", !.next = -1]
    BY <1>3 DEF Refreshed
  <2>2. r.runs = e.runs /\ r.last = e.last /\ r.next = -1
    BY <1>1, <2>1
  <2> QED BY <2>2 DEF Aim
<1>4. CASE e.item.on /\ e.status = "paused"
  <2>1. r = e
    BY <1>4 DEF Refreshed
  <2> QED BY <1>4, <2>1 DEF Aim
<1>5. CASE e.item.on /\ e.status # "paused" /\ ~valid /\ NeedsTime(e.item)
  <2>1. r = [e EXCEPT !.status = "scheduled", !.next = -1]
    BY <1>5 DEF Refreshed
  <2>2. r.runs = e.runs /\ r.last = e.last /\ r.next = -1
    BY <1>1, <2>1
  <2> QED BY <2>2 DEF Aim
<1>6. CASE e.item.on /\ e.status # "paused" /\ ~(~valid /\ NeedsTime(e.item))
           /\ ~Computable(e.item, e.runs)
  <2>1. r = [e EXCEPT !.status = "error"]
    BY <1>6 DEF Refreshed
  <2>2. r.runs = e.runs /\ r.last = e.last /\ r.next = e.next /\ r.item = e.item
        /\ e.item.kind = "cron" /\ ~Used(e.item, e.runs)
    BY <1>1, <1>6, <2>1 DEF Computable
  <2> QED BY <2>2 DEF Aim
<1>7. CASE e.item.on /\ e.status # "paused" /\ ~(~valid /\ NeedsTime(e.item))
           /\ Computable(e.item, e.runs)
  <2>1. r = [e EXCEPT !.next = t, !.status = IF t < 0 THEN "completed" ELSE "scheduled"]
    BY <1>7 DEF Refreshed
  <2>2. t \in Int
    BY <1>1, <1>7, NextFireType
  <2>3. t > 0 => /\ ~Used(e.item, e.runs)
                 /\ e.item.kind = "once" => anchor < e.item.start /\ t = e.item.start
    BY <1>2 DEF NextFire, Following
  <2> HIDE DEF t
  <2>4. r.runs = e.runs /\ r.last = e.last /\ r.next = t /\ r.item = e.item
    BY <1>1, <2>1
  <2> QED BY <1>7, <2>2, <2>3, <2>4 DEF Aim
<1> QED BY <1>2, <1>3, <1>4, <1>5, <1>6, <1>7

LEMMA AimFree == Aim(Free)
BY AbsentItem DEF Aim

LEMMA AimChanged ==
  ASSUME NEW e \in Entry, NEW call \in Call, timeValid \in BOOLEAN,
         call.kind \in Changes, call.kind # "add" => e.item # NoItem
  PROVE  Aim(Changed(e, call))
<1> DEFINE r == Changed(e, call)
<1>0. call.now \in Nat /\ (call.kind \in {"add", "update"} => call.item \in Sound)
  BY CallType
<1>1. ASSUME NEW f \in Working, r = Refreshed(f, call.now, timeValid) PROVE Aim(r)
  BY <1>0, <1>1, RefreshedTimes
<1>2. CASE call.kind = "add"
  <2> DEFINE f == [Fresh(call.item) EXCEPT !.next = 0]
  <2>1. Fresh(call.item) \in Entry /\ Fresh(call.item).item = call.item /\ call.item # NoItem
    BY <1>0, <1>2, FreshType, AbsentItem
  <2>2. f \in Working
    BY <2>1, EntryFields, <1>0, <1>2 DEF Working
  <2>3. r = Refreshed(f, call.now, timeValid)
    BY <1>2 DEF Changed
  <2> HIDE DEF f
  <2> QED BY <1>1, <2>2, <2>3
<1>3. e.item # NoItem => e \in Working
  BY EntryFields DEF Working
<1>4. CASE call.kind = "update" /\ e.status = "paused"
  <2>1. r = [e EXCEPT !.item = call.item]
    BY <1>4 DEF Changed
  <2>2. r.status = "paused"
    BY <1>4, <2>1, EntryFields
  <2> QED BY <2>2 DEF Aim
<1>5. CASE call.kind = "update" /\ e.status # "paused"
  <2> DEFINE f == [e EXCEPT !.item = call.item]
  <2>1. f \in Working
    BY <1>0, <1>3, <1>5 DEF Working
  <2>2. r = Refreshed(f, call.now, timeValid)
    BY <1>5 DEF Changed
  <2> HIDE DEF f
  <2> QED BY <1>1, <2>1, <2>2
<1>6. CASE call.kind = "remove"
  BY <1>6, AimFree DEF Changed
<1>7. CASE call.kind \in {"enable", "disable"}
  <2> DEFINE on == call.kind = "enable"
             f == Switched(e, on)
  <2>1. f \in Working
    <3>1. /\ e.item \in Sound
          /\ e = [item |-> e.item, status |-> e.status, next |-> e.next, last |-> e.last,
                  runs |-> e.runs]
      BY <1>7, EntryFields
    <3>2. [e.item EXCEPT !.on = on] \in Sound
      BY <3>1 DEF Sound, Item, Valid
    <3>3. PICK item \in Sound : item = [e.item EXCEPT !.on = on]
      BY <3>2
    <3>4. f = [e EXCEPT !.item = item, !.status = IF on THEN "scheduled" ELSE "disabled"]
      BY <3>1, <3>3 DEF Switched
    <3> HIDE DEF f
    <3>5. f = [item |-> item, status |-> IF on THEN "scheduled" ELSE "disabled",
               next |-> e.next, last |-> e.last, runs |-> e.runs]
      BY <3>1, <3>4
    <3> QED BY <1>7, <3>5, EntryFields DEF Working, Statuses
  <2>2. r = Refreshed(f, call.now, timeValid)
    BY <1>7 DEF Changed
  <2> HIDE DEF f
  <2> QED BY <1>1, <2>1, <2>2
<1>8. CASE call.kind = "pause"
  <2>1. r = [e EXCEPT !.status = "paused"]
    BY <1>8 DEF Changed
  <2>2. r.status = "paused"
    BY <1>8, <2>1, EntryFields
  <2> QED BY <2>2 DEF Aim
<1>9. CASE call.kind = "resume"
  <2>1. r = Refreshed(e, call.now, timeValid)
    BY <1>9 DEF Changed
  <2> QED BY <1>1, <1>3, <1>9, <2>1
<1> QED BY <1>2, <1>4, <1>5, <1>6, <1>7, <1>8, <1>9 DEF Changes

LEMMA AimReanchored ==
  ASSUME NEW e \in Entry, NEW now \in Nat, timeValid \in BOOLEAN
  PROVE  Aim(Reanchored(e, now))
<1>1. CASE e.item = NoItem \/ e.status = "paused"
  BY <1>1 DEF Reanchored, Aim
<1>2. CASE e.item # NoItem /\ e.status # "paused"
  <2>1. Reanchored(e, now) = Refreshed(e, IF e.last > 0 THEN e.last ELSE now, timeValid)
    BY <1>2 DEF Reanchored
  <2>2. e \in Working /\ (IF e.last > 0 THEN e.last ELSE now) \in Nat
    BY <1>2, EntryFields DEF Working
  <2> QED BY <2>1, <2>2, RefreshedTimes
<1> QED BY <1>1, <1>2

-----------------------------------------------------------------------------
(* How often a definition was fired, and what the table and the saved state *)
(* say of it.                                                              *)

\* No rescheduling by a time from before a firing.
Clean == mishaps \cap {"stale", "astray"} = {}

\* The item is the definition that was fired, switched on or off.
AsFired(f, item) == item # NoItem /\ [item EXCEPT !.on = TRUE] = f.of

\* An entry or its saved state accounts for what was fired: it counts at least
\* as many runs, has a time only if its runs are not used up, and none if it was
\* for one time.
Accounts(f, r, clean) ==
  /\ f.times <= r.runs
  /\ r.next > 0 => ~Used(f.of, r.runs)
  /\ clean /\ f.of.kind = "once" => f.of.start <= r.last /\ r.next <= 0

\* What the properties ask.
Within(f, clean, now) ==
  /\ f.of \in Item
  /\ f.of.max > 0 => f.times <= f.of.max
  /\ clean /\ f.of.kind = "once" => f.times <= 1 /\ f.of.start <= now

Firing == [of : Item \cup {NoItem}, times : Nat]

LEMMA LessClean ==
  ASSUME NEW f, NEW r, NEW clean \in BOOLEAN, NEW still \in BOOLEAN, still => clean,
         Accounts(f, r, clean)
  PROVE  Accounts(f, r, still)
BY DEF Accounts

LEMMA AsFiredFields ==
  ASSUME NEW f, NEW item \in Sound, AsFired(f, item)
  PROVE  /\ f.of \in Item /\ f.of.max = item.max /\ f.of.kind = item.kind
         /\ f.of.start = item.start /\ (item.kind = "once" => item.start > 0)
         /\ \A runs : Used(f.of, runs) <=> Used(item, runs)
<1>1. item \in Item /\ Valid(item)
  BY DEF Sound
<1>2. /\ f.of \in Item /\ f.of.max = item.max /\ f.of.kind = item.kind
      /\ f.of.start = item.start
  BY <1>1 DEF AsFired, Item
<1> QED BY <1>1, <1>2 DEF Used, Valid

\* A refreshed entry still accounts for what was fired, if it is refreshed by a
\* time that is not before that.
LEMMA AccountsRefreshed ==
  ASSUME NEW f, NEW clean \in BOOLEAN, NEW e \in Working, NEW anchor \in Nat,
         NEW valid \in BOOLEAN, AsFired(f, e.item), Accounts(f, e, clean),
         clean /\ f.of.kind = "once" /\ e.item.on => f.of.start <= anchor
  PROVE  LET r == Refreshed(e, anchor, valid) IN
         AsFired(f, r.item) /\ Accounts(f, r, clean)
<1> DEFINE r == Refreshed(e, anchor, valid)
<1>1. /\ e.item \in Sound /\ e.runs \in Nat /\ e.last \in Nat /\ e.next \in Int
  BY DEF Working
<1>2. r \in Entry /\ r.item = e.item
  BY RefreshedType
<1>3. /\ r.runs = e.runs /\ r.last = e.last
      /\ r.next > 0 => r.next = e.next \/ ~Used(e.item, e.runs)
      /\ e.item.kind = "once" /\ r.next > 0 =>
           /\ e.item.on
           /\ e.next > 0 \/ anchor < e.item.start
  BY RefreshedTimes
<1> HIDE DEF r
<1>4. /\ f.of.kind = e.item.kind /\ f.of.start = e.item.start /\ f.of.start \in Nat
      /\ Used(f.of, e.runs) <=> Used(e.item, e.runs)
  BY <1>1, AsFiredFields DEF Item
<1>5. r.next \in Int
  BY <1>2 DEF Entry
<1>6. f.times <= r.runs /\ (r.next > 0 => ~Used(f.of, r.runs))
  BY <1>3, <1>4 DEF Accounts
<1>7. ASSUME clean, f.of.kind = "once" PROVE f.of.start <= r.last /\ r.next <= 0
  <2>1. f.of.start <= e.last /\ e.next <= 0
    BY <1>7 DEF Accounts
  <2>2. ~(r.next > 0)
    BY <1>1, <1>3, <1>4, <1>7, <2>1
  <2> QED BY <1>3, <1>5, <2>1, <2>2
<1> QED BY <1>2, <1>6, <1>7 DEF Accounts, r

LEMMA SwitchedFields ==
  ASSUME NEW e \in Entry, e.item # NoItem, NEW on \in BOOLEAN
  PROVE  /\ Switched(e, on) \in Working
         /\ Switched(e, on).item = [e.item EXCEPT !.on = on]
         /\ Switched(e, on).next = e.next /\ Switched(e, on).last = e.last
         /\ Switched(e, on).runs = e.runs
<1>1. /\ e.item \in Sound
      /\ e = [item |-> e.item, status |-> e.status, next |-> e.next, last |-> e.last,
              runs |-> e.runs]
  BY EntryFields
<1>2. [e.item EXCEPT !.on = on] \in Sound
  BY <1>1 DEF Sound, Item, Valid
<1>3. PICK item \in Sound : item = [e.item EXCEPT !.on = on]
  BY <1>2
<1>4. Switched(e, on) = [e EXCEPT !.item = item, !.status = IF on THEN "scheduled" ELSE "disabled"]
  BY <1>1, <1>3 DEF Switched
<1>5. Switched(e, on) = [item |-> item, status |-> IF on THEN "scheduled" ELSE "disabled",
                         next |-> e.next, last |-> e.last, runs |-> e.runs]
  BY <1>1, <1>4
<1> QED BY <1>3, <1>5, EntryFields DEF Working, Statuses

LEMMA AccountsChanged ==
  ASSUME NEW f, NEW clean \in BOOLEAN, NEW e \in Entry, NEW call \in Call,
         timeValid \in BOOLEAN, call.kind \in {"enable", "disable", "pause", "resume"},
         AsFired(f, e.item), Accounts(f, e, clean),
         clean /\ call.kind \in {"enable", "resume"} => e.last <= call.now
  PROVE  LET r == Changed(e, call) IN AsFired(f, r.item) /\ Accounts(f, r, clean)
<1> DEFINE r == Changed(e, call)
<1>1. /\ call.now \in Nat /\ e.item # NoItem /\ e \in Working
      /\ e.item \in Sound /\ e.last \in Nat
      /\ e = [item |-> e.item, status |-> e.status, next |-> e.next, last |-> e.last,
              runs |-> e.runs]
  BY CallType, EntryFields DEF AsFired, Working
<1>2. f.of.start \in Nat
  BY <1>1, AsFiredFields DEF Item
<1>3. CASE call.kind \in {"enable", "disable"}
  <2> DEFINE on == call.kind = "enable"
             g == Switched(e, on)
  <2>1. /\ g \in Working /\ g.item = [e.item EXCEPT !.on = on] /\ g.next = e.next
        /\ g.last = e.last /\ g.runs = e.runs
    BY <1>1, SwitchedFields
  <2>2. r = Refreshed(g, call.now, timeValid)
    BY <1>3 DEF Changed
  <2> HIDE DEF g
  <2>3. AsFired(f, g.item)
    <3>1. e.item \in Item
      BY <1>1 DEF Sound
    <3>2. [g.item EXCEPT !.on = TRUE] = [e.item EXCEPT !.on = TRUE]
      BY <2>1, <3>1 DEF Item
    <3>3. g.item # NoItem
      BY <2>1, AbsentItem DEF Working
    <3> QED BY <3>2, <3>3 DEF AsFired
  <2>4. Accounts(f, g, clean)
    BY <2>1 DEF Accounts
  <2>5. g.item.on => call.kind = "enable"
    BY <1>1, <2>1 DEF Sound, Item
  <2>6. clean /\ f.of.kind = "once" /\ g.item.on => f.of.start <= call.now
    BY <1>1, <1>2, <2>5 DEF Accounts
  <2>7. PICK q : q = Refreshed(g, call.now, timeValid)
    OBVIOUS
  <2>8. AsFired(f, q.item) /\ Accounts(f, q, clean)
    BY <1>1, <2>1, <2>3, <2>4, <2>6, <2>7, AccountsRefreshed
  <2> QED BY <2>2, <2>7, <2>8
<1>4. CASE call.kind = "pause"
  <2>1. r = [e EXCEPT !.status = "paused"]
    BY <1>4 DEF Changed
  <2>2. r.item = e.item /\ r.next = e.next /\ r.last = e.last /\ r.runs = e.runs
    BY <1>1, <2>1
  <2> QED BY <2>2 DEF Accounts
<1>5. CASE call.kind = "resume"
  <2>1. r = Refreshed(e, call.now, timeValid)
    BY <1>5 DEF Changed
  <2>2. clean /\ f.of.kind = "once" => f.of.start <= call.now
    BY <1>1, <1>2, <1>5 DEF Accounts
  <2> QED BY <1>1, <2>1, <2>2, AccountsRefreshed
<1> QED BY <1>3, <1>4, <1>5

LEMMA AccountsSynced ==
  ASSUME NEW f, NEW clean \in BOOLEAN, NEW e \in Entry, Now \in Nat,
         AsFired(f, e.item), Accounts(f, e, clean),
         clean /\ f.of.kind = "once" => f.of.start <= Now
  PROVE  LET r == Synced(e) IN AsFired(f, r.item) /\ Accounts(f, r, clean)
<1> DEFINE g == [e EXCEPT !.last = 0, !.next = -1]
           h == IF ~timeValid /\ e.item.kind = "interval" /\ ~NeedsTime(e.item) THEN g ELSE e
<1>1. g = [e EXCEPT !.last = 0, !.next = -1]
  OBVIOUS
<1>2. Synced(e) = IF h.status = "paused" THEN h ELSE Refreshed(h, Now, TRUE)
  BY DEF Synced
<1> HIDE DEF g
<1>3. /\ e.item # NoItem /\ e.item \in Sound
      /\ e = [item |-> e.item, status |-> e.status, next |-> e.next, last |-> e.last,
              runs |-> e.runs]
  BY EntryFields DEF AsFired
<1>4. g = [item |-> e.item, status |-> e.status, next |-> -1, last |-> 0, runs |-> e.runs]
  BY <1>1, <1>3
<1>5. h \in Working /\ h.item = e.item
  BY <1>3, <1>4, EntryFields DEF Working
<1>6. f.of.kind = e.item.kind
  BY <1>3, AsFiredFields
<1>7. Accounts(f, h, clean)
  BY <1>4, <1>6 DEF Accounts
<1> HIDE DEF h
<1>8. CASE h.status = "paused"
  BY <1>2, <1>5, <1>7, <1>8
<1>9. CASE h.status # "paused"
  BY <1>2, <1>5, <1>7, <1>9, AccountsRefreshed
<1> QED BY <1>8, <1>9

LEMMA AccountsMerged ==
  ASSUME NEW f, NEW clean \in BOOLEAN, NEW e \in Entry, NEW run \in RunState,
         AsFired(f, e.item), Accounts(f, run, clean), run # NoRun
  PROVE  LET r == Merged(e, run) IN AsFired(f, r.item) /\ Accounts(f, r, clean)
<1>1. e.item # NoItem
  BY DEF AsFired
<1>2. Merged(e, run) = [item |-> e.item, status |-> run.status, next |-> run.next,
                        last |-> run.last, runs |-> run.runs]
  BY <1>1 DEF Merged
<1> QED BY <1>2 DEF Accounts

LEMMA AccountsReanchored ==
  ASSUME NEW f, NEW clean \in BOOLEAN, NEW e \in Entry, NEW now \in Nat,
         timeValid \in BOOLEAN, AsFired(f, e.item), Accounts(f, e, clean)
  PROVE  LET r == Reanchored(e, now) IN AsFired(f, r.item) /\ Accounts(f, r, clean)
<1>1. e.item # NoItem /\ e.item \in Sound /\ e \in Working /\ e.last \in Nat
  BY EntryFields DEF AsFired, Working
<1>2. CASE e.status = "paused"
  BY <1>2 DEF Reanchored
<1>3. CASE e.status # "paused"
  <2> DEFINE anchor == IF e.last > 0 THEN e.last ELSE now
  <2>1. Reanchored(e, now) = Refreshed(e, anchor, timeValid)
    BY <1>1, <1>3 DEF Reanchored
  <2>2. ASSUME clean, f.of.kind = "once" PROVE f.of.start <= anchor
    <3>1. f.of.start \in Nat /\ f.of.start > 0
      BY <1>1, <2>2, AsFiredFields DEF Item
    <3>2. f.of.start <= e.last
      BY <2>2 DEF Accounts
    <3> QED BY <1>1, <3>1, <3>2
  <2>3. anchor \in Nat
    BY <1>1
  <2> HIDE DEF anchor
  <2> QED BY <1>1, <2>1, <2>2, <2>3, AccountsRefreshed
<1> QED BY <1>2, <1>3

\* A publication that succeeds outside a trigger is one more firing.
LEMMA AccountsFired ==
  ASSUME NEW f, NEW clean \in BOOLEAN, NEW e \in Entry, held.call.now \in Nat,
         timeValid \in BOOLEAN, AsFired(f, e.item), f.times \in Nat, f.times <= e.runs + 1,
         clean /\ f.of.kind = "once" => f.of.start <= held.call.now
  PROVE  LET r == FiredOff(e) IN AsFired(f, r.item) /\ Accounts(f, r, clean) /\ Aim(r)
<1> DEFINE g == [e EXCEPT !.status = "running", !.last = held.call.now, !.runs = @ + 1]
           r == FiredOff(e)
<1>1. g = [e EXCEPT !.status = "running", !.last = held.call.now, !.runs = @ + 1]
  OBVIOUS
<1>2. r = IF e.item.kind = "once" THEN [g EXCEPT !.next = -1, !.status = "completed"]
          ELSE Refreshed(g, Planned(e), timeValid)
  BY DEF FiredOff
<1> HIDE DEF g, r
<1>3. /\ e.item # NoItem /\ e.item \in Sound /\ e.runs \in Nat
      /\ e = [item |-> e.item, status |-> e.status, next |-> e.next, last |-> e.last,
              runs |-> e.runs]
  BY EntryFields DEF AsFired
<1>4. g = [item |-> e.item, status |-> "running", next |-> e.next,
           last |-> held.call.now, runs |-> e.runs + 1]
  BY <1>1, <1>3
<1>5. g \in Working /\ Planned(e) \in Nat
  BY <1>3, <1>4, EntryFields DEF Working, Planned
<1>6. f.of.kind = e.item.kind /\ \A runs : Used(f.of, runs) <=> Used(e.item, runs)
  BY <1>3, AsFiredFields
<1>7. CASE e.item.kind = "once"
  <2>1. r = [g EXCEPT !.next = -1, !.status = "completed"]
    BY <1>2, <1>7
  <2>2. r.item = e.item /\ r.next = -1 /\ r.last = held.call.now /\ r.runs = e.runs + 1
    BY <1>4, <2>1
  <2> QED BY <2>2 DEF Accounts, Aim, r
<1>8. CASE e.item.kind # "once"
  <2>1. /\ r.runs = e.runs + 1 /\ r.item = e.item
        /\ r.next > 0 => ~Used(e.item, e.runs + 1)
        /\ Aim(r)
    BY <1>2, <1>4, <1>5, <1>8, RefreshedTimes, RefreshedType
  <2> QED BY <1>6, <1>8, <2>1 DEF Accounts, r
<1> QED BY <1>7, <1>8

-----------------------------------------------------------------------------
(* Time, and what is due.                                                  *)

\* No call has read a time to come.
NowInv ==
  /\ 0 < wall /\ up <= wall
  /\ \A u \in Tasks : calls[u] # NoCall => calls[u].now <= wall
  /\ held # NoCall => held.call.now <= wall
  /\ calls[Clock] # NoCall => clockSet

\* Whoever keeps the calls, or answers one, while time goes on.
LEMMA NowStill ==
  ASSUME NowInv, wall' \in Nat, wall \in Nat, up' \in Nat, wall <= wall', up' <= wall',
         \A u \in Tasks : calls'[u] = calls[u] \/ calls'[u] = NoCall,
         clockSet => clockSet' \/ calls'[Clock] = NoCall,
         held' # NoCall => held'.call.now \in Nat /\ held'.call.now <= wall,
         \A u \in Tasks : calls[u] # NoCall => calls[u].now \in Nat
  PROVE  NowInv'
<1>1. Clock \in Tasks
  BY DEF Tasks
<1> QED BY <1>1 DEF NowInv

\* A call that is begun by a task reads the clock as it is.
LEMMA NowBegin ==
  ASSUME TypeOK, NowInv, NEW u \in Tasks, NEW kind, NEW id, NEW item,
         Begin(u, kind, id, item), u = Clock => clockSet
  PROVE  NowInv'
<1>1. Now \in Nat /\ Now <= wall /\ wall \in Nat
  BY NowType DEF Now, NowInv, TypeOK
<1>2. calls' = [calls EXCEPT ![u] = [kind |-> kind, id |-> id, item |-> item,
                                     now |-> IF kind \in ReadFirst THEN Now ELSE 0]]
  BY DEF Begin
<1>3. calls'[u].now <= wall /\ \A v \in Tasks : v # u => calls'[v] = calls[v]
  BY <1>1, <1>2 DEF TypeOK
<1>4. UNCHANGED <<wall, up, clockSet, held>> /\ Clock \in Tasks
  BY DEF Begin, Tasks
<1> QED BY <1>3, <1>4 DEF NowInv

LEMMA NowStep ==
  ASSUME TypeInv, NowInv, [Next]_vars
  PROVE  NowInv'
<1> USE DEF TypeInv
<1>0. /\ wall \in Nat /\ up \in Nat /\ Clock \in Tasks /\ Now \in Nat /\ Now <= wall
      /\ clockSet \in BOOLEAN
      /\ \A u \in Tasks : calls[u] # NoCall => calls[u] \in Call
      /\ \A u \in Tasks : calls[u] # NoCall => calls[u].now \in Nat
  BY NowType, CallType DEF TypeOK, Tasks, Now, NowInv
<1>1. held # NoCall => held \in Holding /\ held.call \in Call /\ held.call.now \in Nat
  BY HeldType
\* Time as it was, and a holder that reads no new time.
<1>2. ASSUME UNCHANGED time, \A u \in Tasks : calls'[u] = calls[u] \/ calls'[u] = NoCall,
             held' # NoCall => held'.call.now \in Nat /\ held'.call.now <= wall
      PROVE  NowInv'
  BY <1>0, <1>2, NowStill DEF NowInv, time
<1>3. ASSUME NEW u \in Users, AskFor(u) PROVE NowInv'
  <2>1. u \in Tasks /\ u # Clock
    BY TaskAssumption DEF Tasks
  <2>2. PICK kind, id, item : Begin(u, kind, id, item)
    BY <1>3 DEF AskFor, Ask
  <2> QED BY <2>1, <2>2, NowBegin
<1>4. CASE NotifySync \/ Wake
  <2>1. Task \in Tasks /\ Task # Clock
    BY TaskAssumption DEF Tasks
  <2> QED BY <1>0, <1>4, <2>1, NowBegin DEF NotifySync, Wake
<1>5. ASSUME NEW u \in Tasks, NEW stage, NEW prev, NEW todo, NEW now \in Nat, now <= wall,
             calls[u] # NoCall, Hold(u, stage, prev, todo, now), calls' = calls, UNCHANGED time
      PROVE  NowInv'
  <2>1. held'.call.now = now
    <3>1. PICK c : c = [calls[u] EXCEPT !.now = now]
      OBVIOUS
    <3>2. c.now = now
      <4>1. calls[u] \in Call
        BY <1>0, <1>5
      <4>2. \A n \in Nat : [calls[u] EXCEPT !.now = n].now = n
        BY <4>1 DEF Call
      <4> QED BY <1>5, <3>1, <4>2
    <3> QED BY <1>5, <3>1, <3>2 DEF Hold
  <2> QED BY <1>2, <1>5, <2>1
<1>6. ASSUME NEW u \in Users, Refuse(u) \/ Change(u) \/ Trigger(u) \/ Reload(u) PROVE NowInv'
  <2>1. u \in Tasks /\ calls[u] # NoCall /\ calls[u].now <= wall
    BY <1>6 DEF Tasks, Refuse, Change, Trigger, Reload, NowInv
  <2>2. CASE Refuse(u)
    BY <1>0, <1>1, <1>2, <2>1, <2>2 DEF Refuse, NowInv, TypeOK
  <2>3. CASE Change(u)
    BY <1>0, <1>5, <2>1, <2>3 DEF Change
  <2>4. CASE Trigger(u)
    BY <1>0, <1>5, <2>1, <2>4 DEF Trigger
  <2>5. CASE Reload(u)
    BY <1>0, <1>5, <2>1, <2>5 DEF Reload
  <2> QED BY <1>6, <2>2, <2>3, <2>4, <2>5
<1>7. CASE Sync
  BY <1>0, <1>5, <1>7 DEF Sync
<1>8. CASE Look
  <2>1. Task \in Tasks /\ calls[Task] # NoCall /\ calls[Task].now <= wall /\ UNCHANGED time
    BY <1>8 DEF Look, Tasks, NowInv
  <2>2. CASE Due(calls[Task].now) = {}
    BY <1>0, <1>1, <1>2, <1>8, <2>1, <2>2 DEF Look, NowInv, TypeOK
  <2>3. CASE Due(calls[Task].now) # {}
    BY <1>0, <1>5, <1>8, <2>1, <2>3 DEF Look
  <2> QED BY <2>2, <2>3
<1>9. ASSUME NEW i \in Ids, Publish(i) \/ PublishFails(i) \/ Miss(i) PROVE NowInv'
  <2>1. Handled(i) /\ held # NoCall
    BY <1>9 DEF Publish, PublishFails, Miss, Handled, At
  <2>2. held'.call = held.call
    BY <1>1, <2>1 DEF Handled, Holding
  <2> QED BY <1>1, <1>2, <2>1, <2>2 DEF Handled, NowInv
<1>10. ASSUME held # NoCall, NEW stage \in Stages, Goto(stage), calls' = calls, UNCHANGED time
       PROVE  NowInv'
  <2>1. held'.call = held.call
    BY <1>10, GotoType
  <2> QED BY <1>1, <1>2, <1>10, <2>1 DEF NowInv
<1>11. ASSUME Release, UNCHANGED time PROVE NowInv'
  BY <1>2, <1>11 DEF Release
<1>12. {"merge", "state", "defs"} \subseteq Stages
  BY DEF Stages
<1>13. CASE SaveDefinitions \/ SaveDefinitionsFails \/ SaveState \/ SaveStateFails
  <2>1. held # NoCall /\ UNCHANGED time
    BY <1>13 DEF SaveDefinitions, SaveDefinitionsFails, SaveState, SaveStateFails, At
  <2>2. \/ Goto("merge") /\ calls' = calls
        \/ Goto("state") /\ calls' = calls
        \/ Release
    BY <1>13 DEF SaveDefinitions, SaveDefinitionsFails, SaveState, SaveStateFails
  <2> QED BY <1>10, <1>11, <1>12, <2>1, <2>2
<1>14. ASSUME NEW stage, Restarted(stage) PROVE held'.call.now = 0
  BY <1>14 DEF Restarted
<1>15. CASE LoadDefinitions \/ LoadDefinitionsFails \/ LoadState \/ LoadStateFails
  <2>1. held # NoCall /\ UNCHANGED time
    BY <1>15 DEF LoadDefinitions, LoadDefinitionsFails, LoadState, LoadStateFails, At
  <2>2. \/ Goto("defs") /\ calls' = calls
        \/ Goto("state") /\ calls' = calls
        \/ Restarted("load") /\ calls' = calls
        \/ Release
    BY <1>15 DEF LoadDefinitions, LoadDefinitionsFails, LoadState, LoadStateFails
  <2>3. ASSUME Restarted("load"), calls' = calls PROVE NowInv'
    BY <1>0, <1>2, <1>14, <2>1, <2>3
  <2> QED BY <1>10, <1>11, <1>12, <2>1, <2>2, <2>3
<1>16. CASE TimePasses
  BY <1>0, <1>1, <1>16, NowStill DEF TimePasses, NowInv
<1>17. CASE SetClock
  BY <1>0, <1>1, <1>17, NowStill DEF SetClock, NowInv
<1>18. ASSUME NEW soft \in BOOLEAN, Restart(soft) PROVE NowInv'
  <2>1. /\ wall' = wall /\ up' \in {0, 1} /\ held'.call.now = 0
        /\ \A u \in Tasks : calls'[u] = NoCall
    BY <1>14, <1>18 DEF Restart
  <2> QED BY <1>0, <2>1 DEF NowInv
<1>19. CASE UNCHANGED vars
  BY <1>1, <1>2, <1>19 DEF vars, NowInv, time
<1> QED BY <1>3, <1>4, <1>6, <1>7, <1>8, <1>9, <1>13, <1>15, <1>16, <1>17, <1>18, <1>19, NextCases

\* What the task is about to fire is due; what is triggered was not fired later,
\* unless the clock went back.
DueInv ==
  At("publish") =>
    /\ held.call.kind \in {"tick", "trigger"}
    /\ ~Immediate => \A i \in held.todo :
         /\ 0 < entries[i].next /\ entries[i].next <= held.call.now
         /\ entries[i].status # "paused"
    /\ Immediate /\ "stale" \notin mishaps =>
         \A i \in held.todo : entries[i].last <= held.call.now

LEMMA MishapsGrow ==
  ASSUME TypeInv, [Next]_vars
  PROVE  /\ \A what \in {"stale", "astray", "unsaved", "lost"} :
              what \in mishaps => what \in mishaps'
         /\ Clean' => Clean
<1>1. \A what \in {"stale", "astray", "unsaved", "lost"} : what \in mishaps => what \in mishaps'
  <2>1. ASSUME mishaps' = mishaps \/ \E what : Mishap(what) \/ mishaps \subseteq mishaps'
        PROVE  \A what \in {"stale", "astray", "unsaved", "lost"} :
                 what \in mishaps => what \in mishaps'
    BY <2>1 DEF Mishap
  <2>2. ASSUME NEW u \in Users, AskFor(u) \/ Refuse(u) \/ Change(u) \/ Trigger(u) \/ Reload(u)
        PROVE  mishaps \subseteq mishaps'
    BY <2>2 DEF AskFor, Ask, Begin, Refuse, Change, Trigger, Reload, Mishap, history
  <2>3. ASSUME NotifySync \/ Sync \/ Wake \/ Look \/ TimePasses \/ SetClock \/ UNCHANGED vars
        PROVE  mishaps \subseteq mishaps'
    BY <2>3 DEF NotifySync, Sync, Wake, Look, Begin, TimePasses, SetClock, vars, history
  <2>4. ASSUME NEW i \in Ids, Publish(i) \/ PublishFails(i) \/ Miss(i)
        PROVE  mishaps \subseteq mishaps'
    BY <2>4 DEF Publish, PublishFails, Miss, Mishap
  <2>5. CASE SaveDefinitions
    BY <2>5 DEF SaveDefinitions
  <2>6. ASSUME \/ SaveDefinitionsFails \/ SaveState \/ SaveStateFails \/ LoadDefinitions
               \/ LoadDefinitionsFails \/ LoadState \/ LoadStateFails
        PROVE  mishaps \subseteq mishaps'
    BY <2>6 DEF SaveDefinitionsFails, SaveState, SaveStateFails, LoadDefinitions,
       LoadDefinitionsFails, LoadState, LoadStateFails, Mishap, history
  <2>7. ASSUME NEW soft \in BOOLEAN, Restart(soft) PROVE mishaps \subseteq mishaps'
    BY <2>7 DEF Restart
  <2> QED BY <2>1, <2>2, <2>3, <2>4, <2>5, <2>6, <2>7, NextCases
<1> QED BY <1>1 DEF Clean

LEMMA DueStep ==
  ASSUME TypeInv, KindsInv, StageInv, DueInv, [Next]_vars
  PROVE  DueInv'
<1> USE DEF TypeInv
<1>1. CASE UNCHANGED <<memory, files, held, history>>
  BY <1>1 DEF DueInv, At, Immediate, memory, history
<1>2. ASSUME ~At("publish")' PROVE DueInv'
  BY <1>2 DEF DueInv
<1>3. ASSUME NEW u \in Users, Change(u) PROVE DueInv'
  BY <1>2, <1>3, ChangeCall DEF At, FirstSave
<1>4. ASSUME NEW u \in Users, Reload(u) PROVE DueInv'
  BY <1>2, <1>4, ReloadCall DEF At
<1>5. ASSUME NEW u \in Users, Trigger(u) PROVE DueInv'
  <2>1. /\ held'.call.kind = "trigger" /\ held'.todo = {calls[u].id}
        /\ entries' = entries /\ Hold(u, "publish", Free, {calls[u].id}, Now)
    BY <1>5, TriggerCall DEF Trigger, memory
  <2>2. u \in Tasks /\ calls[u] # NoCall /\ calls[u].id \in Ids
    BY <1>5, CallType DEF Trigger, Tasks, TypeOK
  <2>3. held'.call.now = Now
    <3>1. calls[u] \in Call /\ Now \in Nat
      BY <2>2, NowType DEF TypeOK
    <3>2. \A n \in Nat : [calls[u] EXCEPT !.now = n].now = n
      BY <3>1 DEF Call
    <3>3. PICK n \in Nat : n = Now
      BY <3>1
    <3> QED BY <2>1, <3>2, <3>3 DEF Hold
  <2>4. "stale" \notin mishaps' => entries[calls[u].id].last <= Now
    <3>1. entries[calls[u].id].last \in Nat /\ Now \in Nat
      BY <2>2, NowType DEF TypeOK, Entry
    <3> QED BY <1>5, <3>1 DEF Trigger, Mishap
  <2> QED BY <2>1, <2>3, <2>4 DEF DueInv, Immediate
<1>6. CASE Sync
  BY <1>2, <1>6, SyncCall DEF At
<1>7. CASE Look
  <2>1. CASE held' = held /\ held = NoCall
    BY <1>2, <2>1 DEF At
  <2>2. CASE held' # NoCall
    <3>1. held'.call.kind = "tick" /\ held'.todo = Due(calls[Task].now) /\ entries' = entries
      BY <1>7, <2>2, LookCall DEF Look, KindsInv, memory, MutexFree
    <3>2. held'.call.now = calls[Task].now
      <4>1. Task \in Tasks /\ calls[Task] \in Call
        BY <1>7 DEF Look, Tasks, TypeOK
      <4>2. PICK n \in Nat : n = calls[Task].now
        BY <4>1, CallType
      <4>3. \A m \in Nat : [calls[Task] EXCEPT !.now = m].now = m
        BY <4>1 DEF Call
      <4>4. Hold(Task, "publish", Free, Due(calls[Task].now), calls[Task].now)
        BY <1>7, <2>2 DEF Look, MutexFree
      <4> QED BY <4>2, <4>3, <4>4 DEF Hold
    <3>3. \A i \in Due(calls[Task].now) :
            /\ 0 < entries[i].next /\ entries[i].next <= calls[Task].now
            /\ entries[i].status # "paused"
      BY DEF Due
    <3> HIDE DEF Due
    <3> QED BY <3>1, <3>2, <3>3 DEF DueInv, Immediate
  <2> QED BY <1>7, <2>1, <2>2, LookCall, CallAssumption
<1>8. ASSUME NEW i \in Ids, Publish(i) \/ PublishFails(i) \/ Miss(i) PROVE DueInv'
  <2>1. Handled(i) /\ held \in Holding /\ At("publish")
    BY <1>8, HeldType DEF Publish, PublishFails, Miss, Handled, At
  <2>2. /\ held'.call = held.call /\ held'.todo = held.todo \ {i} /\ held.todo \subseteq Ids
    BY <2>1 DEF Handled, Holding
  <2>3. \A j \in Ids : j # i => entries'[j] = entries[j]
    BY <1>8, FireEntry DEF TypeOK
  <2>4. "stale" \in mishaps => "stale" \in mishaps'
    BY MishapsGrow
  <2> QED BY <2>1, <2>2, <2>3, <2>4 DEF DueInv, Immediate
<1>9. ASSUME held # NoCall, NEW stage \in {"defs", "merge", "state"}, Goto(stage) PROVE DueInv'
  <2>1. held'.stage = stage
    BY <1>9, GotoType DEF Stages
  <2> QED BY <1>2, <2>1 DEF At
<1>10. CASE \/ SaveDefinitions \/ SaveDefinitionsFails \/ SaveState \/ SaveStateFails
            \/ LoadDefinitions \/ LoadDefinitionsFails \/ LoadState \/ LoadStateFails
  <2>1. held # NoCall
    BY <1>10 DEF SaveDefinitions, SaveDefinitionsFails, SaveState, SaveStateFails,
       LoadDefinitions, LoadDefinitionsFails, LoadState, LoadStateFails, At
  <2>2. \/ Goto("merge") \/ Goto("state") \/ Goto("defs") \/ Restarted("load") \/ Release
    BY <1>10 DEF SaveDefinitions, SaveDefinitionsFails, SaveState, SaveStateFails,
       LoadDefinitions, LoadDefinitionsFails, LoadState, LoadStateFails
  <2>3. Restarted("load") \/ Release => ~At("publish")'
    BY DEF Restarted, Release, At
  <2> QED BY <1>2, <1>9, <2>1, <2>2, <2>3
<1>11. ASSUME NEW soft \in BOOLEAN, Restart(soft) PROVE DueInv'
  BY <1>2, <1>11 DEF Restart, Restarted, At
<1> QED BY <1>1, <1>3, <1>4, <1>5, <1>6, <1>7, <1>8, <1>10, <1>11, NextCases, StillCases

\* Every entry aims at its own time, also one that a change may be undone to,
\* unless a failed trigger set a paused schedule going.
AimInv ==
  "astray" \notin mishaps =>
    /\ \A i \in Ids : Aim(entries[i])
    /\ held # NoCall => Aim(held.prev)

LEMMA AimUndone ==
  ASSUME TypeOK, held # NoCall, Aim(held.prev), \A i \in Ids : Aim(entries[i])
  PROVE  \A i \in Ids : Aim(Undone[i])
BY DEF Undone, TypeOK

LEMMA AimStep ==
  ASSUME TypeInv, StageInv, AimInv, [Next]_vars
  PROVE  AimInv'
<1> USE DEF TypeInv
<1> SUFFICES ASSUME "astray" \notin mishaps'
             PROVE  /\ \A i \in Ids : Aim(entries'[i])
                    /\ held' # NoCall => Aim(held'.prev)
  BY DEF AimInv, Aim
<1>0. /\ "astray" \notin mishaps /\ timeValid \in BOOLEAN /\ Now \in Nat
      /\ \A i \in Ids : Aim(entries[i])
      /\ held # NoCall => Aim(held.prev)
  BY MishapsGrow, NowType DEF AimInv, TypeOK
<1>1. CASE UNCHANGED <<memory, files, held, history>>
  BY <1>0, <1>1 DEF memory
<1>2. ASSUME NEW u \in Users, Change(u)
      PROVE  (\A i \in Ids : Aim(entries'[i])) /\ (held' # NoCall => Aim(held'.prev))
  <2>1. /\ calls[u] \in Call /\ calls[u].kind \in Changes /\ calls[u].id \in Ids
        /\ entries[calls[u].id] \in Entry
        /\ calls[u].kind # "add" => entries[calls[u].id].item # NoItem
        /\ held'.prev = entries[calls[u].id]
    BY <1>2, ChangeCall
  <2>2. Aim(Changed(entries[calls[u].id], calls[u]))
    BY <1>0, <2>1, AimChanged
  <2>3. entries' = [entries EXCEPT ![calls[u].id] = Changed(entries[calls[u].id], calls[u])]
    BY <1>2 DEF Change
  <2> QED BY <1>0, <2>1, <2>2, <2>3 DEF TypeOK
<1>3. ASSUME NEW u \in Users, Trigger(u) \/ Reload(u)
      PROVE  (\A i \in Ids : Aim(entries'[i])) /\ (held' # NoCall => Aim(held'.prev))
  <2>1. entries' = entries /\ held'.prev = Free
    BY <1>3, TriggerCall, ReloadCall DEF Trigger, Reload, memory
  <2> QED BY <1>0, <2>1, AimFree
<1>4. CASE Look
  <2>1. entries' = entries /\ (held' = held \/ held'.prev = Free)
    BY <1>4, LookCall DEF Look, memory
  <2> QED BY <1>0, <2>1, AimFree
<1>5. CASE Sync
  <2>1. held'.prev = Free
    BY <1>5, SyncCall
  <2>2. ASSUME NEW i \in Ids PROVE Aim(entries'[i])
    <3>1. CASE Occupied(i)
      <4>1. entries'[i] = Synced(entries[i])
        BY <1>5, <3>1 DEF Sync
      <4>2. entries[i] \in Entry /\ entries[i].item # NoItem
        BY <3>1 DEF Occupied, TypeOK
      <4>3. PICK f \in Working : Synced(entries[i]) = IF f.status = "paused" THEN f
                                                     ELSE Refreshed(f, Now, TRUE)
        <5> DEFINE e == entries[i]
        <5>1. PICK g : g = [e EXCEPT !.last = 0, !.next = -1]
          OBVIOUS
        <5>2. /\ e.item \in Sound
              /\ e = [item |-> e.item, status |-> e.status, next |-> e.next, last |-> e.last,
                      runs |-> e.runs]
          BY <4>2, EntryFields
        <5>3. g = [item |-> e.item, status |-> e.status, next |-> -1, last |-> 0, runs |-> e.runs]
          BY <5>1, <5>2
        <5>4. g \in Working /\ e \in Working
          BY <4>2, <5>2, <5>3, EntryFields DEF Working
        <5>5. Synced(e) =
                LET f == IF ~timeValid /\ e.item.kind = "interval" /\ ~NeedsTime(e.item) THEN g ELSE e
                IN IF f.status = "paused" THEN f ELSE Refreshed(f, Now, TRUE)
          BY <5>1 DEF Synced
        <5>6. CASE ~timeValid /\ e.item.kind = "interval" /\ ~NeedsTime(e.item)
          BY <5>4, <5>5, <5>6
        <5>7. CASE ~(~timeValid /\ e.item.kind = "interval" /\ ~NeedsTime(e.item))
          BY <5>4, <5>5, <5>7
        <5> QED BY <5>6, <5>7
      <4>4. CASE f.status = "paused"
        BY <4>1, <4>3, <4>4 DEF Aim
      <4>5. CASE f.status # "paused"
        BY <1>0, <4>1, <4>3, <4>5, RefreshedTimes
      <4> QED BY <4>4, <4>5
    <3>2. CASE ~Occupied(i)
      BY <1>5, <3>2, AimFree DEF Sync
    <3> QED BY <3>1, <3>2
  <2> QED BY <2>1, <2>2, AimFree
<1>6. ASSUME NEW i \in Ids, Publish(i) \/ PublishFails(i) \/ Miss(i)
      PROVE  (\A j \in Ids : Aim(entries'[j])) /\ (held' # NoCall => Aim(held'.prev))
  <2>1. Handled(i) /\ held # NoCall /\ held \in Holding
    BY <1>6, HeldType DEF Publish, PublishFails, Miss, Handled, At
  <2>2. held'.prev = held.prev
    BY <2>1 DEF Handled, Holding
  <2>3. /\ entries[i] \in Entry /\ entries[i].item # NoItem
        /\ entries' = [entries EXCEPT ![i] = entries'[i]]
    BY <1>6, FireEntry
  <2>4. Aim(entries'[i])
    <3>1. CASE Publish(i)
      <4> DEFINE f == [of |-> [entries[i].item EXCEPT !.on = TRUE], times |-> 0]
      <4>1. PICK e \in Entry : e = entries[i]
        BY <2>3
      <4>2. entries'[i] = FiredOff(e)
        BY <2>3, <3>1, <4>1 DEF Publish, TypeOK
      <4>3. AsFired(f, e.item) /\ f.times \in Nat /\ f.times <= e.runs + 1
        BY <2>3, <4>1, EntryFields DEF AsFired
      <4>4. held.call.now \in Nat
        BY <2>1, HeldType
      <4>5. PICK h : h = f
        OBVIOUS
      <4> HIDE DEF f
      <4> QED BY <1>0, <4>2, <4>3, <4>4, <4>5, AccountsFired
    <3>2. CASE PublishFails(i)
      <4>1. entries[i].status # "paused"
        BY <3>2 DEF PublishFails, Mishap
      <4>2. entries'[i] = [entries[i] EXCEPT !.status = "error", !.last = held.call.now]
        BY <3>2 DEF PublishFails, TypeOK
      <4>3. entries'[i].item = entries[i].item /\ entries'[i].next = entries[i].next
        BY <2>3, <4>2, EntryFields
      <4> QED BY <1>0, <4>1, <4>3 DEF Aim
    <3>3. CASE Miss(i)
      <4>1. entries'[i] = Refreshed(entries[i], held.call.now, timeValid)
        BY <3>3 DEF Miss, TypeOK
      <4>2. entries[i] \in Working /\ held.call.now \in Nat
        BY <2>1, <2>3, EntryFields, HeldType DEF Working
      <4> QED BY <1>0, <4>1, <4>2, RefreshedTimes
    <3> QED BY <1>6, <3>1, <3>2, <3>3
  <2> QED BY <1>0, <2>1, <2>2, <2>3, <2>4 DEF TypeOK
<1>7. ASSUME held # NoCall, NEW stage \in Stages, Goto(stage) PROVE Aim(held'.prev)
  BY <1>0, <1>7, GotoType
<1>8. {"merge", "state", "defs"} \subseteq Stages
  BY DEF Stages
<1>9. CASE SaveDefinitions \/ SaveDefinitionsFails \/ SaveState \/ SaveStateFails
  <2>1. held # NoCall
    BY <1>9 DEF SaveDefinitions, SaveDefinitionsFails, SaveState, SaveStateFails, At
  <2>2. \/ Goto("merge") \/ Goto("state") \/ held' = NoCall
    BY <1>9 DEF SaveDefinitions, SaveDefinitionsFails, SaveState, SaveStateFails, Release
  <2>3. entries' = entries \/ entries' = Undone
    BY <1>9 DEF SaveDefinitions, SaveDefinitionsFails, SaveState, SaveStateFails, memory
  <2> QED BY <1>0, <1>7, <1>8, <2>1, <2>2, <2>3, AimUndone
<1>10. CASE LoadDefinitionsFails
  <2>1. entries' = entries /\ (held' = NoCall \/ held'.prev = Free)
    BY <1>10 DEF LoadDefinitionsFails, Restarted, Release, memory
  <2> QED BY <1>0, <2>1, AimFree
<1>11. CASE LoadDefinitions
  <2>1. held # NoCall /\ Goto("defs")
    BY <1>11 DEF LoadDefinitions, At
  <2>2. ASSUME NEW i \in Ids PROVE Aim(entries'[i])
    <3>1. PICK item \in Sound \cup {NoItem} : entries'[i] = Fresh(item)
      BY <1>11 DEF LoadDefinitions, TypeOK
    <3>2. ~(entries'[i].next > 0)
      BY <3>1 DEF Fresh, Free
    <3> QED BY <3>2 DEF Aim
  <2> QED BY <1>7, <1>8, <2>1, <2>2
<1>12. CASE LoadState \/ LoadStateFails
  <2>1. held # NoCall /\ Goto("state")
    BY <1>12 DEF LoadState, LoadStateFails, At
  <2>2. ASSUME NEW i \in Ids PROVE Aim(entries'[i])
    <3>1. PICK e \in Entry : entries'[i] = Reanchored(e, Now)
      <4>1. entries[i] \in Entry /\ (blob # Missing => blob[i] \in RunState \cup {NoRun})
        BY DEF TypeOK
      <4>2. blob # Missing => Merged(entries[i], blob[i]) \in Entry
        BY <4>1, MergedType
      <4> QED BY <1>12, <4>1, <4>2 DEF LoadState, LoadStateFails
    <3> QED BY <1>0, <3>1, AimReanchored
  <2> QED BY <1>7, <1>8, <2>1, <2>2
<1>13. ASSUME NEW soft \in BOOLEAN, Restart(soft)
       PROVE  (\A i \in Ids : Aim(entries'[i])) /\ (held' # NoCall => Aim(held'.prev))
  BY <1>13, AimFree DEF Restart, Restarted, Empty
<1> QED BY <1>1, <1>2, <1>3, <1>4, <1>5, <1>6, <1>9, <1>10, <1>11, <1>12, <1>13, NextCases,
           StillCases

-----------------------------------------------------------------------------
(* What a restart will find.                                               *)

Starting == At("load") /\ Booting

\* What the definitions file says.
Written == IF defs = Missing THEN [i \in Ids |-> NoItem] ELSE defs

\* As long as every write that failed was undone, the definitions file is garbled
\* or says what the table says, before the change that is being saved.
SavedInv ==
  "unsaved" \notin mishaps /\ ~Starting =>
    \/ defs = Garbled
    \/ \A i \in Ids : Written[i] = IF At("defs") THEN Undone[i].item ELSE entries[i].item

LEMMA SavedStill ==
  ASSUME SavedInv, defs' = defs, ~At("defs"), ~Starting, ~At("defs")',
         \A i \in Ids : entries'[i].item = entries[i].item,
         "unsaved" \notin mishaps
  PROVE  SavedInv'
BY DEF SavedInv, Written

\* Fired entries, time syncs and merges keep the items; so do a pause and its end.
LEMMA ItemsStep ==
  ASSUME TypeInv, Sync \/ LoadState \/ LoadStateFails
                    \/ \E i \in Ids : Publish(i) \/ PublishFails(i) \/ Miss(i)
  PROVE  \A i \in Ids : entries'[i].item = entries[i].item
<1> USE DEF TypeInv
<1>1. CASE Sync
  <2> SUFFICES ASSUME NEW i \in Ids PROVE entries'[i].item = entries[i].item
    OBVIOUS
  <2>1. CASE Occupied(i)
    <3>1. entries[i] \in Entry /\ entries[i].item # NoItem /\ Now \in Nat
      BY <2>1, NowType DEF TypeOK, Occupied
    <3>2. entries'[i] = Synced(entries[i])
      BY <1>1, <2>1 DEF Sync
    <3> QED BY <3>1, <3>2, SyncedType
  <2>2. CASE ~Occupied(i)
    BY <1>1, <2>2, AbsentItem DEF Sync, Occupied
  <2> QED BY <2>1, <2>2
<1>2. CASE LoadState \/ LoadStateFails
  BY <1>2, MergeStepType
<1>3. ASSUME NEW i \in Ids, Publish(i) \/ PublishFails(i) \/ Miss(i)
      PROVE  \A j \in Ids : entries'[j].item = entries[j].item
  BY <1>3, FireEntry DEF TypeOK
<1> QED BY <1>1, <1>2, <1>3

LEMMA SavedStep ==
  ASSUME TypeInv, KindsInv, StageInv, SavedInv, [Next]_vars
  PROVE  SavedInv'
<1> USE DEF TypeInv
<1> SUFFICES ASSUME "unsaved" \notin mishaps' PROVE SavedInv'
  BY DEF SavedInv
<1>0. "unsaved" \notin mishaps
  BY MishapsGrow
<1>1. CASE UNCHANGED <<memory, files, held, history>>
  BY <1>0, <1>1 DEF SavedInv, Starting, Booting, At, Written, Undone, memory, files, history
<1>2. ASSUME NEW u \in Users, Change(u) PROVE SavedInv'
  <2>1. /\ calls[u] \in Call /\ entries[calls[u].id] \in Entry /\ calls[u].id \in Ids
        /\ calls[u].kind # "add" => entries[calls[u].id].item # NoItem
        /\ calls[u].kind \in Changes
        /\ held' \in Holding /\ held'.stage = FirstSave(calls[u].kind) /\ held = NoCall
        /\ held'.prev = entries[calls[u].id]
        /\ held'.call.kind = calls[u].kind /\ held'.call.id = calls[u].id
    BY <1>2, ChangeCall
  <2>2. CASE calls[u].kind \in {"pause", "resume"}
    <3>1. Changed(entries[calls[u].id], calls[u]).item = entries[calls[u].id].item
      BY <2>1, <2>2, ChangedType DEF TypeOK, Changes
    <3>2. \A i \in Ids : entries'[i].item = entries[i].item
      BY <1>2, <2>1, <3>1 DEF Change, TypeOK
    <3>3. held'.stage = "state"
      BY <2>1, <2>2 DEF FirstSave
    <3> QED BY <1>0, <1>2, <2>1, <3>2, <3>3, SavedStill DEF Change, At, Starting, files
  <2>3. CASE calls[u].kind \notin {"pause", "resume"}
    <3>1. At("defs")'
      BY <2>1, <2>3, CallAssumption DEF At, FirstSave
    <3>2. \A i \in Ids : Undone'[i] = entries[i]
      <4>1. Undone' = [entries' EXCEPT ![calls[u].id] = entries[calls[u].id]]
        BY <2>1 DEF Undone, Changes
      <4>2. entries' = [entries EXCEPT ![calls[u].id] = Changed(@, calls[u])]
        BY <1>2 DEF Change
      <4> QED BY <2>1, <4>1, <4>2 DEF TypeOK
    <3>3. defs = Garbled \/ \A i \in Ids : Written[i] = entries[i].item
      BY <1>0, <2>1 DEF SavedInv, At, Starting
    <3>4. defs' = defs /\ Written' = Written
      BY <1>2 DEF Change, files, Written
    <3> QED BY <3>1, <3>2, <3>3, <3>4 DEF SavedInv
  <2> QED BY <2>2, <2>3
<1>3. ASSUME NEW u \in Users, Trigger(u) \/ Reload(u) PROVE SavedInv'
  <2>1. /\ held' \in Holding /\ held'.stage \in {"publish", "load"} /\ held = NoCall
        /\ UNCHANGED <<memory, files>>
    BY <1>3, TriggerCall, ReloadCall DEF Trigger, Reload, MutexFree
  <2> QED BY <1>0, <2>1, SavedStill DEF At, Starting, memory, files
<1>4. CASE Look
  <2>1. /\ held = NoCall /\ UNCHANGED <<memory, files>>
        /\ held' = NoCall \/ held'.stage = "publish"
    BY <1>4, LookCall DEF Look, MutexFree
  <2> QED BY <1>0, <2>1, SavedStill DEF At, Starting, memory, files
<1>5. CASE Sync
  <2>1. held = NoCall /\ held'.stage = "state" /\ UNCHANGED files
    BY <1>5, SyncCall DEF Sync
  <2> QED BY <1>0, <1>5, <2>1, ItemsStep, SavedStill DEF At, Starting, files
<1>6. ASSUME NEW i \in Ids, Publish(i) \/ PublishFails(i) \/ Miss(i) PROVE SavedInv'
  <2>1. Handled(i) /\ held # NoCall /\ held \in Holding /\ held.stage = "publish"
    BY <1>6, HeldType DEF Publish, PublishFails, Miss, Handled, At
  <2>2. held'.stage \in {"publish", "state"} /\ UNCHANGED files
    BY <2>1 DEF Handled, Holding
  <2> QED BY <1>0, <1>6, <2>1, <2>2, ItemsStep, SavedStill DEF At, Starting, files
<1>7. CASE SaveDefinitions
  <2>1. /\ defs' = Definitions(entries) /\ entries' = entries /\ held # NoCall
        /\ defs' \in [Ids -> Sound \cup {NoItem}]
    BY <1>7, StateType DEF SaveDefinitions, memory, TypeOK, At
  <2>2. defs' # Missing
    BY <2>1, AbsentAssumption
  <2>3. ~At("defs")'
    <3>1. Goto("merge") \/ Goto("state")
      BY <1>7 DEF SaveDefinitions
    <3> QED BY <2>1, <3>1, GotoType DEF At, Stages
  <2> QED BY <2>1, <2>2, <2>3 DEF SavedInv, Written, Definitions
<1>8. CASE SaveDefinitionsFails
  <2>1. /\ defs' \in {defs, Garbled} /\ entries' = Undone /\ At("defs") /\ held # NoCall
    BY <1>8 DEF SaveDefinitionsFails, At
  <2>2. ~At("defs")'
    <3>1. Goto("merge") \/ held' = NoCall
      BY <1>8 DEF SaveDefinitionsFails, Release
    <3> QED BY <2>1, <3>1, GotoType DEF At, Stages
  <2>3. defs = Garbled \/ \A i \in Ids : Written[i] = Undone[i].item
    BY <1>0, <2>1 DEF SavedInv, Starting, At
  <2> QED BY <2>1, <2>2, <2>3 DEF SavedInv, Written
<1>9. CASE SaveState
  BY <1>0, <1>9, SavedStill DEF SaveState, Release, At, Starting, memory
<1>10. CASE SaveStateFails
  BY <1>10 DEF SaveStateFails
<1>11. CASE LoadDefinitions
  <2>1. held # NoCall /\ At("load") /\ defs # Garbled /\ defs' = defs
    BY <1>11 DEF LoadDefinitions, At, files
  <2>2. At("defs")' /\ held'.call.kind = "load"
    <3>1. Goto("defs") /\ held.call.kind = "load"
      BY <1>11, <2>1 DEF LoadDefinitions, At, StageInv, Loading
    <3> QED BY <2>1, <3>1, GotoType DEF At, Stages
  <2>3. Undone' = entries'
    BY <2>2 DEF Undone
  <2>4. \A i \in Ids : entries'[i].item = Written[i]
    BY <1>11, <2>1, LoadedType DEF LoadDefinitions, Written
  <2>5. Written' = Written
    BY <2>1 DEF Written
  <2> QED BY <2>2, <2>3, <2>4, <2>5 DEF SavedInv
<1>12. CASE LoadDefinitionsFails
  <2>1. At("load") /\ UNCHANGED <<memory, files>>
    BY <1>12 DEF LoadDefinitionsFails
  <2>2. CASE Booting
    <3>1. Starting'
      BY <1>12, <2>2, RestartedType, CallAssumption
         DEF LoadDefinitionsFails, Restarted, Starting, At, Booting, Stages
    <3> QED BY <3>1 DEF SavedInv
  <2>3. CASE ~Booting
    BY <1>0, <1>12, <2>1, <2>3, SavedStill
       DEF LoadDefinitionsFails, Release, At, Starting, memory, files
  <2> QED BY <2>2, <2>3
<1>13. CASE LoadState \/ LoadStateFails
  <2>1. held # NoCall /\ held.stage = "merge" /\ UNCHANGED files /\ Goto("state")
    BY <1>13 DEF LoadState, LoadStateFails, At
  <2>2. held'.stage = "state"
    BY <2>1, GotoType DEF Stages
  <2> QED BY <1>0, <1>13, <2>1, <2>2, ItemsStep, SavedStill DEF At, Starting, files
<1>14. ASSUME NEW soft \in BOOLEAN, Restart(soft) PROVE SavedInv'
  <2>1. Starting'
    BY <1>14, RestartedType, CallAssumption
       DEF Restart, Restarted, Starting, At, Booting, Stages
  <2> QED BY <2>1 DEF SavedInv
<1> QED BY <1>1, <1>2, <1>3, <1>4, <1>5, <1>6, <1>7, <1>8, <1>9, <1>10, <1>11, <1>12, <1>13,
           <1>14, NextCases, StillCases

-----------------------------------------------------------------------------
(* How often a definition is fired.                                        *)

\* The task or a trigger has published and not yet saved the state.
Publishing == held # NoCall /\ held.call.kind \in {"tick", "trigger"}

\* The entry may be undone to what it was.
Undoable(i) == held # NoCall /\ held.call.kind \in Changes /\ held.call.id = i

\* The table accounts for the definition that was fired, once it is loaded; so
\* does the saved state, unless a publication is about to be saved; so does what a
\* change may be undone to; and the definitions file, if it can be read, still
\* holds the definition.
CountAt(i) ==
  /\ Within(fired[i], Clean, wall)
  /\ ~Starting => AsFired(fired[i], entries[i].item)
  /\ ~Starting /\ ~Unmerged => Accounts(fired[i], entries[i], Clean)
  /\ ~Publishing =>
       blob # Missing /\ blob[i] # NoRun /\ Accounts(fired[i], blob[i], Clean)
  /\ Undoable(i) => AsFired(fired[i], held.prev.item) /\ Accounts(fired[i], held.prev, Clean)
  /\ defs # Garbled => AsFired(fired[i], Written[i])

CountInv ==
  mishaps \cap {"unsaved", "lost"} = {} =>
    \A i \in Ids : fired[i].times > 0 => CountAt(i)

LEMMA WithinLater ==
  ASSUME NEW f \in Firing, NEW clean \in BOOLEAN, NEW still \in BOOLEAN, still => clean,
         NEW now \in Nat, NEW later \in Nat, now <= later, Within(f, clean, now)
  PROVE  Within(f, still, later)
<1>1. f.of.start \in Nat
  BY DEF Item, Within
<1> QED BY <1>1 DEF Within

LEMMA CountStill ==
  ASSUME NEW i \in Ids, CountAt(i), fired'[i] = fired[i], ~Starting, ~Unmerged, UNCHANGED files,
         Within(fired[i], Clean', wall'),
         \A r : Accounts(fired[i], r, Clean) => Accounts(fired[i], r, Clean'),
         AsFired(fired[i], entries'[i].item), Accounts(fired[i], entries'[i], Clean'),
         Publishing => Publishing',
         Undoable(i)' => /\ AsFired(fired[i], held'.prev.item)
                         /\ Accounts(fired[i], held'.prev, Clean')
  PROVE  CountAt(i)'
BY DEF CountAt, Written, files

\* The first or one more firing by the task.
LEMMA CountFired ==
  ASSUME TypeInv, NowInv, DueInv, AimInv, SavedInv, NEW i \in Ids, Publish(i), ~Immediate,
         mishaps \cap {"unsaved", "lost"} = {}, fired[i].times > 0 => CountAt(i),
         Clean' \in BOOLEAN, Clean' => Clean, StageInv
  PROVE  /\ Within(fired'[i], Clean', wall)
         /\ AsFired(fired'[i], entries'[i].item)
         /\ Accounts(fired'[i], entries'[i], Clean')
         /\ defs # Garbled => AsFired(fired'[i], Written[i])
<1> USE DEF TypeInv
<1> DEFINE e == entries[i]
           now == held.call.now
<1>1. /\ Handled(i) /\ At("publish") /\ held # NoCall /\ i \in held.todo
      /\ now \in Nat /\ now <= wall /\ wall \in Nat /\ timeValid \in BOOLEAN
  BY HeldType DEF Publish, Handled, At, NowInv, TypeOK
<1>2. /\ e \in Entry /\ e.item # NoItem /\ e.item \in Sound /\ e.runs \in Nat /\ e.next \in Int
  BY FireEntry, EntryFields
<1>3. 0 < e.next /\ e.next <= now /\ e.status # "paused"
  BY <1>1 DEF DueInv
<1>4. PICK f : f = [of |-> Body(e), times |-> fired[i].times + 1]
  OBVIOUS
<1>5. fired[i].times \in Nat
  BY DEF TypeOK
<1>6. ~Starting /\ ~Unmerged /\ ~At("defs")
  BY <1>1 DEF Starting, Unmerged, At
<1>7. fired'[i] = f
  <2>1. Times(i) = fired[i].times
    <3>1. CASE fired[i].times > 0
      <4>1. AsFired(fired[i], e.item)
        BY <1>6, <3>1 DEF CountAt
      <4> QED BY <4>1 DEF AsFired, Times, Body
    <3>2. CASE fired[i].times = 0
      BY <3>2 DEF Times
    <3> QED BY <1>5, <3>1, <3>2
  <2> QED BY <1>4, <2>1 DEF Publish, TypeOK
<1>8. entries'[i] = FiredOff(e)
  BY DEF Publish, TypeOK
<1>9. AsFired(f, e.item)
  BY <1>2, <1>4 DEF AsFired, Body
<1>10. /\ f.of \in Item /\ f.of.max = e.item.max /\ f.of.kind = e.item.kind
       /\ f.of.start = e.item.start /\ f.times = fired[i].times + 1
  BY <1>2, <1>4, <1>9, AsFiredFields
<1>11. f.of.max \in Nat /\ f.of.start \in Nat
  BY <1>10 DEF Item
<1>12. fired[i].times > 0 => /\ AsFired(fired[i], e.item)
                             /\ Accounts(fired[i], e, Clean)
  BY <1>6 DEF CountAt
<1>13. fired[i].times > 0 => fired[i].of = f.of
  BY <1>4, <1>12 DEF AsFired, Body
<1>14. f.times \in Nat /\ f.times <= e.runs + 1
  <2>1. fired[i].times <= e.runs
    BY <1>2, <1>5, <1>12 DEF Accounts
  <2> QED BY <1>2, <1>5, <1>10, <2>1
<1>15. ASSUME Clean, f.of.kind = "once"
       PROVE  fired[i].times = 0 /\ f.of.start <= now
  <2>1. fired[i].times = 0
    BY <1>2, <1>3, <1>5, <1>12, <1>13, <1>15 DEF Accounts
  <2>2. Aim(e)
    BY <1>15 DEF AimInv, Clean
  <2>3. e.next = e.item.start
    BY <1>2, <1>3, <1>10, <1>15, <2>2 DEF Aim
  <2> QED BY <1>3, <1>10, <2>1, <2>3
<1>16. f.of.max > 0 => f.times <= f.of.max
  <2>1. fired[i].times > 0 => ~Used(f.of, e.runs)
    BY <1>3, <1>12, <1>13 DEF Accounts
  <2>2. fired[i].times > 0 => fired[i].times <= e.runs
    BY <1>12 DEF Accounts
  <2> QED BY <1>2, <1>5, <1>10, <1>11, <2>1, <2>2 DEF Used
<1>17. Within(f, Clean', wall)
  <2>1. Clean' /\ f.of.kind = "once" => f.times <= 1 /\ f.of.start <= wall
    BY <1>1, <1>5, <1>10, <1>11, <1>15
  <2> QED BY <1>10, <1>16, <2>1 DEF Within
<1>18. AsFired(f, FiredOff(e).item) /\ Accounts(f, FiredOff(e), Clean')
  <2>1. Clean' /\ f.of.kind = "once" => f.of.start <= held.call.now
    BY <1>15
  <2>2. PICK g \in Entry : g = e
    BY <1>2
  <2>3. PICK clean \in BOOLEAN : clean = Clean'
    OBVIOUS
  <2>4. AsFired(f, FiredOff(g).item) /\ Accounts(f, FiredOff(g), clean)
    BY <1>1, <1>9, <1>14, <2>1, <2>2, <2>3, AccountsFired
  <2> QED BY <2>2, <2>3, <2>4
<1>19. defs # Garbled => AsFired(f, Written[i])
  <2>1. defs # Garbled => Written[i] = e.item
    BY <1>6 DEF SavedInv
  <2> QED BY <1>9, <2>1
<1> QED BY <1>7, <1>8, <1>17, <1>18, <1>19

\* A publication that does not count, fails, or comes too late.
LEMMA CountUnfired ==
  ASSUME TypeInv, DueInv, StageInv, NEW i \in Ids, CountAt(i),
         (Publish(i) /\ Immediate) \/ PublishFails(i) \/ Miss(i),
         Clean' \in BOOLEAN, Clean' => Clean,
         "stale" \in mishaps => "stale" \in mishaps'
  PROVE  /\ fired'[i] = fired[i]
         /\ AsFired(fired[i], entries'[i].item)
         /\ Accounts(fired[i], entries'[i], Clean')
<1> USE DEF TypeInv
<1> DEFINE e == entries[i]
           now == held.call.now
<1>1. /\ Handled(i) /\ At("publish") /\ held # NoCall /\ i \in held.todo
      /\ now \in Nat /\ timeValid \in BOOLEAN
  BY HeldType DEF Publish, PublishFails, Miss, Handled, At, TypeOK
<1>2. /\ e \in Entry /\ e.item # NoItem /\ e.item \in Sound /\ e \in Working
      /\ e.last \in Nat /\ e.runs \in Nat /\ e.next \in Int
      /\ e = [item |-> e.item, status |-> e.status, next |-> e.next, last |-> e.last,
              runs |-> e.runs]
  BY FireEntry, EntryFields DEF Working
<1>3. ~Starting /\ ~Unmerged
  BY <1>1 DEF Starting, Unmerged, At
<1>4. fired'[i] = fired[i]
  BY DEF Publish, PublishFails, Miss
<1>5. AsFired(fired[i], e.item) /\ Accounts(fired[i], e, Clean)
  BY <1>3 DEF CountAt
<1>6. Accounts(fired[i], e, Clean')
  BY <1>5, LessClean DEF Clean
<1>7. fired[i].of.start \in Nat
  BY <1>2, <1>5, AsFiredFields DEF Item
<1>8. fired[i].times \in Nat
  BY DEF TypeOK
\* What is triggered was not fired later; what is due was not fired at all.
<1>9. ASSUME Clean', fired[i].of.kind = "once"
      PROVE  Immediate /\ fired[i].of.start <= now
  <2>1. Immediate
    BY <1>1, <1>2, <1>6, <1>9 DEF DueInv, Accounts
  <2>2. e.last <= now
    BY <1>1, <1>9, <2>1 DEF DueInv, Clean
  <2> QED BY <1>1, <1>2, <1>6, <1>7, <1>9, <2>1, <2>2 DEF Accounts
<1>10. PICK clean \in BOOLEAN : clean = Clean'
  OBVIOUS
<1>11. CASE Publish(i) /\ Immediate
  <2>1. entries'[i] = FiredOff(e)
    BY <1>11 DEF Publish, TypeOK
  <2>2. fired[i].times <= e.runs + 1
    BY <1>2, <1>6, <1>8 DEF Accounts
  <2>3. AsFired(fired[i], FiredOff(e).item) /\ Accounts(fired[i], FiredOff(e), clean)
    BY <1>1, <1>2, <1>5, <1>8, <1>9, <1>10, <2>2, AccountsFired
  <2> QED BY <1>4, <1>10, <2>1, <2>3
<1>12. CASE PublishFails(i)
  <2>1. entries'[i] = [e EXCEPT !.status = "error", !.last = now]
    BY <1>12 DEF PublishFails, TypeOK
  <2>2. /\ entries'[i].item = e.item /\ entries'[i].next = e.next
        /\ entries'[i].last = now /\ entries'[i].runs = e.runs
    BY <1>2, <2>1
  <2>3. Accounts(fired[i], entries'[i], Clean')
    BY <1>6, <1>9, <2>2 DEF Accounts
  <2> QED BY <1>4, <1>5, <2>2, <2>3
<1>13. CASE Miss(i)
  <2>1. entries'[i] = Refreshed(e, now, timeValid) /\ ~Immediate
    BY <1>13 DEF Miss, Missed, TypeOK
  <2>2. /\ AsFired(fired[i], Refreshed(e, now, timeValid).item)
        /\ Accounts(fired[i], Refreshed(e, now, timeValid), clean)
    BY <1>1, <1>2, <1>5, <1>6, <1>9, <1>10, <2>1, AccountsRefreshed
  <2> QED BY <1>4, <1>10, <2>1, <2>2
<1> QED BY <1>11, <1>12, <1>13

LEMMA WallLater ==
  ASSUME TypeInv, [Next]_vars
  PROVE  wall \in Nat /\ wall' \in Nat /\ wall <= wall'
<1>0. wall \in Nat
  BY DEF TypeInv, TypeOK
<1>1. wall' = wall \/ wall' = wall + 1
  <2>1. ASSUME NEW u \in Users, AskFor(u) \/ Refuse(u) \/ Change(u) \/ Trigger(u) \/ Reload(u)
        PROVE  wall' = wall
    BY <2>1 DEF AskFor, Ask, Begin, Refuse, Change, Trigger, Reload, time
  <2>2. ASSUME NotifySync \/ Sync \/ Wake \/ Look \/ SetClock \/ UNCHANGED vars
        PROVE  wall' = wall
    BY <2>2 DEF NotifySync, Sync, Wake, Look, Begin, SetClock, vars, time
  <2>3. ASSUME NEW i \in Ids, Publish(i) \/ PublishFails(i) \/ Miss(i)
        PROVE  wall' = wall
    BY <2>3 DEF Publish, PublishFails, Miss, Handled, time
  <2>4. ASSUME \/ SaveDefinitions \/ SaveDefinitionsFails \/ SaveState \/ SaveStateFails
               \/ LoadDefinitions \/ LoadDefinitionsFails \/ LoadState \/ LoadStateFails
        PROVE  wall' = wall
    BY <2>4 DEF SaveDefinitions, SaveDefinitionsFails, SaveState, SaveStateFails,
       LoadDefinitions, LoadDefinitionsFails, LoadState, LoadStateFails, time
  <2>5. TimePasses => wall' = wall \/ wall' = wall + 1
    BY DEF TimePasses
  <2>6. ASSUME NEW soft \in BOOLEAN, Restart(soft) PROVE wall' = wall
    BY <2>6 DEF Restart
  <2> QED BY <2>1, <2>2, <2>3, <2>4, <2>5, <2>6, NextCases
<1> QED BY <1>0, <1>1

\* What every entry that may be undone to the table's goes back to.
LEMMA CountUndone ==
  ASSUME TypeOK, NEW i \in Ids, CountAt(i), held # NoCall, ~Starting, ~Unmerged
  PROVE  AsFired(fired[i], Undone[i].item) /\ Accounts(fired[i], Undone[i], Clean)
<1>1. CASE Undoable(i)
  <2>1. Undone[i] = held.prev
    BY <1>1 DEF Undoable, Undone, TypeOK, Changes
  <2> QED BY <1>1, <2>1 DEF CountAt
<1>2. CASE ~Undoable(i)
  <2>1. held.call \in Call
    BY HeldType
  <2>2. Undone[i] = entries[i]
    BY <1>2, <2>1 DEF Undoable, Undone, TypeOK, Changes, Call
  <2> QED BY <2>2 DEF CountAt
<1> QED BY <1>1, <1>2

LEMMA CountStep ==
  ASSUME TypeInv, TypeInv', KindsInv, StageInv, NowInv, DueInv, AimInv, SavedInv, CountInv,
         [Next]_vars
  PROVE  CountInv'
<1> USE DEF TypeInv
<1> SUFFICES ASSUME mishaps' \cap {"unsaved", "lost"} = {}, NEW i \in Ids, fired'[i].times > 0
             PROVE  CountAt(i)'
  BY DEF CountInv
<1>0. /\ mishaps \cap {"unsaved", "lost"} = {} /\ Clean \in BOOLEAN /\ Clean' \in BOOLEAN
      /\ Clean' => Clean
      /\ "stale" \in mishaps => "stale" \in mishaps'
  BY MishapsGrow DEF Clean
<1>a. fired[i].times > 0 => CountAt(i)
  BY <1>0 DEF CountInv
<1>b. \A r : Accounts(fired[i], r, Clean) => Accounts(fired[i], r, Clean')
  BY <1>0, LessClean
<1>c. CountAt(i) => Within(fired[i], Clean', wall')
  <2>1. fired[i] \in Firing
    BY DEF TypeOK, Firing
  <2> QED BY <1>0, <2>1, WallLater, WithinLater DEF CountAt
\* A step without a firing, past the loading, that leaves the files alone.
<1>d. ASSUME CountAt(i), fired'[i] = fired[i], ~Starting, ~Unmerged, UNCHANGED files,
             entries'[i] = entries[i], Publishing => Publishing',
             Undoable(i)' => held'.prev = entries[i]
      PROVE  CountAt(i)'
  <2>1. AsFired(fired[i], entries[i].item) /\ Accounts(fired[i], entries[i], Clean)
    BY <1>d DEF CountAt
  <2>2. Undoable(i)' =>
          AsFired(fired[i], held'.prev.item) /\ Accounts(fired[i], held'.prev, Clean')
    BY <1>b, <1>d, <2>1 DEF CountAt
  <2> QED BY <1>b, <1>c, <1>d, <2>1, <2>2, CountStill
<1>1. CASE UNCHANGED <<memory, files, held, history>>
  <2>1. CountAt(i)
    BY <1>1, <1>a DEF history
  <2>2. /\ Starting' = Starting /\ Unmerged' = Unmerged /\ Publishing' = Publishing
        /\ Undoable(i)' = Undoable(i) /\ Written' = Written
    BY <1>1 DEF Starting, At, Booting, Unmerged, Loading, Publishing, Undoable, Written, files
  <2>3. UNCHANGED <<fired, entries, blob, defs, held>>
    BY <1>1 DEF history, memory, files
  <2> QED BY <1>b, <1>c, <2>1, <2>2, <2>3 DEF CountAt
<1>2. ASSUME NEW u \in Users, Change(u) PROVE CountAt(i)'
  <2>1. /\ calls[u] \in Call /\ calls[u].kind \in Changes
        /\ calls[u].id \in Ids /\ calls[u].now \in Nat
        /\ entries[calls[u].id] \in Entry
        /\ held'.prev = entries[calls[u].id] /\ held'.call.id = calls[u].id
        /\ held = NoCall /\ UNCHANGED files
    BY <1>2, ChangeCall DEF Change
  <2>2. fired' = IF calls[u].kind \in {"add", "update", "remove"}
                   THEN [fired EXCEPT ![calls[u].id] = Never] ELSE fired
    BY <1>2 DEF Change
  <2>3. /\ fired'[i] = fired[i]
        /\ i = calls[u].id => calls[u].kind \in {"enable", "disable", "pause", "resume"}
    BY <2>1, <2>2 DEF Changes, Never, TypeOK
  <2>4. CountAt(i)
    BY <1>a, <2>3
  <2>5. ~Starting /\ ~Unmerged /\ ~Publishing
    BY <2>1 DEF Starting, Unmerged, Publishing, At
  <2>6. CASE i # calls[u].id
    <3>1. entries'[i] = entries[i] /\ ~Undoable(i)'
      BY <1>2, <2>1, <2>6 DEF Change, TypeOK, Undoable
    <3> QED BY <1>d, <2>1, <2>3, <2>4, <2>5, <3>1
  <2>7. CASE i = calls[u].id
    <3>1. /\ AsFired(fired[i], entries[i].item) /\ Accounts(fired[i], entries[i], Clean)
          /\ Accounts(fired[i], entries[i], Clean')
      BY <1>b, <2>4, <2>5 DEF CountAt
    <3>2. Clean' /\ calls[u].kind \in {"enable", "resume"} => entries[i].last <= calls[u].now
      <4>1. entries[i].last \in Nat
        BY <2>1, <2>7, <3>1, EntryFields DEF AsFired
      <4> QED BY <1>2, <2>1, <2>7, <4>1 DEF Change, Mishap, Clean
    <3>3. entries'[i] = Changed(entries[i], calls[u]) /\ timeValid \in BOOLEAN
      BY <1>2, <2>7 DEF Change, TypeOK
    <3>4. PICK clean \in BOOLEAN : clean = Clean'
      BY <1>0
    <3>5. /\ AsFired(fired[i], Changed(entries[i], calls[u]).item)
          /\ Accounts(fired[i], Changed(entries[i], calls[u]), clean)
      BY <2>1, <2>3, <2>7, <3>1, <3>2, <3>3, <3>4, AccountsChanged
    <3> QED BY <1>b, <1>c, <2>1, <2>3, <2>4, <2>5, <2>7, <3>1, <3>3, <3>4, <3>5, CountStill
  <2> QED BY <2>6, <2>7
<1>3. ASSUME NEW u \in Users, Trigger(u) \/ Reload(u) PROVE CountAt(i)'
  <2>1. /\ held'.call.kind \in {"trigger", "load"} /\ held = NoCall
        /\ UNCHANGED <<memory, files, fired>>
    BY <1>3, TriggerCall, ReloadCall DEF Trigger, Reload, MutexFree, history
  <2>2. CountAt(i) /\ ~Starting /\ ~Unmerged /\ ~Publishing /\ ~Undoable(i)'
    BY <1>a, <2>1 DEF Starting, Unmerged, Publishing, Undoable, At, Changes
  <2> QED BY <1>d, <2>1, <2>2 DEF memory
<1>4. CASE Look
  <2>1. /\ held = NoCall /\ UNCHANGED <<memory, files, fired>>
        /\ held' = NoCall \/ held'.call.kind = "tick"
    BY <1>4, LookCall DEF Look, MutexFree, KindsInv, history
  <2>2. CountAt(i) /\ ~Starting /\ ~Unmerged /\ ~Publishing /\ ~Undoable(i)'
    BY <1>a, <2>1 DEF Starting, Unmerged, Publishing, Undoable, At, Changes
  <2> QED BY <1>d, <2>1, <2>2 DEF memory
<1>5. CASE Sync
  <2>1. /\ held = NoCall /\ held'.call.kind = "sync" /\ UNCHANGED <<files, fired, time>>
    BY <1>5, SyncCall DEF Sync, KindsInv, history
  <2>2. CountAt(i) /\ ~Starting /\ ~Unmerged /\ ~Publishing /\ ~Undoable(i)'
    BY <1>a, <2>1 DEF Starting, Unmerged, Publishing, Undoable, At, Changes
  <2>3. AsFired(fired[i], entries[i].item) /\ Accounts(fired[i], entries[i], Clean')
    BY <1>b, <2>2 DEF CountAt
  <2>4. Now = wall /\ Now \in Nat
    BY <1>5, NowType DEF Sync, NowInv, Now
  <2>5. Clean' /\ fired[i].of.kind = "once" => fired[i].of.start <= Now
    BY <1>0, <2>2, <2>4 DEF CountAt, Within
  <2>6. entries'[i] = Synced(entries[i]) /\ entries[i] \in Entry
    BY <1>5, <2>3 DEF Sync, Occupied, AsFired, TypeOK
  <2>7. PICK clean \in BOOLEAN : clean = Clean'
    BY <1>0
  <2>8. AsFired(fired[i], Synced(entries[i]).item) /\ Accounts(fired[i], Synced(entries[i]), clean)
    BY <2>3, <2>4, <2>5, <2>6, <2>7, AccountsSynced
  <2> QED BY <1>b, <1>c, <2>1, <2>2, <2>6, <2>7, <2>8, CountStill
<1>6. ASSUME NEW j \in Ids, Publish(j) \/ PublishFails(j) \/ Miss(j) PROVE CountAt(i)'
  <2>1. /\ Handled(j) /\ held # NoCall /\ held \in Holding /\ held.stage = "publish"
        /\ UNCHANGED <<files, time>> /\ At("publish")
    BY <1>6, HeldType DEF Publish, PublishFails, Miss, Handled, At
  <2>2. /\ held'.call = held.call /\ held.call.kind \in {"tick", "trigger"} /\ held' # NoCall
        /\ held'.stage \in {"publish", "state"}
    <3>1. /\ held'.call = held.call /\ held'.stage \in {"publish", "state"}
          /\ held' \in Holding
      BY <2>1 DEF Handled, Holding, Stages
    <3> QED BY <2>1, <3>1, CallAssumption DEF DueInv
  <2>3. /\ ~Starting /\ ~Unmerged /\ Publishing /\ Publishing' /\ ~Undoable(i)'
        /\ ~Starting' /\ ~Unmerged'
    BY <2>1, <2>2 DEF Starting, Unmerged, Publishing, Undoable, At, Changes, Loading
  <2>4. CASE j # i
    <3>1. entries'[i] = entries[i] /\ fired'[i] = fired[i]
      BY <1>6, <2>4, FireEntry DEF Publish, PublishFails, Miss, TypeOK
    <3> QED BY <1>a, <1>d, <2>1, <2>3, <3>1
  <2>5. CASE j = i /\ Publish(i) /\ ~Immediate
    <3>1. /\ Within(fired'[i], Clean', wall)
          /\ AsFired(fired'[i], entries'[i].item)
          /\ Accounts(fired'[i], entries'[i], Clean')
          /\ defs # Garbled => AsFired(fired'[i], Written[i])
      BY <1>0, <1>a, <2>5, CountFired
    <3>2. wall' = wall /\ defs' = defs /\ Written' = Written
      BY <2>1 DEF time, files, Written
    <3> QED BY <2>3, <3>1, <3>2 DEF CountAt
  <2>6. CASE j = i /\ ((Publish(i) /\ Immediate) \/ PublishFails(i) \/ Miss(i))
    <3>1. CountAt(i)
      BY <1>a, <2>6 DEF Publish, PublishFails, Miss
    <3>2. /\ fired'[i] = fired[i]
          /\ AsFired(fired[i], entries'[i].item)
          /\ Accounts(fired[i], entries'[i], Clean')
      BY <1>0, <2>6, <3>1, CountUnfired
    <3> QED BY <1>b, <1>c, <2>1, <2>3, <3>1, <3>2, CountStill
  <2> QED BY <1>6, <2>4, <2>5, <2>6
<1>7. CASE SaveDefinitions
  <2>1. /\ held # NoCall /\ held.stage = "defs" /\ UNCHANGED <<memory, blob, fired>>
        /\ defs' = Definitions(entries)
        /\ defs' \in [Ids -> Sound \cup {NoItem}]
    BY <1>7, StateType DEF SaveDefinitions, At, TypeOK, memory
  <2>2. CountAt(i)
    BY <1>a, <2>1
  <2>3. /\ held'.prev = held.prev /\ held'.call = held.call /\ held' # NoCall
        /\ held'.stage = IF Loading THEN "merge" ELSE "state"
    <3>1. CASE Loading
      BY <1>7, <2>1, <3>1, GotoType DEF SaveDefinitions, Stages
    <3>2. CASE ~Loading
      BY <1>7, <2>1, <3>2, GotoType DEF SaveDefinitions, Stages
    <3> QED BY <3>1, <3>2
  <2>4. /\ ~Starting /\ ~Starting' /\ Publishing' = Publishing
        /\ Undoable(i)' = Undoable(i) /\ (~Unmerged' => ~Unmerged)
    BY <2>1, <2>3 DEF Starting, Unmerged, Publishing, Undoable, At, Loading
  <2>5. Written'[i] = entries[i].item
    BY <2>1, AbsentAssumption DEF Written, Definitions
  <2> QED BY <1>b, <1>c, <2>1, <2>2, <2>3, <2>4, <2>5 DEF CountAt, memory
<1>8. CASE SaveDefinitionsFails
  <2>1. /\ held # NoCall /\ held.stage = "defs" /\ UNCHANGED <<blob, fired>>
        /\ defs' \in {defs, Garbled} /\ entries' = Undone
    BY <1>8 DEF SaveDefinitionsFails, At
  <2>2. CountAt(i)
    BY <1>a, <2>1
  <2>3. defs' # Garbled => AsFired(fired[i], Written'[i])
    BY <2>1, <2>2 DEF CountAt, Written
  <2>4. ~Starting /\ ~Publishing
    BY <2>1 DEF Starting, At, Publishing, StageInv, Changes
  <2>5. CASE Loading
    <3>1. entries' = entries
      BY <2>1, <2>5 DEF Undone, Loading
    <3>2. /\ held'.call = held.call /\ held' # NoCall /\ held'.stage = "merge"
      BY <1>8, <2>1, <2>5, GotoType DEF SaveDefinitionsFails, Stages
    <3>3. ~Starting' /\ Unmerged' /\ ~Undoable(i)'
      BY <2>5, <3>2 DEF Starting, Unmerged, Undoable, At, Loading, Changes
    <3> QED BY <1>b, <1>c, <2>1, <2>2, <2>3, <2>4, <3>1, <3>3 DEF CountAt
  <2>6. CASE ~Loading
    <3>1. held' = NoCall
      BY <1>8, <2>6 DEF SaveDefinitionsFails, Release
    <3>2. AsFired(fired[i], Undone[i].item) /\ Accounts(fired[i], Undone[i], Clean)
      BY <2>1, <2>2, <2>4, <2>6, CountUndone DEF Unmerged
    <3>3. ~Undoable(i)'
      BY <3>1 DEF Undoable
    <3> QED BY <1>b, <1>c, <2>1, <2>2, <2>3, <2>4, <3>2, <3>3 DEF CountAt
  <2> QED BY <2>5, <2>6
<1>9. CASE SaveState
  <2>1. /\ held # NoCall /\ held.stage = "state" /\ held' = NoCall
        /\ UNCHANGED <<memory, defs, fired>> /\ blob' = State(entries)
    BY <1>9 DEF SaveState, At, Release
  <2>2. CountAt(i) /\ ~Starting /\ ~Unmerged /\ ~Undoable(i)'
    BY <1>a, <2>1 DEF Starting, Unmerged, Undoable, At
  <2>3. AsFired(fired[i], entries[i].item) /\ Accounts(fired[i], entries[i], Clean')
    BY <1>b, <2>2 DEF CountAt
  <2>4. entries[i] \in Entry /\ entries[i].item # NoItem
    BY <2>3 DEF AsFired, TypeOK
  <2>5. /\ blob' # Missing /\ blob'[i] = Run(entries[i])
    <3>1. blob' \in [Ids -> RunState \cup {NoRun}]
      BY <2>1, StateType DEF TypeOK
    <3> QED BY <2>1, <2>4, <3>1, AbsentAssumption DEF State
  <2>6. /\ Run(entries[i]) # NoRun /\ Run(entries[i]).next = entries[i].next
        /\ Run(entries[i]).last = entries[i].last /\ Run(entries[i]).runs = entries[i].runs
    <3>1. Run(entries[i]) \in RunState
      BY <2>4, EntryFields DEF Run, RunState
    <3> QED BY <3>1, AbsentAssumption DEF Run
  <2>7. Accounts(fired[i], Run(entries[i]), Clean')
    BY <2>3, <2>6 DEF Accounts
  <2>8. Written' = Written
    BY <2>1 DEF Written
  <2> QED BY <1>c, <2>1, <2>2, <2>3, <2>5, <2>6, <2>7, <2>8 DEF CountAt, memory
<1>10. CASE SaveStateFails
  BY <1>10 DEF SaveStateFails
<1>11. CASE LoadDefinitions
  <2>1. /\ held # NoCall /\ held.stage = "load" /\ Loading /\ defs # Garbled
        /\ UNCHANGED <<files, fired>>
    BY <1>11 DEF LoadDefinitions, At, StageInv, history
  <2>2. CountAt(i)
    BY <1>a, <2>1
  <2>3. held'.call = held.call /\ held' # NoCall /\ held'.stage = "defs"
    BY <1>11, <2>1, GotoType DEF LoadDefinitions, Stages
  <2>4. entries'[i].item = Written[i]
    BY <1>11, <2>1, LoadedType DEF LoadDefinitions, Written
  <2>5. Unmerged' /\ ~Undoable(i)' /\ ~Publishing
    BY <2>1, <2>3 DEF Unmerged, Undoable, Publishing, Loading, Changes
  <2>6. Written' = Written /\ defs' = defs /\ blob' = blob
    BY <2>1 DEF Written, files
  <2> QED BY <1>b, <1>c, <2>1, <2>2, <2>4, <2>5, <2>6 DEF CountAt
<1>12. CASE LoadDefinitionsFails
  <2>1. /\ held # NoCall /\ held.stage = "load" /\ Loading
        /\ UNCHANGED <<memory, files, fired>>
    BY <1>12 DEF LoadDefinitionsFails, At, StageInv, history
  <2>2. CountAt(i)
    BY <1>a, <2>1
  <2>3. Written' = Written /\ defs' = defs /\ blob' = blob /\ entries' = entries
    BY <2>1 DEF Written, files, memory
  <2>4. ~Publishing /\ ~Unmerged
    BY <2>1 DEF Publishing, Unmerged, Loading
  <2>5. CASE Booting
    <3>1. Starting' /\ ~Undoable(i)'
      BY <1>12, <2>5, RestartedType, CallAssumption
         DEF LoadDefinitionsFails, Restarted, Starting, At, Booting, Stages, Undoable, Changes
    <3> QED BY <1>b, <1>c, <2>1, <2>2, <2>3, <2>4, <3>1 DEF CountAt
  <2>6. CASE ~Booting
    <3>1. held' = NoCall
      BY <1>12, <2>6 DEF LoadDefinitionsFails, Release
    <3>2. ~Starting /\ ~Undoable(i)'
      BY <2>6, <3>1 DEF Starting, Undoable
    <3> QED BY <1>b, <1>c, <2>1, <2>2, <2>3, <2>4, <3>2 DEF CountAt
  <2> QED BY <2>5, <2>6
<1>13. CASE LoadState
  <2>1. /\ held # NoCall /\ held.stage = "merge" /\ Loading /\ UNCHANGED <<files, fired>>
    BY <1>13 DEF LoadState, At, StageInv, history
  <2>2. CountAt(i) /\ ~Starting /\ ~Publishing
    BY <1>a, <2>1 DEF Starting, At, Publishing, Loading
  <2>3. held'.call = held.call /\ held' # NoCall /\ held'.stage = "state"
    BY <1>13, <2>1, GotoType DEF LoadState, Stages
  <2>4. /\ AsFired(fired[i], entries[i].item) /\ blob # Missing /\ blob[i] # NoRun
        /\ Accounts(fired[i], blob[i], Clean')
    BY <1>b, <2>2 DEF CountAt
  <2>5. /\ entries[i] \in Entry /\ blob[i] \in RunState /\ Now \in Nat /\ timeValid \in BOOLEAN
    BY <2>4, NowType DEF TypeOK
  <2>6. PICK clean \in BOOLEAN : clean = Clean'
    BY <1>0
  <2>7. PICK e \in Entry : /\ e = Merged(entries[i], blob[i])
                           /\ AsFired(fired[i], e.item) /\ Accounts(fired[i], e, clean)
    BY <2>4, <2>5, <2>6, MergedType, AccountsMerged
  <2>8. entries'[i] = Reanchored(e, Now)
    BY <1>13, <2>4, <2>7 DEF LoadState
  <2>9. AsFired(fired[i], Reanchored(e, Now).item) /\ Accounts(fired[i], Reanchored(e, Now), clean)
    BY <2>5, <2>7, AccountsReanchored
  <2>10. ~Undoable(i)' /\ ~Starting' /\ ~Publishing'
    BY <2>1, <2>3 DEF Undoable, Starting, Publishing, At, Loading, Changes
  <2>11. Written' = Written /\ defs' = defs /\ blob' = blob
    BY <2>1 DEF Written, files
  <2> QED BY <1>b, <1>c, <2>1, <2>2, <2>4, <2>6, <2>8, <2>9, <2>10, <2>11 DEF CountAt
<1>14. CASE LoadStateFails
  BY <1>14 DEF LoadStateFails, Mishap
<1>15. ASSUME NEW soft \in BOOLEAN, Restart(soft) PROVE CountAt(i)'
  <2>1. /\ held = NoCall /\ UNCHANGED <<blob, fired>> /\ defs' = defs
    BY <1>15 DEF Restart, MutexFree, At
  <2>2. CountAt(i) /\ ~Publishing
    BY <1>a, <2>1 DEF Publishing
  <2>3. Starting' /\ ~Undoable(i)' /\ Written' = Written
    BY <1>15, <2>1, RestartedType, CallAssumption
       DEF Restart, Restarted, Starting, At, Booting, Stages, Undoable, Changes, Written
  <2> QED BY <1>b, <1>c, <2>1, <2>2, <2>3 DEF CountAt
<1> QED BY <1>1, <1>2, <1>3, <1>4, <1>5, <1>6, <1>7, <1>8, <1>9, <1>10, <1>11, <1>12, <1>13,
           <1>14, <1>15, NextCases, StillCases

\* FiringsBounded: the task fires a schedule for one time at most once and any
\* schedule at most as often as its limit, through changes, triggers, failed
\* writes, reloads, restarts and the setting of the clock, but for the named
\* mishaps.
THEOREM FiringsCorrect == Spec => []FiringsBounded
<1>1. Init => NowInv /\ DueInv /\ AimInv /\ SavedInv /\ CountInv
  <2> SUFFICES ASSUME Init PROVE NowInv /\ DueInv /\ AimInv /\ SavedInv /\ CountInv
    OBVIOUS
  <2>1. NowInv /\ DueInv
    BY TimeAssumption DEF Init, NowInv, DueInv, At, Tasks
  <2>2. AimInv
    BY AimFree DEF Init, AimInv, Empty
  <2>3. SavedInv
    <3>1. defs = Missing /\ ~At("defs") /\ \A i \in Ids : entries[i].item = NoItem
      BY AbsentItem DEF Init, At, Empty
    <3> QED BY <3>1 DEF SavedInv, Written
  <2>4. CountInv
    <3>1. \A i \in Ids : fired[i].times = 0
      BY DEF Init, Never
    <3> QED BY <3>1 DEF CountInv
  <2> QED BY <2>1, <2>2, <2>3, <2>4
<1>2. TypeInv /\ TypeInv' /\ KindsInv /\ StageInv /\ NowInv /\ DueInv /\ AimInv /\ SavedInv
        /\ CountInv /\ [Next]_vars => NowInv' /\ DueInv' /\ AimInv' /\ SavedInv' /\ CountInv'
  BY NowStep, DueStep, AimStep, SavedStep, CountStep
<1>3. TypeInv /\ CountInv => FiringsBounded
  <2> SUFFICES ASSUME TypeInv, mishaps \cap {"unsaved", "lost"} = {}, NEW i \in Ids, Occupied(i),
                      fired[i].times > 0 => CountAt(i)
               PROVE  /\ entries[i].item.max > 0 => Times(i) <= entries[i].item.max
                      /\ Clean /\ entries[i].item.kind = "once" => Times(i) <= 1
    BY DEF CountInv, FiringsBounded, OnceFiresOnce, LimitKept, Clean
  <2>1. /\ entries[i].item \in Sound /\ fired[i].times \in Nat /\ entries[i].item.max \in Nat
    BY DEF TypeInv, TypeOK, Occupied, Entry, Sound, Item
  <2>2. CASE Times(i) = 0
    BY <2>1, <2>2
  <2>3. CASE Times(i) # 0
    <3>1. fired[i].of = Body(entries[i]) /\ Times(i) = fired[i].times /\ fired[i].times > 0
      BY <2>1, <2>3 DEF Times
    <3>2. AsFired(fired[i], entries[i].item)
      BY <3>1 DEF AsFired, Body, Occupied
    <3>3. fired[i].of.max = entries[i].item.max /\ fired[i].of.kind = entries[i].item.kind
      BY <2>1, <3>2, AsFiredFields
    <3>4. Within(fired[i], Clean, wall)
      BY <3>1 DEF CountAt
    <3> QED BY <3>1, <3>3, <3>4 DEF Within
  <2> QED BY <2>2, <2>3
<1> QED BY <1>1, <1>2, <1>3, TypeInductive, StagesInductive, PTL DEF Spec
====
