------------------------------ MODULE Scheduler ------------------------------
(***************************************************************************)
(* components/claw_capabilities/cap_scheduler: schedules that publish an   *)
(* event at a time, every so often, or by a cron expression.  They live in *)
(* memory, in a definitions file that is written in place, and in a        *)
(* runtime-state blob.  The console and the agent's tools change them, the *)
(* scheduler task fires those that are due, and the time service tells     *)
(* once per boot that the clock was set; every one of them reads the clock *)
(* first and then waits for the one mutex.                                 *)
(*                                                                         *)
(* Time is counted in periods of the task, tick_ms.  Before it is set the  *)
(* clock counts from the boot, as it does from 1970 on the device; the     *)
(* true time is never behind Epoch.  An entry of the table is found by its *)
(* identifier.  Counters that are only reported are left out.              *)
(***************************************************************************)
EXTENDS Integers, FiniteSets

CONSTANTS
  Users,     \* the tasks that change schedules: the console, the agent
  Task,      \* the scheduler task
  Clock,     \* the task of the time service
  Boot,      \* cap_scheduler_init
  Ids,       \* identifiers of schedules
  Items,     \* the schedules that may be asked for
  NoItem, NoRun, NoCall, NoId,
  Missing, Garbled,  \* a file that does not exist, that is not a whole array
  MaxItems,  \* max_items
  UpTime,    \* bound: the clock before it is set
  Epoch,     \* the first true time
  Horizon,   \* bound: the last true time
  MaxCalls,  \* bound: calls of the users
  MaxFaults, \* bound: publications and writes that fail
  MaxCrashes \* bound: restarts

Tasks == Users \cup {Task, Clock}

Kinds == {"once", "interval", "cron"}

\* cap_scheduler_item_t: a cron expression is the period it stands for, 0 when
\* it never matches.
Item == [kind : Kinds, start : Nat, every : Nat, end : Nat, max : Nat, on : BOOLEAN]

\* cap_scheduler_validate_item
Valid(item) ==
  /\ item.kind = "once" => item.start > 0
  /\ item.kind = "interval" => item.every > 0

Sound == {item \in Item : Valid(item)}

\* An entry is "running" only within a step that holds the mutex.
Statuses == {"scheduled", "disabled", "paused", "completed", "error"}
Entry == [item : Sound \cup {NoItem}, status : Statuses, next : Int, last : Nat, runs : Nat]
RunState == [status : Statuses, next : Int, last : Nat, runs : Nat]

ASSUME ItemAssumption == Items \subseteq Sound
ASSUME AbsentAssumption ==
  /\ NoItem \notin Item /\ NoRun \notin RunState
  /\ Missing # Garbled
  /\ {Missing, Garbled} \cap [Ids -> Sound \cup {NoItem}] = {}
  /\ Missing \notin [Ids -> RunState \cup {NoRun}]
ASSUME TaskAssumption ==
  {Task, Clock, Boot} \cap Users = {} /\ Task # Clock /\ Boot \notin {Task, Clock}
ASSUME TimeAssumption ==
  /\ {UpTime, Epoch, Horizon} \subseteq Nat \ {0}
  /\ UpTime < Epoch /\ Epoch <= Horizon
ASSUME BoundAssumption == {MaxItems, MaxCalls, MaxFaults, MaxCrashes} \subseteq Nat

VARIABLES
  entries,   \* s_cap_scheduler.entries
  timeValid, \* s_cap_scheduler.time_valid
  defs,      \* the definitions file, schedules_path
  blob,      \* the runtime state in NVS
  wall,      \* the true time
  up,        \* the time since the boot
  clockSet,  \* the system clock shows the true time
  rested,    \* the task has slept for a period
  calls,     \* what each task waits for the mutex with
  held,      \* the call that holds the mutex, and how far it is
  fired,     \* history: how often each definition was fired by the task
  quiet,     \* history: what was paused and not since changed, or triggered
  mishaps,   \* history: what has gone wrong so far
  budget     \* how many more calls and restarts

memory == <<entries, timeValid>>
files == <<defs, blob>>
time == <<wall, up, clockSet, rested>>
history == <<fired, quiet, mishaps>>
vars == <<memory, files, time, calls, held, history, budget>>

Now == IF clockSet THEN wall ELSE up

-----------------------------------------------------------------------------
(* Fire times.                                                             *)

\* cap_scheduler_item_requires_valid_time
NeedsTime(item) == ~(item.kind = "interval" /\ item.start = 0 /\ item.end = 0)

\* The first of start, start + every, ... after the anchor.
NextOnGrid(start, every, anchor) ==
  IF anchor < start THEN start ELSE start + every * ((anchor - start) \div every + 1)

\* cap_scheduler_compute_next_fire, without the count and the end: -1 when
\* there is none.  The variant takes the present for the future.
FollowingOrNow(item, anchor) ==
  CASE item.kind = "once" -> IF anchor > item.start THEN -1 ELSE item.start
    [] item.kind = "interval" /\ item.start = 0 -> anchor + item.every
    [] item.kind = "interval" /\ item.start > 0 -> NextOnGrid(item.start, item.every, anchor)
    [] item.kind = "cron" -> NextOnGrid(item.every, item.every, anchor)

Following(item, anchor) ==
  CASE item.kind = "once" -> IF anchor >= item.start THEN -1 ELSE item.start
    [] item.kind = "interval" /\ item.start = 0 -> anchor + item.every
    [] item.kind = "interval" /\ item.start > 0 -> NextOnGrid(item.start, item.every, anchor)
    [] item.kind = "cron" -> NextOnGrid(item.every, item.every, anchor)

\* max_runs
Used(item, runs) == item.max > 0 /\ runs >= item.max

\* -1 also after the last run, and past the end.
NextFire(item, anchor, runs) ==
  LET t == Following(item, anchor)
  IN IF Used(item, runs) \/ (item.end > 0 /\ t > item.end) THEN -1 ELSE t

\* A cron expression that matches nothing is found out when it is computed.
Computable(item, runs) == item.kind # "cron" \/ item.every > 0 \/ Used(item, runs)

\* cap_scheduler_refresh_entry_locked
Refreshed(e, anchor, valid) ==
  CASE ~e.item.on -> [e EXCEPT !.status = "disabled", !.next = -1]
    [] e.item.on /\ e.status = "paused" -> e
    [] e.item.on /\ e.status # "paused" ->
         IF ~valid /\ NeedsTime(e.item)
           THEN [e EXCEPT !.status = "scheduled", !.next = -1]
         ELSE IF ~Computable(e.item, e.runs)
           THEN [e EXCEPT !.status = "error"]
         ELSE LET t == NextFire(e.item, anchor, e.runs)
              IN [e EXCEPT !.next = t, !.status = IF t < 0 THEN "completed" ELSE "scheduled"]

-----------------------------------------------------------------------------
(* The table and the files.                                                *)

Free == [item |-> NoItem, status |-> "scheduled", next |-> 0, last |-> 0, runs |-> 0]
Empty == [i \in Ids |-> Free]

Occupied(i) == entries[i].item # NoItem

Definitions(es) == [i \in Ids |-> es[i].item]

\* How often the definition an entry has now was fired by the task.
Never == [of |-> NoItem, times |-> 0]
Body(e) == [e.item EXCEPT !.on = TRUE]
Times(i) == IF fired[i].of = Body(entries[i]) THEN fired[i].times ELSE 0

\* What cap_scheduler_save_state keeps of an entry.
Run(e) == [status |-> e.status, next |-> e.next, last |-> e.last, runs |-> e.runs]
State(es) == [i \in Ids |-> IF es[i].item = NoItem THEN NoRun ELSE Run(es[i])]

\* cap_scheduler_load_from_disk_locked: an entry as the definitions say.
Fresh(item) ==
  IF item = NoItem THEN Free
  ELSE [item |-> item, status |-> IF item.on THEN "scheduled" ELSE "disabled",
        next |-> -1, last |-> 0, runs |-> 0]

\* cap_scheduler_load_state for one entry; the variant restores the counters
\* only.
MergedCounters(e, run) ==
  IF e.item = NoItem \/ run = NoRun THEN e
  ELSE [e EXCEPT !.next = run.next, !.last = run.last, !.runs = run.runs]

Merged(e, run) ==
  IF e.item = NoItem \/ run = NoRun THEN e
  ELSE [item |-> e.item, status |-> run.status, next |-> run.next,
        last |-> run.last, runs |-> run.runs]

\* A loaded entry goes on from where it last fired.
Reanchored(e, now) ==
  IF e.item = NoItem \/ e.status = "paused" THEN e
  ELSE Refreshed(e, IF e.last > 0 THEN e.last ELSE now, timeValid)

-----------------------------------------------------------------------------
(* Calls.                                                                  *)

Call == [kind : {"add", "update"}, id : Ids, item : Items, now : Nat]
        \cup [kind : {"remove", "enable", "disable", "pause", "resume", "trigger"},
              id : Ids, item : {NoItem}, now : Nat]
        \cup [kind : {"tick", "sync", "load"}, id : {NoId}, item : {NoItem}, now : Nat]

\* What the holder of the mutex does next; todo are the entries to publish.
Stages == {"load", "defs", "merge", "state", "publish"}
Holding == [by : Tasks \cup {Boot}, call : Call, stage : Stages, prev : Entry,
            todo : SUBSET Ids]

ASSUME CallAssumption == NoCall \notin Call /\ NoCall \notin Holding

\* The calls that read the clock before they have the mutex; the others read it
\* with the mutex held, or not at all.
ReadFirst == {"add", "update", "enable", "disable", "resume", "tick"}

MutexFree == held = NoCall
At(stage) == held # NoCall /\ held.stage = stage
Goto(stage) == held' = [held EXCEPT !.stage = stage]

\* While cap_scheduler_init runs nothing else does.
Booting == held # NoCall /\ held.by = Boot

\* Whoever holds the mutex gives it back and returns.
Release ==
  /\ held' = NoCall
  /\ calls' = [u \in Tasks |-> IF u = held.by THEN NoCall ELSE calls[u]]

Mishap(what) == mishaps' = mishaps \cup {what}
Fault == budget.faults > 0 /\ budget' = [budget EXCEPT !.faults = @ - 1]

\* A task reads the clock and goes for the mutex.
Begin(u, kind, id, item) ==
  /\ ~Booting
  /\ calls[u] = NoCall
  /\ calls' = [calls EXCEPT ![u] =
       [kind |-> kind, id |-> id, item |-> item, now |-> IF kind \in ReadFirst THEN Now ELSE 0]]
  /\ UNCHANGED <<memory, files, wall, up, clockSet, held, history>>

\* The console, and the agent's tools.
Ask(u, kind, id, item) ==
  /\ budget.calls > 0
  /\ budget' = [budget EXCEPT !.calls = @ - 1]
  /\ Begin(u, kind, id, item)
  /\ UNCHANGED rested

AskFor(u) ==
  \/ \E kind \in {"add", "update"}, id \in Ids, item \in Items : Ask(u, kind, id, item)
  \/ \E kind \in {"remove", "enable", "disable", "pause", "resume", "trigger"}, id \in Ids :
       Ask(u, kind, id, NoItem)
  \/ Ask(u, "load", NoId, NoItem)

\* app_time_sync_success, once per boot when the clock has been set.
NotifySync ==
  /\ clockSet /\ ~timeValid
  /\ Begin(Clock, "sync", NoId, NoItem)
  /\ UNCHANGED <<rested, budget>>

\* cap_scheduler_task, every tick_ms
Wake ==
  /\ rested /\ rested' = FALSE
  /\ Begin(Task, "tick", NoId, NoItem)
  /\ UNCHANGED budget

-----------------------------------------------------------------------------
(* What a call does once it has the mutex.                                 *)

Size == Cardinality({i \in Ids : Occupied(i)})

Accepts(call) ==
  CASE call.kind = "add" -> ~Occupied(call.id) /\ Size < MaxItems
    [] call.kind \in {"tick", "sync", "load"} -> TRUE
    [] OTHER -> Occupied(call.id)

Switched(e, on) ==
  [e EXCEPT !.item = [@ EXCEPT !.on = on], !.status = IF on THEN "scheduled" ELSE "disabled"]

\* The entry a change leaves: cap_scheduler_update keeps the counters, and a
\* paused entry paused; cap_scheduler_resume only refreshes.
Changed(e, call) ==
  CASE call.kind = "add" -> Refreshed([Fresh(call.item) EXCEPT !.next = 0], call.now, timeValid)
    [] call.kind = "update" ->
         IF e.status = "paused" THEN [e EXCEPT !.item = call.item]
         ELSE Refreshed([e EXCEPT !.item = call.item], call.now, timeValid)
    [] call.kind = "remove" -> Free
    [] call.kind = "enable" -> Refreshed(Switched(e, TRUE), call.now, timeValid)
    [] call.kind = "disable" -> Refreshed(Switched(e, FALSE), call.now, timeValid)
    [] call.kind = "pause" -> [e EXCEPT !.status = "paused"]
    [] call.kind = "resume" -> Refreshed(e, call.now, timeValid)

\* Pausing and resuming leave the definitions alone; in the variant switching a
\* schedule on and off does so too.
FirstSaveShort(kind) == IF kind \in {"pause", "resume", "enable", "disable"} THEN "state" ELSE "defs"
FirstSave(kind) == IF kind \in {"pause", "resume"} THEN "state" ELSE "defs"

\* The task has the mutex; prev is what the entry was.
Hold(u, stage, prev, todo, now) ==
  held' = [by |-> u, call |-> [calls[u] EXCEPT !.now = now], stage |-> stage, prev |-> prev, todo |-> todo]

Refuse(u) ==
  /\ MutexFree
  /\ calls[u] # NoCall /\ ~Accepts(calls[u])
  /\ calls' = [calls EXCEPT ![u] = NoCall]
  /\ UNCHANGED <<memory, files, time, held, history, budget>>

\* A change is made in memory, and then saved.
Change(u) ==
  LET call == calls[u] IN
  /\ MutexFree
  /\ call # NoCall /\ Accepts(call)
  /\ call.kind \notin {"tick", "sync", "load", "trigger"}
  /\ entries' = [entries EXCEPT ![call.id] = Changed(@, call)]
  /\ Hold(u, FirstSave(call.kind), entries[call.id], {}, call.now)
  /\ quiet' = IF call.kind \in {"add", "remove", "enable", "disable", "resume"}
              THEN quiet \ {call.id} ELSE quiet
  /\ IF call.kind \in {"update", "enable", "resume"} /\ call.now < entries[call.id].last
       THEN Mishap("stale") ELSE UNCHANGED mishaps
  /\ fired' = IF call.kind \in {"add", "update", "remove"} THEN [fired EXCEPT ![call.id] = Never] ELSE fired
  /\ UNCHANGED <<timeValid, files, time, calls, budget>>

\* cap_scheduler_trigger_now
Trigger(u) ==
  /\ MutexFree
  /\ calls[u] # NoCall /\ Accepts(calls[u]) /\ calls[u].kind = "trigger"
  /\ Hold(u, "publish", Free, {calls[u].id}, Now)
  /\ quiet' = quiet \ {calls[u].id}
  /\ IF Now < entries[calls[u].id].last THEN Mishap("stale") ELSE UNCHANGED mishaps
  /\ UNCHANGED <<memory, files, time, calls, fired, budget>>

\* cap_scheduler_fire_due_entries: the entries whose time has come by the time
\* the task read.
Due(now) ==
  {i \in Ids : /\ Occupied(i) /\ entries[i].item.on /\ entries[i].status # "paused"
               /\ 0 < entries[i].next /\ entries[i].next <= now}

Look ==
  /\ MutexFree
  /\ calls[Task] # NoCall
  /\ LET due == Due(calls[Task].now)
     IN IF due = {}
          THEN held' = held /\ calls' = [calls EXCEPT ![Task] = NoCall]
          ELSE Hold(Task, "publish", Free, due, calls[Task].now) /\ UNCHANGED calls
  /\ UNCHANGED <<memory, files, time, history, budget>>

\* cap_scheduler_handle_time_sync: an interval without a start forgets the
\* times of the clock it was scheduled by.  The variant sees to intervals only.
SyncedIntervals(e) ==
  IF ~timeValid /\ e.item.kind = "interval" /\ ~NeedsTime(e.item) /\ e.status # "paused"
    THEN Refreshed([e EXCEPT !.last = 0, !.next = -1], Now, TRUE) ELSE e

Synced(e) ==
  LET f == IF ~timeValid /\ e.item.kind = "interval" /\ ~NeedsTime(e.item)
             THEN [e EXCEPT !.last = 0, !.next = -1] ELSE e
  IN IF f.status = "paused" THEN f ELSE Refreshed(f, Now, TRUE)

Sync ==
  /\ MutexFree
  /\ calls[Clock] # NoCall
  /\ timeValid' = TRUE
  /\ entries' = [i \in Ids |-> IF Occupied(i) THEN Synced(entries[i]) ELSE Free]
  /\ Hold(Clock, "state", Free, {}, Now)
  /\ UNCHANGED <<files, time, calls, history, budget>>

Reload(u) ==
  /\ MutexFree
  /\ calls[u] # NoCall /\ calls[u].kind = "load"
  /\ Hold(u, "load", Free, {}, Now)
  /\ UNCHANGED <<memory, files, time, calls, history, budget>>

-----------------------------------------------------------------------------
(* Firing: cap_scheduler_publish_entry_locked, with the mutex held.        *)

Immediate == held.call.kind = "trigger"

\* The slot that is fired is the entry's, or the present.
Planned(e) == IF Immediate \/ e.next <= 0 THEN held.call.now ELSE e.next

Missed(e) == ~Immediate /\ held.call.now > e.next + 1

FiredOff(e) ==
  LET f == [e EXCEPT !.status = "running", !.last = held.call.now, !.runs = @ + 1]
  IN IF e.item.kind = "once" THEN [f EXCEPT !.next = -1, !.status = "completed"]
     ELSE Refreshed(f, Planned(e), timeValid)

Handled(i) ==
  /\ At("publish") /\ i \in held.todo
  /\ held' = [held EXCEPT !.todo = @ \ {i}, !.stage = IF held.todo = {i} THEN "state" ELSE @]
  /\ UNCHANGED <<timeValid, files, time, calls, quiet>>

Publish(i) ==
  /\ Handled(i)
  /\ ~Missed(entries[i])
  /\ entries' = [entries EXCEPT ![i] = FiredOff(@)]
  /\ fired' = IF Immediate THEN fired
              ELSE [fired EXCEPT ![i] = [of |-> Body(entries[i]), times |-> Times(i) + 1]]
  /\ UNCHANGED <<mishaps, budget>>

\* The event queue is full for as long as the router may wait.  Even a paused
\* entry is left as one that failed, with the time it had when it was paused.
PublishFails(i) ==
  /\ Handled(i)
  /\ ~Missed(entries[i])
  /\ entries' = [entries EXCEPT ![i] = [@ EXCEPT !.status = "error", !.last = held.call.now]]
  /\ IF entries[i].status = "paused" THEN Mishap("astray") ELSE UNCHANGED mishaps
  /\ Fault
  /\ UNCHANGED fired

\* An entry that is late by more than a period is counted as missed; the variant
\* only counts.
MissOnly(i) ==
  /\ Handled(i)
  /\ Missed(entries[i])
  /\ UNCHANGED <<entries, fired, mishaps, budget>>

Miss(i) ==
  /\ Handled(i)
  /\ Missed(entries[i])
  /\ entries' = [entries EXCEPT ![i] = Refreshed(@, held.call.now, timeValid)]
  /\ UNCHANGED <<fired, mishaps, budget>>

-----------------------------------------------------------------------------
(* Saving and loading.                                                     *)

Loading == held.call.kind = "load"

\* A change that cannot be saved is undone in memory; nothing else is.
Undone == IF held.call.kind \in {"tick", "trigger", "sync", "load"} THEN entries
          ELSE [entries EXCEPT ![held.call.id] = held.prev]

\* cap_scheduler_persist_definitions_locked: the file is written in place.
SaveDefinitions ==
  /\ At("defs")
  /\ defs' = Definitions(entries)
  /\ Goto(IF Loading THEN "merge" ELSE "state")
  /\ mishaps' = mishaps \ {"refused"}
  /\ UNCHANGED <<memory, blob, time, calls, fired, quiet, budget>>

SaveDefinitionsFails ==
  /\ At("defs")
  /\ defs' \in {defs, Garbled}
  /\ entries' = Undone
  /\ IF Loading THEN Goto("merge") /\ UNCHANGED calls ELSE Release
  /\ Mishap("refused")
  /\ Fault
  /\ UNCHANGED <<timeValid, blob, time, fired, quiet>>

\* cap_scheduler_persist_runtime_state_locked, the last step of every call.
SaveState ==
  /\ At("state")
  /\ blob' = State(entries)
  /\ Release
  /\ quiet' = IF held.call.kind = "pause" THEN quiet \cup {held.call.id} ELSE quiet
  /\ UNCHANGED <<memory, defs, time, fired, mishaps, budget>>

\* The blob is kept as it was, or erased because it does not read back.
SaveStateFails ==
  /\ At("state")
  /\ blob' \in {blob, Missing}
  /\ entries' = Undone
  /\ Release
  /\ mishaps' = mishaps \cup {"unsaved"}
                \cup (IF blob' = Missing THEN {"lost"} ELSE {})
                \cup (IF Definitions(Undone) # Definitions(entries) THEN {"refused"} ELSE {})
  /\ Fault
  /\ UNCHANGED <<timeValid, defs, time, fired, quiet>>

\* cap_scheduler_load_from_disk_locked
LoadDefinitions ==
  /\ At("load")
  /\ defs # Garbled
  /\ entries' = [i \in Ids |-> Fresh(IF defs = Missing THEN NoItem ELSE defs[i])]
  /\ Goto("defs")
  /\ UNCHANGED <<timeValid, files, time, calls, history, budget>>

\* Without definitions the application does not start, and the device resets.
Restarted(stage) ==
  held' = [by |-> Boot, call |-> [kind |-> "load", id |-> NoId, item |-> NoItem, now |-> 0],
           stage |-> stage, prev |-> Free, todo |-> {}]

LoadDefinitionsFails ==
  /\ At("load")
  /\ IF defs = Garbled THEN UNCHANGED budget ELSE Fault
  /\ IF Booting THEN Restarted("load") /\ UNCHANGED calls ELSE Release
  /\ UNCHANGED <<memory, files, time, history>>

LoadState ==
  /\ At("merge")
  /\ entries' = [i \in Ids |->
       Reanchored(IF blob = Missing THEN entries[i] ELSE Merged(entries[i], blob[i]), Now)]
  /\ Goto("state")
  /\ UNCHANGED <<timeValid, files, time, calls, history, budget>>

LoadStateFails ==
  /\ At("merge")
  /\ entries' = [i \in Ids |-> Reanchored(entries[i], Now)]
  /\ Goto("state")
  /\ Mishap("lost")
  /\ Fault
  /\ UNCHANGED <<timeValid, files, time, calls, fired, quiet>>

-----------------------------------------------------------------------------
(* The world.                                                              *)

\* At the bound the clock stands still, and the periods go on.
TimePasses ==
  /\ rested' = TRUE
  /\ wall' = IF wall < Horizon THEN wall + 1 ELSE wall
  /\ up' = IF wall < Horizon /\ ~clockSet /\ up < UpTime THEN up + 1 ELSE up
  /\ UNCHANGED <<memory, files, clockSet, calls, held, history, budget>>

\* SNTP sets the clock, before anyone tells the scheduler.
SetClock ==
  /\ ~clockSet
  /\ clockSet' = TRUE
  /\ up' = 0
  /\ UNCHANGED <<memory, files, wall, rested, calls, held, history, budget>>

\* The power is cut, and the clock starts again, or the device resets and the
\* clock goes on.  A file that is being written may be left in part.
Restart(soft) ==
  /\ budget.crashes > 0
  /\ budget' = [budget EXCEPT !.crashes = @ - 1]
  /\ entries' = Empty
  /\ timeValid' = FALSE
  /\ Restarted("load")
  /\ calls' = [u \in Tasks |-> NoCall]
  /\ clockSet' = (soft /\ clockSet)
  /\ up' = IF clockSet' THEN 0 ELSE 1
  /\ rested' = TRUE
  /\ defs' \in {defs} \cup (IF At("defs") THEN {Garbled} ELSE {})
  /\ mishaps' = mishaps \cup (IF defs' # defs THEN {"refused"} ELSE {})
                  \cup (IF MutexFree THEN {} ELSE {"unsaved"})
  /\ UNCHANGED <<blob, wall, fired, quiet>>

Init ==
  /\ entries = Empty /\ timeValid = FALSE
  /\ defs = Missing /\ blob = Missing
  /\ wall = Epoch /\ up = 1 /\ clockSet = FALSE /\ rested = TRUE
  /\ calls = [u \in Tasks |-> NoCall]
  /\ held = NoCall
  /\ fired = [i \in Ids |-> Never] /\ quiet = {} /\ mishaps = {}
  /\ budget = [calls |-> MaxCalls, faults |-> MaxFaults, crashes |-> MaxCrashes]

Asks(u) == AskFor(u) \/ Refuse(u) \/ Change(u) \/ Trigger(u) \/ Reload(u)

Fire == \E i \in Ids : Publish(i) \/ PublishFails(i) \/ Miss(i)

Save == SaveDefinitions \/ SaveDefinitionsFails \/ SaveState \/ SaveStateFails

Load == LoadDefinitions \/ LoadDefinitionsFails \/ LoadState \/ LoadStateFails

Next ==
  \/ \E u \in Users : Asks(u)
  \/ NotifySync \/ Sync \/ Wake \/ Look \/ Fire \/ Save \/ Load
  \/ TimePasses \/ SetClock \/ \E soft \in BOOLEAN : Restart(soft)

Spec == Init /\ [][Next]_vars

\* The task runs, whoever holds the mutex goes on, and the task gets it when it
\* becomes free again and again.
FairSpec == Spec /\ WF_vars(TimePasses) /\ WF_vars(Wake) /\ SF_vars(Look) /\ WF_vars(Fire) /\ WF_vars(Save) /\ WF_vars(Load)

-----------------------------------------------------------------------------
(* Properties.                                                             *)

Mishaps == {"stale", "astray", "refused", "unsaved", "lost"}

\* The types of the state; no entry is left as running.
TypeOK ==
  /\ entries \in [Ids -> Entry] /\ timeValid \in BOOLEAN
  /\ defs \in [Ids -> Sound \cup {NoItem}] \cup {Missing, Garbled}
  /\ blob \in [Ids -> RunState \cup {NoRun}] \cup {Missing}
  /\ wall \in Nat /\ up \in Nat /\ clockSet \in BOOLEAN /\ rested \in BOOLEAN
  /\ calls \in [Tasks -> Call \cup {NoCall}]
  /\ held \in Holding \cup {NoCall}
  /\ fired \in [Ids -> [of : Item \cup {NoItem}, times : Nat]] /\ quiet \subseteq Ids
  /\ mishaps \subseteq Mishaps

\* The task fires a "once" schedule at most once, through reloads, restarts,
\* publications that fail, triggers and the setting of the clock.  It may do so
\* again only when a call that waited for the mutex reschedules it by a time
\* from before it fired, when a failed trigger set a paused schedule going with
\* the time of a definition it no longer has, or when what has fired was not
\* saved.
OnceFiresOnce ==
  mishaps \cap {"stale", "astray", "unsaved", "lost"} = {} => \A i \in Ids :
    Occupied(i) /\ entries[i].item.kind = "once" => Times(i) <= 1

\* max_runs bounds how often the task fires a schedule, across restarts, as long
\* as the counts are saved.
LimitKept ==
  mishaps \cap {"unsaved", "lost"} = {} => \A i \in Ids :
    Occupied(i) /\ entries[i].item.max > 0 => Times(i) <= entries[i].item.max

\* However changes, failures and restarts interleave, the task fires a schedule
\* no more often than its definition allows.
FiringsBounded == OnceFiresOnce /\ LimitKept

\* Whoever was told that a schedule is paused does not see the task fire it, also
\* after an update, the setting of the clock, a reload or a restart, until it is
\* switched on, resumed, triggered or made anew.
PausedSilent ==
  At("publish") /\ ~Immediate /\ "lost" \notin mishaps => held.todo \cap quiet = {}

\* The definitions file says what the table says: a restart brings back a change
\* that was refused, or loses one that was made, only after a write that failed
\* or was cut, and until the next that succeeds.
DefinitionsKept ==
  "refused" \notin mishaps /\ (held # NoCall => held.stage \notin {"load", "defs"}) =>
    Definitions(entries) = (IF defs = Missing THEN [i \in Ids |-> NoItem] ELSE defs)

\* Once the scheduler knows that the clock is set, every schedule that is on has
\* a time: none goes on waiting for the clock, whoever changed or reloaded it at
\* the moment the clock was set.
ScheduledHasTime ==
  timeValid /\ (held # NoCall => held.call.kind # "load") => \A i \in Ids :
    Occupied(i) /\ entries[i].status = "scheduled" => entries[i].next > 0

\* What is due does not stay due: it is fired, or counted as missed and given its
\* next time, also when a publication failed.  A cron expression that matches
\* nothing, given to a schedule that had a time, stays due for ever.
DueHandled ==
  \A i \in Ids :
    i \in Due(Now) /\ Computable(entries[i].item, 0) ~> ~(i \in Due(Now) /\ Computable(entries[i].item, 0))
=============================================================================
