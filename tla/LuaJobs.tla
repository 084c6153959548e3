------------------------------ MODULE LuaJobs ------------------------------
(***************************************************************************)
(* The asynchronous Lua jobs of components/claw_capabilities/cap_lua       *)
(* (cap_lua_async.c): a table of job records under one mutex, a task per   *)
(* job, and the tool calls that start and stop jobs from the tasks of the  *)
(* agent, the console and the event router.                                *)
(*                                                                         *)
(* A call releases the mutex between its steps; each action below is one   *)
(* critical section or one blocking operation.  The one-second limit on    *)
(* taking the mutex is left out: no section blocks.  "done" stands for the *)
(* statuses done, failed and timeout.                                      *)
(***************************************************************************)
EXTENDS Naturals, FiniteSets

CONSTANTS
  Clients,       \* tasks that call the job tools
  Names,         \* job names
  Groups,        \* "exclusive" groups
  Kinds,         \* the names with groups that jobs are submitted with
  NoGroup,       \* no exclusive group given
  TableSize,     \* CAP_LUA_ASYNC_MAX_JOBS
  MaxConcurrent, \* CAP_LUA_ASYNC_MAX_CONCURRENT
  MaxCalls       \* bound of the model: the number of calls made

ASSUME LuaAssumption ==
  /\ TableSize \in Nat \ {0}
  /\ MaxConcurrent \in 1..TableSize
  /\ MaxCalls \in Nat
  /\ NoGroup \notin Groups
  /\ Kinds # {} /\ Kinds \subseteq [name : Names, group : Groups \cup {NoGroup}]
  /\ IsFiniteSet(Clients)

VARIABLES
  jobs,     \* s_jobs
  sem,      \* s_slot_terminal_sem
  running,  \* s_running_jobs
  task,     \* the task of each job
  kind,     \* name and group of each job, by id
  slotOf,   \* ctx->slot of each job
  last,     \* the last job id given out
  client,   \* each client's place in its call, and the call's locals
  calls,    \* how many calls were made
  told      \* history: jobs a stop found stopped or already terminal

tableVars == <<jobs, sem, running>>
jobVars == <<kind, slotOf, last>>
vars == <<tableVars, task, jobVars, client, calls, told>>

Slots == 1..TableSize
Ids   == 1..MaxCalls

Status   == {"queued", "running", "done", "stopped"}
Terminal == {"done", "stopped"}

\* A cleared record: id 0 stands for used = false.
Free == [id |-> 0, status |-> "queued", stop |-> FALSE]
Records == [id : 0..MaxCalls, status : Status, stop : BOOLEAN]

Targets == [slot : Slots, id : Ids]

AnyKind == CHOOSE k \in Kinds : TRUE
Idle == [pc |-> "idle", kind |-> AnyKind, replace |-> FALSE, retry |-> FALSE,
         id |-> 0, todo |-> {}]

Least(S) == CHOOSE i \in S : \A j \in S : i <= j

Init ==
  /\ jobs = [i \in Slots |-> Free]
  /\ sem = [i \in Slots |-> FALSE]
  /\ running = 0
  /\ task = [n \in Ids |-> "none"]
  /\ kind = [n \in Ids |-> AnyKind]
  /\ slotOf = [n \in Ids |-> 1]
  /\ last = 0
  /\ client = [c \in Clients |-> Idle]
  /\ calls = 0 /\ told = {}

-----------------------------------------------------------------------------
(* Looking at the table.                                                   *)

Used   == {i \in Slots : jobs[i].id # 0}
Active == {i \in Used : jobs[i].status \notin Terminal}

\* The slots that hold a job of the same name, or else of the same group.
SameName(k)  == {i \in Active : kind[jobs[i].id].name = k.name}
SameGroup(k) == {i \in Active : k.group # NoGroup /\ kind[jobs[i].id].group = k.group}
Conflicts(k) == IF SameName(k) # {} THEN SameName(k) ELSE SameGroup(k)

\* cap_lua_slot_is_terminal; the variant takes a request to stop for a stop.
HasEndedOnRequest(i) == i \notin Active \/ jobs[i].stop
HasEnded(i) == i \notin Active

\* cap_lua_find_reusable_slot_locked: an unused slot, else a terminal one.
\* The oldest by a clock of whole seconds that may be set back: any of them.
Reusable == IF Slots \ Used # {} THEN {Least(Slots \ Used)} ELSE Used \ Active

\* A job whose script may still be executing.
Executing == {n \in Ids : task[n] \in {"exec", "end"}}

\* The place of a job is given back; the variant keeps it.
PlaceKept == running
PlaceBack == IF running > 0 THEN running - 1 ELSE 0

-----------------------------------------------------------------------------
(* cap_lua_async_submit.                                                   *)

At(c, pc)   == client[c].pc = pc
Goto(c, pc) == client' = [client EXCEPT ![c].pc = pc]
Done(c)     == client' = [client EXCEPT ![c] = Idle]
Target(c)   == CHOOSE t \in client[c].todo : \A u \in client[c].todo : t.slot <= u.slot

Submit(c) ==
  /\ At(c, "idle")
  /\ calls < MaxCalls
  /\ calls' = calls + 1
  /\ \E k \in Kinds, r \in BOOLEAN :
       client' = [client EXCEPT ![c] = [Idle EXCEPT !.pc = "check", !.kind = k,
                                                    !.replace = r]]
  /\ UNCHANGED <<tableVars, task, jobVars, told>>

\* The check before the submit: clear, refused, or a job to stop first.
Check(c) ==
  LET k == client[c].kind
      conflict == Conflicts(k)
  IN /\ At(c, "check")
     /\ \/ conflict = {} /\ running < MaxConcurrent /\ Goto(c, "commit")
        \/ conflict = {} /\ running >= MaxConcurrent /\ Done(c)
        \/ conflict # {} /\ ~client[c].replace /\ Done(c)
        \/ /\ conflict # {} /\ client[c].replace
           /\ LET i == Least(conflict) IN
                client' = [client EXCEPT ![c].pc = "ask",
                             ![c].todo = {[slot |-> i, id |-> jobs[i].id]}]
     /\ UNCHANGED <<tableVars, task, jobVars, calls, told>>

\* The check repeated in the section that fills the record; the variant
\* trusts the first one.
ConflictUnchecked(k) == k \notin Kinds
ConflictNow(k) == Conflicts(k) # {}
Full == running >= MaxConcurrent

Refuse(c) ==
  /\ At(c, "commit")
  /\ \/ Full /\ Done(c)
     \/ ~Full /\ ConflictNow(client[c].kind) /\ client[c].retry /\ Done(c)
     \/ /\ ~Full /\ ConflictNow(client[c].kind) /\ ~client[c].retry
        /\ client' = [client EXCEPT ![c].pc = "check", ![c].retry = TRUE]
     \/ ~Full /\ ~ConflictNow(client[c].kind) /\ Reusable = {} /\ Done(c)
  /\ UNCHANGED <<tableVars, task, jobVars, calls, told>>

Commit(c) ==
  /\ At(c, "commit")
  /\ ~Full /\ ~ConflictNow(client[c].kind)
  /\ \E i \in Reusable :
       /\ jobs' = [jobs EXCEPT ![i] = [Free EXCEPT !.id = last + 1]]
       /\ sem' = [sem EXCEPT ![i] = FALSE]
       /\ slotOf' = [slotOf EXCEPT ![last + 1] = i]
  /\ kind' = [kind EXCEPT ![last + 1] = client[c].kind]
  /\ last' = last + 1
  /\ running' = running + 1
  /\ client' = [client EXCEPT ![c].pc = "spawn", ![c].id = last + 1]
  /\ UNCHANGED <<task, calls, told>>

\* No memory for the record's copy of the arguments: the record is cleared,
\* and with it the report of the job it held before.
CommitFails(c) ==
  /\ At(c, "commit")
  /\ ~Full /\ ~ConflictNow(client[c].kind)
  /\ \E i \in Reusable :
       /\ jobs' = [jobs EXCEPT ![i] = Free]
       /\ sem' = [sem EXCEPT ![i] = FALSE]
  /\ Done(c)
  /\ UNCHANGED <<running, task, jobVars, calls, told>>

Spawn(c) ==
  /\ At(c, "spawn")
  /\ task' = [task EXCEPT ![client[c].id] = "exec"]
  /\ Goto(c, "mark")
  /\ UNCHANGED <<tableVars, jobVars, calls, told>>

SpawnFails(c) ==
  /\ At(c, "spawn")
  /\ Goto(c, "unwind")
  /\ UNCHANGED <<tableVars, task, jobVars, calls, told>>

Unwind(c) ==
  /\ At(c, "unwind")
  /\ jobs' = [jobs EXCEPT ![slotOf[client[c].id]] = Free]
  /\ running' = PlaceBack
  /\ Done(c)
  /\ UNCHANGED <<sem, task, jobVars, calls, told>>

\* Once the task exists its record is set to running, whatever it says by
\* then; the variant also clears the request to stop.
MarkedAfresh(rec) == [rec EXCEPT !.status = "running", !.stop = FALSE]
Marked(rec) == [rec EXCEPT !.status = "running"]

Mark(c) ==
  /\ At(c, "mark")
  /\ LET i == slotOf[client[c].id] IN jobs' = [jobs EXCEPT ![i] = Marked(jobs[i])]
  /\ Goto(c, "settle")
  /\ UNCHANGED <<sem, running, task, jobVars, calls, told>>

\* cap_lua_async_wait_settle: the tool waits a moment for an early end.
Settle(c) ==
  LET i == slotOf[client[c].id]
  IN /\ At(c, "settle")
     /\ IF jobs[i].id = client[c].id /\ ~HasEnded(i) THEN Goto(c, "settling")
                                                     ELSE Done(c)
     /\ UNCHANGED <<tableVars, task, jobVars, calls, told>>

SettleWoken(c) ==
  LET i == slotOf[client[c].id]
  IN /\ At(c, "settling") /\ sem[i]
     /\ sem' = [sem EXCEPT ![i] = FALSE]
     /\ Done(c)
     /\ UNCHANGED <<jobs, running, task, jobVars, calls, told>>

SettleTimeout(c) ==
  /\ At(c, "settling")
  /\ Done(c)
  /\ UNCHANGED <<tableVars, task, jobVars, calls, told>>

-----------------------------------------------------------------------------
(* cap_lua_async_stop_job, cap_lua_async_stop_all_jobs and                 *)
(* cap_lua_stop_slot_and_wait, which a replacing submit uses too.          *)

AskFor(c, slots) ==
  client' = [client EXCEPT ![c] = [Idle EXCEPT !.pc = "ask",
               !.todo = {[slot |-> i, id |-> jobs[i].id] : i \in slots}]]

\* By id any job in the table is found, by name an active one.
StopJob(c) ==
  /\ At(c, "idle")
  /\ calls < MaxCalls
  /\ calls' = calls + 1
  /\ \E i \in Used : AskFor(c, {i})
  /\ UNCHANGED <<tableVars, task, jobVars, told>>

StopAll(c) ==
  /\ At(c, "idle")
  /\ calls < MaxCalls
  /\ calls' = calls + 1
  /\ \E g \in Groups \cup {NoGroup} :
       LET chosen == {i \in Active : g # NoGroup => kind[jobs[i].id].group = g}
       IN chosen # {} /\ AskFor(c, chosen)
  /\ UNCHANGED <<tableVars, task, jobVars, told>>

\* What follows when the target has been dealt with: a submit checks again,
\* or fails if the wait was in vain; a stop goes on to the next target.
Submitting(c) == client[c].replace

Proceed(c, ok) ==
  LET rest == client[c].todo \ {Target(c)}
      next == IF Submitting(c) /\ ok THEN "check" ELSE "ask"
  IN IF (Submitting(c) /\ ~ok) \/ (~Submitting(c) /\ rest = {})
       THEN Done(c)
       ELSE client' = [client EXCEPT ![c].pc = next, ![c].todo = rest]

Ask(c) ==
  LET t == Target(c)
      same == jobs[t.slot].id = t.id
      active == same /\ t.slot \in Active
  IN /\ At(c, "ask")
     /\ IF active THEN /\ jobs' = [jobs EXCEPT ![t.slot].stop = TRUE]
                       /\ Goto(c, "look")
                       /\ UNCHANGED told
                  ELSE /\ told' = IF same THEN told \cup {t.id} ELSE told
                       /\ Proceed(c, TRUE)
                       /\ UNCHANGED jobs
     /\ UNCHANGED <<sem, running, task, jobVars, calls>>

Look(c) ==
  LET t == Target(c)
  IN /\ At(c, "look")
     /\ IF HasEnded(t.slot) THEN Proceed(c, TRUE) /\ told' = told \cup {t.id}
                            ELSE Goto(c, "wait") /\ UNCHANGED told
     /\ UNCHANGED <<tableVars, task, jobVars, calls>>

Woken(c) ==
  LET i == Target(c).slot
  IN /\ At(c, "wait") /\ sem[i]
     /\ sem' = [sem EXCEPT ![i] = FALSE]
     /\ Goto(c, "again")
     /\ UNCHANGED <<jobs, running, task, jobVars, calls, told>>

\* The wait has a limit; the variant waits until the semaphore is given.
TimesOutNever(c) == c \notin Clients
TimesOut(c) == At(c, "wait")

WaitTimeout(c) ==
  /\ TimesOut(c)
  /\ Goto(c, "again")
  /\ UNCHANGED <<tableVars, task, jobVars, calls, told>>

Again(c) ==
  LET t == Target(c)
  IN /\ At(c, "again")
     /\ IF HasEnded(t.slot)
          THEN Proceed(c, TRUE) /\ told' = told \cup {t.id}
          ELSE Proceed(c, FALSE) /\ UNCHANGED told
     /\ UNCHANGED <<tableVars, task, jobVars, calls>>

-----------------------------------------------------------------------------
(* cap_lua_job_task.  The script ends by itself, or because its hook saw   *)
(* the request to stop through the pointer into the record.                *)

ScriptEnds(n) ==
  /\ task[n] = "exec"
  /\ task' = [task EXCEPT ![n] = "end"]
  /\ UNCHANGED <<tableVars, jobVars, client, calls, told>>

ScriptStops(n) ==
  /\ task[n] = "exec"
  /\ jobs[slotOf[n]].stop
  /\ task' = [task EXCEPT ![n] = "end"]
  /\ UNCHANGED <<tableVars, jobVars, client, calls, told>>

Outcome(rec) == IF rec.stop THEN "stopped" ELSE "done"

Finish(n) ==
  LET i == slotOf[n]
      mine == jobs[i].id = n
  IN /\ task[n] = "end"
     /\ jobs' = IF mine THEN [jobs EXCEPT ![i].status = Outcome(jobs[i])] ELSE jobs
     /\ running' = PlaceBack
     /\ task' = [task EXCEPT ![n] = IF mine THEN "give" ELSE "gone"]
     /\ UNCHANGED <<sem, jobVars, client, calls, told>>

Give(n) ==
  /\ task[n] = "give"
  /\ sem' = [sem EXCEPT ![slotOf[n]] = TRUE]
  /\ task' = [task EXCEPT ![n] = "gone"]
  /\ UNCHANGED <<jobs, running, jobVars, client, calls, told>>

-----------------------------------------------------------------------------
Submitter(c) ==
  \/ Check(c) \/ Refuse(c) \/ Commit(c) \/ CommitFails(c) \/ Spawn(c) \/ SpawnFails(c)
  \/ Unwind(c) \/ Mark(c) \/ Settle(c) \/ SettleWoken(c) \/ SettleTimeout(c)
Stopper(c) == Ask(c) \/ Look(c) \/ Woken(c) \/ WaitTimeout(c) \/ Again(c)
Runner(n) == ScriptStops(n) \/ Finish(n) \/ Give(n)

Next ==
  \/ \E c \in Clients : Submit(c) \/ StopJob(c) \/ StopAll(c) \/ Submitter(c) \/ Stopper(c)
  \/ \E n \in Ids : ScriptEnds(n) \/ Runner(n)

Spec == Init /\ [][Next]_vars

(* A call that has begun goes on, and a script that was asked to stop      *)
(* meets the hook, which runs every thousand instructions.                 *)
FairSpec ==
  /\ Spec
  /\ \A c \in Clients : WF_vars(Submitter(c) \/ Stopper(c))
  /\ \A n \in Ids : WF_vars(Runner(n))

-----------------------------------------------------------------------------
(* Properties.                                                             *)

\* Where a client is in its call, and the stages of dealing with a target.
Waits  == {"ask", "look", "wait", "again"}
Stages == {"idle", "check", "commit", "spawn", "unwind", "mark", "settle", "settling"}
            \cup Waits

ClientRecords == [pc : Stages, kind : Kinds, replace : BOOLEAN, retry : BOOLEAN,
                  id : 0..MaxCalls, todo : SUBSET Targets]

\* The types of the state; a call that stops jobs has one to stop, and an id is
\* given out once per call.
TypeOK ==
  /\ jobs \in [Slots -> Records]
  /\ sem \in [Slots -> BOOLEAN]
  /\ running \in Nat
  /\ task \in [Ids -> {"none", "exec", "end", "give", "gone"}]
  /\ kind \in [Ids -> Kinds] /\ slotOf \in [Ids -> Slots] /\ last \in 0..calls
  /\ calls \in 0..MaxCalls
  /\ client \in [Clients -> ClientRecords]
  /\ \A c \in Clients : client[c].pc \in Waits => client[c].todo # {}
  /\ told \subseteq Ids

\* s_running_jobs counts exactly the jobs that hold a place: those whose
\* record is filled and whose task has not come to cap_lua_finish_job, so
\* failed spawns and jobs that end early neither leak nor double a place.
Starting == {client[c].id : c \in {d \in Clients : client[d].pc \in {"spawn", "unwind"}}}
PlacesExact == running = Cardinality(Executing \cup Starting)

\* No more than MaxConcurrent scripts execute at once, although the limit is
\* checked in one critical section and used in another.
ConcurrencyCap == Cardinality(Executing) <= MaxConcurrent

\* Two scripts of one name or of one exclusive group never execute at the
\* same time, whatever takeovers, stops and retries are under way.
Apart(m, n) ==
  /\ kind[m].name # kind[n].name
  /\ kind[m].group = NoGroup \/ kind[m].group # kind[n].group
ExclusiveRun == \A m, n \in Executing : m # n => Apart(m, n)

\* The record of a script that executes is not recycled: the result finds its
\* record, and the hook reads its own request to stop.
RecordKept == \A n \in Executing : jobs[slotOf[n]].id = n

\* A job reported as stopped or as already terminal no longer executes.
StopTruthful == told \cap Executing = {}

\* A script that was asked to stop ends.
StopReaches ==
  \A n \in Ids :
    (task[n] = "exec" /\ jobs[slotOf[n]].stop) ~> task[n] # "exec"

\* Every tool call returns.
CallsReturn == \A c \in Clients : ~At(c, "idle") ~> At(c, "idle")

\* cap-lua.mdx: no arrow of the job state machine leaves a final status.
FinalStatus ==
  [][\A i \in Slots : (i \in Used \ Active /\ jobs'[i].id = jobs[i].id)
                        => jobs'[i].status \in Terminal]_vars
=============================================================================
