# TLA+ models of esp-claw

esp-claw is firmware that runs an LLM agent on an ESP32: messages arrive over
instant messaging, the console, Lua scripts, schedules or an MCP server, rules
decide what happens to them, and an agent core talks to a language model that
may call capabilities of the device. Everything runs as FreeRTOS tasks in one
address space, with queues, mutexes and files on a FAT partition between them.
This directory holds TLA+ specifications of the parts whose correctness depends
on the order in which those tasks act and on where a failure or a power cut
strikes, the TLC configurations that check them on small instances, and TLAPS
proofs about all nine of them for every instance.

    tlc -config MCClawCore_queues.cfg MCClawCore.tla     model-check a run
    tlapm ClawCoreProofs.tla                             check the proofs of a module

## 1. The system

Paths are relative to `src/components/`.

| Component | State it keeps | Operations | Talks to |
|---|---|---|---|
| `claw_modules/claw_core` | request queue, response queue, list of parked responses, `response_lock`, the in-flight record (request id, abort flag), the worker's request | submit, receive, receive_for, cancel, worker: context, chats, tools, completion observers, answer | LLM transport (abort flag), `claw_cap` (tools), `claw_event_router` (publishes the answer), `claw_memory` and `claw_skill` (context providers, observers) |
| `claw_modules/claw_event_router` | event queue, pending table, rules in memory, rules file, recursive mutex | publish, cancel, purge, task: take, match, run actions; add, update, delete, reload rules | `claw_core` (run_agent action), `claw_cap` (call_cap action), itself (emit_event action) |
| `claw_modules/claw_cap` | descriptor and group tables, active calls per descriptor, states of groups | call, register, enable, disable, unregister, start and stop all | every capability |
| `claw_modules/claw_memory`, store | records, index of labels, markdown view, digest log (four files), changes since the last compaction | store, update, forget, recall, compaction | tools of the agent, automatic extraction |
| `claw_modules/claw_memory`, extraction | list of jobs, queue, worker task, one semaphore per job | start a job with a request, extract with a chat of its own, collect at the end of the request, sweep | `claw_core` as provider and observer |
| `claw_modules/claw_skill` | skill registry, active skills per session (a file each) | activate, deactivate (with guards), clear, collect context | `claw_cap` visibility |
| `claw_capabilities/cap_lua` | job records, one semaphore per slot, running counter | submit (with takeover), stop one, stop all, list, wait for an early end, the job's task | Lua modules, `claw_cap` |
| `claw_capabilities/cap_scheduler` | entries with next fire time and counts, definitions file, state blob | add, update, remove, enable, pause, resume, trigger, reload, time sync, tick | publishes into the router, told of the time by `cap_time` |
| `claw_capabilities/cap_im_tg` | token, offset, ring of seen updates, attachment queue, two tasks | start, stop, set_token, poll, download, send | router, Telegram service |
| `cap_im_feishu`, `cap_im_qq`, `cap_im_wechat`, `cap_mcp_server`, Lua publisher | connection state, recent message ids | publish events, send messages | router, `claw_cap` |
| `cap_router_mgr`, `cap_session_mgr`, `cap_skill_mgr` | (mappings in files) | tools for the model around the modules above | router, memory, skills |
| other `cap_*` | none between calls | one call each | files, network, hardware |
| `common/*` | start-up order, Wi-Fi, display ownership, settings | device services, console | all |

What makes it hard:

* **several clients and one worker** (core): answers to different clients travel
  through one queue; whoever reads it has to park the others' answers;
* **cancel against progress** (core): a cancel arrives between any two steps of
  a request that is about to end;
* **bounded queues with waits under a mutex** (router, scheduler): a rule action
  or a fired schedule waits for room in a queue while it holds the mutex
  everybody else needs;
* **services that wait for each other** (core, router, memory worker): the
  router hands a message to the core under its mutex, the core publishes an
  answer and needs that mutex, and waits for a worker that frees nothing before
  it has finished;
* **identity by string** (router): events are found again by an id their
  publisher made up, in a table that evicts;
* **check in one critical section, act in another** (Lua jobs, unload);
* **a clock read before the wait for a mutex**, and a clock that jumps by
  decades when it is set (scheduler);
* **slots recycled under waiters** (Lua jobs, registry);
* **several files that tell one story**, written one after the other, with
  restarts and failing file operations between (memory, scheduler, rules);
* **an outside service that repeats, loses and forgets** (Telegram), under a
  poll that outlasts the call that stops it.

Properties that make each part correct are listed with its module below; the
hazards, each at the line where it bites, are in `PROJECT.json`.

## 2. Modules

| Module | Models | Uses |
|---|---|---|
| `AgentService` | abstract: what the core promises its clients | |
| `ClawCore` | `claw_core.c`, abort of `claw_llm_http_transport.c` | refines `AgentService` |
| `EventRouter` | queue and pending table of `claw_event_router.c` | |
| `RuleStore` | rules and rules file of `claw_event_router.c` | |
| `LuaJobs` | `cap_lua_async.c` | |
| `CapRegistry` | `claw_cap.c` | |
| `Scheduler` | `cap_scheduler.c`, `cap_scheduler_store.c`, `cap_scheduler_parser.c`, the sync callback of `cap_time.c` | |
| `MemoryStore` | `claw_memory.c`, `claw_memory_storage.c`, ids of `claw_memory_extract.c` | |
| `Dialogue` | abstract: what somebody who writes to the device may rely on | |
| `MessagePath` | composition: publish, router task, core task, extraction worker | refines `Dialogue` |
| `TgGateway` | `cap_im_tg.c` and, external, the service it polls | |
| `ClawCoreProofs`, `LuaJobsProofs`, `CapRegistryProofs`, `SchedulerProofs`, `MemoryStoreProofs`, `MessagePathProofs`, `TgGatewayProofs` | theorems | the module of the name, TLAPS |
| `RouterProofs` | theorems about `EventRouter` and `RuleStore`, the two halves of `claw_event_router.c` | both, TLAPS |
| `MC*` | instances for TLC: sets of model values, symmetry | the module of the name |

Each module starts with what is abstracted. Definitions carry the names of the
source where there is one; `PROJECT.json` maps each to its lines. Beside some
definitions stands a *variant* (`ParkInFront` beside `Park`, say): the same
definition with a plausible bug in it. No specification uses a variant; running
TLC with it in place of the definition shows that the property it is meant for
notices.

### ClawCore

One variable per piece of `claw_core_state_t` that tasks share: `requests`,
`responses` (bounded sequences), `pending` (the linked list of parked answers),
`holder` of `response_lock`, `inflightId` and `inflightAbort`; and the place of
each client in its call and of the worker in its loop. Consoles submit and then
wait for their id; routers submit and ask for the answer to be published instead
of queued; listeners take any answer. The critical sections and the blocking
operations of the code are the actions: `Submit`/`Enqueue`/`SubmitTimeout`,
`Receive` (the call and its wait for the lock), `ReceivePending`, `ReceiveLock`,
`ReceiveMatch`, `ReceiveOther` (park), `ReceiveTimeout`, `CancelRequest`, and for
the worker `TakeRequest`, `BeginRequest`, `BuildContext`, `Chat`, `AbortedChat`,
`RunTools`, `Complete`, `FinishRequest`, `PublishOutMessage`, `PushResponse`.
What a request says, and what the model answers, is reduced to how a round ends.

* `NoMissedPending` (proved too): nobody waits on the queue while its own answer
  lies in the parked list. It rests on `LockInv`, the lock has one holder.
* `PipelineInOrder` (proved too): no answer overtakes another or is duplicated.
* `CancelledOnlyIfAsked`, `EarlyCancelWins` (both proved too): a cancel concerns
  exactly the request that was in flight; one accepted before the last chat is
  sent is obeyed. The first rests on `InflightInv`.
* `QueuedServed`, `CallsReturn`: liveness, see section 4.
* `ImplementsService`: every behaviour is one of `AgentService` under the
  refinement mapping at the end of the module (tickets are positions in the
  order of acceptance; an answer is ready while it is in the response queue or
  the parked list). That each answer goes to its own client, once, follows.

Observers are left out of the model. The code calls them only for requests that
succeed (`claw_core.c:1286`), while `docs/src/content/docs/en/reference-core/claw-core.mdx:98`
has them called after each request.

### EventRouter

`table` is the pending table, an entry per slot; publishers are in one of
`track`, `send`, `undo`. An event has a serial number, which the code does not
know, and an id, which is all the code looks at: the properties speak of the
serial, the actions only of the id. An event may carry the id of an earlier one,
as the fixed ids of `cap_mcp_server.c:129,194` do. The mutex is held exactly
while the router task runs rules (`Locked`); the other critical sections are
single actions.

* `TableLive` (proved too): the table holds no leftovers and no id twice, after
  any mix of evictions, timeouts, undoing and cancels.
* `FewCancelsKept` (proved too): fewer cancels than slots are never forgotten,
  although entries are evicted. Without that bound a cancelled event can run:
  every slot holds a cancelled entry and one of them is evicted. And the ids
  have to be fresh: with one id for several events a later publish clears the
  mark.
* `PublishReturns`, `QueuedHandled`: liveness.

`OnlyCancelledSkipped` and `TypeOK` are proved and not run. What the properties
do not promise: the static assertion at `claw_event_router.c:47` ("pending table
must cover the default event queue length") and `claw-event-router.mdx:57,63`
suggest that every queued event has its entry. Events whose publishers wait for room and the one just taken count too,
so with a full table the entry of a queued event is evicted (line 282), and
cancelling it by id answers `ESP_ERR_NOT_FOUND` although it runs later.

### RuleStore

`file`, `temp` and `memory` hold lists of rules (functions from identifiers),
a missing file or a garbled one. Each writer goes through read, open, write,
remove, rename, swap; every one of them may fail; `Restart` may happen anywhere.
The router task is itself one of the writers: an action of a rule may call the
tools of `cap_router_mgr`, and the mutex it holds is recursive (`MayLock`).
The code is open to some mishaps, and the history variable `mishap` records
the worst that has happened so that the properties can say exactly when they
hold:

| `mishap` | comes from |
|---|---|
| `loss` | a rules file that cannot be opened reads as an empty list (line 952); the rename fails or the device restarts between remove and rename (1011-1019) |
| `garbling` | two tasks change rules at once, without a lock, through one temporary file (2438-2588); the result of fclose is ignored (1009) |

* `DoneIsKept`, `RestartAtomic` (both proved too): without a mishap a change
  reported as done is in memory and in the file, and a restart finds the rules
  from before a change or after it.
* `MatchedAlive` (proved too): no other task frees the rules an event is matched
  against. An action of one of these rules does, if it changes rules: the loop
  of `claw_event_router_process_event` (1924-1991) then goes on in freed memory.
  The model marks the list (`router.changed`) and takes the harmless outcome.
* `FileWhole` (proved): no failure of fopen, fwrite, fflush, remove or rename
  leaves a file that does not parse; only garbling does. Such a file makes
  `claw_event_router_init` fail, and with it the start of the application
  (`app_claw.c:245`).

### LuaJobs

`jobs`, `sem` and `running` are the file's static tables; a client is a task in
a submit or a stop, with the locals of the call; `task` is the life of each
job's own task. Every critical section and every wait is one action, so the
check (`Check`) and its repetition with the commit (`Commit`, `Refuse`) are
apart, as are filling the record, creating the task (`Spawn`, `SpawnFails`,
`Unwind`) and marking it as running (`Mark`), and finishing (`Finish`) and the
semaphore (`Give`). A script that fails or runs out of its time ends like any
other; what only reads the table is left out.

* `PlacesExact` (proved too): the counter of running jobs is exact in every
  state; hence `ConcurrencyCap` (proved), no more scripts than allowed.
* `ExclusiveRun` (proved too): none of the same name or group execute together.
* `StopTruthful` (proved too): a job a stop reported as ended no longer executes.
  `RecordKept` (proved): a script's record is not recycled under it.
* `FinalStatus`: violated, see section 5.
* `CallsReturn`, `StopReaches`: liveness.

### CapRegistry

`slots` is the descriptor table (capability and active calls), `state` the
state of each group (the members change with it in one critical section),
`caller` what each calling task remembers across the call, which is a slot
index. One administrator, the console task, is in one of its operations; the
callbacks run between the critical sections.

* `SlotKept` (proved too): a slot is not cleared or given to another capability
  under a call. It rests on `CountExact` (proved), calls are counted exactly.
* `UnloadAfterCalls` (proved too): the stop callbacks of an unload run after the
  last call. Disabling promises no such thing: it runs the same callbacks while
  calls to the group may be executing (`claw_cap.c:1406`), and the model lets it.
* `StateTellsRunning` (proved too): between operations the state of a group and
  what its callbacks made of it agree, failures of callbacks included.
* `ConsoleReturns`: an unload returns although a capability may never.

### Scheduler

`entries` is the table, an entry per identifier; `defs` the definitions file,
`blob` the state in NVS, `timeValid` the flag of the same name. `calls` holds
what each task has asked for and the time it read before it waited for the
mutex, `held` the call that has the mutex and the step it is at. A user's call is
`Asks` (read the clock, wait), then one of `Change`, `Refuse`, `Trigger`, then
the steps of saving: definitions, then state, each of which may fail or be cut
(`SaveDefinitions`, `SaveDefinitionsFails`, `SaveState`, `SaveStateFails`). The
task's round is `Wake`, `Look` (collect what is due), `Publish`, `PublishFails`
or `Miss` for each entry, and a save. `NotifySync` and `Sync` are the time
service's callback and `cap_scheduler_handle_time_sync`; `Reload` and the loading
steps are `cap_scheduler_reload` and the boot. `TimePasses`, `SetClock` and
`Restart` (a reset, which keeps the clock, or a power cut) are the environment.

A schedule is its kind, start, period, end and limit; a cron expression is the
period it stands for. Mishaps are recorded like those of `RuleStore`: `stale`
(a call used a time from before the entry fired), `astray` (a paused schedule
was triggered and could not be published, which sets it going), `refused` (the definitions
were not written, written in part, or written and the change then undone in
memory; the next save that succeeds takes it back), `unsaved` (the state was not
written, or a restart struck before it was), `lost` (the state did not load).

* `FiringsBounded` (proved too): a once schedule fires once and a limit is kept, through
  reloads, restarts, failed publications, triggers and the setting of the clock.
* `PausedSilent` (proved too): what was paused does not fire.
* `DefinitionsKept` (proved too): the file and the table name the same schedules
  outside a save.
* `ScheduledHasTime` (proved too): once the clock is known to be set, no schedule
  goes on waiting for it.
* `DueHandled`: what is due does not stay due.

What writing and checking the module showed of the code, and what the
exemptions in the properties stand for:

* *Resume does not resume.* `cap_scheduler_resume` (1051-1077) leaves the status
  to `cap_scheduler_refresh_entry_locked`, which returns at once for a paused
  entry (356); `cap-scheduler.mdx:50` says it continues. Enabling does.
* *A trigger does affect later firings.* It counts as a run, completes a once
  schedule, re-anchors an interval and un-pauses, where `cap-scheduler.mdx:51`
  says that it "does not affect subsequent plans".
* *A once schedule can fire twice.* Enable, update and resume read the clock
  before they wait for the mutex (997, 915, 1056): if the entry fires meanwhile,
  the old time puts it back (`stale`). Likewise when the firing was not saved
  and the schedules are loaded again (`unsaved`), although the state file is
  there for resuming "without losing or repeating tasks" (`cap-scheduler.mdx:34`).
* *A failed trigger sets a paused schedule going* (`astray`). A paused entry that
  is updated keeps the time of its old definition (`cap_scheduler.c:942-944`). When
  it is triggered and publishing fails, its status becomes an error and the time
  stays (473-495): the task then fires it at the old time, and enabling it plans
  it at its start again, so a once schedule fires twice. It takes five calls, more
  than the run has; the attempt to prove `FiringsBounded` found it, TLC confirmed
  it on a larger instance.
* *A cron expression that never matches*, given to an entry that had a time,
  leaves the old time in place: the entry is due at every tick (`Computable`
  exempts it).
* *A plain interval after a power cut* waits for the clock to be set, although
  it needs none.
* *The definitions file is written in place* and saved again at every load
  (`cap_scheduler_store.c:349-373`, `cap_scheduler.c:609`): a cut there leaves a
  file that does not load, and `cap_scheduler_init` fails from then on.
* *A refused change comes back.* When the definitions are saved and the state is
  not, the change is undone in memory but not in the file (line 304), and the
  next boot has it.

### MemoryStore

The four files are variables: `records` (a sequence of versions, the last of an
id counts, `Torn` is half a line), `index` (labels with their counts, the mark
how far the digest was counted), `markdown`, `digest`; and `changes`, the
counter that triggers compaction. A call is a `job`, a record of where its task
is and what it holds; each file operation is a step, so that `Cut` may strike
between any two and, through `RecordsCut` and `IndexCut`, within one. `OpenFails`
is a file that does not open. A boot runs `Create` and a compaction.

* `Kept` (proved too): a memory whose store was answered with success stays until
  it is forgotten, replaced, trimmed, merged into the old version of an update, or
  lost by a cut that strikes while the records are rewritten.
* `ForgottenStaysGone` (proved too): what was forgotten with success does not come
  back.
* `FilesAgree` (proved too): between calls the four files tell one story, unless a
  file did not open since the last compaction or the index no longer parses.
* `RecallsCounted` (proved too): compactions count a recall once, and once more only
  for a cut or a failure between the two files that say so.

The instance has one writer, two facts, and none of them `Long`. What it leaves
out by that choice was looked at with other values of the same constants:

* *An update can lose a memory.* It stores the new version under a new id and
  then forgets the old id (`claw_memory.c:533`). If the store triggers a
  compaction, the compaction merges the two, which are the same fact with
  another label or wording, into the *old* id (`claw_memory_storage.c:991-1006`),
  and the update goes on to forget it. TLC found it at the threshold; `Kept`
  exempts exactly this (`MergesUpdate`).
* *The buffer of a compaction* has 512 bytes for each memory
  (`claw_memory_storage.c:1055`), and a line may take about 680. With
  `Long = {g}` TLC finds that `Kept` fails: the rest is cut off.
* *A record joins a torn line.* A cut may leave a line of which only a part was
  written. The next boot's compaction writes the file anew, but `claw_memory_init`
  ignores its result (`claw_memory.c:336`), and it fails when an earlier cut left
  an index that does not parse, or when a file does not open. The line stays, and
  `append_file_text` puts the next record on it: neither parses, and the store or
  the forgetting was answered with success all the same
  (`claw_memory_utils.c:694`). It takes two cuts, or a cut and a failure; the
  attempt to prove `Kept` found it. The history field `joined` says of a call that
  it met such a line, and nothing is promised then.
* *Two writers* (the agent's tools and the extraction worker, `claw_memory.c:70`)
  share no lock. With two, the check for known facts and the append are apart,
  and a fact is stored twice, which the "dedup/replace handling before and after
  writes" of `memory.mdx:76` is there to avoid; one's index overwrites the other's.
* *An index that does not parse is never repaired*: loading fails, and with it
  every context of the agent (`claw_core.c:1035`); one that does not open is
  taken for none and written back nearly empty.
* Forgetting appends its line before it loads the index: it can answer with a
  failure and have forgotten all the same.

### Dialogue and MessagePath

`Dialogue` says what somebody who writes to the device may rely on: answers come
in the order in which messages were accepted, one at most for each; a message
may be lost, and nothing else happens to it. `MessagePath` is the composition
that has to keep this promise: publishers wait for the event queue
(`Track`, `Send`, `SendTimesOut`, `Untrack`), the router task takes an event,
matches it and submits it to the core, with the mutex when a rule says so and
without when the default route does (`RouterMatches`), the core starts an
extraction job, works, uses tools, collects the job, waits for it and publishes
the answer; the worker takes jobs, commits and gives the semaphore.

* `WaitEnds` (proved too): a job on the list is in the queue, in the worker's
  hands or about to be queued, so that no job is freed under the worker before it
  commits and the core's wait, which has no limit (`claw_memory_session.c:366`),
  ends.
* `InOrder` (proved too): the refinement of `Dialogue`. `UnderWay` is what the
  queues and the tasks hold, `accepted` a history variable.
* `LossNeedsLoad` (proved too): a message is lost for want of room only when more are under
  way than the queue has slots.
* `Settles`: every message comes to an answer or to a loss somebody is told of.

The cycle core -> mutex -> router -> request queue -> core is real: it is broken
only by the one-second limit of the router's submit, which drops the message
(`claw_core.c:548`, `claw_event_router.c:1579`). With the default route the
router holds no mutex, but the cycle then goes through the full event queue.
The worker gives the semaphore of a job after it released the lock
(`claw_memory_session.c:296-298`): the job may have been freed by then. The model
takes the harmless outcome of that. Left out: events about stages of the work,
the note about manual writes, cancels (they are in `ClawCore` and
`EventRouter`). The ids of router and console do not collide (they count from
1000000 and from 1).

### TgGateway

The variables have the names of `cap_im_tg.c`: `bot_token`, `next_update_id`,
`seen_update_keys`, `seen_update_idx`, `attachment_queue`, `stop_requested`,
`poll_task`, `attachment_task`. The poll task goes through `PollBegins`,
`PollAsks`, `Answer` (the service's side of the long poll), `HandleUpdate` for each
update and `PollEnds`; a download task through `Receive`, `Save`, `Waits`, `Looks`,
`Leave`. Calls are `Start` with its failures, `Stop` with its wait of five
seconds, and `SetToken`, each in the steps in which the code reads and writes
the shared state. `Restart` is a power cut.

The service is external and modelled from how the code uses it: it numbers the
updates of a bot, an offset makes it forget the ones before, an answer holds the
oldest `Batch` of the rest. An answer may get lost, or begin with updates that
were answered before (`AnswerAgain`, `Repeats`).

* `ForgottenHandled` (proved too): the service forgets a message only after the gateway has
  looked at it, in this boot or an earlier one.
* `HandedInOrder` (proved too): nothing is handed on twice or after something later.
* `QueueOutlives` (proved too): the attachment queue is there as long as a task reads it.
* `MessagesHandled`: every message is looked at in the end.

Exemptions, each a behaviour of the code TLC reached:

* *Updates without a message* (edits, joins) return before the offset moves
  (line 609). They are answered again at once, a loop without a pause, and when
  a whole answer consists of them (100 on the device, `Batch` here) nothing
  after them is ever seen (`Clogged`).
* *A token set while the gateway runs* (1408): the answer to the old token moves
  the new bot's offset and fills its ring (`crossed`).
* *A start after a stop that ran out of time* (1199): it answers OK while the
  tasks are about to end (`wanted = "unsure"`), or finds a download still busy
  and makes a second task that shares its handle and queue (`doubled`).
* "Looked at" is all the gateway promises: a full attachment queue drops the
  file and a failed publish is only logged.

## 3. Runs

| Run | Instance | Why these bounds |
|---|---|---|
| `core_queues` | 2 consoles, 1 router, 3 requests, queues of length 1, 1 tool round, 1 cancel | Length 1 makes both queues full as soon as two clients are active; three requests put one in each stage, and two waiting consoles park each other's answers. |
| `core_live` | 1 console, 1 router, 1 listener, 2 requests, 2 rounds, 2 cancels, fair | A cancel at every stage, twice, against a request with a following one. Two rounds give a chat after tools. |
| `router_live` | 2 publishers, queue 1, table 2, 3 events, 2 classes, fair | Two publishers beyond a full queue, plus the event just taken, are more entries than slots: eviction; the emitting rule meets a full queue; three events reuse an id in every way. |
| `rule_files` | the agent and the router task as writers, 2 identifiers, 2 bodies, at most 1 rule | One rule of two identifiers makes both the limit and its refusal reachable; the second writer is needed for overlap, and as the router task it also changes rules under its own loop. |
| `lua_table` | 2 clients, 3 names of which 2 share a group, 2 slots, 2 places, 3 calls | A takeover meets a submit and a stop while slots are recycled. |
| `lua_live` | 2 clients, 2 slots, 1 place, 2 calls, fair | The limit, which 2 calls exceed; that calls and stopped scripts end. |
| `lua_final` | 2 clients, 1 kind of job, 2 calls | Violated: section 5. |
| `cap_unload` | 2 callers, a group of 2 and one of 1 capability, 3 slots, fair | Calls against every operation of the console, with a table that is exactly full. |
| `sched_fair` | 1 user, 1 identifier, once and interval plans, times up to 5 with the clock set from 4, 2 calls, 1 fault, 1 restart, fair | Every operation of the table touches one entry; two calls give any pair of changes around a firing, a jump of the clock and a restart. Cron plans behave as interval plans on the wall clock: the module and its proofs have them, the instance does not. |
| `mem_files` | 1 writer, 2 facts, 2 labels, thresholds 2 and 5, 2 memories at most, 3 ids, 1 recall, 2 cuts, 1 fault | Every second change compacts, also in the middle of an update; the third id is the one that is trimmed; the second cut meets what the first left: a torn line, an index that does not parse. |
| `path_loop` | 3 messages, event queue 2, request queue 1, extraction queue 1, 1 tool round, fair | The three queues and the mutex can all be full or held at once with three messages. |
| `tg_poll` | 2 bots, answers of 2, ring of 2, attachment queue of 1, 2 download tasks, five scripts of traffic, 3 calls after the boot, 1 mishap, fair | Two files fill the queue; three texts and a repeated answer need the ring; two edits clog an answer; three calls are stop, start, stop. |

Bounds that exist only in the models are `MaxRequests`, `MaxCancels` (ClawCore),
`MaxEvents` (EventRouter), `MaxCalls` (LuaJobs, Scheduler, TgGateway), `MaxFaults`,
`MaxCrashes`, `UpTime` and `Horizon` (Scheduler), `MaxIds`, `MaxRecalls`, `MaxCuts`,
`MaxFaults` (MemoryStore), `MaxMishaps` and `Scripts` (TgGateway): each limits how
often the environment starts something or does harm, or how far time goes.
MessagePath publishes each message once. Where the bounds make a run end,
deadlock is not checked; `CapRegistry`, `RuleStore`, `MemoryStore` and `Scheduler`
are checked for deadlock. The other constants are those of the code with smaller
values (queue lengths, table sizes, rounds, thresholds). Symmetry is used only in
runs without liveness.

## 4. Fairness

* ClawCore: the worker and the clients are tasks the scheduler keeps running,
  a chat and a tool call return because the transport and the capabilities bound
  them, and waits of clients have a timeout: weak fairness of the worker and of
  each call that has begun. Strong fairness of a client's wait for
  `response_lock`, which others take and give again and again; FreeRTOS hands a
  mutex to its waiters. Nobody is obliged to submit, to receive or to cancel.
  The worker's wait for room in the response queue has *no* timeout:
  `QueuedServed` says only that requests are served as long as the queue keeps
  getting room.
* EventRouter: weak fairness of the router task and of the bounded waits;
  strong fairness of a publisher's wait for the mutex, which the router task
  releases between any two events. Actions of rules are assumed to end.
* LuaJobs: weak fairness of each call and of each job's task. A script need not
  end by itself; one that was asked to stop meets the hook the runtime installs
  every thousand instructions. A script that catches the error of that hook
  with `pcall` can go on: `StopReaches` is about scripts that do not.
* CapRegistry: weak fairness of the console's operation, none of the callers: a
  capability may execute for ever.
* Scheduler: time passes, the task wakes, whoever holds the mutex goes on (weak);
  the task gets the mutex when it is free again and again (strong).
* MessagePath: weak fairness of the router, core, worker and each publisher. A
  bounded wait is a choice between success and timeout, one of which is always
  enabled; the chats of core and worker end because the HTTP client has timeouts.
* TgGateway: weak fairness of the poll task, of each download task and of a call
  in progress. The poll task's fairness includes the service's answer: a long
  poll ends. Faults and power cuts are bounded by `MaxMishaps`.
* RuleStore and MemoryStore have no liveness properties: every operation is
  straight-line code.

## 5. Findings

*A finished Lua job marked as running* (run `lua_final`).
`cap_lua_async_submit` sets the status after creating the task, whatever it is by
then (`cap_lua_async.c:691`). A job that was quicker stays "running" for ever:
its name and group are refused, and stopping it reports that its task did not
exit. The safety properties of `LuaJobs` hold all the same, since the record of a
script that really executes is never the one that is wrongly revived.

The other disagreements between code and documents met on the way, and the
behaviours the properties exempt, are described with their modules in section 2.

## 6. Proofs

TLC checks the instances of section 3; the theorems hold for every value of the
constants that satisfies the named assumptions of the modules.

| Module | Theorem | States |
|---|---|---|
| `ClawCoreProofs` | `TypeCorrect`, `InflightCorrect`, `LockCorrect`, `NoMissedPendingCorrect`, `CancelledCorrect`, `EarlyCancelCorrect`, `OrderCorrect`, `ServiceImplemented` | `Spec => []` of `TypeOK`, `InflightInv`, `LockInv`, `NoMissedPending`, `CancelledOnlyIfAsked`, `EarlyCancelWins`, `PipelineInOrder`; and the refinement `ImplementsService` |
| `RouterProofs`, on `EventRouter` | `TypeCorrect`, `TableCorrect`, `SkippedCorrect`, `FewCancelsCorrect` | of `TypeOK`, `TableLive`, `OnlyCancelledSkipped`, `FewCancelsKept` |
| `LuaJobsProofs` | `TypeCorrect`, `PlacesCorrect`, `CapCorrect`, `ExclusiveCorrect`, `RecordCorrect`, `StopCorrect` | of `TypeOK`, `PlacesExact`, `ConcurrencyCap`, `ExclusiveRun`, `RecordKept`, `StopTruthful` |
| `CapRegistryProofs` | `TypeCorrect`, `CountCorrect`, `SlotCorrect`, `UnloadCorrect`, `RunningCorrect` | of `TypeOK`, `CountExact`, `SlotKept`, `UnloadAfterCalls`, `StateTellsRunning` |
| `RouterProofs`, on `RuleStore` | `RulesTypeCorrect`, `DoneCorrect`, `FileCorrect`, `AliveCorrect`, `RestartCorrect` | of `RulesTypeOK`, `DoneIsKept`, `FileWhole`, `MatchedAlive`, and the action property `RestartAtomic` |
| `SchedulerProofs` | `TypeCorrect`, `TimeCorrect`, `DefinitionsCorrect`, `PausedCorrect`, `FiringsCorrect` | of `TypeOK`, `ScheduledHasTime`, `DefinitionsKept`, `PausedSilent`, `FiringsBounded` |
| `MemoryStoreProofs` | `TypeCorrect`; with one writer `ForgottenStays`, `RecallsCountedOnce`; with one writer and `Long = {}` also `StoredIsKept`, `FilesTellOneStory` | of `Shaped` (with `TypeOK`); `ForgottenStaysGone`, `RecallsCounted`; `Kept`, `FilesAgree` |
| `MessagePathProofs` | `PathTypeOK`, `PathWaitEnds`, `PathLossNeedsLoad`, `PathInOrder` | of `TypeOK`, `WaitEnds`; the action property `LossNeedsLoad`; the refinement `InOrder` |
| `TgGatewayProofs` | `TypeCorrect`, `QueueCorrect`, `GateCorrect`, `ForgottenCorrect`, `HandedCorrect` | of `TypeOK`, `QueueOutlives`, `Gate`, `ForgottenHandled`, `HandedInOrder` |

*ClawCore.* `TypeOK` and `InflightInv` are inductive, `LockInv` is once the types
are known. `NoMissedPending` needs `LockInv`: only the holder of the lock parks,
so nothing is parked between a client's look at the list and its wait.
`CancelledOnlyIfAsked` speaks of answers already given; `CancelInv` adds what
holds before there is an answer: while the abort flag is up, or the worker has
recorded a cancelled result, somebody asked for this very request. The order of
the pipeline is inductive with the types: every step moves a ticket from the end
of one station to the end of the next, and the first lemmas of the module say
what appending to, taking from and removing inside a sequence does to its order.
`EarlyCancelWins` rests on `IdsApart`, that an id is with one caller about to send
it, in the queue, with the worker or on an answer, and on `EarlyInv`: from an
accepted early cancel to the end of the chat the abort flag is up and the result
is not yet good, and then the result is the cancelled one wherever it goes.
`ServiceImplemented` is the step simulation: each step of the core is one of
`AgentService` or none. Taking an answer from the list or the queue is the
service's only because tickets are in order (`PipelineInOrder`): the first answer
that fits a receiver is the oldest that does.

*EventRouter.* `TableInv` is types, `TableLive` and that a mark belongs to an
event somebody was told is cancelled. `Serials` says that every event is in one
place and has a number of its own, `ToldOnce` that the events reported as
cancelled are finitely many. `FewCancelsKept` then follows from `Marks`: while
fewer cancels are open than the table has entries, a reported event that is
still pending has a marked entry. Only eviction could break it, and eviction
takes an entry that is not marked as long as there is one: by the pigeonhole
principle there is, since distinct marked entries stand for distinct reported
events.

*LuaJobs.* The types alone are not inductive: that an id is left when a record is
filled needs `BudgetInv`, which counts the calls that may still fill one (a bound
of the model). The rest follows from one view of the table. `Live` is the set of
jobs that hold a place: from the filling of the record until the task, or the
submit whose spawn failed, gives it back. `LiveInv` says that each has a record of
its own that is not final, that slots and ids agree, that a job about to be
spawned has no task yet and one submitter, that any two are apart in name and
group, and that the counter is their number. Most steps leave all of that alone
(`QuietStep`: to mark a record running, to ask it to stop, to clear one that is
not active); filling a record, spawning, unwinding and finishing are proved one by
one. `TellInv` adds that stops look at the records their targets were given, so a
target whose record is not active is not live, and ids never come back. The cap,
exclusion and record keeping are about `Executing`, a part of `Live`; they are not
inductive by themselves, because the check precedes the task.

*CapRegistry.* `CountExact` is not inductive alone: a call gives its count back by
slot index, so it rests on the slot still being its capability's (`SlotKept`),
which rests on no call executing in a group that is being cleared, which rests
on what the console found when it polled and on callers being refused from then
on. `RegistryInv` is the conjunction of the types, what the console's place
says about the group it works on (`ConsoleInv`), the table being exact
(`TableExact`), what holds of every call in progress (`CallInv`) and callbacks
agreeing with states (`RunningInv`). `RoomAssumption` (a slot for every capability) lets
registration always find its slots.

*RuleStore.* `StoreInv` adds to `TypeOK` and `MatchedAlive` what each stage of a
change says about the copies. `FileInv`: unless a file can have been garbled, one
task at a time is in an operation, and from the end of writing to the rename the
temporary file holds exactly its list. `DoneInv`: without a mishap that list is
the rules after the last successful change with the new change made, it is what
the rename puts in the file, and memory follows at the swap.

*Scheduler.* `TypeInv` is the types with `TodoInv`, that only occupied entries are
on the list of what is to be fired. `KindsInv` and `StageInv` say that each call is
only in steps of its own kind. On them rest `TimedInv` (for `ScheduledHasTime`,
with lemmas on `Refreshed` and `NextFire`: the next time of an entry is positive or
there is none), `KeptInv` (what each step of a save has already written, for
`DefinitionsKept`) and `QuietInv`: what was paused is paused in the table and in the
saved state, or missing from the definitions too. The attempt to prove the last
one showed that an add after a removal whose save was lost makes a new schedule
of an old name; the history variable starts anew there.

`FiringsBounded` compares a history with an entry that reloads, restarts, undone
changes and the user replace again and again. `CountInv` names every copy from which
an entry can come back, and says that each accounts for what was fired
(`Accounts`: as many runs, no next time once the runs are used up, none after a
once schedule's only firing): the table once it is loaded, the state in NVS unless
a publication is about to be saved, the copy a refused change goes back to, and,
for the definition, the file (`SavedInv`: it holds what the table holds, before the
change under way). That an accounting entry stays one needs the times: no call
has read a time to come (`NowInv`), what the task fires is due and not paused
(`DueInv`), and an entry that has a time aims at its own (`AimInv`). The mishaps
are the exact gaps in this: `unsaved` and `lost` break `CountInv`, `stale` and
`astray` the part about once schedules. `astray` was found here, as the step that
`AimInv` did not survive.

*MemoryStore.* The four safety theorems have hypotheses, and each is needed: with
two writers TLC finds all four properties violated, without a cut or a failure; with
a `Long` fact it finds `Kept` and `FilesAgree` violated, and the other two, whose
theorems do without this hypothesis, not. `Single` says that there is one task
besides the one that boots; neither the numbers of facts, labels, memories, cuts and
failures nor the thresholds are bounded.

The first third of the module is about the functions the model is built from:
what `Current` reads from a file (the last line of each id, `CurrentLast`), what
`Only`, `Merged`, `Counted`, `Trims` and `Relabelled` make of a list. They are
recursive functions on 0..n, so a property of the result is proved for the least
n at which it would fail (`LeastExists`, `UpTo`): an induction over a set of numbers
instead of over a predicate. `CompactedList` and `IndexedListed` sum up what a
compaction writes: living memories of the file, each with its id and fact, none
twice, and a catalog that counts exactly them.

`Shaped` is `TypeOK` with what each stage of a call holds (`GoodJob`), that the
labels of every index have ids of their own (`GoodIndex`), and the order of boot and
calls; it holds for any number of tasks. `MarkBounded`: no index counts recalls the
digest does not have. On these rest four invariants, each of which says what the
call under way holds in its hands at each stage, because between two files it is
the call, and not the files, that knows:

* `BygoneInv` (for `ForgottenStaysGone`): the list a compaction is about to write
  has no forgotten id, ids are never given again, and from the append of its line
  on the memory being forgotten is gone from the file;
* `TallyInv` (for `RecallsCounted`): a memory's count is within the digest up to the
  mark of the index that will be on file, and once more the digest for each cut or
  failure; the new records carry the new counts before the new index is written,
  which is the gap;
* `KeptInv` (for `Kept`): what is promised is in the file under an id the call is not
  about to forget, or, while the file is rewritten, in the list that will be in it;
* `FilesInv` (for `FilesAgree`): with what is in hand the files agree up to the
  facts a call still has to forget (`Told`, `Owed`): an update's two versions, a
  correction and what it corrects. A compaction needs none of this: from its list
  on, the agreement is its own (`IndexedListed`), which is why one that passes
  mends whatever was apart.

The proof of `Kept` did not go through at first: appending to a file that ends in a
torn line loses the record. TLC, with a second cut, showed that such a file can be
there after a boot; the history field `joined` and the second cut of `mem_files` are
the result.

*MessagePath.* `JobsInv` is the types, `JobsInHand`, `HandsApart` (no job is in two
places) and `WaiterWakes`. `WaitEnds` is part of it. `OrderInv` lines up six stations:
the router with an answer, the answers in the event queue, the core, its requests,
the router with a message, the messages in the event queue. What is at one was
accepted before what is at the next (`StationsInOrder`), and each queue is in
order itself. A step takes the oldest of a station to the end of the next, or
out; so what the router delivers is the oldest under way, which is all that
`Dialogue` asks (`PathInOrder`). Since being older is strict, no message is in two
places, and the messages in a full queue are as many as its slots: that is
`LossNeedsLoad`.

*TgGateway.* `QueueOutlives` is `OneReader`: until a second download task is made
beside a first, the running one is the one the handle tells of. The other two rest on
`Gate`, which is about the time no token was set under a running poll
(`crossed`). `Steady` relates the request under way, the answer in hand, the ring
and the offset: what is below the offset was looked at, an answer is a run of
updates of this bot from some point on, and every update handed on that an answer
may still repeat is in the ring. The last needs `RingAged`: with every key the
offset goes up by at least one, so the key that is written over is `RingSize` or
more below the offset. `Repeats` lets the service go back just as far, which is
what the ring is for; what a service repeated from further back would be handed on
again.
While a set token resets ring and offset, only the rest of `Gate` holds, and
nothing polls.

Left to TLC: liveness (`QueuedServed`, `CallsReturn`, `PublishReturns`,
`QueuedHandled`, `ConsoleReturns`, `StopReaches`, `DueHandled`, `Settles`,
`MessagesHandled`), which needs fairness and ENABLED and is out of the prover's
reach. Every other property the runs check is stated by a theorem. `Dialogue` and
`UnderWay` are written with a set and a history: a sequence filtered by kind would
be a fold, and a proof about it an induction for each step.

## 7. Not modelled

* What is said: prompts, JSON, templates, texts. Rules are matched or not.
* Visibility of capabilities to the model per session, the catalogue, and the
  list snapshots of `claw_cap` that are returned without the mutex.
* Stop and restart of the router task and of the scheduler task, which nothing in
  the firmware calls; claw_core has no stop at all.
* The one-second limits on taking the Lua mutex: no section under it blocks.
* The Lua runtime: when a job ends, the cleanups of every module run, those a
  concurrent job relies on included (`cap_lua_runtime.c:259`).
* More than one label for a memory, the keyword index (nothing reads it back),
  faults while the memory boots, writes that fail on a full flash, ids that
  collide after a boot with an unset clock (`claw_memory_extract.c:351`).
* Sending messages to Telegram, a gateway without a token.
* Histories of sessions, skills, the other gateways and the device services:
  components with status `not_modelled` in `PROJECT.json`, with the reason there.

## 8. Plan

Done, in this order: `ClawCore` with `AgentService`, `EventRouter`, `LuaJobs`,
`CapRegistry`, `RuleStore`, `Scheduler`, `MemoryStore`, `MessagePath` with
`Dialogue`, `TgGateway`; the proofs listed above.

What would come next:

1. `MemoryStore` with a lock around each call, to say what a repair of the two-writer
   losses would have to guard.
2. The rest of `cap_lua` and of the core's context as models of their own.
3. `SkillSession`: activation files, guards, the mapping of sessions.
4. The gateways that keep a connection (`cap_im_qq`: sequence numbers and
   resuming) as siblings of `TgGateway`.
5. The ownership of the display and the reconnects of `wifi_manager`.
