----------------------------- MODULE CapRegistry -----------------------------
(***************************************************************************)
(* The capability registry of components/claw_modules/claw_cap.  The agent *)
(* core, the event router, Lua jobs and the console call capabilities; the *)
(* console registers, enables, disables and unloads groups of them.  The   *)
(* mutex is held while a slot is looked up or changed, never while a       *)
(* capability executes or a start or stop callback runs, so a call in      *)
(* progress is known to the registry only by the counter of its slot.      *)
(*                                                                         *)
(* The members of a group change state together, in one critical section:  *)
(* the state is kept once per group.  Group and capability names are       *)
(* distinct, and a call refused or not visible to the agent changes        *)
(* nothing.                                                                *)
(***************************************************************************)
EXTENDS Naturals, FiniteSets

CONSTANTS
  Callers,    \* tasks that call capabilities
  Groups,
  Caps,
  GroupOf,    \* the group of each capability
  SlotCount,  \* descriptor_capacity, after it has grown
  NoCap       \* an empty slot

ASSUME CapAssumption ==
  /\ GroupOf \in [Caps -> Groups]
  /\ NoCap \notin Caps
  /\ SlotCount \in Nat

ASSUME CallerAssumption == IsFiniteSet(Callers)

ASSUME RoomAssumption == IsFiniteSet(Caps) /\ Cardinality(Caps) <= SlotCount

VARIABLES
  slots,    \* descriptor_slots
  state,    \* the state of each group
  started,  \* s_runtime.started
  admin,    \* where the console is in an operation, and on which group
  todo,     \* the groups start_all or stop_all has yet to visit
  caller,   \* the slot each caller executes from, and the capability it called
  running   \* history: what the start and stop callbacks made of each group

vars == <<slots, state, started, admin, todo, caller, running>>

Slots == 1..SlotCount
Empty == [cap |-> NoCap, active |-> 0]
Quiet == [slot |-> 0, cap |-> NoCap]

Members(g) == {d \in Caps : GroupOf[d] = g}

SlotsOf(g) == {s \in Slots : slots[s].cap \in Members(g)}

Init ==
  /\ slots = [s \in Slots |-> Empty]
  /\ state = [g \in Groups |-> "absent"]
  /\ started = FALSE
  /\ \E g \in Groups : admin = [pc |-> "idle", group |-> g, all |-> "none"]
  /\ todo = {}
  /\ caller = [c \in Callers |-> Quiet]
  /\ running = [g \in Groups |-> "down"]

-----------------------------------------------------------------------------
(* claw_cap_call.                                                          *)

\* claw_cap_descriptor_is_available; the variant refuses disabled ones only.
AvailableEnabled(g) == state[g] # "disabled"
Available(g) == state[g] \in {"registered", "started"}

Call(c, s) ==
  /\ caller[c] = Quiet
  /\ slots[s] # Empty
  /\ Available(GroupOf[slots[s].cap])
  /\ slots' = [slots EXCEPT ![s].active = @ + 1]
  /\ caller' = [caller EXCEPT ![c] = [slot |-> s, cap |-> slots[s].cap]]
  /\ UNCHANGED <<state, started, admin, todo, running>>

\* The slot is found by its index alone.
EndCall(c) ==
  LET s == caller[c].slot
  IN /\ caller[c] # Quiet
     /\ slots' = IF slots[s] # Empty /\ slots[s].active > 0
                   THEN [slots EXCEPT ![s].active = @ - 1]
                   ELSE slots
     /\ caller' = [caller EXCEPT ![c] = Quiet]
     /\ UNCHANGED <<state, started, admin, todo, running>>

-----------------------------------------------------------------------------
(* The console's operations.                                               *)

At(pc) == admin.pc = pc
Goto(pc) == admin' = [admin EXCEPT !.pc = pc]
Return == Goto(IF admin.all = "none" THEN "idle" ELSE "next")

MoveTo(g, s) == state' = [state EXCEPT ![g] = s]
Leaving(g) == state[g] \in {"draining", "unloading"}

\* claw_cap_register_group: each member takes a free slot.
Register(g) ==
  /\ At("idle")
  /\ state[g] = "absent"
  /\ \E f \in [Members(g) -> {s \in Slots : slots[s] = Empty}] :
       /\ \A d, e \in Members(g) : f[d] = f[e] => d = e
       /\ slots' = [s \in Slots |->
            IF \E d \in Members(g) : f[d] = s
              THEN [cap |-> CHOOSE d \in Members(g) : f[d] = s, active |-> 0]
              ELSE slots[s]]
  /\ MoveTo(g, "registered")
  /\ admin' = [admin EXCEPT !.pc = IF started THEN "enable" ELSE "idle", !.group = g]
  /\ UNCHANGED <<started, todo, caller, running>>

Ask(g, operation) ==
  /\ At("idle")
  /\ state[g] # "absent"
  /\ operation \in {"enable", "disable", "drain"}
  /\ admin' = [admin EXCEPT !.pc = operation, !.group = g]
  /\ UNCHANGED <<slots, state, started, todo, caller, running>>

\* claw_cap_enable_group: a started group is callable before its start
\* callbacks have run.
Enable ==
  LET g == admin.group
  IN /\ At("enable")
     /\ IF state[g] = "absent" \/ Leaving(g) \/ (started /\ state[g] = "started")
          THEN Return /\ UNCHANGED state
          ELSE IF started THEN MoveTo(g, "started") /\ Goto("starting")
                          ELSE MoveTo(g, "registered") /\ Return
     /\ UNCHANGED <<slots, started, todo, caller, running>>

StartCallbacks ==
  /\ At("starting")
  /\ running' = [running EXCEPT ![admin.group] = "up"]
  /\ Goto("confirm")
  /\ UNCHANGED <<slots, state, started, todo, caller>>

\* claw_cap_start_group_locked.
Confirm ==
  /\ At("confirm")
  /\ IF Leaving(admin.group) THEN UNCHANGED state ELSE MoveTo(admin.group, "started")
  /\ Return
  /\ UNCHANGED <<slots, started, todo, caller, running>>

\* A callback fails: those that ran before it are not undone.
StartFails ==
  /\ At("starting")
  /\ \E r \in {running[admin.group], "partly"} :
       running' = [running EXCEPT ![admin.group] = r]
  /\ Goto("failed")
  /\ UNCHANGED <<slots, state, started, todo, caller>>

\* The variant leaves the group as it was published.
KeepStarted(g) == state' = [state EXCEPT ![g] = "started"]
Withdraw(g) == MoveTo(g, "disabled")

GiveUp ==
  /\ At("failed")
  /\ IF Leaving(admin.group) THEN UNCHANGED state ELSE Withdraw(admin.group)
  /\ Return
  /\ UNCHANGED <<slots, started, todo, caller, running>>

\* claw_cap_disable_group: calls in progress are not waited for.
Disable ==
  LET g == admin.group
  IN /\ At("disable")
     /\ IF state[g] \in {"absent", "disabled"} \/ Leaving(g)
          THEN Return /\ UNCHANGED state
          ELSE MoveTo(g, "disabled") /\ Goto("stopping")
     /\ UNCHANGED <<slots, started, todo, caller, running>>

StopCallbacks ==
  /\ At("stopping")
  /\ running' = [running EXCEPT ![admin.group] = "down"]
  /\ Return
  /\ UNCHANGED <<slots, state, started, todo, caller>>

-----------------------------------------------------------------------------
(* claw_cap_unregister_group.                                              *)

Drain ==
  LET g == admin.group
  IN /\ At("drain")
     /\ IF state[g] \in {"absent", "unloading"}
          THEN Return /\ UNCHANGED state
          ELSE MoveTo(g, "draining") /\ Goto("poll")
     /\ UNCHANGED <<slots, started, todo, caller, running>>

\* claw_cap_group_has_active_calls_locked; the variant looks at one slot.
HasActiveCallsFirst(g) ==
  SlotsOf(g) # {} /\ slots[CHOOSE s \in SlotsOf(g) : TRUE].active > 0
HasActiveCalls(g) == \E s \in SlotsOf(g) : slots[s].active > 0

Poll ==
  /\ At("poll")
  /\ ~HasActiveCalls(admin.group)
  /\ MoveTo(admin.group, "unloading")
  /\ Goto("unloading")
  /\ UNCHANGED <<slots, started, todo, caller, running>>

\* ESP_ERR_TIMEOUT leaves the group draining; the variant polls on.
DeadlineNever == FALSE
Deadline == HasActiveCalls(admin.group)

PollTimeout ==
  /\ At("poll")
  /\ Deadline
  /\ Return
  /\ UNCHANGED <<slots, state, started, todo, caller, running>>

UnloadCallbacks ==
  /\ At("unloading")
  /\ running' = [running EXCEPT ![admin.group] = "down"]
  /\ Goto("clear")
  /\ UNCHANGED <<slots, state, started, todo, caller>>

Clear ==
  /\ At("clear")
  /\ slots' = [s \in Slots |-> IF s \in SlotsOf(admin.group) THEN Empty ELSE slots[s]]
  /\ MoveTo(admin.group, "absent")
  /\ Return
  /\ UNCHANGED <<started, todo, caller, running>>

-----------------------------------------------------------------------------
(* claw_cap_start_all and claw_cap_stop_all visit the groups one by one.   *)

StartAll ==
  /\ At("idle")
  /\ ~started
  /\ started' = TRUE
  /\ admin' = [admin EXCEPT !.pc = "next", !.all = "start"]
  /\ todo' = Groups
  /\ UNCHANGED <<slots, state, caller, running>>

StopAll ==
  /\ At("idle")
  /\ admin' = [admin EXCEPT !.pc = "next", !.all = "stop"]
  /\ todo' = Groups
  /\ UNCHANGED <<slots, state, started, caller, running>>

Visit(g) ==
  /\ At("next")
  /\ g \in todo
  /\ todo' = todo \ {g}
  /\ \/ /\ admin.all = "start" /\ state[g] \notin {"absent", "disabled"}
        /\ admin' = [admin EXCEPT !.pc = "enable", !.group = g]
     \/ /\ admin.all = "stop" /\ state[g] = "started"
        /\ admin' = [admin EXCEPT !.pc = "disable", !.group = g]
     \/ /\ admin.all = "start" => state[g] \in {"absent", "disabled"}
        /\ admin.all = "stop" => state[g] # "started"
        /\ UNCHANGED admin
  /\ UNCHANGED <<slots, state, started, caller, running>>

AllVisited ==
  /\ At("next")
  /\ todo = {}
  /\ started' = (admin.all = "start")
  /\ admin' = [admin EXCEPT !.pc = "idle", !.all = "none"]
  /\ UNCHANGED <<slots, state, todo, caller, running>>

-----------------------------------------------------------------------------
Console ==
  \/ Enable \/ StartCallbacks \/ Confirm \/ StartFails \/ GiveUp
  \/ Disable \/ StopCallbacks
  \/ Drain \/ Poll \/ PollTimeout \/ UnloadCallbacks \/ Clear
  \/ (\E g \in Groups : Visit(g)) \/ AllVisited

Next ==
  \/ Console
  \/ StartAll \/ StopAll
  \/ \E g \in Groups : Register(g)
  \/ \E g \in Groups, operation \in {"enable", "disable", "drain"} : Ask(g, operation)
  \/ \E c \in Callers, s \in Slots : Call(c, s)
  \/ \E c \in Callers : EndCall(c)

Spec == Init /\ [][Next]_vars

(* The console goes on with what it has begun; its callbacks return.  A    *)
(* capability need not return.                                             *)
FairSpec == Spec /\ WF_vars(Console)

-----------------------------------------------------------------------------
(* Properties.                                                             *)

\* The members of a group are in the table, each in one slot, from its
\* registration until it is cleared.
TableExact ==
  /\ \A d \in Caps :
       (\E s \in Slots : slots[s].cap = d) <=> state[GroupOf[d]] # "absent"
  /\ \A s, t \in Slots : slots[s].cap = slots[t].cap /\ slots[s].cap # NoCap => s = t

Types ==
  /\ slots \in [Slots -> [cap : Caps \cup {NoCap}, active : Nat]]
  /\ \A s \in Slots : slots[s].cap = NoCap => slots[s].active = 0
  /\ state \in [Groups -> {"absent", "registered", "started", "disabled", "draining",
                           "unloading"}]
  /\ started \in BOOLEAN
  /\ admin \in [pc : {"idle", "enable", "starting", "confirm", "failed", "disable",
                      "stopping", "drain", "poll", "unloading", "clear", "next"},
                group : Groups, all : {"none", "start", "stop"}]
  /\ todo \subseteq Groups
  /\ caller \in [Callers -> [slot : 0..SlotCount, cap : Caps \cup {NoCap}]]
  /\ \A c \in Callers : caller[c].slot = 0 <=> caller[c].cap = NoCap
  /\ running \in [Groups -> {"down", "partly", "up"}]

\* The types of the state, an empty slot counting no call, and the table of
\* descriptors in step with the states of the groups.
TypeOK == Types /\ TableExact

Executing(s) == {c \in Callers : caller[c].slot = s}

\* active_calls counts the calls that execute from the slot, through every
\* enable, disable, unload and registration of another group in between.
CountExact == \A s \in Slots : slots[s].active = Cardinality(Executing(s))

\* A slot is not cleared, nor given to another capability, under a call: the
\* call gives its count back to the slot it took it from.
SlotKept == \A c \in Callers : caller[c] # Quiet => slots[caller[c].slot].cap = caller[c].cap

\* The stop callbacks of an unload run, and the group is cleared, only when
\* no call to any member is executing.
UnloadAfterCalls ==
  admin.pc \in {"unloading", "clear"} =>
    \A c \in Callers : caller[c] # Quiet => GroupOf[caller[c].cap] # admin.group

\* Between two operations the state of a group tells whether its callbacks
\* have it running: a started one is fully up, a disabled, registered or
\* absent one is not, whatever failed on the way.
StateTellsRunning ==
  admin.pc \in {"idle", "next"} =>
    \A g \in Groups :
      /\ state[g] = "started" => running[g] = "up"
      /\ state[g] \in {"disabled", "registered", "absent"} => running[g] # "up"

\* Every operation of the console returns, although a capability may never:
\* the unload gives up at its deadline.
ConsoleReturns == admin.pc # "idle" ~> admin.pc = "idle"
=============================================================================
