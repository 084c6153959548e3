-------------------------- MODULE CapRegistryProofs --------------------------
(* Proofs about CapRegistry, for any callers, groups, capabilities and      *)
(* number of slots.                                                         *)
EXTENDS CapRegistry, FiniteSetTheorems, TLAPS

\* The disjuncts of the next-state relation, each with its parameters.
LEMMA NextCases ==
  ASSUME [Next]_vars
  PROVE  \/ Enable \/ StartCallbacks \/ Confirm \/ StartFails \/ GiveUp
         \/ Disable \/ StopCallbacks \/ Drain \/ Poll \/ PollTimeout
         \/ UnloadCallbacks \/ Clear \/ StartAll \/ StopAll \/ AllVisited
         \/ \E g \in Groups : Visit(g) \/ Register(g)
         \/ \E g \in Groups, operation \in {"enable", "disable", "drain"} :
              Ask(g, operation)
         \/ \E c \in Callers, s \in Slots : Call(c, s)
         \/ \E c \in Callers : EndCall(c)
         \/ UNCHANGED vars
BY DEF Next, Console

\* What the console keeps true between its critical sections: a group that is
\* being unloaded is the one the console is at, and start_all and stop_all are
\* the only operations with groups left to visit.
ConsoleInv ==
  /\ admin.pc \in {"unloading", "clear"} => state[admin.group] = "unloading"
  /\ admin.pc \in {"starting", "confirm", "failed"} => state[admin.group] = "started"
  /\ admin.pc = "stopping" => state[admin.group] = "disabled"
  /\ admin.pc = "poll" => state[admin.group] = "draining"
  /\ admin.pc = "idle" => admin.all = "none"
  /\ admin.pc \in {"drain", "poll", "unloading", "clear"} => admin.all = "none"
  /\ admin.pc \in {"enable", "starting", "confirm", "failed"} => admin.all # "stop"
  /\ admin.pc \in {"disable", "stopping"} => admin.all # "start"
  /\ admin.pc = "next" => admin.all # "none"
  /\ admin.all = "start" => started
  /\ admin.pc \in {"starting", "confirm", "failed"} => started
  /\ ~started => \A g \in Groups : state[g] # "started"
  /\ admin.all = "stop" =>
       \A g \in Groups \ todo :
         state[g] = "started" => admin.pc = "disable" /\ admin.group = g

\* A call executes from the slot of the capability it called, and only while
\* the group is neither being cleared nor gone.
CallInv ==
  /\ SlotKept
  /\ \A c \in Callers :
       caller[c] # Quiet => state[GroupOf[caller[c].cap]] \notin {"absent", "unloading"}
  /\ CountExact

\* StateTellsRunning inside an operation.
RunningInv ==
  /\ \A g \in Groups :
       (admin.pc \in {"starting", "confirm", "failed", "stopping"} /\ g = admin.group) \/
         /\ state[g] = "started" => running[g] = "up"
         /\ state[g] \in {"disabled", "registered", "absent"} => running[g] # "up"
  /\ admin.pc \in {"starting", "failed"} => running[admin.group] # "up"
  /\ admin.pc = "confirm" => running[admin.group] = "up"
  /\ admin.pc = "clear" => running[admin.group] = "down"

\* A capability has a group, and no group is both a state and absent.
LEMMA GroupType ==
  ASSUME NEW d \in Caps
  PROVE  GroupOf[d] \in Groups /\ d # NoCap
BY CapAssumption

\* The capability a task is executing: its slot and its group exist.
LEMMA CallerType ==
  ASSUME Types, NEW c \in Callers, caller[c] # Quiet
  PROVE  /\ caller[c].slot \in Slots
         /\ caller[c].cap \in Caps
         /\ GroupOf[caller[c].cap] \in Groups
<1>1. caller[c] \in [slot : 0..SlotCount, cap : Caps \cup {NoCap}]
  BY DEF Types
<1>2. caller[c].slot = 0 <=> caller[c].cap = NoCap
  BY DEF Types
<1>3. caller[c].slot # 0
  BY <1>1, <1>2 DEF Quiet
<1> QED BY <1>1, <1>2, <1>3, GroupType, CapAssumption DEF Slots

\* Every step of the registry keeps the types of its state.
LEMMA TypesStep ==
  ASSUME Types, [Next]_vars
  PROVE  Types'
<1>1. CASE Enable
  BY <1>1 DEF Types, Enable, At, Goto, Return, MoveTo
<1>2. CASE StartCallbacks
  BY <1>2 DEF Types, StartCallbacks, At, Goto
<1>3. CASE Confirm
  BY <1>3 DEF Types, Confirm, At, Goto, Return, MoveTo
<1>4. CASE StartFails
  BY <1>4 DEF Types, StartFails, At, Goto
<1>5. CASE GiveUp
  BY <1>5 DEF Types, GiveUp, At, Goto, Return, MoveTo, Withdraw
<1>6. CASE Disable
  BY <1>6 DEF Types, Disable, At, Goto, Return, MoveTo
<1>7. CASE StopCallbacks
  BY <1>7 DEF Types, StopCallbacks, At, Goto, Return
<1>8. CASE Drain
  BY <1>8 DEF Types, Drain, At, Goto, Return, MoveTo
<1>9. CASE Poll
  BY <1>9 DEF Types, Poll, At, Goto, MoveTo
<1>10. CASE PollTimeout
  BY <1>10 DEF Types, PollTimeout, At, Goto, Return
<1>11. CASE UnloadCallbacks
  BY <1>11 DEF Types, UnloadCallbacks, At, Goto
<1>12. CASE Clear
  BY <1>12 DEF Types, Clear, At, Goto, Return, MoveTo, Empty
<1>13. CASE StartAll
  <2>1. started' \in BOOLEAN BY <1>13 DEF StartAll
  <2> QED BY <1>13, <2>1 DEF Types, StartAll, At
<1>14. CASE StopAll
  BY <1>14 DEF Types, StopAll, At
<1>15. CASE AllVisited
  <2>1. started' \in BOOLEAN BY <1>15 DEF AllVisited
  <2> QED BY <1>15, <2>1 DEF Types, AllVisited, At
<1>16. ASSUME NEW g \in Groups, Visit(g) PROVE Types'
  BY <1>16 DEF Types, Visit, At
<1>17. ASSUME NEW g \in Groups, Register(g) PROVE Types'
  <2>1. \A d \in Members(g) : d \in Caps BY DEF Members
  <2>2. slots' \in [Slots -> [cap : Caps \cup {NoCap}, active : Nat]]
    <3> SUFFICES ASSUME NEW s \in Slots
                 PROVE  slots'[s] \in [cap : Caps \cup {NoCap}, active : Nat]
      BY <1>17 DEF Register
    <3> QED BY <1>17, <2>1 DEF Register, Types
  <2>3. \A s \in Slots : slots'[s].cap = NoCap => slots'[s].active = 0
    BY <1>17 DEF Register, Types
  <2>4. admin'.pc \in {"idle", "enable"} /\ admin' \in [pc : {"idle", "enable"},
          group : Groups, all : {"none", "start", "stop"}]
    BY <1>17 DEF Register, Types
  <2>5. /\ state' \in [Groups -> {"absent", "registered", "started", "disabled",
                                 "draining", "unloading"}]
        /\ UNCHANGED <<started, todo, caller, running>>
    BY <1>17 DEF Register, Types, MoveTo
  <2> QED BY <2>2, <2>3, <2>4, <2>5 DEF Types
<1>18. ASSUME NEW g \in Groups, NEW operation \in {"enable", "disable", "drain"},
              Ask(g, operation)
       PROVE  Types'
  BY <1>18 DEF Types, Ask, At
<1>19. ASSUME NEW c \in Callers, NEW s \in Slots, Call(c, s) PROVE Types'
  <2>1. slots[s].cap # NoCap
    BY <1>19 DEF Types, Call, Empty
  <2> QED BY <1>19, <2>1, CapAssumption DEF Types, Call, Slots
<1>20. ASSUME NEW c \in Callers, EndCall(c) PROVE Types'
  <2>1. caller[c].slot \in Slots
    BY <1>20, CallerType DEF EndCall
  <2>2. /\ slots' \in [Slots -> [cap : Caps \cup {NoCap}, active : Nat]]
        /\ \A s \in Slots : slots'[s].cap = NoCap => slots'[s].active = 0
    BY <1>20, <2>1 DEF EndCall, Types, Empty
  <2>3. caller' = [caller EXCEPT ![c] = Quiet]
    BY <1>20 DEF EndCall
  <2>4. /\ caller' \in [Callers -> [slot : 0..SlotCount, cap : Caps \cup {NoCap}]]
        /\ \A e \in Callers : caller'[e].slot = 0 <=> caller'[e].cap = NoCap
    BY <2>3, CapAssumption DEF Types, Quiet
  <2>5. UNCHANGED <<state, started, admin, todo, running>>
    BY <1>20 DEF EndCall
  <2> QED BY <2>2, <2>4, <2>5 DEF Types
<1>21. CASE UNCHANGED vars
  BY <1>21 DEF Types, vars
<1> QED
  BY <1>1, <1>2, <1>3, <1>4, <1>5, <1>6, <1>7, <1>8, <1>9, <1>10, <1>11, <1>12, <1>13,
     <1>14, <1>15, <1>16, <1>17, <1>18, <1>19, <1>20, <1>21, NextCases
\* Between its critical sections the console finds what it left: the calls of
\* other tasks do not touch its group.
LEMMA ConsoleStep ==
  ASSUME Types, ConsoleInv, [Next]_vars
  PROVE  ConsoleInv'
<1>1. CASE Enable
  BY <1>1 DEF Types, ConsoleInv, Enable, At, Goto, Return, MoveTo, Leaving
<1>2. CASE StartCallbacks
  BY <1>2 DEF Types, ConsoleInv, StartCallbacks, At, Goto
<1>3. CASE Confirm
  BY <1>3 DEF Types, ConsoleInv, Confirm, At, Goto, Return, MoveTo, Leaving
<1>4. CASE StartFails
  BY <1>4 DEF Types, ConsoleInv, StartFails, At, Goto
<1>5. CASE GiveUp
  BY <1>5 DEF Types, ConsoleInv, GiveUp, At, Goto, Return, MoveTo, Withdraw, Leaving
<1>6. CASE Disable
  BY <1>6 DEF Types, ConsoleInv, Disable, At, Goto, Return, MoveTo, Leaving
<1>7. CASE StopCallbacks
  BY <1>7 DEF Types, ConsoleInv, StopCallbacks, At, Goto, Return
<1>8. CASE Drain
  BY <1>8 DEF Types, ConsoleInv, Drain, At, Goto, Return, MoveTo
<1>9. CASE Poll
  BY <1>9 DEF Types, ConsoleInv, Poll, At, Goto, MoveTo
<1>10. CASE PollTimeout
  BY <1>10 DEF Types, ConsoleInv, PollTimeout, At, Goto, Return
<1>11. CASE UnloadCallbacks
  BY <1>11 DEF Types, ConsoleInv, UnloadCallbacks, At, Goto
<1>12. CASE Clear
  BY <1>12 DEF Types, ConsoleInv, Clear, At, Goto, Return, MoveTo
<1>13. CASE StartAll
  BY <1>13 DEF Types, ConsoleInv, StartAll, At
<1>14. CASE StopAll
  BY <1>14 DEF Types, ConsoleInv, StopAll, At
<1>15. CASE AllVisited
  BY <1>15 DEF Types, ConsoleInv, AllVisited, At
<1>16. ASSUME NEW g \in Groups, Visit(g) PROVE ConsoleInv'
  BY <1>16 DEF Types, ConsoleInv, Visit, At
<1>17. ASSUME NEW g \in Groups, Register(g) PROVE ConsoleInv'
  <2>1. /\ state' = [state EXCEPT ![g] = "registered"]
        /\ admin.pc = "idle"
        /\ admin'.pc \in {"idle", "enable"} /\ admin'.all = admin.all
        /\ started' = started
    BY <1>17 DEF Register, MoveTo, At, Types
  <2> QED BY <2>1 DEF Types, ConsoleInv
<1>18. ASSUME NEW g \in Groups, NEW operation \in {"enable", "disable", "drain"},
              Ask(g, operation)
       PROVE  ConsoleInv'
  BY <1>18 DEF Types, ConsoleInv, Ask, At
<1>19. ASSUME UNCHANGED <<state, started, admin, todo>> PROVE ConsoleInv'
  BY <1>19 DEF ConsoleInv
<1> QED
  BY <1>1, <1>2, <1>3, <1>4, <1>5, <1>6, <1>7, <1>8, <1>9, <1>10, <1>11, <1>12, <1>13,
     <1>14, <1>15, <1>16, <1>17, <1>18, <1>19, NextCases DEF Call, EndCall, vars

\* A step that moves no capability between slots and makes no group appear or
\* vanish keeps the table exact.
LEMMA SameTable ==
  ASSUME Types, TableExact,
         \A s \in Slots : slots'[s].cap = slots[s].cap,
         \A g \in Groups : state'[g] = "absent" <=> state[g] = "absent"
  PROVE  TableExact'
BY CapAssumption DEF TableExact, Types

\* Only registering and clearing a group change which slots are taken.
LEMMA TableStep ==
  ASSUME Types, ConsoleInv, TableExact, [Next]_vars
  PROVE  TableExact'
<1>1. ASSUME UNCHANGED <<slots, state>> PROVE TableExact'
  BY <1>1, SameTable
<1>2. CASE Enable
  <2>1. \A g \in Groups : state'[g] = "absent" <=> state[g] = "absent"
    BY <1>2 DEF Types, Enable, MoveTo
  <2> QED BY <1>2, <2>1, SameTable DEF Enable
<1>3. CASE Confirm
  <2>1. \A g \in Groups : state'[g] = "absent" <=> state[g] = "absent"
    BY <1>3 DEF Types, Confirm, MoveTo, ConsoleInv, At
  <2> QED BY <1>3, <2>1, SameTable DEF Confirm
<1>4. CASE GiveUp
  <2>1. \A g \in Groups : state'[g] = "absent" <=> state[g] = "absent"
    BY <1>4 DEF Types, GiveUp, Withdraw, MoveTo, ConsoleInv, At
  <2> QED BY <1>4, <2>1, SameTable DEF GiveUp
<1>5. CASE Disable
  <2>1. \A g \in Groups : state'[g] = "absent" <=> state[g] = "absent"
    BY <1>5 DEF Types, Disable, MoveTo
  <2> QED BY <1>5, <2>1, SameTable DEF Disable
<1>6. CASE Drain
  <2>1. \A g \in Groups : state'[g] = "absent" <=> state[g] = "absent"
    BY <1>6 DEF Types, Drain, MoveTo
  <2> QED BY <1>6, <2>1, SameTable DEF Drain
<1>7. CASE Poll
  <2>1. \A g \in Groups : state'[g] = "absent" <=> state[g] = "absent"
    BY <1>7 DEF Types, Poll, MoveTo, ConsoleInv, At
  <2> QED BY <1>7, <2>1, SameTable DEF Poll
<1>8. CASE Clear
  <2> DEFINE g == admin.group
  <2>1. /\ g \in Groups
        /\ state' = [state EXCEPT ![g] = "absent"]
        /\ \A s \in Slots : slots'[s] = IF s \in SlotsOf(g) THEN Empty ELSE slots[s]
    BY <1>8 DEF Clear, MoveTo, Types
  <2>2. \A s \in Slots : s \in SlotsOf(g) <=> slots[s].cap \in Caps /\ GroupOf[slots[s].cap] = g
    BY DEF SlotsOf, Members
  <2>3. ASSUME NEW d \in Caps, GroupOf[d] = g
        PROVE  (\E s \in Slots : slots'[s].cap = d) <=> state'[GroupOf[d]] # "absent"
    BY <2>1, <2>2, <2>3, GroupType DEF Empty, Types
  <2>4. ASSUME NEW d \in Caps, GroupOf[d] # g
        PROVE  (\E s \in Slots : slots'[s].cap = d) <=> state'[GroupOf[d]] # "absent"
    <3>1. \A s \in Slots : slots'[s].cap = d <=> slots[s].cap = d
      BY <2>1, <2>2, <2>4, GroupType DEF Empty
    <3>2. state'[GroupOf[d]] = state[GroupOf[d]]
      BY <2>1, <2>4, GroupType DEF Types
    <3> QED BY <3>1, <3>2 DEF TableExact
  <2>5. \A s, t \in Slots : slots'[s].cap = slots'[t].cap /\ slots'[s].cap # NoCap => s = t
    BY <2>1 DEF TableExact, Empty
  <2> QED BY <2>3, <2>4, <2>5 DEF TableExact
<1>9. ASSUME NEW g \in Groups, Register(g) PROVE TableExact'
  <2>1. PICK f \in [Members(g) -> {s \in Slots : slots[s] = Empty}] :
          /\ \A d, e \in Members(g) : f[d] = f[e] => d = e
          /\ slots' = [s \in Slots |->
               IF \E d \in Members(g) : f[d] = s
                 THEN [cap |-> CHOOSE d \in Members(g) : f[d] = s, active |-> 0]
                 ELSE slots[s]]
    BY <1>9 DEF Register
  <2>2. \A d \in Members(g) : d \in Caps /\ GroupOf[d] = g /\ f[d] \in Slots /\ slots[f[d]] = Empty
    BY <2>1 DEF Members
  <2>3. \A d \in Members(g) : slots'[f[d]].cap = d
    <3> SUFFICES ASSUME NEW d \in Members(g) PROVE slots'[f[d]].cap = d
      OBVIOUS
    <3>1. (CHOOSE e \in Members(g) : f[e] = f[d]) = d
      BY <2>1
    <3> QED BY <2>1, <2>2, <3>1
  <2>4. \A s \in Slots : (~ \E d \in Members(g) : f[d] = s) => slots'[s] = slots[s]
    BY <2>1
  <2>5. state[g] = "absent" /\ state' = [state EXCEPT ![g] = "registered"]
    BY <1>9 DEF Register, MoveTo
  <2>6. \A s \in Slots : slots[s].cap \in Caps => slots'[s] = slots[s]
    BY <2>2, <2>4, GroupType DEF Empty
  <2>7. ASSUME NEW d \in Caps
        PROVE  (\E s \in Slots : slots'[s].cap = d) <=> state'[GroupOf[d]] # "absent"
    <3>1. CASE GroupOf[d] = g
      BY <2>2, <2>3, <2>5, <3>1 DEF Members, Types
    <3>2. CASE GroupOf[d] # g
      <4>1. \A s \in Slots : slots'[s].cap = d <=> slots[s].cap = d
        BY <2>2, <2>3, <2>4, <2>6, <3>2
      <4>2. state'[GroupOf[d]] = state[GroupOf[d]]
        BY <2>5, <3>2, GroupType DEF Types
      <4> QED BY <4>1, <4>2 DEF TableExact
    <3> QED BY <3>1, <3>2
  <2>8. ASSUME NEW s \in Slots, NEW t \in Slots,
               slots'[s].cap = slots'[t].cap, slots'[s].cap # NoCap
        PROVE  s = t
    <3>1. CASE /\ \E d \in Members(g) : f[d] = s
               /\ \E d \in Members(g) : f[d] = t
      BY <2>3, <2>8, <3>1
    <3>2. CASE /\ ~ \E d \in Members(g) : f[d] = s
               /\ ~ \E d \in Members(g) : f[d] = t
      BY <2>4, <2>8, <3>2 DEF TableExact
    <3>3. \A u, v \in Slots :
            /\ \E d \in Members(g) : f[d] = u
            /\ ~ \E d \in Members(g) : f[d] = v
            => slots'[u].cap # slots'[v].cap
      <4> SUFFICES ASSUME NEW u \in Slots, NEW v \in Slots,
                          NEW d \in Members(g), f[d] = u,
                          ~ \E e \in Members(g) : f[e] = v,
                          slots'[v].cap = d
                   PROVE  FALSE
        BY <2>3
      <4>1. slots[v].cap = d
        BY <2>4
      <4>2. state[GroupOf[d]] # "absent"
        BY <2>2, <4>1 DEF TableExact
      <4> QED BY <2>2, <2>5, <4>2
    <3> QED BY <2>8, <3>1, <3>2, <3>3
  <2> QED BY <2>7, <2>8 DEF TableExact
<1>10. ASSUME NEW c \in Callers, NEW s \in Slots, Call(c, s) PROVE TableExact'
  <2>1. \A t \in Slots : slots'[t].cap = slots[t].cap
    BY <1>10 DEF Call, Types
  <2> QED BY <1>10, <2>1, SameTable DEF Call
<1>11. ASSUME NEW c \in Callers, EndCall(c) PROVE TableExact'
  <2>1. \A t \in Slots : slots'[t].cap = slots[t].cap
    BY <1>11 DEF EndCall, Types
  <2> QED BY <1>11, <2>1, SameTable DEF EndCall
<1> QED
  BY <1>1, <1>2, <1>3, <1>4, <1>5, <1>6, <1>7, <1>8, <1>9, <1>10, <1>11, NextCases
  DEF StartCallbacks, StartFails, StopCallbacks, PollTimeout, UnloadCallbacks, StartAll,
      StopAll, AllVisited, Visit, Ask, vars
\* The calls in a slot are finitely many; a slot nobody executes from has
\* count 0 as the cardinality of no callers.
LEMMA ExecutingFinite ==
  ASSUME NEW s
  PROVE  /\ IsFiniteSet(Executing(s))
         /\ Cardinality(Executing(s)) \in Nat
         /\ Cardinality(Executing(s)) = 0 <=> Executing(s) = {}
<1>1. Executing(s) \subseteq Callers
  BY DEF Executing
<1>2. IsFiniteSet(Executing(s))
  BY <1>1, CallerAssumption, FS_Subset
<1> QED BY <1>2, FS_CardinalityType, FS_EmptySet

\* A group without active calls has no member that is executing: this is what
\* lets an unload go on.
LEMMA NobodyInside ==
  ASSUME Types, CallInv, NEW g \in Groups, ~HasActiveCalls(g),
         NEW c \in Callers, caller[c] # Quiet
  PROVE  GroupOf[caller[c].cap] # g
<1> SUFFICES ASSUME GroupOf[caller[c].cap] = g
             PROVE  FALSE
  OBVIOUS
<1> DEFINE s == caller[c].slot
<1>1. s \in Slots /\ caller[c].cap \in Caps
  BY CallerType
<1>2. slots[s].cap = caller[c].cap
  BY DEF CallInv, SlotKept
<1>3. s \in SlotsOf(g)
  BY <1>1, <1>2 DEF SlotsOf, Members
<1>4. slots[s].active \in Nat
  BY <1>1 DEF Types
<1>5. slots[s].active = 0
  BY <1>3, <1>4 DEF HasActiveCalls
<1>6. Cardinality(Executing(s)) = 0
  BY <1>1, <1>5 DEF CallInv, CountExact
<1>7. Executing(s) = {}
  BY <1>6, ExecutingFinite
<1>8. c \in Executing(s)
  BY DEF Executing
<1> QED BY <1>7, <1>8

\* A slot holds a capability while somebody executes from it.
LEMMA EmptySlotQuiet ==
  ASSUME Types, CallInv, NEW s \in Slots, slots[s].cap = NoCap
  PROVE  Executing(s) = {}
<1> SUFFICES ASSUME NEW c \in Executing(s)
             PROVE  FALSE
  OBVIOUS
<1>1. c \in Callers /\ caller[c].slot = s
  BY DEF Executing
<1>2. caller[c] # Quiet
  BY <1>1 DEF Quiet, Slots
<1> QED BY <1>1, <1>2, CallerType, CapAssumption DEF CallInv, SlotKept

\* Calls, ends of calls and the console's steps keep the counts exact and the
\* slots under executing calls.
LEMMA CallStep ==
  ASSUME Types, ConsoleInv, CallInv, [Next]_vars
  PROVE  CallInv'
<1>1. ASSUME UNCHANGED <<slots, caller>>,
             \A c \in Callers : caller[c] # Quiet =>
               state'[GroupOf[caller[c].cap]] \notin {"absent", "unloading"}
      PROVE  CallInv'
  BY <1>1 DEF CallInv, SlotKept, CountExact, Executing
<1>2. ASSUME UNCHANGED <<slots, caller, state>> PROVE CallInv'
  BY <1>1, <1>2 DEF CallInv
<1>3. ASSUME NEW g \in Groups, UNCHANGED <<slots, caller>>,
             NEW s \in {"registered", "started", "disabled", "draining"},
             state' = [state EXCEPT ![g] = s]
      PROVE  CallInv'
  <2>1. \A c \in Callers : caller[c] # Quiet =>
          state'[GroupOf[caller[c].cap]] \notin {"absent", "unloading"}
    BY <1>3, CallerType DEF CallInv, Types
  <2> QED BY <1>1, <1>3, <2>1
<1>4. admin.group \in Groups
  BY DEF Types
<1>5. CASE Enable
  BY <1>2, <1>3, <1>4, <1>5 DEF Enable, MoveTo
<1>6. CASE Confirm
  BY <1>2, <1>3, <1>4, <1>6 DEF Confirm, MoveTo
<1>7. CASE GiveUp
  BY <1>2, <1>3, <1>4, <1>7 DEF GiveUp, Withdraw, MoveTo
<1>8. CASE Disable
  BY <1>2, <1>3, <1>4, <1>8 DEF Disable, MoveTo
<1>9. CASE Drain
  BY <1>2, <1>3, <1>4, <1>9 DEF Drain, MoveTo
<1>10. CASE Poll
  <2>1. \A c \in Callers : caller[c] # Quiet => GroupOf[caller[c].cap] # admin.group
    BY <1>4, <1>10, NobodyInside DEF Poll
  <2>2. state' = [state EXCEPT ![admin.group] = "unloading"]
    BY <1>10 DEF Poll, MoveTo
  <2>3. \A c \in Callers : caller[c] # Quiet =>
          state'[GroupOf[caller[c].cap]] \notin {"absent", "unloading"}
    BY <2>1, <2>2, CallerType DEF CallInv, Types
  <2> QED BY <1>1, <1>10, <2>3 DEF Poll
<1>11. CASE Clear
  <2> DEFINE g == admin.group
  <2>1. state[g] = "unloading" /\ state' = [state EXCEPT ![g] = "absent"]
        /\ UNCHANGED caller
    BY <1>11 DEF Clear, At, ConsoleInv, MoveTo
  <2>2. \A c \in Callers : caller[c] # Quiet => GroupOf[caller[c].cap] # g
    BY <2>1 DEF CallInv
  <2>3. \A s \in Slots : slots'[s] = IF s \in SlotsOf(g) THEN Empty ELSE slots[s]
    BY <1>11 DEF Clear
  <2>4. \A c \in Callers : caller[c] # Quiet => caller[c].slot \notin SlotsOf(g)
    BY <2>2, CallerType DEF CallInv, SlotKept, SlotsOf, Members
  <2>5. SlotKept'
    BY <2>1, <2>3, <2>4, CallerType DEF CallInv, SlotKept
  <2>6. \A c \in Callers : caller'[c] # Quiet =>
          state'[GroupOf[caller'[c].cap]] \notin {"absent", "unloading"}
    BY <2>1, <2>2, CallerType DEF CallInv, Types
  <2>7. ASSUME NEW s \in Slots PROVE slots'[s].active = Cardinality(Executing(s))
    <3>1. CASE s \in SlotsOf(g)
      <4>1. ASSUME NEW c \in Executing(s) PROVE FALSE
        <5>1. c \in Callers /\ caller[c].slot = s BY DEF Executing
        <5>2. caller[c] # Quiet BY <5>1 DEF Quiet, Slots
        <5> QED BY <2>4, <3>1, <5>1, <5>2
      <4>2. Cardinality(Executing(s)) = 0
        BY <4>1, ExecutingFinite
      <4> QED BY <2>3, <3>1, <4>2 DEF Empty
    <3>2. CASE s \notin SlotsOf(g)
      BY <2>3, <3>2 DEF CallInv, CountExact
    <3> QED BY <3>1, <3>2
  <2>8. CountExact'
    BY <2>1, <2>7 DEF CountExact, Executing
  <2> QED BY <2>5, <2>6, <2>8 DEF CallInv
<1>12. ASSUME NEW g \in Groups, Register(g) PROVE CallInv'
  <2>1. PICK f \in [Members(g) -> {s \in Slots : slots[s] = Empty}] :
          slots' = [s \in Slots |->
               IF \E d \in Members(g) : f[d] = s
                 THEN [cap |-> CHOOSE d \in Members(g) : f[d] = s, active |-> 0]
                 ELSE slots[s]]
    BY <1>12 DEF Register
  <2>2. /\ state' = [state EXCEPT ![g] = "registered"]
        /\ UNCHANGED caller
    BY <1>12 DEF Register, MoveTo
  <2>3. \A s \in Slots :
          \/ slots'[s] = slots[s]
          \/ slots[s] = Empty /\ slots'[s].active = 0
    BY <2>1
  <2>4. SlotKept'
    <3> SUFFICES ASSUME NEW c \in Callers, caller[c] # Quiet
                 PROVE  slots'[caller[c].slot].cap = caller[c].cap
      BY <2>2 DEF SlotKept
    <3>1. slots[caller[c].slot].cap = caller[c].cap /\ caller[c].slot \in Slots
          /\ caller[c].cap # NoCap
      BY CallerType, GroupType DEF CallInv, SlotKept
    <3>2. slots[caller[c].slot] # Empty
      BY <3>1 DEF Empty
    <3> QED BY <2>3, <3>1, <3>2
  <2>5. \A c \in Callers : caller'[c] # Quiet =>
          state'[GroupOf[caller'[c].cap]] \notin {"absent", "unloading"}
    BY <2>2, CallerType DEF CallInv, Types
  <2>6. ASSUME NEW s \in Slots PROVE slots'[s].active = Cardinality(Executing(s))
    <3>1. CASE slots'[s] = slots[s]
      BY <3>1 DEF CallInv, CountExact
    <3>2. CASE slots[s] = Empty /\ slots'[s].active = 0
      <4>1. slots[s].cap = NoCap BY <3>2 DEF Empty
      <4> QED BY <3>2, <4>1, EmptySlotQuiet, ExecutingFinite
    <3> QED BY <2>3, <3>1, <3>2
  <2>7. CountExact'
    BY <2>2, <2>6 DEF CountExact, Executing
  <2> QED BY <2>4, <2>5, <2>7 DEF CallInv
<1>13. ASSUME NEW c \in Callers, NEW s \in Slots, Call(c, s) PROVE CallInv'
  <2>1. /\ caller[c] = Quiet
        /\ caller' = [caller EXCEPT ![c] = [slot |-> s, cap |-> slots[s].cap]]
        /\ slots' = [slots EXCEPT ![s] = [slots[s] EXCEPT !.active = slots[s].active + 1]]
        /\ UNCHANGED state
        /\ slots[s] \in [cap : Caps \cup {NoCap}, active : Nat]
        /\ state[GroupOf[slots[s].cap]] \in {"registered", "started"}
    BY <1>13 DEF Call, Types, Available
  <2>2. \A t \in Slots : slots'[t].cap = slots[t].cap
    BY <2>1 DEF Types
  <2>3. SlotKept'
    <3> SUFFICES ASSUME NEW e \in Callers, caller'[e] # Quiet
                 PROVE  slots'[caller'[e].slot].cap = caller'[e].cap
      BY DEF SlotKept
    <3>1. CASE e = c
      BY <2>1, <2>2, <3>1 DEF Types
    <3>2. CASE e # c
      <4>1. caller'[e] = caller[e] BY <2>1, <3>2 DEF Types
      <4> QED BY <2>2, <4>1, CallerType DEF CallInv, SlotKept
    <3> QED BY <3>1, <3>2
  <2>4. \A e \in Callers : caller'[e] # Quiet =>
          state'[GroupOf[caller'[e].cap]] \notin {"absent", "unloading"}
    BY <2>1 DEF CallInv, Types
  <2>5. Executing(s)' = Executing(s) \cup {c} /\ c \notin Executing(s)
    BY <2>1 DEF Executing, Types, Quiet, Slots
  <2>6. \A t \in Slots : t # s => Executing(t)' = Executing(t)
    BY <2>1 DEF Executing, Types, Quiet, Slots
  <2>7. Cardinality(Executing(s)') = Cardinality(Executing(s)) + 1
    BY <2>5, ExecutingFinite, FS_AddElement
  <2>8. slots'[s].active = slots[s].active + 1
    BY <2>1 DEF Types
  <2>9. \A t \in Slots : t # s => slots'[t] = slots[t]
    BY <2>1 DEF Types
  <2>10. CountExact'
    BY <2>6, <2>7, <2>8, <2>9 DEF CallInv, CountExact
  <2> QED BY <2>3, <2>4, <2>10 DEF CallInv
<1>14. ASSUME NEW c \in Callers, EndCall(c) PROVE CallInv'
  <2>0. PICK s \in Slots : s = caller[c].slot
    BY <1>14, CallerType DEF EndCall
  <2>1. /\ caller[c] # Quiet
        /\ caller' = [caller EXCEPT ![c] = Quiet]
        /\ UNCHANGED state
        /\ s \in Slots
        /\ slots[s].cap \in Caps
    BY <1>14, <2>0, CallerType DEF EndCall, CallInv, SlotKept
  <2>2. Executing(s)' = Executing(s) \ {c} /\ c \in Executing(s)
    BY <2>0, <2>1 DEF Executing, Types, Quiet, Slots
  <2>3. \A t \in Slots : t # s => Executing(t)' = Executing(t)
    BY <2>0, <2>1 DEF Executing, Types, Quiet, Slots
  <2>4. slots[s].active = Cardinality(Executing(s)) /\ slots[s].active \in Nat
        /\ slots[s].active > 0
    BY <2>1, <2>2, ExecutingFinite DEF CallInv, CountExact
  <2>5. slots' = [slots EXCEPT ![s] = [slots[s] EXCEPT !.active = slots[s].active - 1]]
    BY <1>14, <2>0, <2>1, <2>4, CapAssumption DEF EndCall, Empty
  <2>6. slots[s] \in [cap : Caps \cup {NoCap}, active : Nat]
    BY <2>1 DEF Types
  <2>7. slots'[s].active = slots[s].active - 1 /\ slots'[s].cap = slots[s].cap
    BY <2>1, <2>5, <2>6 DEF Types
  <2>8. \A t \in Slots : t # s => slots'[t] = slots[t]
    BY <2>5 DEF Types
  <2>9. Cardinality(Executing(s)') = Cardinality(Executing(s)) - 1
    BY <2>2, ExecutingFinite, FS_RemoveElement
  <2>10. CountExact'
    BY <2>3, <2>4, <2>7, <2>8, <2>9 DEF CallInv, CountExact
  <2>11. SlotKept'
    BY <2>0, <2>1, <2>7, <2>8, CallerType DEF CallInv, SlotKept, Types
  <2>12. \A e \in Callers : caller'[e] # Quiet =>
          state'[GroupOf[caller'[e].cap]] \notin {"absent", "unloading"}
    BY <2>1 DEF CallInv, Types
  <2> QED BY <2>10, <2>11, <2>12 DEF CallInv
<1> QED
  BY <1>2, <1>5, <1>6, <1>7, <1>8, <1>9, <1>10, <1>11, <1>12, <1>13, <1>14, NextCases
  DEF StartCallbacks, StartFails, StopCallbacks, PollTimeout, UnloadCallbacks, StartAll,
      StopAll, AllVisited, Visit, Ask, vars
\* The states of the groups and what their callbacks did stay in step,
\* through failed starts and inside an operation.
LEMMA RunningStep ==
  ASSUME Types, ConsoleInv, RunningInv, [Next]_vars
  PROVE  RunningInv'
<1>1. CASE Enable
  BY <1>1 DEF Types, ConsoleInv, RunningInv, Enable, At, Goto, Return, MoveTo, Leaving
<1>2. CASE StartCallbacks
  BY <1>2 DEF Types, ConsoleInv, RunningInv, StartCallbacks, At, Goto
<1>3. CASE Confirm
  BY <1>3 DEF Types, ConsoleInv, RunningInv, Confirm, At, Goto, Return, MoveTo, Leaving
<1>4. CASE StartFails
  BY <1>4 DEF Types, ConsoleInv, RunningInv, StartFails, At, Goto
<1>5. CASE GiveUp
  BY <1>5 DEF Types, ConsoleInv, RunningInv, GiveUp, At, Goto, Return, MoveTo, Withdraw,
              Leaving
<1>6. CASE Disable
  BY <1>6 DEF Types, ConsoleInv, RunningInv, Disable, At, Goto, Return, MoveTo, Leaving
<1>7. CASE StopCallbacks
  BY <1>7 DEF Types, ConsoleInv, RunningInv, StopCallbacks, At, Goto, Return
<1>8. CASE Drain
  BY <1>8 DEF Types, ConsoleInv, RunningInv, Drain, At, Goto, Return, MoveTo
<1>9. CASE Poll
  BY <1>9 DEF Types, ConsoleInv, RunningInv, Poll, At, Goto, MoveTo
<1>10. CASE PollTimeout
  BY <1>10 DEF Types, ConsoleInv, RunningInv, PollTimeout, At, Goto, Return
<1>11. CASE UnloadCallbacks
  BY <1>11 DEF Types, ConsoleInv, RunningInv, UnloadCallbacks, At, Goto
<1>12. CASE Clear
  BY <1>12 DEF Types, ConsoleInv, RunningInv, Clear, At, Goto, Return, MoveTo
<1>13. CASE StartAll
  BY <1>13 DEF Types, ConsoleInv, RunningInv, StartAll, At
<1>14. CASE StopAll
  BY <1>14 DEF Types, ConsoleInv, RunningInv, StopAll, At
<1>15. CASE AllVisited
  BY <1>15 DEF Types, ConsoleInv, RunningInv, AllVisited, At
<1>16. ASSUME NEW g \in Groups, Visit(g) PROVE RunningInv'
  BY <1>16 DEF Types, ConsoleInv, RunningInv, Visit, At
<1>17. ASSUME NEW g \in Groups, Register(g) PROVE RunningInv'
  <2>1. /\ state' = [state EXCEPT ![g] = "registered"]
        /\ state[g] = "absent"
        /\ admin.pc = "idle"
        /\ admin'.pc \in {"idle", "enable"}
        /\ running' = running
    BY <1>17 DEF Register, MoveTo, At, Types
  <2> QED BY <2>1 DEF Types, ConsoleInv, RunningInv
<1>18. ASSUME NEW g \in Groups, NEW operation \in {"enable", "disable", "drain"},
              Ask(g, operation)
       PROVE  RunningInv'
  BY <1>18 DEF Types, ConsoleInv, RunningInv, Ask, At
<1>19. ASSUME UNCHANGED <<state, admin, running>> PROVE RunningInv'
  BY <1>19 DEF RunningInv
<1> QED
  BY <1>1, <1>2, <1>3, <1>4, <1>5, <1>6, <1>7, <1>8, <1>9, <1>10, <1>11, <1>12, <1>13,
     <1>14, <1>15, <1>16, <1>17, <1>18, <1>19, NextCases DEF Call, EndCall, vars

\* The inductive invariant of the registry.
RegistryInv == Types /\ ConsoleInv /\ TableExact /\ CallInv /\ RunningInv

\* claw_cap_init: an empty table, every group absent, nobody calling.
LEMMA InitInv ==
  ASSUME Init
  PROVE  RegistryInv
<1>1. Types
  <2>1. started \in BOOLEAN BY DEF Init
  <2> QED BY <2>1, CapAssumption DEF Init, Types, Empty, Quiet
<1>2. ConsoleInv
  BY DEF Init, ConsoleInv
<1>3. TableExact
  BY CapAssumption DEF Init, TableExact, Empty
<1>4. SlotKept
  BY DEF Init, SlotKept
<1>5. CountExact
  <2> SUFFICES ASSUME NEW s \in Slots
               PROVE  slots[s].active = Cardinality(Executing(s))
    BY DEF CountExact
  <2>1. Executing(s) = {}
    BY DEF Executing, Init, Quiet, Slots
  <2>2. slots[s].active = 0
    BY DEF Init, Empty
  <2> QED BY <2>1, <2>2, FS_EmptySet
<1>6. CallInv
  BY <1>4, <1>5 DEF Init, CallInv
<1>7. RunningInv
  BY DEF Init, RunningInv
<1> QED BY <1>1, <1>2, <1>3, <1>6, <1>7 DEF RegistryInv

\* Every reachable state of the registry satisfies the inductive invariant:
\* the operations of claw_cap.c interleave with calls at their critical
\* sections only.
THEOREM RegistryInvariant == Spec => []RegistryInv
<1>1. Init => RegistryInv
  BY InitInv
<1>2. RegistryInv /\ [Next]_vars => RegistryInv'
  BY TypesStep, ConsoleStep, TableStep, CallStep, RunningStep DEF RegistryInv
<1> QED BY <1>1, <1>2, PTL DEF Spec

\* TypeOK: the descriptor table holds each member of each registered group in
\* one slot, and nothing else.
\* TypeOK for any number of tasks, groups, capabilities and slots.
THEOREM TypeCorrect == Spec => []TypeOK
<1>1. RegistryInv => TypeOK
  BY DEF RegistryInv, TypeOK
<1> QED BY <1>1, RegistryInvariant, PTL

\* CountExact: active_calls of a slot is the number of calls that execute from
\* it, whatever the console does to its group meanwhile.
THEOREM CountCorrect == Spec => []CountExact
<1>1. RegistryInv => CountExact
  BY DEF RegistryInv, CallInv
<1> QED BY <1>1, RegistryInvariant, PTL

\* SlotKept: the slot of an executing call still holds its capability, so the
\* call gives its count back where it took it (claw_cap.c finds the slot by
\* its index alone).
THEOREM SlotCorrect == Spec => []SlotKept
<1>1. RegistryInv => SlotKept
  BY DEF RegistryInv, CallInv
<1> QED BY <1>1, RegistryInvariant, PTL

\* UnloadAfterCalls: once the callbacks of an unload run, no member of the
\* group is executing, nor will one start to.
THEOREM UnloadCorrect == Spec => []UnloadAfterCalls
<1>1. RegistryInv => UnloadAfterCalls
  BY DEF RegistryInv, ConsoleInv, CallInv, UnloadAfterCalls
<1> QED BY <1>1, RegistryInvariant, PTL

\* StateTellsRunning: between two operations of the console the state of a
\* group agrees with what its start and stop callbacks last did.
THEOREM RunningCorrect == Spec => []StateTellsRunning
<1>1. RegistryInv => StateTellsRunning
  BY DEF RegistryInv, RunningInv, StateTellsRunning, Types
<1> QED BY <1>1, RegistryInvariant, PTL
=============================================================================
