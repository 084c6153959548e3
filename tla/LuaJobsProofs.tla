---------------------------- MODULE LuaJobsProofs ----------------------------
(* Proofs about LuaJobs, for any clients, jobs, size of the table and limit *)
(* on the scripts that execute at once.                                     *)
EXTENDS LuaJobs, FiniteSetTheorems, TLAPS

\* The disjuncts of the next-state relation, each with its parameters.
LEMMA NextCases ==
  ASSUME [Next]_vars
  PROVE  \/ \E c \in Clients :
              \/ Submit(c) \/ StopJob(c) \/ StopAll(c)
              \/ Check(c) \/ Refuse(c) \/ Commit(c) \/ CommitFails(c)
              \/ Spawn(c) \/ SpawnFails(c) \/ Unwind(c) \/ Mark(c)
              \/ Settle(c) \/ SettleWoken(c) \/ SettleTimeout(c)
              \/ Ask(c) \/ Look(c) \/ Woken(c) \/ WaitTimeout(c) \/ Again(c)
         \/ \E n \in Ids : ScriptEnds(n) \/ ScriptStops(n) \/ Finish(n) \/ Give(n)
         \/ UNCHANGED vars
BY DEF Next, Submitter, Stopper, Runner

-----------------------------------------------------------------------------
(* Choices.                                                                *)

\* A set of slots, or of ids, has a least element.
LEMMA LeastExists ==
  ASSUME NEW S, S \subseteq Nat, S # {}
  PROVE  \E i \in S : \A j \in S : i <= j
<1> DEFINE R == OpToRel(<, Nat)
<1>1. IsWellFoundedOn(R, Nat)
  BY NatLessThanWellFounded, Zenon
<1>2. PICK i \in S : \A j \in S : ~(<<j, i>> \in R)
  <2> HIDE DEF R
  <2> QED BY <1>1, WFMin
<1>3. \A j \in S : <<j, i>> \in R <=> j < i
  BY Zenon DEF OpToRel
<1>4. \A j \in S : ~(j < i)
  <2> HIDE DEF R
  <2> QED BY <1>2, <1>3
<1>5. i \in Nat /\ \A j \in S : j \in Nat
  OBVIOUS
<1>6. \A j \in S : i <= j
  <2> HIDE DEF R
  <2> QED BY <1>4, <1>5
<1> QED BY <1>6

LEMMA LeastSlot ==
  ASSUME NEW S, S \subseteq Slots, S # {}
  PROVE  Least(S) \in S
<1>1. S \subseteq Nat
  BY DEF Slots
<1>2. \E i \in S : \A j \in S : i <= j
  BY <1>1, LeastExists
<1> QED BY <1>2 DEF Least

\* A call that stops jobs always has a target in hand.
LEMMA TargetChosen ==
  ASSUME TypeOK, NEW c \in Clients, client[c].pc \in Waits
  PROVE  Target(c) \in client[c].todo /\ Target(c) \in Targets
<1> DEFINE S == {t.slot : t \in client[c].todo}
<1>1. client[c].todo \subseteq Targets /\ client[c].todo # {}
  BY DEF TypeOK, ClientRecords
<1>2. S \subseteq Nat /\ S # {}
  BY <1>1 DEF Targets, Slots
<1>3. PICK i \in S : \A j \in S : i <= j
  <2> HIDE DEF S
  <2> QED BY <1>2, LeastExists
<1>4. \E t \in client[c].todo : \A u \in client[c].todo : t.slot <= u.slot
  BY <1>3
<1> QED BY <1>1, <1>4 DEF Target

-----------------------------------------------------------------------------
(* Where the clients are.                                                  *)

ClientsOK ==
  /\ client \in [Clients -> ClientRecords]
  /\ \A c \in Clients : client[c].pc \in Waits => client[c].todo # {}

LEMMA IdleType == Idle \in ClientRecords /\ Idle.pc = "idle" /\ AnyKind \in Kinds
<1>1. AnyKind \in Kinds
  BY LuaAssumption DEF AnyKind
<1> QED BY <1>1, LuaAssumption DEF Idle, ClientRecords, Stages

\* A client that moves on keeps its locals.
LEMMA GotoKeeps ==
  ASSUME ClientsOK, NEW c \in Clients, NEW pc \in Stages, Goto(c, pc),
         pc \in Waits => client[c].todo # {}
  PROVE  ClientsOK'
BY DEF ClientsOK, Goto, ClientRecords

LEMMA DoneKeeps ==
  ASSUME ClientsOK, NEW c \in Clients, Done(c)
  PROVE  ClientsOK'
BY IdleType DEF ClientsOK, Done, Waits

\* A call for one target or more.
LEMMA AskForKeeps ==
  ASSUME TypeOK, ClientsOK, NEW c \in Clients, NEW S, S \subseteq Used, S # {}, AskFor(c, S)
  PROVE  ClientsOK'
<1> DEFINE T == {[slot |-> i, id |-> jobs[i].id] : i \in S}
<1>1. \A i \in S : i \in Slots /\ jobs[i].id \in Ids
  BY LuaAssumption DEF Used, TypeOK, Records, Ids
<1>2. T \subseteq Targets /\ T # {}
  <2>1. \A i \in S : [slot |-> i, id |-> jobs[i].id] \in Targets
    BY <1>1 DEF Targets
  <2>2. PICK i \in S : TRUE
    OBVIOUS
  <2>3. [slot |-> i, id |-> jobs[i].id] \in T
    BY <2>2
  <2> QED BY <2>1, <2>3
<1>3. [Idle EXCEPT !.pc = "ask", !.todo = T] \in ClientRecords
  BY <1>2, IdleType DEF ClientRecords, Stages, Waits
<1>4. client' = [client EXCEPT ![c] = [Idle EXCEPT !.pc = "ask", !.todo = T]]
  BY DEF AskFor
<1>5. [Idle EXCEPT !.pc = "ask", !.todo = T].todo = T
  BY DEF Idle
<1> QED BY <1>2, <1>3, <1>4, <1>5 DEF ClientsOK

LEMMA ProceedKeeps ==
  ASSUME ClientsOK, NEW c \in Clients, NEW ok \in BOOLEAN, Proceed(c, ok)
  PROVE  ClientsOK'
<1> DEFINE rest == client[c].todo \ {Target(c)}
           Moved(pc) == [client[c] EXCEPT !.pc = pc, !.todo = rest]
<1>1. CASE (Submitting(c) /\ ~ok) \/ (~Submitting(c) /\ rest = {})
  BY <1>1, DoneKeeps DEF Proceed
<1>2. CASE ~((Submitting(c) /\ ~ok) \/ (~Submitting(c) /\ rest = {}))
  <2>1. client' = [client EXCEPT ![c].pc = IF Submitting(c) /\ ok THEN "check" ELSE "ask",
                                 ![c].todo = rest]
    BY <1>2 DEF Proceed
  <2>2. \A pc \in Stages : Moved(pc) \in ClientRecords /\ Moved(pc).pc = pc /\ Moved(pc).todo = rest
    BY DEF ClientsOK, ClientRecords
  <2>3. CASE Submitting(c)
    <3>1. client' = [client EXCEPT ![c] = Moved("check")]
      BY <1>2, <2>1, <2>3
    <3> HIDE DEF Moved
    <3> QED BY <2>2, <3>1 DEF ClientsOK, Stages, Waits
  <2>4. CASE ~Submitting(c)
    <3>1. client' = [client EXCEPT ![c] = Moved("ask")]
      BY <1>2, <2>1, <2>4
    <3>2. rest # {}
      BY <1>2, <2>4
    <3> HIDE DEF Moved
    <3> QED BY <2>2, <3>1, <3>2 DEF ClientsOK, Stages, Waits
  <2> QED BY <2>3, <2>4
<1> QED BY <1>1, <1>2

-----------------------------------------------------------------------------
(* The calls that will still fill a record: each has the id it needs.      *)

Bound == {c \in Clients : \/ client[c].pc \in {"check", "commit"}
                          \/ client[c].pc \in Waits /\ client[c].replace}

BudgetInv == last + Cardinality(Bound) <= calls

LEMMA BoundFinite == IsFiniteSet(Bound) /\ Cardinality(Bound) \in Nat
<1>1. Bound \subseteq Clients
  BY DEF Bound
<1>2. IsFiniteSet(Bound)
  BY <1>1, LuaAssumption, FS_Subset
<1> QED BY <1>2, FS_CardinalityType

\* A client about to fill a record finds an id left.
LEMMA IdLeft ==
  ASSUME TypeOK, BudgetInv, NEW c \in Clients, client[c].pc = "commit"
  PROVE  last + 1 <= calls /\ last + 1 \in Ids
<1>1. c \in Bound
  BY DEF Bound
<1>2. Cardinality(Bound) # 0
  BY <1>1, BoundFinite, FS_EmptySet
<1>3. last + 1 <= calls
  BY <1>2, BoundFinite DEF BudgetInv, TypeOK
<1> QED BY <1>3, LuaAssumption DEF TypeOK, Ids

-----------------------------------------------------------------------------
(* The types.                                                              *)

TablesOK ==
  /\ jobs \in [Slots -> Records]
  /\ sem \in [Slots -> BOOLEAN]
  /\ running \in Nat
  /\ task \in [Ids -> {"none", "exec", "end", "give", "gone"}]
  /\ kind \in [Ids -> Kinds] /\ slotOf \in [Ids -> Slots] /\ last \in 0..calls
  /\ calls \in 0..MaxCalls
  /\ told \subseteq Ids

LEMMA TypeParts == TypeOK <=> TablesOK /\ ClientsOK
BY DEF TypeOK, TablesOK, ClientsOK

\* A record that changes its status or its request to stop is still a record.
LEMMA RecordTypes ==
  ASSUME NEW rec \in Records
  PROVE  /\ [rec EXCEPT !.stop = TRUE] \in Records
         /\ Marked(rec) \in Records
         /\ [rec EXCEPT !.status = Outcome(rec)] \in Records
         /\ Free \in Records
         /\ [Free EXCEPT !.id = 0] \in Records
         /\ \A n \in Ids : [Free EXCEPT !.id = n] \in Records
<1>1. "running" \in Status /\ "queued" \in Status /\ Outcome(rec) \in Status
  BY DEF Outcome, Status
<1>2. 0 \in 0..MaxCalls /\ \A n \in Ids : n \in 0..MaxCalls
  BY LuaAssumption DEF Ids
<1>3. [rec EXCEPT !.stop = TRUE] \in Records
  BY DEF Records
<1>4. Marked(rec) \in Records /\ [rec EXCEPT !.status = Outcome(rec)] \in Records
  BY <1>1 DEF Marked, Records
<1>5. Free \in Records
  BY <1>1, <1>2 DEF Free, Records
<1>6. ASSUME NEW n \in 0..MaxCalls PROVE [Free EXCEPT !.id = n] \in Records
  BY <1>1 DEF Free, Records
<1> QED BY <1>2, <1>3, <1>4, <1>5, <1>6

\* The records a submit may take are slots of the table.
LEMMA ReusableType == Reusable \subseteq Slots
<1>1. CASE Slots \ Used # {}
  BY <1>1, LeastSlot DEF Reusable
<1>2. CASE Slots \ Used = {}
  BY <1>2 DEF Reusable, Used
<1> QED BY <1>1, <1>2

\* What the steps of the clients do to the clients.
LEMMA ClientsStep ==
  ASSUME TypeOK, BudgetInv, [Next]_vars
  PROVE  ClientsOK'
<1> USE TypeParts
<1>1. ASSUME NEW c \in Clients, Submit(c) PROVE ClientsOK'
  <2>1. PICK k \in Kinds, r \in BOOLEAN :
          client' = [client EXCEPT ![c] = [Idle EXCEPT !.pc = "check", !.kind = k,
                                                       !.replace = r]]
    BY <1>1 DEF Submit
  <2>2. /\ [Idle EXCEPT !.pc = "check", !.kind = k, !.replace = r] \in ClientRecords
        /\ [Idle EXCEPT !.pc = "check", !.kind = k, !.replace = r].pc = "check"
    BY IdleType DEF ClientRecords, Stages
  <2> QED BY <2>1, <2>2 DEF ClientsOK, Waits
<1>2. ASSUME NEW c \in Clients, StopJob(c) PROVE ClientsOK'
  BY <1>2, AskForKeeps DEF StopJob
<1>3. ASSUME NEW c \in Clients, StopAll(c) PROVE ClientsOK'
  <2>1. PICK S : S \subseteq Active /\ S # {} /\ AskFor(c, S)
    BY <1>3 DEF StopAll
  <2> QED BY <2>1, AskForKeeps DEF Active
<1>4. ASSUME NEW c \in Clients, Check(c) PROVE ClientsOK'
  <2> DEFINE conflict == Conflicts(client[c].kind)
             i == Least(conflict)
             T == {[slot |-> i, id |-> jobs[i].id]}
  <2>1. CASE Goto(c, "commit")
    BY <2>1, GotoKeeps DEF Stages, Waits
  <2>2. CASE Done(c)
    BY <2>2, DoneKeeps
  <2>3. CASE /\ conflict # {}
             /\ client' = [client EXCEPT ![c].pc = "ask", ![c].todo = T]
    <3>1. conflict \subseteq Active
      BY DEF Conflicts, SameName, SameGroup
    <3>2. i \in Active
      BY <2>3, <3>1, LeastSlot DEF Active, Used
    <3>3. i \in Slots /\ jobs[i].id \in Ids
      BY <3>2, LuaAssumption DEF Active, Used, TypeOK, Records, Ids
    <3>4. T \subseteq Targets /\ T # {}
      BY <3>3 DEF Targets
    <3> HIDE DEF T
    <3>5. /\ [client[c] EXCEPT !.pc = "ask", !.todo = T] \in ClientRecords
          /\ [client[c] EXCEPT !.pc = "ask", !.todo = T].todo = T
      BY <3>4 DEF ClientsOK, ClientRecords, Stages, Waits
    <3>6. client' = [client EXCEPT ![c] = [client[c] EXCEPT !.pc = "ask", !.todo = T]]
      BY <2>3
    <3> QED BY <3>4, <3>5, <3>6 DEF ClientsOK
  <2> QED BY <1>4, <2>1, <2>2, <2>3 DEF Check
<1>5. ASSUME NEW c \in Clients, Refuse(c) PROVE ClientsOK'
  <2>1. CASE Done(c)
    BY <2>1, DoneKeeps
  <2>2. CASE client' = [client EXCEPT ![c].pc = "check", ![c].retry = TRUE]
    BY <2>2 DEF ClientsOK, ClientRecords, Stages, Waits
  <2> QED BY <1>5, <2>1, <2>2 DEF Refuse
<1>6. ASSUME NEW c \in Clients, Commit(c) PROVE ClientsOK'
  <2>1. last + 1 \in 0..MaxCalls
    BY <1>6, IdLeft, LuaAssumption DEF Commit, At, Ids
  <2>2. client' = [client EXCEPT ![c].pc = "spawn", ![c].id = last + 1]
    BY <1>6 DEF Commit
  <2> QED BY <2>1, <2>2 DEF ClientsOK, ClientRecords, Stages, Waits
<1>7. ASSUME NEW c \in Clients, CommitFails(c) PROVE ClientsOK'
  BY <1>7, DoneKeeps DEF CommitFails
<1>8. ASSUME NEW c \in Clients, Spawn(c) \/ SpawnFails(c) PROVE ClientsOK'
  BY <1>8, GotoKeeps DEF Spawn, SpawnFails, Stages, Waits
<1>9. ASSUME NEW c \in Clients, Unwind(c) PROVE ClientsOK'
  BY <1>9, DoneKeeps DEF Unwind
<1>10. ASSUME NEW c \in Clients, Mark(c) PROVE ClientsOK'
  BY <1>10, GotoKeeps DEF Mark, Stages, Waits
<1>11. ASSUME NEW c \in Clients, Settle(c) PROVE ClientsOK'
  <2>1. Goto(c, "settling") \/ Done(c)
    BY <1>11 DEF Settle
  <2> QED BY <2>1, GotoKeeps, DoneKeeps DEF Stages, Waits
<1>12. ASSUME NEW c \in Clients, SettleWoken(c) \/ SettleTimeout(c) PROVE ClientsOK'
  BY <1>12, DoneKeeps DEF SettleWoken, SettleTimeout
<1>13. ASSUME NEW c \in Clients, Ask(c) \/ Look(c) \/ Again(c) PROVE ClientsOK'
  <2>1. \/ Proceed(c, TRUE) \/ Proceed(c, FALSE)
        \/ client[c].pc \in Waits /\ \E pc \in Waits : Goto(c, pc)
    BY <1>13 DEF Ask, Look, Again, At, Waits
  <2>2. client[c].pc \in Waits => client[c].todo # {}
    BY DEF ClientsOK
  <2> QED BY <2>1, <2>2, ProceedKeeps, GotoKeeps DEF Stages
<1>14. ASSUME NEW c \in Clients, Woken(c) \/ WaitTimeout(c) PROVE ClientsOK'
  <2>1. client[c].pc \in Waits /\ Goto(c, "again")
    BY <1>14 DEF Woken, WaitTimeout, TimesOut, At, Waits
  <2>2. client[c].todo # {}
    BY <2>1 DEF ClientsOK
  <2> QED BY <2>1, <2>2, GotoKeeps DEF Stages, Waits
<1>15. ASSUME NEW n \in Ids, ScriptEnds(n) \/ ScriptStops(n) \/ Finish(n) \/ Give(n)
       PROVE  ClientsOK'
  BY <1>15 DEF ScriptEnds, ScriptStops, Finish, Give, ClientsOK
<1>16. CASE UNCHANGED vars
  BY <1>16 DEF vars, ClientsOK
<1> QED
  BY <1>1, <1>2, <1>3, <1>4, <1>5, <1>6, <1>7, <1>8, <1>9, <1>10, <1>11, <1>12, <1>13,
     <1>14, <1>15, <1>16, NextCases

\* What the steps do to the tables.
LEMMA TablesStep ==
  ASSUME TypeOK, BudgetInv, [Next]_vars
  PROVE  TablesOK'
<1> USE TypeParts
<1> USE DEF TablesOK
<1>1. ASSUME NEW c \in Clients, Submit(c) \/ StopJob(c) \/ StopAll(c) PROVE TablesOK'
  <2>1. calls < MaxCalls /\ calls' = calls + 1
    BY <1>1 DEF Submit, StopJob, StopAll
  <2>2. calls' \in 0..MaxCalls /\ last \in 0..calls'
    BY <2>1, LuaAssumption
  <2> QED BY <1>1, <2>2 DEF Submit, StopJob, StopAll, tableVars, jobVars
<1>2. ASSUME NEW c \in Clients,
             \/ Check(c) \/ Refuse(c) \/ SpawnFails(c) \/ Settle(c) \/ SettleTimeout(c)
             \/ WaitTimeout(c)
      PROVE  TablesOK'
  BY <1>2 DEF Check, Refuse, SpawnFails, Settle, SettleTimeout, WaitTimeout, tableVars, jobVars
<1>3. ASSUME NEW c \in Clients, Commit(c) PROVE TablesOK'
  <2>1. last + 1 <= calls /\ last + 1 \in Ids
    BY <1>3, IdLeft DEF Commit, At
  <2>2. PICK i \in Slots :
          /\ jobs' = [jobs EXCEPT ![i] = [Free EXCEPT !.id = last + 1]]
          /\ sem' = [sem EXCEPT ![i] = FALSE]
          /\ slotOf' = [slotOf EXCEPT ![last + 1] = i]
    BY <1>3, ReusableType DEF Commit
  <2>3. client[c].kind \in Kinds
    BY DEF ClientsOK, ClientRecords
  <2>4. jobs' \in [Slots -> Records] /\ sem' \in [Slots -> BOOLEAN]
        /\ slotOf' \in [Ids -> Slots]
    BY <2>1, <2>2, RecordTypes
  <2>5. kind' \in [Ids -> Kinds] /\ last' \in 0..calls /\ running' \in Nat
    BY <1>3, <2>1, <2>3 DEF Commit
  <2> QED BY <1>3, <2>4, <2>5 DEF Commit
<1>4. ASSUME NEW c \in Clients, CommitFails(c) PROVE TablesOK'
  <2>1. PICK i \in Slots : /\ jobs' = [jobs EXCEPT ![i] = Free]
                           /\ sem' = [sem EXCEPT ![i] = FALSE]
    BY <1>4, ReusableType DEF CommitFails
  <2> QED BY <1>4, <2>1, RecordTypes DEF CommitFails, jobVars
<1>5. ASSUME NEW c \in Clients, Spawn(c) PROVE TablesOK'
  BY <1>5 DEF Spawn, tableVars, jobVars
<1>6. ASSUME NEW c \in Clients, Unwind(c) PROVE TablesOK'
  <2>1. jobs' \in [Slots -> Records]
    BY <1>6, RecordTypes DEF Unwind
  <2> QED BY <1>6, <2>1 DEF Unwind, PlaceBack, jobVars
<1>7. ASSUME NEW c \in Clients, Mark(c) PROVE TablesOK'
  <2>1. PICK i : jobs' = [jobs EXCEPT ![i] = Marked(jobs[i])]
    BY <1>7 DEF Mark
  <2>2. jobs' \in [Slots -> Records]
    BY <2>1, RecordTypes
  <2> QED BY <1>7, <2>2 DEF Mark, jobVars
<1>8. ASSUME NEW c \in Clients, SettleWoken(c) \/ Woken(c) PROVE TablesOK'
  BY <1>8 DEF SettleWoken, Woken, jobVars
<1>9. ASSUME NEW c \in Clients, Ask(c) PROVE TablesOK'
  <2>1. Target(c) \in Targets
    BY <1>9, TargetChosen DEF Ask, At, Waits
  <2>2. told' \subseteq Ids
    <3>1. told' = told \/ told' = told \cup {Target(c).id}
      BY <1>9 DEF Ask
    <3>2. Target(c).id \in Ids
      BY <2>1 DEF Targets
    <3> QED BY <3>1, <3>2
  <2>3. jobs' = jobs \/ jobs' = [jobs EXCEPT ![Target(c).slot].stop = TRUE]
    BY <1>9 DEF Ask
  <2>4. \A i \in Slots : [jobs EXCEPT ![i].stop = TRUE] \in [Slots -> Records]
    <3>1. \A i \in Slots : [jobs[i] EXCEPT !.stop = TRUE] \in Records
      BY RecordTypes
    <3> QED BY <3>1
  <2>5. jobs' \in [Slots -> Records]
    BY <2>1, <2>3, <2>4 DEF Targets
  <2> QED BY <1>9, <2>2, <2>5 DEF Ask, jobVars
<1>10. ASSUME NEW c \in Clients, Look(c) \/ Again(c) PROVE TablesOK'
  <2>1. Target(c) \in Targets
    BY <1>10, TargetChosen DEF Look, Again, At, Waits
  <2>2. told' \subseteq Ids
    BY <1>10, <2>1 DEF Look, Again, Targets
  <2> QED BY <1>10, <2>2 DEF Look, Again, tableVars, jobVars
<1>11. ASSUME NEW n \in Ids, ScriptEnds(n) \/ ScriptStops(n) PROVE TablesOK'
  BY <1>11 DEF ScriptEnds, ScriptStops, tableVars, jobVars
<1>12. ASSUME NEW n \in Ids, Finish(n) PROVE TablesOK'
  <2>1. \A i \in Slots : [jobs[i] EXCEPT !.status = Outcome(jobs[i])] \in Records
    BY RecordTypes
  <2>2. \A i \in Slots :
          [jobs EXCEPT ![i].status = Outcome(jobs[i])] \in [Slots -> Records]
    BY <2>1
  <2>3. jobs' \in [Slots -> Records]
    BY <1>12, <2>2 DEF Finish
  <2> QED BY <1>12, <2>3 DEF Finish, PlaceBack, jobVars
<1>13. ASSUME NEW n \in Ids, Give(n) PROVE TablesOK'
  BY <1>13 DEF Give, jobVars
<1>14. CASE UNCHANGED vars
  BY <1>14 DEF vars, tableVars, jobVars
<1> QED
  BY <1>1, <1>2, <1>3, <1>4, <1>5, <1>6, <1>7, <1>8, <1>9, <1>10, <1>11, <1>12, <1>13,
     <1>14, NextCases

\* A call that does not come to need an id leaves the budget alone.
LEMMA BudgetKeeps ==
  ASSUME TypeOK, BudgetInv, Bound' \subseteq Bound, last' = last, calls' = calls
  PROVE  BudgetInv'
<1>1. IsFiniteSet(Bound) /\ Cardinality(Bound) \in Nat
  BY BoundFinite
<1>2. Cardinality(Bound') <= Cardinality(Bound) /\ IsFiniteSet(Bound')
  BY <1>1, FS_Subset
<1>3. Cardinality(Bound') \in Nat
  BY <1>2, FS_CardinalityType
<1> QED BY <1>1, <1>2, <1>3 DEF BudgetInv, TypeOK

\* Each id given out is one of the calls made, and the calls that still need
\* one number no more than the ids left.
LEMMA BudgetStep ==
  ASSUME TypeOK, BudgetInv, [Next]_vars
  PROVE  BudgetInv'
<1> USE DEF Waits
<1>1. ClientsOK
  BY TypeParts
<1>2. ASSUME NEW c \in Clients, Submit(c) \/ StopJob(c) \/ StopAll(c) PROVE BudgetInv'
  <2>1. Bound' \subseteq Bound \cup {c} /\ last' = last /\ calls' = calls + 1
    BY <1>1, <1>2 DEF Submit, StopJob, StopAll, AskFor, Bound, ClientsOK, jobVars
  <2>2. IsFiniteSet(Bound) /\ Cardinality(Bound) \in Nat
    BY BoundFinite
  <2>3. /\ IsFiniteSet(Bound \cup {c})
        /\ Cardinality(Bound \cup {c}) <= Cardinality(Bound) + 1
    BY <2>2, FS_AddElement
  <2>4. IsFiniteSet(Bound') /\ Cardinality(Bound') <= Cardinality(Bound \cup {c})
    BY <2>1, <2>3, FS_Subset
  <2>5. Cardinality(Bound') \in Nat /\ Cardinality(Bound \cup {c}) \in Nat
    BY <2>3, <2>4, FS_CardinalityType
  <2> QED BY <2>1, <2>2, <2>3, <2>4, <2>5 DEF BudgetInv, TypeOK
<1>3. ASSUME NEW c \in Clients, Commit(c) PROVE BudgetInv'
  <2>1. c \in Bound /\ Bound' \subseteq Bound \ {c} /\ last' = last + 1 /\ calls' = calls
    BY <1>1, <1>3 DEF Commit, At, Bound, ClientsOK
  <2>2. IsFiniteSet(Bound) /\ Cardinality(Bound) \in Nat
    BY BoundFinite
  <2>3. /\ IsFiniteSet(Bound \ {c})
        /\ Cardinality(Bound \ {c}) = Cardinality(Bound) - 1
    BY <2>1, <2>2, FS_RemoveElement
  <2>4. IsFiniteSet(Bound') /\ Cardinality(Bound') <= Cardinality(Bound \ {c})
    BY <2>1, <2>3, FS_Subset
  <2>5. Cardinality(Bound') \in Nat
    BY <2>4, FS_CardinalityType
  <2> QED BY <2>1, <2>2, <2>3, <2>4, <2>5 DEF BudgetInv, TypeOK
<1>4. ASSUME NEW c \in Clients, \/ Check(c) \/ Refuse(c) \/ CommitFails(c)
      PROVE  BudgetInv'
  <2>1. Bound' \subseteq Bound
    BY <1>1, <1>4 DEF Check, Refuse, CommitFails, At, Goto, Done, Idle, Bound, ClientsOK
  <2> QED BY <1>4, <2>1, BudgetKeeps DEF Check, Refuse, CommitFails, jobVars
<1>5. ASSUME NEW c \in Clients,
             \/ Spawn(c) \/ SpawnFails(c) \/ Unwind(c) \/ Mark(c) \/ Settle(c)
             \/ SettleWoken(c) \/ SettleTimeout(c)
      PROVE  BudgetInv'
  <2>1. Done(c) \/ \E pc \in {"mark", "unwind", "settle", "settling"} : Goto(c, pc)
    BY <1>5 DEF Spawn, SpawnFails, Unwind, Mark, Settle, SettleWoken, SettleTimeout
  <2>2. Bound' \subseteq Bound
    <3>1. CASE Done(c)
      BY <1>1, <3>1 DEF Done, Idle, Bound, ClientsOK
    <3>2. ASSUME NEW pc \in {"mark", "unwind", "settle", "settling"}, Goto(c, pc)
          PROVE  Bound' \subseteq Bound
      BY <1>1, <3>2 DEF Goto, Bound, ClientsOK, ClientRecords
    <3> QED BY <2>1, <3>1, <3>2
  <2>3. last' = last /\ calls' = calls
    BY <1>5 DEF Spawn, SpawnFails, Unwind, Mark, Settle, SettleWoken, SettleTimeout, jobVars
  <2> QED BY <2>2, <2>3, BudgetKeeps
<1>6. ASSUME NEW c \in Clients,
             \/ Ask(c) \/ Look(c) \/ Woken(c) \/ WaitTimeout(c) \/ Again(c)
      PROVE  BudgetInv'
  <2>1. client[c].pc \in Waits
    BY <1>6 DEF Ask, Look, Woken, WaitTimeout, TimesOut, Again, At
  <2>2. Proceed(c, TRUE) \/ Proceed(c, FALSE) \/ \E pc \in Waits : Goto(c, pc)
    BY <1>6 DEF Ask, Look, Woken, WaitTimeout, TimesOut, Again
  <2>3. ASSUME NEW pc \in Waits, Goto(c, pc) PROVE Bound' \subseteq Bound
    BY <1>1, <2>1, <2>3 DEF Goto, Bound, ClientsOK, ClientRecords
  <2>4. ASSUME NEW ok \in BOOLEAN, Proceed(c, ok) PROVE Bound' \subseteq Bound
    BY <1>1, <2>1, <2>4 DEF Proceed, Submitting, Done, Idle, Bound, ClientsOK, ClientRecords
  <2>5. Bound' \subseteq Bound
    BY <2>2, <2>3, <2>4
  <2>6. last' = last /\ calls' = calls
    BY <1>6 DEF Ask, Look, Woken, WaitTimeout, Again, jobVars
  <2> QED BY <2>5, <2>6, BudgetKeeps
<1>7. ASSUME NEW n \in Ids, ScriptEnds(n) \/ ScriptStops(n) \/ Finish(n) \/ Give(n)
       PROVE  BudgetInv'
  <2>1. Bound' \subseteq Bound /\ last' = last /\ calls' = calls
    BY <1>7 DEF ScriptEnds, ScriptStops, Finish, Give, Bound, jobVars
  <2> QED BY <2>1, BudgetKeeps
<1>8. CASE UNCHANGED vars
  <2>1. Bound' \subseteq Bound /\ last' = last /\ calls' = calls
    BY <1>8 DEF vars, Bound, jobVars
  <2> QED BY <2>1, BudgetKeeps
<1> QED BY <1>2, <1>3, <1>4, <1>5, <1>6, <1>7, <1>8, NextCases

-----------------------------------------------------------------------------
(* The jobs that hold a place, and what the table knows of them.           *)

Spawning(c) == client[c].pc \in {"spawn", "unwind"}
Live == Executing \cup Starting

\* The record of a job that holds a place is its own, and is not final.
LiveRecord == \A n \in Live : jobs[slotOf[n]].id = n /\ jobs[slotOf[n]].status \notin Terminal

\* A record in use is found through the id in it, an id given out before.
SlotsAgree == \A i \in Slots : jobs[i].id # 0 => jobs[i].id <= last /\ slotOf[jobs[i].id] = i

\* A task, or a submit about to create one, has an id that was given out; no
\* task has the id a submit is about to create one for, and no other submit.
Begun  == \A n \in Ids : task[n] # "none" => n <= last
Holds  == \A c \in Clients : Spawning(c) => client[c].id \in 1..last /\ task[client[c].id] = "none"
OneJob == \A c, d \in Clients : Spawning(c) /\ Spawning(d) /\ c # d => client[c].id # client[d].id

Separate == \A m, n \in Live : m # n => Apart(m, n)

LiveInv ==
  /\ LiveRecord /\ SlotsAgree /\ Begun /\ Holds /\ OneJob /\ Separate
  /\ PlacesExact /\ running <= MaxConcurrent

\* A job reported as ended holds no place, and a call that stops jobs looks
\* at the records it found them in.
TellInv ==
  /\ told \cap Live = {} /\ told \subseteq 1..last
  /\ \A c \in Clients : \A t \in client[c].todo : t.id <= last /\ slotOf[t.id] = t.slot

-----------------------------------------------------------------------------
(* The jobs that hold a place are finitely many, and were given their ids. *)

LEMMA LiveIds ==
  ASSUME TypeOK, LiveInv
  PROVE  /\ Live \subseteq 1..last /\ Live \subseteq Ids
         /\ IsFiniteSet(Live) /\ Cardinality(Live) = running
         /\ Executing \cap Starting = {}
<1>1. last \in 0..MaxCalls
  BY LuaAssumption DEF TypeOK
<1>2. Starting \subseteq 1..last
  BY DEF LiveInv, Holds, Starting, Spawning
<1>3. Executing \subseteq 1..last
  BY <1>1, LuaAssumption DEF LiveInv, Begun, Executing, Ids
<1>4. Live \subseteq 1..last /\ Live \subseteq Ids
  BY <1>1, <1>2, <1>3, LuaAssumption DEF Live, Ids
<1>5. IsFiniteSet(1..last)
  BY <1>1, LuaAssumption, FS_Interval
<1>6. IsFiniteSet(Live)
  BY <1>4, <1>5, FS_Subset
<1>7. Executing \cap Starting = {}
  BY DEF LiveInv, Holds, Starting, Spawning, Executing
<1> QED BY <1>4, <1>6, <1>7 DEF LiveInv, PlacesExact, Live

\* The slot of a job that holds a place is in use by that job alone.
LEMMA LiveSlot ==
  ASSUME TypeOK, LiveInv, NEW n \in Live
  PROVE  /\ slotOf[n] \in Active /\ slotOf[n] \in Slots
         /\ \A m \in Live : slotOf[m] = slotOf[n] => m = n
<1>1. n \in Ids /\ slotOf[n] \in Slots
  BY LiveIds DEF TypeOK
<1>2. jobs[slotOf[n]].id = n /\ jobs[slotOf[n]].status \notin Terminal
  BY DEF LiveInv, LiveRecord
<1>3. n # 0
  BY <1>1, LuaAssumption DEF Ids
<1>4. \A m \in Live : jobs[slotOf[m]].id = m
  BY DEF LiveInv, LiveRecord
<1> QED BY <1>1, <1>2, <1>3, <1>4 DEF Active, Used

\* The records a submit may take hold no job with a place.
LEMMA ReusableFree ==
  ASSUME NEW i \in Reusable
  PROVE  i \in Slots /\ i \notin Active
<1>1. CASE Slots \ Used # {}
  BY <1>1, LeastSlot DEF Reusable, Active
<1>2. CASE Slots \ Used = {}
  BY <1>2 DEF Reusable, Used
<1> QED BY <1>1, <1>2

-----------------------------------------------------------------------------
(* Most steps leave the places and the active records alone.               *)

QuietStep ==
  /\ UNCHANGED <<running, kind, slotOf, last>>
  /\ \A i \in Slots : jobs'[i].id \in {0, jobs[i].id}
  /\ \A i \in Active : jobs'[i].id = jobs[i].id /\ jobs'[i].status \notin Terminal
  /\ \A n \in Ids : task[n] = "none" <=> task'[n] = "none"
  /\ Executing' = Executing
  /\ \A c \in Clients : Spawning(c)' <=> Spawning(c)
  /\ \A c \in Clients : Spawning(c) => client'[c].id = client[c].id

LEMMA QuietKeeps ==
  ASSUME TypeOK, LiveInv, QuietStep
  PROVE  LiveInv' /\ Live' = Live
<1> USE DEF QuietStep
<1>1. Starting' = Starting
  BY DEF Starting, Spawning
<1>2. Live' = Live
  BY <1>1 DEF Live
<1>3. LiveRecord'
  BY <1>2, LiveSlot DEF LiveRecord, LiveInv
<1>4. SlotsAgree'
  BY DEF SlotsAgree, LiveInv
<1>5. Begun'
  BY DEF Begun, LiveInv
<1>6. Holds'
  <2> SUFFICES ASSUME NEW c \in Clients, Spawning(c)'
               PROVE  client'[c].id \in 1..last' /\ task'[client'[c].id] = "none"
    BY DEF Holds
  <2>1. client'[c].id = client[c].id /\ client[c].id \in 1..last /\ task[client[c].id] = "none"
    BY DEF Holds, LiveInv
  <2>2. client[c].id \in Ids
    BY <2>1, LuaAssumption DEF TypeOK, Ids
  <2> QED BY <2>1, <2>2
<1>7. OneJob'
  BY DEF OneJob, LiveInv
<1>8. Separate'
  BY <1>2 DEF Separate, LiveInv, Apart
<1>9. PlacesExact'
  BY <1>1 DEF PlacesExact, LiveInv
<1> QED BY <1>2, <1>3, <1>4, <1>5, <1>6, <1>7, <1>8, <1>9 DEF LiveInv

\* A step of a client that neither is about to create a task nor comes to be.
LEMMA ClientOnly ==
  ASSUME ClientsOK, ClientsOK', NEW c \in Clients,
         client[c].pc \notin {"spawn", "unwind"}, client'[c].pc \notin {"spawn", "unwind"},
         \A d \in Clients : d # c => client'[d] = client[d]
  PROVE  \A d \in Clients : /\ Spawning(d)' <=> Spawning(d)
                            /\ Spawning(d) => client'[d].id = client[d].id
BY DEF Spawning

\* Dealing with a target.
LEMMA WaitsMove ==
  ASSUME ClientsOK, NEW c \in Clients, client[c].pc \in Waits,
         Proceed(c, TRUE) \/ Proceed(c, FALSE) \/ \E pc \in Waits : Goto(c, pc)
  PROVE  /\ client[c].pc \notin {"spawn", "unwind"} /\ client'[c].pc \notin {"spawn", "unwind"}
         /\ \A d \in Clients : d # c => client'[d] = client[d]
<1>1. ASSUME NEW pc \in Waits, Goto(c, pc)
      PROVE  client'[c].pc \in Waits /\ \A d \in Clients : d # c => client'[d] = client[d]
  BY <1>1 DEF ClientsOK, ClientRecords, Goto
<1>2. ASSUME NEW ok \in BOOLEAN, Proceed(c, ok)
      PROVE  /\ client'[c].pc \in {"idle", "check", "ask"}
             /\ \A d \in Clients : d # c => client'[d] = client[d]
  BY <1>2 DEF ClientsOK, ClientRecords, Proceed, Done, Idle
<1> QED BY <1>1, <1>2 DEF Waits

\* The steps that are quiet: all but a job's coming to hold a place, the
\* creation of its task, and its giving the place back.
LEMMA QuietCases ==
  ASSUME TypeOK, BudgetInv, [Next]_vars
  PROVE  \/ QuietStep
         \/ \E c \in Clients : Commit(c) \/ Spawn(c) \/ Unwind(c)
         \/ \E n \in Ids : Finish(n)
<1>1. ClientsOK /\ ClientsOK'
  BY ClientsStep, TypeParts
<1> DEFINE Others(c) == \A d \in Clients : d # c => client'[d] = client[d]
           Moved(c) == /\ client[c].pc \notin {"spawn", "unwind"}
                       /\ client'[c].pc \notin {"spawn", "unwind"}
                       /\ Others(c)
<1>2. ASSUME NEW c \in Clients, UNCHANGED <<jobs, running, task, jobVars>>, Moved(c)
      PROVE  QuietStep
  <2>1. \A d \in Clients : /\ Spawning(d)' <=> Spawning(d)
                           /\ Spawning(d) => client'[d].id = client[d].id
    BY <1>1, <1>2, ClientOnly
  <2>2. Executing' = Executing
    BY <1>2 DEF Executing
  <2> QED BY <1>2, <2>1, <2>2 DEF QuietStep, jobVars, Active
<1>3. ASSUME NEW c \in Clients,
             \/ Submit(c) \/ StopJob(c) \/ StopAll(c) \/ Check(c) \/ Refuse(c)
             \/ Settle(c) \/ SettleWoken(c) \/ SettleTimeout(c)
      PROVE  QuietStep
  <2>1. UNCHANGED <<jobs, running, task, jobVars>>
    BY <1>3 DEF Submit, StopJob, StopAll, Check, Refuse, Settle, SettleWoken,
                SettleTimeout, tableVars
  <2>2. ASSUME Submit(c) PROVE Moved(c)
    BY <1>1, <2>2 DEF Submit, Idle, At, ClientsOK
  <2>3. ASSUME StopJob(c) \/ StopAll(c) PROVE Moved(c)
    BY <1>1, <2>3 DEF StopJob, StopAll, AskFor, Idle, At, ClientsOK
  <2>4. ASSUME Check(c) PROVE Moved(c)
    BY <1>1, <2>4 DEF Check, Goto, Done, Idle, At, ClientsOK, ClientRecords
  <2>5. ASSUME Refuse(c) PROVE Moved(c)
    BY <1>1, <2>5 DEF Refuse, Done, Idle, At, ClientsOK, ClientRecords
  <2>6. ASSUME Settle(c) \/ SettleWoken(c) \/ SettleTimeout(c) PROVE Moved(c)
    <3>1. client[c].pc \in {"settle", "settling"} /\ (Goto(c, "settling") \/ Done(c))
      BY <2>6 DEF Settle, SettleWoken, SettleTimeout, At
    <3> QED BY <1>1, <3>1 DEF Goto, Done, Idle, ClientsOK, ClientRecords
  <2>7. Moved(c)
    BY <1>3, <2>2, <2>3, <2>4, <2>5, <2>6
  <2> QED BY <1>2, <2>1, <2>7
<1>4. ASSUME NEW c \in Clients, Look(c) \/ Woken(c) \/ WaitTimeout(c) \/ Again(c)
      PROVE  QuietStep
  <2>1. UNCHANGED <<jobs, running, task, jobVars>>
    BY <1>4 DEF Look, Woken, WaitTimeout, Again, tableVars
  <2>2. client[c].pc \in Waits
    BY <1>4 DEF Look, Woken, WaitTimeout, TimesOut, Again, At, Waits
  <2>3. Proceed(c, TRUE) \/ Proceed(c, FALSE) \/ \E pc \in Waits : Goto(c, pc)
    BY <1>4 DEF Look, Woken, WaitTimeout, TimesOut, Again, Waits
  <2>4. Moved(c)
    BY <1>1, <2>2, <2>3, WaitsMove
  <2> QED BY <1>2, <2>1, <2>4
<1>5. ASSUME NEW c \in Clients, Ask(c)
      PROVE  QuietStep
  <2>1. UNCHANGED <<running, task, jobVars>>
    BY <1>5 DEF Ask
  <2>2. client[c].pc \in Waits
    BY <1>5 DEF Ask, At, Waits
  <2>3. Proceed(c, TRUE) \/ \E pc \in Waits : Goto(c, pc)
    BY <1>5 DEF Ask, Waits
  <2>4. Moved(c)
    BY <1>1, <2>2, <2>3, WaitsMove
  <2>5. \A i \in Slots : jobs'[i].id = jobs[i].id /\ jobs'[i].status = jobs[i].status
    <3>1. jobs' = jobs \/ \E i \in Slots : jobs' = [jobs EXCEPT ![i].stop = TRUE]
      BY <1>5, <2>2, TargetChosen DEF Ask, Targets
    <3>2. CASE jobs' = jobs
      BY <3>2
    <3>3. ASSUME NEW i \in Slots, jobs' = [jobs EXCEPT ![i].stop = TRUE]
          PROVE  \A j \in Slots : jobs'[j].id = jobs[j].id /\ jobs'[j].status = jobs[j].status
      BY <3>3 DEF TypeOK, Records
    <3> QED BY <3>1, <3>2, <3>3
  <2>6. \A d \in Clients : /\ Spawning(d)' <=> Spawning(d)
                           /\ Spawning(d) => client'[d].id = client[d].id
    BY <1>1, <2>4, ClientOnly
  <2>7. Executing' = Executing
    BY <2>1 DEF Executing
  <2> QED BY <2>1, <2>5, <2>6, <2>7 DEF QuietStep, jobVars, Active, Used
<1>6. ASSUME NEW c \in Clients, CommitFails(c)
      PROVE  QuietStep
  <2>1. Moved(c)
    BY <1>1, <1>6 DEF CommitFails, At, Done, Idle, ClientsOK
  <2>2. PICK i \in Reusable : jobs' = [jobs EXCEPT ![i] = Free]
    BY <1>6 DEF CommitFails
  <2>3. i \in Slots /\ i \notin Active
    BY ReusableFree
  <2>4. /\ \A j \in Slots : jobs'[j].id \in {0, jobs[j].id}
        /\ \A j \in Active : jobs'[j].id = jobs[j].id /\ jobs'[j].status \notin Terminal
    BY <2>2, <2>3 DEF TypeOK, Free, Active, Used
  <2>5. \A d \in Clients : /\ Spawning(d)' <=> Spawning(d)
                           /\ Spawning(d) => client'[d].id = client[d].id
    BY <1>1, <2>1, ClientOnly
  <2>6. UNCHANGED <<running, task, jobVars>> /\ Executing' = Executing
    BY <1>6 DEF CommitFails, Executing
  <2> QED BY <2>4, <2>5, <2>6 DEF QuietStep, jobVars
<1>7. ASSUME NEW c \in Clients, Mark(c)
      PROVE  QuietStep
  <2>1. Moved(c)
    BY <1>1, <1>7 DEF Mark, At, Goto, ClientsOK, ClientRecords
  <2>2. PICK i : jobs' = [jobs EXCEPT ![i] = Marked(jobs[i])]
    BY <1>7 DEF Mark
  <2>3. \A r \in Records : Marked(r).id = r.id /\ Marked(r).status = "running"
    BY DEF Marked, Records
  <2>4. \A j \in Slots : jobs'[j].id = jobs[j].id
                         /\ jobs'[j].status \in {jobs[j].status, "running"}
    BY <2>2, <2>3 DEF TypeOK
  <2>5. \A d \in Clients : /\ Spawning(d)' <=> Spawning(d)
                           /\ Spawning(d) => client'[d].id = client[d].id
    BY <1>1, <2>1, ClientOnly
  <2>6. UNCHANGED <<running, task, jobVars>> /\ Executing' = Executing
    BY <1>7 DEF Mark, Executing
  <2> QED BY <2>4, <2>5, <2>6 DEF QuietStep, jobVars, Active, Used, Terminal
<1>8. ASSUME NEW c \in Clients, SpawnFails(c)
      PROVE  QuietStep
  <2>1. \A d \in Clients : /\ Spawning(d)' <=> Spawning(d)
                           /\ client'[d].id = client[d].id
    BY <1>1, <1>8 DEF SpawnFails, At, Goto, Spawning, ClientsOK, ClientRecords
  <2>2. UNCHANGED <<jobs, running, task, jobVars>> /\ Executing' = Executing
    BY <1>8 DEF SpawnFails, tableVars, Executing
  <2> QED BY <2>1, <2>2 DEF QuietStep, jobVars, Active
<1>9. ASSUME NEW n \in Ids, ScriptEnds(n) \/ ScriptStops(n)
      PROVE  QuietStep
  <2>1. task[n] = "exec" /\ task' = [task EXCEPT ![n] = "end"]
        /\ UNCHANGED <<jobs, running, jobVars, client>>
    BY <1>9 DEF ScriptEnds, ScriptStops, tableVars
  <2>2. Executing' = Executing /\ \A m \in Ids : task[m] = "none" <=> task'[m] = "none"
    BY <2>1 DEF TypeOK, Executing
  <2> QED BY <2>1, <2>2 DEF QuietStep, jobVars, Active, Spawning
<1>10. ASSUME NEW n \in Ids, Give(n)
       PROVE  QuietStep
  <2>1. task[n] = "give" /\ task' = [task EXCEPT ![n] = "gone"]
        /\ UNCHANGED <<jobs, running, jobVars, client>>
    BY <1>10 DEF Give
  <2>2. Executing' = Executing /\ \A m \in Ids : task[m] = "none" <=> task'[m] = "none"
    BY <2>1 DEF TypeOK, Executing
  <2> QED BY <2>1, <2>2 DEF QuietStep, jobVars, Active, Spawning
<1>11. CASE UNCHANGED vars
  BY <1>11 DEF vars, tableVars, jobVars, QuietStep, Active, Spawning, Executing
<1> HIDE DEF Moved
<1> QED
  BY <1>3, <1>4, <1>5, <1>6, <1>7, <1>8, <1>9, <1>10, <1>11, NextCases

-----------------------------------------------------------------------------
(* The steps that take a place, hand it to the task and give it back.      *)

\* A job gives its place back, and its record becomes final or is cleared.
LEMMA PlaceGone ==
  ASSUME TypeOK, LiveInv, NEW n \in Live, Live' = Live \ {n}, running' = PlaceBack,
         UNCHANGED <<kind, slotOf, last>>,
         \A i \in Slots : i # slotOf[n] => jobs'[i] = jobs[i],
         jobs'[slotOf[n]].id \in {0, jobs[slotOf[n]].id}
  PROVE  (LiveRecord /\ SlotsAgree /\ Separate /\ PlacesExact)' /\ running' <= MaxConcurrent
<1>1. LiveRecord'
  BY LiveSlot DEF LiveRecord, LiveInv
<1>2. SlotsAgree'
  BY DEF SlotsAgree, LiveInv
<1>3. Separate'
  BY DEF Separate, LiveInv, Apart
<1>4. /\ IsFiniteSet(Live) /\ Cardinality(Live) = running
      /\ Cardinality(Live') = Cardinality(Live) - 1
  BY LiveIds, FS_RemoveElement
<1>5. running \in Nat /\ running # 0
  BY <1>4, FS_EmptySet DEF TypeOK
<1>6. running' = running - 1
  BY <1>5 DEF PlaceBack
<1>7. running' = Cardinality(Live')
  BY <1>4, <1>6
<1>8. PlacesExact'
  BY <1>7 DEF PlacesExact, Live
<1>9. running' <= MaxConcurrent
  BY <1>5, <1>6, LuaAssumption DEF LiveInv
<1> QED BY <1>1, <1>2, <1>3, <1>8, <1>9

LEMMA UnwindKeeps ==
  ASSUME TypeOK, LiveInv, NEW c \in Clients, Unwind(c)
  PROVE  LiveInv' /\ Live' \subseteq Live
<1> DEFINE n == client[c].id
<1>1. Spawning(c) /\ n \in Live /\ client' = [client EXCEPT ![c] = Idle]
  BY DEF Unwind, At, Done, Live, Starting, Spawning
<1>2. UNCHANGED <<task, kind, slotOf, last>> /\ running' = PlaceBack
  BY DEF Unwind, jobVars
<1>3. /\ ~Spawning(c)'
      /\ \A d \in Clients : d # c => (Spawning(d)' <=> Spawning(d)) /\ client'[d] = client[d]
  BY <1>1, TypeParts DEF ClientsOK, Spawning, Idle
<1>4. Starting' = Starting \ {n}
  BY <1>1, <1>3 DEF Starting, Spawning, LiveInv, OneJob
<1>5. Live' = Live \ {n}
  <2>1. Executing' = Executing
    BY <1>2 DEF Executing
  <2>2. n \notin Executing
    BY <1>1, LiveIds DEF Starting, Spawning
  <2> QED BY <1>4, <2>1, <2>2 DEF Live
<1>6. slotOf[n] \in Slots /\ jobs' = [jobs EXCEPT ![slotOf[n]] = Free]
  BY <1>1, LiveSlot DEF Unwind
<1>7. /\ \A i \in Slots : i # slotOf[n] => jobs'[i] = jobs[i]
      /\ jobs'[slotOf[n]].id \in {0, jobs[slotOf[n]].id}
  BY <1>6 DEF TypeOK, Free
<1>8. (LiveRecord /\ SlotsAgree /\ Separate /\ PlacesExact)' /\ running' <= MaxConcurrent
  <2> HIDE DEF n
  <2> QED BY <1>1, <1>2, <1>5, <1>7, PlaceGone
<1>9. (Begun /\ Holds /\ OneJob)'
  BY <1>2, <1>3 DEF Begun, Holds, OneJob, LiveInv
<1> QED BY <1>5, <1>8, <1>9 DEF LiveInv

LEMMA FinishKeeps ==
  ASSUME TypeOK, LiveInv, NEW n \in Ids, Finish(n)
  PROVE  LiveInv' /\ Live' \subseteq Live
<1>1. task[n] = "end" /\ n \in Executing /\ n \in Live
  BY DEF Finish, Executing, Live
<1>2. jobs[slotOf[n]].id = n /\ slotOf[n] \in Slots
  BY <1>1, LiveSlot DEF LiveInv, LiveRecord
<1>3. /\ jobs' = [jobs EXCEPT ![slotOf[n]].status = Outcome(jobs[slotOf[n]])]
      /\ running' = PlaceBack /\ task' = [task EXCEPT ![n] = "give"]
      /\ UNCHANGED <<kind, slotOf, last, client>>
  BY <1>2 DEF Finish, jobVars
<1>4. /\ \A i \in Slots : i # slotOf[n] => jobs'[i] = jobs[i]
      /\ jobs'[slotOf[n]].id \in {0, jobs[slotOf[n]].id}
  BY <1>2, <1>3 DEF TypeOK, Records
<1>5. Live' = Live \ {n}
  <2>1. Executing' = Executing \ {n}
    BY <1>1, <1>3 DEF Executing, TypeOK
  <2>2. Starting' = Starting /\ n \notin Starting
    BY <1>1, <1>3, LiveIds DEF Starting
  <2> QED BY <2>1, <2>2 DEF Live
<1>6. (LiveRecord /\ SlotsAgree /\ Separate /\ PlacesExact)' /\ running' <= MaxConcurrent
  BY <1>1, <1>3, <1>4, <1>5, PlaceGone
<1>7. \A m \in Ids : task[m] = "none" <=> task'[m] = "none"
  BY <1>1, <1>3 DEF TypeOK
<1>8. Begun' /\ OneJob'
  BY <1>3, <1>7 DEF Begun, OneJob, Spawning, LiveInv
<1>9. Holds'
  <2>1. last \in 0..MaxCalls
    BY LuaAssumption DEF TypeOK
  <2>2. \A m \in 1..last : m \in Ids
    BY <2>1, LuaAssumption DEF Ids
  <2> QED BY <1>3, <1>7, <2>2 DEF Holds, Spawning, LiveInv
<1> QED BY <1>5, <1>6, <1>8, <1>9 DEF LiveInv

LEMMA SpawnKeeps ==
  ASSUME TypeOK, LiveInv, NEW c \in Clients, Spawn(c)
  PROVE  LiveInv' /\ Live' \subseteq Live
<1> DEFINE n == client[c].id
<1>1. Spawning(c) /\ n \in Live
  BY DEF Spawn, At, Live, Starting, Spawning
<1>2. n \in Ids /\ n <= last
  BY <1>1, LiveIds DEF LiveInv, Holds
<1>3. /\ UNCHANGED <<jobs, running, kind, slotOf, last>>
      /\ task' = [task EXCEPT ![n] = "exec"] /\ client' = [client EXCEPT ![c].pc = "mark"]
  BY DEF Spawn, tableVars, jobVars, Goto
<1>4. /\ ~Spawning(c)'
      /\ \A d \in Clients : d # c => (Spawning(d)' <=> Spawning(d)) /\ client'[d] = client[d]
  BY <1>3, TypeParts DEF ClientsOK, ClientRecords, Spawning
<1>5. Starting' = Starting \ {n}
  BY <1>1, <1>4 DEF Starting, Spawning, LiveInv, OneJob
<1>6. Executing' = Executing \cup {n}
  BY <1>2, <1>3 DEF Executing, TypeOK
<1>7. Live' = Live
  BY <1>1, <1>5, <1>6 DEF Live
<1>8. LiveRecord' /\ SlotsAgree' /\ Separate'
  BY <1>3, <1>7 DEF LiveRecord, SlotsAgree, Separate, Apart, LiveInv
<1>9. PlacesExact' /\ running' <= MaxConcurrent
  BY <1>3, <1>7 DEF PlacesExact, Live, LiveInv
<1>10. Begun' /\ OneJob'
  BY <1>2, <1>3, <1>4 DEF Begun, OneJob, LiveInv, TypeOK
<1>11. Holds'
  <2> SUFFICES ASSUME NEW d \in Clients, Spawning(d)'
               PROVE  client'[d].id \in 1..last' /\ task'[client'[d].id] = "none"
    BY DEF Holds
  <2>1. d # c /\ Spawning(d) /\ client'[d] = client[d]
    BY <1>4
  <2>2. client[d].id # n /\ client[d].id \in 1..last /\ task[client[d].id] = "none"
    BY <1>1, <2>1 DEF LiveInv, OneJob, Holds
  <2>3. client[d].id \in Ids
    BY <2>2, LuaAssumption DEF TypeOK, Ids
  <2> QED BY <1>3, <2>1, <2>2, <2>3 DEF TypeOK
<1> QED BY <1>7, <1>8, <1>9, <1>10, <1>11 DEF LiveInv

\* No job that holds a place clashes with what a submit that finds no conflict
\* brings.
LEMMA NoClash ==
  ASSUME TypeOK, LiveInv, NEW k \in Kinds, ~ConflictNow(k), NEW m \in Live
  PROVE  kind[m].name # k.name /\ (k.group = NoGroup \/ kind[m].group # k.group)
<1>1. slotOf[m] \in Active /\ jobs[slotOf[m]].id = m
  BY LiveSlot DEF LiveInv, LiveRecord
<1>2. SameName(k) = {} /\ SameGroup(k) = {}
  BY DEF ConflictNow, Conflicts
<1> QED BY <1>1, <1>2 DEF SameName, SameGroup

LEMMA CommitKeeps ==
  ASSUME TypeOK, BudgetInv, LiveInv, NEW c \in Clients, Commit(c)
  PROVE  LiveInv' /\ Live' = Live \cup {last + 1} /\ last + 1 \notin Live
<1> DEFINE n == last + 1
           k == client[c].kind
<1>1. n \in Ids /\ last \in Nat /\ last \in 0..MaxCalls
  BY IdLeft, LuaAssumption DEF Commit, At, TypeOK
<1>2. PICK i \in Slots :
        /\ i \notin Active
        /\ jobs' = [jobs EXCEPT ![i] = [Free EXCEPT !.id = n]]
        /\ slotOf' = [slotOf EXCEPT ![n] = i]
  BY ReusableFree DEF Commit
<1>3. /\ kind' = [kind EXCEPT ![n] = k] /\ last' = n /\ running' = running + 1
      /\ client' = [client EXCEPT ![c].pc = "spawn", ![c].id = n] /\ task' = task
  BY DEF Commit
<1>4. ~Full /\ ~ConflictNow(k) /\ k \in Kinds /\ ~Spawning(c)
  BY TypeParts DEF Commit, At, ClientsOK, ClientRecords, Spawning
<1>5. /\ Spawning(c)' /\ client'[c].id = n
      /\ \A d \in Clients : d # c => (Spawning(d)' <=> Spawning(d)) /\ client'[d] = client[d]
  BY <1>3, TypeParts DEF ClientsOK, ClientRecords, Spawning
<1>6. Live \subseteq 1..last /\ n \notin Live
  BY <1>1, LiveIds
<1>7. Live' = Live \cup {n}
  <2>1. Starting' = Starting \cup {n}
    BY <1>4, <1>5 DEF Starting, Spawning
  <2>2. Executing' = Executing
    BY <1>3 DEF Executing
  <2> QED BY <2>1, <2>2 DEF Live
<1>8. \A m \in Live : m # n /\ m \in Ids /\ slotOf[m] # i /\ slotOf[m] \in Slots
  BY <1>2, <1>6, LiveIds, LiveSlot
<1>9. jobs'[i].id = n /\ jobs'[i].status = "queued" /\ slotOf'[n] = i
  BY <1>1, <1>2 DEF TypeOK, Free
<1>10. LiveRecord'
  <2>1. \A m \in Live : slotOf'[m] = slotOf[m] /\ jobs'[slotOf[m]] = jobs[slotOf[m]]
    BY <1>1, <1>2, <1>8 DEF TypeOK
  <2>2. "queued" \notin Terminal
    BY DEF Terminal
  <2> QED BY <1>7, <1>9, <2>1, <2>2 DEF LiveRecord, LiveInv
<1>11. SlotsAgree'
  <2> SUFFICES ASSUME NEW j \in Slots, jobs'[j].id # 0
               PROVE  jobs'[j].id <= last' /\ slotOf'[jobs'[j].id] = j
    BY DEF SlotsAgree
  <2>1. CASE j = i
    BY <1>1, <1>3, <1>9, <2>1
  <2>2. CASE j # i
    <3>1. jobs'[j] = jobs[j]
      BY <1>2, <2>2 DEF TypeOK
    <3>2. jobs[j].id <= last /\ slotOf[jobs[j].id] = j
      BY <3>1 DEF SlotsAgree, LiveInv
    <3>3. jobs[j].id \in 0..MaxCalls
      BY DEF TypeOK, Records
    <3>4. jobs[j].id # n /\ jobs[j].id \in Ids /\ jobs[j].id <= n
      BY <1>1, <3>1, <3>2, <3>3, LuaAssumption DEF Ids
    <3> QED BY <1>1, <1>2, <1>3, <3>1, <3>2, <3>4 DEF TypeOK
  <2> QED BY <2>1, <2>2
<1>12. Begun'
  <2>1. \A m \in Ids : m <= last => m <= n
    BY <1>1, LuaAssumption DEF Ids
  <2> QED BY <1>3, <2>1 DEF Begun, LiveInv
<1>13. task[n] = "none"
  BY <1>1 DEF Begun, LiveInv
<1>14. \A d \in Clients : Spawning(d) => /\ client[d].id \in 1..last /\ client[d].id # n
                                         /\ task[client[d].id] = "none"
  BY <1>1 DEF Holds, LiveInv
<1>15. Holds' /\ OneJob'
  <2>1. n \in 1..n /\ \A m \in 1..last : m \in 1..n
    BY <1>1
  <2>2. Holds'
    BY <1>3, <1>5, <1>13, <1>14, <2>1 DEF Holds
  <2>3. OneJob'
    BY <1>5, <1>14 DEF OneJob, LiveInv
  <2> QED BY <2>2, <2>3
<1>16. Separate'
  <2>1. kind'[n] = k /\ \A m \in Live : kind'[m] = kind[m]
    BY <1>1, <1>3, <1>8 DEF TypeOK
  <2>2. \A m \in Live : kind[m].name # k.name /\ (k.group = NoGroup \/ kind[m].group # k.group)
    BY <1>4, NoClash
  <2>3. PICK new : new = n
    OBVIOUS
  <2>4. \A m \in Live : Apart(m, new)' /\ Apart(new, m)'
    BY <2>1, <2>2, <2>3 DEF Apart
  <2>5. \A l, m \in Live : l # m => Apart(l, m)'
    BY <2>1 DEF Separate, Apart, LiveInv
  <2>6. Live' = Live \cup {new}
    BY <1>7, <2>3
  <2> QED BY <2>4, <2>5, <2>6 DEF Separate
<1>17. PlacesExact' /\ running' <= MaxConcurrent
  <2>1. IsFiniteSet(Live) /\ Cardinality(Live) = running
    BY LiveIds
  <2>2. Cardinality(Live \cup {n}) = Cardinality(Live) + 1
    BY <1>6, <2>1, FS_AddElement
  <2>3. PlacesExact'
    BY <1>3, <1>7, <2>1, <2>2 DEF PlacesExact, Live
  <2>4. running + 1 <= MaxConcurrent
    BY <1>4, LuaAssumption DEF Full, TypeOK
  <2> QED BY <1>3, <2>3, <2>4
<1> QED BY <1>6, <1>7, <1>10, <1>11, <1>12, <1>15, <1>16, <1>17 DEF LiveInv

LEMMA LiveStep ==
  ASSUME TypeOK, BudgetInv, LiveInv, [Next]_vars
  PROVE  LiveInv'
BY QuietCases, QuietKeeps, CommitKeeps, SpawnKeeps, UnwindKeeps, FinishKeeps

LEMMA InitLive ==
  ASSUME Init
  PROVE  LiveInv /\ TellInv
<1>1. Executing = {} /\ Starting = {} /\ Live = {}
  BY DEF Init, Executing, Starting, Idle, Live
<1>2. LiveRecord /\ Separate
  BY <1>1 DEF LiveRecord, Separate
<1>3. SlotsAgree /\ Begun
  BY DEF Init, SlotsAgree, Begun, Free
<1>4. Holds /\ OneJob
  BY DEF Init, Holds, OneJob, Spawning, Idle
<1>5. PlacesExact /\ running <= MaxConcurrent
  BY <1>1, FS_EmptySet, LuaAssumption DEF Init, PlacesExact
<1>6. TellInv
  BY <1>1 DEF Init, TellInv, Idle
<1> QED BY <1>2, <1>3, <1>4, <1>5, <1>6 DEF LiveInv

-----------------------------------------------------------------------------
(* What the calls that stop jobs are told.                                 *)

\* A target is what its client took from the table, now or before.
LEMMA TodoStep ==
  ASSUME TypeOK, BudgetInv, [Next]_vars, NEW d \in Clients, NEW t \in client'[d].todo
  PROVE  t \in client[d].todo \/ (t.slot \in Used /\ jobs[t.slot].id = t.id)
<1> DEFINE New(c) == \A u \in client'[c].todo :
                       u \in client[c].todo \/ (u.slot \in Used /\ jobs[u.slot].id = u.id)
           Others(c) == \A e \in Clients : e # c => client'[e] = client[e]
<1>1. ClientsOK
  BY TypeParts
<1>2. ASSUME NEW c \in Clients, Done(c) PROVE New(c) /\ Others(c)
  BY <1>1, <1>2 DEF ClientsOK, Done, Idle
<1>3. ASSUME NEW c \in Clients, NEW pc \in Stages, Goto(c, pc) PROVE New(c) /\ Others(c)
  BY <1>1, <1>3 DEF ClientsOK, ClientRecords, Goto
<1>4. ASSUME NEW c \in Clients, NEW S, S \subseteq Used, AskFor(c, S)
      PROVE  New(c) /\ Others(c)
  BY <1>1, <1>4 DEF ClientsOK, AskFor, Idle
<1>5. ASSUME NEW c \in Clients, NEW ok \in BOOLEAN, Proceed(c, ok)
      PROVE  New(c) /\ Others(c)
  <2>1. Done(c) \/ \E pc \in Stages :
          client' = [client EXCEPT ![c].pc = pc, ![c].todo = client[c].todo \ {Target(c)}]
    BY <1>5 DEF Proceed, Stages, Waits
  <2>2. CASE Done(c)
    BY <1>2, <2>2
  <2>3. ASSUME NEW pc \in Stages,
          client' = [client EXCEPT ![c].pc = pc, ![c].todo = client[c].todo \ {Target(c)}]
        PROVE  New(c) /\ Others(c)
    BY <1>1, <2>3 DEF ClientsOK, ClientRecords
  <2> HIDE DEF New, Others
  <2> QED BY <2>1, <2>2, <2>3
<1>6. ASSUME NEW c \in Clients, Submit(c) PROVE New(c) /\ Others(c)
  BY <1>1, <1>6 DEF Submit, ClientsOK, Idle
<1>7. ASSUME NEW c \in Clients, Check(c) PROVE New(c) /\ Others(c)
  <2>1. Conflicts(client[c].kind) \subseteq Used
    BY DEF Conflicts, SameName, SameGroup, Active
  <2>2. CASE Goto(c, "commit") \/ Done(c)
    <3> HIDE DEF New, Others
    <3> QED BY <2>2, <1>2, <1>3 DEF Stages
  <2>3. ASSUME NEW i \in Used,
               client' = [client EXCEPT ![c].pc = "ask",
                                        ![c].todo = {[slot |-> i, id |-> jobs[i].id]}]
        PROVE  New(c) /\ Others(c)
    BY <1>1, <2>3 DEF ClientsOK, ClientRecords
  <2>4. Conflicts(client[c].kind) # {} => Least(Conflicts(client[c].kind)) \in Used
    BY <2>1, LeastSlot DEF Used
  <2> HIDE DEF New, Others
  <2> QED BY <1>7, <2>2, <2>3, <2>4 DEF Check
<1>8. ASSUME NEW c \in Clients, Refuse(c) PROVE New(c) /\ Others(c)
  <2>1. CASE client' = [client EXCEPT ![c].pc = "check", ![c].retry = TRUE]
    BY <1>1, <2>1 DEF ClientsOK, ClientRecords
  <2> HIDE DEF New, Others
  <2> QED BY <1>2, <1>8, <2>1 DEF Refuse
<1>9. ASSUME NEW c \in Clients, Commit(c) PROVE New(c) /\ Others(c)
  BY <1>1, <1>9 DEF Commit, ClientsOK, ClientRecords
<1>10. ASSUME NEW c \in Clients,
              \/ StopJob(c) \/ StopAll(c) \/ CommitFails(c) \/ Spawn(c) \/ SpawnFails(c)
              \/ Unwind(c) \/ Mark(c) \/ Settle(c) \/ SettleWoken(c) \/ SettleTimeout(c)
              \/ Ask(c) \/ Look(c) \/ Woken(c) \/ WaitTimeout(c) \/ Again(c)
       PROVE  New(c) /\ Others(c)
  <2>1. \/ Done(c) \/ \E pc \in Stages : Goto(c, pc)
        \/ \E S \in SUBSET Used : AskFor(c, S)
        \/ \E ok \in BOOLEAN : Proceed(c, ok)
    <3>1. CASE StopJob(c) \/ StopAll(c)
      BY <3>1 DEF StopJob, StopAll, Active
    <3>2. CASE \/ CommitFails(c) \/ Spawn(c) \/ SpawnFails(c) \/ Unwind(c) \/ Mark(c)
               \/ Settle(c) \/ SettleWoken(c) \/ SettleTimeout(c)
      BY <3>2 DEF CommitFails, Spawn, SpawnFails, Unwind, Mark, Settle, SettleWoken,
                  SettleTimeout, Stages
    <3>3. CASE Ask(c) \/ Look(c) \/ Woken(c) \/ WaitTimeout(c) \/ Again(c)
      BY <3>3 DEF Ask, Look, Woken, WaitTimeout, Again, Stages, Waits
    <3> QED BY <1>10, <3>1, <3>2, <3>3
  <2> HIDE DEF New, Others
  <2> QED BY <1>2, <1>3, <1>4, <1>5, <2>1
<1>11. ASSUME NEW n \in Ids, ScriptEnds(n) \/ ScriptStops(n) \/ Finish(n) \/ Give(n)
       PROVE  client' = client
  BY <1>11 DEF ScriptEnds, ScriptStops, Finish, Give
<1>12. CASE UNCHANGED vars
  BY <1>12 DEF vars
<1>13. client' = client \/ \E c \in Clients : New(c) /\ Others(c)
  <2> HIDE DEF New, Others
  <2> QED BY <1>6, <1>7, <1>8, <1>9, <1>10, <1>11, <1>12, NextCases DEF vars
<1> QED BY <1>13

\* A stop reports a job when its target's record is not active.
LEMMA ToldStep ==
  ASSUME TypeOK, [Next]_vars, NEW m \in told'
  PROVE  m \in told \/ \E c \in Clients : \E t \in client[c].todo :
                         t \in Targets /\ t.id = m /\ t.slot \notin Active
<1>1. ASSUME NEW c \in Clients, Ask(c) \/ Look(c) \/ Again(c)
      PROVE  m \in told \/ (m = Target(c).id /\ Target(c).slot \notin Active)
  <2>1. CASE Ask(c)
    BY <2>1 DEF Ask
  <2>2. CASE Look(c) \/ Again(c)
    BY <2>2 DEF Look, Again, HasEnded
  <2> QED BY <1>1, <2>1, <2>2
<1>2. ASSUME NEW c \in Clients, Ask(c) \/ Look(c) \/ Again(c)
      PROVE  Target(c) \in client[c].todo /\ Target(c) \in Targets
  BY <1>2, TargetChosen DEF Ask, Look, Again, At, Waits
<1>3. ASSUME told' # told
      PROVE  \E c \in Clients : Ask(c) \/ Look(c) \/ Again(c)
  <2>1. ASSUME NEW c \in Clients,
               \/ Submit(c) \/ StopJob(c) \/ StopAll(c) \/ Check(c) \/ Refuse(c) \/ Commit(c)
               \/ CommitFails(c) \/ Spawn(c) \/ SpawnFails(c) \/ Unwind(c) \/ Mark(c)
               \/ Settle(c) \/ SettleWoken(c) \/ SettleTimeout(c) \/ Woken(c) \/ WaitTimeout(c)
        PROVE  told' = told
    BY <2>1 DEF Submit, StopJob, StopAll, Check, Refuse, Commit, CommitFails, Spawn,
                SpawnFails, Unwind, Mark, Settle, SettleWoken, SettleTimeout, Woken, WaitTimeout
  <2>2. ASSUME NEW n \in Ids, ScriptEnds(n) \/ ScriptStops(n) \/ Finish(n) \/ Give(n)
        PROVE  told' = told
    BY <2>2 DEF ScriptEnds, ScriptStops, Finish, Give
  <2>3. CASE UNCHANGED vars
    BY <1>3, <2>3 DEF vars
  <2> QED BY <1>3, <2>1, <2>2, <2>3, NextCases
<1> QED BY <1>1, <1>2, <1>3

\* An id that was given out keeps its slot, and no job takes a place twice.
LEMMA IdStep ==
  ASSUME TypeOK, BudgetInv, LiveInv, [Next]_vars
  PROVE  /\ last' \in {last, last + 1}
         /\ \A n \in Ids : n <= last => slotOf'[n] = slotOf[n]
         /\ Live' \subseteq Live \cup {last + 1}
<1>1. CASE QuietStep
  BY <1>1, QuietKeeps DEF QuietStep
<1>2. ASSUME NEW c \in Clients, Commit(c)
      PROVE  /\ last' = last + 1 /\ Live' \subseteq Live \cup {last + 1}
             /\ \A n \in Ids : n <= last => slotOf'[n] = slotOf[n]
  <2>1. last' = last + 1 /\ \E i : slotOf' = [slotOf EXCEPT ![last + 1] = i]
    BY <1>2 DEF Commit
  <2>2. \A n \in Ids : n <= last => n # last + 1
    BY LuaAssumption DEF TypeOK, Ids
  <2> QED BY <1>2, <2>1, <2>2, CommitKeeps DEF TypeOK
<1>3. ASSUME NEW c \in Clients, Spawn(c) \/ Unwind(c)
      PROVE  Live' \subseteq Live /\ last' = last /\ slotOf' = slotOf
  BY <1>3, SpawnKeeps, UnwindKeeps DEF Spawn, Unwind, jobVars
<1>4. ASSUME NEW n \in Ids, Finish(n)
      PROVE  Live' \subseteq Live /\ last' = last /\ slotOf' = slotOf
  BY <1>4, FinishKeeps DEF Finish, jobVars
<1> QED BY <1>1, <1>2, <1>3, <1>4, QuietCases

LEMMA TellStep ==
  ASSUME TypeOK, BudgetInv, LiveInv, TellInv, [Next]_vars
  PROVE  TellInv'
<1>1. last \in Nat
  BY LuaAssumption DEF TypeOK
<1>2. /\ last' \in {last, last + 1} /\ Live' \subseteq Live \cup {last + 1}
      /\ \A n \in Ids : n <= last => slotOf'[n] = slotOf[n]
  BY IdStep
<1>3. ASSUME NEW m \in told'
      PROVE  m \notin Live' /\ m \in 1..last'
  <2>1. m \notin Live /\ m \in 1..last
    <3>1. CASE m \in told
      BY <3>1 DEF TellInv
    <3>2. ASSUME NEW c \in Clients, NEW t \in client[c].todo,
                 t \in Targets, t.id = m, t.slot \notin Active
          PROVE  m \notin Live /\ m \in 1..last
      <4>1. t.id <= last /\ slotOf[t.id] = t.slot
        BY DEF TellInv
      <4>2. t.id \in Ids
        BY <3>2 DEF Targets
      <4>3. m \notin Live
        BY <3>2, <4>1, LiveSlot
      <4> QED BY <1>1, <3>2, <4>1, <4>2, <4>3, LuaAssumption DEF Ids
    <3> QED BY <3>1, <3>2, ToldStep
  <2> QED BY <1>1, <1>2, <2>1
<1>4. ASSUME NEW d \in Clients, NEW t \in client'[d].todo
      PROVE  t.id <= last' /\ slotOf'[t.id] = t.slot
  <2>1. t.id \in Ids
    BY ClientsStep, TypeParts DEF ClientsOK, ClientRecords, Targets
  <2>2. t.id <= last /\ slotOf[t.id] = t.slot
    <3>1. CASE t \in client[d].todo
      BY <3>1 DEF TellInv
    <3>2. CASE t.slot \in Used /\ jobs[t.slot].id = t.id
      BY <3>2 DEF LiveInv, SlotsAgree, Used
    <3> QED BY <3>1, <3>2, TodoStep
  <2> QED BY <1>1, <1>2, <2>1, <2>2, LuaAssumption DEF Ids
<1> QED BY <1>3, <1>4 DEF TellInv

-----------------------------------------------------------------------------
(* The theorems.                                                           *)

IInv == TypeOK /\ BudgetInv /\ LiveInv /\ TellInv

LEMMA TypeInit ==
  ASSUME Init
  PROVE  TypeOK /\ BudgetInv
<1>1. Free \in Records
  BY LuaAssumption DEF Free, Records, Status
<1>2. TablesOK
  BY <1>1, IdleType, LuaAssumption DEF Init, TablesOK, Slots
<1>3. ClientsOK
  BY IdleType DEF Init, ClientsOK, Waits
<1>4. Bound = {}
  BY DEF Init, Bound, Idle, Waits
<1>5. BudgetInv
  BY <1>4, FS_EmptySet DEF Init, BudgetInv
<1> QED BY <1>2, <1>3, <1>5, TypeParts

LEMMA TypeStep ==
  ASSUME TypeOK, BudgetInv, [Next]_vars
  PROVE  TypeOK' /\ BudgetInv'
BY TablesStep, ClientsStep, BudgetStep DEF TypeOK, TablesOK, ClientsOK

LEMMA Inductive == Spec => []IInv
<1>1. Init => IInv
  BY TypeInit, InitLive DEF IInv
<1>2. IInv /\ [Next]_vars => IInv'
  BY TypeStep, LiveStep, TellStep DEF IInv
<1> QED BY <1>1, <1>2, PTL DEF Spec

\* THEOREM: in every reachable state of the job table the records, the
\* counters, the clients and the ids have their types; in particular a call
\* that stops jobs always has a target and no job id is given out without a call.
THEOREM TypeCorrect == Spec => []TypeOK
<1>1. IInv => TypeOK
  BY DEF IInv
<1> QED BY <1>1, Inductive, PTL

\* THEOREM: s_running_jobs always counts exactly the jobs that hold a place,
\* whatever spawns fail and whatever jobs end before the submit has noted that
\* they run: no place leaks and none is given back twice.
THEOREM PlacesCorrect == Spec => []PlacesExact
<1>1. IInv => PlacesExact
  BY DEF IInv, LiveInv
<1> QED BY <1>1, Inductive, PTL

\* THEOREM: no more than CAP_LUA_ASYNC_MAX_CONCURRENT scripts execute at once,
\* for any number of calls, although the limit is checked before the task that
\* counts against it exists.
THEOREM CapCorrect == Spec => []ConcurrencyCap
<1>1. ASSUME IInv PROVE ConcurrencyCap
  <2>1. Executing \subseteq Live /\ IsFiniteSet(Live) /\ Cardinality(Live) = running
    BY <1>1, LiveIds DEF Live, IInv
  <2>2. Cardinality(Executing) <= Cardinality(Live) /\ Cardinality(Executing) \in Nat
    BY <2>1, FS_Subset, FS_CardinalityType
  <2>3. running <= MaxConcurrent /\ running \in Nat /\ MaxConcurrent \in Nat
    BY <1>1, LuaAssumption DEF IInv, LiveInv, TypeOK
  <2> QED BY <2>1, <2>2, <2>3 DEF ConcurrencyCap
<1> QED BY <1>1, Inductive, PTL

\* THEOREM: two scripts of one name, or of one exclusive group, never execute
\* at the same time, whatever takeovers, stops and retries are under way.
THEOREM ExclusiveCorrect == Spec => []ExclusiveRun
<1>1. IInv => ExclusiveRun
  BY DEF IInv, LiveInv, Separate, ExclusiveRun, Live
<1> QED BY <1>1, Inductive, PTL

\* THEOREM: the record of a script that executes is never recycled or
\* cleared, so the pointer its hook reads stays its own.
THEOREM RecordCorrect == Spec => []RecordKept
<1>1. IInv => RecordKept
  BY DEF IInv, LiveInv, LiveRecord, RecordKept, Live
<1> QED BY <1>1, Inductive, PTL

\* THEOREM: a job that a stop reported as stopped or as already terminal does
\* not execute any more, even when its record was recycled in between.
THEOREM StopCorrect == Spec => []StopTruthful
<1>1. IInv => StopTruthful
  BY DEF IInv, TellInv, StopTruthful, Live
<1> QED BY <1>1, Inductive, PTL
=============================================================================
