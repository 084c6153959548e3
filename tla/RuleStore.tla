------------------------------ MODULE RuleStore ------------------------------
(***************************************************************************)
(* The automation rules of components/claw_modules/claw_event_router: a    *)
(* JSON file on a FAT partition and the list the router task matches       *)
(* events against.  The console and the agent's router-manager tools       *)
(* change them, and an action of a rule may call these tools too: each     *)
(* change reads the file, edits the list, writes it to one shared          *)
(* temporary file, removes the rules file, renames the temporary file, and *)
(* replaces the list in memory.  Only this last step holds the mutex; the  *)
(* router task holds it while it runs rule actions.                        *)
(*                                                                         *)
(* A list of rules is a function from the identifiers to what each rule    *)
(* says: the order of the rules, and their contents, are abstracted.  The  *)
(* file is read in one step.                                               *)
(***************************************************************************)
EXTENDS Naturals, FiniteSets

CONSTANTS
  Writers,     \* the tasks that change or reload the rules
  RouterTask,  \* the router task, one of them where rules may change rules
  RuleIds,     \* rule identifiers
  Bodies,      \* what a rule may say
  NoRule,
  MaxRules,    \* max_rules
  Missing,     \* no such file
  Garbled      \* a file that is not a whole JSON array

ASSUME RuleAssumption ==
  /\ IsFiniteSet(RuleIds)
  /\ NoRule \notin Bodies
  /\ MaxRules \in Nat
  /\ Missing # Garbled

Lists == {l \in [RuleIds -> Bodies \cup {NoRule}] :
            Cardinality({i \in RuleIds : l[i] # NoRule}) <= MaxRules}

ASSUME FileAssumption == Missing \notin Lists /\ Garbled \notin Lists

VARIABLES
  file,    \* rules_path
  temp,    \* rules_path with .tmp
  memory,  \* s_runtime->rules
  router,  \* the router task: idle, matching an event against a list, or down;
           \* changed: one of the actions of this list has replaced it
  op,      \* where each task is in its operation, the change, the list in hand
  kept,    \* history: the rules after the changes that succeeded
  mishap   \* history: the worst mishap so far of those the code is open to

ruleVars == <<file, temp, memory, router, op, kept, mishap>>

NoRules == [i \in RuleIds |-> NoRule]
Size(l) == Cardinality({i \in RuleIds : l[i] # NoRule})

Changes == [kind : {"add", "update"}, id : RuleIds, body : Bodies]
           \cup [kind : {"delete"}, id : RuleIds, body : {NoRule}]
Reload == [kind |-> "reload"]

Quiet == [pc |-> "idle", change |-> Reload, list |-> NoRules]

At(w, pc) == op[w].pc = pc
Goto(w, pc) == op' = [op EXCEPT ![w].pc = pc]
Return(w) == op' = [op EXCEPT ![w] = Quiet]

\* A mishap may lose rules, or also leave a file that does not parse.
Mishap(what) == mishap' = IF mishap = "garbling" THEN mishap ELSE what

\* claw_event_router_load_rules_from_file: no file is an empty list.
Loaded(f) == IF f = Missing THEN NoRules ELSE f

RulesInit ==
  /\ file \in Lists \cup {Missing}
  /\ temp = Missing
  /\ memory = Loaded(file)
  /\ router = [at |-> "idle", list |-> NoRules, changed |-> FALSE]
  /\ op = [w \in Writers |-> Quiet]
  /\ kept = memory
  /\ mishap = "none"

-----------------------------------------------------------------------------
(* Changing the rules.                                                     *)

\* Nothing keeps a second task from starting while another is on its way, and
\* nothing keeps an action of a rule from it.
Begin(w, change) ==
  /\ router.at # "down"
  /\ w = RouterTask => router.at = "matching"
  /\ At(w, "idle")
  /\ op' = [op EXCEPT ![w].pc = "read", ![w].change = change]
  /\ IF \E v \in Writers \ {w} : ~At(v, "idle") THEN Mishap("garbling") ELSE UNCHANGED mishap
  /\ UNCHANGED <<file, temp, memory, router, kept>>

\* When claw_event_router_add_rule and its siblings accept the change.
Accepts(change, l) ==
  CASE change.kind = "add" -> Size(l) < MaxRules /\ l[change.id] = NoRule
    [] change.kind \in {"update", "delete"} -> l[change.id] # NoRule

Edited(change, l) == [l EXCEPT ![change.id] = change.body]

\* The list is what the file holds, or empty when the file cannot be opened,
\* whatever the reason.
Read(w) ==
  /\ At(w, "read")
  /\ \E l \in {Loaded(file), NoRules} \ {Garbled} :
       /\ IF l = Loaded(file) THEN UNCHANGED mishap ELSE Mishap("loss")
       /\ \/ /\ op[w].change = Reload
             /\ op' = [op EXCEPT ![w].pc = "swap", ![w].list = l]
          \/ /\ op[w].change # Reload
             /\ Accepts(op[w].change, l)
             /\ op' = [op EXCEPT ![w].pc = "open", ![w].list = Edited(op[w].change, l)]
          \/ /\ op[w].change # Reload
             /\ ~Accepts(op[w].change, l)
             /\ Return(w)
  /\ UNCHANGED <<file, temp, memory, router, kept>>

\* The file does not parse, or memory is short.
ReadFails(w) ==
  /\ At(w, "read")
  /\ Return(w)
  /\ UNCHANGED <<file, temp, memory, router, kept, mishap>>

-----------------------------------------------------------------------------
(* claw_event_router_write_rules_json_file.                                *)

\* The variant writes the rules file in place.
OpenInPlace(w) ==
  /\ At(w, "open")
  /\ file' = Garbled
  /\ temp' = Garbled
  /\ Goto(w, "write")
  /\ UNCHANGED <<memory, router, kept, mishap>>

OpenTemp(w) ==
  /\ At(w, "open")
  /\ temp' = Garbled
  /\ Goto(w, "write")
  /\ UNCHANGED <<file, memory, router, kept, mishap>>

\* The file system does not keep two tasks from writing one file: what both
\* wrote, or what was renamed under the second, may be neither's list.
Write(w) ==
  LET shared == \E v \in Writers \ {w} : op[v].pc \in {"write", "remove", "rename"}
  IN /\ At(w, "write")
     /\ IF temp = Missing
          THEN file' \in {file, op[w].list, Garbled} /\ UNCHANGED temp
          ELSE temp' \in {op[w].list} \cup {f \in {Garbled} : shared} /\ UNCHANGED file
     /\ Goto(w, "remove")
     /\ UNCHANGED <<memory, router, kept, mishap>>

\* fopen fails, or fwrite or fflush.
WriteFails(w) ==
  /\ op[w].pc \in {"open", "write"}
  /\ temp' = IF At(w, "open") THEN temp ELSE Missing
  /\ Return(w)
  /\ UNCHANGED <<file, memory, router, kept, mishap>>

\* The result of fclose is not looked at, and closing writes what is left.
CloseFails(w) ==
  /\ At(w, "write")
  /\ temp' = Garbled
  /\ Mishap("garbling")
  /\ Goto(w, "remove")
  /\ UNCHANGED <<file, memory, router, kept>>

RemoveOld(w) ==
  /\ At(w, "remove")
  /\ file' = Missing
  /\ Goto(w, "rename")
  /\ UNCHANGED <<temp, memory, router, kept, mishap>>

\* The variant reports the change as done.
RemoveIgnored(w) ==
  /\ At(w, "remove")
  /\ file # Missing
  /\ temp' = Missing
  /\ Goto(w, "swap")
  /\ UNCHANGED <<file, memory, router, kept, mishap>>

RemoveFails(w) ==
  /\ At(w, "remove")
  /\ file # Missing
  /\ temp' = Missing
  /\ Return(w)
  /\ UNCHANGED <<file, memory, router, kept, mishap>>

Rename(w) ==
  /\ At(w, "rename")
  /\ temp # Missing
  /\ file = Missing
  /\ file' = temp
  /\ temp' = Missing
  /\ Goto(w, "swap")
  /\ UNCHANGED <<memory, router, kept, mishap>>

\* The old file is gone and the new one too; memory keeps the old list.
RenameFails(w) ==
  /\ At(w, "rename")
  /\ temp' = Missing
  /\ Mishap("loss")
  /\ Return(w)
  /\ UNCHANGED <<file, memory, router, kept>>

-----------------------------------------------------------------------------
(* The list in memory.                                                     *)

\* The variant replaces the list without the mutex.
Unguarded(w) == router.at # "down"

\* The mutex is recursive: it does not keep the router task out.
MayLock(w) == w = RouterTask \/ router.at = "idle"

\* The end of claw_event_router_commit_rules and of claw_event_router_reload.
Swap(w) ==
  /\ At(w, "swap")
  /\ MayLock(w)
  /\ memory' = op[w].list
  /\ router' = [router EXCEPT !.changed = (w = RouterTask)]
  /\ kept' = IF op[w].change = Reload THEN kept ELSE Edited(op[w].change, kept)
  /\ Return(w)
  /\ UNCHANGED <<file, temp, mishap>>

\* claw_event_router_process_event takes and gives the mutex.
StartEvent ==
  /\ router.at = "idle"
  /\ router' = [at |-> "matching", list |-> memory, changed |-> FALSE]
  /\ UNCHANGED <<file, temp, memory, op, kept, mishap>>

EndEvent ==
  /\ router.at = "matching"
  /\ \A w \in Writers : w = RouterTask => At(w, "idle")
  /\ router' = [at |-> "idle", list |-> NoRules, changed |-> FALSE]
  /\ UNCHANGED <<file, temp, memory, op, kept, mishap>>

\* The device restarts: claw_event_router_init loads the file, or fails and
\* the application does not start.
Restart ==
  /\ memory' = IF file = Garbled THEN NoRules ELSE Loaded(file)
  /\ router' = [at |-> IF file = Garbled THEN "down" ELSE "idle", list |-> NoRules,
                changed |-> FALSE]
  /\ op' = [w \in Writers |-> Quiet]
  /\ kept' = memory'
  /\ IF \E w \in Writers : At(w, "rename") THEN Mishap("loss") ELSE UNCHANGED mishap
  /\ UNCHANGED <<file, temp>>

-----------------------------------------------------------------------------
RulesNext ==
  \/ \E w \in Writers, change \in Changes \cup {Reload} : Begin(w, change)
  \/ \E w \in Writers :
       \/ Read(w) \/ ReadFails(w) \/ OpenTemp(w) \/ Write(w) \/ WriteFails(w)
       \/ CloseFails(w) \/ RemoveOld(w) \/ RemoveFails(w) \/ Rename(w) \/ RenameFails(w) \/ Swap(w)
  \/ StartEvent \/ EndEvent \/ Restart

RulesSpec == RulesInit /\ [][RulesNext]_ruleVars

-----------------------------------------------------------------------------
(* Properties.                                                             *)

Stages == {"idle", "read", "open", "write", "remove", "rename", "swap"}

\* The types of the state: however the tasks interleave and whatever fails,
\* the list in memory is a list of at most max_rules rules.
RulesTypeOK ==
  /\ file \in Lists \cup {Missing, Garbled}
  /\ temp \in Lists \cup {Missing, Garbled}
  /\ memory \in Lists
  /\ router \in [at : {"idle", "matching", "down"}, list : Lists, changed : BOOLEAN]
  /\ op \in [Writers -> [pc : Stages, change : Changes \cup {Reload}, list : Lists]]
  /\ kept \in [RuleIds -> Bodies \cup {NoRule}]
  /\ mishap \in {"none", "loss", "garbling"}

Between == \A w \in Writers : op[w].pc \notin {"rename", "swap"}

\* Every change that was reported as done is in memory and, unless another is
\* being put in its place, in the file: a change is lost only when two tasks
\* overlap, the file cannot be opened or closed, or a rename does not happen.
DoneIsKept ==
  mishap = "none" => memory = kept /\ (Between => Loaded(file) = kept)

\* A failed write never reaches the rules file: only two tasks writing at once
\* or an unseen failure of fclose leave a file that keeps the device from
\* starting.
FileWhole == mishap # "garbling" => file # Garbled

\* A restart in the middle of a change finds the rules from before it or after
\* it.
RestartAtomic ==
  [][Restart /\ mishap' = "none" =>
       memory' \in {memory} \cup {op[w].list : w \in {v \in Writers : At(v, "swap")}}]_ruleVars

\* The rules an event is matched against are not freed while their actions run,
\* whatever other tasks do to the rules.  Not so when one of those actions does
\* it: the loop over the rules goes on in freed memory (1916-1991).
MatchedAlive == router.at = "matching" => router.list = memory \/ router.changed
=============================================================================
