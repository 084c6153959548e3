----------------------------- MODULE MemoryStore -----------------------------
(***************************************************************************)
(* The structured long-term memory of components/claw_modules/claw_memory: *)
(* a file of records (one line for each version of a memory, the last line *)
(* of an id counts, a flag tells it was forgotten), an index of summary    *)
(* labels, a markdown view and a digest log.  The memory tools and the     *)
(* automatic extraction store, update, forget and recall; every few        *)
(* changes, and at every boot, a compaction rewrites records and index.    *)
(* No lock guards the files: Writers are the tasks that call.              *)
(*                                                                         *)
(* A file operation is a step.  The power may fail between two of them or  *)
(* in one, and a file may fail to open.  The clock is not modelled.        *)
(***************************************************************************)
EXTENDS Integers, FiniteSets, SequencesExt, Functions

CONSTANTS
  Writers,          \* the tasks that call the memory functions
  Main,             \* the task that initialises the memory at boot
  Facts,            \* what a memory says, up to what the code calls the same
  Long,             \* facts whose line takes more than 512 bytes
  Labels,           \* summary labels: the first tag of a memory
  NoFact, NoLabel,
  Garbled,          \* a file that is not a whole JSON object
  Torn,             \* a line of which only a part was written
  Missing,          \* no such file
  ChangeThreshold,  \* CLAW_MEMORY_COMPACT_CHANGE_THRESHOLD
  SizeThreshold,    \* CLAW_MEMORY_COMPACT_SIZE_THRESHOLD, in lines
  MaxItems,         \* CLAW_MEMORY_MAX_ACTIVE_ITEMS
  MaxIds, MaxRecalls, MaxCuts, MaxFaults  \* bounds

VARIABLES
  records,    \* memory_records.jsonl
  index,      \* memory_index.json
  markdown,   \* MEMORY.md: the facts it lists
  digest,     \* memory_digest.log: the ids of its recall lines
  changes,    \* write_changes_since_compact
  lastId,     \* the ids given so far
  job,        \* where each task is in its call, and what it holds
  kept,       \* history: the facts whose store succeeded, not forgotten since
  forgotten,  \* history: the ids whose forgetting succeeded
  stale,      \* history: a write failed, and no compaction passed since
  cuts, faults

vars == <<records, index, markdown, digest, changes, lastId, job,
          kept, forgotten, stale, cuts, faults>>

Items == [id : Nat \ {0}, fact : Facts, label : Labels, sid : Nat,
          access : Nat, gone : BOOLEAN]

\* A catalog of labels, each with its id and the number of its memories, the
\* next id to give, and how far the digest was counted.
Catalogs == UNION {[used -> [sid : Nat, refs : Nat]] : used \in SUBSET Labels}
Indexes == [sums : Catalogs, next : Nat, mark : Nat]

ASSUME MemoryAssumption ==
  /\ Main \notin Writers
  /\ Torn \notin Items
  /\ Garbled \notin Indexes /\ Missing \notin Indexes /\ Garbled # Missing

-----------------------------------------------------------------------------
(* What the files say.                                                     *)

\* Variant: the first line of an id counts.
WithLineFirst(list, line) ==
  IF line = Torn \/ (\E i \in DOMAIN list : list[i].id = line.id)
  THEN list ELSE Append(list, line)

\* claw_memory_load_current_items: the last line of an id replaces those
\* before it, a line that does not parse is skipped.
WithLine(list, line) ==
  CASE line = Torn -> list
    [] line # Torn /\ (\E i \in DOMAIN list : list[i].id = line.id) ->
         [i \in DOMAIN list |-> IF list[i].id = line.id THEN line ELSE list[i]]
    [] OTHER -> Append(list, line)

Current(file) ==
  LET read[n \in 0..Len(file)] ==
        IF n = 0 THEN <<>> ELSE WithLine(read[n - 1], file[n])
  IN  read[Len(file)]

Living(list) == {m \in ToSet(list) : ~m.gone}
Active(file) == Living(Current(file))
FactsOf(list) == {m.fact : m \in Living(list)}

\* claw_memory_append_record: what follows an unfinished line joins it.
Unfinished(file) == file # <<>> /\ Last(file) = Torn
WithRecord(file, m) == IF Unfinished(file) THEN file ELSE Append(file, m)

\* The members of S that a list has, in its order.
Only(list, S) ==
  LET only[n \in 0..Len(list)] ==
        IF n = 0 THEN <<>>
        ELSE IF list[n] \in S THEN Append(only[n - 1], list[n]) ELSE only[n - 1]
  IN  only[Len(list)]

NewIndex == [sums |-> << >>, next |-> 1, mark |-> 0]

\* claw_memory_ensure_summary_label
WithLabel(idx, label, preferred) ==
  IF label \in DOMAIN idx.sums THEN idx
  ELSE LET taken == {idx.sums[l].sid : l \in DOMAIN idx.sums}
           sid == IF preferred > 0 /\ preferred \notin taken
                  THEN preferred ELSE idx.next
       IN [idx EXCEPT
             !.sums = [l \in DOMAIN @ \cup {label} |->
                         IF l = label THEN [sid |-> sid, refs |-> 0] ELSE @[l]],
             !.next = IF sid >= @ THEN sid + 1 ELSE @]

\* claw_memory_adjust_summary_stats: counts never go below zero.
WithRefs(idx, sid, delta) ==
  LET refs(l) == idx.sums[l].refs + delta
  IN  [idx EXCEPT !.sums = [l \in DOMAIN @ |->
         IF @[l].sid = sid
         THEN [sid |-> sid, refs |-> IF refs(l) < 0 THEN 0 ELSE refs(l)]
         ELSE @[l]]]

\* Variant: labels without a memory stay.
WithUnused(idx) == idx

\* claw_memory_remove_unused_summaries
WithoutUnused(idx) ==
  [idx EXCEPT !.sums = Restrict(@, {l \in DOMAIN @ : @[l].refs > 0})]

-----------------------------------------------------------------------------
(* Compaction, as a function of what it reads.                             *)

\* claw_memory_apply_digest_recall_deltas
Counted(list, mark) ==
  [i \in DOMAIN list |-> [list[i] EXCEPT !.access = @ + Cardinality(
     {n \in DOMAIN digest : n > mark /\ digest[n] = list[i].id})]]

\* Two memories that say the same become one, under the first id; the
\* clock decides which of the two labels stays (later).
MergedWith(acc, m, later) ==
  CASE m.gone -> acc
    [] ~m.gone /\ (\E i \in DOMAIN acc : acc[i].fact = m.fact) ->
         [i \in DOMAIN acc |->
            IF acc[i].fact # m.fact THEN acc[i]
            ELSE [acc[i] EXCEPT !.access = IF m.access > @ THEN m.access ELSE @,
                                !.label = IF later THEN m.label ELSE @]]
    [] OTHER -> Append(acc, m)

Merged(list, later) ==
  LET merged[n \in 0..Len(list)] ==
        IF n = 0 THEN <<>> ELSE MergedWith(merged[n - 1], list[n], later)
  IN  merged[Len(list)]

\* claw_memory_trim_to_capacity: the scores depend on the clock.
Trims(list) ==
  {Only(list, ToSet(list) \ out) : out \in
    {s \in SUBSET ToSet(list) :
       Cardinality(s) = IF Len(list) > MaxItems THEN Len(list) - MaxItems ELSE 0}}

\* Variant: the index forgets how far the digest was counted.
RelabelledUnmarked(list, old) ==
  [list |-> list, idx |-> [old EXCEPT !.mark = 0]]

\* The new index, and the list with its ids.
RelabelledWith(acc, m, old) ==
  LET preferred == IF m.label \in DOMAIN old.sums
                   THEN old.sums[m.label].sid ELSE 0
      idx == WithLabel(acc.idx, m.label, preferred)
      sid == idx.sums[m.label].sid
  IN  [list |-> Append(acc.list, [m EXCEPT !.sid = sid]),
       idx |-> WithRefs(idx, sid, 1)]

Relabelled(list, old) ==
  LET new[n \in 0..Len(list)] ==
        IF n = 0
        THEN [list |-> <<>>, idx |-> [NewIndex EXCEPT !.mark = Len(digest)]]
        ELSE RelabelledWith(new[n - 1], list[n], old)
  IN  new[Len(list)]

\* Variant: the buffer is one byte short.
WrittenShort(list) == IF list = <<>> THEN list ELSE Append(Front(list), Torn)

\* The new file is put together in a buffer of 512 bytes for each memory
\* (a size is in units of 256 bytes, three for a long line and one for
\* another): what does not fit is cut off, and the file is written all the same.
Written(list) ==
  LET size(n) == n + 2 * Cardinality({i \in 1..n : list[i].fact \in Long})
      whole == {n \in 0..Len(list) : size(n) <= 2 * Len(list)}
  IN IF Len(list) \in whole THEN list
     ELSE Append(SubSeq(list, 1, Max(whole)), Torn)

-----------------------------------------------------------------------------
(* The tasks.                                                              *)

Procs == Writers \cup {Main}

Quiet == [pc |-> "idle", kind |-> "none", fact |-> NoFact, label |-> NoLabel,
          id |-> 0, part |-> "none", doomed |-> {}, replace |-> FALSE,
          promise |-> FALSE, joined |-> FALSE, list |-> <<>>, idx |-> NewIndex]

At(p, pc) == job[p].pc = pc
Goto(p, pc) == job' = [job EXCEPT ![p].pc = pc]
Up == At(Main, "up")

\* claw_memory_maybe_compact, after n changes
CompactDue(n) == n >= ChangeThreshold \/ Len(records) >= SizeThreshold

\* The first boot finds no index and writes the default one.
Init ==
  /\ records = <<>>
  /\ index = Missing
  /\ markdown = {}
  /\ digest = <<>>
  /\ changes = 0
  /\ lastId = 0
  /\ job = [p \in Procs |-> IF p = Main THEN [Quiet EXCEPT !.pc = "create"] ELSE Quiet]
  /\ kept = {}
  /\ forgotten = {}
  /\ stale = FALSE
  /\ cuts = 0
  /\ faults = 0

\* claw_memory_init: the compaction follows, its result is ignored.
Create ==
  /\ At(Main, "create")
  /\ index' = IF index = Missing THEN NewIndex ELSE index
  /\ Goto(Main, "compact")
  /\ UNCHANGED <<records, markdown, digest, changes, lastId, kept, forgotten,
                 stale, cuts, faults>>

-----------------------------------------------------------------------------
(* Calls.                                                                  *)

Begin(w, call) ==
  /\ Up
  /\ At(w, "idle")
  /\ job' = [job EXCEPT ![w] = call]
  /\ UNCHANGED <<records, index, markdown, digest, changes, lastId, kept,
                 forgotten, stale, cuts, faults>>

\* Every store under way may take an id.
IdLeft == lastId + Cardinality({w \in Writers : At(w, "check")}) < MaxIds

\* memory_store, and a memory that was extracted; replace tells that the
\* user corrects an earlier fact.
BeginStore(w, fact, label, replace) ==
  /\ IdLeft
  /\ Begin(w, [Quiet EXCEPT !.pc = "check", !.kind = "store", !.part = "store",
                            !.fact = fact, !.label = label, !.replace = replace,
                            !.promise = TRUE])

\* claw_memory_forget_with_result
BeginForget(w, id) ==
  Begin(w, [Quiet EXCEPT !.pc = "find", !.kind = "forget", !.part = "forget",
                         !.id = id])

\* claw_memory_update_with_result: what says the same as before returns.
BeginUpdate(w, id, fact, label) ==
  /\ IdLeft
  /\ \E m \in Active(records) :
       /\ m.id = id
       /\ m.fact # fact \/ m.label # label
       /\ Begin(w, [Quiet EXCEPT !.pc = "check", !.kind = "update",
                                 !.part = "store", !.fact = fact,
                                 !.label = label, !.id = id, !.doomed = {id},
                                 !.promise = TRUE])

\* claw_memory_recall: a line of the digest for each memory of the label.
Recall(w, label) ==
  /\ Up
  /\ At(w, "idle")
  /\ index # Garbled
  /\ label \in DOMAIN index.sums
  /\ LET found == Only(Current(records), {m \in Active(records) :
                        m.sid = index.sums[label].sid})
     IN /\ Len(digest) + Len(found) <= MaxRecalls
        /\ digest' = digest \o [i \in DOMAIN found |-> found[i].id]
  /\ UNCHANGED <<records, index, markdown, changes, lastId, job, kept,
                 forgotten, stale, cuts, faults>>

-----------------------------------------------------------------------------
(* Storing.                                                                *)

\* A memory other than the updated one says the same.
Known(p) == \E m \in Active(records) : m.fact = job[p].fact /\ m.id # job[p].id

\* Nothing is stored, and nothing is replaced.
CheckKnown(p) ==
  /\ At(p, "check")
  /\ Known(p)
  /\ job' = [job EXCEPT ![p].pc = "next", ![p].replace = FALSE]
  /\ UNCHANGED <<records, index, markdown, digest, changes, lastId, kept,
                 forgotten, stale, cuts, faults>>

\* claw_memory_load_index takes an index that does not open for none.
Read(idx) ==
  /\ idx # Garbled
  /\ \/ /\ idx = index
        /\ UNCHANGED <<stale, faults>>
     \/ /\ idx = NewIndex
        /\ Up
        /\ faults < MaxFaults
        /\ faults' = faults + 1
        /\ stale' = TRUE

CheckNew(p, old) ==
  /\ At(p, "check")
  /\ ~Known(p)
  /\ Read(old)
  /\ lastId' = lastId + 1
  /\ LET idx == WithLabel(old, job[p].label, 0)
         sid == idx.sums[job[p].label].sid
         m == [id |-> lastId + 1, fact |-> job[p].fact, label |-> job[p].label,
               sid |-> sid, access |-> 0, gone |-> FALSE]
     IN job' = [job EXCEPT ![p].pc = "append",
                           ![p].list = Append(Current(records), m),
                           ![p].idx = WithRefs(idx, sid, 1)]
  /\ UNCHANGED <<records, index, markdown, digest, changes, kept, forgotten,
                 cuts>>

\* claw_memory_load_index fails on what does not parse; at boot that is
\* ignored.
IndexUnread(p) ==
  /\ (At(p, "check") /\ ~Known(p)) \/ At(p, "reload") \/ At(p, "compact")
  /\ index = Garbled
  /\ Goto(p, IF p = Main THEN "up" ELSE "failed")
  /\ UNCHANGED <<records, index, markdown, digest, changes, lastId, kept,
                 forgotten, stale, cuts, faults>>

\* The record in hand: the stored memory, or the one to forget.
Record(p) ==
  IF job[p].part = "store" THEN Last(job[p].list)
  ELSE CHOOSE m \in ToSet(job[p].list) : m.id = job[p].id

\* History: no promise rests on a record that joins an unfinished line.
AppendRecord(p) ==
  /\ At(p, "append")
  /\ records' = WithRecord(records, Record(p))
  /\ job' = [job EXCEPT ![p].pc = IF job[p].part = "store" THEN "index" ELSE "reload",
                        ![p].joined = @ \/ Unfinished(records)]
  /\ UNCHANGED <<index, markdown, digest, changes, lastId, kept, forgotten,
                 stale, cuts, faults>>

\* claw_memory_save_index, of a change or of a compaction
SaveIndex(p) ==
  /\ At(p, "index") \/ At(p, "newIndex")
  /\ index' = job[p].idx
  /\ Goto(p, IF At(p, "index") THEN "markdown" ELSE "newMarkdown")
  /\ UNCHANGED <<records, markdown, digest, changes, lastId, kept, forgotten,
                 stale, cuts, faults>>

\* claw_memory_sync_markdown, then the digest and the count of changes
SyncMarkdown(p) ==
  /\ At(p, "markdown")
  /\ markdown' = FactsOf(job[p].list)
  /\ changes' = changes + 1
  /\ Goto(p, IF CompactDue(changes + 1) THEN "compact" ELSE "next")
  /\ UNCHANGED <<records, index, digest, lastId, kept, forgotten, stale,
                 cuts, faults>>

-----------------------------------------------------------------------------
(* Forgetting.                                                             *)

\* History: the promise to keep the fact ends here.
Find(p) ==
  /\ At(p, "find")
  /\ \E m \in Active(records) :
       /\ m.id = job[p].id
       /\ kept' = kept \ {m.fact}
  /\ job' = [job EXCEPT
        ![p].pc = "append",
        ![p].list = LET list == Current(records)
                    IN [i \in DOMAIN list |->
                          IF list[i].id = job[p].id
                          THEN [list[i] EXCEPT !.gone = TRUE] ELSE list[i]]]
  /\ UNCHANGED <<records, index, markdown, digest, changes, lastId, forgotten,
                 stale, cuts, faults>>

\* ESP_ERR_NOT_FOUND; only claw_memory_replace_conflicting_items goes on.
NotFound(p) ==
  /\ At(p, "find")
  /\ \A m \in Active(records) : m.id # job[p].id
  /\ job' = [job EXCEPT ![p].pc = IF job[p].kind = "store" THEN "next" ELSE "failed",
                        ![p].part = "missed"]
  /\ UNCHANGED <<records, index, markdown, digest, changes, lastId, kept,
                 forgotten, stale, cuts, faults>>

\* The index is read after the record was appended.
Reload(p, old) ==
  /\ At(p, "reload")
  /\ Read(old)
  /\ job' = [job EXCEPT ![p].pc = "index",
                        ![p].idx = WithoutUnused(WithRefs(old, Record(p).sid, -1))]
  /\ UNCHANGED <<records, index, markdown, digest, changes, lastId, kept,
                 forgotten, cuts>>

-----------------------------------------------------------------------------
(* What follows a part of a call.                                          *)

\* claw_memory_replace_conflicting_items: memories of the same label that
\* say something else.
Conflicts(p) ==
  /\ At(p, "next")
  /\ job[p].replace
  /\ job' = [job EXCEPT ![p].replace = FALSE,
                        ![p].doomed = {m.id : m \in {n \in Active(records) :
                          n.label = job[p].label /\ n.fact # job[p].fact}}]
  /\ UNCHANGED <<records, index, markdown, digest, changes, lastId, kept,
                 forgotten, stale, cuts, faults>>

\* History: the forgetting of this part has succeeded.
GoneBy(p) ==
  IF job[p].part = "forget" /\ ~job[p].joined THEN {job[p].id} ELSE {}

ForgetNext(p) ==
  /\ At(p, "next")
  /\ ~job[p].replace
  /\ \E id \in job[p].doomed :
       /\ \A other \in job[p].doomed : id <= other
       /\ job' = [job EXCEPT ![p].pc = "find", ![p].part = "forget",
                             ![p].id = id, ![p].doomed = @ \ {id}]
  /\ forgotten' = forgotten \cup GoneBy(p)
  /\ UNCHANGED <<records, index, markdown, digest, changes, lastId, kept,
                 stale, cuts, faults>>

\* An update asks for a compaction once more.
Finish(p) ==
  /\ At(p, "next")
  /\ ~job[p].replace
  /\ job[p].doomed = {}
  /\ job' = [job EXCEPT
        ![p].pc = IF job[p].kind = "update" /\ job[p].part # "last" /\ CompactDue(changes)
                  THEN "compact" ELSE "done",
        ![p].part = "last", ![p].list = <<>>, ![p].idx = NewIndex]
  /\ forgotten' = forgotten \cup GoneBy(p)
  /\ kept' = IF job[p].promise /\ ~job[p].joined THEN kept \cup {job[p].fact} ELSE kept
  /\ UNCHANGED <<records, index, markdown, digest, changes, lastId, stale,
                 cuts, faults>>

Return(w) ==
  /\ At(w, "done") \/ At(w, "failed")
  /\ job' = [job EXCEPT ![w] = Quiet]
  /\ UNCHANGED <<records, index, markdown, digest, changes, lastId, kept,
                 forgotten, stale, cuts, faults>>

-----------------------------------------------------------------------------
(* Compaction: claw_memory_compact_internal.                               *)

\* An update that keeps what the memory says has stored its new version, which
\* a compaction merges into the version the update is about to forget.
MergesUpdate(p) ==
  \E m, n \in Active(records) :
    m # n /\ m.fact = n.fact /\ m.fact = job[p].fact /\ m.id \in job[p].doomed

\* History: what is trimmed to the capacity, be it the memory of this very
\* call, is not promised, and neither is an update that is merged away.
Compact(p, old) ==
  /\ At(p, "compact")
  /\ Read(old)
  /\ \E later \in BOOLEAN :
       LET merged == Merged(Counted(Current(records), old.mark), later)
       IN \E list \in Trims(merged) :
         LET new == Relabelled(list, old)
             trimmed == FactsOf(merged) \ FactsOf(list)
         IN /\ job' = [job EXCEPT ![p].pc = "newRecords", ![p].list = new.list,
                                  ![p].idx = new.idx,
                                  ![p].promise =
                                    @ /\ job[p].fact \notin trimmed /\ ~MergesUpdate(p)]
            /\ kept' = kept \ trimmed
  /\ UNCHANGED <<records, index, markdown, digest, changes, lastId, forgotten,
                 cuts>>

RewriteRecords(p) ==
  /\ At(p, "newRecords")
  /\ records' = Written(job[p].list)
  /\ Goto(p, "newIndex")
  /\ UNCHANGED <<index, markdown, digest, changes, lastId, kept, forgotten,
                 stale, cuts, faults>>

CompactEnd(p) ==
  /\ At(p, "newMarkdown")
  /\ markdown' = FactsOf(job[p].list)
  /\ changes' = 0
  /\ stale' = FALSE
  /\ Goto(p, IF p = Main THEN "up" ELSE "next")
  /\ UNCHANGED <<records, index, digest, lastId, kept, forgotten, cuts, faults>>

-----------------------------------------------------------------------------
(* What goes wrong.                                                        *)

\* A file does not open for writing.  A compaction resets the count of
\* changes all the same.
OpenFails(w) ==
  /\ job[w].pc \in {"append", "index", "markdown",
                    "newRecords", "newIndex", "newMarkdown"}
  /\ faults < MaxFaults
  /\ faults' = faults + 1
  /\ stale' = TRUE
  /\ changes' = IF job[w].pc \in {"append", "index", "markdown"} THEN changes ELSE 0
  /\ Goto(w, "failed")
  /\ UNCHANGED <<records, index, markdown, digest, lastId, kept, forgotten, cuts>>

\* What a cut may leave of the lines that are being written to a file.
Parts(lines) ==
  {SubSeq(lines, 1, n) : n \in 0..Len(lines)}
  \cup {Append(SubSeq(lines, 1, n), Torn) : n \in 0..Len(lines) - 1}

RecordsCut(p) ==
  CASE At(p, "append") -> {records, WithRecord(records, Record(p)),
                           WithRecord(records, Torn)}
    [] At(p, "newRecords") -> {records} \cup Parts(Written(job[p].list))
    [] OTHER -> {records}

IndexCut(p) ==
  CASE At(p, "index") \/ At(p, "newIndex") -> {index, Garbled, job[p].idx}
    [] At(p, "create") /\ index = Missing -> {Missing, Garbled, NewIndex}
    [] OTHER -> {index}

\* History: a cut while the records are rewritten may lose any of them.
Cut(p) ==
  /\ cuts < MaxCuts
  /\ cuts' = cuts + 1
  /\ records' \in RecordsCut(p)
  /\ index' \in IndexCut(p)
  /\ kept' = IF At(p, "newRecords") THEN kept \cap FactsOf(Current(records')) ELSE kept
  /\ changes' = 0
  /\ job' = [q \in Procs |-> IF q = Main THEN [Quiet EXCEPT !.pc = "create"] ELSE Quiet]
  /\ UNCHANGED <<markdown, digest, lastId, forgotten, stale, faults>>

-----------------------------------------------------------------------------
Step(p) ==
  \/ CheckKnown(p) \/ IndexUnread(p) \/ AppendRecord(p) \/ SaveIndex(p)
  \/ SyncMarkdown(p) \/ Find(p) \/ NotFound(p) \/ Conflicts(p)
  \/ ForgetNext(p) \/ Finish(p) \/ RewriteRecords(p) \/ CompactEnd(p)
  \/ \E old \in {index, NewIndex} : CheckNew(p, old) \/ Reload(p, old) \/ Compact(p, old)
  \/ Cut(p)

Call(w) ==
  \/ \E fact \in Facts, label \in Labels :
       \/ \E replace \in BOOLEAN : BeginStore(w, fact, label, replace)
       \/ \E id \in 1..lastId : BeginUpdate(w, id, fact, label)
  \/ \E id \in 1..lastId : BeginForget(w, id)
  \/ \E label \in Labels : Recall(w, label)
  \/ Return(w)
  \/ OpenFails(w)

Next == Create \/ (\E p \in Procs : Step(p)) \/ (\E w \in Writers : Call(w))

Spec == Init /\ [][Next]_vars

-----------------------------------------------------------------------------
(* Properties.                                                             *)

Stages == {"idle", "check", "find", "append", "reload", "index", "markdown",
           "next", "done", "failed", "create", "up",
           "compact", "newRecords", "newIndex", "newMarkdown"}

Jobs == [pc : Stages, kind : {"none", "store", "update", "forget"},
         fact : Facts \cup {NoFact}, label : Labels \cup {NoLabel}, id : Nat,
         part : {"none", "store", "forget", "missed", "last"},
         doomed : SUBSET Nat, replace : BOOLEAN, promise : BOOLEAN,
         joined : BOOLEAN, list : Seq(Items), idx : Indexes]

\* The types of the files and of the calls.
TypeOK ==
  /\ records \in Seq(Items \cup {Torn})
  /\ index \in Indexes \cup {Garbled, Missing}
  /\ markdown \in SUBSET Facts
  /\ digest \in Seq(Nat)
  /\ changes \in Nat
  /\ lastId \in Nat
  /\ job \in [Procs -> Jobs]
  /\ kept \in SUBSET Facts
  /\ forgotten \in SUBSET Nat
  /\ stale \in BOOLEAN
  /\ cuts \in Nat
  /\ faults \in Nat

\* A memory whose store was answered with success is found in the records
\* until it is forgotten, replaced, trimmed, merged into the old version of an
\* update that goes on to forget it, or lost by a cut that strikes while the
\* records are rewritten: neither a restart between two files nor
\* a compaction nor a torn line of another memory loses one.
Kept == kept \subseteq FactsOf(Current(records))

\* What was forgotten with success does not come back.
ForgottenStaysGone == \A m \in Active(records) : m.id \notin forgotten

AtRest == Up /\ \A w \in Writers : job[w].pc \in {"idle", "done", "failed"}

\* No fact is remembered twice, whatever step of an update a restart
\* interrupted.
NoFactTwice ==
  \A m, n \in Active(records) : m.fact = n.fact => m = n

\* Between two calls, unless a file did not open since the last compaction
\* or the index no longer parses, the four files tell one story: the catalog
\* of labels the model sees has every label of the living memories and no
\* other, with their number, the ids in the records are those of the
\* catalog, the markdown view lists the same facts, and none is there twice.
FilesAgree ==
  AtRest /\ ~stale /\ index # Garbled =>
    /\ DOMAIN index.sums = {m.label : m \in Active(records)}
    /\ \A m \in Active(records) : index.sums[m.label].sid = m.sid
    /\ \A l \in DOMAIN index.sums :
         index.sums[l].refs = Cardinality({m \in Active(records) : m.label = l})
    /\ markdown = FactsOf(Current(records))
    /\ NoFactTwice

\* Compactions count each recall of a memory once, and once more only for
\* every cut or failure between the records and the index that tells how
\* far the digest was counted.
RecallsCounted ==
  \A m \in Active(records) : m.access <= (1 + cuts + faults) * Len(digest)
=============================================================================
