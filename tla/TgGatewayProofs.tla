--------------------------- MODULE TgGatewayProofs ---------------------------
(* Theorems about TgGateway, for any bots, traffic, batches and sizes of the *)
(* ring and the queue.                                                       *)
EXTENDS TgGateway, SequenceTheorems, TLAPS

\* The disjuncts of the next-state relation, by what they change.
LEMMA NextCases ==
  ASSUME [Next]_vars
  PROVE  \/ \E b \in Bots, k \in Kinds : Write(b, k)
         \/ PollBegins \/ PollEnds \/ PollAsks \/ HandleUpdate \/ Answer
         \/ AnswerAgain \/ PollFails
         \/ \E t \in Tasks : Receive(t) \/ Save(t) \/ Waits(t) \/ Looks(t) \/ Leave(t)
         \/ StartAgain \/ StartNoMemory \/ Start \/ StartFails \/ StartPollFails
         \/ StopNothing \/ Stop \/ SetToken
         \/ StartPoll \/ DeleteQueue \/ StopPollOver \/ StopTimesOut \/ SetTokenResets
         \/ Restart \/ UNCHANGED vars
BY DEF Next, PollStep, DownloadStep, CallStep

\* The ring's next place.
LEMMA NextPlace ==
  ASSUME NEW n \in Nat \ {0}, NEW i \in 1..n
  PROVE  /\ (i % n) + 1 \in 1..n
         /\ (i % n) + 1 = IF i = n THEN 1 ELSE i + 1
<1>1. CASE i = n
  BY <1>1
<1>2. CASE i # n
  <2>1. i \in 0..(n - 1)
    BY <1>2
  <2>2. i % n = i
    BY <2>1
  <2> QED BY <1>2, <2>2
<1> QED BY <1>1, <1>2

LEMMA MaxOfTwo ==
  ASSUME NEW m \in Int, NEW n \in Int
  PROVE  Max({m, n}) \in {m, n} /\ Max({m, n}) >= m /\ Max({m, n}) >= n
<1>1. \E x \in {m, n} : \A y \in {m, n} : x >= y
  <2>1. CASE m >= n
    BY <2>1
  <2>2. CASE ~(m >= n)
    BY <2>2
  <2> QED BY <2>1, <2>2
<1> QED BY <1>1 DEF Max

LEMMA MinOfTwo ==
  ASSUME NEW m \in Int, NEW n \in Int
  PROVE  Min({m, n}) \in {m, n} /\ Min({m, n}) <= m /\ Min({m, n}) <= n
<1>1. \E x \in {m, n} : \A y \in {m, n} : x <= y
  <2>1. CASE m <= n
    BY <2>1
  <2>2. CASE ~(m <= n)
    BY <2>2
  <2> QED BY <2>1, <2>2
<1> QED BY <1>1 DEF Min

\* An answer holds the updates from its first on, without a gap.
LEMMA FromIs ==
  ASSUME TypeOK, NEW first \in Nat
  PROVE  /\ From(first) \in Seq(Nat)
         /\ \A i \in 1..Len(From(first)) :
              From(first)[i] = first + i - 1 /\ first + i - 1 <= Len(sent[poll.bot])
<1> DEFINE l == Len(sent[poll.bot])
           n == Min({Batch, l - first + 1})
<1>1. l \in Nat
  <2>1. sent[poll.bot] \in Seq(Kinds)
    BY DEF TypeOK
  <2> QED BY <2>1, LenProperties
<1>2. n \in Int /\ n <= l - first + 1
  <2>1. Batch \in Int /\ l - first + 1 \in Int
    BY <1>1, SizeAssumption
  <2> QED BY <2>1, MinOfTwo
<1>3. From(first) = [i \in 1..n |-> first + i - 1]
  BY DEF From
<1> HIDE DEF n
<1>4. CASE n \in Nat
  <2>1. From(first) \in [1..n -> Nat]
    BY <1>3, <1>4
  <2>2. From(first) \in Seq(Nat) /\ Len(From(first)) = n
    BY <1>4, <2>1, LenProperties DEF Seq
  <2>3. \A i \in 1..n : From(first)[i] = first + i - 1
    BY <1>3
  <2>4. \A i \in 1..n : first + i - 1 <= l
    BY <1>1, <1>2, <1>4
  <2> QED BY <2>2, <2>3, <2>4
<1>5. CASE n \notin Nat
  <2>1. 1..n = {} /\ 1..0 = {}
    BY <1>2, <1>5
  <2>2. From(first) \in [1..0 -> Nat]
    BY <1>3, <2>1
  <2>3. From(first) \in Seq(Nat)
    BY <2>2 DEF Seq
  <2>4. Len(From(first)) = 0
    BY <2>2, <2>3, LenProperties
  <2> QED BY <2>3, <2>4
<1> QED BY <1>4, <1>5

\* The answer begins after what is forgotten, and after what is confirmed.
LEMMA OldestIs ==
  ASSUME TypeOK
  PROVE  /\ Oldest \in Nat \ {0}
         /\ Oldest > forgotten[poll.bot] /\ Oldest >= poll.offset
         /\ Oldest \in {forgotten[poll.bot] + 1, poll.offset}
<1>1. forgotten[poll.bot] + 1 \in Nat \ {0} /\ poll.offset \in Nat
  BY DEF TypeOK
<1> DEFINE f == forgotten[poll.bot] + 1
<1>2. f \in Int /\ poll.offset \in Int /\ f > forgotten[poll.bot]
  BY <1>1 DEF TypeOK
<1> HIDE DEF f
<1>3. /\ Max({f, poll.offset}) \in {f, poll.offset}
      /\ Max({f, poll.offset}) >= f /\ Max({f, poll.offset}) >= poll.offset
  BY <1>2, MaxOfTwo
<1>4. f \in Nat \ {0} /\ Oldest = Max({f, poll.offset}) /\ f = forgotten[poll.bot] + 1
      /\ forgotten[poll.bot] \in Nat
  BY <1>1 DEF Oldest, f, TypeOK
<1> QED BY <1>1, <1>3, <1>4

\* What is left of an answer is handled next, or the loop begins again.
LEMMA AnsweredType ==
  ASSUME TypeOK, NEW batch \in Seq(Nat), poll' = Answered(batch)
  PROVE  /\ poll' \in [at : {"off", "check", "ask", "wait", "handle"}, bot : Bots, offset : Nat,
                       batch : Seq(Nat)]
         /\ poll'.at = "handle" =>
              poll'.batch = batch /\ batch # <<>> /\ poll'.bot = poll.bot
         /\ poll'.at \in {"check", "handle"}
<1>1. CASE batch = <<>>
  <2>1. <<>> \in Seq(Nat)
    BY EmptySeq
  <2> QED BY <1>1, <2>1, BotAssumption DEF TypeOK, Answered, Checking, Nobody
<1>2. CASE batch # <<>>
  <2>1. poll' = [poll EXCEPT !.at = "handle", !.batch = batch]
    BY <1>2 DEF Answered
  <2>2. poll \in [at : {"off", "check", "ask", "wait", "handle"}, bot : Bots, offset : Nat,
                  batch : Seq(Nat)]
    BY DEF TypeOK
  <2> QED BY <1>2, <2>1, <2>2
<1> QED BY <1>1, <1>2

\* A file that is taken adds a job to a queue that is there and has room.
LEMMA HandedIs ==
  ASSUME NEW k, NEW out \in Handed(k)
  PROVE  \/ out[2] = attachment_queue
         \/ /\ out[2] = attachment_queue + 1
            /\ attachment_queue # NoQueue /\ attachment_queue # QueueLen
<1>1. CASE k = "text"
  <2>1. out = <<TRUE, attachment_queue>> \/ out = <<FALSE, attachment_queue>>
    BY <1>1 DEF Handed
  <2>2. CASE out = <<TRUE, attachment_queue>>
    BY <2>2
  <2>3. CASE out = <<FALSE, attachment_queue>>
    BY <2>3
  <2> QED BY <2>1, <2>2, <2>3
<1>2. CASE k # "text" /\ attachment_queue \in {NoQueue, QueueLen}
  <2>1. out = <<FALSE, attachment_queue>>
    BY <1>2 DEF Handed
  <2> QED BY <2>1
<1>3. CASE k # "text" /\ attachment_queue \notin {NoQueue, QueueLen}
  <2>1. out = <<TRUE, attachment_queue + 1>>
    BY <1>3 DEF Handed
  <2> QED BY <1>3, <2>1
<1> QED BY <1>1, <1>2, <1>3

-----------------------------------------------------------------------------
\* TypeOK, for any bots and any traffic: the queue holds no more than
\* CAP_IM_TG_ATTACHMENT_QUEUE_LEN jobs, and the service forgets nothing that was
\* not sent.
LEMMA TypeStep == TypeOK /\ [Next]_vars => TypeOK'
<1> SUFFICES ASSUME TypeOK, [Next]_vars
             PROVE  TypeOK'
  OBVIOUS
<1> USE SizeAssumption, BotAssumption
<1>1. ASSUME NEW b \in Bots, NEW k \in Kinds, Write(b, k)
      PROVE  TypeOK'
  <2>1. sent' = [sent EXCEPT ![b] = Append(sent[b], k)]
    BY <1>1 DEF Write
  <2>2. /\ sent[b] \in Seq(Kinds) /\ Append(sent[b], k) \in Seq(Kinds)
        /\ Len(Append(sent[b], k)) = Len(sent[b]) + 1
    BY AppendProperties DEF TypeOK
  <2>3. sent' \in [Bots -> Seq(Kinds)]
    BY <2>1, <2>2 DEF TypeOK
  <2>4. \A c \in Bots : forgotten[c] <= Len(sent'[c])
    <3> SUFFICES ASSUME NEW c \in Bots
                 PROVE  forgotten[c] <= Len(sent'[c])
      OBVIOUS
    <3>1. sent[c] \in Seq(Kinds) /\ forgotten[c] <= Len(sent[c]) /\ forgotten[c] \in Nat
      BY DEF TypeOK
    <3>2. Len(sent[c]) \in Nat
      BY <3>1, LenProperties
    <3>3. Len(sent'[c]) = Len(sent[c]) \/ Len(sent'[c]) = Len(sent[c]) + 1
      BY <2>1, <2>2 DEF TypeOK
    <3> QED BY <3>1, <3>2, <3>3
  <2>5. UNCHANGED <<forgotten, bot_token, dedup, attachment_queue, handles, poll,
                    download, caller, history, counts>>
    BY <1>1 DEF Write
  <2>6. \A c \in Bots : forgotten'[c] <= Len(sent'[c])
    BY <2>4, <2>5
  <2>7. /\ UNCHANGED <<bot_token, next_update_id, seen_update_keys, seen_update_idx,
                       attachment_queue, stop_requested, poll_task, attachment_task>>
        /\ UNCHANGED <<poll, download, caller, handled, handed, wanted, crossed, doubled,
                       calls, mishaps>>
        /\ forgotten' \in [Bots -> Nat]
    BY <2>5 DEF dedup, handles, history, counts, TypeOK
  <2>8. /\ poll' \in [at : {"off", "check", "ask", "wait", "handle"}, bot : Bots, offset : Nat,
                      batch : Seq(Nat)]
        /\ poll'.at = "handle" => poll'.batch # <<>>
    BY <2>7 DEF TypeOK
  <2>9. /\ seen_update_keys' \in [1..RingSize -> Nat] /\ seen_update_idx' \in 1..RingSize
        /\ attachment_queue' \in {NoQueue} \cup 0..QueueLen
        /\ bot_token' \in Bots /\ next_update_id' \in Nat
        /\ download' \in [Tasks -> {"off", "receive", "save", "look", "leave"}]
    BY <2>7 DEF TypeOK
  <2>10. /\ handled' \in [Bots -> SUBSET Nat] /\ handed' \in Seq(Nat)
    BY <2>7 DEF TypeOK
  <2>11. /\ stop_requested' \in BOOLEAN /\ poll_task' \in BOOLEAN
         /\ attachment_task' \in BOOLEAN /\ crossed' \in BOOLEAN /\ doubled' \in BOOLEAN
         /\ caller' \in {"boot", "idle", "start", "undo", "stop_poll", "stop_download",
                        "reset"}
         /\ wanted' \in {"off", "on", "unsure"} /\ calls' \in Nat /\ mishaps' \in Nat
    BY <2>7 DEF TypeOK
  <2> QED BY <2>3, <2>6, <2>7, <2>8, <2>9, <2>10, <2>11 DEF TypeOK
<1>2. CASE PollBegins \/ PollEnds \/ PollFails
  <2>1. CASE PollBegins
    BY <2>1 DEF TypeOK, PollBegins, service, dedup, handles, history, counts
  <2>2. Nobody \in [at : {"off", "check", "ask", "wait", "handle"}, bot : Bots, offset : Nat,
                     batch : Seq(Nat)]
    BY EmptySeq DEF Nobody
  <2>3. CASE PollEnds
    BY <2>2, <2>3 DEF TypeOK, PollEnds, Nobody, service, dedup, history, counts
  <2>4. CASE PollFails
    <3>1. /\ poll' \in [at : {"off", "check", "ask", "wait", "handle"}, bot : Bots, offset : Nat,
                        batch : Seq(Nat)]
          /\ poll'.at = "check"
      BY <2>2, <2>4 DEF PollFails, Checking, Nobody
    <3>2. mishaps' \in Nat
      BY <2>4 DEF PollFails, TypeOK
    <3> QED BY <2>4, <3>1, <3>2 DEF TypeOK, PollFails, service, dedup, handles, history
  <2> QED BY <1>2, <2>1, <2>3, <2>4
<1>3. CASE PollAsks
  <2>1. /\ bot_token \in Bots /\ sent[bot_token] \in Seq(Kinds) /\ poll.offset \in Nat
        /\ forgotten[bot_token] \in Nat /\ forgotten[bot_token] <= Len(sent[bot_token])
    BY DEF TypeOK
  <2>2. Len(sent[bot_token]) \in Nat
    BY <2>1, LenProperties
  <2> DEFINE m == Min({poll.offset - 1, Len(sent[bot_token])})
             f == Max({forgotten[bot_token], m})
  <2>3. m \in Int /\ m <= Len(sent[bot_token])
    <3>1. poll.offset - 1 \in Int /\ Len(sent[bot_token]) \in Int
      BY <2>1, <2>2
    <3> QED BY <3>1, MinOfTwo
  <2>4. f \in Nat /\ f <= Len(sent[bot_token])
    <3>1. forgotten[bot_token] \in Int /\ m \in Int
      BY <2>1, <2>3
    <3> HIDE DEF m
    <3>2. f \in {forgotten[bot_token], m} /\ f >= forgotten[bot_token]
      BY <3>1, MaxOfTwo
    <3> QED BY <2>1, <2>2, <2>3, <3>1, <3>2
  <2>5. forgotten' = [forgotten EXCEPT ![bot_token] = f]
    BY <1>3 DEF PollAsks
  <2> HIDE DEF f
  <2>6. forgotten' \in [Bots -> Nat] /\ \A c \in Bots : forgotten'[c] <= Len(sent[c])
    BY <2>4, <2>5 DEF TypeOK
  <2> QED BY <1>3, <2>6 DEF TypeOK, PollAsks, dedup, handles, history, counts
<1>4. CASE HandleUpdate
  <2> DEFINE id == Head(poll.batch)
             kind == sent[poll.bot][id]
  <2>1. poll.batch \in Seq(Nat) /\ poll.batch # <<>>
    BY <1>4 DEF TypeOK, HandleUpdate
  <2>2. id \in Nat /\ Tail(poll.batch) \in Seq(Nat)
    BY <2>1, HeadTailProperties
  <2>3. /\ poll' \in [at : {"off", "check", "ask", "wait", "handle"}, bot : Bots, offset : Nat,
                      batch : Seq(Nat)]
        /\ poll'.at = "handle" => poll'.batch # <<>>
    <3>1. poll' = Answered(Tail(poll.batch))
      BY <1>4 DEF HandleUpdate
    <3> QED BY <2>2, <3>1, AnsweredType
  <2>4. CASE kind = "other"
    BY <1>4, <2>3, <2>4 DEF TypeOK, HandleUpdate, service, dedup, handles, counts
  <2>5. CASE kind # "other"
    <3>1. /\ next_update_id' = OffsetAfter(id)
          /\ handled' = [handled EXCEPT ![poll.bot] = @ \cup {id}]
      BY <1>4, <2>5 DEF HandleUpdate
    <3>2. next_update_id' \in Nat /\ handled' \in [Bots -> SUBSET Nat]
      <4>1. next_update_id' \in Nat
        <5>1. next_update_id \in Nat /\ id \in Nat
          BY <2>2 DEF TypeOK
        <5> HIDE DEF id
        <5> QED BY <3>1, <5>1 DEF OffsetAfter
      <4>2. handled \in [Bots -> SUBSET Nat] /\ poll.bot \in Bots
        BY DEF TypeOK
      <4>3. handled[poll.bot] \cup {id} \in SUBSET Nat
        BY <2>2, <4>2
      <4> HIDE DEF id
      <4> QED BY <3>1, <4>1, <4>2, <4>3
    <3>3. CASE Seen(id)
      <4>1. UNCHANGED <<seen_update_keys, seen_update_idx, attachment_queue, handed>>
        BY <1>4, <2>5, <3>3 DEF HandleUpdate
      <4> QED BY <1>4, <2>3, <3>2, <4>1 DEF TypeOK, HandleUpdate, service, handles, counts
    <3>4. CASE ~Seen(id)
      <4>1. PICK out \in Handed(kind) :
              /\ attachment_queue' = out[2]
              /\ handed' = IF out[1] THEN Append(handed, id) ELSE handed
        BY <1>4, <2>5, <3>4 DEF HandleUpdate
      <4>2. attachment_queue' \in {NoQueue} \cup 0..QueueLen
        <5>1. /\ attachment_queue \in {NoQueue} \cup 0..QueueLen /\ NoQueue \notin Nat
              /\ QueueLen \in Nat
          BY DEF TypeOK, NoQueue
        <5>2. \/ out[2] = attachment_queue
              \/ out[2] = attachment_queue + 1 /\ attachment_queue \notin {NoQueue, QueueLen}
          BY <4>1, HandedIs
        <5> QED BY <4>1, <5>1, <5>2
      <4>3. handed' \in Seq(Nat)
        BY <2>2, <4>1, AppendProperties DEF TypeOK
      <4>4. Record(id)
        BY <1>4, <2>5, <3>4 DEF HandleUpdate
      <4>5. seen_update_keys' \in [1..RingSize -> Nat]
        BY <2>2, <4>4 DEF TypeOK, Record
      <4>6. seen_update_idx' \in 1..RingSize
        BY <4>4, NextPlace DEF TypeOK, Record
      <4> QED BY <1>4, <2>3, <3>2, <4>2, <4>3, <4>5, <4>6
              DEF TypeOK, HandleUpdate, service, handles, counts
    <3> QED BY <3>3, <3>4
  <2> QED BY <2>4, <2>5
<1>5. CASE Answer \/ AnswerAgain
  <2>1. PICK first \in Nat : poll' = Answered(From(first))
    <3>1. CASE Answer
      BY <3>1, OldestIs DEF Answer
    <3>2. CASE AnswerAgain
      <4>1. PICK first \in Repeats : poll' = Answered(From(first))
        BY <3>2 DEF AnswerAgain
      <4>2. first \in ToSet(handed)
        BY <4>1 DEF Repeats
      <4>3. first \in Nat
        BY <4>2, ElementOfSeq, LenProperties DEF TypeOK, ToSet
      <4> QED BY <4>1, <4>3
    <3> QED BY <1>5, <3>1, <3>2
  <2>2. /\ poll' \in [at : {"off", "check", "ask", "wait", "handle"}, bot : Bots, offset : Nat,
                      batch : Seq(Nat)]
        /\ poll'.at = "handle" => poll'.batch # <<>>
    <3>1. From(first) \in Seq(Nat)
      BY FromIs
    <3> QED BY <2>1, <3>1, AnsweredType
  <2>3. mishaps' \in Nat
    BY <1>5 DEF Answer, AnswerAgain, TypeOK, counts
  <2>4. UNCHANGED <<service, bot_token, dedup, attachment_queue, handles, download,
                    caller, history, calls>>
    BY <1>5 DEF Answer, AnswerAgain, counts
  <2> QED BY <2>2, <2>3, <2>4 DEF TypeOK, service, dedup, handles, history
<1>6. ASSUME NEW t \in Tasks,
             Receive(t) \/ Save(t) \/ Waits(t) \/ Looks(t) \/ Leave(t)
      PROVE  TypeOK'
  <2>1. attachment_queue' \in {NoQueue} \cup 0..QueueLen
    <3>1. attachment_queue \in {NoQueue} \cup 0..QueueLen /\ NoQueue = -1
      BY DEF TypeOK, NoQueue
    <3>2. \/ attachment_queue' = attachment_queue
          \/ attachment_queue > 0 /\ attachment_queue' = attachment_queue - 1
      BY <1>6 DEF Receive, Save, Waits, Looks, Leave
    <3> QED BY <3>1, <3>2
  <2>2. download' \in [Tasks -> {"off", "receive", "save", "look", "leave"}]
    BY <1>6 DEF TypeOK, Receive, Save, Waits, Looks, Leave
  <2>3. attachment_task' \in BOOLEAN
    BY <1>6 DEF TypeOK, Receive, Save, Waits, Looks, Leave, handles
  <2>4. UNCHANGED <<service, bot_token, dedup, stop_requested, poll_task, poll, caller,
                    history, counts>>
    BY <1>6 DEF Receive, Save, Waits, Looks, Leave, handles
  <2> QED BY <2>1, <2>2, <2>3, <2>4 DEF TypeOK, service, dedup, history, counts
<1>7. CASE StartAgain \/ StartNoMemory \/ StartFails \/ StartPollFails \/ StopNothing \/ Stop
  <2>1. calls' \in Nat /\ mishaps' \in Nat
    <3>1. /\ calls \in Nat /\ mishaps \in Nat
          /\ calls' = calls \/ calls' = calls + 1
          /\ mishaps' = mishaps \/ mishaps' = mishaps + 1
      BY <1>7 DEF TypeOK, StartAgain, StartNoMemory, StartFails, StartPollFails, StopNothing, Stop,
                  Calling
    <3> QED BY <3>1
  <2>2. /\ caller' \in {"boot", "idle", "start", "undo", "stop_poll", "stop_download", "reset"}
        /\ wanted' \in {"off", "on", "unsure"}
        /\ attachment_queue' \in {NoQueue} \cup 0..QueueLen
    BY <1>7 DEF TypeOK, StartAgain, StartNoMemory, StartFails, StartPollFails, StopNothing, Stop,
                Calling
  <2>3. /\ stop_requested' \in BOOLEAN /\ attachment_task' \in BOOLEAN /\ poll_task' \in BOOLEAN
        /\ crossed' \in BOOLEAN
    BY <1>7 DEF TypeOK, StartAgain, StartNoMemory, StartFails, StartPollFails, StopNothing, Stop,
                handles
  <2>4. doubled' \in BOOLEAN
    BY <1>7 DEF TypeOK, StartAgain, StartNoMemory, StartFails, StartPollFails, StopNothing, Stop
  <2>5. UNCHANGED <<sent, forgotten, bot_token, dedup, poll, download, handled, handed>>
    BY <1>7 DEF StartAgain, StartNoMemory, StartFails, StartPollFails, StopNothing, Stop, service
  <2> QED BY <2>1, <2>2, <2>3, <2>4, <2>5 DEF TypeOK, dedup
<1>8. CASE Start
  <2>1. /\ attachment_queue' \in {NoQueue} \cup 0..QueueLen /\ calls' \in Nat
        /\ caller' = "start"
    BY <1>8 DEF TypeOK, Start, Calling
  <2>2. download' \in [Tasks -> {"off", "receive", "save", "look", "leave"}]
    BY <1>8 DEF TypeOK, Start
  <2>3. /\ doubled' \in BOOLEAN /\ attachment_task' = TRUE /\ stop_requested' = FALSE
    BY <1>8 DEF TypeOK, Start, StopFlagAtStart
  <2> QED BY <1>8, <2>1, <2>2, <2>3 DEF TypeOK, Start, service, dedup
<1>9. CASE SetToken
  <2>1. crossed' \in BOOLEAN /\ bot_token' \in Bots /\ calls' \in Nat /\ caller' = "reset"
    BY <1>9 DEF TypeOK, SetToken, Calling
  <2> QED BY <1>9, <2>1 DEF TypeOK, SetToken, service, dedup, handles
<1>10. CASE StartPoll \/ DeleteQueue \/ StopPollOver \/ StopTimesOut
  <2>1. CASE StartPoll
    <3>1. /\ poll' \in [at : {"off", "check", "ask", "wait", "handle"}, bot : Bots, offset : Nat,
                        batch : Seq(Nat)]
          /\ poll'.at = "check"
      BY <2>1, EmptySeq DEF StartPoll, Checking, Nobody
    <3> QED BY <2>1, <3>1 DEF TypeOK, StartPoll, service, dedup, counts
  <2>2. CASE DeleteQueue \/ StopPollOver \/ StopTimesOut
    <3>1. /\ caller' \in {"boot", "idle", "start", "undo", "stop_poll", "stop_download", "reset"}
          /\ attachment_queue' \in {NoQueue} \cup 0..QueueLen
      BY <2>2 DEF TypeOK, DeleteQueue, StopPollOver, StopTimesOut
    <3>2. UNCHANGED <<service, bot_token, dedup, handles, poll, download, history, counts>>
      BY <2>2 DEF DeleteQueue, StopPollOver, StopTimesOut
    <3> QED BY <3>1, <3>2 DEF TypeOK, service, dedup, handles, history, counts
  <2> QED BY <1>10, <2>1, <2>2
<1>11. ASSUME Forget
       PROVE  /\ next_update_id' \in Nat /\ seen_update_keys' \in [1..RingSize -> Nat]
              /\ seen_update_idx' \in 1..RingSize /\ handed' \in Seq(Nat)
  BY <1>11, EmptySeq DEF Forget
<1>12. CASE SetTokenResets
  BY <1>11, <1>12 DEF TypeOK, SetTokenResets, service, handles, counts
<1>13. CASE Restart
  <2>1. mishaps' \in Nat /\ <<>> \in Seq(Nat)
    BY <1>13, EmptySeq DEF TypeOK, Restart
  <2> QED BY <1>11, <1>13, <2>1 DEF TypeOK, Restart, Nobody, service
<1>14. CASE UNCHANGED vars
  BY <1>14 DEF TypeOK, vars, service, dedup, handles, history, counts
<1> QED BY <1>1, <1>2, <1>3, <1>4, <1>5, <1>6, <1>7, <1>8, <1>9, <1>10, <1>12, <1>13,
           <1>14, NextCases

\* TypeOK holds of every reachable state.
THEOREM TypeCorrect == Spec => []TypeOK
<1>1. Init => TypeOK
  <2> SUFFICES ASSUME Init
               PROVE  TypeOK
    OBVIOUS
  <2>1. <<>> \in Seq(Kinds) /\ Len(<<>>) = 0 /\ <<>> \in Seq(Nat)
    BY EmptySeq
  <2>2. sent \in [Bots -> Seq(Kinds)] /\ \A b \in Bots : forgotten[b] <= Len(sent[b])
    BY <2>1 DEF Init
  <2>3. handed \in Seq(Nat)
    BY <2>1 DEF Init, Boot
  <2>4. poll = Nobody
    BY DEF Init, Boot
  <2>5. /\ poll \in [at : {"off", "check", "ask", "wait", "handle"}, bot : Bots, offset : Nat,
                     batch : Seq(Nat)]
        /\ poll.at = "off"
    BY <2>1, <2>4, BotAssumption DEF Nobody
  <2>6. /\ next_update_id \in Nat /\ seen_update_keys \in [1..RingSize -> Nat]
        /\ seen_update_idx \in 1..RingSize /\ attachment_queue \in {NoQueue} \cup 0..QueueLen
        /\ download \in [Tasks -> {"off", "receive", "save", "look", "leave"}]
        /\ caller \in {"boot", "idle", "start", "undo", "stop_poll", "stop_download", "reset"}
    BY SizeAssumption DEF Init, Boot
  <2>7. /\ forgotten \in [Bots -> Nat] /\ bot_token \in Bots
        /\ handled \in [Bots -> SUBSET Nat]
    BY BotAssumption DEF Init, Boot
  <2>8. /\ stop_requested \in BOOLEAN /\ poll_task \in BOOLEAN
        /\ attachment_task \in BOOLEAN /\ crossed \in BOOLEAN /\ doubled \in BOOLEAN
        /\ wanted \in {"off", "on", "unsure"} /\ calls \in Nat /\ mishaps \in Nat
    BY DEF Init, Boot
  <2> QED BY <2>2, <2>3, <2>5, <2>6, <2>7, <2>8 DEF TypeOK
<1> QED BY <1>1, TypeStep, PTL DEF Spec

-----------------------------------------------------------------------------
(* The queue and who reads it.                                             *)

\* As long as no second task was started, the one that runs is the one the handle
\* tells of, and the queue is there.
OneReader ==
  ~doubled => \A t \in Tasks : download[t] # "off" =>
    /\ attachment_task /\ attachment_queue # NoQueue
    /\ \A u \in Tasks : download[u] # "off" => u = t

LEMMA ReaderStep == TypeOK /\ OneReader /\ [Next]_vars => OneReader'
<1> SUFFICES ASSUME TypeOK, OneReader, [Next]_vars
             PROVE  OneReader'
  OBVIOUS
<1>1. CASE \/ \E b \in Bots, k \in Kinds : Write(b, k)
           \/ PollBegins \/ PollEnds \/ PollAsks \/ Answer \/ AnswerAgain \/ PollFails
           \/ StartAgain \/ StartNoMemory \/ StartPollFails \/ StopNothing \/ Stop \/ SetToken
           \/ StartPoll \/ StopPollOver \/ StopTimesOut \/ SetTokenResets \/ UNCHANGED vars
  <2>1. UNCHANGED <<download, attachment_queue, attachment_task, doubled>>
    BY <1>1 DEF Write, PollBegins, PollEnds, PollAsks, Answer, AnswerAgain, PollFails, StartAgain,
                StartNoMemory, StartPollFails, StopNothing, Stop, SetToken, StartPoll,
                StopPollOver, StopTimesOut, SetTokenResets, vars, handles, history
  <2> QED BY <2>1 DEF OneReader
<1>2. CASE HandleUpdate
  <2>1. UNCHANGED <<download, attachment_task, doubled>>
    BY <1>2 DEF HandleUpdate, handles
  <2>2. attachment_queue # NoQueue => attachment_queue' # NoQueue
    <3> DEFINE kind == sent[poll.bot][Head(poll.batch)]
    <3>1. \/ attachment_queue' = attachment_queue
          \/ \E out \in Handed(kind) : attachment_queue' = out[2]
      BY <1>2 DEF HandleUpdate
    <3>2. attachment_queue \in {NoQueue} \cup 0..QueueLen /\ NoQueue = -1 /\ QueueLen \in Nat
      BY SizeAssumption DEF TypeOK, NoQueue
    <3> HIDE DEF kind
    <3>3. attachment_queue' = attachment_queue \/ attachment_queue' = attachment_queue + 1
      BY <3>1, HandedIs
    <3> QED BY <3>2, <3>3
  <2> QED BY <2>1, <2>2 DEF OneReader
<1>3. ASSUME NEW t \in Tasks,
             Receive(t) \/ Save(t) \/ Waits(t) \/ Looks(t) \/ Leave(t)
      PROVE  OneReader'
  <2>1. doubled' = doubled
    BY <1>3 DEF Receive, Save, Waits, Looks, Leave, history
  <2>2. CASE Leave(t)
    <3>1. download' = [download EXCEPT ![t] = "off"] /\ download[t] # "off"
      BY <2>2 DEF Leave
    <3>2. ~doubled => \A u \in Tasks : download'[u] = "off"
      BY <3>1 DEF OneReader, TypeOK
    <3> QED BY <2>1, <3>2 DEF OneReader
  <2>3. CASE ~Leave(t)
    <3>1. \A u \in Tasks : download'[u] # "off" <=> download[u] # "off"
      BY <1>3, <2>3 DEF TypeOK, Receive, Save, Waits, Looks
    <3>2. attachment_task' = attachment_task
      BY <1>3, <2>3 DEF Receive, Save, Waits, Looks, handles
    <3>3. attachment_queue # NoQueue => attachment_queue' # NoQueue
      <4>1. \/ attachment_queue' = attachment_queue
            \/ attachment_queue > 0 /\ attachment_queue' = attachment_queue - 1
        BY <1>3, <2>3 DEF Receive, Save, Waits, Looks
      <4>2. attachment_queue \in {NoQueue} \cup 0..QueueLen /\ NoQueue = -1
        BY DEF TypeOK, NoQueue
      <4> QED BY <4>1, <4>2, SizeAssumption
    <3> QED BY <2>1, <3>1, <3>2, <3>3 DEF OneReader
  <2> QED BY <2>2, <2>3
<1>4. CASE Start
  <2> DEFINE new == CHOOSE t \in Tasks : Free(t)
  <2>1. /\ download' = [download EXCEPT ![new] = "receive"]
        /\ attachment_task' = TRUE /\ attachment_queue' # NoQueue
        /\ doubled' = (doubled \/ \E t \in Tasks : ~Free(t))
    BY <1>4 DEF Start, NoQueue
  <2> HIDE DEF new
  <2>2. ASSUME ~doubled', NEW t \in Tasks, download'[t] # "off"
        PROVE  t = new
    BY <2>1, <2>2 DEF Free, TypeOK
  <2> QED BY <2>1, <2>2 DEF OneReader
<1>5. CASE StartFails
  <2>1. ~doubled' => \A t \in Tasks : download'[t] = "off"
    BY <1>5 DEF StartFails, Free
  <2> QED BY <2>1 DEF OneReader
<1>6. CASE DeleteQueue
  <2>1. ~attachment_task /\ UNCHANGED <<download, doubled>>
    BY <1>6 DEF DeleteQueue, DownloadsOver, history
  <2>2. ~doubled' => \A t \in Tasks : download'[t] = "off"
    BY <2>1 DEF OneReader
  <2> QED BY <2>2 DEF OneReader
<1>7. CASE Restart
  <2>1. \A t \in Tasks : download'[t] = "off"
    BY <1>7 DEF Restart
  <2> QED BY <2>1 DEF OneReader
<1> QED BY <1>1, <1>2, <1>3, <1>4, <1>5, <1>6, <1>7, NextCases

\* QueueOutlives: whoever deletes the queue has seen the one reader go.
THEOREM QueueCorrect == Spec => []QueueOutlives
<1>1. Init => OneReader
  BY DEF Init, Boot, OneReader
<1>2. OneReader => QueueOutlives
  BY DEF OneReader, QueueOutlives
<1> QED BY <1>1, <1>2, TypeCorrect, ReaderStep, PTL DEF Spec

-----------------------------------------------------------------------------
(* The offset, the ring and the service, as long as no token was set while *)
(* the poll task ran.                                                      *)

News == sent[bot_token]

\* An update the gateway does not hand on, whether the service repeats it or not.
Known(id) == Seen(id) \/ News[id] = "other"

\* How many places a place is away from being written again.
Age(s) ==
  IF s >= seen_update_idx THEN s - seen_update_idx
                          ELSE s - seen_update_idx + RingSize

\* The offset goes up by one at least with every key, so that a key is the older
\* the sooner it is written over.
RingAged ==
  \A s \in 1..RingSize :
    seen_update_keys[s] = 0 \/ seen_update_keys[s] <= next_update_id - RingSize + Age(s)

\* What the service has forgotten was looked at.
ForgottenInv ==
  \A b \in Bots : \A id \in 1..forgotten[b] : sent[b][id] # "other" => id \in handled[b]

\* What was handed on is below the offset, in order.
HandedInv ==
  /\ \A i \in DOMAIN handed : handed[i] \in 1..(next_update_id - 1)
  /\ \A i, j \in DOMAIN handed : i < j => handed[i] < handed[j]

\* The request is about this bot, with this offset.
AskInv ==
  /\ poll.at \in {"ask", "wait"} => poll.offset = next_update_id
  /\ poll.at \in {"wait", "handle"} => poll.bot = bot_token

\* The offset is about what was sent, and once a message was handed on the
\* service forgets by it.
RangeInv ==
  /\ next_update_id <= Len(News) + 1
  /\ handed # <<>> => forgotten[bot_token] < next_update_id

\* Since the first message that was handed on, RingSize updates back are known.
RingInv ==
  handed # <<>> =>
    \A id \in 1..(next_update_id - 1) :
      id >= handed[1] /\ id >= next_update_id - RingSize => Known(id)

\* An answer has no gap, nothing new below the offset and nothing missing from
\* the offset on.
BatchInv ==
  poll.at = "handle" =>
    /\ \A i \in DOMAIN poll.batch :
         /\ poll.batch[i] = poll.batch[1] + i - 1
         /\ poll.batch[i] \in 1..Len(News)
         /\ poll.batch[i] < next_update_id => Known(poll.batch[i])
    /\ \A id \in 1..(poll.batch[1] - 1) :
         id >= next_update_id => News[id] = "other" \/ id <= forgotten[bot_token]
    /\ handed = <<>> => poll.batch[1] > forgotten[bot_token]

\* Below the offset everything was looked at.
HandledInv ==
  \A id \in 1..(next_update_id - 1) : News[id] # "other" => id \in handled[bot_token]

Steady == AskInv /\ RangeInv /\ RingInv /\ BatchInv /\ HandledInv

Gate ==
  ~crossed =>
    /\ caller = "reset" => poll.at = "off"
    /\ RingAged /\ ForgottenInv /\ HandedInv
    /\ caller # "reset" => Steady

\* What a key is recorded over is no longer needed.
LEMMA RingMoves ==
  ASSUME TypeOK, RingAged, NEW id \in Nat, id >= next_update_id,
         Record(id), next_update_id' = id + 1
  PROVE  /\ RingAged'
         /\ Seen(id)'
         /\ \A x \in Nat \ {0} : Seen(x) /\ x > id - RingSize => Seen(x)'
<1> DEFINE n == next_update_id
           old == seen_update_idx
<1>1. /\ n \in Nat /\ old \in 1..RingSize /\ RingSize \in Nat \ {0}
      /\ seen_update_keys \in [1..RingSize -> Nat]
  BY SizeAssumption DEF TypeOK
<1>2. /\ seen_update_keys' = [seen_update_keys EXCEPT ![old] = id]
      /\ seen_update_idx' = IF old = RingSize THEN 1 ELSE old + 1
  BY <1>1, NextPlace DEF Record
<1>3. ASSUME NEW s \in 1..RingSize
      PROVE  seen_update_keys'[s] = 0
               \/ seen_update_keys'[s] <= next_update_id' - RingSize + Age(s)'
  <2>1. CASE s = old
    <3>1. seen_update_keys'[s] = id
      BY <1>1, <1>2, <2>1
    <3>2. Age(s)' = RingSize - 1
      BY <1>1, <1>2, <2>1 DEF Age
    <3> QED BY <1>1, <3>1, <3>2
  <2>2. CASE s # old
    <3>1. seen_update_keys'[s] = seen_update_keys[s] /\ seen_update_keys[s] \in Nat
      BY <1>1, <1>2, <2>2
    <3>2. Age(s)' = Age(s) - 1 /\ Age(s) \in Nat
      BY <1>1, <1>2, <2>2 DEF Age
    <3>3. seen_update_keys[s] = 0 \/ seen_update_keys[s] <= n - RingSize + Age(s)
      BY DEF RingAged
    <3> QED BY <1>1, <3>1, <3>2, <3>3
  <2> QED BY <2>1, <2>2
<1>4. ASSUME NEW x \in Nat \ {0}, Seen(x), x > id - RingSize
      PROVE  Seen(x)'
  <2>1. PICK s \in 1..RingSize : seen_update_keys[s] = x
    BY <1>1, <1>4 DEF Seen, ToSet
  <2>2. CASE s = old
    <3>1. Age(s) = 0
      BY <1>1, <2>2 DEF Age
    <3>2. x <= n - RingSize + 0
      BY <2>1, <3>1 DEF RingAged
    <3> QED BY <1>1, <1>4, <3>2
  <2>3. CASE s # old
    <3>1. seen_update_keys'[s] = x /\ s \in DOMAIN seen_update_keys'
      BY <1>1, <1>2, <2>1, <2>3
    <3> QED BY <3>1 DEF Seen, ToSet
  <2> QED BY <2>2, <2>3
<1>5. Seen(id)'
  <2>1. seen_update_keys'[old] = id /\ old \in DOMAIN seen_update_keys'
    BY <1>1, <1>2
  <2> QED BY <2>1 DEF Seen, ToSet
<1>6. RingAged'
  BY <1>3 DEF RingAged
<1> QED BY <1>4, <1>5, <1>6

\* A key in the ring is below the offset.
LEMMA SeenBelow ==
  ASSUME TypeOK, RingAged, NEW id \in Nat \ {0}, Seen(id)
  PROVE  id < next_update_id
<1>1. PICK s \in 1..RingSize : seen_update_keys[s] = id
  BY DEF Seen, ToSet, TypeOK
<1>2. Age(s) <= RingSize - 1 /\ Age(s) \in Nat
  BY SizeAssumption DEF Age, TypeOK
<1>3. id <= next_update_id - RingSize + Age(s) /\ next_update_id \in Nat
  BY <1>1 DEF RingAged, TypeOK
<1> QED BY <1>2, <1>3, SizeAssumption

\* The parts of the invariant that read nothing but what a step leaves alone.
LEMMA GateKept ==
  ASSUME Gate, UNCHANGED <<sent, forgotten, bot_token, next_update_id, seen_update_keys,
                           seen_update_idx, poll, handed, handled, crossed>>,
         caller' = "reset" <=> caller = "reset"
  PROVE  Gate'
BY DEF Gate, RingAged, Age, ForgottenInv, HandedInv, Steady, AskInv, RangeInv, RingInv, BatchInv,
       HandledInv, Known, Seen, News

\* A step that resets what the gateway knows.
LEMMA GateReset ==
  ASSUME TypeOK', ForgottenInv', Forget, poll'.at = "off"
  PROVE  Gate'
<1>1. RingAged'
  BY DEF Forget, RingAged
<1>2. HandedInv'
  BY DEF Forget, HandedInv
<1>3. next_update_id' = 0 /\ handed' = <<>>
  BY DEF Forget
<1>4. Len(sent'[bot_token']) \in Nat
  <2>1. sent'[bot_token'] \in Seq(Kinds)
    BY DEF TypeOK
  <2> QED BY <2>1, LenProperties
<1>5. Steady'
  BY <1>3, <1>4 DEF Steady, AskInv, RangeInv, RingInv, BatchInv, HandledInv, News
<1> QED BY <1>1, <1>2, <1>5 DEF Gate

\* Someone writes: numbers that were given stay with what they name.
LEMMA GateWrite ==
  ASSUME TypeOK, Gate, NEW b \in Bots, NEW k \in Kinds, Write(b, k)
  PROVE  Gate'
<1>1. /\ UNCHANGED <<forgotten, bot_token, next_update_id, seen_update_keys, seen_update_idx>>
      /\ UNCHANGED <<poll, handed, handled, crossed, caller>>
  BY DEF Write, dedup, history
<1>2. ASSUME NEW c \in Bots
      PROVE  /\ Len(sent[c]) \in Nat /\ Len(sent'[c]) >= Len(sent[c])
             /\ \A id \in 1..Len(sent[c]) : sent'[c][id] = sent[c][id]
  <2>1. sent[b] \in Seq(Kinds) /\ sent[c] \in Seq(Kinds)
    BY DEF TypeOK
  <2>2. sent' = [sent EXCEPT ![b] = Append(sent[b], k)]
    BY DEF Write
  <2>3. CASE c = b
    <3>1. sent'[c] = Append(sent[b], k)
      BY <2>2, <2>3 DEF TypeOK
    <3> QED BY <2>1, <2>3, <3>1, AppendProperties, LenProperties
  <2>4. CASE c # b
    <3>1. sent'[c] = sent[c]
      BY <2>2, <2>4 DEF TypeOK
    <3> QED BY <2>1, <3>1, LenProperties
  <2> QED BY <2>3, <2>4
<1> SUFFICES ASSUME ~crossed
             PROVE  Gate'
  BY <1>1 DEF Gate
<1>3. RingAged'
  BY <1>1 DEF Gate, RingAged, Age
<1>4. ForgottenInv'
  <2> SUFFICES ASSUME NEW c \in Bots, NEW id \in 1..forgotten[c], sent'[c][id] # "other"
               PROVE  id \in handled[c]
    BY <1>1 DEF ForgottenInv
  <2>1. forgotten[c] \in Nat /\ forgotten[c] <= Len(sent[c])
    BY DEF TypeOK
  <2>2. id \in 1..Len(sent[c])
    BY <1>2, <2>1
  <2> QED BY <1>2, <2>2 DEF Gate, ForgottenInv
<1>5. HandedInv'
  BY <1>1 DEF Gate, HandedInv
<1>6. ASSUME caller # "reset"
      PROVE  Steady'
  <2>1. Steady /\ bot_token \in Bots /\ next_update_id \in Nat
    BY <1>6 DEF Gate, TypeOK
  <2>2. /\ Len(News) \in Nat /\ Len(News') >= Len(News)
        /\ \A id \in 1..Len(News) : News'[id] = News[id] /\ (Known(id) => Known(id)')
    BY <1>1, <1>2, <2>1 DEF News, Known, Seen
  <2>3. next_update_id <= Len(News) + 1
    BY <2>1 DEF Steady, RangeInv
  <2>4. \A id \in 1..(next_update_id - 1) : id \in 1..Len(News)
    BY <2>1, <2>2, <2>3
  <2>5. AskInv' /\ RangeInv'
    BY <1>1, <2>1, <2>2 DEF Steady, AskInv, RangeInv
  <2>6. RingInv' /\ HandledInv'
    BY <1>1, <2>1, <2>2, <2>4 DEF Steady, RingInv, HandledInv
  <2>7. BatchInv'
    <3> SUFFICES ASSUME poll.at = "handle"
                 PROVE  BatchInv'
      BY <1>1 DEF BatchInv
    <3>1. poll.batch \in Seq(Nat) /\ poll.batch # <<>>
      BY DEF TypeOK
    <3>2. 1 \in DOMAIN poll.batch
      BY <3>1, EmptySeq, LenProperties
    <3>3. BatchInv
      BY <2>1 DEF Steady
    <3>4. \A i \in DOMAIN poll.batch : poll.batch[i] \in 1..Len(News)
      BY <3>3 DEF BatchInv
    <3>5. /\ \A i \in DOMAIN poll.batch :
               /\ poll.batch[i] \in 1..Len(News')
               /\ poll.batch[i] < next_update_id => Known(poll.batch[i])'
      BY <1>1, <2>2, <3>3, <3>4 DEF BatchInv
    <3>6. \A id \in 1..(poll.batch[1] - 1) : id \in 1..Len(News)
      BY <2>2, <3>2, <3>4
    <3>7. \A id \in 1..(poll.batch[1] - 1) :
            id >= next_update_id => News'[id] = "other" \/ id <= forgotten[bot_token]
      BY <2>2, <3>3, <3>6 DEF BatchInv
    <3> QED BY <1>1, <3>3, <3>5, <3>7 DEF BatchInv
  <2> QED BY <2>5, <2>6, <2>7 DEF Steady
<1> QED BY <1>1, <1>3, <1>4, <1>5, <1>6 DEF Gate

\* Steps of the poll task that leave it with no request and no answer.
LEMMA GatePollRests ==
  ASSUME Gate, poll'.at \in {"off", "check"},
         caller # "reset" \/ poll'.at = "off", caller' = "reset" <=> caller = "reset",
         UNCHANGED <<sent, forgotten, bot_token, next_update_id, seen_update_keys,
                     seen_update_idx, handed, handled, crossed>>
  PROVE  Gate'
BY DEF Gate, RingAged, Age, ForgottenInv, HandedInv, Steady, AskInv, RangeInv, RingInv, BatchInv,
       HandledInv, Known, Seen, News

\* The request goes out with the offset as it is.
LEMMA GateBegins ==
  ASSUME TypeOK, Gate, PollBegins
  PROVE  Gate'
<1>1. /\ poll'.at = "ask" /\ poll'.offset = next_update_id /\ poll.at = "check"
      /\ UNCHANGED <<sent, forgotten, bot_token, next_update_id, seen_update_keys,
                     seen_update_idx, handed, handled, crossed, caller>>
  BY DEF PollBegins, TypeOK, service, dedup, history
<1> QED BY <1>1
        DEF Gate, RingAged, Age, ForgottenInv, HandedInv, Steady, AskInv, RangeInv, RingInv,
            BatchInv, HandledInv, Known, Seen, News

\* What the service forgets by the offset was looked at.
LEMMA GateAsks ==
  ASSUME TypeOK, Gate, PollAsks
  PROVE  Gate'
<1>1. /\ poll.at = "ask" /\ poll'.at = "wait" /\ poll'.bot = bot_token
      /\ poll'.offset = poll.offset
      /\ UNCHANGED <<sent, bot_token, next_update_id, seen_update_keys, seen_update_idx>>
      /\ UNCHANGED <<handed, handled, crossed, caller>>
  BY DEF PollAsks, TypeOK, dedup, history
<1> SUFFICES ASSUME ~crossed
             PROVE  Gate'
  BY <1>1 DEF Gate
<1>2. /\ caller # "reset" /\ Steady /\ ForgottenInv
      /\ bot_token \in Bots /\ next_update_id \in Nat /\ forgotten \in [Bots -> Nat]
  BY <1>1 DEF Gate, TypeOK
<1>3. poll.offset = next_update_id
  BY <1>1, <1>2 DEF Steady, AskInv
<1> DEFINE f == forgotten'[bot_token]
<1>4. /\ forgotten' = [forgotten EXCEPT ![bot_token] = f]
      /\ f \in Int /\ (f = forgotten[bot_token] \/ f <= next_update_id - 1)
  <2>1. sent[bot_token] \in Seq(Kinds)
    BY <1>2 DEF TypeOK
  <2>2. Len(sent[bot_token]) \in Int
    BY <2>1, LenProperties
  <2> DEFINE m == Min({poll.offset - 1, Len(sent[bot_token])})
             g == Max({forgotten[bot_token], m})
  <2>3. m \in Int /\ m <= next_update_id - 1
    <3>1. poll.offset - 1 \in Int
      BY <1>2, <1>3
    <3> QED BY <1>3, <2>2, <3>1, MinOfTwo
  <2>4. g \in Int /\ (g = forgotten[bot_token] \/ g <= next_update_id - 1)
    <3>1. forgotten[bot_token] \in Int
      BY <1>2
    <3> HIDE DEF m
    <3>2. g \in {forgotten[bot_token], m}
      BY <2>3, <3>1, MaxOfTwo
    <3> QED BY <2>3, <3>1, <3>2
  <2>5. forgotten' = [forgotten EXCEPT ![bot_token] = g]
    BY DEF PollAsks
  <2> HIDE DEF g
  <2>6. f = g
    BY <1>2, <2>5
  <2> QED BY <2>4, <2>5, <2>6
<1> HIDE DEF f
<1>5. ForgottenInv'
  <2> SUFFICES ASSUME NEW c \in Bots, NEW id \in 1..forgotten'[c], sent[c][id] # "other"
               PROVE  id \in handled[c]
    BY <1>1 DEF ForgottenInv
  <2>1. CASE forgotten'[c] = forgotten[c]
    BY <1>2, <2>1 DEF ForgottenInv
  <2>2. CASE forgotten'[c] # forgotten[c]
    <3>1. c = bot_token /\ f <= next_update_id - 1 /\ forgotten'[c] = f
      BY <1>2, <1>4, <2>2
    <3>2. id \in 1..(next_update_id - 1)
      BY <1>2, <1>4, <3>1
    <3> QED BY <1>2, <3>1, <3>2 DEF Steady, HandledInv, News
  <2> QED BY <2>1, <2>2
<1>6. RingAged' /\ HandedInv' /\ AskInv'
  BY <1>1, <1>3 DEF Gate, RingAged, Age, HandedInv, AskInv
<1>7. RangeInv'
  <2>1. handed # <<>> => forgotten'[bot_token] < next_update_id
    BY <1>2, <1>4 DEF Steady, RangeInv, f
  <2> QED BY <1>1, <1>2, <2>1 DEF Steady, RangeInv, News
<1>8. RingInv' /\ HandledInv' /\ BatchInv'
  BY <1>1, <1>2 DEF Steady, RingInv, HandledInv, BatchInv, News, Known, Seen
<1> QED BY <1>1, <1>5, <1>6, <1>7, <1>8 DEF Gate, Steady

\* An answer that begins where nothing is missing and nothing below the offset is
\* unknown.
LEMMA GateAnswered ==
  ASSUME TypeOK, Gate, poll.at = "wait", NEW first \in Nat \ {0}, poll' = Answered(From(first)),
         ~crossed => /\ \A id \in 1..Len(News) :
                          id >= first /\ id < next_update_id => Known(id)
                     /\ first <= next_update_id \/ first <= forgotten[bot_token] + 1
                     /\ handed = <<>> => first > forgotten[bot_token],
         UNCHANGED <<sent, forgotten, bot_token, next_update_id, seen_update_keys,
                     seen_update_idx, handed, handled, crossed, caller>>
  PROVE  Gate'
<1>1. From(first) \in Seq(Nat)
  BY FromIs
<1>2. poll'.at \in {"check", "handle"}
  BY <1>1, AnsweredType
<1>3. CASE poll'.at = "check"
  <2> SUFFICES ASSUME ~crossed
               PROVE  Gate'
    BY DEF Gate
  <2>1. caller # "reset"
    BY DEF Gate
  <2> QED BY <1>3, <2>1, GatePollRests
<1>4. CASE poll'.at = "handle"
  <2> SUFFICES ASSUME ~crossed
               PROVE  Gate'
    BY DEF Gate
  <2>1. caller # "reset" /\ Steady /\ poll.bot = bot_token
    BY DEF Gate, Steady, AskInv
  <2>2. poll'.batch = From(first) /\ poll'.bot = bot_token /\ From(first) # <<>>
    BY <1>1, <1>4, <2>1, AnsweredType
  <2>3. /\ bot_token \in Bots /\ next_update_id \in Nat /\ forgotten[bot_token] \in Nat
        /\ Len(News) \in Nat
    <3>1. sent[bot_token] \in Seq(Kinds)
      BY DEF TypeOK
    <3> QED BY <3>1, LenProperties DEF TypeOK, News
  <2>4. DOMAIN From(first) = 1..Len(From(first)) /\ 1 \in DOMAIN From(first)
    BY <1>1, <2>2, LenProperties, EmptySeq
  <2>5. \A i \in DOMAIN From(first) :
          /\ From(first)[i] = first + i - 1 /\ From(first)[i] \in 1..Len(News)
          /\ From(first)[i] >= first
    <3>1. \A i \in 1..Len(From(first)) :
            From(first)[i] = first + i - 1 /\ first + i - 1 <= Len(sent[poll.bot])
      BY FromIs
    <3>2. \A i \in DOMAIN From(first) : i \in 1..Len(From(first)) /\ i \in Nat /\ i >= 1
      BY <2>4
    <3>3. Len(sent[poll.bot]) = Len(News)
      BY <2>1 DEF News
    <3> QED BY <2>3, <3>1, <3>2, <3>3
  <2> DEFINE B == From(first)
  <2> HIDE DEF B
  <2>6. poll'.batch = B /\ DOMAIN B = DOMAIN From(first) /\ B[1] = first
    BY <2>2, <2>4, <2>5 DEF B
  <2>7. BatchInv'
    <3>1. ASSUME NEW i \in DOMAIN B
          PROVE  /\ B[i] = B[1] + i - 1 /\ B[i] \in 1..Len(News)
                 /\ B[i] < next_update_id => Known(B[i])
      BY <2>5, <2>6 DEF B
    <3>2. ASSUME NEW id \in 1..(B[1] - 1), id >= next_update_id
          PROVE  id <= forgotten[bot_token]
      BY <2>3, <2>6, <3>2
    <3>3. handed = <<>> => B[1] > forgotten[bot_token]
      BY <2>6
    <3>4. UNCHANGED <<News, next_update_id, handed, forgotten, bot_token, seen_update_keys>>
      BY DEF News
    <3> QED BY <2>6, <3>1, <3>2, <3>3, <3>4 DEF BatchInv, Known, Seen
  <2>8. AskInv' /\ RangeInv' /\ RingInv' /\ HandledInv'
    BY <1>4, <2>1, <2>2 DEF Steady, AskInv, RangeInv, RingInv, HandledInv, News, Known, Seen
  <2>9. RingAged' /\ ForgottenInv' /\ HandedInv'
    BY DEF Gate, RingAged, Age, ForgottenInv, HandedInv
  <2> QED BY <2>1, <2>7, <2>8, <2>9 DEF Gate, Steady
<1> QED BY <1>2, <1>3, <1>4

LEMMA GateAnswer ==
  ASSUME TypeOK, Gate, Answer \/ AnswerAgain
  PROVE  Gate'
<1>1. /\ poll.at = "wait"
      /\ UNCHANGED <<sent, forgotten, bot_token, next_update_id, seen_update_keys,
                     seen_update_idx, handed, handled, crossed, caller>>
  BY DEF Answer, AnswerAgain, service, dedup, history
<1>2. /\ next_update_id \in Nat /\ bot_token \in Bots /\ forgotten[bot_token] \in Nat
      /\ handed \in Seq(Nat)
  BY DEF TypeOK
<1>3. CASE Answer
  <2>1. poll' = Answered(From(Oldest)) /\ Oldest \in Nat \ {0}
    BY <1>3, OldestIs DEF Answer
  <2>2. ASSUME ~crossed
        PROVE  /\ Oldest >= next_update_id /\ Oldest > forgotten[bot_token]
               /\ Oldest \in {forgotten[bot_token] + 1, next_update_id}
    <3>1. poll.bot = bot_token /\ poll.offset = next_update_id
      BY <1>1, <2>2 DEF Gate, Steady, AskInv
    <3> QED BY <3>1, OldestIs
  <2>3. ~crossed => \A id \in 1..Len(News) : ~(id >= Oldest /\ id < next_update_id)
    BY <1>2, <2>1, <2>2
  <2>4. ~crossed => Oldest <= next_update_id \/ Oldest <= forgotten[bot_token] + 1
    BY <1>2, <2>2
  <2> QED BY <1>1, <2>1, <2>2, <2>3, <2>4, GateAnswered
<1>4. CASE AnswerAgain
  <2>1. PICK first \in Repeats : poll' = Answered(From(first))
    BY <1>4 DEF AnswerAgain
  <2>2. /\ first \in ToSet(handed) /\ first < Oldest /\ first >= poll.offset - RingSize
    BY <2>1 DEF Repeats
  <2>3. PICK i \in DOMAIN handed : handed[i] = first
    BY <2>2 DEF ToSet
  <2>4. first \in Nat
    BY <1>2, <2>3, ElementOfSeq, LenProperties
  <2> SUFFICES ASSUME ~crossed
               PROVE  Gate'
    BY <1>1 DEF Gate
  <2>5. Steady /\ HandedInv /\ poll.offset = next_update_id
    BY <1>1 DEF Gate, Steady, AskInv
  <2>6. first \in 1..(next_update_id - 1)
    BY <2>3, <2>5 DEF HandedInv
  <2>7. handed # <<>> /\ first >= handed[1]
    <3>1. DOMAIN handed = 1..Len(handed) /\ Len(handed) \in Nat
      BY <1>2, LenProperties
    <3>2. 1 \in DOMAIN handed /\ i \in Nat /\ i >= 1 /\ handed[1] \in Nat /\ Len(handed) # 0
      BY <1>2, <2>3, <3>1, ElementOfSeq
    <3>3. CASE i = 1
      BY <2>3, <3>2, <3>3
    <3>4. CASE i # 1
      BY <2>3, <2>4, <2>5, <3>2, <3>4 DEF HandedInv
    <3>5. handed # <<>>
      BY <3>2, EmptySeq
    <3> QED BY <3>3, <3>4, <3>5
  <2>8. handed[1] \in Nat
    <3>1. 1 \in 1..Len(handed)
      BY <1>2, <2>7, EmptySeq, LenProperties
    <3> QED BY <1>2, <3>1, ElementOfSeq
  <2>9. ASSUME NEW id \in 1..Len(News), id >= first, id < next_update_id
        PROVE  Known(id)
    <3>1. id \in 1..(next_update_id - 1) /\ id >= handed[1] /\ id >= next_update_id - RingSize
      BY <1>2, <2>2, <2>4, <2>5, <2>7, <2>8, <2>9, SizeAssumption
    <3> QED BY <2>5, <2>7, <3>1 DEF Steady, RingInv
  <2>10. first \in Nat \ {0} /\ first <= next_update_id
    BY <1>2, <2>6
  <2> QED BY <1>1, <2>1, <2>7, <2>9, <2>10, GateAnswered
<1> QED BY <1>3, <1>4

\* What is left of an answer after its first update, when the offset has gone past
\* that update or the update has no message.
LEMMA BatchMoves ==
  ASSUME TypeOK, Steady, poll.at = "handle", poll' = Answered(Tail(poll.batch)),
         UNCHANGED <<sent, forgotten, bot_token>>,
         next_update_id' \in Nat, next_update_id' >= next_update_id,
         \/ UNCHANGED <<next_update_id, seen_update_keys>>
         \/ next_update_id' = Head(poll.batch) + 1,
         \/ Head(poll.batch) < next_update_id'
         \/ News[Head(poll.batch)] = "other",
         handed' = <<>> => handed = <<>>
  PROVE  AskInv' /\ BatchInv'
<1> DEFINE B == poll.batch
           T == Tail(B)
           id == Head(B)
<1>1. /\ B \in Seq(Nat) /\ B # <<>> /\ next_update_id \in Nat /\ bot_token \in Bots
      /\ forgotten[bot_token] \in Nat /\ poll.bot = bot_token
  BY DEF TypeOK, Steady, AskInv
<1>2. /\ Len(B) \in Nat \ {0} /\ DOMAIN B = 1..Len(B) /\ id = B[1] /\ id \in Nat
      /\ T \in Seq(Nat) /\ Len(T) = Len(B) - 1 /\ DOMAIN T = 1..Len(T)
      /\ \A i \in 1..Len(T) : T[i] = B[i + 1]
  BY <1>1, HeadTailProperties, LenProperties, EmptySeq
<1>3. poll'.at = "handle" => poll'.batch = T /\ T # <<>> /\ poll'.bot = bot_token
  BY <1>1, <1>2, AnsweredType
<1>4. poll'.at \in {"check", "handle"}
  BY <1>2, AnsweredType
<1>5. AskInv'
  BY <1>3, <1>4 DEF AskInv
<1>6. ASSUME poll'.at = "handle"
      PROVE  BatchInv'
  <2>1. \A i \in 1..Len(T) : i + 1 \in DOMAIN B
    BY <1>2
  <2>2. BatchInv
    BY DEF Steady
  <2>3. /\ id \in 1..Len(News)
        /\ \A i \in DOMAIN T : /\ T[i] = id + i /\ T[i] \in 1..Len(News)
                               /\ T[i] < next_update_id => Known(T[i])
    <3>1. 1 \in DOMAIN B
      BY <1>2
    <3>2. \A i \in DOMAIN B : /\ B[i] = B[1] + i - 1 /\ B[i] \in 1..Len(News)
                              /\ B[i] < next_update_id => Known(B[i])
      BY <2>2 DEF BatchInv
    <3> HIDE DEF B, T, id
    <3>3. \A i \in DOMAIN T : /\ T[i] = B[i + 1] /\ i + 1 \in DOMAIN B
                              /\ B[1] + (i + 1) - 1 = B[1] + i
      BY <1>2, <2>1
    <3> QED BY <1>2, <3>1, <3>2, <3>3
  <2>4. 1 \in DOMAIN T
    BY <1>2, <1>3, <1>6, EmptySeq
  <2> HIDE DEF B, T, id
  <2>5. T[1] = id + 1 /\ \A i \in DOMAIN T : i \in Nat /\ i >= 1
    BY <1>2, <2>3, <2>4
  <2>6. ASSUME NEW i \in DOMAIN T, NEW x \in Nat, T[i] = x
        PROVE  /\ x = T[1] + i - 1 /\ x \in 1..Len(News')
               /\ x < next_update_id' => Known(x)'
    <3>1. x = T[1] + i - 1
      BY <1>2, <2>3, <2>5, <2>6
    <3>2. x \in 1..Len(News')
      BY <2>3, <2>6 DEF News
    <3>3. CASE UNCHANGED <<next_update_id, seen_update_keys>>
      <4>1. x < next_update_id => Known(x)
        BY <2>3, <2>6
      <4> QED BY <3>1, <3>2, <3>3, <4>1 DEF Known, Seen, News
    <3>4. CASE next_update_id' = id + 1
      BY <1>2, <2>5, <3>1, <3>2, <3>4
    <3> QED BY <3>3, <3>4 DEF id, B
  <2>7. ASSUME NEW x \in 1..(T[1] - 1), x >= next_update_id'
        PROVE  News'[x] = "other" \/ x <= forgotten'[bot_token']
    <3>1. x \in 1..id /\ x >= next_update_id
      BY <1>1, <1>2, <2>5, <2>7
    <3>2. CASE x = id
      BY <1>2, <2>7, <3>2 DEF News, id, B
    <3>3. CASE x # id
      <4>1. x \in 1..(B[1] - 1)
        BY <1>2, <3>1, <3>3
      <4> QED BY <2>2, <3>1, <4>1, <1>6 DEF BatchInv, News, B
    <3> QED BY <3>2, <3>3
  <2>8. handed' = <<>> => T[1] > forgotten[bot_token]
    <3>1. handed' = <<>> => B[1] > forgotten[bot_token]
      BY <2>2 DEF BatchInv, B
    <3> QED BY <1>1, <1>2, <2>5, <3>1
  <2>9. \A i \in DOMAIN T : T[i] \in Nat
    BY <1>2, ElementOfSeq
  <2>10. poll'.batch = T
    BY <1>3, <1>6
  <2>11. \A i \in DOMAIN poll'.batch :
           /\ poll'.batch[i] = poll'.batch[1] + i - 1 /\ poll'.batch[i] \in 1..Len(News')
           /\ poll'.batch[i] < next_update_id' => Known(poll.batch[i])'
    BY <2>6, <2>9, <2>10
  <2>12. \A x \in 1..(poll'.batch[1] - 1) :
           x >= next_update_id' => News'[x] = "other" \/ x <= forgotten'[bot_token']
    BY <2>7, <2>10
  <2>13. handed' = <<>> => poll'.batch[1] > forgotten'[bot_token']
    BY <2>8, <2>10
  <2> QED BY <2>11, <2>12, <2>13 DEF BatchInv
<1> QED BY <1>4, <1>5, <1>6 DEF BatchInv

\* The first of an answer is new when it is neither known nor below the offset.
LEMMA FirstOfBatch ==
  ASSUME TypeOK, Steady, poll.at = "handle"
  PROVE  /\ poll.bot = bot_token /\ Head(poll.batch) = poll.batch[1]
         /\ Head(poll.batch) \in 1..Len(News) /\ Len(News) \in Nat
         /\ Head(poll.batch) < next_update_id => Known(Head(poll.batch))
<1>1. poll.batch \in Seq(Nat) /\ poll.batch # <<>>
  BY DEF TypeOK
<1>2. Head(poll.batch) = poll.batch[1] /\ 1 \in DOMAIN poll.batch
  BY <1>1, HeadTailProperties, LenProperties, EmptySeq
<1>3. sent[bot_token] \in Seq(Kinds)
  BY DEF TypeOK
<1>4. Len(News) \in Nat
  BY <1>3, LenProperties DEF News
<1> QED BY <1>2, <1>4 DEF Steady, AskInv, BatchInv

\* An update without a message, or one the ring knows: the offset, the ring and
\* what was handed on stay.
LEMMA HandleKnown ==
  ASSUME TypeOK, Gate, ~crossed, caller # "reset", HandleUpdate,
         Known(Head(poll.batch))
  PROVE  Gate'
<1> DEFINE id == Head(poll.batch)
<1>1. /\ Steady /\ RingAged /\ ForgottenInv /\ HandedInv /\ poll.at = "handle"
      /\ next_update_id \in Nat /\ bot_token \in Bots
  BY DEF Gate, HandleUpdate, TypeOK
<1>2. poll.bot = bot_token /\ id \in 1..Len(News) /\ Len(News) \in Nat
  BY <1>1, FirstOfBatch
<1>3. /\ poll' = Answered(Tail(poll.batch))
      /\ UNCHANGED <<sent, forgotten, bot_token, crossed, caller>>
  BY DEF HandleUpdate, service
<1> HIDE DEF id
<1>4. /\ UNCHANGED <<next_update_id, seen_update_keys, seen_update_idx, handed>>
      /\ id < next_update_id \/ News[id] = "other"
      /\ handled \in [Bots -> SUBSET Nat]
      /\ handled' = handled \/ handled' = [handled EXCEPT ![bot_token] = @ \cup {id}]
  <2>1. CASE News[id] = "other"
    BY <1>2, <2>1 DEF HandleUpdate, dedup, News, id, TypeOK
  <2>2. CASE News[id] # "other"
    <3>1. Seen(id)
      BY <2>2 DEF Known, id
    <3>2. id < next_update_id
      BY <1>1, <1>2, <3>1, SeenBelow
    <3>3. next_update_id' = next_update_id
      BY <1>1, <1>2, <2>2, <3>2 DEF HandleUpdate, News, id, OffsetAfter
    <3> QED BY <1>2, <2>2, <3>1, <3>2, <3>3 DEF HandleUpdate, News, id, TypeOK
  <2> QED BY <2>1, <2>2
<1>5. AskInv' /\ BatchInv'
  BY <1>1, <1>3, <1>4, BatchMoves DEF id
<1>6. \A c \in Bots : handled[c] \subseteq handled'[c]
  BY <1>4
<1>7. RingAged' /\ HandedInv' /\ RangeInv' /\ RingInv'
  BY <1>1, <1>3, <1>4 DEF RingAged, Age, HandedInv, Steady, RangeInv, RingInv, Known, Seen, News
<1>8. ForgottenInv' /\ HandledInv'
  BY <1>1, <1>3, <1>4, <1>6 DEF ForgottenInv, Steady, HandledInv, News
<1> QED BY <1>3, <1>5, <1>7, <1>8 DEF Gate, Steady

\* A new message: the offset goes past it, and its key into the ring.
LEMMA HandleNew ==
  ASSUME TypeOK, Gate, ~crossed, caller # "reset", HandleUpdate,
         ~Known(Head(poll.batch))
  PROVE  Gate'
<1> DEFINE first == Head(poll.batch)
<1>1. /\ Steady /\ RingAged /\ ForgottenInv /\ HandedInv /\ poll.at = "handle"
      /\ next_update_id \in Nat /\ bot_token \in Bots /\ forgotten[bot_token] \in Nat
      /\ handled \in [Bots -> SUBSET Nat] /\ handed \in Seq(Nat)
  BY DEF Gate, HandleUpdate, TypeOK
<1>2. PICK id \in 1..Len(News) : id = first /\ ~Known(id)
  BY <1>1, FirstOfBatch
<1>3. /\ poll.bot = bot_token /\ id = poll.batch[1] /\ id \in Nat
      /\ Len(News) \in Nat /\ id >= next_update_id
  BY <1>1, <1>2, FirstOfBatch
<1>4. /\ poll' = Answered(Tail(poll.batch))
      /\ UNCHANGED <<sent, forgotten, bot_token, crossed, caller>>
  BY DEF HandleUpdate, service
<1>5. /\ next_update_id' = id + 1 /\ Record(id)
      /\ handled' = [handled EXCEPT ![bot_token] = @ \cup {id}]
      /\ handed' = handed \/ handed' = Append(handed, id)
  <2>1. News[id] # "other" /\ ~Seen(id)
    BY <1>2 DEF Known
  <2> QED BY <1>2, <1>3, <2>1 DEF HandleUpdate, News, OffsetAfter
<1>6. AskInv' /\ BatchInv'
  <2>1. next_update_id' \in Nat /\ next_update_id' >= next_update_id /\ id < next_update_id'
    BY <1>1, <1>2, <1>3, <1>5
  <2>2. handed' = <<>> => handed = <<>>
    BY <1>1, <1>5, AppendProperties
  <2> QED BY <1>1, <1>2, <1>4, <1>5, <2>1, <2>2, BatchMoves
<1>7. BatchInv
  BY <1>1 DEF Steady
<1>8. /\ RingAged' /\ Seen(id)'
      /\ \A x \in Nat \ {0} : Seen(x) /\ x > id - RingSize => Seen(x)'
  BY <1>1, <1>3, <1>5, RingMoves
<1>9. ForgottenInv'
  BY <1>1, <1>4, <1>5 DEF ForgottenInv
<1>10. handed = <<>> => id > forgotten[bot_token]
  BY <1>1, <1>2, <1>3, <1>7 DEF BatchInv
<1>11. handed # <<>> => forgotten[bot_token] < next_update_id
  BY <1>1 DEF Steady, RangeInv
<1>12. \A x \in 1..(id - 1) :
         x >= next_update_id => News[x] = "other" \/ x <= forgotten[bot_token]
  BY <1>1, <1>2, <1>3, <1>7 DEF BatchInv
<1>13. RangeInv'
  BY <1>1, <1>2, <1>3, <1>4, <1>5, <1>10, <1>11 DEF RangeInv, News
<1>14. HandledInv'
  <2> SUFFICES ASSUME NEW x \in 1..(id + 1 - 1), News[x] # "other"
               PROVE  x \in handled'[bot_token]
    BY <1>4, <1>5 DEF HandledInv, News
  <2>1. CASE x = id
    BY <1>1, <1>5, <2>1
  <2>2. CASE x < next_update_id
    <3>1. x \in 1..(next_update_id - 1)
      BY <1>1, <1>2, <1>3, <2>2
    <3> QED BY <1>1, <1>5, <3>1 DEF Steady, HandledInv
  <2>3. CASE x # id /\ x >= next_update_id
    <3>1. x \in 1..(id - 1)
      BY <1>2, <1>3, <2>3
    <3>2. x \in 1..forgotten[bot_token]
      BY <1>1, <1>12, <2>3, <3>1
    <3> QED BY <1>1, <1>5, <3>2 DEF ForgottenInv, News
  <2>4. x \in Nat
    BY <1>2, <1>3
  <2> QED BY <1>1, <2>1, <2>2, <2>3, <2>4
<1>15. /\ DOMAIN handed = 1..Len(handed) /\ Len(handed) \in Nat
       /\ \A i \in DOMAIN handed : handed[i] \in Nat
       /\ handed # <<>> => 1 \in DOMAIN handed
  BY <1>1, LenProperties, ElementOfSeq, EmptySeq
<1>16. ASSUME NEW x \in Nat, x >= 1, x < id, x > id - RingSize,
              handed # <<>>, x >= handed[1]
       PROVE  Known(x)'
  <2>1. x < next_update_id \/ News[x] = "other"
    <3>1. x \in 1..(id - 1)
      BY <1>3, <1>16
    <3>2. x >= next_update_id => News[x] = "other" \/ x <= forgotten[bot_token]
      BY <1>12, <3>1
    <3> QED BY <1>1, <1>11, <1>16, <3>2
  <2>2. CASE News[x] = "other"
    BY <1>4, <2>2 DEF Known, News
  <2>3. CASE News[x] # "other"
    <3>1. x \in 1..(next_update_id - 1) /\ x >= next_update_id - RingSize
      BY <1>1, <1>3, <1>16, <2>1, <2>3, SizeAssumption
    <3>2. Seen(x)
      BY <1>1, <1>16, <2>3, <3>1 DEF Steady, RingInv, Known
    <3>3. Seen(x)'
      BY <1>8, <1>16, <3>2
    <3> QED BY <3>3 DEF Known
  <2> QED BY <2>2, <2>3
<1>17. Known(id)'
  BY <1>8 DEF Known
<1>18. CASE handed' = handed
  <2>1. HandedInv'
    BY <1>1, <1>2, <1>3, <1>5, <1>15, <1>18 DEF HandedInv
  <2>2. ASSUME handed # <<>>, NEW x \in 1..id, x >= handed[1], x >= id + 1 - RingSize
        PROVE  Known(x)'
    <3>1. CASE x = id
      BY <1>17, <3>1
    <3>2. CASE x # id
      <4>1. x \in Nat /\ x >= 1 /\ x < id /\ x > id - RingSize
        BY <1>3, <2>2, <3>2, SizeAssumption
      <4> QED BY <1>16, <2>2, <4>1
    <3> QED BY <3>1, <3>2
  <2>3. RingInv'
    <3>1. next_update_id' - 1 = id /\ next_update_id' = id + 1
      BY <1>3, <1>5
    <3> SUFFICES ASSUME handed' # <<>>, NEW x \in 1..(next_update_id' - 1),
                        x >= handed'[1], x >= next_update_id' - RingSize
                 PROVE  Known(x)'
      BY DEF RingInv, Known, Seen, News
    <3>2. x \in 1..id /\ x >= handed[1] /\ x >= id + 1 - RingSize /\ handed # <<>>
      BY <1>3, <1>5, <1>18, <3>1, SizeAssumption
    <3> QED BY <2>2, <3>2
  <2> QED BY <1>4, <1>6, <1>8, <1>9, <1>13, <1>14, <2>1, <2>3 DEF Gate, Steady
<1>19. CASE handed' = Append(handed, id)
  <2>1. /\ DOMAIN handed' = 1..Len(handed) + 1 /\ handed' # <<>>
        /\ handed'[Len(handed) + 1] = id
        /\ \A i \in 1..Len(handed) : handed'[i] = handed[i]
    BY <1>1, <1>2, <1>3, <1>19, AppendProperties, LenProperties, EmptySeq
  <2>2. HandedInv'
    <3>1. \A i \in DOMAIN handed' : handed'[i] \in 1..(id + 1 - 1)
      BY <1>1, <1>2, <1>3, <1>15, <2>1 DEF HandedInv
    <3>2. ASSUME NEW i \in DOMAIN handed', NEW j \in DOMAIN handed', i < j
          PROVE  handed'[i] < handed'[j]
      <4>1. i \in 1..Len(handed)
        BY <1>15, <2>1, <3>2
      <4>2. CASE j = Len(handed) + 1
        BY <1>1, <1>2, <1>3, <1>15, <2>1, <4>1, <4>2 DEF HandedInv
      <4>3. CASE j # Len(handed) + 1
        <5>1. j \in 1..Len(handed)
          BY <1>15, <2>1, <4>3
        <5> QED BY <1>1, <1>15, <2>1, <3>2, <4>1, <5>1 DEF HandedInv
      <4> QED BY <4>2, <4>3
    <3> QED BY <1>5, <3>1, <3>2 DEF HandedInv
  <2>3. handed = <<>> => handed'[1] = id
    <3>1. handed = <<>> => Len(handed) = 0
      OBVIOUS
    <3> QED BY <2>1, <3>1
  <2>4. handed # <<>> => handed'[1] = handed[1]
    BY <1>15, <2>1
  <2>5. ASSUME NEW x \in 1..id, x >= handed'[1], x >= id + 1 - RingSize
        PROVE  Known(x)'
    <3>1. CASE x = id
      BY <1>17, <3>1
    <3>2. CASE x # id
      <4>1. x \in Nat /\ x >= 1 /\ x < id /\ x > id - RingSize
        BY <1>3, <2>5, <3>2, SizeAssumption
      <4>2. handed # <<>>
        BY <1>3, <2>3, <2>5, <4>1
      <4> QED BY <1>16, <2>4, <2>5, <4>1, <4>2
    <3> QED BY <3>1, <3>2
  <2>6. RingInv'
    <3>1. next_update_id' - 1 = id /\ next_update_id' = id + 1
      BY <1>3, <1>5
    <3> SUFFICES ASSUME NEW x \in 1..(next_update_id' - 1),
                        x >= handed'[1], x >= next_update_id' - RingSize
                 PROVE  Known(x)'
      BY DEF RingInv, Known, Seen, News
    <3>2. x \in 1..id /\ x >= handed'[1] /\ x >= id + 1 - RingSize
      BY <1>3, <1>5, <3>1, SizeAssumption
    <3> QED BY <2>5, <3>2
  <2> QED BY <1>4, <1>6, <1>8, <1>9, <1>13, <1>14, <2>2, <2>6 DEF Gate, Steady
<1> QED BY <1>5, <1>18, <1>19

LEMMA GateStep == TypeOK /\ TypeOK' /\ Gate /\ [Next]_vars => Gate'
<1> SUFFICES ASSUME TypeOK, TypeOK', Gate, [Next]_vars
             PROVE  Gate'
  OBVIOUS
<1>1. CASE \E b \in Bots, k \in Kinds : Write(b, k)
  BY <1>1, GateWrite
<1>2. CASE PollBegins \/ PollAsks \/ Answer \/ AnswerAgain
  BY <1>2, GateBegins, GateAsks, GateAnswer
<1>3. CASE PollEnds \/ PollFails \/ StartPoll
  <2>1. /\ UNCHANGED <<sent, forgotten, bot_token, next_update_id, seen_update_keys,
                       seen_update_idx, handed, handled, crossed>>
        /\ poll'.at \in {"off", "check"}
        /\ caller' = "reset" <=> caller = "reset"
    BY <1>3 DEF PollEnds, PollFails, StartPoll, Nobody, Checking, service, dedup, history
  <2>2. CASE crossed
    BY <2>1, <2>2 DEF Gate
  <2>3. CASE ~crossed
    <3>1. caller # "reset"
      BY <1>3, <2>3 DEF Gate, PollEnds, PollFails, StartPoll
    <3> QED BY <2>1, <3>1, GatePollRests
  <2> QED BY <2>2, <2>3
<1>4. CASE HandleUpdate
  <2>1. CASE crossed
    BY <1>4, <2>1 DEF HandleUpdate, Gate
  <2>2. CASE ~crossed
    <3>1. caller # "reset"
      BY <1>4, <2>2 DEF HandleUpdate, Gate
    <3> QED BY <1>4, <2>2, <3>1, HandleKnown, HandleNew
  <2> QED BY <2>1, <2>2
<1>5. CASE \E t \in Tasks : Receive(t) \/ Save(t) \/ Waits(t) \/ Looks(t) \/ Leave(t)
  <2>1. UNCHANGED <<sent, forgotten, bot_token, next_update_id, seen_update_keys,
                    seen_update_idx, poll, handed, handled, crossed, caller>>
    BY <1>5 DEF Receive, Save, Waits, Looks, Leave, service, dedup, history
  <2> QED BY <2>1, GateKept
<1>6. CASE \/ StartAgain \/ StartNoMemory \/ Start \/ StartFails \/ StartPollFails
           \/ StopNothing \/ Stop \/ DeleteQueue \/ StopPollOver \/ StopTimesOut
           \/ UNCHANGED vars
  <2>1. UNCHANGED <<sent, forgotten, bot_token, next_update_id, seen_update_keys,
                    seen_update_idx, poll, handed, handled, crossed>>
    BY <1>6 DEF StartAgain, StartNoMemory, Start, StartFails, StartPollFails, StopNothing, Stop,
                DeleteQueue, StopPollOver, StopTimesOut, vars, service, dedup, history
  <2>2. caller' = "reset" <=> caller = "reset"
    BY <1>6 DEF StartAgain, StartNoMemory, Start, StartFails, StartPollFails, StopNothing, Stop,
                DeleteQueue, StopPollOver, StopTimesOut, vars, Calling
  <2> QED BY <2>1, <2>2, GateKept
<1>7. CASE SetToken
  <2>1. /\ UNCHANGED <<sent, forgotten, next_update_id, seen_update_keys, seen_update_idx,
                       poll, handed, handled>>
        /\ crossed' = (crossed \/ poll.at # "off") /\ caller' = "reset" /\ caller = "idle"
    BY <1>7 DEF SetToken, Calling, service, dedup
  <2> QED BY <2>1 DEF Gate, RingAged, Age, ForgottenInv, HandedInv
<1>8. CASE SetTokenResets
  <2>1. /\ caller = "reset" /\ Forget
        /\ UNCHANGED <<sent, forgotten, handled, poll, crossed>>
    BY <1>8 DEF SetTokenResets, service
  <2>2. CASE crossed
    BY <2>1, <2>2 DEF Gate
  <2>3. CASE ~crossed
    <3>1. poll'.at = "off" /\ ForgottenInv'
      BY <2>1, <2>3 DEF Gate, ForgottenInv
    <3> QED BY <2>1, <3>1, GateReset
  <2> QED BY <2>2, <2>3
<1>9. CASE Restart
  <2>1. /\ Forget /\ poll'.at = "off"
        /\ UNCHANGED <<sent, forgotten, handled, crossed>>
    BY <1>9 DEF Restart, Nobody, service
  <2>2. CASE crossed
    BY <2>1, <2>2 DEF Gate
  <2>3. CASE ~crossed
    <3>1. ForgottenInv'
      BY <2>1, <2>3 DEF Gate, ForgottenInv
    <3> QED BY <2>1, <3>1, GateReset
  <2> QED BY <2>2, <2>3
<1> QED BY <1>1, <1>2, <1>3, <1>4, <1>5, <1>6, <1>7, <1>8, <1>9, NextCases

THEOREM GateCorrect == Spec => []Gate
<1>1. Init => Gate
  <2> SUFFICES ASSUME Init
               PROVE  Gate
    OBVIOUS
  <2>1. /\ sent = [b \in Bots |-> <<>>] /\ forgotten = [b \in Bots |-> 0]
        /\ next_update_id = 0 /\ seen_update_keys = [i \in 1..RingSize |-> 0]
        /\ handed = <<>> /\ poll.at = "off" /\ bot_token \in Bots
    BY BotAssumption DEF Init, Boot, Nobody
  <2>2. RingAged /\ ForgottenInv /\ HandedInv
    BY <2>1 DEF RingAged, ForgottenInv, HandedInv
  <2>3. AskInv /\ BatchInv /\ RingInv /\ HandledInv
    BY <2>1 DEF AskInv, BatchInv, RingInv, HandledInv
  <2>4. RangeInv
    BY <2>1 DEF RangeInv, News
  <2> QED BY <2>1, <2>2, <2>3, <2>4 DEF Gate, Steady
<1> QED BY <1>1, TypeCorrect, GateStep, PTL DEF Spec

\* ForgottenHandled: the offset confirms what was looked at and nothing else.
THEOREM ForgottenCorrect == Spec => []ForgottenHandled
<1>1. Gate => ForgottenHandled
  BY DEF Gate, ForgottenInv, ForgottenHandled
<1> QED BY <1>1, GateCorrect, PTL

\* HandedInOrder: what the service repeats, the ring still knows.
THEOREM HandedCorrect == Spec => []HandedInOrder
<1>1. Gate => HandedInOrder
  BY DEF Gate, HandedInv, HandedInOrder
<1> QED BY <1>1, GateCorrect, PTL
=============================================================================
