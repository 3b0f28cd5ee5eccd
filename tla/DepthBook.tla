----------------------------- MODULE DepthBook -----------------------------
(***************************************************************************)
(* The order book of one symbol of the second exchange, from the           *)
(* exchange's updates to the book Flink keeps and emits every second       *)
(* (binance-collector/collector.py in depth mode, DepthParser.java,        *)
(* OrderBookReconstructor.java, BinanceDepthJob.java).                     *)
(*                                                                         *)
(* The exchange numbers the changes of its book.  A connection sends them  *)
(* in batches [first, last]; beside it the collector reads the whole book  *)
(* over REST every five minutes.  Both go to the same partition, so the    *)
(* job sees one sequence of messages, and has to find out which of them    *)
(* fit together.                                                           *)
(*                                                                         *)
(* Bids and asks are treated alike: a book is one side, the quantity at    *)
(* each level, 0 where the level is absent; level 1 is the best price.     *)
(* What a message says follows from its ids and the exchange's past.       *)
(***************************************************************************)
EXTENDS Integers, Sequences, FiniteSets

CONSTANTS
  Levels,          \* prices, best first
  Quantities,      \* what a level may hold
  Limit,           \* DEPTH_SNAPSHOT_LIMIT: levels in a REST snapshot
  TOP_N,           \* levels in an emitted book
  Conns,           \* connections of the collector that may carry the symbol
  MaxId, MaxTopic, MaxLosses, MaxRestarts,   \* bounds
  NONE

ASSUME ParameterAssumption ==
  /\ Levels \subseteq Nat
  /\ IsFiniteSet(Levels)
  /\ Quantities \subseteq Nat \ {0} /\ Quantities # {}
  /\ {Limit, TOP_N} \subseteq Nat \ {0}
  /\ {MaxId, MaxTopic, MaxLosses, MaxRestarts} \subseteq Nat

ASSUME NoneAssumption == NONE \notin Nat

Books == [Levels -> Quantities \cup {0}]

VARIABLES
  past,      \* the exchange: its book after each update
  streamed,  \* the last update sent on each connection; NONE: not subscribed
  request,   \* the update a REST answer on its way was read at, or NONE
  topic,     \* what the job has not read, or not checkpointed
  pos,       \* how much of it the job has read
  job,       \* keyed state of the reconstructor
  saved,     \* that state at the last checkpoint
  shown,     \* the last book emitted
  losses, restarts

source == <<past, streamed, request>>
vars == <<source, topic, pos, job, saved, shown, losses, restarts>>

-----------------------------------------------------------------------------
(* Messages.                                                                *)

Snapshot(id) == [snapshot |-> TRUE, first |-> id, last |-> id]
Diff(first, last) == [snapshot |-> FALSE, first |-> first, last |-> last]

\* The best n levels of a book.
Best(book, n) ==
  {l \in Levels : book[l] # 0 /\ Cardinality({k \in Levels : k <= l /\ book[k] # 0}) <= n}

\* The book a snapshot read at update id lists: its best levels only.
Listed(id) == [l \in Levels |-> IF l \in Best(past[id], Limit) THEN past[id][l] ELSE 0]

\* The levels a batch names: those that changed within it.
Touched(m) == {l \in Levels : \E k \in (m.first - 1)..m.last : past[k][l] # past[m.last][l]}

\* apply: a level with quantity 0 is removed, any other one put.
Apply(book, m) == [l \in Levels |-> IF l \in Touched(m) THEN past[m.last][l] ELSE book[l]]

Unsynced == [book |-> [l \in Levels |-> 0], lastId |-> NONE, synced |-> FALSE,
             timer |-> FALSE, base |-> NONE]   \* base: history, the snapshot it began with

Init ==
  /\ past = <<[l \in Levels |-> CHOOSE q \in Quantities : TRUE]>>
  /\ streamed = [c \in Conns |-> NONE]
  /\ request = NONE
  /\ topic = <<>>
  /\ pos = 0
  /\ job = Unsynced
  /\ saved = Unsynced
  /\ shown = NONE
  /\ losses = 0
  /\ restarts = 0

-----------------------------------------------------------------------------
(* The exchange and the collector.                                          *)

\* A level of the exchange's book takes another quantity, or goes.
Change(l, q) ==
  /\ Len(past) < MaxId
  /\ past[Len(past)][l] # q
  /\ past' = Append(past, [past[Len(past)] EXCEPT ![l] = q])
  /\ UNCHANGED <<streamed, request, topic, pos, job, saved, shown, losses, restarts>>

\* Variant with a plausible bug: the first batch begins one update too late.
SubscribeLate(c) ==
  /\ streamed[c] = NONE
  /\ streamed' = [streamed EXCEPT ![c] = Len(past) + 1]
  /\ UNCHANGED <<past, request, topic, pos, job, saved, shown, losses, restarts>>

\* A connection opens with the symbol in its group: after an error, after 23 hours, or
\* since the symbol list changed.  A connection left without a group keeps its symbols,
\* so that two may carry one.  Batches begin with what changes from now on.
Subscribe(c) ==
  /\ streamed[c] = NONE
  /\ streamed' = [streamed EXCEPT ![c] = Len(past)]
  /\ UNCHANGED <<past, request, topic, pos, job, saved, shown, losses, restarts>>

Unsubscribe(c) ==
  /\ streamed[c] # NONE
  /\ streamed' = [streamed EXCEPT ![c] = NONE]
  /\ UNCHANGED <<past, request, topic, pos, job, saved, shown, losses, restarts>>

\* produce: the message is in the partition or, with a full queue, an expired delivery or
\* a stop before the queue is flushed, lost.
Produce(m) ==
  /\ Len(topic) < MaxTopic
  /\ \/ topic' = Append(topic, m) /\ UNCHANGED losses
     \/ losses < MaxLosses /\ losses' = losses + 1 /\ UNCHANGED topic

\* A batch arrives, perhaps late: it ends at any update made by now.
Receive(c) ==
  /\ streamed[c] # NONE
  /\ \E last \in (streamed[c] + 1)..Len(past) :
       /\ Produce(Diff(streamed[c] + 1, last))
       /\ streamed' = [streamed EXCEPT ![c] = last]
  /\ UNCHANGED <<past, request, pos, job, saved, shown, restarts>>

\* emit_snapshots: the REST call reads the book; the answer is produced when the
\* coroutine runs again, behind whatever the connections have produced meanwhile.
Fetch ==
  /\ request = NONE
  /\ request' = Len(past)
  /\ UNCHANGED <<past, streamed, topic, pos, job, saved, shown, losses, restarts>>

EmitSnapshot ==
  /\ request # NONE
  /\ Produce(Snapshot(request))
  /\ request' = NONE
  /\ UNCHANGED <<past, streamed, pos, job, saved, shown, restarts>>

-----------------------------------------------------------------------------
(* OrderBookReconstructor.                                                  *)

\* A snapshot that is behind a book in sync is ignored.
OldSnapshot(m) ==
  /\ m.snapshot
  /\ job.lastId # NONE /\ m.last < job.lastId /\ job.synced
  /\ UNCHANGED job

\* Variant with a plausible bug: the snapshot is taken over, the mark forgotten.
NewSnapshotUnmarked(m) ==
  /\ m.snapshot
  /\ ~(job.lastId # NONE /\ m.last < job.lastId /\ job.synced)
  /\ job' = [job EXCEPT !.book = Listed(m.last), !.lastId = m.last, !.timer = TRUE, !.base = m.last]

\* Variant with a plausible bug: any snapshot is taken over.
AnySnapshot(m) ==
  /\ m.snapshot
  /\ job' = [book |-> Listed(m.last), lastId |-> m.last, synced |-> TRUE, timer |-> TRUE,
             base |-> m.last]

NewSnapshot(m) ==
  /\ m.snapshot
  /\ ~(job.lastId # NONE /\ m.last < job.lastId /\ job.synced)
  /\ job' = [book |-> Listed(m.last), lastId |-> m.last, synced |-> TRUE, timer |-> TRUE,
             base |-> m.last]

DropUnsynced(m) ==
  /\ ~m.snapshot
  /\ ~job.synced
  /\ UNCHANGED job

DropStale(m) ==
  /\ ~m.snapshot
  /\ job.synced
  /\ m.last <= job.lastId
  /\ UNCHANGED job

\* Updates are missing: nothing is applied until the next snapshot.
Gap(m) ==
  /\ ~m.snapshot
  /\ job.synced
  /\ m.last > job.lastId
  /\ m.first > job.lastId + 1
  /\ job' = [job EXCEPT !.synced = FALSE]

\* Variant with a plausible bug: a batch that begins one update too late is taken.
ApplyDiffOneLate(m) ==
  /\ ~m.snapshot
  /\ job.synced
  /\ m.last > job.lastId
  /\ m.first <= job.lastId + 2
  /\ job' = [job EXCEPT !.book = Apply(job.book, m), !.lastId = m.last, !.timer = TRUE]

ApplyDiff(m) ==
  /\ ~m.snapshot
  /\ job.synced
  /\ m.last > job.lastId
  /\ m.first <= job.lastId + 1
  /\ job' = [job EXCEPT !.book = Apply(job.book, m), !.lastId = m.last, !.timer = TRUE]

processElement ==
  /\ pos < Len(topic)
  /\ pos' = pos + 1
  /\ LET m == topic[pos + 1]
     IN  \/ OldSnapshot(m)
         \/ NewSnapshot(m)
         \/ DropUnsynced(m)
         \/ DropStale(m)
         \/ Gap(m)
         \/ ApplyDiff(m)
  /\ UNCHANGED <<source, topic, saved, shown, losses, restarts>>

\* Variant with a plausible bug: the side is read from its far end.
toEventReversed ==
  [id |-> job.lastId, base |-> job.base, size |-> job.book,
   levels |-> {l \in Levels : job.book[l] # 0 /\ Cardinality({k \in Levels : k >= l /\ job.book[k] # 0}) <= TOP_N}]

toEvent == [id |-> job.lastId, base |-> job.base, size |-> job.book, levels |-> Best(job.book, TOP_N)]

\* The timer of every second: the best levels of a book in sync.
onTimer ==
  /\ job.timer
  /\ job.synced
  /\ shown' = toEvent
  /\ UNCHANGED <<source, topic, pos, job, saved, losses, restarts>>

-----------------------------------------------------------------------------
(* Flink: checkpoints with the Kafka offsets, a restart of the failed job   *)
(* (20 times 30 s), a job submitted anew, without its state.                *)

Checkpoint ==
  /\ saved' = job
  /\ topic' = SubSeq(topic, pos + 1, Len(topic))
  /\ pos' = 0
  /\ UNCHANGED <<source, job, shown, losses, restarts>>

Restore ==
  /\ restarts < MaxRestarts
  /\ restarts' = restarts + 1
  /\ job' = saved
  /\ pos' = 0
  /\ UNCHANGED <<source, topic, saved, shown, losses>>

\* From the committed offsets or, when the group has none, from the newest record.
Resubmit ==
  /\ restarts < MaxRestarts
  /\ restarts' = restarts + 1
  /\ job' = Unsynced
  /\ saved' = Unsynced
  /\ pos' \in {0, Len(topic)}
  /\ UNCHANGED <<source, topic, shown, losses>>

-----------------------------------------------------------------------------
Next ==
  \/ \E l \in Levels, q \in Quantities \cup {0} : Change(l, q)
  \/ \E c \in Conns : Subscribe(c) \/ Unsubscribe(c) \/ Receive(c)
  \/ Fetch
  \/ EmitSnapshot
  \/ processElement
  \/ onTimer
  \/ Checkpoint
  \/ Restore
  \/ Resubmit

Spec == Init /\ [][Next]_vars

FairSpec ==
  /\ Spec
  /\ WF_vars(Fetch) /\ WF_vars(EmitSnapshot)
  /\ WF_vars(processElement) /\ WF_vars(onTimer) /\ WF_vars(Checkpoint)

-----------------------------------------------------------------------------
(* Properties.                                                              *)

Ids == 1..Len(past)
Messages == {Snapshot(id) : id \in Ids} \cup {Diff(f, id) : f \in Ids \ {1}, id \in Ids}

JobState ==
  [book : Books, lastId : Ids \cup {NONE}, synced : BOOLEAN, timer : BOOLEAN,
   base : Ids \cup {NONE}]

TypeOK ==
  /\ past \in Seq(Books) /\ past # <<>>
  /\ streamed \in [Conns -> Ids \cup {NONE}]
  /\ request \in Ids \cup {NONE}
  /\ topic \in Seq(Messages)
  /\ \A i \in 1..Len(topic) : topic[i].first <= topic[i].last
  /\ pos \in 0..Len(topic)
  /\ job \in JobState
  /\ saved \in JobState
  /\ shown \in [id : Ids, base : Ids, levels : SUBSET Levels, size : Books] \cup {NONE}
  /\ losses \in Nat
  /\ restarts \in Nat

\* The snapshot read at update id left out level l, and no update has touched it since.
Hidden(l, base, id) ==
  /\ past[base][l] # 0
  /\ l \notin Best(past[base], Limit)
  /\ \A k \in base..id : past[k][l] = past[base][l]

\* book is the exchange's book after update id, but for the hidden levels.
IsExchangeBook(book, base, id) ==
  \A l \in Levels : book[l] = past[id][l] \/ (book[l] = 0 /\ Hidden(l, base, id))

\* A book in sync is the exchange's book after the update it names: no level that is gone
\* stays, none has an old quantity, whatever was lost, repeated or overtaken; only
\* levels the REST snapshot does not reach are missing (reconstructor, lines 47-61).
SyncedBookIsExchanges ==
  job.synced => job.lastId # NONE /\ job.base # NONE /\ IsExchangeBook(job.book, job.base, job.lastId)

\* An emitted book has the exchange's best levels at that update, unless one of them is
\* beyond what the snapshot reached (toEvent, TOP_N of 500 levels).
ShownIsBest ==
  shown # NONE =>
    \A l \in Best(past[shown.id], TOP_N) :
      \/ l \in shown.levels /\ shown.size[l] = past[shown.id][l]
      \/ \E k \in Levels : k <= l /\ Hidden(k, shown.base, shown.id)

\* As long as it is in sync the book never goes back to an earlier update; only a failure
\* of the job, which reads the same messages again, takes it back to the checkpoint.
InSyncGoesForward ==
  [][job.synced /\ job'.synced /\ restarts' = restarts => job'.lastId >= job.lastId]_vars

\* When the exchange's book stands still, the emitted book becomes the exchange's and stays
\* so, whatever was lost before: every gap is closed by some later snapshot.
BookConverges == <>[](shown # NONE /\ shown.id = Len(past) /\ job.synced)
=============================================================================
