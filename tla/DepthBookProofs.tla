-------------------------- MODULE DepthBookProofs --------------------------
(***************************************************************************)
(* Proofs about DepthBook: its types, that a book in sync is the           *)
(* exchange's, that what is emitted has its best levels, and that a book   *)
(* in sync goes forward only.  They hold for any number of levels,         *)
(* connections, updates, losses and restarts.                              *)
(***************************************************************************)
EXTENDS DepthBook, TLAPS, SequenceTheorems

\* What holds of the state of the job and of the one of the last checkpoint.
BookOK(j) ==
  j.synced => /\ j.lastId # NONE /\ j.base # NONE
              /\ j.base <= j.lastId
              /\ IsExchangeBook(j.book, j.base, j.lastId)

\* The emitted book was one in sync.
ShownOK ==
  shown # NONE => /\ shown.base <= shown.id
                  /\ IsExchangeBook(shown.size, shown.base, shown.id)
                  /\ shown.levels = Best(shown.size, TOP_N)

IInv == TypeOK /\ BookOK(job) /\ BookOK(saved) /\ ShownOK

\* The exchange's past only grows.
PastStays == Len(past) <= Len(past') /\ \A k \in Ids : past'[k] = past[k]

-----------------------------------------------------------------------------
\* The books a message speaks of are books.
LEMMA PastTyped ==
  ASSUME TypeOK, NEW k \in Ids
  PROVE  past[k] \in Books /\ k \in Nat
BY DEF TypeOK, Ids

LEMMA ListedTyped ==
  ASSUME TypeOK, NEW id \in Ids
  PROVE  Listed(id) \in Books
BY PastTyped DEF Listed, Books

LEMMA ApplyTyped ==
  ASSUME TypeOK, NEW b \in Books, NEW m \in Messages
  PROVE  Apply(b, m) \in Books
<1>1. m.last \in Ids
  BY DEF Messages, Snapshot, Diff
<1>. QED
  BY <1>1, PastTyped DEF Apply, Books

LEMMA PastGrows ==
  ASSUME TypeOK, [Next]_vars
  PROVE  PastStays
<1>1. ASSUME NEW l \in Levels, NEW q \in Quantities \cup {0}, Change(l, q)
      PROVE  PastStays
  BY <1>1 DEF Change, PastStays, TypeOK, Ids
<1>2. CASE UNCHANGED past
  BY <1>2 DEF PastStays, TypeOK
<1>. QED
  BY <1>1, <1>2 DEF Next, vars, source, Subscribe, Unsubscribe, Receive, Fetch, EmitSnapshot,
     processElement, onTimer, Checkpoint, Restore, Resubmit

\* What was said of the exchange's past stays true.
LEMMA ExchangeBookStays ==
  ASSUME TypeOK, PastStays, NEW b, NEW base \in Ids, NEW id \in Ids, IsExchangeBook(b, base, id)
  PROVE  IsExchangeBook(b, base, id)'
<1>1. past'[base] = past[base] /\ past'[id] = past[id]
  BY DEF PastStays
<1>2. Best(past'[base], Limit) = Best(past[base], Limit)
  BY <1>1
<1>3. \A k \in base..id : k \in Ids
  BY DEF Ids
<1>4. ASSUME NEW l \in Levels, Hidden(l, base, id)
      PROVE  Hidden(l, base, id)'
  BY <1>1, <1>2, <1>3, <1>4 DEF Hidden, PastStays
<1>. QED
  BY <1>1, <1>4 DEF IsExchangeBook

\* A snapshot is the exchange's book, but for the levels it does not reach.
LEMMA SnapshotIsBook ==
  ASSUME TypeOK, NEW id \in Ids
  PROVE  IsExchangeBook(Listed(id), id, id)
<1>1. id \in Nat /\ \A k \in id..id : k = id
  BY DEF Ids
<1>2. ASSUME NEW l \in Levels
      PROVE  Listed(id)[l] = past[id][l] \/ (Listed(id)[l] = 0 /\ Hidden(l, id, id))
  BY <1>1 DEF Listed, Hidden
<1>. QED
  BY <1>2 DEF IsExchangeBook

\* A batch that leaves no gap leads from the book it finds to that of its last update.
LEMMA DiffLeadsOn ==
  ASSUME TypeOK, NEW m \in Messages, NEW b, NEW base \in Ids, NEW id \in Ids,
         base <= id, IsExchangeBook(b, base, id), m.first <= id + 1, id < m.last
  PROVE  IsExchangeBook(Apply(b, m), base, m.last)
<1>1. m.last \in Ids /\ m.first \in Ids /\ m.first \in Nat /\ m.last \in Nat /\ id \in Nat /\ base \in Nat
  BY DEF Messages, Snapshot, Diff, Ids
<1>. SUFFICES ASSUME NEW l \in Levels
              PROVE  \/ Apply(b, m)[l] = past[m.last][l]
                     \/ Apply(b, m)[l] = 0 /\ Hidden(l, base, m.last)
  BY DEF IsExchangeBook
<1>2. CASE l \in Touched(m)
  BY <1>2 DEF Apply
<1>3. CASE l \notin Touched(m)
  <2>1. Apply(b, m)[l] = b[l]
    BY <1>3 DEF Apply
  <2>2. \A k \in (m.first - 1)..m.last : past[k][l] = past[m.last][l]
    BY <1>3 DEF Touched
  <2>3. past[id][l] = past[m.last][l]
    BY <2>2, <1>1
  <2>4. CASE b[l] = past[id][l]
    BY <2>1, <2>3, <2>4
  <2>5. CASE b[l] = 0 /\ Hidden(l, base, id)
    <3>1. \A k \in base..id : past[k][l] = past[base][l]
      BY <2>5 DEF Hidden
    <3>2. past[id][l] = past[base][l]
      BY <3>1, <1>1
    <3>3. \A k \in base..m.last : past[k][l] = past[base][l]
      <4>. SUFFICES ASSUME NEW k \in base..m.last
                    PROVE  past[k][l] = past[base][l]
        OBVIOUS
      <4>1. CASE k <= id
        BY <4>1, <3>1, <1>1
      <4>2. CASE id < k
        <5>1. k \in (m.first - 1)..m.last
          BY <4>2, <1>1
        <5>. QED
          BY <5>1, <2>2, <2>3, <3>2
      <4>. QED
        BY <4>1, <4>2, <1>1
    <3>4. Hidden(l, base, m.last)
      BY <2>5, <3>3 DEF Hidden
    <3>. QED
      BY <2>1, <2>5, <3>4
  <2>. QED
    BY <2>4, <2>5 DEF IsExchangeBook
<1>. QED
  BY <1>2, <1>3

-----------------------------------------------------------------------------
\* The state of the job after one message.
Handles(m) ==
  OldSnapshot(m) \/ NewSnapshot(m) \/ DropUnsynced(m) \/ DropStale(m) \/ Gap(m) \/ ApplyDiff(m)

LEMMA MessageKeepsBook ==
  ASSUME TypeOK, BookOK(job), NEW m \in Messages, Handles(m), UNCHANGED past
  PROVE  job' \in JobState /\ BookOK(job)'
<1>1. m.last \in Ids /\ m.last \in Nat
  BY DEF Messages, Snapshot, Diff, Ids
<1>2. job \in JobState
  BY DEF TypeOK
<1>3. NONE \notin Ids
  BY NoneAssumption DEF Ids
<1>4. CASE UNCHANGED job
  BY <1>2, <1>4 DEF BookOK, IsExchangeBook, Hidden
<1>5. CASE NewSnapshot(m)
  <2>1. job' = [book |-> Listed(m.last), lastId |-> m.last, synced |-> TRUE, timer |-> TRUE,
                base |-> m.last]
    BY <1>5 DEF NewSnapshot
  <2>2. job' \in JobState
    BY <2>1, <1>1, ListedTyped DEF JobState
  <2>3. IsExchangeBook(Listed(m.last), m.last, m.last)
    BY <1>1, SnapshotIsBook
  <2>4. IsExchangeBook(job.book, job.base, job.lastId)'
    BY <2>1, <2>3 DEF IsExchangeBook, Hidden
  <2>. QED
    BY <2>1, <2>2, <2>4, <1>1, <1>3 DEF BookOK
<1>6. CASE Gap(m)
  <2>1. job' = [job EXCEPT !.synced = FALSE]
    BY <1>6 DEF Gap
  <2>. QED
    BY <2>1, <1>2 DEF JobState, BookOK
<1>7. CASE ApplyDiff(m)
  <2>1. /\ job.synced /\ m.last > job.lastId /\ m.first <= job.lastId + 1
        /\ job' = [job EXCEPT !.book = Apply(job.book, m), !.lastId = m.last, !.timer = TRUE]
    BY <1>7 DEF ApplyDiff
  <2>2. /\ job.lastId \in Ids /\ job.base \in Ids /\ job.base <= job.lastId
        /\ IsExchangeBook(job.book, job.base, job.lastId) /\ job.book \in Books
    BY <2>1, <1>2 DEF BookOK, JobState
  <2>3. job.lastId \in Nat /\ job.base \in Nat
    BY <2>2 DEF Ids
  <2>4. IsExchangeBook(Apply(job.book, m), job.base, m.last)
    BY <2>1, <2>2, <2>3, <1>1, DiffLeadsOn
  <2>5. Apply(job.book, m) \in Books
    BY <2>2, ApplyTyped
  <2>6. job' \in JobState /\ job'.book = Apply(job.book, m) /\ job'.lastId = m.last /\ job'.base = job.base
    BY <2>1, <2>5, <1>1, <1>2 DEF JobState
  <2>7. job'.lastId # NONE /\ job'.base # NONE /\ job'.base <= job'.lastId
    BY <2>1, <2>2, <2>3, <2>6, <1>1, <1>3
  <2>8. IsExchangeBook(job.book, job.base, job.lastId)'
    BY <2>4, <2>6 DEF IsExchangeBook, Hidden
  <2>. QED
    BY <2>6, <2>7, <2>8 DEF BookOK
<1>. QED
  BY <1>4, <1>5, <1>6, <1>7 DEF Handles, OldSnapshot, DropUnsynced, DropStale

LEMMA BookStays ==
  ASSUME TypeOK, PastStays, NEW j \in JobState, BookOK(j)
  PROVE  BookOK(j)'
<1>. SUFFICES ASSUME j.synced
              PROVE  IsExchangeBook(j.book, j.base, j.lastId)'
  BY DEF BookOK
<1>1. j.base \in Ids /\ j.lastId \in Ids /\ IsExchangeBook(j.book, j.base, j.lastId)
  BY DEF BookOK, JobState
<1>. QED
  BY <1>1, ExchangeBookStays

-----------------------------------------------------------------------------
LEMMA InitOK == Init => IInv
<1>. SUFFICES ASSUME Init PROVE IInv
  OBVIOUS
<1>1. [l \in Levels |-> CHOOSE q \in Quantities : TRUE] \in Books
  BY ParameterAssumption DEF Books
<1>2. past \in Seq(Books) /\ past # <<>>
  BY <1>1 DEF Init
<1>3. Unsynced \in JobState
  BY DEF Unsynced, JobState, Books
<1>4. TypeOK
  BY <1>2, <1>3 DEF Init, TypeOK
<1>5. BookOK(job) /\ BookOK(saved) /\ ShownOK
  BY DEF Init, BookOK, Unsynced, ShownOK
<1>. QED
  BY <1>4, <1>5 DEF IInv

\* What the exchange and the collector do leaves the job alone.
LEMMA SourceKeepsInv ==
  ASSUME IInv,
         \/ \E l \in Levels, q \in Quantities \cup {0} : Change(l, q)
         \/ \E c \in Conns : Subscribe(c) \/ Unsubscribe(c) \/ Receive(c)
         \/ Fetch
         \/ EmitSnapshot
  PROVE  IInv'
<1>1. TypeOK /\ BookOK(job) /\ BookOK(saved) /\ ShownOK
  BY DEF IInv
<1>2. PastStays
  BY <1>1, PastGrows DEF Next
<1>3. UNCHANGED <<pos, job, saved, shown, restarts>>
  BY DEF Change, Subscribe, Unsubscribe, Receive, Fetch, EmitSnapshot
<1>4. job \in JobState /\ saved \in JobState
  BY <1>1 DEF TypeOK
<1>5. BookOK(job)' /\ BookOK(saved)'
  BY <1>1, <1>2, <1>3, <1>4, BookStays DEF BookOK
<1>6. ShownOK'
  <2>. SUFFICES ASSUME shown # NONE
                PROVE  IsExchangeBook(shown.size, shown.base, shown.id)'
    BY <1>1, <1>3 DEF ShownOK, Best
  <2>1. shown.base \in Ids /\ shown.id \in Ids
    BY <1>1 DEF TypeOK
  <2>. QED
    BY <2>1, <1>1, <1>2, <1>3, ExchangeBookStays DEF ShownOK
<1>7. past' \in Seq(Books) /\ past' # <<>>
  <2>1. ASSUME NEW l \in Levels, NEW q \in Quantities \cup {0}, Change(l, q)
        PROVE  past' \in Seq(Books) /\ past' # <<>>
    <3>1. past[Len(past)] \in Books
      BY <1>1 DEF TypeOK
    <3>2. [past[Len(past)] EXCEPT ![l] = q] \in Books
      BY <3>1 DEF Books
    <3>. QED
      BY <2>1, <3>2, <1>1, AppendProperties DEF Change, TypeOK
  <2>. QED
    BY <2>1, <1>1 DEF TypeOK, Subscribe, Unsubscribe, Receive, Fetch, EmitSnapshot
<1>8. Ids \subseteq Ids'
  BY <1>2, <1>1 DEF PastStays, Ids, TypeOK
<1>9. Messages \subseteq Messages' /\ JobState \subseteq JobState'
  BY <1>8 DEF Messages, JobState, Ids, PastStays
<1>. DEFINE TopicOK == /\ topic' \in Seq(Messages') /\ Len(topic) <= Len(topic')
                       /\ \A i \in 1..Len(topic') : topic'[i].first <= topic'[i].last
                       /\ losses' \in Nat
            SourceOK == streamed' \in [Conns -> Ids' \cup {NONE}] /\ request' \in Ids' \cup {NONE}
<1>10. TopicOK
  <2>0. /\ topic \in Seq(Messages') /\ topic \in Seq(Messages) /\ losses \in Nat
        /\ \A i \in 1..Len(topic) : topic[i].first <= topic[i].last
    BY <1>1, <1>9 DEF TypeOK
  <2>1. ASSUME NEW m \in Messages', m.first <= m.last, Produce(m)
        PROVE  TopicOK
    <3>1. CASE topic' = Append(topic, m) /\ UNCHANGED losses
      <4>1. /\ topic' \in Seq(Messages') /\ Len(topic') = Len(topic) + 1
            /\ \A i \in 1..Len(topic) : topic'[i] = topic[i]
            /\ topic'[Len(topic) + 1] = m
        BY <2>0, <3>1, AppendProperties
      <4>2. \A i \in 1..Len(topic') : topic'[i].first <= topic'[i].last
        BY <2>0, <2>1, <4>1
      <4>. QED
        BY <2>0, <3>1, <4>1, <4>2
    <3>2. CASE UNCHANGED topic /\ losses' = losses + 1
      BY <2>0, <3>2
    <3>. QED
      BY <2>1, <3>1, <3>2 DEF Produce
  <2>2. ASSUME NEW c \in Conns, Receive(c)
        PROVE  TopicOK
    <3>1. streamed[c] \in Ids /\ UNCHANGED past
      BY <2>2, <1>1 DEF Receive, TypeOK
    <3>2. PICK last \in (streamed[c] + 1)..Len(past) : Produce(Diff(streamed[c] + 1, last))
      BY <2>2 DEF Receive
    <3>3. /\ streamed[c] + 1 \in Ids \ {1} /\ last \in Ids /\ streamed[c] + 1 <= last
          /\ Ids' = Ids
      BY <3>1, <3>2, <1>1 DEF Ids, TypeOK
    <3>4. Diff(streamed[c] + 1, last) \in Messages'
      BY <3>3 DEF Messages
    <3>5. Diff(streamed[c] + 1, last).first <= Diff(streamed[c] + 1, last).last
      BY <3>3 DEF Diff
    <3>. HIDE DEF TopicOK
    <3>. QED
      BY <2>1, <3>2, <3>4, <3>5
  <2>3. ASSUME EmitSnapshot
        PROVE  TopicOK
    <3>1. request \in Ids /\ Ids' = Ids
      BY <2>3, <1>1 DEF EmitSnapshot, TypeOK, Ids
    <3>2. Snapshot(request) \in Messages'
      BY <3>1 DEF Messages
    <3>3. Produce(Snapshot(request)) /\ Snapshot(request).first <= Snapshot(request).last
      BY <2>3, <3>1 DEF EmitSnapshot, Snapshot, Ids
    <3>. HIDE DEF TopicOK
    <3>. QED
      BY <2>1, <3>2, <3>3
  <2>4. CASE UNCHANGED <<topic, losses>>
    BY <2>0, <2>4
  <2>5. \/ UNCHANGED <<topic, losses>>
        \/ EmitSnapshot
        \/ \E c \in Conns : Receive(c)
    BY DEF Change, Subscribe, Unsubscribe, Fetch
  <2>. QED
    BY <2>2, <2>3, <2>4, <2>5
<1>11. SourceOK
  <2>1. streamed \in [Conns -> Ids' \cup {NONE}] /\ request \in Ids' \cup {NONE}
    BY <1>1, <1>8 DEF TypeOK
  <2>2. Len(past) \in Ids'
    BY <1>1, <1>8 DEF TypeOK, Ids
  <2>3. ASSUME NEW c \in Conns, Receive(c)
        PROVE  SourceOK
    <3>1. streamed[c] \in Ids /\ UNCHANGED <<past, request>>
      BY <2>3, <1>1 DEF Receive, TypeOK
    <3>2. PICK last \in (streamed[c] + 1)..Len(past) : streamed' = [streamed EXCEPT ![c] = last]
      BY <2>3 DEF Receive
    <3>3. last \in Ids'
      BY <3>1, <3>2 DEF Ids
    <3>. QED
      BY <2>1, <3>1, <3>2, <3>3
  <2>4. ASSUME NEW c \in Conns, Subscribe(c) \/ Unsubscribe(c)
        PROVE  SourceOK
    <3>1. /\ UNCHANGED request
          /\ streamed' = [streamed EXCEPT ![c] = Len(past)] \/ streamed' = [streamed EXCEPT ![c] = NONE]
      BY <2>4 DEF Subscribe, Unsubscribe
    <3>. QED
      BY <2>1, <2>2, <3>1
  <2>5. CASE Fetch \/ EmitSnapshot
    BY <2>1, <2>2, <2>5 DEF Fetch, EmitSnapshot
  <2>6. CASE UNCHANGED <<streamed, request>>
    BY <2>1, <2>6
  <2>. HIDE DEF SourceOK
  <2>. QED
    BY <2>3, <2>4, <2>5, <2>6 DEF Change
<1>12. TypeOK'
  BY <1>1, <1>3, <1>7, <1>8, <1>9, <1>10, <1>11 DEF TypeOK
<1>. QED
  BY <1>5, <1>6, <1>12 DEF IInv

\* A message read, a book emitted, a checkpoint, a failure, a new job: the past is as it was.
LEMMA JobKeepsInv ==
  ASSUME IInv, processElement \/ onTimer \/ Checkpoint \/ Restore \/ Resubmit \/ UNCHANGED vars
  PROVE  IInv'
<1>1. TypeOK /\ BookOK(job) /\ BookOK(saved) /\ ShownOK
  BY DEF IInv
<1>2. UNCHANGED source
  BY DEF processElement, onTimer, Checkpoint, Restore, Resubmit, vars
<1>3. PastStays /\ Ids' = Ids /\ Messages' = Messages /\ JobState' = JobState
  BY <1>1, <1>2 DEF source, PastStays, TypeOK, Ids, Messages, JobState
<1>4. job \in JobState /\ saved \in JobState /\ Unsynced \in JobState
  BY <1>1 DEF TypeOK, Unsynced, JobState, Books
<1>5. BookOK(Unsynced)'
  BY DEF BookOK, Unsynced
<1>6. ASSUME UNCHANGED shown PROVE ShownOK'
  <2>. SUFFICES ASSUME shown # NONE
                PROVE  IsExchangeBook(shown.size, shown.base, shown.id)'
    BY <1>1, <1>6 DEF ShownOK, Best
  <2>1. shown.base \in Ids /\ shown.id \in Ids
    BY <1>1 DEF TypeOK
  <2>. QED
    BY <2>1, <1>1, <1>3, <1>6, ExchangeBookStays DEF ShownOK
<1>7. CASE processElement
  <2>1. pos \in Nat /\ pos + 1 \in 1..Len(topic) /\ topic[pos + 1] \in Messages
    BY <1>1, <1>7 DEF processElement, TypeOK
  <2>2. Handles(topic[pos + 1]) /\ UNCHANGED past
    BY <1>2, <1>7 DEF processElement, Handles, source
  <2>3. job' \in JobState /\ BookOK(job)'
    BY <1>1, <2>1, <2>2, MessageKeepsBook
  <2>4. UNCHANGED <<topic, saved, shown, losses, restarts>> /\ pos' \in 0..Len(topic)
    BY <1>7, <2>1 DEF processElement
  <2>5. BookOK(saved)' /\ ShownOK'
    BY <1>1, <1>3, <1>4, <1>6, <2>4, BookStays DEF BookOK
  <2>6. TypeOK'
    BY <1>1, <1>2, <1>3, <2>3, <2>4 DEF TypeOK, source
  <2>. QED
    BY <2>3, <2>5, <2>6 DEF IInv
<1>8. CASE onTimer
  <2>1. /\ job.synced /\ shown' = toEvent
        /\ UNCHANGED <<past, topic, pos, job, saved, losses, restarts>>
    BY <1>2, <1>8 DEF onTimer, source
  <2>2. BookOK(job)' /\ BookOK(saved)'
    BY <1>1, <1>3, <1>4, <2>1, BookStays DEF BookOK
  <2>3. /\ job.lastId \in Ids /\ job.base \in Ids /\ job.base <= job.lastId /\ job.book \in Books
        /\ IsExchangeBook(job.book, job.base, job.lastId)
    BY <1>1, <1>4, <2>1 DEF BookOK, JobState
  <2>4. Best(job.book, TOP_N) \in SUBSET Levels
    BY DEF Best
  <2>5. /\ shown'.id = job.lastId /\ shown'.base = job.base /\ shown'.size = job.book
        /\ shown'.levels = Best(job.book, TOP_N)
        /\ shown' \in [id : Ids, base : Ids, levels : SUBSET Levels, size : Books]
    BY <2>1, <2>3, <2>4 DEF toEvent
  <2>6. ShownOK'
    BY <2>1, <2>3, <2>5 DEF ShownOK, IsExchangeBook, Hidden, Best
  <2>7. TypeOK'
    BY <1>1, <1>2, <1>3, <2>1, <2>5 DEF TypeOK, source
  <2>. QED
    BY <2>2, <2>6, <2>7 DEF IInv
<1>9. CASE Checkpoint
  <2>1. /\ saved' = job /\ UNCHANGED <<past, job, shown, losses, restarts>>
        /\ topic' = SubSeq(topic, pos + 1, Len(topic)) /\ pos' = 0
    BY <1>2, <1>9 DEF Checkpoint, source
  <2>2. BookOK(job)' /\ BookOK(saved)' /\ ShownOK'
    BY <1>1, <1>3, <1>4, <1>6, <2>1, BookStays DEF BookOK
  <2>3. topic \in Seq(Messages) /\ pos \in Nat /\ pos <= Len(topic)
    BY <1>1 DEF TypeOK
  <2>4. /\ topic' \in Seq(Messages) /\ Len(topic') \in Nat
        /\ \A i \in 1..Len(topic') : i + pos \in 1..Len(topic) /\ topic'[i] = topic[i + pos]
    BY <2>1, <2>3
  <2>5. \A i \in 1..Len(topic') : topic'[i].first <= topic'[i].last
    BY <1>1, <2>4 DEF TypeOK
  <2>6. TypeOK'
    BY <1>1, <1>2, <1>3, <1>4, <2>1, <2>4, <2>5 DEF TypeOK, source
  <2>. QED
    BY <2>2, <2>6 DEF IInv
<1>10. CASE Restore
  <2>1. job' = saved /\ pos' = 0 /\ restarts' = restarts + 1
        /\ UNCHANGED <<past, topic, saved, shown, losses>>
    BY <1>2, <1>10 DEF Restore, source
  <2>2. BookOK(job)' /\ BookOK(saved)' /\ ShownOK'
    BY <1>1, <1>3, <1>4, <1>6, <2>1, BookStays DEF BookOK
  <2>3. TypeOK'
    BY <1>1, <1>2, <1>3, <1>4, <2>1 DEF TypeOK, source
  <2>. QED
    BY <2>2, <2>3 DEF IInv
<1>11. CASE Resubmit
  <2>1. job' = Unsynced /\ saved' = Unsynced /\ pos' \in {0, Len(topic)} /\ restarts' = restarts + 1
        /\ UNCHANGED <<past, topic, shown, losses>>
    BY <1>2, <1>11 DEF Resubmit, source
  <2>2. BookOK(job)' /\ BookOK(saved)' /\ ShownOK'
    BY <1>5, <1>6, <2>1 DEF BookOK
  <2>3. TypeOK'
    BY <1>1, <1>2, <1>3, <1>4, <2>1 DEF TypeOK, source
  <2>. QED
    BY <2>2, <2>3 DEF IInv
<1>12. CASE UNCHANGED vars
  <2>1. UNCHANGED <<past, topic, pos, job, saved, shown, losses, restarts>>
    BY <1>12 DEF vars, source
  <2>2. BookOK(job)' /\ BookOK(saved)' /\ ShownOK'
    BY <1>1, <1>3, <1>4, <1>6, <2>1, BookStays DEF BookOK
  <2>3. TypeOK'
    BY <1>1, <1>2, <1>3, <2>1 DEF TypeOK, source
  <2>. QED
    BY <2>2, <2>3 DEF IInv
<1>. QED
  BY <1>7, <1>8, <1>9, <1>10, <1>11, <1>12

THEOREM Invariance == Spec => []IInv
<1>1. IInv /\ [Next]_vars => IInv'
  BY SourceKeepsInv, JobKeepsInv DEF Next
<1>. QED
  BY <1>1, InitOK, PTL DEF Spec

-----------------------------------------------------------------------------
\* Every variable of collector, topic and reconstructor keeps its type, and every message
\* speaks of updates the exchange has made.
THEOREM TypeCorrect == Spec => []TypeOK
<1>1. IInv => TypeOK
  BY DEF IInv
<1>. QED
  BY <1>1, Invariance, PTL

\* However messages are lost, repeated or overtaken and whenever the job fails or is submitted
\* again, a book in sync is the exchange's book at the update it names, but for levels its
\* snapshot did not reach.
THEOREM SyncedIsTrue == Spec => []SyncedBookIsExchanges
<1>1. IInv => SyncedBookIsExchanges
  BY DEF IInv, BookOK, SyncedBookIsExchanges
<1>. QED
  BY <1>1, Invariance, PTL

\* Every emitted book has the exchange's best levels, unless the snapshot did not reach them.
THEOREM ShownIsTrue == Spec => []ShownIsBest
<1>1. IInv => ShownIsBest
  <2>. SUFFICES ASSUME IInv, shown # NONE, NEW l \in Best(past[shown.id], TOP_N),
                       \A k \in Levels : k <= l => ~Hidden(k, shown.base, shown.id)
                PROVE  l \in shown.levels /\ shown.size[l] = past[shown.id][l]
    BY DEF ShownIsBest
  <2>1. IsExchangeBook(shown.size, shown.base, shown.id) /\ shown.levels = Best(shown.size, TOP_N)
    BY DEF IInv, ShownOK
  <2>2. l \in Levels /\ Levels \subseteq Nat
    BY ParameterAssumption DEF Best
  <2>3. \A k \in Levels : k <= l => shown.size[k] = past[shown.id][k]
    BY <2>1 DEF IsExchangeBook
  <2>4. shown.size[l] = past[shown.id][l]
    BY <2>2, <2>3
  <2>5. {k \in Levels : k <= l /\ shown.size[k] # 0} = {k \in Levels : k <= l /\ past[shown.id][k] # 0}
    BY <2>3
  <2>6. l \in Best(shown.size, TOP_N)
    BY <2>2, <2>4, <2>5 DEF Best
  <2>. QED
    BY <2>1, <2>4, <2>6
<1>. QED
  BY <1>1, Invariance, PTL

\* A book in sync never goes back to an earlier update, unless the job has failed.
THEOREM NeverBack == Spec => InSyncGoesForward
<1>1. IInv /\ [Next]_vars => [job.synced /\ job'.synced /\ restarts' = restarts => job'.lastId >= job.lastId]_vars
  <2>. SUFFICES ASSUME IInv, Next, job.synced, job'.synced, restarts' = restarts
                PROVE  job'.lastId >= job.lastId
    BY DEF vars
  <2>1. job.lastId \in Nat /\ job.lastId # NONE /\ restarts \in Nat /\ job \in JobState
    BY DEF IInv, BookOK, TypeOK, JobState, Ids
  <2>2. CASE UNCHANGED job
    BY <2>1, <2>2
  <2>3. CASE processElement
    <3>1. PICK m \in Messages : Handles(m)
      BY <2>3 DEF processElement, IInv, TypeOK, Handles
    <3>2. m.last \in Nat
      BY DEF Messages, Snapshot, Diff, Ids
    <3>3. CASE NewSnapshot(m)
      BY <2>1, <3>2, <3>3 DEF NewSnapshot
    <3>4. CASE ApplyDiff(m)
      BY <2>1, <3>2, <3>4 DEF ApplyDiff, JobState
    <3>5. CASE Gap(m)
      BY <2>1, <3>5 DEF Gap, JobState
    <3>. QED
      BY <2>2, <3>1, <3>3, <3>4, <3>5 DEF Handles, OldSnapshot, DropUnsynced, DropStale
  <2>4. UNCHANGED job \/ processElement \/ restarts' = restarts + 1
    BY DEF Next, Change, Subscribe, Unsubscribe, Receive, Fetch, EmitSnapshot, onTimer, Checkpoint,
       Restore, Resubmit
  <2>. QED
    BY <2>1, <2>2, <2>3, <2>4
<1>. QED
  BY <1>1, Invariance, PTL DEF Spec, InSyncGoesForward
=============================================================================
