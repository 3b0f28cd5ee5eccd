--------------------------- MODULE TradeCdcProofs ---------------------------
(***************************************************************************)
(* Proofs about TradeCdc: its types, that what is committed is stored,     *)
(* that the rows of new code stay, and that a reprocessing which says      *)
(* "passed" has rewritten its rows.  They hold for any number of trades,   *)
(* messages, faults and submissions.                                       *)
(***************************************************************************)
EXTENDS TradeCdc, TLAPS, SequenceTheorems

Messages == [trade : Trades \cup {NONE}, shape : Shapes, at : Nat]
Rows == [ts : Nat, code : Nat]
Jobs == [up : BOOLEAN, pos : Nat, buffer : SUBSET Nat, failed : SUBSET Nat,
         tries : Nat, restarts : Nat, code : Nat]

\* A reprocessing while it runs.
Running == [state |-> "running", before |-> repro.before, start |-> repro.start,
            code |-> repro.code, pos |-> repro.pos, stop |-> repro.stop]

TypeOK ==
  /\ exchange \in {"upbit", "binance"}
  /\ now \in Nat
  /\ topic \in Seq(Messages)
  /\ \A i \in 1..Len(topic) : topic[i].shape = "trade" => topic[i].trade \in Trades
  /\ job \in Jobs
  /\ saved \in Nat \cup {NONE}
  /\ committed \in Nat \cup {NONE}
  /\ \A b \in inFlight : b.ts \in Nat /\ b.code \in Nat
  /\ table \in [Trades -> Rows \cup {NONE}]
  /\ jar \in Nat
  /\ repro.state \in {"idle", "running", "judged"}
  /\ repro.state = "running" => repro = Running /\ repro.code \in Nat /\ repro.start \in Nat
  /\ repro.state = "judged" => repro.code \in Nat /\ repro.rows \subseteq Trades

\* Every record up to a position is handled, left out, or still in the job's memory.
Covered(pos, pending) == \A i \in (1..pos) \ skipped : Handled(i) \/ i \in pending

PositionOK(pos) == pos # NONE => pos <= Len(topic) /\ Covered(pos, {})

PositionInv ==
  /\ job.pos <= Len(topic)
  /\ Covered(job.pos, job.buffer \cup job.failed)
  /\ PositionOK(saved)
  /\ PositionOK(committed)

PendingInv ==
  /\ \A i \in job.buffer : i \in 1..Len(topic) /\ Outcome(i) = "row"
  /\ \A i \in job.failed : i \in 1..Len(topic) /\ Outcome(i) = "dlq"

SkippedInv == exchange = "binance" => skipped = {}

IInv == TypeOK /\ PositionInv /\ PendingInv /\ SkippedInv

-----------------------------------------------------------------------------
(* The table.                                                               *)

\* An INSERT leaves a table.
LEMMA WithTyped ==
  ASSUME TypeOK, NEW trades, NEW ts \in Nat, NEW code \in Nat
  PROVE  With(table, trades, ts, code) \in [Trades -> Rows \cup {NONE}]
BY DEF TypeOK, With, Winner, Rows

\* A row after an INSERT is the old one or, if that is not newer, the one of the INSERT.
LEMMA WithRow ==
  ASSUME TypeOK, NEW trades, NEW ts \in Nat, NEW code \in Nat, NEW t \in Trades
  PROVE  /\ \/ With(table, trades, ts, code)[t] = table[t]
            \/ /\ With(table, trades, ts, code)[t] = [ts |-> ts, code |-> code]
               /\ t \in trades
               /\ table[t] # NONE => table[t].ts <= ts
         /\ t \in trades => With(table, trades, ts, code)[t] # NONE
<1>1. [ts |-> ts, code |-> code] # NONE
  BY NoneAssumption
<1>2. table[t] # NONE => table[t] \in Rows
  BY DEF TypeOK
<1>. QED
  BY <1>1, <1>2 DEF With, Winner, Rows

\* The statement a step executes on the table, if any: one of the live job, one of the
\* reprocessing, or one the client has given up.
Inserts(ts, code) ==
  \/ ts = now /\ code = job.code
  \/ ts = now /\ repro.state = "running" /\ code = repro.code
  \/ \E b \in inFlight : ts = b.ts /\ code = b.code

LEMMA TableStep ==
  ASSUME TypeOK, Next
  PROVE  \/ table' = table
         \/ \E trades : \E ts, code \in Nat :
              Inserts(ts, code) /\ table' = With(table, trades, ts, code)
<1>1. job.code \in Nat /\ now \in Nat
  BY DEF TypeOK, Jobs
<1>2. CASE Flush \/ Checkpoint \/ Redeploy
  <2>1. table' = With(table, TradesOf(job.buffer), now, job.code)
    BY <1>2 DEF Flush, Checkpoint, Redeploy
  <2>. QED
    BY <1>1, <2>1 DEF Inserts
<1>3. CASE ReprocessStep
  <2>1. repro.state = "running" /\ repro.code \in Nat
    BY <1>3 DEF ReprocessStep, TypeOK
  <2>2. table' = table \/ table' = With(table, TradesOf({repro.pos + 1}), now, repro.code)
    BY <1>3 DEF ReprocessStep
  <2>. QED
    BY <1>1, <2>1, <2>2 DEF Inserts
<1>4. ASSUME NEW b \in inFlight, ExecuteLate(b)
      PROVE  \E trades : \E ts, code \in Nat :
               Inserts(ts, code) /\ table' = With(table, trades, ts, code)
  <2>1. b.ts \in Nat /\ b.code \in Nat
    BY DEF TypeOK
  <2>2. table' = With(table, b.trades, b.ts, b.code)
    BY <1>4 DEF ExecuteLate
  <2>. QED
    BY <2>1, <2>2 DEF Inserts
<1>5. CASE UNCHANGED table
  BY <1>5
<1>. QED
  BY <1>2, <1>3, <1>4, <1>5
  DEF Next, Tick, Arrive, Read, FlushFails, Acknowledge, Commit, Fail, Restart, Submit,
      Reprocess, Judge

\* A row once there is never gone.
LEMMA RowsStay ==
  ASSUME TypeOK, Next, NEW t \in Trades, table[t] # NONE
  PROVE  table'[t] # NONE
<1>1. CASE table' = table
  BY <1>1
<1>2. ASSUME NEW trades, NEW ts \in Nat, NEW code \in Nat, table' = With(table, trades, ts, code)
      PROVE  table'[t] # NONE
  <2>1. [ts |-> ts, code |-> code] # NONE
    BY NoneAssumption
  <2>2. \/ With(table, trades, ts, code)[t] = table[t]
        \/ With(table, trades, ts, code)[t] = [ts |-> ts, code |-> code]
    BY WithRow
  <2>3. With(table, trades, ts, code)[t] # NONE
    BY <2>1, <2>2
  <2>. QED
    BY <1>2, <2>3
<1>. QED
  BY <1>1, <1>2, TableStep

-----------------------------------------------------------------------------
(* Types.                                                                   *)

\* A start reads from the log, or from its end on.
LEMMA StartTyped ==
  ASSUME TypeOK
  PROVE  StartOffset \in Nat
BY LenProperties DEF TypeOK, StartOffset, UpbitStart, BinanceStart

LEMMA NewJobTyped ==
  ASSUME NEW code \in Nat, NEW pos \in Nat, NEW n \in Nat
  PROVE  /\ [NewJob(code) EXCEPT !.pos = pos] \in Jobs
         /\ [NewJob(code) EXCEPT !.pos = pos, !.restarts = n] \in Jobs
BY DEF NewJob, Jobs

LEMMA TableTyped ==
  ASSUME TypeOK, Next
  PROVE  table' \in [Trades -> Rows \cup {NONE}]
<1>1. CASE table' = table
  BY <1>1 DEF TypeOK
<1>2. ASSUME NEW trades, NEW ts \in Nat, NEW code \in Nat, table' = With(table, trades, ts, code)
      PROVE  table' \in [Trades -> Rows \cup {NONE}]
  BY <1>2, WithTyped
<1>. QED
  BY <1>1, <1>2, TableStep

LEMMA TopicTyped ==
  ASSUME TypeOK, Next
  PROVE  /\ topic' \in Seq(Messages)
         /\ Len(topic') \in Nat /\ Len(topic) \in Nat /\ Len(topic) <= Len(topic')
         /\ \A i \in 1..Len(topic) : topic'[i] = topic[i]
         /\ \A i \in 1..Len(topic') : topic'[i].shape = "trade" => topic'[i].trade \in Trades
<1>1. ASSUME NEW t \in Trades \cup {NONE}, NEW shape \in Shapes, Arrive(t, shape)
      PROVE  /\ topic' \in Seq(Messages)
             /\ Len(topic') = Len(topic) + 1
             /\ \A i \in 1..Len(topic) : topic'[i] = topic[i]
             /\ topic'[Len(topic) + 1] = [trade |-> t, shape |-> shape, at |-> now]
             /\ shape = "trade" => t \in Trades
  <2>1. topic' = Append(topic, [trade |-> t, shape |-> shape, at |-> now])
    BY <1>1 DEF Arrive
  <2>2. [trade |-> t, shape |-> shape, at |-> now] \in Messages
    BY DEF Messages, TypeOK
  <2>3. shape = "trade" => t \in Trades
    BY <1>1 DEF Arrive
  <2>. QED
    BY <2>1, <2>2, <2>3, AppendProperties DEF TypeOK
<1>2. CASE UNCHANGED topic
  BY <1>2, LenProperties DEF TypeOK
<1>3. Len(topic) \in Nat
  BY LenProperties DEF TypeOK
<1>4. ASSUME NEW t \in Trades \cup {NONE}, NEW shape \in Shapes, Arrive(t, shape)
      PROVE  /\ topic' \in Seq(Messages)
             /\ Len(topic') \in Nat /\ Len(topic) \in Nat /\ Len(topic) <= Len(topic')
             /\ \A i \in 1..Len(topic) : topic'[i] = topic[i]
             /\ \A i \in 1..Len(topic') : topic'[i].shape = "trade" => topic'[i].trade \in Trades
  <2>1. Len(topic') = Len(topic) + 1 /\ topic' \in Seq(Messages)
    BY <1>1, <1>4
  <2>2. ASSUME NEW i \in 1..Len(topic'), topic'[i].shape = "trade"
        PROVE  topic'[i].trade \in Trades
    <3>1. CASE i \in 1..Len(topic)
      <4>1. topic'[i] = topic[i]
        BY <1>1, <1>4, <3>1
      <4>. QED
        BY <2>2, <3>1, <4>1 DEF TypeOK
    <3>2. CASE i = Len(topic) + 1
      <4>1. topic'[i] = [trade |-> t, shape |-> shape, at |-> now] /\ (shape = "trade" => t \in Trades)
        BY <1>1, <1>4, <3>2
      <4>. QED
        BY <2>2, <4>1
    <3>. QED
      BY <1>3, <2>1, <3>1, <3>2
  <2>3. \A i \in 1..Len(topic) : topic'[i] = topic[i]
    BY <1>1, <1>4
  <2>. QED
    BY <1>3, <2>1, <2>2, <2>3
<1>. QED
  BY <1>2, <1>4
  DEF Next, log, Tick, Read, Flush, FlushFails, ExecuteLate, Acknowledge, Checkpoint, Commit, Fail,
      Restart, Redeploy, Submit, Reprocess, ReprocessStep, Judge

LEMMA JobTyped ==
  ASSUME TypeOK, Next
  PROVE  /\ job' \in Jobs /\ jar' \in Nat
         /\ saved' \in Nat \cup {NONE} /\ committed' \in Nat \cup {NONE}
<1>1. job \in Jobs /\ jar \in Nat /\ job.code \in Nat /\ job.pos \in Nat /\ job.restarts \in Nat
  BY DEF TypeOK, Jobs
<1>2. saved \in Nat \cup {NONE} /\ committed \in Nat \cup {NONE}
  BY DEF TypeOK
<1>3. CASE Read
  <2>1. job.pos + 1 \in Nat
    BY <1>1
  <2>2. job' \in Jobs
    BY <1>1, <1>3, <2>1 DEF Read, Jobs
  <2>. QED
    BY <1>1, <1>2, <1>3, <2>2 DEF Read, kept
<1>4. CASE Flush \/ Acknowledge \/ Checkpoint
  <2>1. job' = [job EXCEPT !.buffer = {}, !.tries = 0] \/ job' = [job EXCEPT !.failed = {}]
          \/ job' = [job EXCEPT !.buffer = {}, !.failed = {}, !.tries = 0]
    BY <1>4 DEF Flush, Acknowledge, Checkpoint
  <2>2. /\ [job EXCEPT !.buffer = {}, !.tries = 0] \in Jobs
        /\ [job EXCEPT !.failed = {}] \in Jobs
        /\ [job EXCEPT !.buffer = {}, !.failed = {}, !.tries = 0] \in Jobs
    BY <1>1 DEF Jobs
  <2>3. job' \in Jobs
    BY <2>1, <2>2
  <2>. QED
    BY <1>1, <1>2, <1>4, <2>3 DEF Flush, Acknowledge, Checkpoint, kept
<1>5. CASE FlushFails \/ Fail \/ Commit
  <2>1. job' = [job EXCEPT !.tries = @ + 1] \/ job' = [job EXCEPT !.up = FALSE] \/ job' = job
    BY <1>5 DEF FlushFails, Fail, Commit
  <2>2. job.tries + 1 \in Nat
    BY <1>1 DEF Jobs
  <2>3. [job EXCEPT !.tries = job.tries + 1] \in Jobs
    BY <1>1, <2>2 DEF Jobs
  <2>4. [job EXCEPT !.up = FALSE] \in Jobs
    BY <1>1 DEF Jobs
  <2>5. job' \in Jobs
    BY <1>1, <2>1, <2>3, <2>4
  <2>. QED
    BY <1>1, <1>2, <1>5, <2>5 DEF FlushFails, Fail, Commit, kept
<1>9. CASE Restart
  <2>1. PICK pos \in Nat : job' = [NewJob(job.code) EXCEPT !.pos = pos, !.restarts = job.restarts + 1]
    BY <1>2, <1>9, StartTyped DEF Restart
  <2>2. job.restarts + 1 \in Nat
    BY <1>1
  <2>3. job' \in Jobs
    BY <1>1, <2>1, <2>2, NewJobTyped
  <2>. QED
    BY <1>1, <1>2, <1>9, <2>3 DEF Restart
<1>6. CASE Redeploy
  <2>1. jar' \in Nat /\ job' = [NewJob(jar') EXCEPT !.pos = job.pos]
    BY <1>1, <1>6 DEF Redeploy
  <2>2. job' \in Jobs
    BY <1>1, <2>1 DEF NewJob, Jobs
  <2>. QED
    BY <1>1, <1>2, <1>6, <2>1, <2>2 DEF Redeploy
<1>7. CASE Submit
  <2>1. job' \in Jobs
    BY <1>1, <1>7, StartTyped, NewJobTyped DEF Submit
  <2>. QED
    BY <1>1, <1>2, <1>7, <2>1 DEF Submit
<1>8. CASE UNCHANGED <<job, jar, saved, committed>>
  BY <1>1, <1>2, <1>8
<1>. QED
  BY <1>3, <1>4, <1>5, <1>6, <1>7, <1>8, <1>9
  DEF Next, kept, Tick, Arrive, ExecuteLate, Reprocess, ReprocessStep, Judge

LEMMA InFlightTyped ==
  ASSUME TypeOK, Next
  PROVE  /\ now' \in Nat /\ now <= now'
         /\ \A b \in inFlight' : b \in inFlight \/ b = Batch
         /\ \A b \in inFlight' : b.ts \in Nat /\ b.code \in Nat
<1>1. Batch.ts = now /\ Batch.code = job.code /\ now \in Nat /\ job.code \in Nat
  BY DEF Batch, TypeOK, Jobs
<1>2. now' = now \/ now' = now + 1
  BY DEF Next, Tick, Arrive, Read, Flush, FlushFails, ExecuteLate, Acknowledge, Checkpoint, Commit,
         Fail, Restart, Redeploy, Submit, Reprocess, ReprocessStep, Judge
<1>3. \A b \in inFlight' : b \in inFlight \/ b = Batch
  <2>1. inFlight' \subseteq inFlight \cup {Batch}
    BY DEF Next, Tick, Arrive, Read, Flush, FlushFails, ExecuteLate, Acknowledge, Checkpoint,
           Commit, Fail, Restart, Redeploy, Submit, Reprocess, ReprocessStep, Judge
  <2>. QED
    BY <2>1
<1>. QED
  BY <1>1, <1>2, <1>3 DEF TypeOK

\* What becomes of the reprocessing.
LEMMA ReproTyped ==
  ASSUME TypeOK, Next
  PROVE  /\ repro'.state \in {"idle", "running", "judged"}
         /\ repro'.state = "running" => repro' = Running' /\ repro'.code \in Nat /\ repro'.start \in Nat
         /\ repro'.state = "judged" => repro'.code \in Nat /\ repro'.rows \subseteq Trades
<1>1. CASE Reprocess
  BY <1>1 DEF Reprocess, Running, TypeOK
<1>2. CASE ReprocessStep
  <2>1. repro = Running /\ repro.state = "running"
    BY <1>2 DEF ReprocessStep, TypeOK
  <2>2. repro' = [Running EXCEPT !.pos = repro.pos + 1]
    BY <1>2, <2>1 DEF ReprocessStep
  <2>. QED
    BY <2>1, <2>2 DEF Running, TypeOK
<1>3. CASE Judge
  <2>1. repro.state = "running" /\ repro.code \in Nat
    BY <1>3 DEF Judge, TypeOK
  <2>2. repro' = [state |-> "judged", verdict |-> Verdict, rows |-> Stored, code |-> repro.code]
    BY <1>3 DEF Judge
  <2>. QED
    BY <2>1, <2>2 DEF Stored
<1>4. CASE UNCHANGED repro
  BY <1>4 DEF TypeOK, Running
<1>. QED
  BY <1>1, <1>2, <1>3, <1>4
  DEF Next, Tick, Arrive, Read, Flush, FlushFails, ExecuteLate, Acknowledge, Checkpoint, Commit,
      Fail, Restart, Redeploy, Submit

LEMMA ExchangeStays ==
  ASSUME Next
  PROVE  exchange' = exchange
BY DEF Next, log, Tick, Arrive, Read, Flush, FlushFails, ExecuteLate, Acknowledge, Checkpoint,
       Commit, Fail, Restart, Redeploy, Submit, Reprocess, ReprocessStep, Judge

LEMMA TypeStep ==
  ASSUME TypeOK, [Next]_vars
  PROVE  TypeOK'
<1>1. CASE Next
  BY <1>1, TableTyped, TopicTyped, JobTyped, InFlightTyped, ReproTyped, ExchangeStays DEF TypeOK
<1>2. CASE UNCHANGED vars
  BY <1>2 DEF vars, log, kept, TypeOK, Running
<1>. QED
  BY <1>1, <1>2

LEMMA InitTyped ==
  ASSUME Init
  PROVE  TypeOK
BY DEF Init, TypeOK, NewJob, Jobs

\* Every state is typed.
THEOREM TypeCorrect == Spec => []TypeOK
BY InitTyped, TypeStep, PTL DEF Spec

-----------------------------------------------------------------------------
(* What is committed is stored.                                             *)

\* A record is never taken for something else.
LEMMA OutcomeStays ==
  ASSUME TypeOK, Next, NEW i \in 1..Len(topic)
  PROVE  Outcome(i)' = Outcome(i)
BY ExchangeStays, TopicTyped DEF Outcome

\* The dead letter topic and the offsets left out only grow.
LEMMA KeptStays ==
  ASSUME Next
  PROVE  dlq \subseteq dlq' /\ skipped \subseteq skipped'
BY DEF Next, kept, Tick, Arrive, Read, Flush, FlushFails, ExecuteLate, Acknowledge, Checkpoint,
       Commit, Fail, Restart, Redeploy, Submit, Reprocess, ReprocessStep, Judge

\* A record that becomes a row is one of a trade.
LEMMA RowOfTrade ==
  ASSUME TypeOK, NEW i \in 1..Len(topic), Outcome(i) = "row"
  PROVE  topic[i].trade \in Trades
BY DEF Outcome, UpbitOutcome, BinanceOutcome, TypeOK

LEMMA HandledStays ==
  ASSUME TypeOK, Next, NEW i \in 1..Len(topic), Handled(i)
  PROVE  Handled(i)'
<1>1. topic'[i] = topic[i] /\ i \in 1..Len(topic')
  BY TopicTyped
<1>2. CASE Outcome(i) = "row" /\ table[topic[i].trade] # NONE
  <2>1. table'[topic[i].trade] # NONE
    BY <1>2, RowOfTrade, RowsStay
  <2>. QED
    BY <1>1, <1>2, <2>1, OutcomeStays DEF Handled
<1>3. CASE Outcome(i) = "dlq" /\ i \in dlq
  BY <1>3, OutcomeStays, KeptStays DEF Handled
<1>4. CASE Outcome(i) = "skip"
  BY <1>4, OutcomeStays DEF Handled
<1>. QED
  BY <1>2, <1>3, <1>4 DEF Handled

\* So a position that is fine stays fine.
LEMMA PositionStays ==
  ASSUME TypeOK, Next, NEW pos \in Nat, pos # NONE, PositionOK(pos)
  PROVE  pos <= Len(topic') /\ \A i \in (1..pos) \ skipped' : Handled(i)'
<1>1. pos <= Len(topic) /\ pos <= Len(topic') /\ Len(topic) \in Nat
  BY TopicTyped DEF PositionOK
<1>2. ASSUME NEW i \in (1..pos) \ skipped'
      PROVE  Handled(i)'
  <2>1. i \in (1..pos) \ skipped /\ i \in 1..Len(topic)
    BY <1>1, KeptStays
  <2>2. Handled(i)
    BY <2>1 DEF PositionOK, Covered
  <2>. QED
    BY <2>1, <2>2, HandledStays
<1>. QED
  BY <1>1, <1>2

\* After an INSERT of the batch its records are handled; after the dead letters are
\* acknowledged, those are.
LEMMA FlushHandles ==
  ASSUME IInv, Next, NEW i \in job.buffer, table' = With(table, TradesOf(job.buffer), now, job.code)
  PROVE  Handled(i)'
<1>1. TypeOK /\ i \in 1..Len(topic) /\ Outcome(i) = "row"
  BY DEF IInv, PendingInv
<1>2. topic[i].trade \in Trades /\ topic[i].trade \in TradesOf(job.buffer)
  BY <1>1, RowOfTrade DEF TradesOf
<1>3. now \in Nat /\ job.code \in Nat
  BY <1>1 DEF TypeOK, Jobs
<1>4. With(table, TradesOf(job.buffer), now, job.code)[topic[i].trade] # NONE
  <2>. DEFINE t == topic[i].trade
              trades == TradesOf(job.buffer)
  <2>1. [ts |-> now, code |-> job.code] # NONE
    BY <1>3, NoneAssumption
  <2>2. With(table, trades, now, job.code)[t] = Winner(table[t], [ts |-> now, code |-> job.code])
    BY <1>2 DEF With
  <2>. QED
    BY <2>1, <2>2 DEF Winner
<1>5. topic'[i] = topic[i]
  BY <1>1, TopicTyped
<1>. QED
  BY <1>1, <1>4, <1>5, OutcomeStays DEF Handled

LEMMA AcknowledgeHandles ==
  ASSUME IInv, Next, NEW i \in job.failed, job.failed \subseteq dlq'
  PROVE  Handled(i)'
<1>1. TypeOK /\ i \in 1..Len(topic) /\ Outcome(i) = "dlq"
  BY DEF IInv, PendingInv
<1>. QED
  BY <1>1, OutcomeStays DEF Handled

\* Where a start begins, everything before is handled or left out by it.
LEMMA StartCovered ==
  ASSUME IInv
  PROVE  /\ StartOffset \in Nat /\ StartOffset <= Len(topic)
         /\ \A i \in (1..StartOffset) \ (skipped \cup LeftOut) : Handled(i)
         /\ exchange = "binance" => LeftOut = {}
<1>1. TypeOK /\ Len(topic) \in Nat
  BY LenProperties DEF IInv, TypeOK
<1>2. CASE committed # NONE
  <2>1. StartOffset = committed /\ LeftOut = {} /\ committed \in Nat
    BY <1>1, <1>2 DEF StartOffset, UpbitStart, BinanceStart, LeftOut, TypeOK
  <2>2. committed <= Len(topic) /\ Covered(committed, {})
    BY <1>2 DEF IInv, PositionInv, PositionOK
  <2>. QED
    BY <2>1, <2>2 DEF Covered
<1>3. CASE committed = NONE
  <2>1. LeftOut = 1..StartOffset
    BY <1>3 DEF LeftOut
  <2>2. StartOffset = Len(topic) \/ StartOffset = 0
    BY <1>3 DEF StartOffset, UpbitStart, BinanceStart
  <2>3. exchange = "binance" => StartOffset = 0
    BY <1>3 DEF StartOffset, BinanceStart
  <2>. QED
    BY <1>1, <2>1, <2>2, <2>3
<1>. QED
  BY <1>2, <1>3

\* The memory of a job: what holds of it.
MemoryOK(j) ==
  /\ j.pos <= Len(topic)
  /\ Covered(j.pos, j.buffer \cup j.failed)
  /\ \A i \in j.buffer : i \in 1..Len(topic) /\ Outcome(i) = "row"
  /\ \A i \in j.failed : i \in 1..Len(topic) /\ Outcome(i) = "dlq"

\* A job whose memory only lost what is handled now is fine.
LEMMA MemoryStays ==
  ASSUME IInv, Next, job'.pos = job.pos,
         job'.buffer \subseteq job.buffer, job'.failed \subseteq job.failed,
         \A i \in (job.buffer \ job'.buffer) \cup (job.failed \ job'.failed) : Handled(i)'
  PROVE  MemoryOK(job)'
<1>1. TypeOK /\ job.pos \in Nat /\ job.pos <= Len(topic) /\ Len(topic) \in Nat
        /\ Len(topic') \in Nat /\ Len(topic) <= Len(topic')
  BY TopicTyped DEF IInv, PositionInv, TypeOK, Jobs
<1>2. ASSUME NEW i \in (1..job.pos) \ skipped'
      PROVE  Handled(i)' \/ i \in job'.buffer \cup job'.failed
  <2>1. i \in 1..Len(topic) /\ i \in (1..job.pos) \ skipped
    BY <1>1, KeptStays
  <2>2. Handled(i) \/ i \in job.buffer \cup job.failed
    BY <2>1 DEF IInv, PositionInv, Covered
  <2>. QED
    BY <1>1, <2>1, <2>2, HandledStays
<1>3. ASSUME NEW i \in job'.buffer
      PROVE  i \in 1..Len(topic') /\ Outcome(i)' = "row"
  <2>1. i \in 1..Len(topic) /\ Outcome(i) = "row"
    BY DEF IInv, PendingInv
  <2>. QED
    BY <1>1, <2>1, OutcomeStays
<1>4. ASSUME NEW i \in job'.failed
      PROVE  i \in 1..Len(topic') /\ Outcome(i)' = "dlq"
  <2>1. i \in 1..Len(topic) /\ Outcome(i) = "dlq"
    BY DEF IInv, PendingInv
  <2>. QED
    BY <1>1, <2>1, OutcomeStays
<1>. QED
  BY <1>1, <1>2, <1>3, <1>4 DEF MemoryOK, Covered

\* A job that starts at a position that is fine is fine.
LEMMA FreshMemory ==
  ASSUME IInv, Next, NEW pos \in Nat, pos <= Len(topic),
         job'.pos = pos, job'.buffer = {}, job'.failed = {},
         \A i \in (1..pos) \ skipped' : Handled(i)
  PROVE  MemoryOK(job)'
<1>1. TypeOK /\ Len(topic) \in Nat /\ Len(topic') \in Nat /\ Len(topic) <= Len(topic')
  BY TopicTyped DEF IInv
<1>2. ASSUME NEW i \in (1..pos) \ skipped'
      PROVE  Handled(i)'
  BY <1>1, <1>2, HandledStays
<1>. QED
  BY <1>1, <1>2 DEF MemoryOK, Covered

\* The position a step keeps, in the checkpoint or in the group.
LEMMA SavedStays ==
  ASSUME IInv, Next, saved' = saved
  PROVE  PositionOK(saved)'
<1>1. TypeOK /\ PositionOK(saved) /\ saved \in Nat \cup {NONE}
  BY DEF IInv, PositionInv, TypeOK
<1>2. \A pos \in Nat : pos # NONE /\ PositionOK(pos) =>
        pos <= Len(topic') /\ \A i \in (1..pos) \ skipped' : Handled(i)'
  BY <1>1, PositionStays
<1>. QED
  BY <1>1, <1>2 DEF PositionOK, Covered

LEMMA CommittedStays ==
  ASSUME IInv, Next, committed' = committed
  PROVE  PositionOK(committed)'
<1>1. TypeOK /\ PositionOK(committed) /\ committed \in Nat \cup {NONE}
  BY DEF IInv, PositionInv, TypeOK
<1>2. \A pos \in Nat : pos # NONE /\ PositionOK(pos) =>
        pos <= Len(topic') /\ \A i \in (1..pos) \ skipped' : Handled(i)'
  BY <1>1, PositionStays
<1>. QED
  BY <1>1, <1>2 DEF PositionOK, Covered

\* The parts of the invariant a step has to establish again.
Parts == MemoryOK(job)' /\ PositionOK(saved)' /\ PositionOK(committed)' /\ SkippedInv'

LEMMA ReadStep ==
  ASSUME IInv, Next, Read
  PROVE  Parts
<1>1. TypeOK /\ SkippedInv /\ job \in Jobs /\ job.pos \in Nat /\ Len(topic) \in Nat
  BY LenProperties DEF IInv, TypeOK, Jobs
<1>. DEFINE i == job.pos + 1
<1>2. /\ topic' = topic /\ skipped' = skipped /\ i \in 1..Len(topic)
      /\ saved' = saved /\ committed' = committed
  BY <1>1 DEF Read, log, kept
<1>3. /\ job'.pos = i
      /\ job'.buffer = IF Outcome(i) = "row" THEN job.buffer \cup {i} ELSE job.buffer
      /\ job'.failed = IF Outcome(i) = "dlq" THEN job.failed \cup {i} ELSE job.failed
  BY <1>1 DEF Read, Jobs
<1>4. Outcome(i) \in {"row", "dlq", "skip"}
  BY DEF Outcome, UpbitOutcome, BinanceOutcome
<1>5. \A k \in 1..Len(topic) : (Handled(k) => Handled(k)') /\ Outcome(k)' = Outcome(k)
  BY <1>1, HandledStays, OutcomeStays
<1>6. ASSUME NEW k \in (1..i) \ skipped
      PROVE  Handled(k)' \/ k \in job'.buffer \cup job'.failed
  <2>1. CASE k \in 1..job.pos
    <3>1. Handled(k) \/ k \in job.buffer \cup job.failed
      BY <2>1, <1>6 DEF IInv, PositionInv, Covered
    <3>2. k \in 1..Len(topic)
      BY <1>1, <1>2
    <3>. QED
      BY <1>3, <1>5, <3>1, <3>2
  <2>2. CASE k = i
    <3>1. CASE Outcome(i) = "skip"
      <4>1. Handled(i)
        BY <3>1 DEF Handled
      <4>. QED
        BY <1>2, <1>5, <2>2, <4>1
    <3>2. CASE Outcome(i) # "skip"
      BY <1>3, <1>4, <2>2, <3>2
    <3>. QED
      BY <3>1, <3>2
  <2>. QED
    BY <1>1, <2>1, <2>2
<1>7. /\ \A k \in job'.buffer : k \in 1..Len(topic) /\ Outcome(k) = "row"
      /\ \A k \in job'.failed : k \in 1..Len(topic) /\ Outcome(k) = "dlq"
  BY <1>2, <1>3 DEF IInv, PendingInv
<1>8. MemoryOK(job)'
  <2>1. i <= Len(topic)
    BY <1>1, <1>2
  <2>. QED
    BY <1>2, <1>3, <1>5, <1>6, <1>7, <2>1 DEF MemoryOK, Covered
<1>. QED
  BY <1>1, <1>2, <1>8, SavedStays, CommittedStays, ExchangeStays DEF Parts, SkippedInv

\* Steps that write the batch, or acknowledge the dead letters, or do both.
LEMMA WriteStep ==
  ASSUME IInv, Next, Flush \/ Acknowledge \/ Checkpoint \/ Redeploy
  PROVE  Parts
<1>1. TypeOK /\ SkippedInv /\ job \in Jobs /\ job.pos \in Nat /\ Len(topic) \in Nat
  BY LenProperties DEF IInv, TypeOK, Jobs
<1>2. skipped' = skipped /\ committed' = committed
  BY DEF Flush, Acknowledge, Checkpoint, Redeploy, log, kept
<1>3. /\ job'.pos = job.pos
      /\ job'.buffer \subseteq job.buffer /\ job'.failed \subseteq job.failed
      /\ job'.buffer = job.buffer \/ table' = With(table, TradesOf(job.buffer), now, job.code)
      /\ job'.failed = job.failed \/ job.failed \subseteq dlq'
  <2>1. CASE Flush
    BY <1>1, <2>1 DEF Flush, Jobs
  <2>2. CASE Acknowledge
    BY <1>1, <2>2 DEF Acknowledge, Jobs
  <2>3. CASE Checkpoint
    BY <1>1, <2>3 DEF Checkpoint, Jobs
  <2>4. CASE Redeploy
    BY <1>1, <2>4 DEF Redeploy, NewJob
  <2>. QED
    BY <2>1, <2>2, <2>3, <2>4
<1>4. \A i \in (job.buffer \ job'.buffer) \cup (job.failed \ job'.failed) : Handled(i)'
  BY <1>3, FlushHandles, AcknowledgeHandles
<1>5. MemoryOK(job)'
  BY <1>3, <1>4, MemoryStays
<1>6. PositionOK(saved)'
  <2>1. CASE Flush \/ Acknowledge
    BY <2>1, SavedStays DEF Flush, Acknowledge, kept
  <2>2. CASE Checkpoint \/ Redeploy
    <3>1. saved' = job.pos /\ job'.pos = job.pos /\ job'.buffer = {} /\ job'.failed = {}
      BY <1>1, <1>3, <2>2 DEF Checkpoint, Redeploy, NewJob, Jobs
    <3>. QED
      BY <1>5, <3>1 DEF MemoryOK, PositionOK, Covered
  <2>. QED
    BY <2>1, <2>2
<1>. QED
  BY <1>1, <1>2, <1>5, <1>6, CommittedStays, ExchangeStays DEF Parts, SkippedInv

\* Starts: from the checkpoint, or without state.
LEMMA StartStep ==
  ASSUME IInv, Next, Restart \/ Submit
  PROVE  Parts
<1>1. TypeOK /\ SkippedInv /\ saved \in Nat \cup {NONE} /\ committed' = committed
  BY DEF IInv, TypeOK, Restart, Submit
<1>2. saved' = saved \/ saved' = NONE
  BY DEF Restart, Submit
<1>3. job'.buffer = {} /\ job'.failed = {}
  BY DEF Restart, Submit, NewJob
<1>4. CASE Restart /\ saved # NONE
  <2>1. job'.pos = saved /\ skipped' = skipped
    BY <1>4 DEF Restart, NewJob
  <2>2. saved \in Nat /\ saved <= Len(topic) /\ \A i \in (1..saved) \ skipped : Handled(i)
    BY <1>1, <1>4 DEF IInv, PositionInv, PositionOK, Covered
  <2>3. MemoryOK(job)'
    BY <1>3, <2>1, <2>2, FreshMemory
  <2>. QED
    BY <1>1, <1>2, <1>4, <2>1, <2>3, SavedStays, CommittedStays, ExchangeStays
    DEF Parts, SkippedInv, PositionOK, Restart
<1>5. CASE Submit \/ saved = NONE
  <2>1. job'.pos = StartOffset /\ skipped' = skipped \cup LeftOut
    BY <1>5 DEF Restart, Submit, NewJob
  <2>2. MemoryOK(job)'
    <3>1. \A pos \in Nat :
            pos <= Len(topic) /\ job'.pos = pos /\ (\A i \in (1..pos) \ skipped' : Handled(i))
              => MemoryOK(job)'
      BY <1>3, FreshMemory
    <3>. QED
      BY <2>1, <3>1, StartCovered
  <2>3. SkippedInv'
    BY <1>1, <2>1, StartCovered, ExchangeStays DEF SkippedInv
  <2>4. PositionOK(saved)'
    BY <1>2, SavedStays DEF PositionOK
  <2>. QED
    BY <1>1, <2>2, <2>3, <2>4, CommittedStays DEF Parts
<1>. QED
  BY <1>4, <1>5

\* Steps that leave the job's memory alone.
LEMMA OtherStep ==
  ASSUME IInv, Next, job'.pos = job.pos, job'.buffer = job.buffer, job'.failed = job.failed,
         saved' = saved, skipped' = skipped, committed' = committed \/ committed' = saved
  PROVE  Parts
<1>1. MemoryOK(job)'
  BY MemoryStays
<1>2. PositionOK(saved)'
  BY SavedStays
<1>3. PositionOK(committed)'
  BY <1>2, CommittedStays DEF PositionOK, Covered
<1>. QED
  BY <1>1, <1>2, <1>3, ExchangeStays DEF Parts, SkippedInv, IInv

LEMMA InductiveStep ==
  ASSUME IInv, [Next]_vars
  PROVE  IInv'
<1>1. ASSUME Next
      PROVE  Parts
  <2>1. job \in Jobs
    BY DEF IInv, TypeOK
  <2>2. CASE Read
    BY <1>1, <2>2, ReadStep
  <2>3. CASE Flush \/ Acknowledge \/ Checkpoint \/ Redeploy
    BY <1>1, <2>3, WriteStep
  <2>4. CASE Restart \/ Submit
    BY <1>1, <2>4, StartStep
  <2>5. CASE FlushFails \/ Fail
    <3>1. job'.pos = job.pos /\ job'.buffer = job.buffer /\ job'.failed = job.failed
      BY <2>1, <2>5 DEF FlushFails, Fail, Jobs
    <3>. QED
      BY <1>1, <2>5, <3>1, OtherStep DEF FlushFails, Fail, kept
  <2>6. CASE job' = job /\ saved' = saved /\ skipped' = skipped
             /\ (committed' = committed \/ committed' = saved)
    BY <1>1, <2>6, OtherStep
  <2>. QED
    BY <1>1, <2>2, <2>3, <2>4, <2>5, <2>6
    DEF Next, kept, Tick, Arrive, ExecuteLate, Commit, Reprocess, ReprocessStep, Judge
<1>2. CASE Next
  <2>1. TypeOK'
    BY <1>2, TypeStep DEF IInv
  <2>. QED
    BY <1>1, <1>2, <2>1 DEF Parts, IInv, MemoryOK, PositionInv, PendingInv
<1>3. CASE UNCHANGED vars
  BY <1>3 DEF vars, log, kept, IInv, TypeOK, Running, PositionInv, PositionOK, Covered, PendingInv,
     SkippedInv, Handled, Outcome
<1>. QED
  BY <1>2, <1>3

LEMMA InitInductive ==
  ASSUME Init
  PROVE  IInv
<1>1. job.pos = 0 /\ job.buffer = {} /\ job.failed = {} /\ Len(topic) = 0
  BY DEF Init, NewJob
<1>2. saved = NONE /\ committed = NONE /\ skipped = {}
  BY DEF Init
<1>. QED
  BY <1>1, <1>2, InitTyped DEF IInv, PositionInv, PositionOK, Covered, PendingInv, SkippedInv

LEMMA Invariance == Spec => []IInv
BY InitInductive, InductiveStep, PTL DEF Spec

\* Whatever a restart or a submission will not read again is in ClickHouse or in the dead
\* letter topic, or a job found it when it started without a committed offset.
THEOREM CommittedStored == Spec => []CommittedIsStored
<1>1. ASSUME IInv
      PROVE  CommittedIsStored
  <2>1. ASSUME NEW i \in (1..Len(topic)) \ skipped, saved # NONE, i <= saved
        PROVE  Handled(i)
    <3>1. saved \in Nat /\ Len(topic) \in Nat
      BY <1>1, <2>1, LenProperties DEF IInv, TypeOK
    <3>2. i \in (1..saved) \ skipped
      BY <2>1, <3>1
    <3>. QED
      BY <1>1, <2>1, <3>2 DEF IInv, PositionInv, PositionOK, Covered
  <2>2. ASSUME NEW i \in (1..Len(topic)) \ skipped, committed # NONE, i <= committed
        PROVE  Handled(i)
    <3>1. committed \in Nat /\ Len(topic) \in Nat
      BY <1>1, <2>2, LenProperties DEF IInv, TypeOK
    <3>2. i \in (1..committed) \ skipped
      BY <2>2, <3>1
    <3>. QED
      BY <1>1, <2>2, <3>2 DEF IInv, PositionInv, PositionOK, Covered
  <2>3. exchange = "binance" => skipped = {}
    BY <1>1 DEF IInv, SkippedInv
  <2>. QED
    BY <2>1, <2>2, <2>3 DEF CommittedIsStored
<1>. QED
  BY <1>1, Invariance, PTL

-----------------------------------------------------------------------------
(* Versions and code.                                                       *)

\* The version and the code of a row of the table, of an INSERT in flight, and of one sent
\* now.
Written(ts, code) ==
  \/ \E t \in Trades : table[t] = [ts |-> ts, code |-> code]
  \/ \E b \in inFlight : b.ts = ts /\ b.code = code
  \/ ts = now /\ code = jar

ClockInv ==
  /\ job.code = jar
  /\ \A ts, code \in Nat : Written(ts, code) => ts <= now
  /\ repro.state = "running" => repro.start <= now /\ repro.code <= jar

\* What older code wrote is older than the reprocessing that runs.
RunInv ==
  repro.state = "running" =>
    \A ts, code \in Nat : Written(ts, code) /\ code < repro.code => ts < repro.start

\* After a "passed", what older code wrote loses against the rows of the window.
PassInv ==
  repro.state = "judged" /\ repro.verdict = "pass" =>
    /\ repro.code <= jar
    /\ \A t \in repro.rows :
         /\ table[t] # NONE /\ table[t].code >= repro.code
         /\ \A ts, code \in Nat : Written(ts, code) /\ code < repro.code => ts < table[t].ts

VersionInv == TypeOK /\ ClockInv /\ RunInv /\ PassInv

\* If nothing is deployed while a window is read again, newer code has newer versions.
EpochInv ==
  Quiet =>
    /\ repro.state = "running" => repro.code = jar
    /\ \A ts, code \in Nat : Written(ts, code) => code <= jar
    /\ \A ts1, code1, ts2, code2 \in Nat :
         Written(ts1, code1) /\ Written(ts2, code2) /\ code1 < code2 => ts1 < ts2

\* The code on disk changes with the clock.
LEMMA CodeStep ==
  ASSUME TypeOK, ClockInv, Next
  PROVE  /\ jar' \in Nat /\ now' \in Nat /\ job'.code = jar'
         /\ \/ jar' = jar /\ now <= now'
            \/ jar' = jar + 1 /\ now' = now + 1 /\ (Quiet => repro.state # "running")
<1>1. job \in Jobs /\ jar \in Nat /\ job.code = jar /\ now \in Nat
  BY DEF TypeOK, ClockInv
<1>2. CASE Redeploy
  BY <1>1, <1>2 DEF Redeploy, NewJob
<1>3. CASE Submit
  BY <1>1, <1>3 DEF Submit, NewJob
<1>4. CASE Restart
  BY <1>1, <1>4 DEF Restart, NewJob
<1>5. CASE Read \/ Flush \/ FlushFails \/ Acknowledge \/ Checkpoint \/ Fail
  <2>1. job'.code = job.code
    BY <1>1, <1>5 DEF Read, Flush, FlushFails, Acknowledge, Checkpoint, Fail, Jobs
  <2>. QED
    BY <1>1, <1>5, <2>1 DEF Read, Flush, FlushFails, Acknowledge, Checkpoint, Fail
<1>6. CASE job' = job /\ jar' = jar /\ (now' = now \/ now' = now + 1)
  BY <1>1, <1>6
<1>. QED
  BY <1>2, <1>3, <1>4, <1>5, <1>6
  DEF Next, Tick, Arrive, ExecuteLate, Commit, Reprocess, ReprocessStep, Judge

\* What becomes of the reprocessing, seen from its code.
LEMMA ReproStep ==
  ASSUME TypeOK, Next
  PROVE  \/ repro' = repro
         \/ /\ repro.state = "running" /\ repro'.state = "running"
            /\ repro'.code = repro.code /\ repro'.start = repro.start
         \/ /\ repro.state = "idle" /\ repro'.state = "running"
            /\ repro'.code = jar /\ repro'.start = now + 1 /\ now' = now + 1
            /\ jar' = jar /\ table' = table /\ inFlight' = inFlight
         \/ /\ repro.state = "running" /\ repro'.state = "judged"
            /\ repro'.code = repro.code /\ repro'.rows = Stored /\ repro'.verdict = Verdict
            /\ now' = now /\ jar' = jar /\ table' = table /\ inFlight' = inFlight
<1>1. CASE Reprocess
  BY <1>1 DEF Reprocess
<1>2. CASE ReprocessStep
  <2>1. repro = Running /\ repro.state = "running"
    BY <1>2 DEF ReprocessStep, TypeOK
  <2>2. repro' = [Running EXCEPT !.pos = repro.pos + 1]
    BY <1>2, <2>1 DEF ReprocessStep
  <2>. QED
    BY <2>1, <2>2 DEF Running
<1>3. CASE Judge
  BY <1>3 DEF Judge
<1>. QED
  BY <1>1, <1>2, <1>3
  DEF Next, Tick, Arrive, Read, Flush, FlushFails, ExecuteLate, Acknowledge, Checkpoint, Commit,
      Fail, Restart, Redeploy, Submit

\* A row after a step is the one before, or one just written that is not older.
LEMMA RowStep ==
  ASSUME TypeOK, Next, NEW t \in Trades
  PROVE  \/ table'[t] = table[t]
         \/ \E ts, code \in Nat :
              /\ Inserts(ts, code)
              /\ table'[t] = [ts |-> ts, code |-> code]
              /\ table[t] # NONE => table[t].ts <= ts
<1>1. CASE table' = table
  BY <1>1
<1>2. ASSUME NEW trades, NEW ts \in Nat, NEW code \in Nat,
             Inserts(ts, code), table' = With(table, trades, ts, code)
      PROVE  \/ table'[t] = table[t]
             \/ /\ table'[t] = [ts |-> ts, code |-> code]
                /\ table[t] # NONE => table[t].ts <= ts
  <2>1. \/ With(table, trades, ts, code)[t] = table[t]
        \/ /\ With(table, trades, ts, code)[t] = [ts |-> ts, code |-> code]
           /\ table[t] # NONE => table[t].ts <= ts
    BY WithRow
  <2>. QED
    BY <1>2, <2>1
<1>. QED
  BY <1>1, <1>2, TableStep

\* What is written after a step was written before, or is sent with the code on disk, or
\* by the reprocessing.
LEMMA WrittenStep ==
  ASSUME TypeOK, ClockInv, Next, NEW ts \in Nat, NEW code \in Nat, Written(ts, code)'
  PROVE  \/ Written(ts, code)
         \/ ts = now' /\ code = jar'
         \/ ts = now /\ repro.state = "running" /\ code = repro.code
<1>1. job.code = jar
  BY DEF ClockInv
<1>2. \A ts1, code1 \in Nat : Inserts(ts1, code1) =>
        Written(ts1, code1) \/ (ts1 = now /\ repro.state = "running" /\ code1 = repro.code)
  BY <1>1 DEF Inserts, Written
<1>3. ASSUME NEW t \in Trades, table'[t] = [ts |-> ts, code |-> code]
      PROVE  Written(ts, code) \/ (ts = now /\ repro.state = "running" /\ code = repro.code)
  <2>1. CASE table'[t] = table[t]
    BY <1>3, <2>1 DEF Written
  <2>2. ASSUME NEW ts1 \in Nat, NEW code1 \in Nat, Inserts(ts1, code1),
               table'[t] = [ts |-> ts1, code |-> code1]
        PROVE  Written(ts, code) \/ (ts = now /\ repro.state = "running" /\ code = repro.code)
    <3>1. ts1 = ts /\ code1 = code
      BY <1>3, <2>2
    <3>. QED
      BY <1>2, <2>2, <3>1
  <2>. QED
    BY <2>1, <2>2, RowStep
<1>4. ASSUME NEW b \in inFlight', b.ts = ts, b.code = code
      PROVE  Written(ts, code)
  <2>1. b \in inFlight \/ b = Batch
    BY InFlightTyped
  <2>. QED
    BY <1>1, <1>4, <2>1 DEF Written, Batch
<1>. QED
  BY <1>3, <1>4 DEF Written

LEMMA ClockStep ==
  ASSUME TypeOK, ClockInv, Next
  PROVE  ClockInv'
<1>1. now \in Nat /\ jar \in Nat /\ (repro.state = "running" => repro.start \in Nat /\ repro.code \in Nat)
  BY DEF TypeOK
<1>2. now <= now' /\ jar <= jar' /\ now' \in Nat /\ jar' \in Nat /\ job'.code = jar'
  BY <1>1, CodeStep
<1>3. ASSUME NEW ts \in Nat, NEW code \in Nat, Written(ts, code)'
      PROVE  ts <= now'
  <2>1. Written(ts, code) => ts <= now
    BY DEF ClockInv
  <2>2. Written(ts, code) \/ ts = now' \/ ts = now
    BY <1>3, WrittenStep
  <2>. QED
    BY <1>1, <1>2, <2>1, <2>2
<1>4. ASSUME repro'.state = "running"
      PROVE  repro'.start <= now' /\ repro'.code <= jar'
  <2>1. \/ repro'.code = jar /\ repro'.start = now'
        \/ repro.state = "running" /\ repro'.code = repro.code /\ repro'.start = repro.start
    BY <1>4, ReproStep
  <2>. QED
    BY <1>1, <1>2, <2>1 DEF ClockInv
<1>. QED
  BY <1>2, <1>3, <1>4 DEF ClockInv

LEMMA RunStep ==
  ASSUME TypeOK, ClockInv, RunInv, Next
  PROVE  RunInv'
<1>. SUFFICES ASSUME repro'.state = "running", NEW ts \in Nat, NEW code \in Nat,
                     Written(ts, code)', code < repro'.code
              PROVE  ts < repro'.start
  BY DEF RunInv
<1>1. now \in Nat /\ jar \in Nat /\ (repro.state = "running" => repro.start \in Nat /\ repro.code \in Nat)
  BY DEF TypeOK
<1>2. jar <= jar' /\ jar' \in Nat
  BY <1>1, CodeStep
<1>3. Written(ts, code) => ts <= now
  BY DEF ClockInv
<1>4. \/ Written(ts, code)
      \/ ts = now' /\ code = jar'
      \/ ts = now /\ repro.state = "running" /\ code = repro.code
  BY WrittenStep
<1>5. CASE repro.state = "running" /\ repro'.code = repro.code /\ repro'.start = repro.start
  <2>1. repro.code <= jar
    BY <1>5 DEF ClockInv
  <2>2. Written(ts, code)
    BY <1>1, <1>2, <1>4, <1>5, <2>1
  <2>. QED
    BY <1>5, <2>2 DEF RunInv
<1>6. CASE repro.state = "idle" /\ repro'.code = jar /\ repro'.start = now + 1 /\ jar' = jar
  <2>1. Written(ts, code)
    BY <1>1, <1>4, <1>6
  <2>. QED
    BY <1>1, <1>3, <1>6, <2>1
<1>. QED
  BY <1>5, <1>6, ReproStep

\* A row no older than all that old code has written is not replaced by old code.
LEMMA PassStep ==
  ASSUME VersionInv, Next
  PROVE  PassInv'
<1>. SUFFICES ASSUME repro'.state = "judged", repro'.verdict = "pass"
              PROVE  /\ repro'.code <= jar'
                     /\ \A t \in repro'.rows :
                          /\ table'[t] # NONE /\ table'[t].code >= repro'.code
                          /\ \A ts, code \in Nat :
                               Written(ts, code)' /\ code < repro'.code => ts < table'[t].ts
  BY DEF PassInv
<1>1. /\ TypeOK /\ ClockInv /\ RunInv /\ PassInv /\ now \in Nat /\ jar \in Nat
      /\ table \in [Trades -> Rows \cup {NONE}]
  BY DEF VersionInv, TypeOK
<1>2. jar <= jar' /\ jar' \in Nat /\ now <= now' /\ now' \in Nat
  BY <1>1, CodeStep
<1>3. CASE repro.state = "running"
  <2>1. /\ repro'.code = repro.code /\ repro'.rows = Stored /\ Verdict = "pass"
        /\ now' = now /\ jar' = jar /\ table' = table /\ inFlight' = inFlight
    BY <1>1, <1>3, ReproStep
  <2>2. repro.code \in Nat /\ repro.start \in Nat /\ repro.code <= jar
    BY <1>1, <1>3 DEF TypeOK, ClockInv
  <2>3. NotCovered = {}
    BY <2>1 DEF Verdict
  <2>4. ASSUME NEW t \in Stored
        PROVE  /\ table[t] # NONE /\ table[t].code >= repro.code
               /\ \A ts, code \in Nat : Written(ts, code) /\ code < repro.code => ts < table[t].ts
    <3>1. t \in Trades /\ table[t] # NONE /\ table[t] \in Rows
      BY <1>1 DEF Stored
    <3>2. table[t].ts \in Nat /\ table[t].code \in Nat
            /\ table[t] = [ts |-> table[t].ts, code |-> table[t].code]
      BY <3>1 DEF Rows
    <3>3. table[t].ts >= repro.start
      BY <2>2, <2>3, <3>2 DEF NotCovered
    <3>4. Written(table[t].ts, table[t].code)
      BY <3>1, <3>2 DEF Written
    <3>5. \A ts, code \in Nat : Written(ts, code) /\ code < repro.code => ts < repro.start
      BY <1>1, <1>3 DEF RunInv
    <3>6. table[t].code >= repro.code
      BY <2>2, <3>2, <3>3, <3>4, <3>5
    <3>. QED
      BY <2>2, <3>1, <3>2, <3>3, <3>5, <3>6
  <2>5. \A ts, code \in Nat : Written(ts, code)' => Written(ts, code)
    BY <2>1 DEF Written
  <2>. QED
    BY <2>1, <2>2, <2>4, <2>5
<1>4. CASE repro' = repro
  <2>1. repro.state = "judged" /\ repro.verdict = "pass" /\ repro.code \in Nat /\ repro.rows \subseteq Trades
    BY <1>1, <1>4 DEF TypeOK
  <2>2. repro.code <= jar
    BY <1>1, <2>1 DEF PassInv
  <2>3. ASSUME NEW t \in repro.rows
        PROVE  /\ table'[t] # NONE /\ table'[t].code >= repro.code
               /\ \A ts, code \in Nat : Written(ts, code)' /\ code < repro.code => ts < table'[t].ts
    <3>1. t \in Trades /\ table[t] # NONE /\ table[t].code >= repro.code
      BY <1>1, <2>1 DEF PassInv
    <3>2. \A ts, code \in Nat : Written(ts, code) /\ code < repro.code => ts < table[t].ts
      BY <1>1, <2>1 DEF PassInv
    <3>3. table[t].ts \in Nat /\ table[t].code \in Nat
      BY <1>1, <3>1 DEF Rows
    <3>4. ASSUME NEW ts \in Nat, NEW code \in Nat, Written(ts, code)', code < repro.code
          PROVE  ts < table[t].ts
      <4>1. Written(ts, code) \/ code = jar'
        BY <1>1, <2>1, <3>4, WrittenStep
      <4>2. code # jar'
        BY <1>1, <1>2, <2>1, <2>2, <3>4
      <4>. QED
        BY <3>2, <3>4, <4>1, <4>2
    <3>5. CASE table'[t] = table[t]
      BY <3>1, <3>4, <3>5
    <3>6. ASSUME NEW ts1 \in Nat, NEW code1 \in Nat, Inserts(ts1, code1),
                 table'[t] = [ts |-> ts1, code |-> code1], table[t].ts <= ts1
          PROVE  /\ table'[t] # NONE /\ table'[t].code >= repro.code
                 /\ \A ts, code \in Nat :
                      Written(ts, code)' /\ code < repro.code => ts < table'[t].ts
      <4>1. Written(ts1, code1)
        BY <1>1, <2>1, <3>6 DEF Inserts, Written, ClockInv
      <4>2. code1 >= repro.code
        BY <2>1, <3>2, <3>3, <3>6, <4>1
      <4>3. table'[t] # NONE
        BY <3>6, NoneAssumption
      <4>4. table'[t].ts = ts1 /\ table'[t].code = code1
        BY <3>6
      <4>5. \A ts, code \in Nat : Written(ts, code)' /\ code < repro.code => ts < ts1
        BY <3>3, <3>4, <3>6
      <4>. QED
        BY <4>2, <4>3, <4>4, <4>5
    <3>. QED
      BY <1>1, <3>1, <3>5, <3>6, RowStep
  <2>. QED
    BY <1>1, <1>2, <1>4, <2>1, <2>2, <2>3
<1>. QED
  BY <1>1, <1>3, <1>4, ReproStep

LEMMA VersionStep ==
  ASSUME VersionInv, [Next]_vars
  PROVE  VersionInv'
<1>1. CASE Next
  BY <1>1, TypeStep, ClockStep, RunStep, PassStep DEF VersionInv
<1>2. CASE UNCHANGED vars
  <2>1. TypeOK'
    BY TypeStep DEF VersionInv
  <2>. QED
    BY <1>2, <2>1 DEF vars, log, kept, VersionInv, ClockInv, RunInv, PassInv, Written
<1>. QED
  BY <1>1, <1>2

LEMMA InitVersion ==
  ASSUME Init
  PROVE  VersionInv
<1>1. /\ now = 0 /\ jar = 1 /\ job.code = 1 /\ repro.state = "idle" /\ inFlight = {}
      /\ \A t \in Trades : table[t] = NONE
  BY DEF Init, NewJob
<1>2. \A ts, code \in Nat : [ts |-> ts, code |-> code] # NONE
  BY NoneAssumption
<1>3. \A ts, code \in Nat : Written(ts, code) => ts = 0
  BY <1>1, <1>2 DEF Written
<1>. QED
  BY <1>1, <1>3, InitTyped DEF VersionInv, ClockInv, RunInv, PassInv

\* When the script says "passed", every row it has counted is one of the new code, also if
\* something is deployed meanwhile.
THEOREM PassIsRewritten == Spec => []PassMeansRewritten
<1>1. VersionInv => PassMeansRewritten
  BY DEF VersionInv, PassInv, PassMeansRewritten
<1>. QED
  BY <1>1, InitVersion, VersionStep, PTL DEF Spec

-----------------------------------------------------------------------------
LEMMA EpochStep ==
  ASSUME VersionInv, EpochInv, Next
  PROVE  EpochInv'
<1>. SUFFICES ASSUME Quiet
              PROVE  /\ repro'.state = "running" => repro'.code = jar'
                     /\ \A ts, code \in Nat : Written(ts, code)' => code <= jar'
                     /\ \A ts1, code1, ts2, code2 \in Nat :
                          Written(ts1, code1)' /\ Written(ts2, code2)' /\ code1 < code2 => ts1 < ts2
  BY DEF EpochInv
<1>1. TypeOK /\ ClockInv /\ now \in Nat /\ jar \in Nat /\ (repro.state = "running" => repro.code = jar)
  BY DEF VersionInv, TypeOK, EpochInv
<1>2. \/ jar' = jar /\ now <= now' /\ now' \in Nat
      \/ jar' = jar + 1 /\ now' = now + 1 /\ repro.state # "running"
  BY <1>1, CodeStep
<1>3. repro'.state = "running" => repro'.code = jar'
  BY <1>1, <1>2, ReproStep
<1>4. Written(now, jar)
  BY DEF Written
<1>5. ASSUME NEW ts \in Nat, NEW code \in Nat, Written(ts, code)'
      PROVE  Written(ts, code) \/ (ts = now' /\ code = jar')
  BY <1>1, <1>4, <1>5, WrittenStep
<1>6. ASSUME NEW ts \in Nat, NEW code \in Nat, Written(ts, code)
      PROVE  /\ ts <= now' /\ code <= jar'
             /\ code < jar' => ts < now'
  <2>1. ts <= now /\ code <= jar
    BY <1>6 DEF VersionInv, ClockInv, EpochInv
  <2>2. code < jar => ts < now
    BY <1>1, <1>4, <1>6 DEF EpochInv
  <2>. QED
    BY <1>1, <1>2, <2>1, <2>2
<1>7. now' \in Nat /\ jar' \in Nat
  BY <1>1, <1>2
<1>8. ASSUME NEW ts \in Nat, NEW code \in Nat, Written(ts, code)'
      PROVE  code <= jar'
  BY <1>5, <1>6, <1>7, <1>8
<1>9. ASSUME NEW ts1 \in Nat, NEW code1 \in Nat, NEW ts2 \in Nat, NEW code2 \in Nat,
             Written(ts1, code1)', Written(ts2, code2)', code1 < code2
      PROVE  ts1 < ts2
  <2>1. code2 <= jar'
    BY <1>8, <1>9
  <2>2. Written(ts1, code1)
    BY <1>5, <1>7, <1>9, <2>1
  <2>3. CASE Written(ts2, code2)
    BY <1>9, <2>2, <2>3 DEF EpochInv
  <2>4. CASE ts2 = now' /\ code2 = jar'
    BY <1>6, <1>9, <2>2, <2>4
  <2>. QED
    BY <1>5, <1>9, <2>3, <2>4
<1>. QED
  BY <1>3, <1>8, <1>9

LEMMA InitEpoch ==
  ASSUME Init
  PROVE  EpochInv
<1>1. /\ now = 0 /\ jar = 1 /\ repro.state = "idle" /\ inFlight = {}
      /\ \A t \in Trades : table[t] = NONE
  BY DEF Init
<1>2. \A ts, code \in Nat : [ts |-> ts, code |-> code] # NONE
  BY NoneAssumption
<1>3. \A ts, code \in Nat : Written(ts, code) => code = 1
  BY <1>1, <1>2 DEF Written
<1>. QED
  BY <1>1, <1>3 DEF EpochInv

\* The row of a trade never goes back to what older code made of it.
LEMMA CodeForward ==
  ASSUME VersionInv, EpochInv, Quiet, Next, NEW t \in Trades, table[t] # NONE
  PROVE  table'[t] # NONE /\ table'[t].code >= table[t].code
<1>1. TypeOK /\ ClockInv /\ now \in Nat /\ jar \in Nat /\ (repro.state = "running" => repro.code = jar)
  BY DEF VersionInv, TypeOK, EpochInv
<1>2. table[t] \in Rows
  BY <1>1 DEF TypeOK
<1>3. table[t].ts \in Nat /\ table[t].code \in Nat
        /\ table[t] = [ts |-> table[t].ts, code |-> table[t].code]
  BY <1>2 DEF Rows
<1>4. Written(table[t].ts, table[t].code)
  BY <1>3 DEF Written
<1>5. CASE table'[t] = table[t]
  BY <1>3, <1>5
<1>6. ASSUME NEW ts \in Nat, NEW code \in Nat, Inserts(ts, code),
             table'[t] = [ts |-> ts, code |-> code], table[t].ts <= ts
      PROVE  table'[t].code >= table[t].code
  <2>1. Written(ts, code)
    BY <1>1, <1>6 DEF Inserts, Written, ClockInv
  <2>2. ~(code < table[t].code)
    BY <1>3, <1>4, <1>6, <2>1 DEF EpochInv
  <2>3. table'[t].code = code
    BY <1>6
  <2>. QED
    BY <1>3, <2>2, <2>3
<1>. QED
  BY <1>1, <1>5, <1>6, RowStep, RowsStay

\* What new code has written stays, if nothing is deployed while a window is read again.
THEOREM NewCodeIsKept == ASSUME Quiet PROVE Spec => NewCodeStays
<1>1. VersionInv /\ EpochInv /\ [Next]_vars => (VersionInv /\ EpochInv)'
  <2>1. CASE UNCHANGED vars
    BY <2>1, VersionStep DEF vars, log, kept, EpochInv, Written
  <2>. QED
    BY <2>1, VersionStep, EpochStep
<1>2. VersionInv /\ EpochInv /\ [Next]_vars =>
        [\A t \in Trades : table[t] # NONE => table'[t] # NONE /\ table'[t].code >= table[t].code]_vars
  BY CodeForward
<1>. QED
  BY <1>1, <1>2, InitVersion, InitEpoch, PTL DEF Spec, NewCodeStays
=============================================================================
