------------------------------ MODULE TradeCdc ------------------------------
(***************************************************************************)
(* From the Kafka topic of trades to the table of trades in ClickHouse:    *)
(* CdcPipelineJob.java with CdcEventParser.java and ClickHouseSinks.java,  *)
(* BinanceTradeJob.java with BinanceTradeParser.java, and the re-reading   *)
(* of a window by scripts/ops/reprocess-day.sh.                            *)
(*                                                                         *)
(* A job reads one partition, collects rows, writes them in batches of one *)
(* INSERT, and commits offsets with its checkpoints.  The table keeps one  *)
(* row per trade, the one with the largest flink_ts: the wall clock when   *)
(* the statement was filled, so every write of a row has a new one.        *)
(*                                                                         *)
(* A trade is the instant it was executed at.  What a row says follows     *)
(* from its trade and the version of the code that wrote it.               *)
(***************************************************************************)
EXTENDS Integers, Sequences, FiniteSets

CONSTANTS
  Trades,                   \* execution instants
  Shapes,                   \* what messages look like
  From, To,                 \* the window to be written again: From <= executed < To
  Margin,                   \* REPROCESS_MARGIN_MIN
  BATCH_SIZE, MAX_RETRIES,  \* of the JDBC sink
  Attempts,                 \* restarts a job has in its life (20)
  Quiet,                    \* TRUE: nothing is deployed while a window is read again
  MaxNow, MaxTopic, MaxFaults, MaxSubmits,   \* bounds
  NONE

ASSUME ParameterAssumption ==
  /\ Trades \subseteq Nat
  /\ Shapes \subseteq {"trade", "empty", "delete", "malformed"}
  /\ {From, To, Margin, MAX_RETRIES, Attempts, MaxNow, MaxTopic, MaxFaults, MaxSubmits} \subseteq Nat
  /\ BATCH_SIZE \in Nat \ {0}
  /\ Quiet \in BOOLEAN

ASSUME NoneAssumption == NONE \notin Nat \cup [ts : Nat, code : Nat]

VARIABLES
  exchange,   \* which of the two jobs this is; never changes
  now,        \* wall clock
  topic,      \* Kafka: records [trade, shape, at], at the instant of their arrival
  job,        \* the live job
  saved,      \* read position of its last checkpoint, or NONE
  committed,  \* offset of its consumer group, or NONE
  inFlight,   \* INSERTs given up by the client that ClickHouse may still execute
  table,      \* the row that wins for each trade, or NONE
  dlq,        \* offsets whose message is in the dead letter topic
  jar,        \* version of the code on disk
  repro,      \* the job that reads the window again, and what the script has noted
  skipped,    \* history: offsets a job started behind without reading them
  faults, submits

log == <<exchange, topic>>
kept == <<saved, committed, skipped>>
vars == <<log, now, job, kept, inFlight, table, dlq, jar, repro, faults, submits>>

-----------------------------------------------------------------------------
(* Parsers.                                                                 *)

\* CdcEventParser: tombstones and deletions are skipped, what is no change event or has no
\* row goes to the dead letter topic.
UpbitOutcome(shape) ==
  IF shape = "trade" THEN "row" ELSE IF shape = "malformed" THEN "dlq" ELSE "skip"

\* BinanceTradeParser: anything but a trade event fails.
BinanceOutcome(shape) ==
  IF shape = "trade" THEN "row" ELSE IF shape = "empty" THEN "skip" ELSE "dlq"

Outcome(i) ==
  IF exchange = "upbit" THEN UpbitOutcome(topic[i].shape) ELSE BinanceOutcome(topic[i].shape)

-----------------------------------------------------------------------------
(* ClickHouse.                                                              *)

\* Variant with a plausible bug: the version of a row is not used, the last write stays.
WinnerLast(row, new) == new

\* ReplacingMergeTree(flink_ts) ORDER BY the identity of the trade.
Winner(row, new) == IF row # NONE /\ row.ts > new.ts THEN row ELSE new

\* The table after an INSERT of the rows of some trades.
With(rows, trades, ts, code) ==
  [t \in Trades |->
     IF t \in trades THEN Winner(rows[t], [ts |-> ts, code |-> code]) ELSE rows[t]]

TradesOf(offsets) == {topic[i].trade : i \in offsets}

-----------------------------------------------------------------------------
(* Jobs.                                                                    *)

NewJob(code) ==
  [up |-> TRUE, pos |-> 0, buffer |-> {}, failed |-> {}, tries |-> 0, restarts |-> 0, code |-> code]

\* Where a job without state starts: at the committed offset or, without one, behind the
\* newest record (Upbit), at the oldest (Binance).
UpbitStart == IF committed # NONE THEN committed ELSE Len(topic)
BinanceStart == IF committed # NONE THEN committed ELSE 0
StartOffset == IF exchange = "upbit" THEN UpbitStart ELSE BinanceStart

\* A start from no state leaves out what is older than its offset and not committed.
LeftOut == IF committed = NONE THEN 1..StartOffset ELSE {}

Init ==
  /\ exchange \in {"upbit", "binance"}
  /\ now = 0
  /\ topic = <<>>
  /\ job = NewJob(1)
  /\ saved = NONE
  /\ committed = NONE
  /\ inFlight = {}
  /\ table = [t \in Trades |-> NONE]
  /\ dlq = {}
  /\ jar = 1
  /\ repro = [state |-> "idle"]
  /\ skipped = {}
  /\ faults = 0
  /\ submits = 0

Tick ==
  /\ now < MaxNow
  /\ now' = now + 1
  /\ UNCHANGED <<log, job, kept, inFlight, table, dlq, jar, repro, faults, submits>>

\* The connector, or the collector, delivers a trade: some time after it was executed,
\* and again after a restart; or something else.
Arrive(t, shape) ==
  /\ Len(topic) < MaxTopic
  /\ IF shape = "trade" THEN t \in Trades /\ t <= now ELSE t = NONE
  /\ topic' = Append(topic, [trade |-> t, shape |-> shape, at |-> now])
  /\ UNCHANGED <<exchange, now, job, kept, inFlight, table, dlq, jar, repro, faults, submits>>

Read ==
  /\ job.up
  /\ Cardinality(job.buffer) < BATCH_SIZE
  /\ job.pos < Len(topic)
  /\ LET i == job.pos + 1 IN
       job' = [job EXCEPT !.pos = i,
                          !.buffer = IF Outcome(i) = "row" THEN @ \cup {i} ELSE @,
                          !.failed = IF Outcome(i) = "dlq" THEN @ \cup {i} ELSE @]
  /\ UNCHANGED <<log, now, kept, inFlight, table, dlq, jar, repro, faults, submits>>

\* The batch is full, or three seconds have passed.
Flush ==
  /\ job.up
  /\ job.buffer # {}
  /\ table' = With(table, TradesOf(job.buffer), now, job.code)
  /\ job' = [job EXCEPT !.buffer = {}, !.tries = 0]
  /\ UNCHANGED <<log, now, kept, inFlight, dlq, jar, repro, faults, submits>>

Batch == [trades |-> TradesOf(job.buffer), ts |-> now, code |-> job.code]

\* An INSERT fails: ClickHouse has not got it, or executes it yet.  It is filled and sent
\* again until the retries are used up; then the job fails.
FlushFails ==
  /\ job.up
  /\ job.buffer # {}
  /\ faults < MaxFaults
  /\ faults' = faults + 1
  /\ inFlight' \in {inFlight, inFlight \cup {Batch}}
  /\ job' = IF job.tries < MAX_RETRIES THEN [job EXCEPT !.tries = @ + 1] ELSE [job EXCEPT !.up = FALSE]
  /\ UNCHANGED <<log, now, kept, table, dlq, jar, repro, submits>>

ExecuteLate(b) ==
  /\ table' = With(table, b.trades, b.ts, b.code)
  /\ inFlight' = inFlight \ {b}
  /\ UNCHANGED <<log, now, job, kept, dlq, jar, repro, faults, submits>>

Acknowledge ==
  /\ job.up
  /\ job.failed # {}
  /\ dlq' = dlq \cup job.failed
  /\ job' = [job EXCEPT !.failed = {}]
  /\ UNCHANGED <<log, now, kept, inFlight, table, jar, repro, faults, submits>>

\* Variant with a plausible bug: the position is saved with the batch still in memory.
CheckpointUnflushed ==
  /\ job.up
  /\ dlq' = dlq \cup job.failed
  /\ job' = [job EXCEPT !.failed = {}]
  /\ saved' = job.pos
  /\ UNCHANGED <<log, now, committed, skipped, inFlight, table, jar, repro, faults, submits>>

\* A checkpoint: both sinks write out what they hold, then the position is saved.
Checkpoint ==
  /\ job.up
  /\ table' = With(table, TradesOf(job.buffer), now, job.code)
  /\ dlq' = dlq \cup job.failed
  /\ job' = [job EXCEPT !.buffer = {}, !.failed = {}, !.tries = 0]
  /\ saved' = job.pos
  /\ UNCHANGED <<log, now, committed, skipped, inFlight, jar, repro, faults, submits>>

\* Once the checkpoint is complete its position is committed to the group.
Commit ==
  /\ job.up
  /\ saved # NONE /\ committed # saved
  /\ committed' = saved
  /\ UNCHANGED <<log, now, job, saved, skipped, inFlight, table, dlq, jar, repro, faults, submits>>

Fail ==
  /\ job.up
  /\ faults < MaxFaults
  /\ faults' = faults + 1
  /\ job' = [job EXCEPT !.up = FALSE]
  /\ UNCHANGED <<log, now, kept, inFlight, table, dlq, jar, repro, submits>>

\* Variant with a plausible bug: the job goes on where it failed.
RestartWhereItFailed ==
  /\ ~job.up
  /\ job.restarts < Attempts
  /\ job' = [NewJob(job.code) EXCEPT !.pos = job.pos, !.restarts = job.restarts + 1]
  /\ UNCHANGED <<log, now, kept, inFlight, table, dlq, jar, repro, faults, submits>>

\* Restarted after 30 seconds, from the checkpoint or, before the first, as a new job.
Restart ==
  /\ ~job.up
  /\ job.restarts < Attempts
  /\ job' = [NewJob(job.code) EXCEPT !.pos = IF saved # NONE THEN saved ELSE StartOffset,
                                     !.restarts = job.restarts + 1]
  /\ skipped' = IF saved # NONE THEN skipped ELSE skipped \cup LeftOut
  /\ UNCHANGED <<log, now, saved, committed, inFlight, table, dlq, jar, repro, faults, submits>>

-----------------------------------------------------------------------------
(* Operations by hand.                                                      *)

\* flink-cdc-redeploy.sh: stopped with a savepoint, built, submitted from it with the new
\* code.
Redeploy ==
  /\ job.up
  /\ Quiet => repro.state # "running"
  /\ submits < MaxSubmits /\ submits' = submits + 1
  /\ now < MaxNow /\ now' = now + 1
  /\ table' = With(table, TradesOf(job.buffer), now, job.code)
  /\ dlq' = dlq \cup job.failed
  /\ saved' = job.pos
  /\ jar < 2 /\ jar' = jar + 1
  /\ job' = [NewJob(jar') EXCEPT !.pos = job.pos]
  /\ UNCHANGED <<log, committed, skipped, inFlight, repro, faults>>

\* Submitted without state, by hand, also after the restarts are used up.
Submit ==
  /\ Quiet => repro.state # "running"
  /\ submits < MaxSubmits /\ submits' = submits + 1
  /\ now < MaxNow /\ now' = now + 1
  /\ saved' = NONE
  /\ job' = [NewJob(jar) EXCEPT !.pos = StartOffset]
  /\ skipped' = skipped \cup LeftOut
  /\ UNCHANGED <<log, committed, inFlight, table, dlq, jar, repro, faults>>

-----------------------------------------------------------------------------
(* reprocess-day.sh: only the Upbit job has a bounded mode.                 *)

InWindow(t) == From <= t /\ t < To
Stored == {t \in Trades : InWindow(t) /\ table[t] # NONE}

\* The last offset before instant ts; the end of the topic when nothing is that new.
OffsetAt(ts) ==
  LET newer == {i \in 1..Len(topic) : topic[i].at >= ts}
  IN  IF newer = {} THEN Len(topic) ELSE (CHOOSE i \in newer : \A k \in newer : i <= k) - 1

\* The rows are counted, then the bounded job is submitted with a group of its own.
Reprocess ==
  /\ exchange = "upbit"
  /\ repro.state = "idle"
  /\ now < MaxNow /\ now' = now + 1
  /\ repro' = [state |-> "running", before |-> Stored, start |-> now + 1, code |-> jar,
               pos |-> OffsetAt(From - Margin), stop |-> OffsetAt(To + Margin)]
  /\ UNCHANGED <<log, job, kept, inFlight, table, dlq, jar, faults, submits>>

\* It goes through the same parser and sink.
ReprocessStep ==
  /\ repro.state = "running"
  /\ repro.pos < repro.stop
  /\ LET i == repro.pos + 1 IN
       /\ table' = IF Outcome(i) = "row" THEN With(table, TradesOf({i}), now, repro.code) ELSE table
       /\ dlq' = IF Outcome(i) = "dlq" THEN dlq \cup {i} ELSE dlq
       /\ repro' = [repro EXCEPT !.pos = i]
  /\ UNCHANGED <<log, now, job, kept, inFlight, jar, faults, submits>>

\* Rows of the window that are older than the job.
NotCovered == {t \in Stored : table[t].ts < repro.start}

\* Variant with a plausible bug: equal counts before and after are enough.
VerdictUncovered == IF repro.before = Stored THEN "pass" ELSE "different"

Verdict ==
  IF NotCovered # {} THEN "short" ELSE IF repro.before = Stored THEN "pass" ELSE "different"

\* The job has finished, or failed, or the script has waited for 15 minutes.
Judge ==
  /\ repro.state = "running"
  /\ repro.pos = repro.stop \/ (faults < MaxFaults)
  /\ faults' = IF repro.pos = repro.stop THEN faults ELSE faults + 1
  /\ repro' = [state |-> "judged", verdict |-> Verdict, rows |-> Stored, code |-> repro.code]
  /\ UNCHANGED <<log, now, job, kept, inFlight, table, dlq, jar, submits>>

-----------------------------------------------------------------------------
Next ==
  \/ Tick
  \/ \E t \in Trades \cup {NONE}, shape \in Shapes : Arrive(t, shape)
  \/ Read
  \/ Flush
  \/ FlushFails
  \/ \E b \in inFlight : ExecuteLate(b)
  \/ Acknowledge
  \/ Checkpoint
  \/ Commit
  \/ Fail
  \/ Restart
  \/ Redeploy
  \/ Submit
  \/ Reprocess
  \/ ReprocessStep
  \/ Judge

Spec == Init /\ [][Next]_vars

FairSpec ==
  Spec /\ WF_vars(Read) /\ WF_vars(Flush) /\ WF_vars(Checkpoint) /\ WF_vars(Restart)

-----------------------------------------------------------------------------
(* Properties.                                                              *)

\* What has become of a record: its row or a newer one is there, its text is kept, or it
\* was nothing.
Handled(i) ==
  \/ Outcome(i) = "row" /\ table[topic[i].trade] # NONE
  \/ Outcome(i) = "dlq" /\ i \in dlq
  \/ Outcome(i) = "skip"

\* Whatever a restart or a submission will not read again is in ClickHouse or in the dead
\* letter topic: the only records left out are those a job found when it started without
\* a committed offset, and for the second exchange not even these.
CommittedIsStored ==
  /\ \A i \in 1..Len(topic) \ skipped :
       (saved # NONE /\ i <= saved) \/ (committed # NONE /\ i <= committed) => Handled(i)
  /\ exchange = "binance" => skipped = {}

\* A row written by new code never shows what older code made of it again: not by an old
\* INSERT executed late, not by a replay, not by reading the window again.
NewCodeStays ==
  [][\A t \in Trades : table[t] # NONE => table'[t] # NONE /\ table'[t].code >= table[t].code]_vars

\* When the script says "passed", every row of the window it has counted is one the new
\* code has written, wherever its record lies in the topic.
PassMeansRewritten ==
  repro.state = "judged" /\ repro.verdict = "pass" =>
    \A t \in repro.rows : table[t].code >= repro.code

\* As long as a job has restarts left it catches up: again and again every record is
\* handled, but for those it left out at its start.
EverythingHandled == []<>(\A i \in 1..Len(topic) : i \in skipped \/ Handled(i))
=============================================================================
