--------------------------- MODULE ProducerIngest ---------------------------
(***************************************************************************)
(* The trade producer (producer/producer.py): one asyncio process that     *)
(* receives trades over the exchange's WebSocket, keeps them in a memory   *)
(* buffer, writes them to MySQL in batches with INSERT IGNORE, and repairs *)
(* the holes a disconnection or a restart leaves by re-reading a window of *)
(* the exchange's REST ledger ("gap-fill").                                *)
(*                                                                         *)
(* A trade is its index in `ledger', the exchange's own record; ledger[i]  *)
(* is the time of trade i.  MySQL is reduced to what the producer can      *)
(* observe of it: the set of stored keys and the row with the largest      *)
(* trade_id.  The event loop is one thread, so everything between two      *)
(* awaits is one action; the process may be killed between any two.        *)
(***************************************************************************)
EXTENDS Naturals, Sequences, FiniteSets

CONSTANTS
  Margin,      \* GAPFILL_MARGIN_MS: slack on both ends of a repair window
  StartupMax,  \* GAPFILL_STARTUP_MAX_MS: a longer outage is not repaired
  BatchSize,   \* BATCH_SIZE: rows per INSERT
  MaxBatches,  \* MAX_BATCHES_PER_FLUSH
  Reorder,     \* how far behind a newer trade the exchange may deliver one
  Slots,       \* gap-fill tasks that may be outstanding at once (a bound)
  Faults,      \* the kinds of fault of the environment, see FaultKinds
  Epoch,       \* the clock when the behaviour starts (epoch milliseconds)
  MaxTime,     \* bound: the clock stops there
  MaxTrades,   \* bound: trades the exchange executes
  MaxFaults,   \* bound: faults of a behaviour
  NONE         \* Python's None, for a time or a row

FaultKinds == {"link", "mysql", "rest", "kill", "stop"}

ASSUME ParameterAssumption ==
  /\ {StartupMax, Reorder, MaxTime, MaxTrades, MaxFaults} \subseteq Nat
  /\ {Margin, BatchSize, MaxBatches} \subseteq Nat \ {0}
  /\ Faults \subseteq FaultKinds

\* No time the producer computes is negative: the clock is far from zero.
ASSUME EpochAssumption == Epoch \in Nat /\ Margin <= Epoch

\* A time is never None, nor is a row.
ASSUME NoneAssumption == NONE \notin Nat

VARIABLES
  \* the exchange and the network
  now,        \* the wall clock
  ledger,     \* the times of the trades executed so far
  wire,       \* trades pushed on the current connection, not yet received
  faultsLeft, \* faults that may still happen
  \* MySQL
  stored,     \* the trades in crypto_trades
  lastRow,    \* the row with the largest trade_id
  lastSrc,    \* its ingest_source
  \* the process
  phase,
  buffer,     \* MySQLWriter.buffer
  lastEvent,  \* last_event_ms
  dropped,    \* disconnected_ms
  pending,    \* pending_startup_fill
  fill,       \* the gap-fill tasks
  \* history
  forfeited   \* trades given up on by one of the causes named below

mysqlVars == <<stored, lastRow, lastSrc>>
loopVars  == <<phase, lastEvent, dropped, pending>>
vars == <<now, ledger, wire, faultsLeft, stored, lastRow, lastSrc, phase,
          buffer, lastEvent, dropped, pending, fill, forfeited>>

-----------------------------------------------------------------------------
Trades == DOMAIN ledger
Lesser(a, b) == IF a <= b THEN a ELSE b
Elements(s) == {s[k] : k \in DOMAIN s}

\* down: no process.  offline: about to connect.  online: receiving.
\* broken: an exception left the connection, the flush that precedes the
\* retry has not run.  closing: MySQLWriter.close is emptying the buffer.
\* failed: close raised, the process is about to end.
Phases == {"down", "offline", "online", "broken", "closing", "failed"}

Idle == [st |-> "idle", lo |-> 0, hi |-> 0, rows |-> <<>>]

InWindow(f, i) == f.lo <= ledger[i] /\ ledger[i] < f.hi

\* The trades a gap-fill task still stands for: before the REST answer every
\* trade of its window, after it the rows it is about to insert.
Covers(f, i) == \/ f.st = "fetching" /\ InWindow(f, i)
                \/ f.st = "fetched" /\ i \in Elements(f.rows)
Covered == {i \in Trades : \E s \in Slots : Covers(fill[s], i)}

\* Trades that only a later repair can still bring in.
Exposed == Trades \ (stored \cup forfeited \cup Elements(buffer) \cup Covered)

Fault(kind) == /\ kind \in Faults
               /\ faultsLeft > 0
               /\ faultsLeft' = faultsLeft - 1

-----------------------------------------------------------------------------
(* MySQL *)

\* INSERT IGNORE of the rows at the indices `applied': keys already there are
\* left alone, the last new row becomes the one with the largest trade_id.
InsertIgnore(rows, applied, src) ==
  LET fresh == {k \in applied : rows[k] \notin stored}
  IN /\ stored' = stored \cup {rows[k] : k \in applied}
     /\ IF fresh = {} THEN UNCHANGED <<lastRow, lastSrc>>
        ELSE /\ \E k \in fresh : /\ \A j \in fresh : j <= k
                                 /\ lastRow' = rows[k]
             /\ lastSrc' = src

\* What one flush() may do to the buffer's first rows.  `popped' rows leave
\* the buffer, `applied' of them reach the table.  Without an error whole
\* batches go until the buffer is empty or MaxBatches are written.  An error in
\* the batch after k rows ends the flush: the batch goes back to the front, or,
\* when rollback() or reconnect() raises first, it is lost and flush raises.
\* Either way MySQL may have committed it before the acknowledgement was lost.
Quota == Lesser(BatchSize * MaxBatches, Len(buffer))
BatchEnd(k) == Lesser(k + BatchSize, Len(buffer))
CleanFlush == [applied |-> Quota, popped |-> Quota, raised |-> FALSE]
FailedFlushes ==
  {[applied |-> a, popped |-> p, raised |-> r] :
     a \in 0..Len(buffer), p \in 0..Len(buffer), r \in BOOLEAN}
FailsAt(o, k) == /\ k < Quota
                 /\ k % BatchSize = 0
                 /\ o.applied \in {k, BatchEnd(k)}
                 /\ o.popped = IF o.raised THEN BatchEnd(k) ELSE k

\* Variants of flush() with a plausible bug: a failed batch is put back behind
\* the rows that follow it; a failed batch is not put back.
FlushRequeuesBehind(o) ==
  LET failed == BatchEnd(o.popped) IN
  /\ \/ o = CleanFlush /\ UNCHANGED faultsLeft
     \/ o \in FailedFlushes /\ (\E k \in 0..Len(buffer) : FailsAt(o, k)) /\ Fault("mysql")
  /\ InsertIgnore(buffer, 1..o.applied, "ws")
  /\ buffer' = IF o = CleanFlush \/ o.raised THEN SubSeq(buffer, o.popped + 1, Len(buffer))
               ELSE SubSeq(buffer, failed + 1, Len(buffer)) \o SubSeq(buffer, o.popped + 1, failed)
  /\ forfeited' = forfeited \cup {buffer[k] : k \in (o.applied + 1)..o.popped}
FlushDropsBatch(o) ==
  /\ \/ o = CleanFlush /\ UNCHANGED faultsLeft
     \/ o \in FailedFlushes /\ (\E k \in 0..Len(buffer) : FailsAt(o, k)) /\ Fault("mysql")
  /\ InsertIgnore(buffer, 1..o.applied, "ws")
  /\ buffer' = SubSeq(buffer, (IF o = CleanFlush THEN o.popped ELSE BatchEnd(o.popped)) + 1, Len(buffer))
  /\ forfeited' = forfeited \cup {buffer[k] : k \in (o.applied + 1)..o.popped}

Flush(o) ==
  /\ \/ o = CleanFlush /\ UNCHANGED faultsLeft
     \/ o \in FailedFlushes /\ (\E k \in 0..Len(buffer) : FailsAt(o, k)) /\ Fault("mysql")
  /\ InsertIgnore(buffer, 1..o.applied, "ws")
  /\ buffer' = SubSeq(buffer, o.popped + 1, Len(buffer))
  /\ forfeited' = forfeited \cup {buffer[k] : k \in (o.applied + 1)..o.popped}

FlushOutcomes == {CleanFlush} \cup FailedFlushes
-----------------------------------------------------------------------------
(* The process: start, connect, receive, flush *)

\* Variant with a plausible bug: the margin is taken off twice.
StartTwoMargins ==
  /\ phase = "down"
  /\ \/ /\ lastRow # NONE /\ now - ledger[lastRow] <= StartupMax
        /\ pending' = ledger[lastRow] - 2 * Margin
        /\ UNCHANGED <<forfeited, faultsLeft>>
     \/ /\ lastRow # NONE => now - ledger[lastRow] > StartupMax
        /\ pending' = NONE
        /\ forfeited' = forfeited \cup Exposed
        /\ UNCHANGED faultsLeft
  /\ phase' = "offline"
  /\ lastEvent' = NONE
  /\ dropped' = NONE
  /\ UNCHANGED <<now, ledger, wire, stored, lastRow, lastSrc, buffer, fill>>

\* subscribe_upbit before its loop: the newest row decides whether the outage
\* is repaired.  No row, a query that failed, or too long an outage: it is not,
\* and the trades missing then are given up.
Start ==
  /\ phase = "down"
  /\ \/ /\ lastRow # NONE /\ now - ledger[lastRow] <= StartupMax
        /\ pending' = ledger[lastRow] - Margin
        /\ UNCHANGED <<forfeited, faultsLeft>>
     \/ /\ \/ lastRow = NONE /\ UNCHANGED faultsLeft
           \/ lastRow # NONE /\ now - ledger[lastRow] > StartupMax /\ UNCHANGED faultsLeft
           \/ lastRow # NONE /\ Fault("mysql")
        /\ pending' = NONE
        /\ forfeited' = forfeited \cup Exposed
  /\ phase' = "offline"
  /\ lastEvent' = NONE
  /\ dropped' = NONE
  /\ UNCHANGED <<now, ledger, wire, stored, lastRow, lastSrc, buffer, fill>>

\* Variant with a plausible bug: the gap is taken to begin where the connection
\* was noticed to be lost, not where its last trade was.
ResumeFromDrop == (IF pending # NONE THEN pending + Margin ELSE dropped) - Margin

\* The lower end of the window the next connection will repair.
Resume == IF pending # NONE THEN pending
          ELSE (IF lastEvent = NONE THEN dropped ELSE Lesser(lastEvent, dropped)) - Margin

\* What a connection opened without a startup window gives up: before the first
\* trade of this process nothing remembers where the hole began.
Unanchored(lo) == IF pending = NONE /\ lastEvent = NONE
                  THEN {i \in Exposed : ledger[i] < lo} ELSE {}

\* Variant with a plausible bug: the window ends at the connection, without the
\* margin.
ConnectWithoutMargin ==
  /\ phase = "offline"
  /\ phase' = "online"
  /\ wire' = {}
  /\ IF pending = NONE /\ dropped = NONE
     THEN /\ forfeited' = forfeited \cup Exposed
          /\ UNCHANGED <<fill, pending, dropped>>
     ELSE /\ \E s \in Slots :
               /\ fill[s] = Idle
               /\ fill' = [fill EXCEPT ![s] = [st |-> "fetching", lo |-> Resume, hi |-> now, rows |-> <<>>]]
          /\ forfeited' = forfeited \cup Unanchored(Resume)
          /\ pending' = NONE
          /\ dropped' = IF pending # NONE THEN dropped ELSE NONE
  /\ UNCHANGED <<now, ledger, faultsLeft, stored, lastRow, lastSrc, buffer, lastEvent>>

\* Connected and subscribed: open the repair window, if there is one to open.
Connect ==
  /\ phase = "offline"
  /\ phase' = "online"
  /\ wire' = {}
  /\ IF pending = NONE /\ dropped = NONE
     THEN /\ forfeited' = forfeited \cup Exposed
          /\ UNCHANGED <<fill, pending, dropped>>
     ELSE /\ \E s \in Slots :
               /\ fill[s] = Idle
               /\ fill' = [fill EXCEPT ![s] = [st |-> "fetching", lo |-> Resume,
                                               hi |-> now + Margin, rows |-> <<>>]]
          /\ forfeited' = forfeited \cup Unanchored(Resume)
          /\ pending' = NONE
          /\ dropped' = IF pending # NONE THEN dropped ELSE NONE
  /\ UNCHANGED <<now, ledger, faultsLeft, stored, lastRow, lastSrc, buffer, lastEvent>>

\* A trade arrives, later than one executed at most Reorder after it.
Receive(i) ==
  /\ phase = "online"
  /\ i \in wire
  /\ \A j \in wire : ledger[i] <= ledger[j] + Reorder
  /\ wire' = wire \ {i}
  /\ buffer' = Append(buffer, i)
  /\ lastEvent' = IF lastEvent = NONE \/ ledger[i] > lastEvent THEN ledger[i] ELSE lastEvent
  /\ UNCHANGED <<now, ledger, faultsLeft, stored, lastRow, lastSrc, phase, dropped, pending, fill, forfeited>>

\* The periodic flush of the receive loop.  If it raises, the handler around
\* the connection closes it and notes the time.
FlushTick ==
  /\ phase = "online"
  /\ \E o \in FlushOutcomes :
       /\ Flush(o)
       /\ IF o.raised THEN /\ phase' = "broken" /\ wire' = {} /\ dropped' = now
                      ELSE UNCHANGED <<phase, wire, dropped>>
  /\ UNCHANGED <<now, ledger, lastEvent, pending, fill>>

\* The connection is lost, or could not be opened.
Disconnect ==
  /\ phase \in {"online", "offline"}
  /\ Fault("link")
  /\ phase' = "broken"
  /\ wire' = {}
  /\ dropped' = now
  /\ UNCHANGED <<now, ledger, stored, lastRow, lastSrc, buffer, lastEvent, pending, fill, forfeited>>

\* The flush before the retry is outside the try block: raising there leaves
\* the loop for the finally clause of main.
RetryFlush ==
  /\ phase = "broken"
  /\ \E o \in FlushOutcomes : Flush(o) /\ phase' = IF o.raised THEN "closing" ELSE "offline"
  /\ UNCHANGED <<now, ledger, wire, lastEvent, dropped, pending, fill>>

-----------------------------------------------------------------------------
(* Gap-fill *)

\* The ledger is read from the newest trade of the window down to its start.  A
\* page that fails ends it at `cut': the older trades are given up.
Fetch(s, cut) ==
  LET f == fill[s]
      missed == {i \in Trades : InWindow(f, i) /\ ledger[i] < cut}
      rows == {i \in Trades : InWindow(f, i) /\ ledger[i] >= cut}
  IN /\ f.st = "fetching"
     /\ phase \in {"offline", "online"}
     /\ \/ cut = f.lo /\ UNCHANGED faultsLeft
        \/ cut \in (f.lo + 1)..f.hi /\ Fault("rest")
     /\ \E r \in [1..Cardinality(rows) -> rows] :
          /\ Elements(r) = rows
          /\ \A a, b \in DOMAIN r : a < b => r[a] > r[b]
          /\ fill' = [fill EXCEPT ![s] = IF rows = {} THEN Idle
                                         ELSE [f EXCEPT !.st = "fetched", !.rows = r]]
     /\ forfeited' = forfeited \cup (missed \ (stored \cup Elements(buffer) \cup wire))
     /\ UNCHANGED <<now, ledger, wire, stored, lastRow, lastSrc, phase, buffer, lastEvent, dropped, pending>>

\* insert_direct: every batch that fails is skipped, none is tried again.
Direct(s, skipped) ==
  LET rows == fill[s].rows
      applied == {k \in DOMAIN rows : (k - 1) \div BatchSize \notin skipped}
  IN /\ fill[s].st = "fetched"
     /\ phase \in {"offline", "online"}
     /\ IF skipped = {} THEN UNCHANGED faultsLeft ELSE Fault("mysql")
     /\ InsertIgnore(rows, applied, "gapfill")
     /\ fill' = [fill EXCEPT ![s] = Idle]
     /\ forfeited' = forfeited \cup (Elements(rows) \ (stored' \cup Elements(buffer) \cup wire))
     /\ UNCHANGED <<now, ledger, wire, phase, buffer, lastEvent, dropped, pending>>

-----------------------------------------------------------------------------
(* The end of the process *)

\* What dies with the process although the next one will not look for it: the
\* windows of the tasks still running, and buffered trades older than the next
\* window when the newest row is one a gap-fill wrote.
Unfinished == Covered \ stored
Stranded == IF lastRow # NONE /\ lastSrc = "gapfill"
            THEN {i \in Elements(buffer) \ stored : ledger[i] < ledger[lastRow] - Margin}
            ELSE {}

Exit ==
  /\ phase' = "down"
  /\ wire' = {}
  /\ buffer' = <<>>
  /\ fill' = [s \in Slots |-> Idle]
  /\ lastEvent' = NONE
  /\ dropped' = NONE
  /\ pending' = NONE
  /\ forfeited' = forfeited \cup Unfinished \cup Stranded

Kill ==
  /\ phase # "down"
  /\ Fault("kill")
  /\ Exit
  /\ UNCHANGED <<now, ledger, stored, lastRow, lastSrc>>

\* SIGTERM: the loop ends at its next test of shutdown_event.
Stop ==
  /\ phase \in {"online", "offline", "broken"}
  /\ Fault("stop")
  /\ phase' = "closing"
  /\ wire' = {}
  /\ UNCHANGED <<now, ledger, stored, lastRow, lastSrc, buffer, lastEvent, dropped, pending, fill, forfeited>>

\* MySQLWriter.close flushes until the buffer is empty; asyncio.run then cancels
\* the tasks still running.
CloseFlush ==
  /\ phase = "closing"
  /\ buffer # <<>>
  /\ \E o \in FlushOutcomes : Flush(o) /\ phase' = IF o.raised THEN "failed" ELSE "closing"
  /\ UNCHANGED <<now, ledger, wire, lastEvent, dropped, pending, fill>>

Closed ==
  /\ \/ phase = "closing" /\ buffer = <<>>
     \/ phase = "failed"
  /\ Exit
  /\ UNCHANGED <<now, ledger, faultsLeft, stored, lastRow, lastSrc>>

-----------------------------------------------------------------------------
(* The exchange and the clock *)

\* A trade is executed; a live connection pushes it.
Execute ==
  /\ Len(ledger) < MaxTrades
  /\ ledger' = Append(ledger, now)
  /\ wire' = IF phase = "online" THEN wire \cup {Len(ledger) + 1} ELSE wire
  /\ UNCHANGED <<now, faultsLeft, stored, lastRow, lastSrc, phase, buffer,
                 lastEvent, dropped, pending, fill, forfeited>>

Tick ==
  /\ now < MaxTime
  /\ now' = now + 1
  /\ UNCHANGED <<ledger, wire, faultsLeft, stored, lastRow, lastSrc, phase, buffer,
                 lastEvent, dropped, pending, fill, forfeited>>

Init ==
  /\ now = Epoch /\ ledger = <<>> /\ wire = {} /\ faultsLeft = MaxFaults
  /\ stored = {} /\ lastRow = NONE /\ lastSrc = "ws"
  /\ phase = "down" /\ buffer = <<>>
  /\ lastEvent = NONE /\ dropped = NONE /\ pending = NONE
  /\ fill = [s \in Slots |-> Idle]
  /\ forfeited = {}

FetchSome(s) == \E cut \in Epoch - Margin .. MaxTime + Margin : Fetch(s, cut)
DirectSome(s) == \E skipped \in SUBSET (0 .. MaxTrades - 1) : Direct(s, skipped)

Next == \/ Execute \/ Tick
        \/ Start \/ Connect \/ Disconnect \/ FlushTick \/ RetryFlush
        \/ Kill \/ Stop \/ CloseFlush \/ Closed
        \/ \E i \in Trades : Receive(i)
        \/ \E s \in Slots : FetchSome(s) \/ DirectSome(s)

Spec == Init /\ [][Next]_vars

\* The event loop keeps running what is ready, the container is restarted when
\* its process ends, and the connection is tried again every five seconds.
Fairness ==
  /\ WF_vars(Start) /\ WF_vars(Connect) /\ WF_vars(\E i \in Trades : Receive(i))
  /\ WF_vars(FlushTick) /\ WF_vars(RetryFlush) /\ WF_vars(CloseFlush) /\ WF_vars(Closed)
  /\ WF_vars(\E s \in Slots : FetchSome(s)) /\ WF_vars(\E s \in Slots : DirectSome(s))

FairSpec == Spec /\ Fairness

-----------------------------------------------------------------------------
(* Properties *)

Times == Nat \cup {NONE}
Tasks == [st : {"idle", "fetching", "fetched"}, lo : Nat, hi : Nat, rows : Seq(Nat)]

\* Every variable has the type of the Python value it stands for.
TypeOK ==
  /\ now \in Nat /\ ledger \in Seq(Nat) /\ wire \subseteq Trades /\ faultsLeft \in Nat
  /\ stored \subseteq Trades /\ lastRow \in stored \cup {NONE} /\ lastSrc \in {"ws", "gapfill"}
  /\ phase \in Phases /\ buffer \in Seq(Nat) /\ Elements(buffer) \subseteq Trades
  /\ {lastEvent, dropped, pending} \subseteq Times
  /\ fill \in [Slots -> Tasks] /\ (\A s \in Slots : Elements(fill[s].rows) \subseteq Trades)
  /\ forfeited \subseteq Trades

\* While the producer is connected, a trade it does not hold and no repair task
\* stands for is still on the wire: whatever was lost before this connection
\* (in the gap, with an old connection, with a process that died) is in a window
\* opened by subscribe_upbit or was given up by a cause this module names.
LiveHolesAreCovered == phase = "online" => Exposed \subseteq wire

\* While it is disconnected, the window the next connection will open starts
\* early enough to reach every missing trade (min(last_event_ms,
\* disconnected_ms) - GAPFILL_MARGIN_MS, or the startup bound).
NextWindowReaches ==
  phase \in {"offline", "broken"} /\ (pending # NONE \/ lastEvent # NONE)
    => \A i \in Exposed : ledger[i] >= Resume

\* At every moment, if the process dies now, the window computed at the next
\* start from the newest row reaches every trade missing: rows enter MySQL in an
\* order that never puts the newest row ahead of a hole by more than the margin.
RestartReaches ==
  lastRow # NONE => \A i \in Exposed : ledger[i] + Margin >= ledger[lastRow]

\* Every trade the exchange executes is eventually stored, or given up by a
\* cause named here: no trade stays forgotten in the buffer or in a task.
EventuallySettled ==
  \A i \in 1..MaxTrades : (i \in Trades) ~> (i \in stored \cup forfeited)

\* What docs/20 and the comment over GAPFILL_ENABLED promise of a restart: with
\* nothing left to do, no trade is missing behind one that is stored.
Quiet == /\ phase = "online" /\ wire = {} /\ buffer = <<>>
         /\ \A s \in Slots : fill[s] = Idle
RestartLeavesNoHole ==
  Quiet => \A i \in Trades : (\E j \in stored : ledger[j] < ledger[i]) => i \in stored
=============================================================================
