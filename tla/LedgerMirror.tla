---------------------------- MODULE LedgerMirror ----------------------------
(***************************************************************************)
(* The way of the order ledger from MySQL to ClickHouse: the statements of *)
(* the virtual trader in the binlog, the ledger connector that sends them  *)
(* to one Kafka topic per table, and the Kafka engine tables that insert   *)
(* them into ReplacingMergeTree(version, is_deleted)  (mysql/ledger.sql,   *)
(* debezium/ledger-connector-config.json, clickhouse/ledger.sql).          *)
(*                                                                         *)
(* Both hops deliver at least once: the connector and the Kafka engine     *)
(* store how far they are after the fact, and resume from there.  A row is *)
(* its version; an event is its position in the binlog.  ClickHouse is     *)
(* read with FINAL, so a table is the winning row of each key; parts and   *)
(* merges do not show.                                                     *)
(***************************************************************************)
EXTENDS Naturals, Sequences, FiniteSets

CONSTANTS
  Orders, Fills,   \* keys of virtual_orders and of virtual_fills
  Reinserts,       \* TRUE: a deleted order may be inserted again
  SameTick,        \* TRUE: a fill may be deleted in the tick it was inserted in
  MaxEvents, MaxTime, MaxCrashes,   \* bounds
  NONE

ASSUME ParameterAssumption ==
  /\ Orders \cap Fills = {}
  /\ {Reinserts, SameTick} \subseteq BOOLEAN
  /\ {MaxEvents, MaxTime, MaxCrashes} \subseteq Nat

ASSUME NoneAssumption == NONE \notin Nat \cup [version : Nat, is_deleted : BOOLEAN, state : Nat]

Keys == Orders \cup Fills
Tables == {"orders", "fills"}
Table(k) == IF k \in Orders THEN "orders" ELSE "fills"

VARIABLES
  now,                \* MySQL's clock
  rows,               \* the version of each row, or NONE
  binlog,
  captured, flushed,  \* the connector: sent so far, and known to the offset topic
  topic,              \* the events of each topic, as positions of the binlog
  polled, committed,  \* the Kafka engine: inserted so far, and committed
  mirror,             \* the winning row of each key in ClickHouse
  crashes,
  past                \* history: the states of each row, as ClickHouse stamps them

source == <<now, rows, binlog, past>>
connector == <<captured, flushed>>
engine == <<polled, committed, mirror>>
vars == <<source, connector, topic, engine, crashes>>

-----------------------------------------------------------------------------
(* The materialized views: what a change event becomes in ClickHouse.       *)

\* Variant with a plausible bug: a tombstone takes the version of the row.
VersionOfBefore(e) == IF e.key \in Orders THEN e.version ELSE e.ts

\* The version a row competes with: that of the ledger, one more for a
\* tombstone; for a fill, which never changes, the time of the statement.
Version(e) == IF e.key \in Orders THEN e.version + (IF e.op = "d" THEN 1 ELSE 0) ELSE e.ts

\* Variant with a plausible bug: a deletion is inserted like any other row.
RowNeverDeleted(e) == [version |-> Version(e), is_deleted |-> FALSE, state |-> e.version]

Row(e) == [version |-> Version(e), is_deleted |-> e.op = "d", state |-> e.version]

\* The row after the event, and as a state of its history.
After(e) == IF e.op = "d" THEN NONE ELSE e.version
Stamp(e) == [version |-> Version(e), state |-> After(e)]

\* ReplacingMergeTree: the highest version wins, among equal ones the last inserted.
Winner(old, new) == IF old = NONE \/ new.version >= old.version THEN new ELSE old

\* SELECT ... FINAL
Final(k) == IF mirror[k] = NONE \/ mirror[k].is_deleted THEN NONE ELSE mirror[k].state

-----------------------------------------------------------------------------
(* MySQL: the statements of the virtual trader.                             *)

Write(k, op, version) ==
  LET e == [key |-> k, op |-> op, version |-> version, ts |-> now] IN
  /\ Len(binlog) < MaxEvents
  /\ rows' = [rows EXCEPT ![k] = After(e)]
  /\ binlog' = Append(binlog, e)
  /\ past' = [past EXCEPT ![k] = Append(@, Stamp(e))]
  /\ UNCHANGED <<now, connector, topic, engine, crashes>>

\* UPSERT_ORDER on a new order, INSERT IGNORE of a fill: the exchange gives each its
\* own id.  But a report of an order that apply_reset has deleted while it lives
\* inserts it again, from version 1.
Insert(k) ==
  /\ rows[k] = NONE
  /\ past[k] = <<>> \/ (Reinserts /\ k \in Orders)
  /\ Write(k, "c", 1)

\* UPSERT_ORDER on an order a later report changes; one that changes nothing is not
\* in the binlog.
Update(k) ==
  /\ k \in Orders
  /\ rows[k] # NONE
  /\ Write(k, "u", rows[k] + 1)

\* A row of the DELETEs of apply_reset.
InsertedNow(k) == past[k][Len(past[k])].version = now
Delete(k) ==
  /\ rows[k] # NONE
  /\ k \in Fills => SameTick \/ ~InsertedNow(k)
  /\ Write(k, "d", rows[k])

Tick ==
  /\ now < MaxTime
  /\ now' = now + 1
  /\ UNCHANGED <<rows, binlog, past, connector, topic, engine, crashes>>

-----------------------------------------------------------------------------
(* The ledger connector.                                                    *)

\* The next event of the binlog goes to the topic of its table.
Capture ==
  /\ captured < Len(binlog)
  /\ captured' = captured + 1
  /\ topic' = [topic EXCEPT ![Table(binlog[captured + 1].key)] = Append(@, captured + 1)]
  /\ UNCHANGED <<source, flushed, engine, crashes>>

FlushOffsets ==
  /\ flushed < captured
  /\ flushed' = captured
  /\ UNCHANGED <<source, captured, topic, engine, crashes>>

ConnectorRestart ==
  /\ crashes < MaxCrashes
  /\ crashes' = crashes + 1
  /\ captured' = flushed
  /\ UNCHANGED <<source, flushed, topic, engine>>

-----------------------------------------------------------------------------
(* The Kafka engine tables and their materialized views.                    *)

\* A message is inserted; then, some time, its offset is committed.
Consume(t) ==
  /\ polled[t] < Len(topic[t])
  /\ polled' = [polled EXCEPT ![t] = @ + 1]
  /\ LET e == binlog[topic[t][polled[t] + 1]]
     IN  mirror' = [mirror EXCEPT ![e.key] = Winner(@, Row(e))]
  /\ UNCHANGED <<source, connector, topic, committed, crashes>>

\* Variant with a plausible bug: what has been fetched is committed, not only what
\* has been inserted.
CommitFetched(t) ==
  /\ committed[t] < Len(topic[t])
  /\ committed' = [committed EXCEPT ![t] = Len(topic[t])]
  /\ UNCHANGED <<source, connector, topic, polled, mirror, crashes>>

Commit(t) ==
  /\ committed[t] < polled[t]
  /\ committed' = [committed EXCEPT ![t] = polled[t]]
  /\ UNCHANGED <<source, connector, topic, polled, mirror, crashes>>

EngineRestart ==
  /\ crashes < MaxCrashes
  /\ crashes' = crashes + 1
  /\ polled' = committed
  /\ UNCHANGED <<source, connector, topic, committed, mirror>>

-----------------------------------------------------------------------------
Init ==
  /\ now = 0 /\ crashes = 0
  /\ rows = [k \in Keys |-> NONE] /\ binlog = <<>> /\ past = [k \in Keys |-> <<>>]
  /\ captured = 0 /\ flushed = 0
  /\ topic = [t \in Tables |-> <<>>]
  /\ polled = [t \in Tables |-> 0] /\ committed = [t \in Tables |-> 0]
  /\ mirror = [k \in Keys |-> NONE]

Next ==
  \/ Tick \/ Capture \/ FlushOffsets \/ ConnectorRestart \/ EngineRestart
  \/ \E k \in Keys : Insert(k) \/ Update(k) \/ Delete(k)
  \/ \E t \in Tables : Consume(t) \/ Commit(t)

Spec == Init /\ [][Next]_vars

\* Connector and engine go on with what there is.
FairSpec == Spec /\ WF_vars(Capture) /\ \A t \in Tables : WF_vars(Consume(t))

-----------------------------------------------------------------------------
(* Properties.                                                              *)

Event == [key : Keys, op : {"c", "u", "d"}, version : Nat, ts : Nat]
MirrorRow == [version : Nat, is_deleted : BOOLEAN, state : Nat]

\* Every variable has its type, and positions lie within what they point into.
TypeOK ==
  /\ now \in Nat /\ crashes \in Nat
  /\ rows \in [Keys -> Nat \cup {NONE}]
  /\ binlog \in Seq(Event)
  /\ past \in [Keys -> Seq([version : Nat, state : Nat \cup {NONE}])]
  /\ captured \in 0 .. Len(binlog) /\ flushed \in 0 .. captured
  /\ topic \in [Tables -> Seq(Nat)]
  /\ \A t \in Tables : \A q \in DOMAIN topic[t] : topic[t][q] \in DOMAIN binlog
  /\ polled \in [Tables -> Nat] /\ committed \in [Tables -> Nat]
  /\ \A t \in Tables : committed[t] <= polled[t] /\ polled[t] <= Len(topic[t])
  /\ mirror \in [Keys -> MirrorRow \cup {NONE}]

\* The mirror as a mirror of rows: what FINAL shows is a state the row had, and
\* never an earlier one than was shown before, whatever was sent or inserted again.
Seen(k) == IF mirror[k] = NONE THEN 0
           ELSE CHOOSE n \in DOMAIN past[k] : past[k][n].version = mirror[k].version
Mirror == INSTANCE RowMirror WITH
  Keys <- Keys, Absent <- NONE,
  past <- [k \in Keys |-> [n \in DOMAIN past[k] |-> past[k][n].state]],
  seen <- [k \in Keys |-> Seen(k)],
  view <- [k \in Keys |-> Final(k)]
MirrorsRows == Mirror!Spec

\* When the connector has sent the whole binlog and the engine has inserted all of
\* it, ClickHouse shows MySQL's rows: what the three-way reconciliation compares.
CaughtUp == captured = Len(binlog) /\ \A t \in Tables : polled[t] = Len(topic[t])
CaughtUpIsEqual == CaughtUp => \A k \in Keys : Final(k) = rows[k]

\* Every state of a row, or a later one, is shown some day, across restarts of the
\* connector and of ClickHouse.
EveryChangeShows ==
  \A k \in Keys : \A n \in 1 .. MaxEvents : (Len(past[k]) >= n) ~> (Seen(k) >= n)
=============================================================================
