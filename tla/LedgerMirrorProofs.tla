------------------------- MODULE LedgerMirrorProofs -------------------------
(***************************************************************************)
(* Proofs about LedgerMirror: its types, that ClickHouse has MySQL's rows  *)
(* when it has caught up, and that it implements RowMirror, as long as no  *)
(* order comes back after its deletion and no fill is deleted in the tick  *)
(* it was inserted in.                                                     *)
(***************************************************************************)
EXTENDS LedgerMirror, TLAPS, SequenceTheorems

\* The versions of a row rise with its states, and the states are those of the
\* events in the binlog, no more and no fewer.
Rising == \A k \in Keys : \A m, n \in DOMAIN past[k] :
            m < n => past[k][m].version < past[k][n].version
Logged == \A k \in Keys : \A n \in DOMAIN past[k] : \E p \in DOMAIN binlog :
            binlog[p].key = k /\ past[k][n] = Stamp(binlog[p])
Lived == \A p \in DOMAIN binlog : \E n \in DOMAIN past[binlog[p].key] :
            past[binlog[p].key][n] = Stamp(binlog[p])

\* The row in MySQL is in its last state, whose version the next one exceeds.
Last(k) == past[k][Len(past[k])]
RowInv == \A k \in Keys :
  /\ past[k] = <<>> => rows[k] = NONE
  /\ past[k] # <<>> => /\ rows[k] = Last(k).state
                       /\ k \in Orders /\ rows[k] # NONE => Last(k).version = rows[k]
                       /\ k \in Fills => Last(k).version <= now

\* Whatever the connector counts as sent is in its topic.
Sent(p) == \E q \in DOMAIN topic[Table(binlog[p].key)] : topic[Table(binlog[p].key)][q] = p
SentInv == \A p \in 1 .. captured : Sent(p)

\* The winning row is that of an event, and no event the engine counts as inserted
\* beats it.
Won(k) == mirror[k] # NONE => \E p \in DOMAIN binlog :
            binlog[p].key = k /\ mirror[k] = Row(binlog[p])
Beaten(p) == /\ mirror[binlog[p].key] # NONE
             /\ Version(binlog[p]) <= mirror[binlog[p].key].version
MirrorInv ==
  /\ \A k \in Keys : Won(k)
  /\ \A t \in Tables : \A q \in 1 .. polled[t] : Beaten(topic[t][q])

IInv == TypeOK /\ Rising /\ Logged /\ Lived /\ RowInv /\ SentInv /\ MirrorInv

-----------------------------------------------------------------------------
\* The parameters and the operators of an event have their types.
LEMMA EventTyped ==
  ASSUME NEW e \in Event
  PROVE  Version(e) \in Nat /\ Row(e) \in MirrorRow /\ Row(e) # NONE
         /\ Stamp(e) \in [version : Nat, state : Nat \cup {NONE}]
<1>1. Version(e) \in Nat
  BY DEF Event, Version
<1>2. e.version \in Nat
  BY DEF Event
<1>3. Row(e) \in MirrorRow /\ Stamp(e) \in [version : Nat, state : Nat \cup {NONE}]
  BY <1>1, <1>2 DEF Row, MirrorRow, Stamp, After
<1>4. Row(e) # NONE
  BY <1>3, NoneAssumption DEF MirrorRow
<1>. QED
  BY <1>1, <1>3, <1>4

\* What a statement does to the binlog and to the history of the row.
Written(k, op, version) == [key |-> k, op |-> op, version |-> version, ts |-> now]
LEMMA WriteEffect ==
  ASSUME TypeOK, NEW k \in Keys, NEW op \in {"c", "u", "d"}, NEW version \in Nat,
         Write(k, op, version)
  PROVE  /\ Written(k, op, version) \in Event
         /\ binlog' = Append(binlog, Written(k, op, version))
         /\ Len(binlog') = Len(binlog) + 1
         /\ binlog'[Len(binlog) + 1] = Written(k, op, version)
         /\ \A p \in DOMAIN binlog : p \in DOMAIN binlog' /\ binlog'[p] = binlog[p]
         /\ Len(past'[k]) = Len(past[k]) + 1
         /\ past'[k][Len(past[k]) + 1] = Stamp(Written(k, op, version))
         /\ \A n \in DOMAIN past[k] : n \in DOMAIN past'[k] /\ past'[k][n] = past[k][n]
         /\ \A j \in Keys \ {k} : past'[j] = past[j]
         /\ past' = [past EXCEPT ![k] = Append(@, Stamp(Written(k, op, version)))]
         /\ rows' = [rows EXCEPT ![k] = After(Written(k, op, version))]
         /\ UNCHANGED <<now, captured, flushed, topic, polled, committed, mirror, crashes>>
<1>. DEFINE e == Written(k, op, version)
<1>1. e \in Event
  BY DEF TypeOK, Event, Written
<1>2. binlog' = Append(binlog, e) /\ past' = [past EXCEPT ![k] = Append(@, Stamp(e))]
      /\ rows' = [rows EXCEPT ![k] = After(e)]
      /\ UNCHANGED <<now, captured, flushed, topic, polled, committed, mirror, crashes>>
  BY DEF Write, Written, connector, engine
<1>3. binlog \in Seq(Event) /\ past[k] \in Seq([version : Nat, state : Nat \cup {NONE}])
      /\ past \in [Keys -> Seq([version : Nat, state : Nat \cup {NONE}])]
  BY DEF TypeOK
<1>4. Stamp(e) \in [version : Nat, state : Nat \cup {NONE}]
  BY <1>1, EventTyped
<1>5. past'[k] = Append(past[k], Stamp(e)) /\ \A j \in Keys \ {k} : past'[j] = past[j]
  BY <1>2, <1>3
<1>6. /\ Len(binlog') = Len(binlog) + 1 /\ binlog'[Len(binlog) + 1] = e
      /\ \A p \in DOMAIN binlog : p \in DOMAIN binlog' /\ binlog'[p] = binlog[p]
  <2>. HIDE DEF e
  <2>. QED BY <1>1, <1>2, <1>3
<1>7. /\ Len(past'[k]) = Len(past[k]) + 1 /\ past'[k][Len(past[k]) + 1] = Stamp(e)
      /\ \A n \in DOMAIN past[k] : n \in DOMAIN past'[k] /\ past'[k][n] = past[k][n]
  <2>. HIDE DEF e
  <2>. QED BY <1>3, <1>4, <1>5
<1>. QED
  BY <1>1, <1>2, <1>5, <1>6, <1>7

LEMMA WriteTyped ==
  ASSUME TypeOK, NEW k \in Keys, NEW op \in {"c", "u", "d"}, NEW version \in Nat,
         Write(k, op, version)
  PROVE  TypeOK'
<1>. DEFINE e == Written(k, op, version)
<1>1. e \in Event /\ After(e) \in Nat \cup {NONE}
      /\ Stamp(e) \in [version : Nat, state : Nat \cup {NONE}]
  BY WriteEffect, EventTyped DEF After, Event
<1>. HIDE DEF e
<1>2. binlog' = Append(binlog, e) /\ past' = [past EXCEPT ![k] = Append(@, Stamp(e))]
      /\ rows' = [rows EXCEPT ![k] = After(e)]
      /\ UNCHANGED <<now, captured, flushed, topic, polled, committed, mirror, crashes>>
  BY WriteEffect DEF e
<1>3. binlog' \in Seq(Event) /\ Len(binlog') = Len(binlog) + 1
      /\ DOMAIN binlog \subseteq DOMAIN binlog'
  <2>1. binlog \in Seq(Event)
    BY DEF TypeOK
  <2>. QED
    BY <1>1, <1>2, <2>1
<1>4. past' \in [Keys -> Seq([version : Nat, state : Nat \cup {NONE}])]
  <2>. DEFINE S == [version : Nat, state : Nat \cup {NONE}]
  <2>1. past \in [Keys -> Seq(S)] /\ Stamp(e) \in S
    BY <1>1 DEF TypeOK
  <2>. HIDE DEF S
  <2>2. Append(past[k], Stamp(e)) \in Seq(S)
    BY <2>1
  <2>3. past' \in [Keys -> Seq(S)]
    BY <1>2, <2>1, <2>2
  <2>. QED
    BY <2>3 DEF S
<1>5. rows' \in [Keys -> Nat \cup {NONE}]
  BY <1>1, <1>2 DEF TypeOK
<1>6. captured' \in 0 .. Len(binlog') /\ flushed' \in 0 .. captured'
  BY <1>2, <1>3 DEF TypeOK
<1>7. \A t \in Tables : \A q \in DOMAIN topic'[t] : topic'[t][q] \in DOMAIN binlog'
  BY <1>2, <1>3 DEF TypeOK
<1>. QED
  BY <1>2, <1>3, <1>4, <1>5, <1>6, <1>7 DEF TypeOK

\* The three statements, as one: a key, an operation and a version of its type.
LEMMA Statement ==
  ASSUME TypeOK, NEW k \in Keys, Insert(k) \/ Update(k) \/ Delete(k)
  PROVE  \E op \in {"c", "u", "d"}, version \in Nat : Write(k, op, version)
<1>1. CASE Insert(k)
  BY <1>1 DEF Insert
<1>2. CASE Update(k)
  <2>1. rows[k] + 1 \in Nat
    BY <1>2 DEF Update, TypeOK
  <2>. QED
    BY <1>2, <2>1 DEF Update
<1>3. CASE Delete(k)
  <2>1. rows[k] \in Nat
    BY <1>3 DEF Delete, TypeOK
  <2>. QED
    BY <1>3, <2>1 DEF Delete
<1>. QED
  BY <1>1, <1>2, <1>3

LEMMA TableOfKey == \A k \in Keys : Table(k) \in Tables
BY DEF Table, Tables

\* The events of the binlog have their type.
LEMMA LogTyped ==
  ASSUME TypeOK, NEW p \in DOMAIN binlog
  PROVE  binlog[p] \in Event /\ binlog[p].key \in Keys
<1>1. binlog \in Seq(Event)
  BY DEF TypeOK
<1>2. binlog[p] \in Event
  BY <1>1
<1>. QED
  BY <1>2 DEF Event

\* The event the connector sends next, and the one the engine inserts next.
LEMMA NextSent ==
  ASSUME TypeOK, captured < Len(binlog)
  PROVE  captured + 1 \in DOMAIN binlog /\ binlog[captured + 1] \in Event
         /\ binlog[captured + 1].key \in Keys
<1>1. captured + 1 \in DOMAIN binlog
  BY DEF TypeOK
<1>. QED
  BY <1>1, LogTyped

LEMMA NextInserted ==
  ASSUME TypeOK, NEW t \in Tables, polled[t] < Len(topic[t])
  PROVE  /\ polled[t] + 1 \in DOMAIN topic[t]
         /\ topic[t][polled[t] + 1] \in DOMAIN binlog
         /\ binlog[topic[t][polled[t] + 1]] \in Event
         /\ binlog[topic[t][polled[t] + 1]].key \in Keys
<1>1. polled[t] \in Nat /\ topic[t] \in Seq(Nat) /\ binlog \in Seq(Event)
  BY DEF TypeOK
<1>2. polled[t] + 1 \in DOMAIN topic[t]
  BY <1>1
<1>3. topic[t][polled[t] + 1] \in DOMAIN binlog
  BY <1>2 DEF TypeOK
<1>. QED
  BY <1>2, <1>3, LogTyped

LEMMA InitTyped == Init => TypeOK
<1>. SUFFICES ASSUME Init PROVE TypeOK
  OBVIOUS
<1>1. binlog \in Seq(Event) /\ Len(binlog) = 0
  BY DEF Init
<1>2. topic \in [Tables -> Seq(Nat)] /\ \A t \in Tables : DOMAIN topic[t] = {} /\ Len(topic[t]) = 0
  BY DEF Init
<1>3. past \in [Keys -> Seq([version : Nat, state : Nat \cup {NONE}])]
  BY DEF Init
<1>. QED
  BY <1>1, <1>2, <1>3 DEF Init, TypeOK

LEMMA StepTyped == TypeOK /\ [Next]_vars => TypeOK'
<1>. SUFFICES ASSUME TypeOK, [Next]_vars PROVE TypeOK'
  OBVIOUS
<1>. USE DEF source, connector, engine
<1>1. CASE Tick
  <2>1. now' \in Nat
    BY <1>1 DEF Tick, TypeOK
  <2>. QED
    BY <1>1, <2>1, Zenon DEF Tick, TypeOK
<1>2. CASE Capture
  <2>. DEFINE t == Table(binlog[captured + 1].key)
  <2>1. captured \in Nat /\ captured + 1 \in DOMAIN binlog /\ t \in Tables
    <3>1. captured < Len(binlog)
      BY <1>2 DEF Capture
    <3>2. binlog[captured + 1].key \in Keys /\ captured + 1 \in DOMAIN binlog
      BY <3>1, NextSent
    <3>3. captured \in Nat
      BY DEF TypeOK
    <3>. QED
      BY <3>2, <3>3, TableOfKey
  <2>2. topic' = [topic EXCEPT ![t] = Append(@, captured + 1)]
        /\ UNCHANGED <<source, flushed, engine, crashes>> /\ captured' = captured + 1
    BY <1>2 DEF Capture
  <2>. HIDE DEF t
  <2>3. topic \in [Tables -> Seq(Nat)] /\ captured' \in 0 .. Len(binlog') /\ flushed' \in 0 .. captured'
    BY <2>1, <2>2 DEF TypeOK
  <2>4. topic' \in [Tables -> Seq(Nat)]
        /\ \A u \in Tables : topic'[u] = IF u = t THEN Append(topic[u], captured + 1) ELSE topic[u]
    BY <2>1, <2>2, <2>3
  <2>5. ASSUME NEW u \in Tables, NEW q \in DOMAIN topic'[u] PROVE topic'[u][q] \in DOMAIN binlog'
    <3>1. topic[u] \in Seq(Nat) /\ \A r \in DOMAIN topic[u] : topic[u][r] \in DOMAIN binlog
      BY DEF TypeOK
    <3>. QED
      BY <2>1, <2>2, <2>4, <2>5, <3>1
  <2>6. ASSUME NEW u \in Tables PROVE polled'[u] <= Len(topic'[u])
    <3>1. topic[u] \in Seq(Nat) /\ polled[u] \in Nat /\ polled[u] <= Len(topic[u])
      BY DEF TypeOK
    <3>. QED
      BY <2>1, <2>2, <2>4, <3>1
  <2>. QED
    BY <2>2, <2>3, <2>4, <2>5, <2>6 DEF TypeOK
<1>3. CASE FlushOffsets
  <2>1. flushed' \in 0 .. captured'
    BY <1>3 DEF FlushOffsets, TypeOK
  <2>. QED
    BY <1>3, <2>1, Zenon DEF FlushOffsets, TypeOK
<1>4. CASE ConnectorRestart
  <2>1. captured' \in 0 .. Len(binlog') /\ flushed' \in 0 .. captured' /\ crashes' \in Nat
    BY <1>4 DEF ConnectorRestart, TypeOK
  <2>. QED
    BY <1>4, <2>1, Zenon DEF ConnectorRestart, TypeOK
<1>5. CASE EngineRestart
  <2>1. ASSUME NEW t \in Tables
        PROVE  committed'[t] <= polled'[t] /\ polled'[t] <= Len(topic'[t])
    <3>1. /\ committed[t] \in Nat /\ polled[t] \in Nat /\ Len(topic[t]) \in Nat
          /\ committed[t] <= polled[t] /\ polled[t] <= Len(topic[t])
      BY DEF TypeOK
    <3>. QED
      BY <1>5, <3>1 DEF EngineRestart
  <2>2. crashes' \in Nat
    BY <1>5 DEF EngineRestart, TypeOK
  <2>. QED
    BY <1>5, <2>1, <2>2, Zenon DEF EngineRestart, TypeOK
<1>6. ASSUME NEW k \in Keys, Insert(k) \/ Update(k) \/ Delete(k) PROVE TypeOK'
  BY <1>6, Statement, WriteTyped
<1>7. ASSUME NEW t \in Tables, Consume(t) PROVE TypeOK'
  <2>. DEFINE e == binlog[topic[t][polled[t] + 1]]
  <2>1. e.key \in Keys /\ Row(e) \in MirrorRow
    BY <1>7, NextInserted, EventTyped DEF Consume
  <2>2. mirror' = [mirror EXCEPT ![e.key] = Winner(@, Row(e))]
        /\ polled' = [polled EXCEPT ![t] = @ + 1] /\ polled[t] < Len(topic[t])
        /\ UNCHANGED <<source, connector, topic, committed, crashes>>
    BY <1>7 DEF Consume
  <2>. HIDE DEF e
  <2>3. mirror' \in [Keys -> MirrorRow \cup {NONE}]
    BY <2>1, <2>2 DEF TypeOK, Winner
  <2>4. polled' \in [Tables -> Nat]
        /\ \A u \in Tables : committed'[u] <= polled'[u] /\ polled'[u] <= Len(topic'[u])
    BY <2>2 DEF TypeOK
  <2>. QED
    BY <2>2, <2>3, <2>4 DEF TypeOK
<1>8. ASSUME NEW t \in Tables, Commit(t) PROVE TypeOK'
  <2>1. committed' \in [Tables -> Nat]
        /\ \A u \in Tables : committed'[u] <= polled'[u] /\ polled'[u] <= Len(topic'[u])
    BY <1>8 DEF Commit, TypeOK
  <2>. QED
    BY <1>8, <2>1, Zenon DEF Commit, TypeOK
<1>9. CASE UNCHANGED vars
  BY <1>9 DEF vars, TypeOK
<1>. QED
  BY <1>1, <1>2, <1>3, <1>4, <1>5, <1>6, <1>7, <1>8, <1>9 DEF Next

\* Types, and positions of connector and engine within what they point into, for any
\* orders and fills and any number of events and restarts.
THEOREM TypeCorrect == Spec => []TypeOK
BY InitTyped, StepTyped, PTL DEF Spec

-----------------------------------------------------------------------------
\* The statements keep the versions of a row rising, and history and binlog in step.
LEMMA WriteRises ==
  ASSUME TypeOK, Rising, Logged, Lived, RowInv,
         NEW k \in Keys, NEW op \in {"c", "u", "d"}, NEW version \in Nat,
         Write(k, op, version),
         past[k] # <<>> => Last(k).version < Version(Written(k, op, version))
  PROVE  Rising' /\ Logged' /\ Lived' /\ RowInv'
<1>. DEFINE e == Written(k, op, version)
            N == Len(past[k]) + 1
            P == Len(binlog) + 1
<1>1. /\ e.key = k /\ e \in Event /\ Stamp(e).version = Version(e) /\ Version(e) \in Nat
      /\ Stamp(e).state = IF op = "d" THEN NONE ELSE version
      /\ k \in Orders /\ op # "d" => Version(e) = version
      /\ k \in Fills => Version(e) = now
  <2>1. e \in Event /\ Version(e) \in Nat
    BY WriteEffect, EventTyped
  <2>. QED
    BY <2>1, ParameterAssumption DEF Written, Stamp, After, Version
<1>2. /\ past[k] # <<>> => Last(k).version < Version(e)
      /\ binlog'[P] = e /\ past'[k][N] = Stamp(e)
      /\ \A p \in DOMAIN binlog : p \in DOMAIN binlog' /\ binlog'[p] = binlog[p]
      /\ \A n \in DOMAIN past[k] : n \in DOMAIN past'[k] /\ past'[k][n] = past[k][n]
      /\ \A j \in Keys \ {k} : past'[j] = past[j]
      /\ rows' = [rows EXCEPT ![k] = Stamp(e).state] /\ now' = now
  BY WriteEffect DEF Stamp
<1>. HIDE DEF e
<1>3. past[k] \in Seq([version : Nat, state : Nat \cup {NONE}]) /\ binlog \in Seq(Event)
  BY DEF TypeOK
<1>4. /\ DOMAIN past[k] = 1 .. Len(past[k]) /\ Len(past[k]) \in Nat
      /\ DOMAIN binlog = 1 .. Len(binlog) /\ Len(binlog) \in Nat
      /\ \A n \in DOMAIN past[k] : past[k][n].version \in Nat
      /\ past[k] # <<>> => Len(past[k]) \in DOMAIN past[k]
  <2>. DEFINE S == [version : Nat, state : Nat \cup {NONE}]
  <2>1. /\ DOMAIN past[k] = 1 .. Len(past[k]) /\ Len(past[k]) \in Nat
        /\ DOMAIN binlog = 1 .. Len(binlog) /\ Len(binlog) \in Nat
        /\ \A n \in DOMAIN past[k] : past[k][n] \in S
        /\ past[k] # <<>> => Len(past[k]) \in DOMAIN past[k]
    <3>1. past[k] \in Seq(S)
      BY <1>3
    <3>. HIDE DEF S
    <3>. QED
      BY <1>3, <3>1
  <2>. QED
    BY <2>1
<1>5. DOMAIN past'[k] = 1 .. N /\ DOMAIN binlog' = 1 .. P /\ Len(past'[k]) = N
  <2>1. past'[k] = Append(past[k], Stamp(e)) /\ binlog' = Append(binlog, e)
    <3>1. past' = [past EXCEPT ![k] = Append(@, Stamp(e))] /\ binlog' = Append(binlog, e)
      BY WriteEffect DEF e
    <3>2. k \in DOMAIN past
      BY DEF TypeOK
    <3>. QED
      BY <3>1, <3>2
  <2>. QED
    BY <1>3, <1>4, <2>1
<1>. HIDE DEF N, P
<1>6. ASSUME NEW n \in DOMAIN past[k] PROVE past[k][n].version < Stamp(e).version
  <2>1. past[k] # <<>> /\ Len(past[k]) \in DOMAIN past[k]
    BY <1>4
  <2>2. n <= Len(past[k])
    BY <1>4
  <2>3. n = Len(past[k]) \/ past[k][n].version < Last(k).version
    BY <1>4, <2>1, <2>2 DEF Rising, Last
  <2>4. Last(k).version < Stamp(e).version /\ Last(k).version \in Nat
    BY <1>1, <1>2, <1>4, <2>1 DEF Last
  <2>. QED
    BY <1>1, <1>4, <2>3, <2>4 DEF Last
<1>7. Rising'
  <2>. SUFFICES ASSUME NEW j \in Keys, NEW m \in DOMAIN past'[j], NEW n \in DOMAIN past'[j], m < n
                PROVE  past'[j][m].version < past'[j][n].version
    BY DEF Rising
  <2>1. CASE j # k
    BY <1>2, <2>1 DEF Rising
  <2>2. CASE j = k /\ n = N
    <3>1. m \in DOMAIN past[k]
      BY <1>4, <1>5, <2>2 DEF N
    <3>. QED
      BY <1>2, <1>6, <2>2, <3>1
  <2>3. CASE j = k /\ n # N
    <3>1. m \in DOMAIN past[k] /\ n \in DOMAIN past[k]
      BY <1>4, <1>5, <2>3 DEF N
    <3>. QED
      BY <1>2, <2>3, <3>1 DEF Rising
  <2>. QED
    BY <2>1, <2>2, <2>3
<1>8. Logged'
  <2>. SUFFICES ASSUME NEW j \in Keys, NEW n \in DOMAIN past'[j]
                PROVE  \E p \in DOMAIN binlog' : binlog'[p].key = j /\ past'[j][n] = Stamp(binlog'[p])
    BY DEF Logged, Stamp, Version, After
  <2>1. CASE j = k /\ n = N
    BY <1>1, <1>2, <1>4, <1>5, <2>1 DEF P
  <2>2. CASE ~(j = k /\ n = N)
    <3>1. n \in DOMAIN past[j] /\ past'[j][n] = past[j][n]
      BY <1>2, <1>4, <1>5, <2>2 DEF N
    <3>2. PICK p \in DOMAIN binlog : binlog[p].key = j /\ past[j][n] = Stamp(binlog[p])
      BY <3>1 DEF Logged
    <3>. QED
      BY <1>2, <3>1, <3>2
  <2>. QED
    BY <2>1, <2>2
<1>9. Lived'
  <2>. SUFFICES ASSUME NEW p \in DOMAIN binlog'
                PROVE  \E n \in DOMAIN past'[binlog'[p].key] : past'[binlog'[p].key][n] = Stamp(binlog'[p])
    BY DEF Lived, Stamp, Version, After
  <2>1. CASE p = P
    BY SMTT(30), <1>1, <1>2, <1>4, <1>5, <2>1 DEF N
  <2>2. CASE p # P
    <3>1. p \in DOMAIN binlog /\ binlog'[p] = binlog[p] /\ binlog[p].key \in Keys
      BY <1>2, <1>4, <1>5, <2>2, LogTyped DEF P
    <3>2. PICK n \in DOMAIN past[binlog[p].key] : past[binlog[p].key][n] = Stamp(binlog[p])
      BY <3>1 DEF Lived
    <3>. QED
      BY <1>2, <3>1, <3>2
  <2>. QED
    BY <2>1, <2>2
<1>10. RowInv'
  <2>1. rows \in [Keys -> Nat \cup {NONE}]
    BY DEF TypeOK
  <2>2. ASSUME NEW j \in Keys \ {k}
        PROVE  past'[j] = past[j] /\ rows'[j] = rows[j] /\ Last(j)' = Last(j) /\ now' = now
    BY <1>2, <2>1, <2>2 DEF Last
  <2>3. rows'[k] = Stamp(e).state /\ Last(k)' = Stamp(e) /\ past'[k] # <<>>
    BY <1>2, <1>4, <1>5, <2>1 DEF Last, N
  <2>4. k \in Orders /\ Stamp(e).state # NONE => Stamp(e).version = Stamp(e).state
    BY <1>1
  <2>5. k \in Fills => Stamp(e).version <= now'
    BY <1>1, <1>2 DEF TypeOK
  <2>6. ASSUME NEW j \in Keys
        PROVE  /\ past'[j] = <<>> => rows'[j] = NONE
               /\ past'[j] # <<>> => /\ rows'[j] = Last(j)'.state
                                     /\ j \in Orders /\ rows'[j] # NONE => Last(j)'.version = rows'[j]
                                     /\ j \in Fills => Last(j)'.version <= now'
    <3>1. CASE j = k
      BY <2>3, <2>4, <2>5, <3>1
    <3>2. CASE j # k
      BY <2>2, <3>2 DEF RowInv
    <3>. QED
      BY <3>1, <3>2
  <2>. QED
    BY <2>6 DEF RowInv
<1>. QED
  BY <1>7, <1>8, <1>9, <1>10

LEMMA StatementRises ==
  ASSUME ~Reinserts, ~SameTick, TypeOK, Rising, Logged, Lived, RowInv,
         NEW k \in Keys, Insert(k) \/ Update(k) \/ Delete(k)
  PROVE  Rising' /\ Logged' /\ Lived' /\ RowInv'
<1>1. CASE Insert(k)
  <2>1. past[k] = <<>> /\ Write(k, "c", 1)
    BY <1>1 DEF Insert
  <2>. QED
    BY <2>1, WriteRises
<1>2. ASSUME rows[k] # NONE
      PROVE  /\ rows[k] \in Nat /\ past[k] # <<>>
             /\ k \in Orders => Last(k).version = rows[k]
             /\ k \in Fills => Last(k).version <= now
  BY <1>2 DEF RowInv, TypeOK
<1>3. CASE Update(k)
  <2>1. rows[k] # NONE /\ k \in Orders /\ Write(k, "u", rows[k] + 1)
    BY <1>3 DEF Update
  <2>2. rows[k] + 1 \in Nat /\ Last(k).version < Version(Written(k, "u", rows[k] + 1))
    BY <1>2, <2>1 DEF Version, Written
  <2>. QED
    BY <2>1, <2>2, WriteRises
<1>4. CASE Delete(k)
  <2>1. rows[k] # NONE /\ Write(k, "d", rows[k]) /\ (k \in Fills => Last(k).version # now)
    BY <1>4 DEF Delete, InsertedNow, Last
  <2>2. CASE k \in Orders
    BY <1>2, <2>1, <2>2, WriteRises DEF Version, Written
  <2>3. CASE k \notin Orders
    <3>1. past[k] \in Seq([version : Nat, state : Nat \cup {NONE}]) /\ now \in Nat
      BY DEF TypeOK
    <3>2. Last(k).version \in Nat
      <4>. DEFINE S == [version : Nat, state : Nat \cup {NONE}]
      <4>1. past[k] \in Seq(S) /\ past[k] # <<>>
        BY <1>2, <2>1, <3>1
      <4>2. \A r \in S : r.version \in Nat
        OBVIOUS
      <4>. HIDE DEF S
      <4>. QED
        BY <4>1, <4>2 DEF Last
    <3>3. Last(k).version < Version(Written(k, "d", rows[k]))
      BY <1>2, <2>1, <2>3, <3>1, <3>2 DEF Version, Written, Keys
    <3>. QED
      BY <1>2, <2>1, <3>3, WriteRises
  <2>. QED
    BY <2>2, <2>3
<1>. QED
  BY <1>1, <1>3, <1>4

-----------------------------------------------------------------------------
\* Of two rows the winner is one of them, and neither beats it.
LEMMA WinnerWins ==
  ASSUME NEW old \in MirrorRow \cup {NONE}, NEW new \in MirrorRow
  PROVE  /\ Winner(old, new) \in {old, new} /\ Winner(old, new) \in MirrorRow
         /\ new.version <= Winner(old, new).version
         /\ old # NONE => old.version <= Winner(old, new).version
BY DEF Winner, MirrorRow

LEMMA StatementMirrored ==
  ASSUME TypeOK, SentInv, MirrorInv, NEW k \in Keys, Insert(k) \/ Update(k) \/ Delete(k)
  PROVE  SentInv' /\ MirrorInv'
<1>1. PICK op \in {"c", "u", "d"}, version \in Nat : Write(k, op, version)
  BY Statement
<1>2. /\ \A p \in DOMAIN binlog : p \in DOMAIN binlog' /\ binlog'[p] = binlog[p]
      /\ UNCHANGED <<captured, topic, polled, mirror>>
  BY <1>1, WriteEffect
<1>3. 1 .. captured \subseteq DOMAIN binlog
  BY DEF TypeOK
<1>4. \A t \in Tables : \A q \in 1 .. polled[t] : topic[t][q] \in DOMAIN binlog
  <2>. SUFFICES ASSUME NEW t \in Tables, NEW q \in 1 .. polled[t] PROVE topic[t][q] \in DOMAIN binlog
    OBVIOUS
  <2>1. topic[t] \in Seq(Nat) /\ polled[t] \in Nat /\ polled[t] <= Len(topic[t])
    BY DEF TypeOK
  <2>2. q \in DOMAIN topic[t]
    BY <2>1
  <2>. QED
    BY <2>2 DEF TypeOK
<1>5. SentInv'
  <2>. SUFFICES ASSUME NEW p \in 1 .. captured PROVE Sent(p)'
    BY <1>2 DEF SentInv
  <2>1. Sent(p) /\ p \in DOMAIN binlog /\ binlog'[p] = binlog[p]
    BY <1>2, <1>3 DEF SentInv
  <2>. QED
    BY <1>2, <2>1 DEF Sent
<1>6. \A j \in Keys : Won(j)'
  <2>. SUFFICES ASSUME NEW j \in Keys, mirror[j] # NONE
                PROVE  \E p \in DOMAIN binlog' : binlog'[p].key = j /\ mirror[j] = Row(binlog'[p])
    BY <1>2 DEF Won, Row, Version
  <2>1. PICK p \in DOMAIN binlog : binlog[p].key = j /\ mirror[j] = Row(binlog[p])
    BY DEF MirrorInv, Won
  <2>. QED
    BY <1>2, <2>1
<1>7. (\A t \in Tables : \A q \in 1 .. polled[t] : Beaten(topic[t][q]))'
  BY <1>2, <1>4 DEF MirrorInv, Beaten, Version
<1>. QED
  BY <1>5, <1>6, <1>7 DEF MirrorInv

LEMMA CaptureSent ==
  ASSUME TypeOK, SentInv, MirrorInv, Capture
  PROVE  SentInv' /\ MirrorInv'
<1>. DEFINE u == Table(binlog[captured + 1].key)
<1>1. /\ captured' = captured + 1 /\ captured \in Nat /\ UNCHANGED <<binlog, polled, mirror>>
      /\ topic' = [topic EXCEPT ![u] = Append(@, captured + 1)] /\ u \in Tables
  <2>1. captured < Len(binlog)
    BY DEF Capture
  <2>2. binlog[captured + 1].key \in Keys
    BY <2>1, NextSent
  <2>3. captured \in Nat
    BY DEF TypeOK
  <2>. QED
    BY <2>2, <2>3, TableOfKey DEF Capture, source, engine
<1>2. topic \in [Tables -> Seq(Nat)]
  BY DEF TypeOK
<1>3. \A t \in Tables : \A q \in DOMAIN topic[t] : q \in DOMAIN topic'[t] /\ topic'[t][q] = topic[t][q]
  <2>. SUFFICES ASSUME NEW t \in Tables, NEW q \in DOMAIN topic[t]
                PROVE  q \in DOMAIN topic'[t] /\ topic'[t][q] = topic[t][q]
    OBVIOUS
  <2>. HIDE DEF u
  <2>1. topic'[t] = IF t = u THEN Append(topic[t], captured + 1) ELSE topic[t]
    BY <1>1, <1>2
  <2>. QED
    BY <1>1, <1>2, <2>1
<1>4. \E q \in DOMAIN topic'[u] : topic'[u][q] = captured + 1
  <2>. HIDE DEF u
  <2>1. topic'[u] = Append(topic[u], captured + 1) /\ topic[u] \in Seq(Nat)
    BY <1>1, <1>2
  <2>2. Len(topic[u]) + 1 \in DOMAIN topic'[u] /\ topic'[u][Len(topic[u]) + 1] = captured + 1
    BY <1>1, <2>1
  <2>. QED
    BY <2>2
<1>5. SentInv'
  <2>. SUFFICES ASSUME NEW p \in 1 .. captured + 1 PROVE Sent(p)'
    BY <1>1 DEF SentInv
  <2>1. CASE p = captured + 1
    BY <1>1, <1>4, <2>1 DEF Sent, Table
  <2>2. CASE p # captured + 1
    <3>1. p \in 1 .. captured
      BY <1>1, <2>2
    <3>2. Sent(p) /\ Table(binlog[p].key) \in Tables
      BY <3>1 DEF SentInv, Table, Tables
    <3>. QED
      BY <1>1, <1>3, <3>2 DEF Sent, Table
  <2>. QED
    BY <2>1, <2>2
<1>6. MirrorInv'
  <2>1. \A t \in Tables : 1 .. polled[t] \subseteq DOMAIN topic[t]
    <3>. SUFFICES ASSUME NEW t \in Tables PROVE 1 .. polled[t] \subseteq DOMAIN topic[t]
      OBVIOUS
    <3>1. topic[t] \in Seq(Nat) /\ polled[t] \in Nat /\ polled[t] <= Len(topic[t])
      BY DEF TypeOK
    <3>. QED
      BY <3>1
  <2>2. \A k \in Keys : Won(k)'
    <3>1. UNCHANGED <<binlog, mirror>> /\ \A k \in Keys : Won(k)
      BY <1>1 DEF MirrorInv
    <3>. QED
      BY <3>1 DEF Won, Row, Version
  <2>3. (\A t \in Tables : \A q \in 1 .. polled[t] : Beaten(topic[t][q]))'
    <3>1. ASSUME NEW t \in Tables, NEW q \in 1 .. polled[t] PROVE Beaten(topic[t][q])'
      <4>1. topic'[t][q] = topic[t][q] /\ Beaten(topic[t][q])
        BY <1>3, <2>1 DEF MirrorInv
      <4>2. UNCHANGED <<binlog, mirror>>
        BY <1>1
      <4>. QED
        BY <4>1, <4>2 DEF Beaten, Version
    <3>. QED
      BY <1>1, <3>1
  <2>. QED
    BY <2>2, <2>3 DEF MirrorInv
<1>. QED
  BY <1>5, <1>6

LEMMA ConsumeWins ==
  ASSUME TypeOK, SentInv, MirrorInv, NEW t \in Tables, Consume(t)
  PROVE  SentInv' /\ MirrorInv'
<1>. DEFINE p == topic[t][polled[t] + 1]
            e == binlog[p]
<1>1. /\ p \in DOMAIN binlog /\ e \in Event /\ e.key \in Keys
      /\ mirror' = [mirror EXCEPT ![e.key] = Winner(@, Row(e))]
      /\ polled' = [polled EXCEPT ![t] = @ + 1]
      /\ UNCHANGED <<binlog, captured, topic>>
  BY NextInserted DEF Consume, source, connector
<1>. HIDE DEF e, p
<1>2. mirror \in [Keys -> MirrorRow \cup {NONE}] /\ polled \in [Tables -> Nat]
  BY DEF TypeOK
<1>3. /\ mirror'[e.key] = Winner(mirror[e.key], Row(e))
      /\ \A k \in Keys \ {e.key} : mirror'[k] = mirror[k]
  BY <1>1, <1>2
<1>4. Row(e) \in MirrorRow /\ Row(e).version = Version(e)
  BY <1>1, EventTyped DEF Row
<1>5. \A k \in Keys : mirror[k] # NONE => mirror'[k] # NONE /\ mirror[k].version <= mirror'[k].version
  <2>. SUFFICES ASSUME NEW k \in Keys, mirror[k] # NONE
                PROVE  mirror'[k] # NONE /\ mirror[k].version <= mirror'[k].version
    OBVIOUS
  <2>1. CASE k = e.key
    BY <1>2, <1>3, <1>4, <2>1, WinnerWins, NoneAssumption DEF MirrorRow
  <2>2. CASE k # e.key
    BY <1>2, <1>3, <2>2 DEF MirrorRow
  <2>. QED
    BY <2>1, <2>2
<1>6. SentInv'
  BY <1>1 DEF SentInv, Sent, Table
<1>7. \A k \in Keys : Won(k)'
  <2>. SUFFICES ASSUME NEW k \in Keys, mirror'[k] # NONE
                PROVE  \E r \in DOMAIN binlog : binlog[r].key = k /\ mirror'[k] = Row(binlog[r])
    BY <1>1 DEF Won, Row, Version
  <2>1. CASE k = e.key /\ mirror'[k] = Row(e)
    BY <1>1, <2>1 DEF e
  <2>2. CASE mirror'[k] = mirror[k]
    BY <2>2 DEF MirrorInv, Won
  <2>3. k = e.key => mirror'[k] \in {mirror[k], Row(e)}
    BY <1>2, <1>3, <1>4, WinnerWins
  <2>. QED
    BY <1>3, <2>1, <2>2, <2>3
<1>8. ASSUME NEW u \in Tables, NEW q \in 1 .. polled'[u]
      PROVE  Beaten(topic[u][q])'
  <2>1. CASE q \in 1 .. polled[u]
    <3>. DEFINE b == binlog[topic[u][q]]
    <3>1. mirror[b.key] # NONE /\ Version(b) <= mirror[b.key].version
      BY <2>1 DEF MirrorInv, Beaten
    <3>2. topic[u][q] \in DOMAIN binlog
      <4>1. topic[u] \in Seq(Nat) /\ polled[u] \in Nat /\ polled[u] <= Len(topic[u])
        BY DEF TypeOK
      <4>2. q \in DOMAIN topic[u]
        BY <2>1, <4>1
      <4>. QED
        BY <4>2 DEF TypeOK
    <3>3. b.key \in Keys /\ Version(b) \in Nat
      BY <3>2, LogTyped, EventTyped
    <3>4. mirror[b.key].version \in Nat /\ (mirror'[b.key] # NONE => mirror'[b.key].version \in Nat)
      <4>1. mirror' \in [Keys -> MirrorRow \cup {NONE}]
        BY <1>1, <1>2, <1>4, WinnerWins
      <4>. QED
        BY <1>2, <3>1, <3>3, <4>1 DEF MirrorRow
    <3>. HIDE DEF b
    <3>5. mirror'[b.key] # NONE /\ Version(b) <= mirror'[b.key].version
      BY <1>5, <3>1, <3>3, <3>4
    <3>. QED
      BY <1>1, <3>5 DEF Beaten, b, Version
  <2>2. CASE q \notin 1 .. polled[u]
    <3>1. u = t /\ q = polled[t] + 1
      BY <1>1, <1>2, <2>2
    <3>2. topic[u][q] = p
      BY <3>1 DEF p
    <3>3. mirror'[e.key] # NONE /\ Version(e) <= mirror'[e.key].version
      BY <1>1, <1>2, <1>3, <1>4, WinnerWins, NoneAssumption DEF MirrorRow
    <3>. QED
      BY <1>1, <3>2, <3>3 DEF Beaten, e, Version
  <2>. QED
    BY <2>1, <2>2
<1>9. (\A u \in Tables : \A q \in 1 .. polled[u] : Beaten(topic[u][q]))'
  BY <1>1, <1>8
<1>. QED
  BY <1>6, <1>7, <1>9 DEF MirrorInv

LEMMA InitInv == Init => IInv
<1>. SUFFICES ASSUME Init PROVE IInv
  OBVIOUS
<1>1. /\ DOMAIN binlog = {} /\ (\A k \in Keys : past[k] = <<>> /\ DOMAIN past[k] = {})
      /\ 1 .. captured = {} /\ \A t \in Tables : 1 .. polled[t] = {}
  BY DEF Init
<1>2. TypeOK
  BY InitTyped
<1>3. Rising /\ Logged /\ Lived
  BY <1>1 DEF Rising, Logged, Lived
<1>4. RowInv /\ SentInv /\ MirrorInv
  BY <1>1 DEF Init, RowInv, SentInv, MirrorInv, Won
<1>. QED
  BY <1>2, <1>3, <1>4 DEF IInv

LEMMA SourceUnchanged ==
  ASSUME Rising, Logged, Lived, UNCHANGED <<binlog, past>>
  PROVE  Rising' /\ Logged' /\ Lived'
BY DEF Rising, Logged, Lived, Stamp, Version, After

LEMMA StepInv ==
  ASSUME ~Reinserts, ~SameTick, IInv, [Next]_vars
  PROVE  IInv'
<1>. USE DEF IInv
<1>1. TypeOK'
  BY StepTyped
<1>2. ASSUME NEW k \in Keys, Insert(k) \/ Update(k) \/ Delete(k) PROVE IInv'
  BY <1>1, <1>2, StatementRises, StatementMirrored
<1>3. CASE Capture
  <2>1. UNCHANGED <<now, rows, binlog, past>>
    BY <1>3 DEF Capture, source
  <2>. QED
    BY <1>1, <1>3, <2>1, SourceUnchanged, CaptureSent DEF RowInv, Last
<1>4. ASSUME NEW t \in Tables, Consume(t) PROVE IInv'
  <2>1. UNCHANGED <<now, rows, binlog, past>>
    BY <1>4 DEF Consume, source
  <2>. QED
    BY <1>1, <1>4, <2>1, SourceUnchanged, ConsumeWins DEF RowInv, Last
<1>5. CASE Tick
  <2>1. UNCHANGED <<rows, binlog, past, captured, topic, polled, mirror>> /\ now' = now + 1
    BY <1>5 DEF Tick, connector, engine
  <2>2. RowInv'
    <3>1. \A k \in Fills : past[k] # <<>> => Last(k).version <= now + 1
      <4>. SUFFICES ASSUME NEW k \in Fills, past[k] # <<>> PROVE Last(k).version <= now + 1
        OBVIOUS
      <4>1. Last(k).version <= now /\ now \in Nat
        BY DEF RowInv, Keys, TypeOK
      <4>2. Last(k).version \in Nat
        <5>. DEFINE S == [version : Nat, state : Nat \cup {NONE}]
        <5>1. past[k] \in Seq(S) /\ \A r \in S : r.version \in Nat
          BY DEF TypeOK, Keys
        <5>. HIDE DEF S
        <5>. QED
          BY <5>1 DEF Last
      <4>. QED
        BY <4>1, <4>2
    <3>. QED
      BY <2>1, <3>1 DEF RowInv, Last
  <2>3. SentInv' /\ MirrorInv'
    BY <2>1 DEF SentInv, Sent, Table, MirrorInv, Won, Beaten, Row, Version
  <2>. QED
    BY <1>1, <2>1, <2>2, <2>3, SourceUnchanged
<1>6. CASE FlushOffsets \/ ConnectorRestart \/ EngineRestart \/ UNCHANGED vars \/ \E t \in Tables : Commit(t)
  <2>1. /\ UNCHANGED <<now, rows, binlog, past, topic, mirror>>
        /\ 1 .. captured' \subseteq 1 .. captured
        /\ \A t \in Tables : 1 .. polled'[t] \subseteq 1 .. polled[t]
    BY <1>6 DEF FlushOffsets, ConnectorRestart, EngineRestart, Commit, vars,
                source, connector, engine, TypeOK
  <2>2. RowInv'
    BY <2>1 DEF RowInv, Last
  <2>3. SentInv'
    BY <2>1 DEF SentInv, Sent, Table
  <2>4. MirrorInv'
    BY <2>1 DEF MirrorInv, Won, Beaten, Row, Version
  <2>. QED
    BY <1>1, <2>1, <2>2, <2>3, <2>4, SourceUnchanged
<1>. QED
  BY <1>2, <1>3, <1>4, <1>5, <1>6 DEF Next

\* When everything sent has been inserted and everything written has been sent,
\* ClickHouse shows the rows of MySQL.
LEMMA EqualWhenCaughtUp == IInv => CaughtUpIsEqual
<1>. SUFFICES ASSUME IInv, CaughtUp, NEW k \in Keys PROVE Final(k) = rows[k]
  BY DEF CaughtUpIsEqual
<1>. USE DEF IInv
<1>1. CASE past[k] = <<>>
  <2>1. rows[k] = NONE
    BY <1>1 DEF RowInv
  <2>2. mirror[k] = NONE
    BY <1>1 DEF MirrorInv, Won, Lived
  <2>. QED
    BY <2>1, <2>2 DEF Final
<1>2. CASE past[k] # <<>>
  <2>. DEFINE L == Len(past[k])
              S == [version : Nat, state : Nat \cup {NONE}]
  <2>1. L \in DOMAIN past[k] /\ DOMAIN past[k] = 1 .. L /\ L \in Nat
        /\ \A n \in DOMAIN past[k] : past[k][n] \in S
    <3>1. past[k] \in Seq(S)
      BY DEF TypeOK
    <3>. HIDE DEF S
    <3>. QED
      BY <1>2, <3>1
  <2>. HIDE DEF L
  <2>2. PICK p \in DOMAIN binlog : binlog[p].key = k /\ past[k][L] = Stamp(binlog[p])
    BY <2>1 DEF Logged
  <2>3. mirror[k] # NONE /\ past[k][L].version <= mirror[k].version
    <3>1. p \in 1 .. captured
      <4>1. binlog \in Seq(Event)
        BY DEF TypeOK
      <4>. QED
        BY <2>2, <4>1 DEF CaughtUp
    <3>2. PICK q \in DOMAIN topic[Table(k)] : topic[Table(k)][q] = p
      BY <2>2, <3>1 DEF SentInv, Sent
    <3>3. Table(k) \in Tables /\ topic[Table(k)] \in Seq(Nat)
      BY TableOfKey DEF TypeOK
    <3>4. q \in 1 .. polled[Table(k)]
      BY <3>2, <3>3 DEF CaughtUp
    <3>5. Beaten(p)
      BY <3>2, <3>3, <3>4 DEF MirrorInv
    <3>. QED
      BY <2>2, <3>5 DEF Beaten, Stamp
  <2>4. PICK r \in DOMAIN binlog : binlog[r].key = k /\ mirror[k] = Row(binlog[r])
    BY <2>3 DEF MirrorInv, Won
  <2>5. PICK n \in DOMAIN past[k] : past[k][n] = Stamp(binlog[r])
    BY <2>4 DEF Lived
  <2>6. past[k][n].version = mirror[k].version
    BY <2>4, <2>5 DEF Row, Stamp
  <2>7. n = L
    <3>1. ~(past[k][n].version < past[k][L].version)
      BY <2>1, <2>3, <2>6
    <3>. QED
      BY <2>1, <2>5, <3>1 DEF Rising
  <2>8. Final(k) = past[k][L].state
    <3>1. mirror[k].state = binlog[r].version /\ mirror[k].is_deleted = (binlog[r].op = "d")
      BY <2>4 DEF Row
    <3>2. past[k][L].state = After(binlog[r])
      BY <2>5, <2>7 DEF Stamp
    <3>. QED
      BY <2>3, <3>1, <3>2 DEF Final, After
  <2>. QED
    BY <1>2, <2>8 DEF RowInv, Last, L
<1>. QED
  BY <1>1, <1>2

\* With orders and fills that live once, ClickHouse has the rows of MySQL whenever
\* connector and engine have caught up: any number of keys, statements and restarts.
THEOREM CaughtUpEqual ==
  ASSUME ~Reinserts, ~SameTick
  PROVE  Spec => []CaughtUpIsEqual
<1>1. IInv /\ [Next]_vars => IInv'
  BY StepInv
<1>. QED
  BY <1>1, InitInv, EqualWhenCaughtUp, PTL DEF Spec

-----------------------------------------------------------------------------
\* A winning row has its place in the history of the row, the only one with its
\* version, and the state there is what ClickHouse shows.
Placed(k) ==
  mirror[k] # NONE =>
    /\ Seen(k) \in DOMAIN past[k] /\ past[k][Seen(k)].version = mirror[k].version
    /\ \A n \in DOMAIN past[k] : past[k][n].version = mirror[k].version => n = Seen(k)
    /\ Final(k) = past[k][Seen(k)].state

LEMMA SeenIsShown == IInv => \A k \in Keys : Placed(k)
<1>. SUFFICES ASSUME IInv, NEW k \in Keys, mirror[k] # NONE PROVE Placed(k)
  BY DEF Placed
<1>. USE DEF IInv
<1>1. PICK r \in DOMAIN binlog : binlog[r].key = k /\ mirror[k] = Row(binlog[r])
  BY DEF MirrorInv, Won
<1>2. PICK n \in DOMAIN past[k] : past[k][n] = Stamp(binlog[r])
  BY <1>1 DEF Lived
<1>3. past[k][n].version = mirror[k].version
  BY <1>1, <1>2 DEF Row, Stamp
<1>4. ASSUME NEW m \in DOMAIN past[k], past[k][m].version = mirror[k].version
      PROVE  m = n
  <2>1. m \in Nat /\ n \in Nat /\ mirror[k].version \in Nat
    BY DEF TypeOK, MirrorRow
  <2>. QED
    BY <1>3, <1>4, <2>1 DEF Rising
<1>5. Seen(k) = n
  BY <1>2, <1>3, <1>4 DEF Seen
<1>6. Final(k) = past[k][n].state
  <2>1. mirror[k].state = binlog[r].version /\ mirror[k].is_deleted = (binlog[r].op = "d")
    BY <1>1 DEF Row
  <2>2. past[k][n].state = After(binlog[r])
    BY <1>2 DEF Stamp
  <2>. QED
    BY <2>1, <2>2 DEF Final, After
<1>. QED
  BY <1>2, <1>3, <1>4, <1>5, <1>6 DEF Placed

LEMMA SeenIsShownNext == (IInv => \A k \in Keys : Placed(k))'
BY SeenIsShown, PTL

\* The variables of the abstract mirror.
Pasts == [k \in Keys |-> [n \in DOMAIN past[k] |-> past[k][n].state]]
Seens == [k \in Keys |-> Seen(k)]
Views == [k \in Keys |-> Final(k)]

LEMMA InitMirrored == Init => Mirror!Init
<1>. SUFFICES ASSUME Init PROVE Mirror!Init
  OBVIOUS
<1>1. \A k \in Keys : [n \in DOMAIN past[k] |-> past[k][n].state] = <<>>
  BY DEF Init
<1>2. \A k \in Keys : Seen(k) = 0 /\ Final(k) = NONE
  BY DEF Init, Seen, Final
<1>. QED
  BY <1>1, <1>2, Zenon DEF Mirror!Init

\* A mirror that comes to the same row, or to a later one, of one key.
LEMMA ShowStep ==
  ASSUME IInv, IInv', past' = past, NEW k \in Keys,
         \A j \in Keys \ {k} : mirror'[j] = mirror[j],
         mirror[k] # NONE => mirror'[k] # NONE /\ mirror[k].version <= mirror'[k].version
  PROVE  [Mirror!Next]_(Mirror!vars)
<1>1. \A j \in Keys \ {k} : Seen(j)' = Seen(j) /\ Final(j)' = Final(j)
  <2>1. ASSUME NEW j \in Keys \ {k} PROVE Seen(j)' = Seen(j) /\ Final(j)' = Final(j)
    <3>1. mirror'[j] = mirror[j] /\ past'[j] = past[j]
      BY <2>1
    <3>. QED
      BY <3>1 DEF Seen, Final
  <2>. QED
    BY <2>1
<1>2. Pasts' = Pasts /\ Placed(k) /\ Placed(k)'
  <2>1. Pasts' = Pasts
    BY DEF Pasts
  <2>2. Placed(k)
    BY SeenIsShown
  <2>3. Placed(k)'
    BY SeenIsShownNext
  <2>. QED
    BY <2>1, <2>2, <2>3
<1>3. CASE Seen(k)' = Seen(k) /\ Final(k)' = Final(k)
  <2>1. Seens' = Seens /\ Views' = Views
    BY <1>1, <1>3 DEF Seens, Views
  <2>. QED
    BY <1>2, <2>1 DEF Mirror!vars, Pasts, Seens, Views
<1>4. CASE mirror'[k] = mirror[k]
  <2>1. Seen(k)' = Seen(k) /\ Final(k)' = Final(k)
    BY <1>4 DEF Seen, Final
  <2>. QED
    BY <1>3, <2>1
<1>5. CASE mirror'[k] # mirror[k] /\ mirror'[k] # NONE /\ Seen(k)' # Seen(k)
  <2>1. Seen(k)' \in DOMAIN past[k] /\ Final(k)' = past[k][Seen(k)'].state
        /\ past[k][Seen(k)'].version = mirror'[k].version
    BY <1>2, <1>5 DEF Placed
  <2>2. Seen(k)' \in Seen(k) + 1 .. Len(past[k])
    <3>1. DOMAIN past[k] = 1 .. Len(past[k]) /\ Len(past[k]) \in Nat
      BY DEF IInv, TypeOK
    <3>2. CASE mirror[k] = NONE
      BY <2>1, <3>1, <3>2 DEF Seen
    <3>3. CASE mirror[k] # NONE
      <4>1. Seen(k) \in DOMAIN past[k] /\ past[k][Seen(k)].version = mirror[k].version
        BY <1>2, <3>3 DEF Placed
      <4>2. mirror[k].version \in Nat /\ mirror'[k].version \in Nat
        BY <1>5, <3>3 DEF IInv, TypeOK, MirrorRow
      <4>3. ~(Seen(k)' < Seen(k))
        BY <2>1, <3>3, <4>1, <4>2 DEF IInv, Rising
      <4>. QED
        BY <1>5, <2>1, <3>1, <4>1, <4>3
    <3>. QED
      BY <3>2, <3>3
  <2>3. /\ Pasts[k] = [n \in DOMAIN past[k] |-> past[k][n].state]
        /\ Seens[k] = Seen(k) /\ Len(Pasts[k]) = Len(past[k])
        /\ Pasts[k][Seen(k)'] = Final(k)'
    <3>1. DOMAIN past[k] = 1 .. Len(past[k]) /\ Len(past[k]) \in Nat
      BY DEF IInv, TypeOK
    <3>. QED
      BY <2>1, <3>1 DEF Pasts, Seens
  <2>4. Seens' = [Seens EXCEPT ![k] = Seen(k)'] /\ Views' = [Views EXCEPT ![k] = Final(k)']
    BY <1>1 DEF Seens, Views
  <2>5. Mirror!Show(k)
    BY ZenonT(30), <1>2, <2>2, <2>3, <2>4 DEF Mirror!Show, Pasts, Seens, Views
  <2>. QED
    BY <2>5 DEF Mirror!Next
<1>6. CASE mirror'[k] # mirror[k] /\ mirror'[k] # NONE /\ Seen(k)' = Seen(k)
  <2>1. mirror[k] # NONE
    <3>1. Seen(k)' \in Nat \ {0}
      <4>1. DOMAIN past[k] \subseteq Nat \ {0}
        BY DEF IInv, TypeOK
      <4>. QED
        BY <1>2, <1>6, <4>1 DEF Placed
    <3>. QED
      BY <1>6, <3>1 DEF Seen
  <2>2. Final(k)' = Final(k)
    BY <1>2, <1>6, <2>1 DEF Placed
  <2>. QED
    BY <1>3, <1>6, <2>2
<1>7. mirror'[k] = NONE => mirror[k] = NONE
  OBVIOUS
<1>. QED
  BY <1>4, <1>5, <1>6, <1>7

LEMMA StatesTyped ==
  TypeOK => \A k \in Keys : \A n \in DOMAIN past[k] : past[k][n].state \in Nat \cup {NONE}
<1>. SUFFICES ASSUME TypeOK, NEW k \in Keys, NEW n \in DOMAIN past[k]
              PROVE  past[k][n].state \in Nat \cup {NONE}
  OBVIOUS
<1>. DEFINE S == [version : Nat, state : Nat \cup {NONE}]
<1>1. past[k] \in Seq(S) /\ \A r \in S : r.state \in Nat \cup {NONE}
  BY DEF TypeOK
<1>. HIDE DEF S
<1>. QED
  BY <1>1

LEMMA StatesTypedNext ==
  (TypeOK => \A k \in Keys : \A n \in DOMAIN past[k] : past[k][n].state \in Nat \cup {NONE})'
BY StatesTyped, PTL

\* A sequence that is another one with one element more.
LEMMA Grown ==
  ASSUME NEW S, NEW s \in Seq(S), NEW t \in Seq(S), Len(t) = Len(s) + 1,
         \A n \in 1 .. Len(s) : t[n] = s[n]
  PROVE  t = Append(s, t[Len(t)])
<1>1. t[Len(t)] \in S
  OBVIOUS
<1>2. Append(s, t[Len(t)]) \in Seq(S) /\ Len(Append(s, t[Len(t)])) = Len(t)
  BY <1>1
<1>3. \A n \in 1 .. Len(t) : Append(s, t[Len(t)])[n] = t[n]
  BY <1>1
<1>. QED
  BY <1>2, <1>3, SeqEqual

\* A statement gives one row one state more and changes nothing ClickHouse shows.
LEMMA ChangeStep ==
  ASSUME IInv, IInv', NEW k \in Keys, NEW op \in {"c", "u", "d"}, NEW version \in Nat,
         Write(k, op, version)
  PROVE  Mirror!Next
<1>1. /\ Len(past'[k]) = Len(past[k]) + 1
      /\ \A n \in DOMAIN past[k] : n \in DOMAIN past'[k] /\ past'[k][n] = past[k][n]
      /\ \A j \in Keys \ {k} : past'[j] = past[j]
      /\ mirror' = mirror
  BY WriteEffect DEF IInv
<1>2. \A j \in Keys : Seen(j)' = Seen(j) /\ Final(j)' = Final(j)
  <2>1. ASSUME NEW j \in Keys PROVE Seen(j)' = Seen(j)
    <3>1. CASE mirror[j] = NONE
      BY <1>1, <3>1 DEF Seen
    <3>2. CASE j # k
      <4>1. past'[j] = past[j] /\ mirror'[j] = mirror[j]
        BY <1>1, <3>2
      <4>. QED
        BY <4>1 DEF Seen
    <3>3. CASE mirror[j] # NONE /\ j = k
      <4>1. Placed(k) /\ Placed(k)'
        <5>1. Placed(k)
          BY SeenIsShown
        <5>2. Placed(k)'
          BY SeenIsShownNext
        <5>. QED
          BY <5>1, <5>2
      <4>2. Seen(k) \in DOMAIN past'[k] /\ past'[k][Seen(k)].version = mirror'[k].version
        BY <1>1, <3>3, <4>1 DEF Placed
      <4>. QED
        BY <1>1, <3>3, <4>1, <4>2 DEF Placed
    <3>. QED
      BY <3>1, <3>2, <3>3
  <2>2. \A j \in Keys : Final(j)' = Final(j)
    BY <1>1 DEF Final
  <2>. QED
    BY <2>1, <2>2
<1>3. Seens' = Seens /\ Views' = Views
  BY <1>2 DEF Seens, Views
<1>4. /\ DOMAIN past[k] = 1 .. Len(past[k]) /\ Len(past[k]) \in Nat
      /\ DOMAIN past'[k] = 1 .. Len(past[k]) + 1
  BY <1>1 DEF IInv, TypeOK
<1>5. /\ Pasts[k] \in Seq(Nat \cup {NONE}) /\ Len(Pasts[k]) = Len(past[k])
      /\ \A n \in DOMAIN past[k] : Pasts[k][n] = past[k][n].state
  <2>1. Pasts[k] = [n \in 1 .. Len(past[k]) |-> past[k][n].state]
    BY <1>4 DEF Pasts
  <2>2. \A n \in 1 .. Len(past[k]) : past[k][n].state \in Nat \cup {NONE}
    BY StatesTyped, <1>4 DEF IInv
  <2>. QED
    BY <1>4, <2>1, <2>2
<1>6. /\ Pasts'[k] \in Seq(Nat \cup {NONE}) /\ Len(Pasts'[k]) = Len(Pasts[k]) + 1
      /\ \A n \in DOMAIN past[k] : Pasts'[k][n] = Pasts[k][n]
  <2>1. Pasts'[k] = [n \in 1 .. Len(past[k]) + 1 |-> past'[k][n].state]
    BY <1>4 DEF Pasts
  <2>2. \A n \in 1 .. Len(past[k]) + 1 : past'[k][n].state \in Nat \cup {NONE}
    BY StatesTypedNext, <1>4 DEF IInv
  <2>. QED
    BY <1>1, <1>4, <1>5, <2>1, <2>2
<1>7. Pasts'[k] = Append(Pasts[k], Pasts'[k][Len(Pasts'[k])])
  BY <1>4, <1>5, <1>6, Grown
<1>8. Pasts' = [Pasts EXCEPT ![k] = Pasts'[k]]
  BY <1>1 DEF Pasts
<1>9. Mirror!Change(k)
  BY <1>3, <1>6, <1>7, <1>8 DEF Mirror!Change, Pasts, Seens, Views
<1>. QED
  BY <1>9 DEF Mirror!Next

LEMMA StepMirrored ==
  ASSUME IInv, IInv', [Next]_vars
  PROVE  [Mirror!Next]_(Mirror!vars)
<1>. USE DEF IInv
<1>1. ASSUME NEW k \in Keys, Insert(k) \/ Update(k) \/ Delete(k) PROVE Mirror!Next
  BY <1>1, Statement, ChangeStep
<1>2. ASSUME NEW t \in Tables, Consume(t) PROVE [Mirror!Next]_(Mirror!vars)
  <2>. DEFINE e == binlog[topic[t][polled[t] + 1]]
  <2>1. /\ mirror' = [mirror EXCEPT ![e.key] = Winner(@, Row(e))] /\ past' = past
        /\ e.key \in Keys /\ Row(e) \in MirrorRow /\ mirror[e.key] \in MirrorRow \cup {NONE}
    BY <1>2, NextInserted, EventTyped DEF Consume, source, TypeOK
  <2>. HIDE DEF e
  <2>2. mirror'[e.key] = Winner(mirror[e.key], Row(e))
        /\ \A j \in Keys \ {e.key} : mirror'[j] = mirror[j]
    BY <2>1 DEF TypeOK
  <2>3. mirror[e.key] # NONE =>
          mirror'[e.key] # NONE /\ mirror[e.key].version <= mirror'[e.key].version
    BY <2>1, <2>2, WinnerWins, NoneAssumption DEF MirrorRow
  <2>. QED
    BY <2>1, <2>2, <2>3, ShowStep
<1>3. CASE UNCHANGED <<past, mirror>>
  BY <1>3 DEF Mirror!vars, Seen, Final
<1>4. CASE Tick \/ Capture \/ FlushOffsets \/ ConnectorRestart \/ EngineRestart
           \/ (\E t \in Tables : Commit(t)) \/ UNCHANGED vars
  BY <1>3, <1>4 DEF Tick, Capture, FlushOffsets, ConnectorRestart, EngineRestart, Commit,
                    vars, source, engine
<1>. QED
  BY <1>1, <1>2, <1>4 DEF Next

\* With orders and fills that live once, what ClickHouse shows of a row is a state it
\* had in MySQL, and never an earlier one than before, whatever is sent or inserted
\* again.
THEOREM NeverBack ==
  ASSUME ~Reinserts, ~SameTick
  PROVE  Spec => MirrorsRows
<1>1. IInv /\ [Next]_vars => IInv'
  BY StepInv
<1>2. IInv /\ IInv' /\ [Next]_vars => [Mirror!Next]_(Mirror!vars)
  BY StepMirrored
<1>. QED
  BY <1>1, <1>2, InitInv, InitMirrored, PTL DEF Spec, MirrorsRows, Mirror!Spec
=============================================================================
