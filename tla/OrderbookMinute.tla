-------------------------- MODULE OrderbookMinute --------------------------
(***************************************************************************)
(* Order books of the first exchange, from the subscription to the rows of *)
(* orderbook_1m: orderbook-collector/collector.py, OrderbookParser.java,   *)
(* OrderbookAggregator.java, OrderbookJob.java.                            *)
(*                                                                         *)
(* The collector subscribes to the markets it knows; the exchange answers  *)
(* a subscription with the present book of each of them, however old, and  *)
(* then pushes new ones.  The job collects the books of a market into      *)
(* event-time windows of one minute.  It has one watermark for all         *)
(* partitions; a book behind it is dropped, a minute behind it is written. *)
(*                                                                         *)
(* A book is its mid price (0: a side is empty); a market has a partition  *)
(* of its own.  spreadSum stands for all the sums an accumulator keeps,    *)
(* taken here over the mids.                                               *)
(***************************************************************************)
EXTENDS Integers, Sequences, FiniteSets, FiniteSetsExt

CONSTANTS
  Markets,
  MIN_MARKETS,   \* a shorter list is not believed (100)
  Mids,
  MAX_VALUE,     \* what a minimum starts from (Double.MAX_VALUE)
  MINUTE,        \* length of a window
  BOUND,         \* bounded out-of-orderness (5 s)
  DELAY,         \* how late the exchange pushes a book
  MaxNow, MaxBooks, MaxTopic, MaxFaults,   \* bounds
  NONE

ASSUME ParameterAssumption ==
  /\ IsFiniteSet(Markets)
  /\ Mids \subseteq Nat
  /\ MAX_VALUE \in Nat /\ \A mid \in Mids : mid <= MAX_VALUE
  /\ MINUTE \in Nat \ {0}
  /\ {MIN_MARKETS, BOUND, DELAY, MaxNow, MaxBooks, MaxTopic, MaxFaults} \subseteq Nat

\* What an accumulator is made of.
Accs == [count : Nat, firstTs : Int, lastTs : Int, midOpen : Int, midClose : Int, midMin : Int,
         midMax : Int, spreadSum : Int, members : SUBSET Nat]

ASSUME NoneAssumption == NONE \notin Nat \cup Accs

VARIABLES
  now,
  listed,     \* the exchange: markets it trades
  books,      \* the exchange: books there have been, [market, ts, mid]
  markets,    \* the collector's list
  sub,        \* markets subscribed on the connection, NONE: no connection
  topic,      \* Kafka: the books of each market, in the order they were produced
  job,        \* the job's state: read positions and open windows
  top,        \* largest timestamp the watermark generator has seen, or NONE
  wm,         \* watermark; -1 before the first
  saved,      \* job at the last checkpoint
  rows,       \* orderbook_1m: rows as a set, each with the start of the job that wrote it
  faults, restarts

feed == <<listed, books, markets, sub, topic>>
flink == <<job, top, wm, saved, rows>>
vars == <<now, feed, flink, faults, restarts>>

Minute(ts) == ts \div MINUTE
Minutes == {Minute(ts) : ts \in 0..MaxNow}
End(minute) == (minute + 1) * MINUTE

-----------------------------------------------------------------------------
(* OrderbookAggregator.                                                     *)

\* members: history, the offsets counted in.
Acc == [count |-> 0, firstTs |-> MaxNow + 1, lastTs |-> -1, midOpen |-> 0, midClose |-> 0,
        midMin |-> MAX_VALUE, midMax |-> -1, spreadSum |-> 0, members |-> {}]

\* Variant with a plausible bug: the close is the book that came last.
addByArrival(a, b, i) ==
  IF b.mid = 0 THEN a ELSE
    [count |-> a.count + 1,
     firstTs |-> Min({a.firstTs, b.ts}), midOpen |-> IF b.ts < a.firstTs THEN b.mid ELSE a.midOpen,
     lastTs |-> b.ts, midClose |-> b.mid,
     midMin |-> Min({a.midMin, b.mid}), midMax |-> Max({a.midMax, b.mid}),
     spreadSum |-> a.spreadSum + b.mid, members |-> a.members \cup {i}]

\* A book with an empty side leaves the accumulator as it is.
add(a, b, i) ==
  IF b.mid = 0 THEN a ELSE
    [count |-> a.count + 1,
     firstTs |-> Min({a.firstTs, b.ts}), midOpen |-> IF b.ts < a.firstTs THEN b.mid ELSE a.midOpen,
     lastTs |-> Max({a.lastTs, b.ts}), midClose |-> IF b.ts >= a.lastTs THEN b.mid ELSE a.midClose,
     midMin |-> Min({a.midMin, b.mid}), midMax |-> Max({a.midMax, b.mid}),
     spreadSum |-> a.spreadSum + b.mid, members |-> a.members \cup {i}]

\* getResult and the window's own fields; run, at: history, the restarts before the row was
\* written and the watermark that made it due.
Row(m, minute, a, at) ==
  [market |-> m, minute |-> minute, run |-> restarts, at |-> at, snapshots |-> a.count,
   midOpen |-> a.midOpen, midClose |-> a.midClose, midMin |-> a.midMin, midMax |-> a.midMax,
   spreadSum |-> a.spreadSum, members |-> a.members]

-----------------------------------------------------------------------------
\* dropped: history, the books that came behind the watermark.
NewJob ==
  [pos |-> [m \in Markets |-> 0], win |-> [m \in Markets |-> [k \in Minutes |-> NONE]], dropped |-> {}]

Init ==
  /\ now = 0
  /\ listed \in {M \in SUBSET Markets : Cardinality(M) >= MIN_MARKETS}
  /\ books = {}
  /\ markets = listed
  /\ sub = NONE
  /\ topic = [m \in Markets |-> <<>>]
  /\ job = NewJob
  /\ top = NONE
  /\ wm = -1
  /\ saved = NewJob
  /\ rows = {}
  /\ faults = 0
  /\ restarts = 0

Tick ==
  /\ now < MaxNow
  /\ now' = now + 1
  /\ UNCHANGED <<feed, flink, faults, restarts>>

-----------------------------------------------------------------------------
(* The exchange.                                                            *)

List(m) ==
  /\ m \notin listed
  /\ listed' = listed \cup {m}
  /\ UNCHANGED <<now, books, markets, sub, topic, flink, faults, restarts>>

Change(m, mid) ==
  /\ m \in listed
  /\ Cardinality(books) < MaxBooks
  /\ \A b \in books : b.market = m => b.ts < now
  /\ books' = books \cup {[market |-> m, ts |-> now, mid |-> mid]}
  /\ UNCHANGED <<now, listed, markets, sub, topic, flink, faults, restarts>>

Entry(b) == [ts |-> b.ts, mid |-> b.mid]
Room == SumFunction([m \in Markets |-> Len(topic[m])]) < MaxTopic

\* A book is pushed, up to DELAY late, and produced.  A full queue is tried twice, then
\* the book is gone, as it is with an expired delivery or a broker that refuses it.
Push(b) ==
  /\ Room
  /\ sub # NONE /\ b.market \in sub
  /\ b.ts >= now - DELAY
  /\ \A i \in 1..Len(topic[b.market]) : topic[b.market][i] # Entry(b)
  /\ \/ topic' = [topic EXCEPT ![b.market] = Append(@, Entry(b))] /\ UNCHANGED faults
     \/ faults < MaxFaults /\ faults' = faults + 1 /\ UNCHANGED topic
  /\ UNCHANGED <<now, listed, books, markets, sub, flink, restarts>>

\* What the exchange sends at once for a subscription: the present book of each market.
Present(m) == {b \in books : b.market = m /\ \A o \in books : o.market = m => o.ts <= b.ts}
WithPresent(subscribed) ==
  [m \in Markets |->
     IF m \in subscribed /\ Present(m) # {}
       THEN Append(topic[m], Entry(CHOOSE b \in Present(m) : TRUE)) ELSE topic[m]]

-----------------------------------------------------------------------------
(* The collector.                                                           *)

Connect ==
  /\ Room
  /\ sub = NONE
  /\ sub' = markets
  /\ topic' = WithPresent(markets)
  /\ UNCHANGED <<now, listed, books, markets, flink, faults, restarts>>

Disconnect ==
  /\ sub # NONE
  /\ faults < MaxFaults /\ faults' = faults + 1
  /\ sub' = NONE
  /\ UNCHANGED <<now, listed, books, markets, topic, flink, restarts>>

\* Variant with a plausible bug: the new list waits for the next connection.
RefreshUnsent ==
  /\ Room
  /\ sub # NONE
  /\ Cardinality(listed) >= MIN_MARKETS
  /\ listed # markets
  /\ markets' = listed
  /\ UNCHANGED <<now, listed, books, sub, topic, flink, faults, restarts>>

\* Every MARKET_REFRESH_SEC: a list that is not there, too short or the same changes
\* nothing; another one is kept and subscribed to on this connection, unless it breaks.
Refresh ==
  /\ Room
  /\ sub # NONE
  /\ Cardinality(listed) >= MIN_MARKETS
  /\ listed # markets
  /\ markets' = listed
  /\ \/ sub' = markets' /\ topic' = WithPresent(sub') /\ UNCHANGED faults
     \/ sub' = NONE /\ faults < MaxFaults /\ faults' = faults + 1 /\ UNCHANGED topic
  /\ UNCHANGED <<now, listed, books, flink, restarts>>

-----------------------------------------------------------------------------
(* OrderbookJob.                                                            *)

\* The watermark generator keeps the largest timestamp.
Seen(ts) == IF top = NONE \/ ts > top THEN ts ELSE top

\* A book enters the window of its minute, unless the watermark has passed it.
Read(m) ==
  /\ job.pos[m] < Len(topic[m])
  /\ LET i == job.pos[m] + 1
         b == topic[m][i]
         k == Minute(b.ts)
         late == End(k) - 1 <= wm
         a == IF job.win[m][k] = NONE THEN Acc ELSE job.win[m][k]
     IN  /\ job' = [pos |-> [job.pos EXCEPT ![m] = i],
                    win |-> IF late THEN job.win ELSE [job.win EXCEPT ![m][k] = add(a, b, i)],
                    dropped |-> IF late THEN job.dropped \cup {<<m, i>>} ELSE job.dropped]
         /\ top' = Seen(b.ts)
  /\ UNCHANGED <<now, feed, wm, saved, rows, faults, restarts>>

\* Variant with a plausible bug: a window is written one instant before it is closed.
DueEarly(mark) == {mk \in Markets \X Minutes : job.win[mk[1]][mk[2]] # NONE /\ End(mk[2]) - 2 <= mark}

Due(mark) == {mk \in Markets \X Minutes : job.win[mk[1]][mk[2]] # NONE /\ End(mk[2]) - 1 <= mark}
Rows(due, at) == {Row(mk[1], mk[2], job.win[mk[1]][mk[2]], at) : mk \in due}
Without(due) ==
  [m \in Markets |-> [k \in Minutes |-> IF <<m, k>> \in due THEN NONE ELSE job.win[m][k]]]

\* Every 200 ms: the watermark follows the largest timestamp, the windows it passes are
\* written, those that counted no book excepted, and discarded.
Watermark ==
  /\ top # NONE
  /\ wm < top - BOUND - 1
  /\ wm' = top - BOUND - 1
  /\ rows' = rows \cup {r \in Rows(Due(wm'), wm') : r.snapshots > 0}
  /\ job' = [job EXCEPT !.win = Without(Due(wm'))]
  /\ UNCHANGED <<now, feed, top, saved, faults, restarts>>

Checkpoint ==
  /\ saved # job
  /\ saved' = job
  /\ UNCHANGED <<now, feed, job, top, wm, rows, faults, restarts>>

\* Variant with a plausible bug: only the positions come back.
RestoreOffsets ==
  /\ faults < MaxFaults /\ faults' = faults + 1
  /\ restarts' = restarts + 1
  /\ job' = [saved EXCEPT !.win = NewJob.win]
  /\ top' = NONE
  /\ wm' = -1
  /\ UNCHANGED <<now, feed, saved, rows>>

\* After a failure: positions and windows come back, the watermark begins anew.
Restore ==
  /\ faults < MaxFaults /\ faults' = faults + 1
  /\ restarts' = restarts + 1
  /\ job' = saved
  /\ top' = NONE
  /\ wm' = -1
  /\ UNCHANGED <<now, feed, saved, rows>>

-----------------------------------------------------------------------------
Next ==
  \/ Tick
  \/ \E m \in Markets : List(m) \/ Read(m) \/ \E mid \in Mids : Change(m, mid)
  \/ \E b \in books : Push(b)
  \/ Connect
  \/ Disconnect
  \/ Refresh
  \/ Watermark
  \/ Checkpoint
  \/ Restore

Spec == Init /\ [][Next]_vars

-----------------------------------------------------------------------------
(* Properties.                                                              *)

\* Every row is what its minute's books give, whatever order they came in: count, sums
\* and extremes of exactly the books counted, open and close by their timestamps.
RowIsAggregate ==
  \A r \in rows :
    LET B(i) == topic[r.market][i]
        ts == {B(i).ts : i \in r.members}
    IN  /\ \A i \in r.members : Minute(B(i).ts) = r.minute /\ B(i).mid # 0
        /\ r.snapshots = Cardinality(r.members)
        /\ \E i \in r.members : B(i).ts = Min(ts) /\ B(i).mid = r.midOpen
        /\ \E i \in r.members : B(i).ts = Max(ts) /\ B(i).mid = r.midClose
        /\ r.midMin = Min({B(i).mid : i \in r.members})
        /\ r.midMax = Max({B(i).mid : i \in r.members})
        /\ r.spreadSum = SumFunction([i \in r.members |-> B(i).mid])

\* orderbook_1m does not replace rows, so a minute may be written once only: a second row
\* comes from a failure of the job alone.
OneRowPerMinute ==
  \A r, s \in rows : r.market = s.market /\ r.minute = s.minute /\ r.run = s.run => r = s

\* Positions and windows go together: every book read is in an open window, in a row, or
\* came behind the watermark, at any time, also when a failure took the job back.
Accounted ==
  \A m \in Markets : \A i \in 1..job.pos[m] :
    \/ topic[m][i].mid = 0
    \/ <<m, i>> \in job.dropped
    \/ \E k \in Minutes : job.win[m][k] # NONE /\ i \in job.win[m][k].members
    \/ \E r \in rows : r.market = m /\ i \in r.members

\* The connection carries what the collector takes for the list: when that list changes,
\* no market is left without a subscription until the next connection.
SubscribedToList == sub # NONE => sub = markets
=============================================================================
