-------------------------- MODULE MarketAlertProofs --------------------------
(***************************************************************************)
(* Proofs about MarketAlertDetector: the close of the newest minute, the   *)
(* chain of timers, closes that are final, and alerts that are those of    *)
(* the candles.                                                            *)
(***************************************************************************)
EXTENDS MarketAlertDetector, TLAPS, WellFoundedInduction

\* A trade received live is processed before its minute is closed.
InTime == \A lag \in Lags : lag <= LATE_EVENT => lag + Delay <= CLOSE_SLACK

\* The ring reaches back far enough for the longest silence.
Room == RING - LOOKBACK
SilenceFits ==
  /\ CLOSE_SLACK + Delay <= MINUTE
  /\ 3 <= Room
  /\ MaxSilence + 4 <= TIMER_CHAIN_MINUTES + Room

\* The job does not fail, and its first trade is the earliest one.
Undisturbed == OrderedStart /\ MaxCrashes = 0

-----------------------------------------------------------------------------
(* The invariant.                                                           *)

Trade == [t : Nat, p : Prices, lag : Lags]
Undone == Live \ done
Used == Live \cap done

\* The exchange's record is in the order of time, and never silent for too long.
LedgerInv ==
  /\ now \in Nat /\ RING * MINUTE <= now /\ ledger \in Seq(Trade)
  /\ \A i \in Trades : RING * MINUTE <= ledger[i].t /\ ledger[i].t <= now
  /\ \A i, j \in Trades : i < j => ledger[i].t <= ledger[j].t
  /\ \A i \in Live : (\E j \in Live : j < i) => \E j \in Live : j < i /\ Minute(i) - Minute(j) <= MaxSilence

\* q is what the operator remembers of the trades of minute k: the last one it has used,
\* or nothing, if that is the first one of all.
UsedIn(s, k) == {i \in s.done : i \in Live /\ Minute(i) = k}
SeqOK(s, q, k) ==
  \/ q = NONE /\ \A c \in UsedIn(s, k), j \in Live \ s.done : c < j
  \/ q \in s.done /\ q \in Live /\ Minute(q) <= k /\ \A c \in UsedIn(s, k) : c <= q

\* Before the first trade, and after it.
Fresh(s) ==
  /\ s.lastMinute = NONE /\ s.evaluatedMinute = NONE /\ s.lastTradeMinute = NONE
  /\ s.lastSeqCur = NONE /\ s.timers = {} /\ s.level = 0
  /\ \A i \in s.done : i \notin Live
Started(s) ==
  /\ s.lastMinute \in Nat /\ s.evaluatedMinute \in Nat /\ s.lastTradeMinute \in Nat
  /\ s.timers \subseteq Nat
  /\ s.ring \in [Slots -> Prices \cup {NONE}]
  /\ s.evaluatedMinute <= s.lastMinute
  /\ \A i \in s.done : i \in Live => Minute(i) <= s.lastMinute
  /\ s.evaluatedMinute < s.lastMinute => UsedIn(s, s.lastMinute) # {}
  /\ SeqOK(s, s.lastSeqCur, s.lastMinute)
  /\ s.evaluatedMinute < s.lastMinute - 1 => SeqOK(s, s.lastSeqPrev, s.lastMinute - 1)
  /\ \A c \in UsedIn(s, s.lastMinute) :
       (\A j \in UsedIn(s, s.lastMinute) : j <= c) => s.ring[idx(s.lastMinute)] = ledger[c].p
KeyedOK(s) == s.done \subseteq Trades /\ (Fresh(s) \/ Started(s))

JobInv == LedgerInv /\ KeyedOK(Snapshot) /\ KeyedOK(checkpoint)

-----------------------------------------------------------------------------
(* Minutes and slots.                                                       *)

LEMMA Params ==
  /\ RING \in Nat /\ LOOKBACK \in Nat /\ TIMER_CHAIN_MINUTES \in Nat /\ MINUTE \in Nat
  /\ 0 < LOOKBACK /\ LOOKBACK < RING /\ 0 < TIMER_CHAIN_MINUTES /\ 0 < MINUTE
  /\ CLOSE_SLACK \in Nat /\ LATE_EVENT \in Nat /\ Delay \in Nat /\ RestartDelay \in Nat
  /\ MaxSilence \in Nat /\ MaxTime \in Nat /\ MaxTrades \in Nat /\ MaxCrashes \in Nat
  /\ \A p \in Prices : p \in Nat /\ p > 0 /\ p # NONE
  /\ Lags \subseteq Nat /\ NONE \notin Int
<1>1. RING \in Nat \ {0} /\ LOOKBACK \in Nat \ {0} /\ TIMER_CHAIN_MINUTES \in Nat \ {0} /\ MINUTE \in Nat \ {0}
  BY ParameterAssumption
<1>2. /\ CLOSE_SLACK \in Nat /\ LATE_EVENT \in Nat /\ Delay \in Nat /\ RestartDelay \in Nat
      /\ MaxSilence \in Nat /\ MaxTime \in Nat /\ MaxTrades \in Nat /\ MaxCrashes \in Nat
  BY ParameterAssumption
<1>. QED
  BY <1>1, <1>2, ParameterAssumption

\* Two minutes less than RING apart have slots of their own.
LEMMA SlotsDiffer ==
  ASSUME NEW a \in Int, NEW b \in Int, idx(a) = idx(b), a - b < RING, b - a < RING
  PROVE  a = b
<1>1. RING \in Int /\ RING > 0
  BY Params
<1>2. a = RING * (a \div RING) + (a % RING) /\ b = RING * (b \div RING) + (b % RING)
  BY <1>1
<1>. DEFINE q == a \div RING
            p == b \div RING
<1>3. q \in Int /\ p \in Int
  BY <1>1
<1>4. a - b = RING * (q - p)
  BY <1>1, <1>2, <1>3 DEF idx
<1>5. q = p
  <2>1. CASE q > p
    <3>1. RING * (q - p) >= RING
      BY <1>1, <1>3, <2>1
    <3>. QED
      BY <3>1, <1>4, <1>1
  <2>2. CASE q < p
    <3>1. RING * (q - p) <= -RING
      BY <1>1, <1>3, <2>2
    <3>. QED
      BY <3>1, <1>4, <1>1
  <2>. QED
    BY <2>1, <2>2, <1>3
<1>. QED
  BY <1>1, <1>3, <1>4, <1>5

LEMMA SlotOf == ASSUME NEW k \in Int PROVE idx(k) \in Slots
BY Params DEF idx, Slots

\* What setting the minutes from..to leaves in the slot of minute k.
LEMMA FilledAt ==
  ASSUME NEW r, NEW from \in Int, NEW to \in Int, NEW v, NEW k \in Int,
         k \in from..to \/ (k < from /\ to - k < RING)
  PROVE  Filled(r, from, to, v)[idx(k)] = IF k \in from..to THEN v ELSE r[idx(k)]
<1>1. idx(k) \in Slots
  BY SlotOf
<1>2. CASE k \in from..to
  BY <1>1, <1>2 DEF Filled
<1>3. CASE k < from /\ to - k < RING
  <2>1. \A j \in from..to : idx(j) # idx(k)
    BY <1>3, Params, SlotsDiffer
  <2>. QED
    BY <1>1, <1>3, <2>1 DEF Filled
<1>. QED
  BY <1>2, <1>3

LEMMA FilledType ==
  ASSUME NEW r \in [Slots -> Prices \cup {NONE}], NEW from, NEW to, NEW v \in Prices \cup {NONE}
  PROVE  Filled(r, from, to, v) \in [Slots -> Prices \cup {NONE}]
BY DEF Filled

\* The minute of a moment.
LEMMA MinuteOf ==
  ASSUME NEW t \in Nat
  PROVE  /\ t \div MINUTE \in Nat
         /\ (t \div MINUTE) * MINUTE <= t /\ t < ((t \div MINUTE) + 1) * MINUTE
BY Params

LEMMA MinuteAtLeast ==
  ASSUME NEW t \in Nat, NEW m \in Int
  PROVE  t \div MINUTE >= m <=> t >= m * MINUTE
<1>. DEFINE q == t \div MINUTE
<1>1. q \in Nat /\ q * MINUTE <= t /\ t < (q + 1) * MINUTE
  BY MinuteOf
<1>. HIDE DEF q
<1>2. MINUTE \in Nat /\ MINUTE > 0
  BY Params
<1>3. ASSUME q >= m PROVE t >= m * MINUTE
  <2>1. q * MINUTE >= m * MINUTE
    BY <1>1, <1>2, <1>3
  <2>. QED
    BY <1>1, <1>2, <2>1
<1>4. ASSUME q < m PROVE t < m * MINUTE
  <2>1. (q + 1) * MINUTE <= m * MINUTE
    BY <1>1, <1>2, <1>4
  <2>. QED
    BY <1>1, <1>2, <2>1
<1>. QED
  BY <1>1, <1>2, <1>3, <1>4 DEF q

-----------------------------------------------------------------------------
(* The exchange's record.                                                   *)

LEMMA LedgerFacts ==
  ASSUME LedgerInv
  PROVE  /\ Len(ledger) \in Nat /\ Trades = 1..Len(ledger)
         /\ \A i \in Trades : /\ ledger[i].t \in Nat /\ ledger[i].lag \in Nat /\ ledger[i].lag \in Lags
                              /\ ledger[i].p \in Prices
                              /\ Minute(i) \in Nat /\ RING <= Minute(i)
                              /\ Minute(i) * MINUTE <= now /\ Minute(i) * MINUTE <= ledger[i].t
                              /\ ledger[i].t < (Minute(i) + 1) * MINUTE
         /\ \A i, j \in Trades : i <= j => Minute(i) <= Minute(j)
         /\ Live \subseteq Trades
<1>1. Len(ledger) \in Nat /\ Trades = 1..Len(ledger) /\ \A i \in Trades : ledger[i] \in Trade
  BY DEF LedgerInv, Trades
<1>2. \A i \in Trades : /\ ledger[i].t \in Nat /\ ledger[i].lag \in Lags /\ ledger[i].p \in Prices
                        /\ RING * MINUTE <= ledger[i].t /\ ledger[i].t <= now
  BY <1>1 DEF LedgerInv, Trade
<1>3. \A i \in Trades : ledger[i].lag \in Nat
  BY <1>2, Params
<1>4. ASSUME NEW i \in Trades
      PROVE  /\ Minute(i) \in Nat /\ RING <= Minute(i)
             /\ Minute(i) * MINUTE <= ledger[i].t /\ ledger[i].t < (Minute(i) + 1) * MINUTE
  <2>. DEFINE t == ledger[i].t
  <2>1. t \in Nat /\ RING * MINUTE <= t /\ RING \in Int /\ Minute(i) = t \div MINUTE
    BY <1>2, Params DEF Minute
  <2>. HIDE DEF t
  <2>2. t \div MINUTE \in Nat /\ (t \div MINUTE) * MINUTE <= t /\ t < ((t \div MINUTE) + 1) * MINUTE
    BY <2>1, MinuteOf
  <2>3. t \div MINUTE >= RING
    BY <2>1, MinuteAtLeast
  <2>4. Minute(i) \in Nat /\ RING <= Minute(i) /\ Minute(i) * MINUTE <= t /\ t < (Minute(i) + 1) * MINUTE
    BY <2>1, <2>2, <2>3
  <2>. QED
    BY <2>4 DEF t
<1>5. ASSUME NEW i \in Trades PROVE Minute(i) * MINUTE <= now
  <2>1. Minute(i) * MINUTE \in Int
    BY <1>4, Params
  <2>. QED
    BY <1>2, <1>4, <2>1 DEF LedgerInv
<1>6. ASSUME NEW i \in Trades, NEW j \in Trades, i <= j PROVE Minute(i) <= Minute(j)
  <2>1. ledger[i].t <= ledger[j].t
    BY <1>1, <1>2, <1>6 DEF LedgerInv
  <2>2. ledger[j].t >= Minute(i) * MINUTE
    <3>1. Minute(i) * MINUTE \in Int
      BY <1>4, Params
    <3>. QED
      BY <1>2, <1>4, <2>1, <3>1
  <2>. QED
    BY <1>2, <1>4, <2>2, MinuteAtLeast DEF Minute
<1>. QED
  BY <1>1, <1>2, <1>3, <1>4, <1>5, <1>6 DEF Live

\* A trade executed is the last of the record, and leaves the others alone.
LEMMA ExecuteIs ==
  ASSUME LedgerInv, NEW p \in Prices, NEW lag \in Lags, Execute(p, lag)
  PROVE  \E n \in Nat :
           /\ n = Len(ledger) + 1
           /\ Trades' = Trades \cup {n} /\ n \notin Trades /\ ledger' \in Seq(Trade)
           /\ \A i \in Trades : /\ i \in Nat /\ i < n /\ ledger'[i] = ledger[i]
                                /\ Minute(i)' = Minute(i) /\ (i \in Live' <=> i \in Live)
           /\ ledger'[n] = [t |-> now, p |-> p, lag |-> lag]
           /\ Minute(n)' = now \div MINUTE
<1>. DEFINE e == [t |-> now, p |-> p, lag |-> lag]
<1>1. PICK n : n = Len(ledger) + 1
  OBVIOUS
<1>2. ledger' = Append(ledger, e)
  BY DEF Execute
<1>3. ledger \in Seq(Trade) /\ e \in Trade /\ Len(ledger) \in Nat /\ Trades = 1..Len(ledger)
  BY Params DEF LedgerInv, Trade, Trades
<1>4. /\ ledger' \in Seq(Trade) /\ DOMAIN ledger' = 1..n
      /\ \A i \in 1..Len(ledger) : ledger'[i] = ledger[i]
      /\ ledger'[n] = e
  <2>. HIDE DEF e
  <2>. QED
    BY <1>1, <1>2, <1>3
<1>5. Trades' = Trades \cup {n} /\ n \notin Trades /\ \A i \in Trades : i \in Nat /\ i < n
  BY <1>1, <1>3, <1>4 DEF Trades
<1>6. \A i \in Trades : Minute(i)' = Minute(i) /\ (i \in Live' <=> i \in Live)
  BY <1>3, <1>4, <1>5 DEF Minute, Live, Late
<1>7. Minute(n)' = now \div MINUTE
  <2>1. ledger'[n].t = now
    BY <1>4
  <2>. QED
    BY <2>1 DEF Minute
<1>8. n \in Nat
  BY <1>1, <1>3
<1>9. ledger'[n] = [t |-> now, p |-> p, lag |-> lag] /\ ledger' \in Seq(Trade)
  BY <1>4
<1>10. \A i \in Trades : ledger'[i] = ledger[i]
  BY <1>3, <1>4
<1>. WITNESS n \in Nat
<1>. QED
  BY <1>1, <1>5, <1>6, <1>7, <1>9, <1>10

LEMMA LedgerExecute ==
  ASSUME LedgerInv, NEW p \in Prices, NEW lag \in Lags, Execute(p, lag)
  PROVE  LedgerInv'
<1>0. PICK n \in Nat :
        /\ n = Len(ledger) + 1
        /\ Trades' = Trades \cup {n} /\ n \notin Trades /\ ledger' \in Seq(Trade)
        /\ \A i \in Trades : /\ i \in Nat /\ i < n /\ ledger'[i] = ledger[i]
                             /\ Minute(i)' = Minute(i) /\ (i \in Live' <=> i \in Live)
        /\ ledger'[n] = [t |-> now, p |-> p, lag |-> lag]
        /\ Minute(n)' = now \div MINUTE
  BY ExecuteIs, Zenon
<1>1. /\ Trades' = Trades \cup {n} /\ n \notin Trades /\ ledger' \in Seq(Trade)
      /\ \A i \in Trades : /\ i \in Nat /\ i < n /\ ledger'[i] = ledger[i]
                           /\ Minute(i)' = Minute(i) /\ (i \in Live' <=> i \in Live)
      /\ ledger'[n].t = now /\ Minute(n)' = now \div MINUTE
  BY <1>0
<1>2. now' = now /\ now \in Nat /\ RING * MINUTE <= now /\ (RING * MINUTE)' = RING * MINUTE
  BY DEF Execute, LedgerInv
<1>3. \A i \in Trades' : RING * MINUTE <= ledger'[i].t /\ ledger'[i].t <= now
  BY <1>1, <1>2 DEF LedgerInv
<1>4. \A i, j \in Trades' : i < j => ledger'[i].t <= ledger'[j].t
  BY <1>1, <1>2, <1>3 DEF LedgerInv
<1>5. ASSUME NEW i \in Live', NEW h \in Live', h < i
      PROVE  \E j \in Live' : j < i /\ Minute(i)' - Minute(j)' <= MaxSilence
  <2>1. i \in Trades' /\ h \in Trades'
    BY <1>5 DEF Live
  <2>2. CASE i = n
    <3>1. h \in Live
      BY <1>1, <1>5, <2>1, <2>2
    <3>2. PICK j \in Live : now \div MINUTE - Minute(j) <= MaxSilence
      BY <3>1 DEF Execute
    <3>. QED
      BY <1>1, <2>2, <3>2 DEF Live
  <2>3. CASE i \in Trades
    <3>1. i \in Live /\ h \in Live
      BY <1>1, <1>5, <2>1, <2>3
    <3>2. PICK j \in Live : j < i /\ Minute(i) - Minute(j) <= MaxSilence
      BY <1>5, <3>1 DEF LedgerInv
    <3>3. j \in Trades
      BY DEF Live
    <3>. QED
      BY <1>1, <2>3, <3>2, <3>3
  <2>. QED
    BY <1>1, <2>1, <2>2, <2>3
<1>. QED
  BY <1>1, <1>2, <1>3, <1>4, <1>5 DEF LedgerInv

LEMMA LedgerStep ==
  ASSUME LedgerInv, [Next]_vars
  PROVE  LedgerInv'
<1>1. CASE Tick
  <2>1. now' = now + 1 /\ ledger' = ledger
    BY <1>1 DEF Tick
  <2>2. now \in Int /\ RING * MINUTE \in Int /\ (RING * MINUTE)' = RING * MINUTE
    BY Params DEF LedgerInv
  <2>3. now' \in Nat /\ RING * MINUTE <= now'
    BY <2>1, <2>2 DEF LedgerInv
  <2>4. \A i \in Trades : ledger[i].t <= now'
    BY <2>1, <2>2, LedgerFacts DEF LedgerInv
  <2>. QED
    BY <2>1, <2>2, <2>3, <2>4 DEF LedgerInv, Trades, Live, Late, Minute, Trade
<1>2. CASE \E p \in Prices, lag \in Lags : Execute(p, lag)
  BY <1>2, LedgerExecute
<1>3. CASE UNCHANGED <<now, ledger>>
  BY <1>3 DEF LedgerInv, Trades, Live, Late, Minute, Trade
<1>. QED
  BY <1>1, <1>2, <1>3 DEF Next, vars, Checkpoint, Crash, Restore, processElement, onTimer

-----------------------------------------------------------------------------
(* What the operator remembers, and what a checkpoint holds.                *)

LEMMA SnapshotIs ==
  /\ Snapshot.ring = ring /\ Snapshot.lastMinute = lastMinute /\ Snapshot.level = level
  /\ Snapshot.evaluatedMinute = evaluatedMinute /\ Snapshot.lastTradeMinute = lastTradeMinute
  /\ Snapshot.lastSeqCur = lastSeqCur /\ Snapshot.lastSeqPrev = lastSeqPrev
  /\ Snapshot.timers = timers /\ Snapshot.done = done
BY DEF Snapshot

\* A step that leaves the record alone keeps what is true of a memory.
LEMMA Unprime ==
  ASSUME NEW u, ledger' = ledger, KeyedOK(u)
  PROVE  KeyedOK(u)'
BY DEF KeyedOK, Fresh, Started, SeqOK, UsedIn, Live, Late, Minute, Trades

LEMMA SnapshotNext ==
  ASSUME NEW u, u = Snapshot', KeyedOK(u)' PROVE KeyedOK(Snapshot)'
BY DEF KeyedOK, Fresh, Started, SeqOK, UsedIn, Live, Late, Minute, Trades

LEMMA CheckpointNext ==
  ASSUME NEW u, u = checkpoint', KeyedOK(u)' PROVE KeyedOK(checkpoint)'
BY DEF KeyedOK, Fresh, Started, SeqOK, UsedIn, Live, Late, Minute, Trades

\* A trade executed later changes nothing of what is remembered.
LEMMA KeyedExecute ==
  ASSUME LedgerInv, NEW p \in Prices, NEW lag \in Lags, Execute(p, lag), NEW u, KeyedOK(u)
  PROVE  KeyedOK(u)'
<1>1. PICK n \in Nat :
        /\ n = Len(ledger) + 1
        /\ Trades' = Trades \cup {n} /\ n \notin Trades /\ ledger' \in Seq(Trade)
        /\ \A i \in Trades : /\ i \in Nat /\ i < n /\ ledger'[i] = ledger[i]
                             /\ Minute(i)' = Minute(i) /\ (i \in Live' <=> i \in Live)
        /\ ledger'[n] = [t |-> now, p |-> p, lag |-> lag]
        /\ Minute(n)' = now \div MINUTE
  BY ExecuteIs, Zenon
<1>2. /\ Trades' = Trades \cup {n} /\ n \notin Trades
      /\ \A i \in Trades : /\ i \in Nat /\ i < n /\ ledger'[i] = ledger[i]
                           /\ Minute(i)' = Minute(i) /\ (i \in Live' <=> i \in Live)
  BY <1>1
<1>3. u.done \subseteq Trades /\ Live' \subseteq Live \cup {n} /\ Live \subseteq Trades
  BY <1>2 DEF KeyedOK, Live
<1>4. \A k : UsedIn(u, k)' = UsedIn(u, k)
  BY <1>2, <1>3, Zenon DEF UsedIn
<1>5. \A i \in u.done : (i \in Live' <=> i \in Live) /\ Minute(i)' = Minute(i) /\ ledger'[i] = ledger[i]
  BY <1>2, <1>3
<1>6. ASSUME NEW q, NEW k, SeqOK(u, q, k) PROVE SeqOK(u, q, k)'
  <2>1. CASE q = NONE /\ \A c \in UsedIn(u, k), j \in Live \ u.done : c < j
    <3>1. \A c \in UsedIn(u, k) : c \in u.done
      BY DEF UsedIn
    <3>2. \A c \in UsedIn(u, k)', j \in Live' \ u.done : c < j
      BY <1>2, <1>3, <1>4, <2>1, <3>1
    <3>. QED
      BY <2>1, <3>2 DEF SeqOK
  <2>2. CASE q \in u.done /\ q \in Live /\ Minute(q) <= k /\ \A c \in UsedIn(u, k) : c <= q
    <3>1. q \in Live' /\ Minute(q)' <= k /\ \A c \in UsedIn(u, k)' : c <= q
      BY <1>4, <1>5, <2>2
    <3>. QED
      BY <2>2, <3>1 DEF SeqOK
  <2>. QED
    BY <1>6, <2>1, <2>2 DEF SeqOK
<1>7. CASE Fresh(u)
  BY <1>2, <1>3, <1>5, <1>7 DEF Fresh, KeyedOK
<1>8. CASE Started(u)
  <2>1. \A i \in u.done : i \in Live' => Minute(i)' <= u.lastMinute
    BY <1>5, <1>8 DEF Started
  <2>2. \A c \in UsedIn(u, u.lastMinute) : c \in u.done
    BY DEF UsedIn
  <2>3. \A c \in UsedIn(u, u.lastMinute)' :
          (\A j \in UsedIn(u, u.lastMinute)' : j <= c) => u.ring[idx(u.lastMinute)] = ledger'[c].p
    BY <1>4, <1>5, <1>8, <2>2 DEF Started
  <2>4. SeqOK(u, u.lastSeqCur, u.lastMinute)'
    BY <1>6, <1>8 DEF Started
  <2>5. u.evaluatedMinute < u.lastMinute - 1 => SeqOK(u, u.lastSeqPrev, u.lastMinute - 1)'
    BY <1>6, <1>8 DEF Started
  <2>6. u.evaluatedMinute < u.lastMinute => UsedIn(u, u.lastMinute)' # {}
    BY <1>4, <1>8 DEF Started
  <2>7. Started(u)'
    BY <1>8, <2>1, <2>3, <2>4, <2>5, <2>6 DEF Started
  <2>. QED
    BY <1>2, <1>3, <2>7 DEF KeyedOK
<1>. QED
  BY <1>7, <1>8 DEF KeyedOK

\* A trade consumed, in the terms of what is remembered before (s) and after (u).
LEMMA ConsumedIn ==
  ASSUME LedgerInv, NEW s, NEW u, NEW i \in Live, u.done = s.done \cup {i}
  PROVE  \A k : UsedIn(u, k) = UsedIn(s, k) \cup (IF Minute(i) = k THEN {i} ELSE {})
BY DEF UsedIn

\* What is remembered of another minute is still true after trade i.
LEMMA SeqKept ==
  ASSUME LedgerInv, NEW s, NEW u, NEW i \in Live, u.done = s.done \cup {i},
         NEW q, NEW k, SeqOK(s, q, k), Minute(i) # k
  PROVE  SeqOK(u, q, k)
<1>1. UsedIn(u, k) = UsedIn(s, k)
  BY DEF UsedIn
<1>. QED
  BY <1>1 DEF SeqOK

\* The rule of the sequential id: trade i of minute k is kept if it is after q.
LEMMA SeqMoved ==
  ASSUME LedgerInv, NEW s, s.done \subseteq Trades, NEW u, NEW i \in Live, i \notin s.done, u.done = s.done \cup {i},
         NEW q, NEW k, SeqOK(s, q, k), Minute(i) = k
  PROVE  /\ q = NONE \/ i > q => SeqOK(u, i, k) /\ \A c \in UsedIn(u, k) : c <= i
         /\ ~(q = NONE \/ i > q) => SeqOK(u, q, k) /\ q \in UsedIn(s, k) /\ \A c \in UsedIn(u, k) : c <= q
<1>1. UsedIn(u, k) = UsedIn(s, k) \cup {i} /\ UsedIn(s, k) \subseteq s.done \cap Live
  BY ConsumedIn DEF UsedIn
<1>2. \A a \in Live : a \in Nat /\ a # NONE /\ Minute(a) \in Nat
  BY LedgerFacts, Params
<1>3. \A a, b \in Live : a <= b => Minute(a) <= Minute(b)
  BY LedgerFacts
<1>4. CASE q = NONE /\ \A c \in UsedIn(s, k), j \in Live \ s.done : c < j
  <2>1. \A c \in UsedIn(u, k) : c <= i
    BY <1>1, <1>2, <1>4
  <2>. QED
    BY <1>2, <1>3, <1>4, <2>1 DEF SeqOK
<1>5. CASE q \in s.done /\ q \in Live /\ Minute(q) <= k /\ \A c \in UsedIn(s, k) : c <= q
  <2>1. q \in Nat /\ i \in Nat /\ q # NONE
    BY <1>2, <1>5
  <2>2. CASE i > q
    <3>1. \A c \in UsedIn(u, k) : c <= i
      <4>1. \A c \in UsedIn(s, k) : c \in Nat /\ c <= q
        BY <1>1, <1>2, <1>5
      <4>2. \A c \in UsedIn(s, k) : c <= i
        BY <4>1, <2>1, <2>2
      <4>. QED
        BY <1>1, <2>1, <4>2
    <3>. QED
      BY <1>2, <1>3, <2>1, <2>2, <3>1 DEF SeqOK
  <2>3. CASE i < q
    <3>1. Minute(q) = k
      BY <1>2, <1>3, <1>5, <2>3
    <3>2. q \in UsedIn(s, k)
      BY <1>5, <3>1 DEF UsedIn
    <3>3. \A c \in UsedIn(u, k) : c <= q
      BY <1>1, <1>5, <2>1, <2>3
    <3>. QED
      BY <1>5, <2>1, <2>3, <3>2, <3>3 DEF SeqOK
  <2>. QED
    BY <1>5, <2>1, <2>2, <2>3
<1>. QED
  BY <1>4, <1>5 DEF SeqOK

LEMMA SlotSet ==
  ASSUME NEW r \in [Slots -> Prices \cup {NONE}], NEW k \in Int, NEW v \in Prices \cup {NONE}
  PROVE  /\ [r EXCEPT ![idx(k)] = v] \in [Slots -> Prices \cup {NONE}]
         /\ [r EXCEPT ![idx(k)] = v][idx(k)] = v
         /\ \A j \in Int : j - k < RING /\ k - j < RING /\ j # k => [r EXCEPT ![idx(k)] = v][idx(j)] = r[idx(j)]
<1>1. idx(k) \in Slots
  BY SlotOf
<1>2. \A j \in Int : idx(j) \in Slots /\ (j - k < RING /\ k - j < RING /\ j # k => idx(j) # idx(k))
  BY SlotOf, SlotsDiffer
<1>. QED
  BY <1>1, <1>2

LEMMA FirstIsEarliest ==
  ASSUME OrderedStart, NEW i \in Trades, processElement(i), lastMinute = NONE
  PROVE  \A j \in Trades \ done : Late(j) \/ i <= j \/ Late(i)
BY DEF processElement

\* The memory after trade i, by the branch of processElement that took it.
LEMMA KeyedTrade ==
  ASSUME OrderedStart, LedgerInv, KeyedOK(Snapshot), NEW i \in Trades, processElement(i)
  PROVE  KeyedOK(Snapshot)'
<1>1. PICK s : s = Snapshot
  OBVIOUS
<1>2. PICK u : u = Snapshot'
  OBVIOUS
<1>3. /\ s.ring = ring /\ s.lastMinute = lastMinute /\ s.level = level
      /\ s.evaluatedMinute = evaluatedMinute /\ s.lastTradeMinute = lastTradeMinute
      /\ s.lastSeqCur = lastSeqCur /\ s.lastSeqPrev = lastSeqPrev
      /\ s.timers = timers /\ s.done = done
  BY <1>1, SnapshotIs
<1>4. /\ u.ring = ring' /\ u.lastMinute = lastMinute' /\ u.level = level'
      /\ u.evaluatedMinute = evaluatedMinute' /\ u.lastTradeMinute = lastTradeMinute'
      /\ u.lastSeqCur = lastSeqCur' /\ u.lastSeqPrev = lastSeqPrev'
      /\ u.timers = timers' /\ u.done = done'
  BY <1>2 DEF Snapshot
<1>5. KeyedOK(s) /\ s.done \subseteq Trades /\ ledger' = ledger
  BY <1>1 DEF KeyedOK, processElement
<1>6. i \notin s.done /\ u.done = s.done \cup {i} /\ u.done \subseteq Trades
  BY <1>3, <1>4, <1>5 DEF processElement
<1>7. CASE Late(i)
  <2>1. i \notin Live /\ UNCHANGED keyed
    BY <1>7 DEF Live, processElement
  <2>2. /\ u.ring = s.ring /\ u.lastMinute = s.lastMinute /\ u.level = s.level
        /\ u.evaluatedMinute = s.evaluatedMinute /\ u.lastTradeMinute = s.lastTradeMinute
        /\ u.lastSeqCur = s.lastSeqCur /\ u.lastSeqPrev = s.lastSeqPrev /\ u.timers = s.timers
    BY <1>3, <1>4, <2>1 DEF keyed
  <2>3. \A k : UsedIn(u, k) = UsedIn(s, k)
    BY <1>6, <2>1 DEF UsedIn
  <2>4. \A q, k : SeqOK(s, q, k) => SeqOK(u, q, k)
    BY <1>6, <2>3 DEF SeqOK
  <2>5. Fresh(s) => Fresh(u)
    BY <1>6, <2>1, <2>2 DEF Fresh
  <2>6. Started(s) => Started(u)
    BY <1>6, <2>1, <2>2, <2>3, <2>4 DEF Started
  <2>. QED
    BY <1>5, <1>6, <2>5, <2>6, <1>2, Unprime, SnapshotNext DEF KeyedOK
<1>8. CASE ~Late(i)
  <2>. DEFINE m == Minute(i)
  <2>1. /\ i \in Live /\ i \in Nat /\ m \in Nat /\ RING <= m /\ ledger[i].p \in Prices
        /\ lastTradeMinute' = m /\ timers' = timers \cup {m} /\ level' = level
    BY <1>8, LedgerFacts DEF processElement, Live
  <2>2. FirstTrade(i, m) \/ NewMinute(i, m) \/ SameMinute(i, m) \/ PreviousMinute(i, m) \/ Ignored(m)
    BY <1>8 DEF processElement
  <2>3. \A k : UsedIn(u, k) = UsedIn(s, k) \cup (IF m = k THEN {i} ELSE {})
    BY <1>6, <2>1, ConsumedIn
  <2>4. u.lastTradeMinute = m /\ u.timers = s.timers \cup {m} /\ u.level = s.level
    BY <1>3, <1>4, <2>1
  <2>5. RING \in Nat /\ 2 <= RING /\ NONE \notin Int
    BY Params
  <2>. HIDE DEF m
  <2>6. CASE FirstTrade(i, m)
    <3>1. Fresh(s)
      BY <1>3, <1>5, <2>6, Params DEF KeyedOK, Started, FirstTrade
    <3>2. /\ u.ring = [x \in Slots |-> IF x = idx(m) THEN ledger[i].p ELSE NONE]
          /\ u.lastMinute = m /\ u.evaluatedMinute = m - 1 /\ u.lastSeqCur = NONE
      BY <1>3, <1>4, <2>6, <3>1 DEF FirstTrade, Fresh
    <3>3. u.ring \in [Slots -> Prices \cup {NONE}] /\ u.ring[idx(m)] = ledger[i].p
      BY <2>1, <3>2, SlotOf
    <3>4. UsedIn(u, m) = {i} /\ \A c \in u.done : c \in Live => c = i
      BY <1>6, <2>3, <3>1 DEF Fresh, UsedIn
    <3>5. \A j \in Live \ u.done : i < j
      <4>1. \A j \in Trades \ done : Late(j) \/ i <= j \/ Late(i)
        BY <1>3, <3>1, <1>8, FirstIsEarliest DEF Fresh
      <4>2. \A j \in Live \ u.done : i <= j /\ i # j /\ j \in Nat
        BY <1>3, <1>6, <1>8, <4>1, LedgerFacts DEF Live
      <4>. QED
        BY <2>1, <4>2
    <3>6. SeqOK(u, u.lastSeqCur, m)
      BY <3>2, <3>4, <3>5 DEF SeqOK
    <3>7. u.timers \subseteq Nat /\ \A c \in u.done : c \in Live => Minute(c) <= m
      BY <2>1, <2>4, <3>1, <3>4 DEF Fresh, m
    <3>8. m - 1 \in Nat /\ ~(m - 1 < m - 1) /\ m - 1 < m
      BY <2>1, <2>5
    <3>9. Started(u)
      BY <2>1, <2>4, <3>2, <3>3, <3>4, <3>6, <3>7, <3>8 DEF Started
    <3>. QED
      BY <1>2, <1>5, <1>6, <3>9, Unprime, SnapshotNext DEF KeyedOK
  <2>7. ASSUME lastMinute # NONE PROVE Started(s) /\ u.timers \subseteq Nat
    BY <1>3, <1>5, <2>1, <2>4, <2>7 DEF KeyedOK, Fresh, Started
  <2>8. CASE NewMinute(i, m)
    <3>1. /\ Started(s) /\ u.timers \subseteq Nat /\ m > s.lastMinute
          /\ u.lastMinute = m /\ u.evaluatedMinute = s.evaluatedMinute /\ u.lastSeqCur = i
          /\ u.lastSeqPrev = IF m = s.lastMinute + 1 THEN s.lastSeqCur ELSE NONE
      BY <1>3, <1>4, <2>7, <2>8 DEF NewMinute
    <3>2. s.lastMinute \in Nat /\ s.evaluatedMinute \in Nat /\ s.evaluatedMinute < m
          /\ s.ring \in [Slots -> Prices \cup {NONE}]
      BY <2>1, <3>1 DEF Started
    <3>3. \A c \in s.done : c \in Live => Minute(c) < m
      BY <2>1, <3>1, <3>2, LedgerFacts DEF Started
    <3>4. UsedIn(u, m) = {i} /\ UsedIn(s, m) = {} /\ \A k : k # m => UsedIn(u, k) = UsedIn(s, k)
      BY <2>1, <2>3, <3>3 DEF UsedIn
    <3>5. u.ring \in [Slots -> Prices \cup {NONE}] /\ u.ring[idx(m)] = ledger[i].p
      <4>. DEFINE filled == Filled(s.ring, Larger(s.lastMinute + 1, m - RING + 1), m - 1, s.ring[idx(s.lastMinute)])
      <4>1. u.ring = [filled EXCEPT ![idx(m)] = ledger[i].p]
        BY <1>3, <1>4, <2>8 DEF NewMinute
      <4>2. filled \in [Slots -> Prices \cup {NONE}]
        BY <3>2, SlotOf, FilledType
      <4>. HIDE DEF filled
      <4>. QED
        BY <2>1, <4>1, <4>2, SlotSet
    <3>6. SeqOK(u, i, m)
      BY <1>6, <2>1, <3>4 DEF SeqOK, m
    <3>7. SeqOK(u, u.lastSeqPrev, m - 1)
      <4>1. CASE m = s.lastMinute + 1
        <5>1. u.lastSeqPrev = s.lastSeqCur /\ m - 1 = s.lastMinute /\ m # m - 1
          BY <2>1, <3>1, <3>2, <4>1
        <5>2. SeqOK(s, s.lastSeqCur, m - 1)
          BY <3>1, <5>1 DEF Started
        <5>. QED
          BY <1>6, <2>1, <5>1, <5>2, SeqKept DEF m
      <4>2. CASE m # s.lastMinute + 1
        <5>1. u.lastSeqPrev = NONE
          BY <3>1, <4>2
        <5>2. UsedIn(u, m - 1) = {}
          BY <2>1, <2>3, <3>1, <3>2, <4>2 DEF Started, UsedIn
        <5>. QED
          BY <5>1, <5>2 DEF SeqOK
      <4>. QED
        BY <4>1, <4>2
    <3>8. \A c \in u.done : c \in Live => Minute(c) <= m
      BY <1>6, <2>1, <3>3, LedgerFacts DEF m
    <3>9. Started(u)
      BY <2>1, <2>4, <3>1, <3>2, <3>4, <3>5, <3>6, <3>7, <3>8 DEF Started
    <3>. QED
      BY <1>2, <1>5, <1>6, <3>9, Unprime, SnapshotNext DEF KeyedOK
  <2>9. CASE SameMinute(i, m)
    <3>1. /\ Started(s) /\ u.timers \subseteq Nat /\ m = s.lastMinute
          /\ u.lastMinute = m /\ u.evaluatedMinute = s.evaluatedMinute /\ u.lastSeqPrev = s.lastSeqPrev
      BY <1>3, <1>4, <2>7, <2>9 DEF SameMinute
    <3>2. s.evaluatedMinute \in Nat /\ s.ring \in [Slots -> Prices \cup {NONE}] /\ SeqOK(s, s.lastSeqCur, m)
      BY <3>1 DEF Started
    <3>3. i \in UsedIn(u, m)
      BY <2>3
    <3>4. s.evaluatedMinute < m - 1 => SeqOK(u, u.lastSeqPrev, m - 1)
      <4>1. m # m - 1
        BY <2>1
      <4>. QED
        BY <1>6, <2>1, <3>1, <4>1, SeqKept DEF Started, m
    <3>5. \A c \in u.done : c \in Live => Minute(c) <= m
      BY <1>6, <2>1, <3>1 DEF Started, m
    <3>6. /\ SeqOK(u, u.lastSeqCur, m) /\ u.ring \in [Slots -> Prices \cup {NONE}]
          /\ \A c \in UsedIn(u, m) : (\A j \in UsedIn(u, m) : j <= c) => u.ring[idx(m)] = ledger[c].p
      <4>1. CASE s.lastSeqCur = NONE \/ i > s.lastSeqCur
        <5>1. u.ring = [s.ring EXCEPT ![idx(m)] = ledger[i].p] /\ u.lastSeqCur = i
          BY <1>3, <1>4, <2>9, <4>1 DEF SameMinute
        <5>2. SeqOK(u, i, m) /\ \A c \in UsedIn(u, m) : c <= i
          BY <1>5, <1>6, <2>1, <3>2, <4>1, SeqMoved DEF m
        <5>3. \A c \in UsedIn(u, m) : (\A j \in UsedIn(u, m) : j <= c) => c = i
          <6>1. \A c \in UsedIn(u, m) : c \in Nat
            BY LedgerFacts DEF UsedIn
          <6>. QED
            BY <2>1, <3>3, <5>2, <6>1
        <5>4. u.ring \in [Slots -> Prices \cup {NONE}] /\ u.ring[idx(m)] = ledger[i].p
          BY <2>1, <3>2, <5>1, SlotSet
        <5>. QED
          BY <5>1, <5>2, <5>3, <5>4
      <4>2. CASE ~(s.lastSeqCur = NONE \/ i > s.lastSeqCur)
        <5>. DEFINE q == s.lastSeqCur
        <5>1. u.ring = s.ring /\ u.lastSeqCur = q
          BY <1>3, <1>4, <2>9, <4>2 DEF SameMinute
        <5>2. SeqOK(u, q, m) /\ q \in UsedIn(s, m) /\ \A c \in UsedIn(u, m) : c <= q
          BY <1>5, <1>6, <2>1, <3>2, <4>2, SeqMoved DEF m
        <5>3. q \in UsedIn(u, m)
          BY <2>3, <5>2
        <5>4. \A c \in UsedIn(u, m) : c \in Nat
          BY LedgerFacts DEF UsedIn
        <5>. HIDE DEF q
        <5>5. \A c \in UsedIn(u, m) : (\A j \in UsedIn(u, m) : j <= c) => c = q
          BY <5>2, <5>3, <5>4
        <5>6. \A j \in UsedIn(s, m) : j <= q
          BY <2>3, <5>2
        <5>7. u.ring[idx(m)] = ledger[q].p
          BY <3>1, <5>1, <5>2, <5>6 DEF Started
        <5>. QED
          BY <3>2, <5>1, <5>2, <5>5, <5>7
      <4>. QED
        BY <4>1, <4>2
    <3>7. Started(u)
      BY <2>1, <2>4, <3>1, <3>2, <3>3, <3>4, <3>5, <3>6 DEF Started
    <3>. QED
      BY <1>2, <1>5, <1>6, <3>7, Unprime, SnapshotNext DEF KeyedOK
  <2>10. CASE PreviousMinute(i, m)
    <3>1. /\ Started(s) /\ u.timers \subseteq Nat /\ m = s.lastMinute - 1
          /\ u.lastMinute = s.lastMinute /\ u.evaluatedMinute = s.evaluatedMinute /\ u.lastSeqCur = s.lastSeqCur
      BY <1>3, <1>4, <2>7, <2>10 DEF PreviousMinute
    <3>2. /\ s.lastMinute \in Nat /\ s.evaluatedMinute \in Nat /\ s.ring \in [Slots -> Prices \cup {NONE}]
          /\ s.evaluatedMinute < m /\ SeqOK(s, s.lastSeqPrev, m)
      BY <1>3, <2>1, <2>10, <3>1 DEF Started, PreviousMinute
    <3>3. m # s.lastMinute /\ UsedIn(u, s.lastMinute) = UsedIn(s, s.lastMinute)
      <4>1. m # s.lastMinute
        BY <3>1, <3>2
      <4>. QED
        BY <2>3, <4>1
    <3>4. SeqOK(u, u.lastSeqCur, s.lastMinute)
      BY <1>6, <2>1, <3>1, <3>3, SeqKept DEF Started, m
    <3>5. SeqOK(u, u.lastSeqPrev, m) /\ u.ring \in [Slots -> Prices \cup {NONE}]
          /\ u.ring[idx(s.lastMinute)] = s.ring[idx(s.lastMinute)]
      <4>1. CASE s.lastSeqPrev = NONE \/ i > s.lastSeqPrev
        <5>1. u.ring = [s.ring EXCEPT ![idx(m)] = ledger[i].p] /\ u.lastSeqPrev = i
          BY <1>3, <1>4, <2>10, <4>1 DEF PreviousMinute
        <5>2. SeqOK(u, i, m)
          BY <1>5, <1>6, <2>1, <3>2, <4>1, SeqMoved DEF m
        <5>3. s.lastMinute - m < RING /\ m - s.lastMinute < RING
          BY <2>1, <2>5, <3>1, <3>2
        <5>. QED
          BY <2>1, <3>2, <3>3, <5>1, <5>2, <5>3, SlotSet
      <4>2. CASE ~(s.lastSeqPrev = NONE \/ i > s.lastSeqPrev)
        <5>1. u.ring = s.ring /\ u.lastSeqPrev = s.lastSeqPrev
          BY <1>3, <1>4, <2>10, <4>2 DEF PreviousMinute
        <5>2. SeqOK(u, s.lastSeqPrev, m)
          BY <1>5, <1>6, <2>1, <3>2, <4>2, SeqMoved DEF m
        <5>. QED
          BY <3>2, <5>1, <5>2
      <4>. QED
        BY <4>1, <4>2
    <3>6. \A c \in u.done : c \in Live => Minute(c) <= s.lastMinute
      <4>1. m <= s.lastMinute
        BY <2>1, <3>1, <3>2
      <4>. QED
        BY <1>6, <2>1, <3>1, <4>1 DEF Started, m
    <3>7. Started(u)
      BY <2>1, <2>4, <3>1, <3>2, <3>3, <3>4, <3>5, <3>6 DEF Started
    <3>. QED
      BY <1>2, <1>5, <1>6, <3>7, Unprime, SnapshotNext DEF KeyedOK
  <2>11. CASE Ignored(m)
    <3>1. /\ Started(s) /\ u.timers \subseteq Nat /\ m < s.lastMinute /\ u.ring = s.ring
          /\ u.lastMinute = s.lastMinute /\ u.evaluatedMinute = s.evaluatedMinute
          /\ u.lastSeqCur = s.lastSeqCur /\ u.lastSeqPrev = s.lastSeqPrev
          /\ ~(m = s.lastMinute - 1 /\ m > s.evaluatedMinute)
      BY <1>3, <1>4, <2>7, <2>11 DEF Ignored
    <3>2. s.lastMinute \in Nat /\ s.evaluatedMinute \in Nat /\ m # s.lastMinute
      <4>1. s.lastMinute \in Nat /\ s.evaluatedMinute \in Nat
        BY <3>1 DEF Started
      <4>2. m \in Int /\ s.lastMinute \in Int /\ m < s.lastMinute
        BY <2>1, <3>1, <4>1
      <4>3. m # s.lastMinute
        BY <4>2
      <4>. QED
        BY <4>1, <4>3
    <3>3. UsedIn(u, s.lastMinute) = UsedIn(s, s.lastMinute)
      BY <2>3, <3>2
    <3>4. SeqOK(u, u.lastSeqCur, s.lastMinute)
      BY <1>6, <2>1, <3>1, <3>2, SeqKept DEF Started, m
    <3>5. ASSUME s.evaluatedMinute < s.lastMinute - 1 PROVE SeqOK(u, u.lastSeqPrev, s.lastMinute - 1)
      <4>1. m # s.lastMinute - 1
        BY <2>1, <3>1, <3>2, <3>5
      <4>. QED
        BY <1>6, <2>1, <3>1, <3>5, <4>1, SeqKept DEF Started, m
    <3>6. \A c \in u.done : c \in Live => Minute(c) <= s.lastMinute
      BY <1>6, <2>1, <3>1, <3>2 DEF Started, m
    <3>7. Started(u)
      BY <2>1, <2>4, <3>1, <3>2, <3>3, <3>4, <3>5, <3>6 DEF Started
    <3>. QED
      BY <1>2, <1>5, <1>6, <3>7, Unprime, SnapshotNext DEF KeyedOK
  <2>. QED
    BY <2>2, <2>6, <2>8, <2>9, <2>10, <2>11
<1>. QED
  BY <1>7, <1>8

-----------------------------------------------------------------------------
(* The timers.                                                              *)

\* The ring while minute k of the judged ones is looked at: nothing below the newest minute changes.
LEMMA RingAtType ==
  ASSUME ring \in [Slots -> Prices \cup {NONE}], lastMinute \in Nat, evaluatedMinute \in Nat,
         NEW target \in Nat, NEW k \in Nat
  PROVE  RingAt(target, k) \in [Slots -> Prices \cup {NONE}]
<1>. DEFINE empty == Larger(FirstJudged(target), lastMinute + 1)
<1>1. empty - 1 \in Int
  BY Params DEF Larger, FirstJudged
<1>2. ring[idx(empty - 1)] \in Prices \cup {NONE}
  BY <1>1, SlotOf
<1>. QED
  BY <1>2, FilledType DEF RingAt

LEMMA RingAtKnown ==
  ASSUME ring \in [Slots -> Prices \cup {NONE}], lastMinute \in Nat, evaluatedMinute \in Nat,
         NEW target \in Nat, NEW k \in Nat, k <= lastMinute
  PROVE  RingAt(target, k) = ring
<1>. DEFINE empty == Larger(FirstJudged(target), lastMinute + 1)
<1>1. empty \in Int /\ empty > k
  BY Params DEF Larger, FirstJudged
<1>2. empty..k = {}
  BY <1>1
<1>3. \A v : Filled(ring, empty, k, v) = ring
  BY <1>2 DEF Filled
<1>. QED
  BY <1>3 DEF RingAt

LEMMA KeyedTimer ==
  ASSUME LedgerInv, KeyedOK(Snapshot), NEW target \in timers, onTimer(target)
  PROVE  KeyedOK(Snapshot)'
<1>1. PICK s : s = Snapshot
  OBVIOUS
<1>2. PICK u : u = Snapshot'
  OBVIOUS
<1>3. /\ s.ring = ring /\ s.lastMinute = lastMinute /\ s.level = level
      /\ s.evaluatedMinute = evaluatedMinute /\ s.lastTradeMinute = lastTradeMinute
      /\ s.lastSeqCur = lastSeqCur /\ s.lastSeqPrev = lastSeqPrev
      /\ s.timers = timers /\ s.done = done
  BY <1>1, SnapshotIs
<1>4. /\ u.ring = ring' /\ u.lastMinute = lastMinute' /\ u.level = level'
      /\ u.evaluatedMinute = evaluatedMinute' /\ u.lastTradeMinute = lastTradeMinute'
      /\ u.lastSeqCur = lastSeqCur' /\ u.lastSeqPrev = lastSeqPrev'
      /\ u.timers = timers' /\ u.done = done'
  BY <1>2 DEF Snapshot
<1>5. KeyedOK(s) /\ s.done \subseteq Trades /\ ledger' = ledger /\ u.done = s.done
      /\ u.lastTradeMinute = s.lastTradeMinute /\ u.lastSeqCur = s.lastSeqCur /\ u.lastSeqPrev = s.lastSeqPrev
  BY <1>1, <1>3, <1>4 DEF KeyedOK, onTimer
<1>6. Started(s)
  BY <1>3, <1>5 DEF KeyedOK, Fresh
<1>7. \A k : UsedIn(u, k) = UsedIn(s, k)
  BY <1>5 DEF UsedIn
<1>8. \A q, k : SeqOK(s, q, k) => SeqOK(u, q, k)
  BY <1>5, <1>7 DEF SeqOK
<1>9. /\ lastMinute \in Nat /\ evaluatedMinute \in Nat /\ target \in Nat /\ timers \subseteq Nat
      /\ ring \in [Slots -> Prices \cup {NONE}] /\ evaluatedMinute <= lastMinute
  BY <1>3, <1>6 DEF Started
<1>10. CASE target <= evaluatedMinute
  <2>1. /\ u.ring = s.ring /\ u.lastMinute = s.lastMinute /\ u.evaluatedMinute = s.evaluatedMinute
        /\ u.timers \subseteq s.timers
    BY <1>3, <1>4, <1>10 DEF onTimer
  <2>2. Started(u)
    BY <1>5, <1>6, <1>7, <1>8, <2>1 DEF Started
  <2>. QED
    BY <1>2, <1>5, <2>2, Unprime, SnapshotNext DEF KeyedOK
<1>11. CASE ~(target <= evaluatedMinute)
  <2>1. /\ u.ring = RingAt(target, target) /\ u.lastMinute = Larger(lastMinute, target)
        /\ u.evaluatedMinute = target /\ u.timers = (timers \ {target}) \cup Chain(target)
    BY <1>4, <1>11 DEF onTimer
  <2>2. u.timers \subseteq Nat
    BY <1>9, <2>1 DEF Chain
  <2>3. u.ring \in [Slots -> Prices \cup {NONE}]
    BY <1>9, <2>1, RingAtType
  <2>4. CASE target <= lastMinute
    <3>1. u.lastMinute = s.lastMinute /\ u.evaluatedMinute <= u.lastMinute /\ s.evaluatedMinute < u.evaluatedMinute
          /\ u.evaluatedMinute \in Nat
      BY <1>3, <1>9, <1>11, <2>1, <2>4 DEF Larger
    <3>2. u.ring = s.ring
      BY <1>3, <1>9, <2>1, <2>4, RingAtKnown
    <3>3. u.evaluatedMinute < u.lastMinute => s.evaluatedMinute < s.lastMinute
      BY <1>3, <1>9, <3>1
    <3>4. u.evaluatedMinute < u.lastMinute - 1 => s.evaluatedMinute < s.lastMinute - 1
      BY <1>3, <1>9, <3>1
    <3>5. Started(u)
      BY <1>5, <1>6, <1>7, <1>8, <2>2, <2>3, <3>1, <3>2, <3>3, <3>4 DEF Started
    <3>. QED
      BY <1>2, <1>5, <3>5, Unprime, SnapshotNext DEF KeyedOK
  <2>5. CASE target > lastMinute
    <3>1. u.lastMinute = target /\ u.evaluatedMinute = target /\ s.lastMinute < target
      BY <1>3, <1>9, <2>1, <2>5 DEF Larger
    <3>2. \A c \in u.done : c \in Live => Minute(c) < target
      BY <1>3, <1>5, <1>6, <1>9, <3>1, LedgerFacts DEF Started
    <3>3. UsedIn(u, target) = {}
      <4>1. \A c \in u.done : c \in Live => Minute(c) \in Int /\ Minute(c) < target
        BY <3>2, LedgerFacts
      <4>2. \A c \in u.done : c \in Live => Minute(c) # target
        BY <4>1, <1>9
      <4>. QED
        BY <4>2 DEF UsedIn
    <3>4. SeqOK(u, u.lastSeqCur, target)
      <4>1. CASE s.lastSeqCur = NONE
        BY <1>5, <3>3, <4>1 DEF SeqOK
      <4>2. CASE s.lastSeqCur \in s.done /\ s.lastSeqCur \in Live
        BY <1>5, <3>2, <3>3, <4>2, LedgerFacts, <1>9 DEF SeqOK
      <4>. QED
        BY <1>6, <4>1, <4>2 DEF Started, SeqOK
    <3>5. \A c \in u.done : c \in Live => Minute(c) <= target
      BY <1>9, <3>2, LedgerFacts
    <3>6. ~(target < target) /\ ~(target < target - 1) /\ target <= target
      BY <1>9
    <3>7. Started(u)
      BY <1>5, <1>6, <1>9, <2>2, <2>3, <3>1, <3>3, <3>4, <3>5, <3>6 DEF Started
    <3>. QED
      BY <1>2, <1>5, <3>7, Unprime, SnapshotNext DEF KeyedOK
  <2>. QED
    BY <1>9, <2>4, <2>5
<1>. QED
  BY <1>10, <1>11

-----------------------------------------------------------------------------
(* The invariant holds, across failures of the job.                         *)

LEMMA JobInit == ASSUME Init PROVE JobInv
<1>1. RING * MINUTE \in Nat
  BY Params
<1>2. ledger = <<>> /\ Trades = {} /\ Live = {}
  BY DEF Init, Trades, Live
<1>3. LedgerInv
  BY <1>1, <1>2 DEF Init, LedgerInv
<1>4. Fresh(Snapshot) /\ Snapshot.done = {}
  BY <1>2, SnapshotIs DEF Init, Fresh
<1>5. checkpoint = Snapshot
  BY DEF Init
<1>. QED
  BY <1>3, <1>4, <1>5 DEF JobInv, KeyedOK

LEMMA RestoreIs == ASSUME Restore PROVE KeyedOK(checkpoint) /\ ledger' = ledger => KeyedOK(Snapshot)'
<1>1. PICK u : u = Snapshot'
  OBVIOUS
<1>2. /\ u.ring = checkpoint.ring /\ u.lastMinute = checkpoint.lastMinute /\ u.level = checkpoint.level
      /\ u.evaluatedMinute = checkpoint.evaluatedMinute /\ u.lastTradeMinute = checkpoint.lastTradeMinute
      /\ u.lastSeqCur = checkpoint.lastSeqCur /\ u.lastSeqPrev = checkpoint.lastSeqPrev
      /\ u.timers = checkpoint.timers /\ u.done = checkpoint.done
  BY <1>1 DEF Snapshot, Restore
<1>3. KeyedOK(checkpoint) => KeyedOK(u)
  BY <1>2 DEF KeyedOK, Fresh, Started, SeqOK, UsedIn
<1>. QED
  BY <1>1, <1>3, Unprime, SnapshotNext

LEMMA JobStep == ASSUME OrderedStart, JobInv, [Next]_vars PROVE JobInv'
<1>1. LedgerInv /\ LedgerInv' /\ KeyedOK(Snapshot) /\ KeyedOK(checkpoint)
  BY LedgerStep DEF JobInv
<1>2. PICK s : s = Snapshot
  OBVIOUS
<1>3. PICK c : c = checkpoint
  OBVIOUS
<1>4. KeyedOK(s) /\ KeyedOK(c)
  BY <1>1, <1>2, <1>3
<1>5. checkpoint' = checkpoint /\ ledger' = ledger => KeyedOK(checkpoint)'
  BY <1>3, <1>4, Unprime, CheckpointNext
<1>6. UNCHANGED <<done, keyed, ledger>> => KeyedOK(Snapshot)'
  <2>1. UNCHANGED <<done, keyed>> => s = Snapshot'
    BY <1>2 DEF Snapshot, keyed
  <2>. QED
    BY <1>4, <2>1, Unprime, SnapshotNext
<1>7. CASE \E p \in Prices, lag \in Lags : Execute(p, lag)
  <2>1. PICK p \in Prices, lag \in Lags : Execute(p, lag)
    BY <1>7
  <2>2. s = Snapshot' /\ c = checkpoint'
    BY <1>2, <1>3, <2>1 DEF Snapshot, Execute, keyed, jobVars
  <2>3. KeyedOK(s)' /\ KeyedOK(c)'
    BY <1>1, <1>4, <2>1, KeyedExecute
  <2>. QED
    BY <1>1, <2>2, <2>3, SnapshotNext, CheckpointNext DEF JobInv
<1>8. CASE \E i \in Trades : processElement(i)
  <2>1. PICK i \in Trades : processElement(i)
    BY <1>8
  <2>2. checkpoint' = checkpoint /\ ledger' = ledger
    BY <2>1 DEF processElement, jobVars
  <2>. QED
    BY <1>1, <1>5, <2>1, <2>2, KeyedTrade DEF JobInv
<1>9. CASE \E target \in timers : onTimer(target)
  <2>1. PICK target \in timers : onTimer(target)
    BY <1>9
  <2>2. checkpoint' = checkpoint /\ ledger' = ledger
    BY <2>1 DEF onTimer, jobVars
  <2>. QED
    BY <1>1, <1>5, <2>1, <2>2, KeyedTimer DEF JobInv
<1>10. CASE Checkpoint
  <2>1. s = checkpoint' /\ UNCHANGED <<done, keyed, ledger>>
    BY <1>2, <1>10 DEF Checkpoint
  <2>. QED
    BY <1>1, <1>4, <1>6, <2>1, Unprime, CheckpointNext DEF JobInv
<1>11. CASE Restore
  BY <1>1, <1>5, <1>11, RestoreIs DEF JobInv, Restore
<1>12. CASE Tick \/ Crash \/ UNCHANGED vars
  BY <1>1, <1>5, <1>6, <1>12 DEF JobInv, Tick, Crash, vars, jobVars
<1>. QED
  BY <1>7, <1>8, <1>9, <1>10, <1>11, <1>12 DEF Next

LEMMA LeastNumber ==
  ASSUME NEW T \in SUBSET Nat, T # {}
  PROVE  \E t \in T : \A u \in T : t <= u
<1>. DEFINE R == OpToRel(<, Nat)
<1>1. IsWellFoundedOn(R, Nat)
  BY NatLessThanWellFounded
<1>2. \A x, y \in Nat : x < y => <<x, y>> \in R
  BY DEF OpToRel
<1>. HIDE DEF R
<1>3. PICK t \in T : \A u \in T : ~(<<u, t>> \in R)
  BY <1>1, WFMin
<1>4. \A u \in T : ~(u < t)
  BY <1>2, <1>3
<1>. QED
  BY <1>4

\* Trades have a last one in event order, and a first one.
LEMMA LastTrade ==
  ASSUME LedgerInv, NEW S \in SUBSET Trades, S # {}
  PROVE  \E c \in S : \A j \in S : j <= c
<1>. DEFINE n == Len(ledger)
            T == {n - i : i \in S}
<1>1. n \in Nat /\ \A i \in S : i \in Nat /\ n - i \in Nat
  BY LedgerFacts
<1>. HIDE DEF n
<1>2. T \in SUBSET Nat /\ T # {}
  BY <1>1
<1>3. PICK a \in T : \A b \in T : a <= b
  <2>. HIDE DEF T
  <2>. QED
    BY <1>2, LeastNumber
<1>4. PICK c \in S : a = n - c
  BY <1>3
<1>5. \A j \in S : n - c <= n - j
  BY <1>3, <1>4
<1>6. \A j \in S : j <= c
  BY <1>1, <1>5
<1>. QED
  BY <1>6

LEMMA FirstOfTrades ==
  ASSUME LedgerInv, NEW S \in SUBSET Trades, S # {}
  PROVE  \E c \in S : \A j \in S : c <= j
<1>1. S \in SUBSET Nat
  BY LedgerFacts
<1>. QED
  BY <1>1, LeastNumber

LEMMA LastTradeIs ==
  ASSUME LedgerInv, NEW S \in SUBSET Trades, NEW c \in S, \A j \in S : j <= c
  PROVE  (CHOOSE i \in S : \A j \in S : j <= i) = c
<1>1. \A i \in S : i \in Nat
  BY LedgerFacts
<1>2. \A i \in S : (\A j \in S : j <= i) => i = c
  BY <1>1
<1>. QED
  BY <1>2

\* The close of the newest minute is the last trade of it consumed, in event order:
\* processElement's sequence rule makes it so for any order of arrival and across
\* failures, if the first trade processed is the earliest.
THEOREM NewestCloseIsLast == ASSUME OrderedStart PROVE Spec => []OpenCloseIsLast
<1>1. Init => JobInv
  BY JobInit
<1>2. JobInv /\ [Next]_vars => JobInv'
  BY JobStep
<1>3. JobInv => OpenCloseIsLast
  <2>1. SUFFICES ASSUME JobInv, lastMinute # NONE, Consumed(lastMinute) # {}
                 PROVE  ring[idx(lastMinute)] = ledger[CHOOSE i \in Consumed(lastMinute) : \A j \in Consumed(lastMinute) : j <= i].p
    BY DEF OpenCloseIsLast
  <2>. DEFINE S == Consumed(lastMinute)
  <2>2. LedgerInv /\ Started(Snapshot) /\ done \subseteq Trades
    BY <2>1, SnapshotIs DEF JobInv, KeyedOK, Fresh
  <2>3. S = UsedIn(Snapshot, lastMinute) /\ S \subseteq Trades
    BY <2>2, SnapshotIs DEF Consumed, UsedIn, Live
  <2>4. PICK c \in S : \A j \in S : j <= c
    BY <2>1, <2>2, <2>3, LastTrade
  <2>5. ring[idx(lastMinute)] = ledger[c].p
    BY <2>2, <2>3, <2>4, SnapshotIs DEF Started
  <2>6. (CHOOSE i \in S : \A j \in S : j <= i) = c
    <3>. HIDE DEF S
    <3>. QED
      BY <2>2, <2>3, <2>4, LastTradeIs
  <2>. QED
    BY <2>5, <2>6
<1>. QED
  BY <1>1, <1>2, <1>3, PTL DEF Spec

-----------------------------------------------------------------------------
(* The clock.  While the job does not fail, a trade received live is        *)
(* consumed before its minute is judged, and a timer fires close to its     *)
(* time.                                                                    *)

TimeInv ==
  /\ Up /\ crashes = 0
  /\ \A i \in Undone : now <= ledger[i].t + ledger[i].lag + Delay
  /\ \A x \in timers : now <= closeTimerFor(x) + Delay
  /\ lastMinute # NONE =>
       /\ now >= (evaluatedMinute + 1) * MINUTE
       /\ \A i \in Undone : Minute(i) > evaluatedMinute
       /\ \E c \in Used : \A i \in Live : c <= i

LEMMA BeforeTheFirst ==
  ASSUME JobInv, lastMinute = NONE
  PROVE  /\ evaluatedMinute = NONE /\ lastTradeMinute = NONE /\ timers = {} /\ level = 0
         /\ Used = {} /\ done \subseteq Trades
BY Params, SnapshotIs DEF JobInv, KeyedOK, Fresh, Started, Used

LEMMA AfterTheFirst ==
  ASSUME JobInv, lastMinute # NONE
  PROVE  /\ lastMinute \in Nat /\ evaluatedMinute \in Nat /\ lastTradeMinute \in Nat
         /\ timers \subseteq Nat /\ ring \in [Slots -> Prices \cup {NONE}]
         /\ evaluatedMinute <= lastMinute /\ done \subseteq Trades
         /\ \A i \in Used : Minute(i) <= lastMinute
         /\ evaluatedMinute < lastMinute => \E c \in Used : Minute(c) = lastMinute
<1>1. Started(Snapshot) /\ done \subseteq Trades
  BY SnapshotIs DEF JobInv, KeyedOK, Fresh
<1>2. \A c \in UsedIn(Snapshot, lastMinute) : c \in Used /\ Minute(c) = lastMinute
  BY SnapshotIs DEF UsedIn, Used
<1>. QED
  BY <1>1, <1>2, SnapshotIs DEF Started, Used

LEMMA UndoneIsRecent ==
  ASSUME InTime, LedgerInv, NEW i \in Live, now <= ledger[i].t + ledger[i].lag + Delay
  PROVE  now <= ledger[i].t + CLOSE_SLACK
<1>1. i \in Trades /\ ~(ledger[i].lag > LATE_EVENT)
  BY DEF Live, Late
<1>2. ledger[i].lag \in Lags /\ ledger[i].lag \in Nat /\ ledger[i].t \in Nat
  BY <1>1, LedgerFacts
<1>3. ledger[i].lag + Delay <= CLOSE_SLACK
  BY <1>1, <1>2, Params DEF InTime
<1>4. now \in Nat /\ Delay \in Nat /\ CLOSE_SLACK \in Nat
  BY Params DEF LedgerInv
<1>. QED
  BY <1>2, <1>3, <1>4

\* closeTimerFor grows with the minute.
LEMMA ClosingTimes ==
  ASSUME NEW a \in Nat, NEW b \in Nat, a <= b
  PROVE  /\ closeTimerFor(a) \in Nat /\ closeTimerFor(a) <= closeTimerFor(b)
         /\ (a + 1) * MINUTE \in Nat /\ closeTimerFor(a) = (a + 1) * MINUTE + CLOSE_SLACK
<1>1. MINUTE \in Nat /\ CLOSE_SLACK \in Nat
  BY Params
<1>2. (a + 1) * MINUTE <= (b + 1) * MINUTE /\ (a + 1) * MINUTE \in Nat /\ (b + 1) * MINUTE \in Nat
  BY <1>1
<1>. DEFINE x == (a + 1) * MINUTE
            y == (b + 1) * MINUTE
<1>3. closeTimerFor(a) = x + CLOSE_SLACK /\ closeTimerFor(b) = y + CLOSE_SLACK /\ x \in Nat /\ y \in Nat /\ x <= y
  BY <1>2 DEF closeTimerFor
<1>. HIDE DEF x, y
<1>4. closeTimerFor(a) \in Nat /\ closeTimerFor(a) <= closeTimerFor(b)
  BY <1>1, <1>3
<1>. QED
  BY <1>3, <1>4 DEF x, y

\* Trade i, not yet consumed: now is before the closing time of its minute.
LEMMA UndoneBeforeClose ==
  ASSUME InTime, LedgerInv, NEW i \in Live, now <= ledger[i].t + ledger[i].lag + Delay
  PROVE  now < closeTimerFor(Minute(i))
<1>1. now <= ledger[i].t + CLOSE_SLACK
  BY UndoneIsRecent
<1>2. i \in Trades
  BY DEF Live
<1>3. ledger[i].t \in Nat /\ Minute(i) \in Nat /\ ledger[i].t < (Minute(i) + 1) * MINUTE /\ now \in Nat
  BY <1>2, LedgerFacts DEF LedgerInv
<1>. DEFINE x == (Minute(i) + 1) * MINUTE
<1>4. x \in Nat /\ closeTimerFor(Minute(i)) = x + CLOSE_SLACK /\ ledger[i].t < x /\ CLOSE_SLACK \in Nat
  BY <1>3, ClosingTimes, Params
<1>. HIDE DEF x
<1>. QED
  BY <1>1, <1>3, <1>4

\* The steps a job that does not fail takes.
LEMMA UndisturbedSteps ==
  ASSUME Undisturbed, TimeInv, [Next]_vars
  PROVE  \/ Tick \/ (\E p \in Prices, lag \in Lags : Execute(p, lag))
         \/ (\E i \in Trades : processElement(i)) \/ (\E target \in timers : onTimer(target))
         \/ UNCHANGED vars
<1>1. ~(crashes < MaxCrashes)
  BY DEF Undisturbed, TimeInv
<1>. QED
  BY <1>1 DEF Next, Checkpoint, Crash, Restore, TimeInv

LEMMA TimeTick == ASSUME JobInv, TimeInv, Tick PROVE TimeInv'
<1>1. now' = now + 1 /\ now \in Nat /\ ledger' = ledger /\ done' = done /\ UNCHANGED <<keyed, jobVars>>
  BY DEF Tick, JobInv, LedgerInv
<1>2. Undone' = Undone /\ Used' = Used /\ Live' = Live /\ Trades' = Trades /\ \A i : Minute(i)' = Minute(i)
  BY <1>1 DEF Undone, Used, Live, Trades, Late, Minute
<1>3. \A i \in Undone : now + 1 <= ledger[i].t + ledger[i].lag + Delay
  <2>1. ASSUME NEW i \in Undone PROVE now + 1 <= ledger[i].t + ledger[i].lag + Delay
    <3>1. now < ledger[i].t + ledger[i].lag + Delay
      BY DEF Tick, TimeInv, Undone, Live
    <3>2. ledger[i].t \in Nat /\ ledger[i].lag \in Nat
      BY LedgerFacts DEF Undone, Live, JobInv
    <3>. QED
      BY <1>1, <3>1, <3>2, Params
  <2>. QED
    BY <2>1
<1>4. \A x \in timers : now + 1 <= closeTimerFor(x) + Delay
  <2>1. ASSUME NEW x \in timers PROVE now + 1 <= closeTimerFor(x) + Delay
    <3>1. now < closeTimerFor(x) + Delay
      BY DEF Tick, TimeInv
    <3>2. x \in Nat
      BY AfterTheFirst, BeforeTheFirst
    <3>3. closeTimerFor(x) \in Nat /\ Delay \in Nat
      BY <3>2, ClosingTimes, Params
    <3>. QED
      BY <1>1, <3>1, <3>3
  <2>. QED
    BY <2>1
<1>5. lastMinute # NONE => now + 1 >= (evaluatedMinute + 1) * MINUTE
  <2>1. SUFFICES ASSUME lastMinute # NONE PROVE now + 1 >= (evaluatedMinute + 1) * MINUTE
    OBVIOUS
  <2>2. (evaluatedMinute + 1) * MINUTE \in Nat /\ now >= (evaluatedMinute + 1) * MINUTE
    BY <2>1, AfterTheFirst, ClosingTimes DEF TimeInv
  <2>. QED
    BY <1>1, <2>2
<1>6. /\ Up' /\ crashes' = 0 /\ timers' = timers /\ lastMinute' = lastMinute /\ evaluatedMinute' = evaluatedMinute
      /\ \A x : closeTimerFor(x)' = closeTimerFor(x)
  BY <1>1 DEF TimeInv, Up, keyed, jobVars, closeTimerFor
<1>. QED
  BY <1>1, <1>2, <1>3, <1>4, <1>5, <1>6 DEF TimeInv

LEMMA TimeExecute ==
  ASSUME JobInv, TimeInv, NEW p \in Prices, NEW lag \in Lags, Execute(p, lag)
  PROVE  TimeInv'
<1>0. PICK n \in Nat :
        /\ n = Len(ledger) + 1
        /\ Trades' = Trades \cup {n} /\ n \notin Trades /\ ledger' \in Seq(Trade)
        /\ \A i \in Trades : /\ i \in Nat /\ i < n /\ ledger'[i] = ledger[i]
                             /\ Minute(i)' = Minute(i) /\ (i \in Live' <=> i \in Live)
        /\ ledger'[n] = [t |-> now, p |-> p, lag |-> lag]
        /\ Minute(n)' = now \div MINUTE
  BY ExecuteIs, Zenon DEF JobInv
<1>1. /\ Trades' = Trades \cup {n} /\ n \notin Trades
      /\ \A i \in Trades : /\ i \in Nat /\ i < n /\ ledger'[i] = ledger[i]
                           /\ Minute(i)' = Minute(i) /\ (i \in Live' <=> i \in Live)
      /\ ledger'[n].t = now /\ ledger'[n].lag = lag /\ Minute(n)' = now \div MINUTE
  BY <1>0
<1>2. /\ now' = now /\ done' = done /\ timers' = timers /\ lastMinute' = lastMinute
      /\ evaluatedMinute' = evaluatedMinute /\ Up' /\ crashes' = 0
      /\ \A x : closeTimerFor(x)' = closeTimerFor(x)
  BY DEF Execute, keyed, jobVars, TimeInv, Up, closeTimerFor
<1>3. done \subseteq Trades /\ now \in Nat /\ lag \in Nat /\ Delay \in Nat
  BY SnapshotIs, Params DEF JobInv, KeyedOK, LedgerInv
<1>4. Undone' \subseteq Undone \cup {n} /\ Used \subseteq Used' /\ Live' \subseteq Live \cup {n} /\ Undone \subseteq Trades
  BY <1>1, <1>2, <1>3 DEF Undone, Used, Live
<1>5. \A i \in Undone' : now <= ledger'[i].t + ledger'[i].lag + Delay
  <2>1. now <= now + lag + Delay
    BY <1>3
  <2>2. \A i \in Undone : now <= ledger'[i].t + ledger'[i].lag + Delay
    BY <1>1, <1>4 DEF TimeInv
  <2>. QED
    BY <1>1, <1>4, <2>1, <2>2
<1>6. lastMinute # NONE => \A i \in Undone' : Minute(i)' > evaluatedMinute
  <2>1. SUFFICES ASSUME lastMinute # NONE PROVE \A i \in Undone' : Minute(i)' > evaluatedMinute
    OBVIOUS
  <2>2. evaluatedMinute \in Nat /\ now >= (evaluatedMinute + 1) * MINUTE
    BY <2>1, AfterTheFirst DEF TimeInv
  <2>3. now \div MINUTE >= evaluatedMinute + 1 /\ now \div MINUTE \in Nat
    BY <1>3, <2>2, MinuteAtLeast, MinuteOf
  <2>4. Minute(n)' > evaluatedMinute
    BY <1>1, <2>2, <2>3
  <2>5. \A i \in Undone : Minute(i)' > evaluatedMinute
    BY <1>1, <1>4, <2>1 DEF TimeInv
  <2>. QED
    BY <1>4, <2>4, <2>5
<1>7. lastMinute # NONE => \E c \in Used' : \A i \in Live' : c <= i
  <2>1. SUFFICES ASSUME lastMinute # NONE PROVE \E c \in Used' : \A i \in Live' : c <= i
    OBVIOUS
  <2>2. PICK c \in Used : \A i \in Live : c <= i
    BY <2>1 DEF TimeInv
  <2>3. c \in Nat /\ c < n
    BY <1>1 DEF Used, Live
  <2>4. \A i \in Live' : c <= i
    BY <1>4, <2>2, <2>3
  <2>. QED
    BY <1>4, <2>4
<1>. QED
  BY <1>2, <1>5, <1>6, <1>7 DEF TimeInv

\* What consuming trade i, received live, does to the memory of the clock.
LEMMA TradeIs ==
  ASSUME JobInv, TimeInv, NEW i \in Trades, processElement(i), ~Late(i)
  PROVE  /\ i \in Live /\ i \in Undone /\ now' = now /\ ledger' = ledger /\ done' = done \cup {i}
         /\ Undone' = Undone \ {i} /\ Used' = Used \cup {i} /\ Live' = Live /\ Trades' = Trades
         /\ \A j : Minute(j)' = Minute(j)
         /\ timers' = timers \cup {Minute(i)} /\ lastTradeMinute' = Minute(i) /\ level' = level
         /\ alerts' = alerts
         /\ Up' /\ crashes' = 0 /\ Minute(i) \in Nat /\ i \in Nat
         /\ lastMinute # NONE => evaluatedMinute' = evaluatedMinute
<1>1. /\ ledger' = ledger /\ done' = done \cup {i} /\ i \notin done /\ now' = now /\ UNCHANGED jobVars
      /\ timers' = timers \cup {Minute(i)} /\ lastTradeMinute' = Minute(i) /\ level' = level /\ alerts' = alerts
  BY DEF processElement
<1>2. i \in Live /\ Minute(i) \in Nat /\ i \in Nat
  BY LedgerFacts DEF Live, JobInv
<1>3. Live' = Live /\ Trades' = Trades /\ \A j : Minute(j)' = Minute(j)
  BY <1>1 DEF Live, Trades, Late, Minute
<1>4. Undone' = Undone \ {i} /\ Used' = Used \cup {i} /\ i \in Undone
  BY <1>1, <1>2, <1>3 DEF Undone, Used
<1>5. lastMinute # NONE => evaluatedMinute' = evaluatedMinute
  BY DEF processElement, FirstTrade, NewMinute, SameMinute, PreviousMinute, Ignored
<1>. QED
  BY <1>1, <1>2, <1>3, <1>4, <1>5 DEF TimeInv, Up, jobVars

LEMMA LateIs ==
  ASSUME NEW i \in Trades, processElement(i), Late(i)
  PROVE  /\ UNCHANGED <<now, ledger, keyed, jobVars, alerts>> /\ done' = done \cup {i}
         /\ Undone' = Undone /\ Used' = Used /\ Live' = Live /\ \A j : Minute(j)' = Minute(j)
<1>1. UNCHANGED <<now, ledger, keyed, jobVars, alerts>> /\ done' = done \cup {i} /\ i \notin Live
  BY DEF processElement, Live
<1>2. Live' = Live /\ \A j : Minute(j)' = Minute(j)
  BY <1>1 DEF Live, Trades, Late, Minute
<1>. QED
  BY <1>1, <1>2 DEF Undone, Used

\* The first trade consumed is the earliest of all.
LEMMA FirstIs ==
  ASSUME OrderedStart, JobInv, TimeInv, NEW i \in Trades, processElement(i), ~Late(i), lastMinute = NONE
  PROVE  /\ \A j \in Live : i <= j /\ Minute(i) <= Minute(j)
         /\ lastMinute' = Minute(i) /\ evaluatedMinute' = Minute(i) - 1 /\ FirstTrade(i, Minute(i))
         /\ Used = {} /\ timers = {}
<1>1. FirstTrade(i, Minute(i))
  BY DEF processElement, NewMinute, SameMinute, PreviousMinute, Ignored
<1>2. \A j \in Trades \ done : Late(j) \/ i <= j \/ Late(i)
  BY FirstIsEarliest
<1>3. Used = {} /\ timers = {}
  BY BeforeTheFirst
<1>4. \A j \in Live : i <= j
  BY <1>2, <1>3 DEF Used, Live
<1>5. \A j \in Live : Minute(i) <= Minute(j)
  BY <1>4, LedgerFacts DEF JobInv
<1>. QED
  BY <1>1, <1>3, <1>4, <1>5 DEF FirstTrade

LEMMA TimeTrade ==
  ASSUME Undisturbed, InTime, JobInv, TimeInv, NEW i \in Trades, processElement(i)
  PROVE  TimeInv'
<1>0. \A x : closeTimerFor(x)' = closeTimerFor(x)
  BY DEF closeTimerFor
<1>1. CASE Late(i)
  BY <1>0, <1>1, LateIs DEF TimeInv, Up, keyed, jobVars
<1>2. CASE ~Late(i)
  <2>. DEFINE m == Minute(i)
  <2>1. /\ i \in Live /\ i \in Undone /\ now' = now /\ ledger' = ledger /\ i \in Nat
        /\ Undone' = Undone \ {i} /\ Used' = Used \cup {i} /\ Live' = Live
        /\ \A j : Minute(j)' = Minute(j)
        /\ timers' = timers \cup {m} /\ Up' /\ crashes' = 0 /\ m \in Nat
        /\ lastMinute # NONE => evaluatedMinute' = evaluatedMinute
    BY <1>2, TradeIs
  <2>2. \A x \in timers' : now <= closeTimerFor(x) + Delay
    <3>1. now < closeTimerFor(m)
      BY <2>1, UndoneBeforeClose DEF TimeInv, JobInv
    <3>2. closeTimerFor(m) \in Nat /\ Delay \in Nat /\ now \in Nat
      BY <2>1, ClosingTimes, Params DEF JobInv, LedgerInv
    <3>. DEFINE c == closeTimerFor(m)
    <3>3. now <= c + Delay
      <4>. HIDE DEF c
      <4>. QED
        BY <3>1, <3>2 DEF c
    <3>. QED
      BY <2>1, <3>3 DEF TimeInv
  <2>3. \A j \in Undone' : now <= ledger'[j].t + ledger'[j].lag + Delay
    BY <2>1 DEF TimeInv
  <2>4. CASE lastMinute = NONE
    <3>1. /\ \A j \in Live : i <= j /\ m <= Minute(j)
          /\ lastMinute' = m /\ evaluatedMinute' = m - 1
      BY <1>2, <2>4, FirstIs DEF Undisturbed
    <3>2. now >= m * MINUTE /\ (m - 1) + 1 = m
      BY <2>1, LedgerFacts DEF JobInv, LedgerInv
    <3>3. \A j \in Undone' : Minute(j)' > m - 1
      <4>1. \A j \in Undone' : j \in Live /\ Minute(j) \in Nat
        BY <2>1, LedgerFacts DEF Undone, JobInv
      <4>. QED
        BY <2>1, <3>1, <4>1
    <3>4. i \in Used' /\ \A j \in Live' : i <= j
      BY <2>1, <3>1
    <3>. QED
      BY <1>0, <2>1, <2>2, <2>3, <3>1, <3>2, <3>3, <3>4 DEF TimeInv
  <2>5. CASE lastMinute # NONE
    <3>. HIDE DEF m
    <3>1. \A j \in Undone' : Minute(j)' > evaluatedMinute
      BY <2>1, <2>5 DEF TimeInv
    <3>2. \E c \in Used' : \A j \in Live' : c <= j
      BY <2>1, <2>5 DEF TimeInv
    <3>. QED
      BY <1>0, <2>1, <2>2, <2>3, <2>5, <3>1, <3>2 DEF TimeInv
  <2>. QED
    BY <2>4, <2>5
<1>. QED
  BY <1>1, <1>2

\* What a timer does, and when.
LEMMA TimerIs ==
  ASSUME JobInv, TimeInv, NEW target \in timers, onTimer(target)
  PROVE  /\ now' = now /\ ledger' = ledger /\ done' = done /\ lastTradeMinute' = lastTradeMinute
         /\ Undone' = Undone /\ Used' = Used /\ Live' = Live /\ \A j : Minute(j)' = Minute(j)
         /\ Up' /\ crashes' = 0 /\ lastMinute # NONE /\ target \in Nat
         /\ \A x \in timers : target <= x
         /\ now >= closeTimerFor(target)
         /\ target <= evaluatedMinute =>
              /\ timers' = timers \ {target}
              /\ UNCHANGED <<ring, lastMinute, level, evaluatedMinute, alerts>>
         /\ ~(target <= evaluatedMinute) =>
              /\ ring' = RingAt(target, target) /\ lastMinute' = Larger(lastMinute, target)
              /\ evaluatedMinute' = target /\ timers' = (timers \ {target}) \cup Chain(target)
              /\ level' = LevelsThrough(target)[target]
              /\ alerts' = alerts \cup Transitions(LevelsThrough(target), FirstJudged(target), target)
<1>1. /\ now' = now /\ ledger' = ledger /\ done' = done /\ lastTradeMinute' = lastTradeMinute
      /\ UNCHANGED jobVars /\ now >= closeTimerFor(target) /\ \A x \in timers : target <= x
  BY DEF onTimer
<1>2. Live' = Live /\ \A j : Minute(j)' = Minute(j)
  BY <1>1 DEF Live, Trades, Late, Minute
<1>3. Undone' = Undone /\ Used' = Used /\ Up' /\ crashes' = 0
  BY <1>1, <1>2 DEF Undone, Used, TimeInv, Up, jobVars
<1>4. lastMinute # NONE /\ target \in Nat
  BY BeforeTheFirst, AfterTheFirst
<1>. QED
  BY <1>1, <1>2, <1>3, <1>4 DEF onTimer

\* Every trade of the minutes a timer closes has been consumed.
LEMMA TimerAfterTrades ==
  ASSUME InTime, JobInv, TimeInv, NEW target \in timers, onTimer(target)
  PROVE  \A j \in Undone : Minute(j) > target
<1>1. SUFFICES ASSUME NEW j \in Undone PROVE Minute(j) > target
  OBVIOUS
<1>2. now >= closeTimerFor(target) /\ target \in Nat
  BY TimerIs
<1>3. j \in Live /\ now < closeTimerFor(Minute(j))
  BY UndoneBeforeClose DEF TimeInv, Undone, JobInv
<1>4. Minute(j) \in Nat /\ now \in Nat
  BY <1>3, LedgerFacts DEF JobInv, Live, LedgerInv
<1>5. Minute(j) <= target => closeTimerFor(Minute(j)) <= closeTimerFor(target)
  BY <1>2, <1>4, ClosingTimes
<1>6. closeTimerFor(Minute(j)) \in Nat /\ closeTimerFor(target) \in Nat
  BY <1>2, <1>4, ClosingTimes
<1>. QED
  BY <1>2, <1>3, <1>4, <1>5, <1>6

LEMMA TimeTimer ==
  ASSUME InTime, JobInv, TimeInv, NEW target \in timers, onTimer(target)
  PROVE  TimeInv'
<1>0. \A x : closeTimerFor(x)' = closeTimerFor(x)
  BY DEF closeTimerFor
<1>1. /\ now' = now /\ ledger' = ledger /\ Undone' = Undone /\ Used' = Used /\ Live' = Live
      /\ \A j : Minute(j)' = Minute(j)
      /\ Up' /\ crashes' = 0 /\ lastMinute # NONE /\ target \in Nat
  BY TimerIs
<1>2. CASE target <= evaluatedMinute
  <2>1. timers' = timers \ {target} /\ lastMinute' = lastMinute /\ evaluatedMinute' = evaluatedMinute
    BY <1>2, TimerIs
  <2>. QED
    BY <1>0, <1>1, <2>1 DEF TimeInv
<1>3. CASE ~(target <= evaluatedMinute)
  <2>1. evaluatedMinute' = target /\ timers' = (timers \ {target}) \cup Chain(target)
    BY <1>3, TimerIs
  <2>. DEFINE a == (target + 1) * MINUTE
              c == closeTimerFor(target)
              d == closeTimerFor(target + 1)
  <2>2. a \in Nat /\ c \in Nat /\ d \in Nat /\ c = a + CLOSE_SLACK /\ c <= d /\ CLOSE_SLACK \in Nat
        /\ Delay \in Nat /\ now \in Nat
    <3>1. target \in Nat /\ target + 1 \in Nat /\ target <= target + 1 /\ target + 1 <= target + 1
      BY <1>1
    <3>2. a \in Nat /\ c \in Nat /\ c = a + CLOSE_SLACK /\ c <= d
      BY <3>1, ClosingTimes
    <3>3. d \in Nat
      BY <3>1, ClosingTimes
    <3>. QED
      BY <3>2, <3>3, Params DEF JobInv, LedgerInv
  <2>3. now >= c /\ now <= c + Delay
    BY TimerIs DEF TimeInv
  <2>4. now >= a /\ now <= d + Delay
    <3>. HIDE DEF a, c, d
    <3>. QED
      BY <2>2, <2>3
  <2>5. \A x \in timers' : now <= closeTimerFor(x) + Delay
    BY <2>1, <2>4 DEF TimeInv, Chain
  <2>6. \A j \in Undone : Minute(j) > target
    BY TimerAfterTrades
  <2>. QED
    BY <1>0, <1>1, <2>1, <2>4, <2>5, <2>6 DEF TimeInv
<1>. QED
  BY <1>2, <1>3

LEMMA TimeInit == ASSUME Init PROVE TimeInv
BY DEF Init, TimeInv, Undone, Live, Trades, Up

LEMMA TimeStep == ASSUME Undisturbed, InTime, JobInv, TimeInv, [Next]_vars PROVE TimeInv'
<1>1. CASE UNCHANGED vars
  <2>1. Undone' = Undone /\ Used' = Used /\ Live' = Live /\ \A j : Minute(j)' = Minute(j)
    BY <1>1 DEF vars, Undone, Used, Live, Trades, Late, Minute
  <2>. QED
    BY <1>1, <2>1 DEF vars, keyed, jobVars, TimeInv, Up, closeTimerFor
<1>. QED
  BY <1>1, UndisturbedSteps, TimeTick, TimeExecute, TimeTrade, TimeTimer

\* The clock's part of the invariant.
LEMMA TimeSafety == ASSUME Undisturbed, InTime PROVE Spec => [](JobInv /\ TimeInv)
<1>1. Init => JobInv /\ TimeInv
  BY JobInit, TimeInit
<1>2. JobInv /\ TimeInv /\ [Next]_vars => JobInv' /\ TimeInv'
  BY JobStep, TimeStep DEF Undisturbed
<1>. QED
  BY <1>1, <1>2, PTL DEF Spec

-----------------------------------------------------------------------------
(* The chain of timers.                                                     *)

LEMMA ChainStep ==
  ASSUME Undisturbed, JobInv, TimeInv, JobInv', ChainAlive, [Next]_vars
  PROVE  ChainAlive'
<1>1. CASE UNCHANGED <<lastTradeMinute, evaluatedMinute, timers>>
  BY <1>1 DEF ChainAlive
<1>2. CASE \E i \in Trades : processElement(i)
  <2>1. PICK i \in Trades : processElement(i)
    BY <1>2
  <2>2. CASE Late(i)
    BY <1>1, <2>1, <2>2, LateIs DEF keyed
  <2>3. CASE ~Late(i)
    <3>1. /\ i \in Undone /\ timers' = timers \cup {Minute(i)} /\ lastTradeMinute' = Minute(i) /\ Minute(i) \in Nat
          /\ lastMinute # NONE => evaluatedMinute' = evaluatedMinute
      BY <2>1, <2>3, TradeIs
    <3>2. Minute(i) > evaluatedMinute'
      <4>1. CASE lastMinute = NONE
        BY <2>1, <2>3, <3>1, <4>1, FirstIs DEF Undisturbed
      <4>2. CASE lastMinute # NONE
        BY <3>1, <4>2 DEF TimeInv
      <4>. QED
        BY <4>1, <4>2
    <3>. QED
      BY <3>1, <3>2 DEF ChainAlive
  <2>. QED
    BY <2>2, <2>3
<1>3. CASE \E target \in timers : onTimer(target)
  <2>1. PICK target \in timers : onTimer(target)
    BY <1>3
  <2>2. target \in Nat /\ lastTradeMinute' = lastTradeMinute /\ lastMinute # NONE
    BY <2>1, TimerIs
  <2>3. lastTradeMinute \in Nat /\ evaluatedMinute \in Nat /\ timers \subseteq Nat /\ TIMER_CHAIN_MINUTES \in Nat
    BY <2>2, AfterTheFirst, Params
  <2>4. CASE target <= evaluatedMinute
    <3>1. timers' = timers \ {target} /\ evaluatedMinute' = evaluatedMinute
      BY <2>1, <2>4, TimerIs
    <3>. QED
      BY <2>2, <2>3, <2>4, <3>1 DEF ChainAlive
  <2>5. CASE ~(target <= evaluatedMinute)
    <3>1. timers' = (timers \ {target}) \cup Chain(target) /\ evaluatedMinute' = target
      BY <2>1, <2>5, TimerIs
    <3>2. target < lastTradeMinute + TIMER_CHAIN_MINUTES => target + 1 \in timers'
      BY <2>2, <2>3, <3>1 DEF Chain
    <3>. QED
      BY <2>2, <2>3, <3>1, <3>2 DEF ChainAlive
  <2>. QED
    BY <2>4, <2>5
<1>. QED
  BY <1>1, <1>2, <1>3, UndisturbedSteps DEF Tick, Execute, vars, keyed

\* While the last trade is recent, a timer for a minute not yet judged is registered:
\* onTimer registers the next one before it forgets its own, and no trade comes after
\* its minute was judged.
THEOREM ChainNeverBreaks == ASSUME Undisturbed, InTime PROVE Spec => []ChainAlive
<1>1. Init => ChainAlive
  BY DEF Init, ChainAlive
<1>2. JobInv /\ TimeInv /\ (JobInv /\ TimeInv)' /\ ChainAlive /\ [Next]_vars => ChainAlive'
  BY ChainStep
<1>3. Spec => [](JobInv /\ TimeInv)
  BY TimeSafety
<1>. QED
  BY <1>1, <1>2, <1>3, PTL DEF Spec

-----------------------------------------------------------------------------
(* The ring.                                                                *)

\* A minute the ring knows keeps its close while a timer judges later ones.
LEMMA RingAtOld ==
  ASSUME ring \in [Slots -> Prices \cup {NONE}], lastMinute \in Nat, evaluatedMinute \in Nat,
         NEW target \in Nat, NEW k \in Nat, NEW n \in Int, n <= lastMinute, k - n < RING
  PROVE  RingAt(target, k)[idx(n)] = ring[idx(n)]
<1>. DEFINE empty == Larger(FirstJudged(target), lastMinute + 1)
<1>1. empty \in Int /\ n < empty
  BY Params DEF Larger, FirstJudged
<1>2. \A v : Filled(ring, empty, k, v)[idx(n)] = ring[idx(n)]
  <2>. HIDE DEF empty
  <2>1. n \notin empty..k
    BY <1>1
  <2>. QED
    BY <1>1, <2>1, FilledAt
<1>. QED
  BY <1>2 DEF RingAt

\* The ring after a trade of a newer minute m: the empty minutes take the last close.
LEMMA NewMinuteRing ==
  ASSUME ring \in [Slots -> Prices \cup {NONE}], lastMinute \in Nat, NEW i, ledger[i].p \in Prices,
         NEW m \in Nat, NewMinute(i, m), NEW k \in Int, k <= m, m - k < RING
  PROVE  ring'[idx(k)] = IF k = m THEN ledger[i].p ELSE IF k > lastMinute THEN ring[idx(lastMinute)] ELSE ring[idx(k)]
<1>. DEFINE from == Larger(lastMinute + 1, m - RING + 1)
            v == ring[idx(lastMinute)]
            filled == Filled(ring, from, m - 1, v)
<1>1. ring' = [filled EXCEPT ![idx(m)] = ledger[i].p] /\ m > lastMinute
  BY DEF NewMinute
<1>2. v \in Prices \cup {NONE}
  BY SlotOf
<1>3. filled \in [Slots -> Prices \cup {NONE}]
  BY <1>2, FilledType
<1>4. from \in Int /\ lastMinute < from /\ m - RING < from /\ (from = lastMinute + 1 \/ from = m - RING + 1)
  BY Params DEF Larger
<1>5. ASSUME k # m
      PROVE  filled[idx(k)] = IF k \in from..(m - 1) THEN v ELSE ring[idx(k)]
  <2>. HIDE DEF from, v
  <2>1. k \in from..(m - 1) \/ (k < from /\ (m - 1) - k < RING)
    BY <1>4, <1>5, Params
  <2>2. from \in Int /\ m - 1 \in Int
    BY <1>4
  <2>. QED
    BY <2>1, <2>2, FilledAt
<1>. HIDE DEF filled, from
<1>6. CASE k = m
  BY <1>1, <1>3, <1>6, SlotSet
<1>7. CASE k < m
  <2>1. k - m < RING /\ k # m
    BY <1>7, Params
  <2>2. ring'[idx(k)] = filled[idx(k)]
    BY <1>1, <1>3, <2>1, SlotSet
  <2>3. k \in from..(m - 1) <=> k > lastMinute
    BY <1>1, <1>4, <1>7, Params
  <2>. QED
    BY <1>5, <1>7, <2>1, <2>2, <2>3
<1>. QED
  BY <1>6, <1>7

\* The ring after any other trade.
LEMMA OldMinuteRing ==
  ASSUME ring \in [Slots -> Prices \cup {NONE}], lastMinute \in Nat, NEW i, ledger[i].p \in Prices,
         NEW m \in Nat, SameMinute(i, m) \/ PreviousMinute(i, m) \/ Ignored(m),
         NEW k \in Int, k <= lastMinute, lastMinute - k < RING, k # m
  PROVE  ring'[idx(k)] = ring[idx(k)] /\ lastMinute' = lastMinute
<1>1. m <= lastMinute /\ lastMinute' = lastMinute
  BY DEF SameMinute, PreviousMinute, Ignored
<1>2. CASE ring' = ring
  BY <1>1, <1>2
<1>3. CASE ring' = [ring EXCEPT ![idx(m)] = ledger[i].p] /\ (SameMinute(i, m) \/ PreviousMinute(i, m))
  <2>1. m = lastMinute \/ m = lastMinute - 1
    BY <1>3 DEF SameMinute, PreviousMinute
  <2>2. k - m < RING /\ m - k < RING
    BY <1>1, <2>1, Params
  <2>. QED
    BY <1>1, <1>3, <2>2, SlotSet
<1>. QED
  BY <1>2, <1>3 DEF SameMinute, PreviousMinute, Ignored

LEMMA TradeBranch ==
  ASSUME JobInv, NEW i \in Trades, processElement(i), ~Late(i), lastMinute # NONE
  PROVE  \/ NewMinute(i, Minute(i))
         \/ SameMinute(i, Minute(i)) \/ PreviousMinute(i, Minute(i)) \/ Ignored(Minute(i))
BY DEF processElement, FirstTrade

LEMMA FinalStep ==
  ASSUME JobInv, TimeInv, [Next]_vars, Undisturbed, evaluatedMinute # NONE,
         NEW k \in (lastMinute' - RING + 1)..evaluatedMinute
  PROVE  ring'[idx(k)] = ring[idx(k)]
<1>1. lastMinute # NONE
  BY BeforeTheFirst
<1>2. /\ lastMinute \in Nat /\ evaluatedMinute \in Nat /\ timers \subseteq Nat
      /\ ring \in [Slots -> Prices \cup {NONE}] /\ evaluatedMinute <= lastMinute /\ RING \in Nat
  BY <1>1, AfterTheFirst, Params
<1>3. CASE ring' = ring
  BY <1>3
<1>4. CASE \E i \in Trades : processElement(i)
  <2>1. PICK i \in Trades : processElement(i)
    BY <1>4
  <2>2. CASE Late(i)
    BY <1>3, <2>1, <2>2, LateIs DEF keyed
  <2>3. CASE ~Late(i)
    <3>. DEFINE m == Minute(i)
    <3>1. i \in Undone /\ m \in Nat /\ ledger[i].p \in Prices
      BY <2>1, <2>3, TradeIs, LedgerFacts DEF JobInv
    <3>2. m > evaluatedMinute
      BY <1>1, <3>1 DEF TimeInv
    <3>3. NewMinute(i, m) \/ SameMinute(i, m) \/ PreviousMinute(i, m) \/ Ignored(m)
      BY <1>1, <2>1, <2>3, TradeBranch
    <3>. HIDE DEF m
    <3>4. CASE NewMinute(i, m)
      <4>1. lastMinute' = m /\ m > lastMinute
        BY <3>4 DEF NewMinute
      <4>2. k \in Int /\ k <= m /\ m - k < RING /\ ~(k = m) /\ ~(k > lastMinute)
        BY <1>2, <3>1, <3>2, <4>1
      <4>. QED
        BY <1>2, <3>1, <3>4, <4>2, NewMinuteRing
    <3>5. CASE SameMinute(i, m) \/ PreviousMinute(i, m) \/ Ignored(m)
      <4>1. lastMinute' = lastMinute
        BY <3>5 DEF SameMinute, PreviousMinute, Ignored
      <4>2. k \in Int /\ k <= lastMinute /\ lastMinute - k < RING /\ k # m
        BY <1>2, <3>1, <3>2, <4>1
      <4>. QED
        BY <1>2, <3>1, <3>5, <4>2, OldMinuteRing
    <3>. QED
      BY <3>3, <3>4, <3>5
  <2>. QED
    BY <2>2, <2>3
<1>5. CASE \E target \in timers : onTimer(target)
  <2>1. PICK target \in timers : onTimer(target)
    BY <1>5
  <2>2. target \in Nat
    BY <1>2
  <2>3. CASE target <= evaluatedMinute
    BY <1>3, <2>1, <2>3, TimerIs
  <2>4. CASE ~(target <= evaluatedMinute)
    <3>1. ring' = RingAt(target, target) /\ lastMinute' = Larger(lastMinute, target)
      BY <2>1, <2>4, TimerIs
    <3>2. k \in Int /\ k <= lastMinute /\ target - k < RING
      BY <1>2, <2>2, <3>1 DEF Larger
    <3>. QED
      BY <1>2, <2>2, <3>1, <3>2, RingAtOld
  <2>. QED
    BY <2>3, <2>4
<1>. QED
  BY <1>3, <1>4, <1>5, UndisturbedSteps DEF Tick, Execute, vars, keyed

\* A minute that has been judged keeps its close until its slot is used again: a trade
\* that arrives after onTimer judged its minute would move it, and none does.
THEOREM JudgedCloseIsFinal == ASSUME Undisturbed, InTime PROVE Spec => ClosedMinutesAreFinal
<1>1. JobInv /\ TimeInv /\ [Next]_vars
        => [evaluatedMinute # NONE /\ Up =>
              \A k \in (lastMinute' - RING + 1)..evaluatedMinute : ring'[idx(k)] = ring[idx(k)]]_vars
  BY FinalStep
<1>2. Spec => [](JobInv /\ TimeInv)
  BY TimeSafety
<1>. QED
  BY <1>1, <1>2, PTL DEF Spec, ClosedMinutesAreFinal

-----------------------------------------------------------------------------
(* The judged minutes follow the newest one closely enough for the ring:    *)
(* the chain of timers carries them through a silence, and what it leaves   *)
(* at its end is less than the ring has room for.                           *)

TimersInv ==
  lastMinute # NONE =>
    /\ \A x \in timers : x <= lastMinute \/ x <= evaluatedMinute + 1
    /\ (\E x \in timers : x > evaluatedMinute) => \E x \in timers : x > evaluatedMinute /\ x <= evaluatedMinute + Room - 2
    /\ lastMinute - evaluatedMinute <= Room
    /\ \A c \in Used : Minute(c) <= lastTradeMinute + 1
ChainInv == ChainAlive /\ TimersInv

\* A trade not consumed is at most one minute old.
LEMMA UndoneMinute ==
  ASSUME InTime, SilenceFits, JobInv, TimeInv, NEW i \in Undone, NEW m \in Nat, m * MINUTE <= now
  PROVE  m <= Minute(i) + 1
<1>1. i \in Live /\ i \in Trades
  BY DEF Undone, Live
<1>2. now <= ledger[i].t + CLOSE_SLACK
  BY <1>1, UndoneIsRecent DEF TimeInv, JobInv
<1>3. ledger[i].t \in Nat /\ Minute(i) \in Nat /\ ledger[i].t < (Minute(i) + 1) * MINUTE /\ now \in Nat
  BY <1>1, LedgerFacts DEF JobInv, LedgerInv
<1>4. CLOSE_SLACK \in Nat /\ Delay \in Nat /\ MINUTE \in Nat /\ 0 < MINUTE /\ CLOSE_SLACK <= MINUTE
  BY Params DEF SilenceFits
<1>5. ASSUME m >= Minute(i) + 2 PROVE FALSE
  <2>. DEFINE a == (Minute(i) + 1) * MINUTE
  <2>1. m * MINUTE >= (Minute(i) + 2) * MINUTE
    BY <1>3, <1>4, <1>5
  <2>2. (Minute(i) + 2) * MINUTE = a + MINUTE /\ a \in Nat /\ m * MINUTE \in Nat
    BY <1>3, <1>4
  <2>3. ledger[i].t < a
    BY <1>3
  <2>. HIDE DEF a
  <2>. QED
    BY <1>2, <1>3, <1>4, <2>1, <2>2, <2>3
<1>. QED
  BY <1>3, <1>5

\* So is a timer that has not fired.
LEMMA TimerMinute ==
  ASSUME SilenceFits, JobInv, TimeInv, NEW x \in timers, NEW m \in Nat, m * MINUTE <= now
  PROVE  m <= x + 2
<1>1. x \in Nat
  BY BeforeTheFirst, AfterTheFirst
<1>2. now <= closeTimerFor(x) + Delay /\ now \in Nat
  BY DEF TimeInv, JobInv, LedgerInv
<1>3. /\ CLOSE_SLACK \in Nat /\ Delay \in Nat /\ MINUTE \in Nat /\ 0 < MINUTE /\ CLOSE_SLACK + Delay <= MINUTE
  BY Params DEF SilenceFits
<1>. DEFINE a == (x + 1) * MINUTE
<1>4. a \in Nat /\ closeTimerFor(x) = a + CLOSE_SLACK
  BY <1>1, ClosingTimes
<1>5. (x + 3) * MINUTE = a + 2 * MINUTE
  BY <1>1, <1>3
<1>6. ASSUME m >= x + 3 PROVE FALSE
  <2>1. m * MINUTE >= (x + 3) * MINUTE /\ m * MINUTE \in Nat
    BY <1>1, <1>3, <1>6
  <2>. HIDE DEF a
  <2>. QED
    BY <1>2, <1>3, <1>4, <1>5, <2>1
<1>. QED
  BY <1>1, <1>6

\* The minute of the trade consumed next, against the minutes judged: within the
\* ring's room; and well within it when no timer is left to follow.
LEMMA NextTradeFits ==
  ASSUME InTime, SilenceFits, JobInv, TimeInv, ChainInv, NEW i \in Undone, lastMinute # NONE
  PROVE  /\ Minute(i) <= evaluatedMinute + Room
         /\ (\E x \in timers : x > evaluatedMinute) \/ Minute(i) <= evaluatedMinute + Room - 2
<1>. DEFINE m == Minute(i)
<1>1. lastTradeMinute \in Nat /\ evaluatedMinute \in Nat /\ timers \subseteq Nat /\ done \subseteq Trades
  BY AfterTheFirst
<1>2. i \in Live /\ m \in Nat /\ m * MINUTE <= now
  BY LedgerFacts DEF Undone, JobInv
<1>3. /\ Room \in Nat /\ 3 <= Room /\ MaxSilence \in Nat /\ TIMER_CHAIN_MINUTES \in Nat
      /\ MaxSilence + 4 <= TIMER_CHAIN_MINUTES + Room
  BY Params DEF SilenceFits, Room
<1>. HIDE DEF m
<1>4. CASE \E x \in timers : x > evaluatedMinute
  <2>1. PICK x \in timers : x > evaluatedMinute /\ x <= evaluatedMinute + Room - 2
    BY <1>4 DEF ChainInv, TimersInv
  <2>2. m <= x + 2
    BY <1>2, TimerMinute
  <2>. QED
    BY <1>1, <1>2, <1>3, <1>4, <2>1, <2>2 DEF m
<1>5. CASE ~\E x \in timers : x > evaluatedMinute
  <2>1. ~(evaluatedMinute < lastTradeMinute + TIMER_CHAIN_MINUTES)
    BY <1>1, <1>5, Params DEF ChainInv, ChainAlive
  <2>2. Undone \in SUBSET Trades
    BY DEF Undone, Live
  <2>3. PICK j \in Undone : \A k \in Undone : j <= k
    BY <2>2, FirstOfTrades DEF JobInv
  <2>4. PICK c \in Used : \A k \in Live : c <= k
    BY DEF TimeInv
  <2>5. j \in Live /\ c \in Live /\ j \in Nat /\ c \in Nat /\ c < j
    <3>1. j \in Live /\ c \in Live /\ j # c
      BY DEF Undone, Used
    <3>2. j \in Nat /\ c \in Nat
      BY <3>1, LedgerFacts DEF JobInv
    <3>. QED
      BY <2>4, <3>1, <3>2
  <2>6. PICK h \in Live : h < j /\ Minute(j) - Minute(h) <= MaxSilence
    BY <2>5 DEF JobInv, LedgerInv
  <2>7. h \in Used
    <3>1. h \in Nat
      BY LedgerFacts DEF JobInv
    <3>2. h \notin Undone
      BY <2>3, <2>5, <2>6, <3>1
    <3>. QED
      BY <3>2 DEF Undone, Used
  <2>8. Minute(h) <= lastTradeMinute + 1
    BY <2>7 DEF ChainInv, TimersInv
  <2>9. Minute(h) \in Nat /\ Minute(j) \in Nat
    BY <2>5, LedgerFacts DEF JobInv
  <2>10. m <= Minute(j) + 1
    BY <1>2, <2>3, UndoneMinute
  <2>11. m <= evaluatedMinute + Room - 2
    BY <1>1, <1>2, <1>3, <2>1, <2>6, <2>8, <2>9, <2>10
  <2>. QED
    BY <1>1, <1>2, <1>3, <2>11 DEF m
<1>. QED
  BY <1>4, <1>5

LEMMA TimersTrade ==
  ASSUME Undisturbed, InTime, SilenceFits, JobInv, TimeInv, ChainInv, NEW i \in Trades, processElement(i)
  PROVE  TimersInv'
<1>1. CASE Late(i)
  BY <1>1, LateIs DEF ChainInv, TimersInv, keyed, Room
<1>2. CASE ~Late(i)
  <2>. DEFINE m == Minute(i)
  <2>1. /\ i \in Undone /\ i \in Live /\ Used' = Used \cup {i} /\ \A j : Minute(j)' = Minute(j)
        /\ timers' = timers \cup {m} /\ lastTradeMinute' = m /\ m \in Nat
        /\ lastMinute # NONE => evaluatedMinute' = evaluatedMinute
    BY <1>2, TradeIs
  <2>2. Room \in Nat /\ 3 <= Room
    BY Params DEF Room, SilenceFits
  <2>3. \A c \in Used' : Minute(c) <= m + 1
    <3>1. \A c \in Used' : c \in Live /\ Minute(c) \in Nat /\ Minute(c) * MINUTE <= now
      BY <2>1, LedgerFacts DEF Used, JobInv
    <3>. QED
      BY <2>1, <3>1, UndoneMinute
  <2>4. CASE lastMinute = NONE
    <3>1. lastMinute' = m /\ evaluatedMinute' = m - 1 /\ timers = {}
      BY <1>2, <2>4, FirstIs DEF Undisturbed
    <3>2. timers' = {m} /\ m > m - 1 /\ m <= (m - 1) + Room - 2 /\ m - (m - 1) <= Room /\ m <= m
      BY <2>1, <2>2, <3>1
    <3>. HIDE DEF m
    <3>. QED
      BY <2>1, <2>3, <3>1, <3>2 DEF TimersInv, Room
  <2>5. CASE lastMinute # NONE
    <3>1. /\ lastMinute \in Nat /\ evaluatedMinute \in Nat /\ timers \subseteq Nat
      BY <2>5, AfterTheFirst
    <3>2. m > evaluatedMinute
      BY <2>1, <2>5 DEF TimeInv
    <3>3. /\ m <= evaluatedMinute + Room
          /\ (\E x \in timers : x > evaluatedMinute) \/ m <= evaluatedMinute + Room - 2
      BY <2>1, <2>5, NextTradeFits
    <3>. HIDE DEF m
    <3>4. lastMinute' = Larger(lastMinute, m)
      BY <1>2, <2>5, <3>1, <2>1, TradeBranch DEF Larger, NewMinute, SameMinute, PreviousMinute, Ignored, m
    <3>5. lastMinute' \in Nat /\ lastMinute <= lastMinute' /\ m <= lastMinute' /\ lastMinute' - evaluatedMinute <= Room
      BY <2>1, <2>2, <2>5, <3>1, <3>3, <3>4 DEF Larger, ChainInv, TimersInv
    <3>6. \A x \in timers' : x <= lastMinute' \/ x <= evaluatedMinute + 1
      <4>1. \A x \in timers : x \in Nat /\ (x <= lastMinute \/ x <= evaluatedMinute + 1)
        BY <2>5, <3>1 DEF ChainInv, TimersInv
      <4>. QED
        BY <2>1, <3>1, <3>5, <4>1
    <3>7. \E x \in timers' : x > evaluatedMinute /\ x <= evaluatedMinute + Room - 2
      <4>1. CASE \E x \in timers : x > evaluatedMinute
        BY <2>1, <2>5, <4>1 DEF ChainInv, TimersInv
      <4>2. CASE m <= evaluatedMinute + Room - 2
        BY <2>1, <3>2, <4>2
      <4>. QED
        BY <3>3, <4>1, <4>2
    <3>8. Room' = Room
      BY DEF Room
    <3>. QED
      BY <2>1, <2>3, <2>5, <3>5, <3>6, <3>7, <3>8 DEF TimersInv
  <2>. QED
    BY <2>4, <2>5
<1>. QED
  BY <1>1, <1>2

LEMMA TimersTimer ==
  ASSUME InTime, SilenceFits, JobInv, TimeInv, ChainInv, NEW target \in timers, onTimer(target)
  PROVE  TimersInv'
<1>1. /\ lastMinute # NONE /\ target \in Nat /\ Used' = Used /\ \A j : Minute(j)' = Minute(j)
      /\ lastTradeMinute' = lastTradeMinute /\ \A x \in timers : target <= x
  BY TimerIs
<1>2. /\ lastMinute \in Nat /\ evaluatedMinute \in Nat /\ lastTradeMinute \in Nat /\ timers \subseteq Nat
      /\ evaluatedMinute <= lastMinute
      /\ evaluatedMinute < lastMinute => \E c \in Used : Minute(c) = lastMinute
  BY <1>1, AfterTheFirst
<1>3. Room \in Nat /\ 3 <= Room /\ TIMER_CHAIN_MINUTES \in Nat /\ 0 < TIMER_CHAIN_MINUTES /\ Room' = Room
  BY Params DEF Room, SilenceFits
<1>4. /\ \A x \in timers : x <= lastMinute \/ x <= evaluatedMinute + 1
      /\ (\E x \in timers : x > evaluatedMinute) => \E x \in timers : x > evaluatedMinute /\ x <= evaluatedMinute + Room - 2
      /\ lastMinute - evaluatedMinute <= Room
      /\ \A c \in Used : Minute(c) <= lastTradeMinute + 1
  BY <1>1 DEF ChainInv, TimersInv
<1>5. CASE target <= evaluatedMinute
  <2>1. timers' = timers \ {target} /\ lastMinute' = lastMinute /\ evaluatedMinute' = evaluatedMinute
    BY <1>5, TimerIs
  <2>2. (\E x \in timers' : x > evaluatedMinute) => \E x \in timers' : x > evaluatedMinute /\ x <= evaluatedMinute + Room - 2
    BY <1>1, <1>2, <1>4, <1>5, <2>1
  <2>. QED
    BY <1>1, <1>3, <1>4, <2>1, <2>2 DEF TimersInv
<1>6. CASE ~(target <= evaluatedMinute)
  <2>1. /\ lastMinute' = Larger(lastMinute, target)
        /\ evaluatedMinute' = target /\ timers' = (timers \ {target}) \cup Chain(target)
    BY <1>6, TimerIs
  <2>2. /\ lastMinute' \in Nat /\ lastMinute <= lastMinute' /\ target <= lastMinute'
        /\ lastMinute' - target <= Room
    BY <1>1, <1>2, <1>3, <1>4, <1>6, <2>1 DEF Larger
  <2>3. \A x \in timers' : x <= lastMinute' \/ x <= target + 1
    <3>1. \A x \in timers : x <= lastMinute' \/ x <= target + 1
      BY <1>1, <1>2, <1>4, <1>6, <2>2
    <3>. QED
      BY <1>1, <2>1, <3>1 DEF Chain
  <2>4. (\E x \in timers' : x > target) => \E x \in timers' : x > target /\ x <= target + Room - 2
    <3>1. CASE target - lastTradeMinute < TIMER_CHAIN_MINUTES
      <4>1. target + 1 \in timers'
        BY <2>1, <3>1 DEF Chain
      <4>. QED
        BY <1>1, <1>3, <4>1
    <3>2. CASE ~(target - lastTradeMinute < TIMER_CHAIN_MINUTES)
      <4>1. timers' \subseteq timers
        BY <2>1, <3>2 DEF Chain
      <4>2. lastMinute <= lastTradeMinute + 1 \/ lastMinute = evaluatedMinute
        BY <1>2, <1>4
      <4>3. \A x \in timers : ~(x > target)
        BY <1>1, <1>2, <1>3, <1>4, <1>6, <3>2, <4>2
      <4>. QED
        BY <4>1, <4>3
    <3>. QED
      BY <3>1, <3>2
  <2>. QED
    BY <1>1, <1>3, <1>4, <2>1, <2>2, <2>3, <2>4 DEF TimersInv
<1>. QED
  BY <1>5, <1>6

LEMMA TimersStep ==
  ASSUME Undisturbed, InTime, SilenceFits, JobInv, TimeInv, ChainInv, [Next]_vars
  PROVE  TimersInv'
<1>1. CASE UNCHANGED <<lastMinute, evaluatedMinute, lastTradeMinute, timers, done>> /\ (ledger' = ledger)
  <2>1. Used' = Used /\ \A j : Minute(j)' = Minute(j)
    BY <1>1 DEF Used, Live, Trades, Late, Minute
  <2>. QED
    BY <1>1, <2>1 DEF ChainInv, TimersInv, Room
<1>2. CASE \E p \in Prices, lag \in Lags : Execute(p, lag)
  <2>0. PICK p \in Prices, lag \in Lags : Execute(p, lag)
    BY <1>2
  <2>1. PICK n \in Nat :
        /\ n = Len(ledger) + 1
        /\ Trades' = Trades \cup {n} /\ n \notin Trades /\ ledger' \in Seq(Trade)
        /\ \A i \in Trades : /\ i \in Nat /\ i < n /\ ledger'[i] = ledger[i]
                             /\ Minute(i)' = Minute(i) /\ (i \in Live' <=> i \in Live)
        /\ ledger'[n] = [t |-> now, p |-> p, lag |-> lag]
        /\ Minute(n)' = now \div MINUTE
    BY <2>0, ExecuteIs, Zenon DEF JobInv
  <2>2. UNCHANGED <<lastMinute, evaluatedMinute, lastTradeMinute, timers, done>>
    BY <2>0 DEF Execute, keyed
  <2>3. done \subseteq Trades
    BY SnapshotIs DEF JobInv, KeyedOK
  <2>4. Used' = Used /\ \A c \in Used : Minute(c)' = Minute(c)
    BY <2>1, <2>2, <2>3 DEF Used, Live
  <2>. QED
    BY <2>2, <2>4 DEF ChainInv, TimersInv, Room
<1>3. CASE \E i \in Trades : processElement(i)
  BY <1>3, TimersTrade
<1>4. CASE \E target \in timers : onTimer(target)
  BY <1>4, TimersTimer
<1>. QED
  BY <1>1, <1>2, <1>3, <1>4, UndisturbedSteps DEF Tick, vars, keyed

-----------------------------------------------------------------------------
(* Every slot of the ring holds the close of its minute, over the trades    *)
(* consumed.                                                                *)

CloseIs(S, v) ==
  \/ S = {} /\ v = NONE
  \/ \E i \in S : v = ledger[i].p /\ \A j \in S : j <= i
UsedThrough(k) == {i \in Used : Minute(i) <= k}
Known == (lastMinute - RING + 1)..lastMinute
RingInv == lastMinute # NONE => \A k \in Known : CloseIs(UsedThrough(k), ring[idx(k)])

LEMMA CloseOfNew ==
  ASSUME NEW S, NEW i \in S, \A j \in S : j <= i PROVE CloseIs(S, ledger[i].p)
BY DEF CloseIs

\* Trade i, not the last of its minute or of a later one, leaves the close alone.
LEMMA CloseKept ==
  ASSUME NEW S \in SUBSET Nat, NEW v, CloseIs(S, v), NEW i \in Nat, NEW c \in S, i <= c
  PROVE  CloseIs(S \cup {i}, v)
<1>1. PICK w \in S : v = ledger[w].p /\ \A j \in S : j <= w
  BY DEF CloseIs
<1>2. i <= w
  BY <1>1
<1>. QED
  BY <1>1, <1>2 DEF CloseIs

\* The minute k of trade i, newest or the one before, by the sequence rule: the
\* close before and after.
LEMMA CloseByRule ==
  ASSUME LedgerInv, done \subseteq Trades, NEW i \in Live, i \notin done, NEW q, NEW k \in Nat, Minute(i) = k,
         SeqOK(Snapshot, q, k), NEW v, CloseIs(UsedThrough(k), v)
  PROVE  /\ q = NONE \/ i > q => CloseIs(UsedThrough(k) \cup {i}, ledger[i].p)
         /\ ~(q = NONE \/ i > q) => CloseIs(UsedThrough(k) \cup {i}, v)
<1>. DEFINE S == UsedThrough(k)
<1>1. Snapshot.done = done
  BY SnapshotIs
<1>2. PICK u : u = [done |-> done \cup {i}]
  OBVIOUS
<1>3. u.done = done \cup {i} /\ Snapshot.done \subseteq Trades
  BY <1>1, <1>2
<1>4. /\ q = NONE \/ i > q => \A c \in UsedIn(u, k) : c <= i
      /\ ~(q = NONE \/ i > q) => q \in UsedIn(Snapshot, k) /\ \A c \in UsedIn(u, k) : c <= q
  BY <1>1, <1>3, SeqMoved
<1>5. \A c \in S : c \in Nat /\ c \in Live /\ c \in done /\ Minute(c) \in Nat /\ Minute(c) <= k
  BY LedgerFacts DEF UsedThrough, Used
<1>6. i \in Nat /\ \A c \in S : i <= c => k <= Minute(c)
  BY <1>5, LedgerFacts DEF Live
<1>7. \A c \in S : c <= i \/ c \in UsedIn(u, k)
  BY <1>3, <1>5, <1>6 DEF UsedIn
<1>8. UsedIn(Snapshot, k) \subseteq S /\ i \in UsedIn(u, k)
  BY <1>1, <1>3 DEF UsedIn, UsedThrough, Used
<1>9. CASE q = NONE \/ i > q
  <2>1. \A c \in S \cup {i} : c <= i
    BY <1>4, <1>6, <1>7, <1>9
  <2>2. CloseIs(S \cup {i}, ledger[i].p)
    <3>. HIDE DEF S
    <3>. QED
      BY <2>1, CloseOfNew
  <2>. QED
    BY <1>9, <2>2
<1>10. CASE ~(q = NONE \/ i > q)
  <2>1. q \in S /\ i <= q /\ S \in SUBSET Nat
    BY <1>4, <1>5, <1>8, <1>10
  <2>2. CloseIs(S \cup {i}, v)
    <3>1. CloseIs(S, v)
      OBVIOUS
    <3>. HIDE DEF S
    <3>. QED
      BY <1>6, <2>1, <3>1, CloseKept
  <2>. QED
    BY <1>10, <2>2
<1>. QED
  BY <1>9, <1>10

\* Neither a newer minute nor an open one: no trade in time is ignored.
LEMMA NoneIgnored ==
  ASSUME InTime, SilenceFits, JobInv, TimeInv, NEW i \in Undone, lastMinute # NONE
  PROVE  ~Ignored(Minute(i))
<1>1. lastMinute \in Nat /\ evaluatedMinute \in Nat /\ evaluatedMinute <= lastMinute
      /\ (evaluatedMinute < lastMinute => \E c \in Used : Minute(c) = lastMinute)
  BY AfterTheFirst
<1>2. Minute(i) > evaluatedMinute
  BY DEF TimeInv
<1>3. i \in Live /\ Minute(i) \in Nat
  BY LedgerFacts DEF Undone, JobInv, Live
<1>4. ASSUME Minute(i) < lastMinute PROVE lastMinute <= Minute(i) + 1
  <2>1. PICK c \in Used : Minute(c) = lastMinute
    BY <1>1, <1>2, <1>3, <1>4
  <2>2. lastMinute * MINUTE <= now
    BY <2>1, LedgerFacts DEF Used, Live, JobInv
  <2>. QED
    BY <1>1, <2>2, UndoneMinute
<1>. QED
  BY <1>1, <1>2, <1>3, <1>4 DEF Ignored

LEMMA UsedThroughTrade ==
  ASSUME JobInv, TimeInv, NEW i \in Trades, processElement(i), ~Late(i)
  PROVE  /\ \A k : UsedThrough(k)' = UsedThrough(k) \cup (IF Minute(i) <= k THEN {i} ELSE {})
         /\ \A S, v : CloseIs(S, v)' <=> CloseIs(S, v)
         /\ \A k : UsedThrough(k) \in SUBSET Nat
<1>1. /\ ledger' = ledger /\ Used' = Used \cup {i} /\ \A j : Minute(j)' = Minute(j)
  BY TradeIs
<1>2. Used \subseteq Nat
  BY LedgerFacts DEF Used, JobInv
<1>. QED
  BY <1>1, <1>2 DEF UsedThrough, CloseIs

LEMMA RingNext ==
  ASSUME ledger' = ledger, lastMinute' # NONE => \A k \in Known' : CloseIs(UsedThrough(k)', ring'[idx(k)])
  PROVE  RingInv'
BY DEF RingInv, CloseIs, idx

LEMMA KnownRange ==
  ASSUME NEW x \in Int, NEW k \in (x - RING + 1)..x
  PROVE  k \in Int /\ x - RING < k /\ k <= x
BY Params

LEMMA RingTrade ==
  ASSUME Undisturbed, InTime, SilenceFits, JobInv, TimeInv, RingInv, NEW i \in Trades, processElement(i), ~Late(i)
  PROVE  RingInv'
<1>. DEFINE m == Minute(i)
            p == ledger[i].p
<1>1. /\ i \in Undone /\ i \in Live /\ i \notin done /\ i \in Nat /\ m \in Nat /\ p \in Prices
  BY TradeIs, LedgerFacts DEF Undone, JobInv
<1>2. /\ \A k : UsedThrough(k)' = UsedThrough(k) \cup (IF m <= k THEN {i} ELSE {})
      /\ \A S, v : CloseIs(S, v)' <=> CloseIs(S, v)
      /\ \A k : UsedThrough(k) \in SUBSET Nat
  BY UsedThroughTrade
<1>3. RING \in Nat /\ 2 <= RING /\ done \subseteq Trades /\ ledger' = ledger
  BY Params, BeforeTheFirst, AfterTheFirst, TradeIs
<1>4. SUFFICES ASSUME lastMinute' # NONE, NEW k \in Int, lastMinute' - RING < k, k <= lastMinute', lastMinute' \in Int
               PROVE  CloseIs(UsedThrough(k)', ring'[idx(k)])
  <2>1. lastMinute' \in Int
    <3>1. CASE lastMinute = NONE
      BY <1>1, <3>1, FirstIs DEF Undisturbed
    <3>2. CASE lastMinute # NONE
      BY <1>1, <3>2, TradeBranch, AfterTheFirst DEF NewMinute, SameMinute, PreviousMinute, Ignored
    <3>. QED
      BY <3>1, <3>2
  <2>2. ASSUME lastMinute' # NONE, NEW k \in Known' PROVE CloseIs(UsedThrough(k)', ring'[idx(k)])
    <3>0. k \in (lastMinute' - RING + 1)..lastMinute'
      BY <2>2 DEF Known
    <3>1. k \in Int /\ lastMinute' - RING < k /\ k <= lastMinute'
      BY <2>1, <3>0, KnownRange
    <3>. QED
      BY <1>4, <2>1, <2>2, <3>1
  <2>. QED
    BY <1>3, <2>2, RingNext
<1>. HIDE DEF m, p
<1>5. CASE lastMinute = NONE
  <2>1. FirstTrade(i, m) /\ Used = {} /\ lastMinute' = m
    BY <1>5, FirstIs DEF Undisturbed, m
  <2>2. ring' = [s \in Slots |-> IF s = idx(m) THEN p ELSE NONE] /\ UsedThrough(k) = {}
    BY <2>1 DEF FirstTrade, UsedThrough, p
  <2>3. CASE k = m
    <3>1. ring'[idx(k)] = p /\ UsedThrough(k)' = {i}
      BY <1>1, <1>2, <2>2, <2>3, SlotOf
    <3>2. CloseIs({i}, p)
      <4>1. i \in {i} /\ \A j \in {i} : j <= i
        BY <1>1
      <4>. QED
        BY <4>1, CloseOfNew DEF p
    <3>. QED
      BY <3>1, <3>2
  <2>4. CASE k # m
    <3>1. k < m /\ m - k < RING
      BY <1>1, <1>3, <1>4, <2>1, <2>4
    <3>2. idx(k) # idx(m) /\ idx(k) \in Slots
      BY <1>1, <1>3, <3>1, SlotsDiffer, SlotOf
    <3>3. ring'[idx(k)] = NONE /\ UsedThrough(k)' = {}
      BY <1>1, <1>2, <2>2, <3>1, <3>2
    <3>. QED
      BY <3>3 DEF CloseIs
  <2>. QED
    BY <2>3, <2>4
<1>6. CASE lastMinute # NONE
  <2>1. /\ lastMinute \in Nat /\ evaluatedMinute \in Nat /\ ring \in [Slots -> Prices \cup {NONE}]
        /\ evaluatedMinute <= lastMinute
        /\ \A c \in Used : Minute(c) <= lastMinute
        /\ evaluatedMinute < lastMinute => \E c \in Used : Minute(c) = lastMinute
    BY <1>6, AfterTheFirst
  <2>2. m > evaluatedMinute
    BY <1>1, <1>6 DEF TimeInv, m
  <2>3. NewMinute(i, m) \/ SameMinute(i, m) \/ PreviousMinute(i, m)
    BY <1>1, <1>6, TradeBranch, NoneIgnored DEF m
  <2>4. \A n \in Int : lastMinute - RING < n /\ n <= lastMinute => CloseIs(UsedThrough(n), ring[idx(n)])
    BY <1>3, <1>6, <2>1 DEF RingInv, Known
  <2>5. \A c \in Used : c \in Nat /\ Minute(c) \in Nat /\ (i <= c => m <= Minute(c))
    BY <1>1, LedgerFacts DEF Used, JobInv, Live, m
  <2>6. Started(Snapshot)
    BY <1>6, SnapshotIs DEF JobInv, KeyedOK, Fresh
  <2>7. LedgerInv
    BY DEF JobInv
  <2>8. CASE NewMinute(i, m)
    <3>1. lastMinute' = m /\ m > lastMinute
      BY <2>8 DEF NewMinute
    <3>2. ring'[idx(k)] = IF k = m THEN p ELSE IF k > lastMinute THEN ring[idx(lastMinute)] ELSE ring[idx(k)]
      <4>1. k <= m /\ m - k < RING
        BY <1>1, <1>3, <1>4, <3>1
      <4>. QED
        BY <1>1, <2>1, <2>8, <4>1, NewMinuteRing DEF p
    <3>3. CASE k = m
      <4>1. UsedThrough(k)' = UsedThrough(k) \cup {i}
        BY <1>1, <1>2, <3>3
      <4>2. \A c \in UsedThrough(k) \cup {i} : c <= i
        BY <1>1, <2>1, <2>5, <3>1 DEF UsedThrough
      <4>3. CloseIs(UsedThrough(k) \cup {i}, p)
        BY <4>2, CloseOfNew DEF p
      <4>. QED
        BY <3>2, <3>3, <4>1, <4>3
    <3>4. CASE k < m /\ k > lastMinute
      <4>1. UsedThrough(k)' = UsedThrough(k) /\ UsedThrough(k) = UsedThrough(lastMinute)
        BY <1>1, <1>2, <2>1, <2>5, <3>4 DEF UsedThrough
      <4>2. CloseIs(UsedThrough(lastMinute), ring[idx(lastMinute)])
        BY <1>3, <2>1, <2>4
      <4>. QED
        BY <3>2, <3>4, <4>1, <4>2, <1>1
    <3>5. CASE k <= lastMinute
      <4>1. UsedThrough(k)' = UsedThrough(k)
        <5>1. ~(m <= k)
          BY <1>1, <1>4, <2>1, <3>1, <3>5
        <5>. QED
          BY <1>2, <5>1
      <4>2. CloseIs(UsedThrough(k), ring[idx(k)])
        BY <1>1, <1>3, <1>4, <2>1, <2>4, <3>1, <3>5
      <4>. QED
        BY <1>1, <2>1, <3>1, <3>2, <3>5, <4>1, <4>2
    <3>. QED
      BY <1>1, <1>4, <2>1, <3>1, <3>3, <3>4, <3>5
  <2>9. CASE SameMinute(i, m)
    <3>1. lastMinute' = lastMinute /\ m = lastMinute
      BY <2>9 DEF SameMinute
    <3>2. CASE k = m
      <4>1. UsedThrough(k)' = UsedThrough(k) \cup {i} /\ SeqOK(Snapshot, lastSeqCur, k)
            /\ CloseIs(UsedThrough(k), ring[idx(k)])
        BY <1>1, <1>2, <1>3, <2>1, <2>4, <2>6, <3>1, <3>2, SnapshotIs DEF Started
      <4>2. /\ lastSeqCur = NONE \/ i > lastSeqCur => CloseIs(UsedThrough(k) \cup {i}, p)
            /\ ~(lastSeqCur = NONE \/ i > lastSeqCur) => CloseIs(UsedThrough(k) \cup {i}, ring[idx(k)])
        BY <1>1, <1>3, <2>7, <3>2, <4>1, CloseByRule DEF m, p
      <4>3. ring'[idx(k)] = IF lastSeqCur = NONE \/ i > lastSeqCur THEN p ELSE ring[idx(k)]
        BY <1>1, <2>1, <2>9, <3>2, SlotSet DEF SameMinute, p
      <4>. QED
        BY <4>1, <4>2, <4>3
    <3>3. CASE k # m
      <4>1. k <= lastMinute /\ lastMinute - k < RING /\ k < m /\ lastMinute - RING < k
        BY <1>3, <1>4, <2>1, <3>1, <3>3
      <4>2. ring'[idx(k)] = ring[idx(k)]
        BY <1>1, <2>1, <2>9, <3>3, <4>1, OldMinuteRing DEF p
      <4>3. UsedThrough(k)' = UsedThrough(k)
        <5>1. ~(m <= k)
          BY <1>1, <1>4, <4>1
        <5>. QED
          BY <1>2, <5>1
      <4>. QED
        BY <2>4, <4>1, <4>2, <4>3
    <3>. QED
      BY <3>2, <3>3
  <2>10. CASE PreviousMinute(i, m)
    <3>1. lastMinute' = lastMinute /\ m = lastMinute - 1 /\ evaluatedMinute < lastMinute - 1
      BY <2>1, <2>10 DEF PreviousMinute
    <3>2. CASE k = m
      <4>0. k \in Nat /\ lastMinute - RING < k /\ k <= lastMinute
        BY <1>1, <1>3, <2>1, <3>1, <3>2
      <4>1. UsedThrough(k)' = UsedThrough(k) \cup {i} /\ SeqOK(Snapshot, lastSeqPrev, k)
            /\ CloseIs(UsedThrough(k), ring[idx(k)])
        BY <1>1, <1>2, <1>3, <2>1, <2>4, <2>6, <3>1, <3>2, <4>0, SnapshotIs DEF Started
      <4>2. /\ lastSeqPrev = NONE \/ i > lastSeqPrev => CloseIs(UsedThrough(k) \cup {i}, p)
            /\ ~(lastSeqPrev = NONE \/ i > lastSeqPrev) => CloseIs(UsedThrough(k) \cup {i}, ring[idx(k)])
        BY <1>1, <1>3, <2>7, <3>2, <4>0, <4>1, CloseByRule DEF m, p
      <4>3. ring'[idx(k)] = IF lastSeqPrev = NONE \/ i > lastSeqPrev THEN p ELSE ring[idx(k)]
        BY <1>1, <2>1, <2>10, <3>2, SlotSet DEF PreviousMinute, p
      <4>. QED
        BY <4>1, <4>2, <4>3
    <3>3. CASE k # m
      <4>1. k <= lastMinute /\ lastMinute - k < RING /\ lastMinute - RING < k
        BY <1>3, <1>4, <2>1, <3>1
      <4>2. ring'[idx(k)] = ring[idx(k)]
        BY <1>1, <2>1, <2>10, <3>3, <4>1, OldMinuteRing DEF p
      <4>3. CloseIs(UsedThrough(k), ring[idx(k)])
        BY <2>4, <4>1
      <4>4. CASE k < m
        BY <1>1, <1>2, <4>2, <4>3, <4>4
      <4>5. CASE k = lastMinute
        <5>1. PICK c \in Used : Minute(c) = lastMinute
          BY <2>1, <3>1
        <5>2. c \in UsedThrough(k) /\ c \in Nat
          BY <2>1, <2>5, <4>5, <5>1 DEF UsedThrough
        <5>3. i <= c
          <6>1. m < Minute(c)
            BY <1>1, <2>1, <3>1, <5>1
          <6>2. i \in Trades /\ c \in Trades /\ c \in Nat
            BY <5>2 DEF Used, Live
          <6>3. c <= i => Minute(c) <= m
            BY <2>7, <6>2, LedgerFacts DEF m
          <6>. QED
            BY <1>1, <2>5, <5>1, <6>1, <6>2, <6>3
        <5>4. CloseIs(UsedThrough(k) \cup {i}, ring[idx(k)])
          BY <1>1, <1>2, <4>3, <5>2, <5>3, CloseKept
        <5>5. UsedThrough(k)' = UsedThrough(k) \cup {i}
          BY <1>1, <1>2, <2>1, <3>1, <4>5
        <5>. QED
          BY <4>2, <5>4, <5>5
      <4>. QED
        BY <1>1, <2>1, <3>1, <3>3, <4>1, <4>4, <4>5
    <3>. QED
      BY <3>2, <3>3
  <2>. QED
    BY <2>3, <2>8, <2>9, <2>10
<1>. QED
  BY <1>5, <1>6

\* How far a timer may be ahead of the newest minute, and the newest minute of the judged ones.
LEMMA TimerFits ==
  ASSUME SilenceFits, JobInv, TimeInv, ChainInv, NEW target \in timers, onTimer(target), ~(target <= evaluatedMinute)
  PROVE  /\ lastMinute \in Nat /\ evaluatedMinute \in Nat /\ target \in Nat /\ evaluatedMinute < target
         /\ ring \in [Slots -> Prices \cup {NONE}] /\ evaluatedMinute <= lastMinute
         /\ lastMinute < target => target = lastMinute + 1 /\ evaluatedMinute = lastMinute
         /\ lastMinute - evaluatedMinute <= RING - LOOKBACK
         /\ target - evaluatedMinute < RING /\ FirstJudged(target) = evaluatedMinute + 1
<1>1. lastMinute # NONE /\ target \in Nat
  BY TimerIs
<1>2. /\ lastMinute \in Nat /\ evaluatedMinute \in Nat /\ evaluatedMinute <= lastMinute
      /\ ring \in [Slots -> Prices \cup {NONE}]
  BY <1>1, AfterTheFirst
<1>3. (target <= lastMinute \/ target <= evaluatedMinute + 1) /\ lastMinute - evaluatedMinute <= RING - LOOKBACK
  BY <1>1 DEF ChainInv, TimersInv, Room
<1>4. RING \in Nat /\ LOOKBACK \in Nat /\ 0 < LOOKBACK /\ LOOKBACK < RING /\ 3 <= RING - LOOKBACK
  BY Params DEF SilenceFits, Room
<1>5. target - evaluatedMinute < RING
  BY <1>1, <1>2, <1>3, <1>4
<1>6. FirstJudged(target) = evaluatedMinute + 1
  BY <1>1, <1>2, <1>4, <1>5 DEF FirstJudged, Larger
<1>7. lastMinute < target => target = lastMinute + 1 /\ evaluatedMinute = lastMinute
  BY <1>1, <1>2, <1>3
<1>. QED
  BY <1>1, <1>2, <1>3, <1>5, <1>6, <1>7

\* The ring while minute k is judged holds the close of minute n: one the ring knows, or k.
LEMMA JudgedRing ==
  ASSUME SilenceFits, JobInv, TimeInv, ChainInv, RingInv, NEW target \in timers, onTimer(target), ~(target <= evaluatedMinute),
         NEW k \in Nat, evaluatedMinute < k, k <= target,
         NEW n \in Int, n <= k, k - n < RING, lastMinute - n < RING
  PROVE  CloseIs(UsedThrough(n), RingAt(target, k)[idx(n)])
<1>1. /\ lastMinute \in Nat /\ evaluatedMinute \in Nat /\ target \in Nat
      /\ ring \in [Slots -> Prices \cup {NONE}] /\ evaluatedMinute <= lastMinute
      /\ lastMinute < target => target = lastMinute + 1 /\ evaluatedMinute = lastMinute
      /\ FirstJudged(target) = evaluatedMinute + 1
  BY TimerFits
<1>2. lastMinute # NONE /\ RING \in Nat /\ 2 <= RING
  BY Params, TimerIs
<1>3. \A x \in Int : x <= lastMinute /\ lastMinute - x < RING => CloseIs(UsedThrough(x), ring[idx(x)])
  <2>1. SUFFICES ASSUME NEW x \in Int, x <= lastMinute, lastMinute - x < RING PROVE CloseIs(UsedThrough(x), ring[idx(x)])
    OBVIOUS
  <2>2. x \in Known
    BY <1>1, <1>2, <2>1 DEF Known
  <2>. QED
    BY <1>2, <2>2 DEF RingInv
<1>4. CASE n <= lastMinute
  <2>1. RingAt(target, k)[idx(n)] = ring[idx(n)]
    BY <1>1, <1>4, RingAtOld
  <2>. QED
    BY <1>3, <1>4, <2>1
<1>5. CASE n > lastMinute
  <2>1. n = target /\ k = target /\ target = lastMinute + 1 /\ evaluatedMinute = lastMinute
    BY <1>1, <1>5
  <2>2. Larger(FirstJudged(target), lastMinute + 1) = target /\ target - 1 = lastMinute
    BY <1>1, <2>1 DEF Larger
  <2>3. RingAt(target, target) = Filled(ring, target, target, ring[idx(lastMinute)])
    BY <2>2 DEF RingAt
  <2>4. RingAt(target, target)[idx(target)] = ring[idx(lastMinute)]
    BY <1>1, <2>3, FilledAt
  <2>5. UsedThrough(target) = UsedThrough(lastMinute)
    <3>1. \A c \in Used : Minute(c) \in Nat /\ Minute(c) <= lastMinute
      BY <1>2, AfterTheFirst, LedgerFacts DEF Used, JobInv, Live
    <3>2. \A c \in Used : Minute(c) <= target <=> Minute(c) <= lastMinute
      BY <1>1, <2>1, <3>1
    <3>. QED
      BY <3>2 DEF UsedThrough
  <2>6. CloseIs(UsedThrough(lastMinute), ring[idx(lastMinute)])
    BY <1>1, <1>2, <1>3
  <2>. QED
    BY <2>1, <2>4, <2>5, <2>6
<1>. QED
  BY <1>1, <1>4, <1>5

LEMMA RingTimer ==
  ASSUME SilenceFits, JobInv, TimeInv, ChainInv, RingInv, NEW target \in timers, onTimer(target)
  PROVE  RingInv'
<1>1. /\ ledger' = ledger /\ Used' = Used /\ (\A j : Minute(j)' = Minute(j)) /\ lastMinute # NONE
  BY TimerIs
<1>2. \A k : UsedThrough(k)' = UsedThrough(k)
  BY <1>1 DEF UsedThrough
<1>3. CASE target <= evaluatedMinute
  <2>1. ring' = ring /\ lastMinute' = lastMinute
    BY <1>3, TimerIs
  <2>. QED
    BY <1>1, <1>2, <2>1, RingNext DEF RingInv, Known
<1>4. CASE ~(target <= evaluatedMinute)
  <2>1. ring' = RingAt(target, target) /\ lastMinute' = Larger(lastMinute, target)
    BY <1>4, TimerIs
  <2>2. /\ lastMinute \in Nat /\ evaluatedMinute \in Nat /\ target \in Nat /\ evaluatedMinute < target
        /\ ring \in [Slots -> Prices \cup {NONE}]
    BY <1>4, TimerFits
  <2>3. CASE target <= lastMinute
    <3>1. ring' = ring /\ lastMinute' = lastMinute
      BY <2>1, <2>2, <2>3, RingAtKnown DEF Larger
    <3>. QED
      BY <1>1, <1>2, <3>1, RingNext DEF RingInv, Known
  <2>4. CASE target > lastMinute
    <3>1. lastMinute' = target
      BY <2>1, <2>2, <2>4 DEF Larger
    <3>2. ASSUME NEW k \in Known' PROVE CloseIs(UsedThrough(k)', ring'[idx(k)])
      <4>0. k \in (target - RING + 1)..target
        BY <3>1, <3>2 DEF Known
      <4>1. k \in Int /\ target - RING < k /\ k <= target
        BY <2>2, <4>0, KnownRange
      <4>2. target - k < RING /\ lastMinute - k < RING
        BY <2>2, <2>4, <4>1, Params
      <4>. QED
        BY <1>2, <1>4, <2>1, <2>2, <4>1, <4>2, JudgedRing
    <3>. QED
      BY <1>1, <3>2, RingNext
  <2>. QED
    BY <2>2, <2>3, <2>4
<1>. QED
  BY <1>3, <1>4

LEMMA RingStep ==
  ASSUME Undisturbed, InTime, SilenceFits, JobInv, TimeInv, ChainInv, RingInv, [Next]_vars
  PROVE  RingInv'
<1>1. CASE UNCHANGED <<lastMinute, ring>> /\ ledger' = ledger /\ Used' = Used
  <2>1. \A k : UsedThrough(k)' = UsedThrough(k)
    BY <1>1 DEF UsedThrough, Minute
  <2>. QED
    BY <1>1, <2>1, RingNext DEF RingInv, Known
<1>2. CASE UNCHANGED vars \/ Tick
  BY <1>1, <1>2 DEF vars, Tick, keyed, Used, Live, Trades, Late
<1>3. CASE \E p \in Prices, lag \in Lags : Execute(p, lag)
  <2>0. PICK p \in Prices, lag \in Lags : Execute(p, lag)
    BY <1>3
  <2>1. PICK n \in Nat :
        /\ n = Len(ledger) + 1
        /\ Trades' = Trades \cup {n} /\ n \notin Trades /\ ledger' \in Seq(Trade)
        /\ \A i \in Trades : /\ i \in Nat /\ i < n /\ ledger'[i] = ledger[i]
                             /\ Minute(i)' = Minute(i) /\ (i \in Live' <=> i \in Live)
        /\ ledger'[n] = [t |-> now, p |-> p, lag |-> lag]
        /\ Minute(n)' = now \div MINUTE
    BY <2>0, ExecuteIs, Zenon DEF JobInv
  <2>2. lastMinute' = lastMinute /\ ring' = ring /\ done' = done
    BY <2>0 DEF Execute, keyed
  <2>3. done \subseteq Trades
    BY SnapshotIs DEF JobInv, KeyedOK
  <2>4. Used' = Used /\ (\A c \in Used : Minute(c)' = Minute(c) /\ ledger'[c] = ledger[c])
    BY <2>1, <2>2, <2>3 DEF Used, Live
  <2>5. \A k : UsedThrough(k)' = UsedThrough(k) /\ \A c \in UsedThrough(k) : ledger'[c] = ledger[c]
    BY <2>4 DEF UsedThrough
  <2>6. \A k, v : CloseIs(UsedThrough(k), v) => CloseIs(UsedThrough(k), v)'
    BY <2>5 DEF CloseIs
  <2>7. Known' = Known /\ \A k : idx(k)' = idx(k)
    BY <2>2 DEF Known, idx
  <2>. QED
    BY <2>2, <2>6, <2>7 DEF RingInv
<1>4. CASE \E i \in Trades : processElement(i)
  <2>1. PICK i \in Trades : processElement(i)
    BY <1>4
  <2>2. CASE Late(i)
    BY <1>1, <2>1, <2>2, LateIs DEF keyed
  <2>. QED
    BY <2>1, <2>2, RingTrade
<1>5. CASE \E target \in timers : onTimer(target)
  BY <1>5, RingTimer
<1>. QED
  BY <1>2, <1>3, <1>4, <1>5, UndisturbedSteps

-----------------------------------------------------------------------------
(* The alerts are those of the candles.                                     *)

Changes(e) ==
  {[at |-> k, level |-> BarLevel(k), prevLevel |-> BarLevel(k - 1)] :
     k \in {n \in RING..e : BarLevel(n) # BarLevel(n - 1)}}
AlertsInv ==
  /\ lastMinute = NONE => alerts = {}
  /\ lastMinute # NONE => /\ evaluatedMinute >= RING - 1
                          /\ level = BarLevel(evaluatedMinute) /\ alerts = Changes(evaluatedMinute)

LEMMA BarsGrow ==
  ASSUME LedgerInv, NEW a \in Int, NEW b \in Int, a <= b
  PROVE  Bars(a) \subseteq Bars(b) /\ Bars(b) \in SUBSET Trades
<1>1. \A i \in Trades : Minute(i) \in Int
  BY LedgerFacts
<1>2. \A i \in Trades : Minute(i) <= a => Minute(i) <= b
  BY <1>1
<1>. QED
  BY <1>2 DEF Bars

\* The candle's close, if the minute or one before it has a trade.
LEMMA BarCloseIs ==
  ASSUME LedgerInv, NEW k \in Int, NEW v, CloseIs(Bars(k), v)
  PROVE  (v = NONE <=> Bars(k) = {}) /\ (Bars(k) # {} => BarClose(k) = v)
<1>. DEFINE S == Bars(k)
<1>1. S \in SUBSET Trades
  BY BarsGrow
<1>2. CASE S = {} /\ v = NONE
  BY <1>2
<1>3. CASE \E i \in S : v = ledger[i].p /\ \A j \in S : j <= i
  <2>1. PICK c \in S : v = ledger[c].p /\ \A j \in S : j <= c
    BY <1>3
  <2>2. (CHOOSE i \in S : \A j \in S : j <= i) = c
    <3>. HIDE DEF S
    <3>. QED
      BY <1>1, <2>1, LastTradeIs
  <2>3. v # NONE
    BY <1>1, <2>1, LedgerFacts, Params
  <2>. QED
    BY <2>1, <2>2, <2>3 DEF BarClose
<1>. QED
  BY <1>2, <1>3 DEF CloseIs

\* A trade executed now is in no minute judged already.
LEMMA BarLevelStays ==
  ASSUME JobInv, TimeInv, NEW p \in Prices, NEW lag \in Lags, Execute(p, lag), lastMinute # NONE,
         NEW k \in Int, k <= evaluatedMinute
  PROVE  BarLevel(k)' = BarLevel(k)
<1>0. PICK n \in Nat :
        /\ n = Len(ledger) + 1
        /\ Trades' = Trades \cup {n} /\ n \notin Trades /\ ledger' \in Seq(Trade)
        /\ \A i \in Trades : /\ i \in Nat /\ i < n /\ ledger'[i] = ledger[i]
                             /\ Minute(i)' = Minute(i) /\ (i \in Live' <=> i \in Live)
        /\ ledger'[n] = [t |-> now, p |-> p, lag |-> lag]
        /\ Minute(n)' = now \div MINUTE
  BY ExecuteIs, Zenon DEF JobInv
<1>1. /\ Trades' = Trades \cup {n} /\ n \notin Trades
      /\ \A i \in Trades : ledger'[i] = ledger[i] /\ Minute(i)' = Minute(i)
      /\ Minute(n)' = now \div MINUTE
  BY <1>0
<1>2. now \div MINUTE \in Nat /\ now \div MINUTE >= evaluatedMinute + 1 /\ evaluatedMinute \in Nat
  <2>1. now \in Nat /\ evaluatedMinute \in Nat /\ now >= (evaluatedMinute + 1) * MINUTE
    BY AfterTheFirst DEF TimeInv, JobInv, LedgerInv
  <2>. QED
    BY <2>1, MinuteOf, MinuteAtLeast
<1>3. \A i \in Trades : Late(i)' <=> Late(i)
  BY <1>1 DEF Late
<1>4. \A x \in Int : x <= evaluatedMinute => Bars(x)' = Bars(x)
  <2>1. \A x \in Int : x <= evaluatedMinute => ~(Minute(n)' <= x)
    BY <1>1, <1>2
  <2>. QED
    BY <1>1, <1>3, <2>1 DEF Bars
<1>5. ASSUME NEW x \in Int, x <= evaluatedMinute, Bars(x) # {} PROVE BarClose(x)' = BarClose(x)
  <2>1. Bars(x) \in SUBSET Trades
    BY BarsGrow DEF JobInv
  <2>2. PICK c \in Bars(x) : \A j \in Bars(x) : j <= c
    BY <1>5, <2>1, LastTrade DEF JobInv
  <2>3. (CHOOSE i \in Bars(x) : \A j \in Bars(x) : j <= i) = c
    BY <2>1, <2>2, LastTradeIs DEF JobInv
  <2>4. (CHOOSE i \in Bars(x) : \A j \in Bars(x) : j <= i)' = c
    BY <1>4, <1>5, <2>3
  <2>5. ledger'[c] = ledger[c]
    BY <1>1, <2>1
  <2>. QED
    BY <2>3, <2>4, <2>5 DEF BarClose
<1>6. k - LOOKBACK \in Int /\ k - LOOKBACK <= k /\ k - LOOKBACK <= evaluatedMinute
  BY <1>2, Params
<1>7. CASE Bars(k - LOOKBACK) = {}
  BY <1>4, <1>6, <1>7 DEF BarLevel
<1>8. CASE Bars(k - LOOKBACK) # {}
  <2>1. Bars(k) # {}
    BY <1>6, <1>8, BarsGrow DEF JobInv
  <2>. QED
    BY <1>4, <1>5, <1>6, <1>8, <2>1 DEF BarLevel
<1>. QED
  BY <1>7, <1>8

\* The level before any trade, and as long as the reference is missing.
LEMMA NoReference ==
  ASSUME LedgerInv, NEW k \in Int, Bars(k - LOOKBACK) = {}
  PROVE  BarLevel(k) = 0 /\ BarLevel(k - 1) = 0
<1>1. Bars(k - 1 - LOOKBACK) = {}
  <2>1. k - 1 - LOOKBACK \in Int /\ k - LOOKBACK \in Int /\ k - 1 - LOOKBACK <= k - LOOKBACK
    BY Params
  <2>. QED
    BY <2>1, BarsGrow
<1>. QED
  BY <1>1 DEF BarLevel

\* One minute judged: the level onTimer's loop computes for it.
LevelAt(target, k, prev) ==
  LET r == RingAt(target, k)
  IN  IF Judged(r, k) THEN levelOf(r[idx(k)], r[idx(k - LOOKBACK)]) ELSE prev

LEMMA LevelAtIs ==
  ASSUME InTime, SilenceFits, JobInv, TimeInv, ChainInv, RingInv,
         NEW target \in timers, onTimer(target), ~(target <= evaluatedMinute),
         NEW k \in Nat, evaluatedMinute < k, k <= target
  PROVE  LevelAt(target, k, BarLevel(k - 1)) = BarLevel(k)
<1>. DEFINE r == RingAt(target, k)
            b == k - LOOKBACK
<1>1. /\ lastMinute \in Nat /\ evaluatedMinute \in Nat /\ target \in Nat
      /\ lastMinute - evaluatedMinute <= RING - LOOKBACK
      /\ LOOKBACK \in Nat /\ RING \in Nat /\ 0 < LOOKBACK /\ LOOKBACK < RING
  BY TimerFits, Params
<1>2. /\ k \in Int /\ k <= k /\ k - k < RING /\ lastMinute - k < RING
      /\ b \in Int /\ b <= k /\ k - b < RING /\ lastMinute - b < RING
  BY <1>1
<1>3. CloseIs(UsedThrough(k), r[idx(k)])
  BY <1>2, JudgedRing
<1>4. CloseIs(UsedThrough(b), r[idx(b)])
  <2>. HIDE DEF b
  <2>. QED
    BY <1>2, JudgedRing
<1>5. \A n \in Int : n <= target => UsedThrough(n) = Bars(n)
  <2>1. \A j \in Undone : Minute(j) > target
    BY TimerAfterTrades
  <2>2. \A i \in Live : Minute(i) \in Nat /\ i \in Trades /\ ~Late(i)
    BY LedgerFacts DEF Live, JobInv
  <2>3. \A n \in Int, j \in Undone : n <= target => ~(Minute(j) <= n)
    BY <1>1, <2>1, <2>2 DEF Undone
  <2>. QED
    BY <2>2, <2>3 DEF UsedThrough, Bars, Used, Undone, Live
<1>6. CloseIs(Bars(k), r[idx(k)]) /\ CloseIs(Bars(b), r[idx(b)])
  BY <1>1, <1>2, <1>3, <1>4, <1>5
<1>7. Bars(b) \subseteq Bars(k)
  BY <1>2, BarsGrow DEF JobInv
<1>8. /\ r[idx(k)] = NONE <=> Bars(k) = {} 
      /\ Bars(k) # {} => BarClose(k) = r[idx(k)]
      /\ r[idx(b)] = NONE <=> Bars(b) = {}
      /\ Bars(b) # {} => BarClose(b) = r[idx(b)]
  <2>. HIDE DEF r, b
  <2>. QED
    BY <1>2, <1>6, BarCloseIs DEF JobInv
<1>9. CASE Bars(b) = {}
  <2>1. BarLevel(k) = 0 /\ BarLevel(k - 1) = 0
    BY <1>9, NoReference DEF JobInv
  <2>2. ~Judged(r, k)
    BY <1>8, <1>9 DEF Judged
  <2>. QED
    BY <2>1, <2>2 DEF LevelAt
<1>10. CASE Bars(b) # {}
  <2>1. Judged(r, k)
    BY <1>7, <1>8, <1>10 DEF Judged
  <2>2. BarLevel(k) = levelOf(r[idx(k)], r[idx(b)])
    BY <1>7, <1>8, <1>10 DEF BarLevel
  <2>. QED
    BY <2>1, <2>2 DEF LevelAt
<1>. QED
  BY <1>9, <1>10

\* The loop of onTimer computes the candles' level of every minute it judges.
LEMMA LevelsAre ==
  ASSUME InTime, SilenceFits, JobInv, TimeInv, ChainInv, RingInv, level = BarLevel(evaluatedMinute),
         NEW target \in timers, onTimer(target), ~(target <= evaluatedMinute),
         NEW k \in evaluatedMinute..target
  PROVE  LevelsThrough(target)[k] = BarLevel(k)
<1>. DEFINE e == evaluatedMinute
            Unfold(f) == [n \in e..target |-> IF n = e THEN level ELSE LevelAt(target, n, f[n - 1])]
            f == LevelsThrough(target)
            g == [n \in e..target |-> BarLevel(n)]
<1>1. /\ e \in Nat /\ target \in Nat /\ e < target /\ FirstJudged(target) - 1 = e
  BY TimerFits
<1>2. f = CHOOSE h : h = Unfold(h)
  BY <1>1 DEF LevelsThrough, LevelAt
<1>3. \A n \in e..target : n # e => LevelAt(target, n, BarLevel(n - 1)) = BarLevel(n) /\ n - 1 \in e..target
  <2>1. ASSUME NEW n \in e..target, n # e PROVE LevelAt(target, n, BarLevel(n - 1)) = BarLevel(n) /\ n - 1 \in e..target
    <3>1. n \in Nat /\ e < n /\ n <= target /\ n - 1 \in e..target
      BY <1>1, <2>1
    <3>. QED
      BY <3>1, LevelAtIs
  <2>. QED
    BY <2>1
<1>4. g = Unfold(g)
  <2>1. \A n \in e..target : n # e => g[n - 1] = BarLevel(n - 1)
    BY <1>3
  <2>2. \A n \in e..target : BarLevel(n) = IF n = e THEN level ELSE LevelAt(target, n, g[n - 1])
    <3>. HIDE DEF g
    <3>. QED
      BY <1>3, <2>1
  <2>. QED
    BY <2>2
<1>5. f = Unfold(f)
  <2>. HIDE DEF g, f, Unfold
  <2>. QED
    BY <1>2, <1>4
<1>. HIDE DEF f, g
<1>6. \A n \in e..target : f[n] = IF n = e THEN level ELSE LevelAt(target, n, f[n - 1])
  BY <1>5
<1>. DEFINE Wrong == {n \in e..target : f[n] # BarLevel(n)}
<1>7. ASSUME Wrong # {} PROVE FALSE
  <2>1. Wrong \in SUBSET Nat
    BY <1>1
  <2>2. PICK n \in Wrong : \A x \in Wrong : n <= x
    <3>. HIDE DEF Wrong
    <3>. QED
      BY <1>7, <2>1, LeastNumber
  <2>3. n \in e..target /\ f[n] # BarLevel(n) /\ n # e
    BY <1>6, <2>2
  <2>4. n - 1 \in e..target /\ ~(n - 1 \in Wrong)
    BY <1>1, <2>2, <2>3
  <2>5. f[n - 1] = BarLevel(n - 1)
    BY <2>4
  <2>6. LevelAt(target, n, BarLevel(n - 1)) = BarLevel(n)
    BY <1>3, <2>3
  <2>. QED
    BY <1>6, <2>3, <2>5, <2>6
<1>. QED
  BY <1>7 DEF f

LEMMA BarLevelKept ==
  ASSUME ledger' = ledger
  PROVE  (\A k : BarLevel(k)' = BarLevel(k)) /\ \A e : Changes(e)' = Changes(e)
<1>1. \A k : Bars(k)' = Bars(k)
  BY DEF Bars, Trades, Late, Minute
<1>2. \A k : BarClose(k)' = BarClose(k)
  BY <1>1 DEF BarClose
<1>3. \A k : BarLevel(k)' = BarLevel(k)
  BY <1>1, <1>2 DEF BarLevel
<1>. QED
  BY <1>3 DEF Changes

LEMMA AlertsTimer ==
  ASSUME InTime, SilenceFits, JobInv, TimeInv, ChainInv, RingInv, AlertsInv, NEW target \in timers, onTimer(target)
  PROVE  AlertsInv'
<1>. DEFINE e == evaluatedMinute
<1>1. ledger' = ledger /\ lastMinute # NONE
  BY TimerIs
<1>2. level = BarLevel(e) /\ alerts = Changes(e) /\ e >= RING - 1
  BY <1>1 DEF AlertsInv
<1>3. CASE target <= e
  <2>1. UNCHANGED <<lastMinute, level, evaluatedMinute, alerts>>
    BY <1>3, TimerIs
  <2>. QED
    BY <1>1, <1>2, <2>1, BarLevelKept DEF AlertsInv
<1>4. CASE ~(target <= e)
  <2>1. /\ e \in Nat /\ target \in Nat /\ e < target /\ FirstJudged(target) = e + 1 /\ lastMinute \in Nat
    BY <1>4, TimerFits
  <2>2. /\ level' = LevelsThrough(target)[target] /\ evaluatedMinute' = target
        /\ alerts' = alerts \cup Transitions(LevelsThrough(target), e + 1, target)
        /\ lastMinute' = Larger(lastMinute, target)
    BY <1>4, <2>1, TimerIs
  <2>3. \A k \in e..target : LevelsThrough(target)[k] = BarLevel(k)
    BY <1>2, <1>4, LevelsAre
  <2>4. level' = BarLevel(target)
    BY <2>1, <2>2, <2>3
  <2>5. Transitions(LevelsThrough(target), e + 1, target) =
          {[at |-> k, level |-> BarLevel(k), prevLevel |-> BarLevel(k - 1)] :
             k \in {n \in (e + 1)..target : BarLevel(n) # BarLevel(n - 1)}}
    <3>. DEFINE f == LevelsThrough(target)
    <3>1. \A k \in (e + 1)..target : f[k] = BarLevel(k) /\ f[k - 1] = BarLevel(k - 1)
      BY <2>1, <2>3
    <3>. HIDE DEF f, e
    <3>2. {n \in (e + 1)..target : f[n] # f[n - 1]} = {n \in (e + 1)..target : BarLevel(n) # BarLevel(n - 1)}
      BY <3>1
    <3>. DEFINE T == {n \in (e + 1)..target : BarLevel(n) # BarLevel(n - 1)}
    <3>3. \A k \in T : f[k] = BarLevel(k) /\ f[k - 1] = BarLevel(k - 1)
      BY <3>1
    <3>4. Transitions(f, e + 1, target) = {[at |-> k, level |-> f[k], prevLevel |-> f[k - 1]] : k \in T}
      BY <3>2 DEF Transitions
    <3>. HIDE DEF T
    <3>5. {[at |-> k, level |-> f[k], prevLevel |-> f[k - 1]] : k \in T} =
            {[at |-> k, level |-> BarLevel(k), prevLevel |-> BarLevel(k - 1)] : k \in T}
      BY <3>3
    <3>. QED
      BY <3>4, <3>5 DEF f, T
  <2>6. RING..target = (RING..e) \cup ((e + 1)..target)
    BY <1>2, <2>1, Params
  <2>7. alerts' = Changes(target)
    BY <1>2, <2>2, <2>5, <2>6 DEF Changes
  <2>8. lastMinute' # NONE /\ target >= RING - 1
    BY <1>2, <2>1, <2>2, Params DEF Larger
  <2>. QED
    BY <1>1, <2>2, <2>4, <2>7, <2>8, BarLevelKept DEF AlertsInv
<1>. QED
  BY <1>3, <1>4

LEMMA AlertsTrade ==
  ASSUME Undisturbed, JobInv, TimeInv, AlertsInv, NEW i \in Trades, processElement(i)
  PROVE  AlertsInv'
<1>1. ledger' = ledger /\ alerts' = alerts
  BY DEF processElement
<1>2. CASE Late(i)
  BY <1>1, <1>2, LateIs, BarLevelKept DEF keyed, AlertsInv
<1>3. CASE ~Late(i)
  <2>. DEFINE m == Minute(i)
  <2>1. level' = level /\ m \in Nat /\ RING <= m /\ (lastMinute # NONE => evaluatedMinute' = evaluatedMinute)
    BY <1>3, TradeIs, LedgerFacts DEF JobInv
  <2>2. CASE lastMinute # NONE
    <3>1. lastMinute' # NONE
      BY <1>3, <2>1, <2>2, TradeBranch, Params DEF NewMinute, SameMinute, PreviousMinute, Ignored
    <3>. QED
      BY <1>1, <2>1, <2>2, <3>1, BarLevelKept DEF AlertsInv
  <2>3. CASE lastMinute = NONE
    <3>1. /\ \A j \in Live : m <= Minute(j)
          /\ lastMinute' = m /\ evaluatedMinute' = m - 1
      BY <1>3, <2>3, FirstIs DEF Undisturbed
    <3>2. alerts = {} /\ level = 0
      BY <2>3, BeforeTheFirst DEF AlertsInv
    <3>3. \A k \in Int : k <= m - 1 => Bars(k - LOOKBACK) = {} /\ k \in Int
      <4>1. \A j \in Live : Minute(j) \in Nat
        BY LedgerFacts DEF JobInv
      <4>2. \A k \in Int, j \in Live : k <= m - 1 => ~(Minute(j) <= k - LOOKBACK)
        BY <2>1, <3>1, <4>1, Params
      <4>. QED
        BY <4>2 DEF Bars, Live
    <3>4. \A k \in Int : k <= m - 1 => BarLevel(k) = 0 /\ BarLevel(k - 1) = 0
      BY <3>3, NoReference DEF JobInv
    <3>. HIDE DEF m
    <3>5. Changes(m - 1) = {} /\ BarLevel(m - 1) = 0
      <4>1. \A n \in RING..(m - 1) : n \in Int /\ n <= m - 1
        BY <2>1, Params
      <4>2. \A n \in RING..(m - 1) : BarLevel(n) = 0 /\ BarLevel(n - 1) = 0
        BY <3>4, <4>1
      <4>3. {n \in RING..(m - 1) : BarLevel(n) # BarLevel(n - 1)} = {}
        BY <4>2
      <4>4. Changes(m - 1) = {}
        BY <4>3 DEF Changes
      <4>. QED
        BY <2>1, <3>4, <4>4
    <3>6. m - 1 >= RING - 1 /\ m # NONE
      BY <2>1, Params
    <3>. QED
      BY <1>1, <2>1, <3>1, <3>2, <3>5, <3>6, BarLevelKept DEF AlertsInv
  <2>. QED
    BY <2>2, <2>3
<1>. QED
  BY <1>2, <1>3

LEMMA AlertsExecute ==
  ASSUME JobInv, TimeInv, AlertsInv, NEW p \in Prices, NEW lag \in Lags, Execute(p, lag)
  PROVE  AlertsInv'
<1>1. UNCHANGED <<lastMinute, level, evaluatedMinute, alerts>>
  BY DEF Execute, keyed
<1>2. CASE lastMinute = NONE
  BY <1>1, <1>2 DEF AlertsInv
<1>3. CASE lastMinute # NONE
  <2>1. PICK e : e = evaluatedMinute
    OBVIOUS
  <2>2. e \in Nat /\ RING \in Nat /\ evaluatedMinute' = e
    BY <1>1, <1>3, <2>1, AfterTheFirst, Params
  <2>3. \A k \in Int : k <= e => BarLevel(k)' = BarLevel(k)
    BY <1>3, <2>1, BarLevelStays
  <2>4. \A k \in RING..e : BarLevel(k)' = BarLevel(k) /\ BarLevel(k - 1)' = BarLevel(k - 1)
    BY <2>2, <2>3
  <2>5. BarLevel(e)' = BarLevel(e)
    BY <2>2, <2>3
  <2>6. Changes(e)' = Changes(e)
    BY <2>4 DEF Changes
  <2>7. level = BarLevel(e) /\ alerts = Changes(e) /\ e >= RING - 1
    BY <1>3, <2>1 DEF AlertsInv
  <2>8. (evaluatedMinute >= RING - 1)' /\ level' = BarLevel(evaluatedMinute)' /\ alerts' = Changes(evaluatedMinute)'
    <3>1. level' = BarLevel(e)' /\ alerts' = Changes(e)'
      BY <1>1, <2>5, <2>6, <2>7
    <3>2. BarLevel(evaluatedMinute)' = BarLevel(e)'
      BY <2>2 DEF BarLevel, BarClose, Bars
    <3>3. Changes(evaluatedMinute)' = Changes(e)'
      BY <2>2 DEF Changes
    <3>. QED
      BY <2>2, <2>7, <3>1, <3>2, <3>3
  <2>. QED
    BY <1>1, <1>3, <2>8 DEF AlertsInv
<1>. QED
  BY <1>2, <1>3

LEMMA AlertsStep ==
  ASSUME Undisturbed, InTime, SilenceFits, JobInv, TimeInv, ChainInv, RingInv, AlertsInv, [Next]_vars
  PROVE  AlertsInv'
<1>1. CASE Tick \/ UNCHANGED vars
  <2>1. UNCHANGED <<ledger, lastMinute, level, evaluatedMinute, alerts>>
    BY <1>1 DEF Tick, vars, keyed
  <2>. QED
    BY <2>1, BarLevelKept DEF AlertsInv
<1>. QED
  BY <1>1, UndisturbedSteps, AlertsExecute, AlertsTrade, AlertsTimer

\* The alerts of the minutes judged are exactly the changes of level a recomputation over
\* the candles finds, and the level kept is the candles': what processElement writes into
\* the ring and what onTimer reads from it agree, however the trades of a minute arrive
\* and through any silence the ring and the chain of timers have room for.
THEOREM AlertsAreTheCandles ==
  ASSUME Undisturbed, InTime, SilenceFits
  PROVE  Spec => []AlertsMatchBars
<1>. DEFINE Inv == JobInv /\ TimeInv /\ ChainInv /\ RingInv /\ AlertsInv
<1>1. Init => Inv
  <2>1. Init => ChainInv /\ RingInv /\ AlertsInv
    BY DEF Init, ChainInv, ChainAlive, TimersInv, RingInv, AlertsInv
  <2>. QED
    BY <2>1, JobInit, TimeInit
<1>2. Inv /\ [Next]_vars => Inv'
  <2>1. SUFFICES ASSUME Inv, [Next]_vars PROVE Inv'
    OBVIOUS
  <2>2. JobInv' /\ TimeInv'
    BY <2>1, JobStep, TimeStep DEF Undisturbed
  <2>3. ChainInv'
    BY <2>1, <2>2, ChainStep, TimersStep DEF ChainInv
  <2>4. RingInv' /\ AlertsInv'
    BY <2>1, RingStep, AlertsStep
  <2>. QED
    BY <2>2, <2>3, <2>4
<1>3. Inv => AlertsMatchBars
  <2>1. SUFFICES ASSUME Inv, evaluatedMinute # NONE
                 PROVE  /\ level = BarLevel(evaluatedMinute)
                        /\ {a \in alerts : a.at <= evaluatedMinute} = Changes(evaluatedMinute)
    BY DEF AlertsMatchBars, Changes
  <2>2. lastMinute # NONE
    BY <2>1, BeforeTheFirst
  <2>3. evaluatedMinute \in Nat /\ RING \in Nat
    BY <2>1, <2>2, AfterTheFirst, Params
  <2>4. level = BarLevel(evaluatedMinute) /\ alerts = Changes(evaluatedMinute)
    BY <2>1, <2>2 DEF AlertsInv
  <2>5. \A a \in Changes(evaluatedMinute) : a.at <= evaluatedMinute
    BY <2>3 DEF Changes
  <2>. QED
    BY <2>4, <2>5
<1>. QED
  BY <1>1, <1>2, <1>3, PTL DEF Spec
=============================================================================
