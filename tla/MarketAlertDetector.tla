------------------------ MODULE MarketAlertDetector ------------------------
(***************************************************************************)
(* The price alert operator of the Flink job (MarketAlertDetector.java),   *)
(* for one market: it keeps the close of every minute in a ring, closes a  *)
(* minute by a processing-time timer a little after its end, compares the  *)
(* close with the one 24 hours before, and emits a change of level.        *)
(*                                                                         *)
(* A trade is its index in `ledger', which orders the trades as their      *)
(* sequential_id does.  `lag' is how long after the trade its row was      *)
(* written to MySQL: small for a trade received live, more than a minute   *)
(* for one a gap-fill brought.  Trades reach the operator within Delay, in *)
(* any order.  Flink's checkpoint restores the keyed state, the timers and *)
(* the position in Kafka together; alerts already emitted stay emitted.    *)
(***************************************************************************)
EXTENDS Integers, Sequences, FiniteSets

CONSTANTS
  RING,                 \* minutes the ring holds
  LOOKBACK,             \* minutes between a close and its reference
  TIMER_CHAIN_MINUTES,  \* empty minutes are closed this long after a trade
  MINUTE, CLOSE_SLACK, LATE_EVENT,   \* MINUTE_MS, ..., in ticks of the clock
  Prices,               \* the prices trades are executed at
  Lags,                 \* how late a row may be written
  Delay,                \* a live trade is processed, a timer fires, this late
  RestartDelay,         \* the job is down at least this long after a failure
  OrderedStart,         \* TRUE: the first trade processed is the earliest one
  MaxSilence,           \* most minutes between two trades received live
  MaxTime, MaxTrades, MaxCrashes,    \* bounds
  NONE                  \* null, and NaN in the ring

ASSUME ParameterAssumption ==
  /\ {RING, LOOKBACK, TIMER_CHAIN_MINUTES, MINUTE} \subseteq Nat \ {0}
  /\ LOOKBACK < RING
  /\ {CLOSE_SLACK, LATE_EVENT, Delay, RestartDelay, MaxSilence, MaxTime, MaxTrades, MaxCrashes} \subseteq Nat
  /\ Prices \subseteq Nat \ {0} /\ Lags \subseteq Nat
  /\ OrderedStart \in BOOLEAN /\ NONE \notin Int

VARIABLES
  now, ledger,        \* the clock and the exchange's trades
  done,               \* the trades the operator has consumed
  ring, lastMinute, level, evaluatedMinute, lastTradeMinute,
  lastSeqCur, lastSeqPrev,
  timers,             \* the minutes whose closing timer is registered
  restartAt,          \* NONE while the job runs, else when it may be restarted
  checkpoint, crashes,
  alerts              \* history: the alerts handed to the sink

keyed == <<ring, lastMinute, level, evaluatedMinute, lastTradeMinute, lastSeqCur, lastSeqPrev, timers>>
jobVars == <<restartAt, checkpoint, crashes>>
vars == <<now, ledger, done, keyed, jobVars, alerts>>

-----------------------------------------------------------------------------
Trades == DOMAIN ledger
Minute(i) == ledger[i].t \div MINUTE
Late(i) == ledger[i].lag > LATE_EVENT
Live == {i \in Trades : ~Late(i)}
Up == restartAt = NONE
Larger(a, b) == IF a >= b THEN a ELSE b

idx(minute) == minute % RING
Slots == 0 .. RING - 1
\* Variant with a plausible bug: the minute closes without waiting for stragglers.
closeAtMinuteEnd(minute) == (minute + 1) * MINUTE

closeTimerFor(minute) == (minute + 1) * MINUTE + CLOSE_SLACK

\* |close / ref - 1| against 50 %, 100 % and 200 %.
levelOf(close, ref) ==
  LET change == IF close >= ref THEN close - ref ELSE ref - close
  IN IF change >= 2 * ref THEN 3
     ELSE IF change >= ref THEN 2
     ELSE IF 2 * change >= ref THEN 1 ELSE 0

\* The ring r with minutes from..to set to v.
Filled(r, from, to, v) ==
  [s \in Slots |-> IF \E k \in from..to : idx(k) = s THEN v ELSE r[s]]

-----------------------------------------------------------------------------
(* processElement *)

\* The first trade of the market starts the ring.
FirstTrade(i, m) ==
  /\ lastMinute = NONE
  /\ ring' = [s \in Slots |-> IF s = idx(m) THEN ledger[i].p ELSE NONE]
  /\ lastMinute' = m
  /\ evaluatedMinute' = m - 1
  /\ UNCHANGED <<lastSeqCur, lastSeqPrev>>

\* A newer minute: the minutes without a trade take the last close.
NewMinute(i, m) ==
  /\ lastMinute # NONE
  /\ m > lastMinute
  /\ LET filled == Filled(ring, Larger(lastMinute + 1, m - RING + 1), m - 1, ring[idx(lastMinute)])
     IN ring' = [filled EXCEPT ![idx(m)] = ledger[i].p]
  /\ lastSeqPrev' = IF m = lastMinute + 1 THEN lastSeqCur ELSE NONE
  /\ lastSeqCur' = i
  /\ lastMinute' = m
  /\ UNCHANGED evaluatedMinute

\* Variant with a plausible bug: the last trade to arrive is the close.
SameMinuteByArrival(i, m) ==
  /\ lastMinute # NONE
  /\ m = lastMinute
  /\ ring' = [ring EXCEPT ![idx(m)] = ledger[i].p]
  /\ lastSeqCur' = i
  /\ UNCHANGED <<lastMinute, evaluatedMinute, lastSeqPrev>>

\* The current minute: the close moves only forward in event order.
SameMinute(i, m) ==
  /\ lastMinute # NONE
  /\ m = lastMinute
  /\ IF lastSeqCur = NONE \/ i > lastSeqCur
     THEN ring' = [ring EXCEPT ![idx(m)] = ledger[i].p] /\ lastSeqCur' = i
     ELSE UNCHANGED <<ring, lastSeqCur>>
  /\ UNCHANGED <<lastMinute, evaluatedMinute, lastSeqPrev>>

\* The minute before, while it is open: the same rule.
PreviousMinute(i, m) ==
  /\ lastMinute # NONE
  /\ m = lastMinute - 1 /\ m > evaluatedMinute
  /\ IF lastSeqPrev = NONE \/ i > lastSeqPrev
     THEN ring' = [ring EXCEPT ![idx(m)] = ledger[i].p] /\ lastSeqPrev' = i
     ELSE UNCHANGED <<ring, lastSeqPrev>>
  /\ UNCHANGED <<lastMinute, evaluatedMinute, lastSeqCur>>

Ignored(m) ==
  /\ lastMinute # NONE
  /\ m < lastMinute /\ ~(m = lastMinute - 1 /\ m > evaluatedMinute)
  /\ UNCHANGED <<ring, lastMinute, evaluatedMinute, lastSeqCur, lastSeqPrev>>

processElement(i) ==
  /\ Up
  /\ i \notin done
  /\ now >= ledger[i].t + ledger[i].lag
  /\ OrderedStart /\ lastMinute = NONE => \A j \in Trades \ done : Late(j) \/ i <= j \/ Late(i)
  /\ done' = done \cup {i}
  /\ \/ Late(i) /\ UNCHANGED keyed
     \/ /\ ~Late(i)
        /\ LET m == Minute(i) IN
             /\ \/ FirstTrade(i, m) \/ NewMinute(i, m) \/ SameMinute(i, m)
                \/ PreviousMinute(i, m) \/ Ignored(m)
             /\ lastTradeMinute' = m
             /\ timers' = timers \cup {m}
        /\ UNCHANGED level
  /\ UNCHANGED <<now, ledger, jobVars, alerts>>

-----------------------------------------------------------------------------
(* onTimer *)

\* The minutes a timer judges, oldest first, and the ring as it is while
\* minute k is judged: the minutes after the newest one take its close.
FirstJudged(target) == Larger(evaluatedMinute + 1, target - RING + 1)

\* Variant with a plausible bug: a minute without a trade keeps its old slot.
RingUnfilled(target, k) == ring

RingAt(target, k) ==
  LET empty == Larger(FirstJudged(target), lastMinute + 1)
  IN Filled(ring, empty, k, ring[idx(empty - 1)])

Judged(r, k) == r[idx(k)] # NONE /\ r[idx(k - LOOKBACK)] # NONE

\* The level after each of these minutes.
LevelsThrough(target) ==
  LET from == FirstJudged(target)
      after[k \in (from - 1)..target] ==
        IF k = from - 1 THEN level
        ELSE LET r == RingAt(target, k)
             IN IF Judged(r, k) THEN levelOf(r[idx(k)], r[idx(k - LOOKBACK)]) ELSE after[k - 1]
  IN after

Transitions(after, from, target) ==
  {[at |-> k, level |-> after[k], prevLevel |-> after[k - 1]] :
     k \in {n \in from..target : after[n] # after[n - 1]}}

\* Variant with a plausible bug: the chain ends one minute early.
ChainOneShort(target) == IF target + 1 - lastTradeMinute < TIMER_CHAIN_MINUTES THEN {target + 1} ELSE {}

\* The next timer of the chain.
Chain(target) == IF target - lastTradeMinute < TIMER_CHAIN_MINUTES THEN {target + 1} ELSE {}

onTimer(target) ==
  /\ Up
  /\ target \in timers
  /\ now >= closeTimerFor(target)
  /\ \A other \in timers : target <= other
  /\ IF target <= evaluatedMinute
     THEN /\ timers' = timers \ {target}
          /\ UNCHANGED <<ring, lastMinute, level, evaluatedMinute, alerts>>
     ELSE LET after == LevelsThrough(target)
          IN /\ ring' = RingAt(target, target)
             /\ lastMinute' = Larger(lastMinute, target)
             /\ level' = after[target]
             /\ alerts' = alerts \cup Transitions(after, FirstJudged(target), target)
             /\ evaluatedMinute' = target
             /\ timers' = (timers \ {target}) \cup Chain(target)
  /\ UNCHANGED <<now, ledger, done, lastTradeMinute, lastSeqCur, lastSeqPrev, jobVars>>

-----------------------------------------------------------------------------
(* The job: checkpoints and restarts *)

Snapshot == [ring |-> ring, lastMinute |-> lastMinute, level |-> level,
             evaluatedMinute |-> evaluatedMinute, lastTradeMinute |-> lastTradeMinute,
             lastSeqCur |-> lastSeqCur, lastSeqPrev |-> lastSeqPrev, timers |-> timers,
             done |-> done]

Checkpoint ==
  /\ Up /\ crashes < MaxCrashes
  /\ checkpoint' = Snapshot
  /\ UNCHANGED <<now, ledger, done, keyed, restartAt, crashes, alerts>>

Crash ==
  /\ Up /\ crashes < MaxCrashes
  /\ now + RestartDelay <= MaxTime
  /\ crashes' = crashes + 1
  /\ restartAt' = now + RestartDelay
  /\ UNCHANGED <<now, ledger, done, keyed, checkpoint, alerts>>

\* Variant with a plausible bug: the timers are not part of the restored state.
RestoreWithoutTimers ==
  /\ ~Up /\ now >= restartAt
  /\ restartAt' = NONE
  /\ ring' = checkpoint.ring /\ lastMinute' = checkpoint.lastMinute /\ level' = checkpoint.level
  /\ evaluatedMinute' = checkpoint.evaluatedMinute
  /\ lastTradeMinute' = checkpoint.lastTradeMinute
  /\ lastSeqCur' = checkpoint.lastSeqCur /\ lastSeqPrev' = checkpoint.lastSeqPrev
  /\ timers' = {} /\ done' = checkpoint.done
  /\ UNCHANGED <<now, ledger, checkpoint, crashes, alerts>>

Restore ==
  /\ ~Up /\ now >= restartAt
  /\ restartAt' = NONE
  /\ ring' = checkpoint.ring /\ lastMinute' = checkpoint.lastMinute /\ level' = checkpoint.level
  /\ evaluatedMinute' = checkpoint.evaluatedMinute
  /\ lastTradeMinute' = checkpoint.lastTradeMinute
  /\ lastSeqCur' = checkpoint.lastSeqCur /\ lastSeqPrev' = checkpoint.lastSeqPrev
  /\ timers' = checkpoint.timers /\ done' = checkpoint.done
  /\ UNCHANGED <<now, ledger, checkpoint, crashes, alerts>>

-----------------------------------------------------------------------------
(* The exchange and the clock *)

Execute(p, lag) ==
  /\ Len(ledger) < MaxTrades
  /\ Live # {} => \E j \in Live : now \div MINUTE - Minute(j) <= MaxSilence
  /\ ledger' = Append(ledger, [t |-> now, p |-> p, lag |-> lag])
  /\ UNCHANGED <<now, done, keyed, jobVars, alerts>>

\* While the job is up, what is due is handled within Delay.
Tick ==
  /\ now < MaxTime
  /\ Up =>
       /\ \A i \in Trades \ done : ~Late(i) => now < ledger[i].t + ledger[i].lag + Delay
       /\ \A target \in timers : now < closeTimerFor(target) + Delay
  /\ ~Up => now < restartAt
  /\ now' = now + 1
  /\ UNCHANGED <<ledger, done, keyed, jobVars, alerts>>

Init ==
  /\ now = RING * MINUTE /\ ledger = <<>> /\ done = {}
  /\ ring = NONE /\ lastMinute = NONE /\ level = 0 /\ evaluatedMinute = NONE
  /\ lastTradeMinute = NONE /\ lastSeqCur = NONE /\ lastSeqPrev = NONE /\ timers = {}
  /\ restartAt = NONE /\ crashes = 0 /\ alerts = {}
  /\ checkpoint = Snapshot

Next == \/ Tick \/ Checkpoint \/ Crash \/ Restore
        \/ \E p \in Prices, lag \in Lags : Execute(p, lag)
        \/ \E i \in Trades : processElement(i)
        \/ \E target \in timers : onTimer(target)

Spec == Init /\ [][Next]_vars

\* The clock advances, and a running job consumes its input and its timers.
Fairness == /\ WF_vars(Tick) /\ WF_vars(Restore)
            /\ WF_vars(\E i \in Trades : processElement(i))
            /\ WF_vars(\E target \in timers : onTimer(target))
FairSpec == Spec /\ Fairness

-----------------------------------------------------------------------------
(* Properties *)

\* What the one-minute candles of the exchange say: the close of a minute is its
\* last trade in event order, or the close before it; the level is that of the
\* close against the one LOOKBACK minutes earlier.
Bars(k) == {i \in Trades : ~Late(i) /\ Minute(i) <= k}
BarClose(k) == ledger[CHOOSE i \in Bars(k) : \A j \in Bars(k) : j <= i].p
BarLevel(k) == IF Bars(k - LOOKBACK) = {} THEN 0 ELSE levelOf(BarClose(k), BarClose(k - LOOKBACK))

\* The alerts of the minutes judged so far are exactly the changes of level a
\* recomputation over the candles finds, empty minutes included, and the level
\* kept for the next one is the candles' level.
AlertsMatchBars ==
  evaluatedMinute # NONE =>
    /\ level = BarLevel(evaluatedMinute)
    /\ {a \in alerts : a.at <= evaluatedMinute} =
         {[at |-> k, level |-> BarLevel(k), prevLevel |-> BarLevel(k - 1)] :
            k \in {n \in RING..evaluatedMinute : BarLevel(n) # BarLevel(n - 1)}}

\* The close of the newest minute is the last trade consumed in event order,
\* whatever the order of arrival.
Consumed(k) == {i \in done : ~Late(i) /\ Minute(i) = k}
OpenCloseIsLast ==
  lastMinute # NONE /\ Consumed(lastMinute) # {} =>
    ring[idx(lastMinute)] = ledger[CHOOSE i \in Consumed(lastMinute) : \A j \in Consumed(lastMinute) : j <= i].p

\* A minute that has been judged keeps its close until its slot is used again.
ClosedMinutesAreFinal ==
  [][evaluatedMinute # NONE /\ Up =>
       \A k \in (lastMinute' - RING + 1)..evaluatedMinute : ring'[idx(k)] = ring[idx(k)]]_vars

\* The chain of timers does not break: while the last trade is less than
\* TIMER_CHAIN_MINUTES old, a timer for a minute not yet judged is registered.
ChainAlive ==
  lastTradeMinute # NONE /\ evaluatedMinute < lastTradeMinute + TIMER_CHAIN_MINUTES
    => \E target \in timers : target > evaluatedMinute

\* The minute of every live trade is judged, across failures of the job, if the
\* clock reaches its closing time.
Due(i) == i \in Trades /\ ~Late(i) /\ closeTimerFor(Minute(i)) <= MaxTime
JudgedMinuteOf(i) == i \in Trades /\ evaluatedMinute # NONE /\ evaluatedMinute >= Minute(i)
EveryMinuteIsJudged == \A i \in 1..MaxTrades : Due(i) ~> JudgedMinuteOf(i)
=============================================================================
