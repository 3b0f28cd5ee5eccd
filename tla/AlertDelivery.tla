---------------------------- MODULE AlertDelivery ----------------------------
(***************************************************************************)
(* Alerts on their way to people: the DAGs market_alerts_notify.py and     *)
(* quality_alerts.py, and the Slack calls of slack_callbacks.py they make. *)
(*                                                                         *)
(* A run reads what there is to tell, leaves out what alert_events says    *)
(* has been told, sends one message, and only then writes alert_events.    *)
(* An attempt may break off between any two of these steps, is made again  *)
(* once, and Slack failing is no failure of the attempt.                   *)
(*                                                                         *)
(* The two DAGs share the table but no keys, so a behaviour has one of     *)
(* them.  Time is counted in periods of market_alerts_notify.  Every run   *)
(* is over, its second attempt included, before the next period begins.    *)
(***************************************************************************)
EXTENDS Integers, Sequences, FiniteSets, FiniteSetsExt, Functions

CONSTANTS
  Subjects, Levels,   \* an alert type with a market; levels of an alert
  Shadow,             \* subjects whose rule is not promoted yet
  Window,             \* how far market_alerts_notify looks back (30 minutes)
  HOUR,
  Rules,              \* rules of quality_alerts
  DAY,                \* how long the latest whole day stays the latest
  FIELDS,             \* entries a Slack message shows (10)
  Retries,
  Lateness,           \* how late a transition may come into market_alerts
  MaxInARow,          \* runs in a row that fail, or pass over a rule
  MaxNow, MaxTransitions, MaxBreaks, MaxMuted   \* bounds

ASSUME DeliveryAssumption ==
  /\ Levels \subseteq Nat
  /\ IsFiniteSet(Rules)
  /\ Shadow \subseteq Subjects
  /\ {HOUR, DAY, FIELDS} \subseteq Nat \ {0}
  /\ {Window, Retries, Lateness, MaxInARow, MaxNow, MaxTransitions, MaxBreaks, MaxMuted} \subseteq Nat

VARIABLES
  dag,           \* "market" or "quality": which of the two DAGs this is
  now,
  transitions,   \* market_alerts: [subject, prev, level, at] as they were written
  latest,        \* per rule: [day, bad, since], the row of the latest whole day
  due,           \* its next run is due
  current,       \* [phase, tries, fired, partial]: what it does and tells; a rule was passed over
  recorded,      \* keys in alert_events
  late,          \* INSERTs into alert_events the client gave up, and that may yet be executed
  shown,         \* history: per key, entries people have seen
  muted,         \* history: keys of a message that did not arrive, or did not show them
  broken,        \* history: attempts that broke off behind their message
  replaced,      \* history: keys of bad days that are not the latest any more
  inARow,        \* runs in a row that failed, or passed over a rule
  breaks, mutes

work == <<dag, due, current>>
told == <<recorded, late, shown, muted, broken>>
deliveryVars == <<now, transitions, latest, work, told, replaced, inARow, breaks, mutes>>

-----------------------------------------------------------------------------
(* What there is to tell.                                                   *)

MarketKey(t) == <<t.subject, t.level, t.at \div HOUR>>
QualityKey(r) == <<r, latest[r].day>>

\* Variant with a plausible bug: the look-back is one period.
InViewOnePeriod(t) == t.at >= now - 1 /\ t.level > t.prev /\ t.subject \notin Shadow

\* Promotions of rules that are no shadow, young enough.
InView(t) == t.at >= now - Window /\ t.level > t.prev /\ t.subject \notin Shadow

\* Highest level first, then in the order of time; ties as they were written.
Before(t, u) == t.level > u.level \/ (t.level = u.level /\ t.at < u.at)
Ahead(i, j) ==
  \/ Before(transitions[i], transitions[j])
  \/ ~Before(transitions[j], transitions[i]) /\ i < j

\* Variant with a plausible bug: only alert_events is asked.
UntoldByTable(rows) == {i \in rows : MarketKey(transitions[i]) \notin recorded}

\* Rows whose key is neither in alert_events nor that of a row further ahead.
Untold(rows) ==
  {i \in rows : /\ MarketKey(transitions[i]) \notin recorded
                /\ \A j \in rows : Ahead(j, i) => MarketKey(transitions[j]) # MarketKey(transitions[i])}

\* The rows of a message in their order.
Listings(rows) ==
  {f \in Bijection(1..Cardinality(rows), rows) : \A i, j \in DOMAIN f : i < j => Ahead(f[i], f[j])}
MarketMessages ==
  LET rows == Untold({i \in DOMAIN transitions : InView(transitions[i])})
  IN  {[i \in DOMAIN f |-> MarketKey(transitions[f[i]])] : f \in Listings(rows)}

\* Rules whose query fails are passed over; the others, in some order, with a bad day that
\* is not in alert_events.
QualityMessages(failing) ==
  LET rules == {r \in Rules \ failing : latest[r].bad /\ QualityKey(r) \notin recorded}
  IN  {[i \in DOMAIN f |-> QualityKey(f[i])] : f \in Bijection(1..Cardinality(rules), rules)}

\* The entries for a key among those a message shows.
Entries(fired, k) == {i \in DOMAIN fired : i <= FIELDS /\ fired[i] = k}

-----------------------------------------------------------------------------
MarketKeys == Subjects \X Levels \X (0..(MaxNow \div HOUR))
QualityKeys == Rules \X (0..(MaxNow \div DAY))
Keys == MarketKeys \cup QualityKeys

Idle == [phase |-> "idle", tries |-> 0, fired |-> <<>>, partial |-> FALSE]

DeliveryInit ==
  /\ dag \in {"market", "quality"}
  /\ now = 0
  /\ transitions = <<>>
  /\ latest \in [Rules -> [day : {0}, bad : IF dag = "quality" THEN BOOLEAN ELSE {FALSE}, since : {0}]]
  /\ due = TRUE
  /\ current = Idle
  /\ recorded = {}
  /\ late = {}
  /\ shown = [k \in Keys |-> 0]
  /\ muted = {}
  /\ broken = 0
  /\ replaced = {}
  /\ inARow = 0
  /\ breaks = 0
  /\ mutes = 0

\* market_alerts_notify runs every ten minutes, quality_alerts every hour.
Tick ==
  /\ now < MaxNow
  /\ ~due /\ current.phase = "idle"
  /\ now' = now + 1
  /\ due' = (dag = "market" \/ now' % HOUR = 0)
  /\ UNCHANGED <<dag, transitions, latest, current, told, replaced, inARow, breaks, mutes>>

\* The detector writes a transition from the last level of the subject, some time after
\* it happened.
Transition(subject, level, at) ==
  LET earlier == {i \in DOMAIN transitions : transitions[i].subject = subject}
      prev == IF earlier = {} THEN 0 ELSE transitions[Max(earlier)].level
  IN  /\ dag = "market"
      /\ Len(transitions) < MaxTransitions
      /\ level # prev
      /\ at <= now /\ at >= now - Lateness
      /\ \A i \in earlier : transitions[i].at <= at
      /\ transitions' = Append(transitions, [subject |-> subject, prev |-> prev, level |-> level, at |-> at])
      /\ UNCHANGED <<now, latest, work, told, replaced, inARow, breaks, mutes>>

\* Reconciliation writes the row of a day, at most one a day.
NewDay(r, bad) ==
  /\ dag = "quality"
  /\ now >= latest[r].since + DAY
  /\ latest' = [latest EXCEPT ![r] = [day |-> @.day + 1, bad |-> bad, since |-> now]]
  /\ replaced' = IF latest[r].bad THEN replaced \cup {QualityKey(r)} ELSE replaced
  /\ UNCHANGED <<now, transitions, work, told, inARow, breaks, mutes>>

\* daily_pipeline calls quality_alerts when dbt is done.
Trigger ==
  /\ dag = "quality" /\ ~due
  /\ due' = TRUE
  /\ UNCHANGED <<dag, now, transitions, latest, current, told, replaced, inARow, breaks, mutes>>

-----------------------------------------------------------------------------
(* A run.                                                                   *)

Start ==
  /\ due
  /\ current.phase = "idle"
  /\ due' = FALSE
  /\ current' = [Idle EXCEPT !.phase = "read"]
  /\ UNCHANGED <<dag, now, transitions, latest, told, replaced, inARow, breaks, mutes>>

\* How a run that has ended counts.
InARow(partial) == IF partial THEN inARow + 1 ELSE 0

\* Nothing new ends the run.
Read(fired, partial) ==
  /\ current.phase = "read"
  /\ IF fired = <<>>
       THEN current' = Idle /\ inARow' = InARow(partial)
       ELSE /\ current' = [current EXCEPT !.phase = "send", !.fired = fired, !.partial = partial]
            /\ UNCHANGED inARow
  /\ UNCHANGED <<dag, now, transitions, latest, due, told, replaced, breaks, mutes>>

ReadMarket == dag = "market" /\ \E fired \in MarketMessages : Read(fired, FALSE)

ReadQuality(failing) ==
  /\ dag = "quality"
  /\ failing # {} => inARow < MaxInARow
  /\ \E fired \in QualityMessages(failing) : Read(fired, failing # {})

\* The message arrives, with as many entries as it can show.
Send ==
  /\ current.phase = "send"
  /\ current' = [current EXCEPT !.phase = "record"]
  /\ shown' = [k \in Keys |-> shown[k] + Cardinality(Entries(current.fired, k))]
  /\ muted' = muted \cup {k \in Range(current.fired) : Entries(current.fired, k) = {}}
  /\ UNCHANGED <<dag, now, transitions, latest, due, recorded, late, broken, replaced, inARow, breaks, mutes>>

\* There is no webhook, or Slack cannot be reached: logged, nothing else.
SendMuted ==
  /\ mutes < MaxMuted
  /\ mutes' = mutes + 1
  /\ current.phase = "send"
  /\ current' = [current EXCEPT !.phase = "record"]
  /\ muted' = muted \cup Range(current.fired)
  /\ UNCHANGED <<dag, now, transitions, latest, due, recorded, late, shown, broken, replaced, inARow, breaks>>

Record ==
  /\ current.phase = "record"
  /\ recorded' = recorded \cup Range(current.fired)
  /\ current' = Idle
  /\ inARow' = InARow(current.partial)
  /\ UNCHANGED <<dag, now, transitions, latest, due, late, shown, muted, broken, replaced, breaks, mutes>>

\* A query or the INSERT fails, or the worker is killed.  The INSERT of a client that has
\* given up may be executed yet.
Break ==
  /\ breaks < MaxBreaks
  /\ breaks' = breaks + 1
  /\ current.phase # "idle"
  /\ IF current.tries < Retries
       THEN /\ current' = [Idle EXCEPT !.phase = "read", !.tries = current.tries + 1]
            /\ UNCHANGED inARow
       ELSE /\ inARow < MaxInARow
            /\ inARow' = inARow + 1
            /\ current' = Idle
  /\ IF current.phase = "record"
       THEN /\ broken' = broken + 1
            /\ late' \in {late, late \cup {current.fired}}
       ELSE UNCHANGED <<broken, late>>
  /\ UNCHANGED <<dag, now, transitions, latest, due, recorded, shown, muted, replaced, mutes>>

RecordLate(fired) ==
  /\ late' = late \ {fired}
  /\ recorded' = recorded \cup Range(fired)
  /\ UNCHANGED <<now, transitions, latest, work, shown, muted, broken, replaced, inARow, breaks, mutes>>

-----------------------------------------------------------------------------
DeliveryNext ==
  \/ Tick
  \/ \E subject \in Subjects, level \in Levels, at \in 0..now : Transition(subject, level, at)
  \/ \E r \in Rules, bad \in BOOLEAN : NewDay(r, bad)
  \/ Trigger
  \/ Start
  \/ ReadMarket
  \/ \E failing \in SUBSET Rules : ReadQuality(failing)
  \/ Send
  \/ SendMuted
  \/ Record
  \/ Break
  \/ \E fired \in late : RecordLate(fired)

DeliverySpec == DeliveryInit /\ [][DeliveryNext]_deliveryVars

-----------------------------------------------------------------------------
(* Properties.                                                              *)

\* A key has been dealt with: it will not be told again, and people saw it unless Slack
\* failed then or the message had more entries than it shows.
DealtWith(k) == k \in recorded /\ (shown[k] > 0 \/ k \in muted)

\* What leaves the view of a DAG has been dealt with, although runs fail: a promotion when
\* the look-back has passed it, the violation of a day when the next day replaces it.
NothingSlips ==
  /\ \A i \in DOMAIN transitions :
       LET t == transitions[i] IN
       t.level > t.prev /\ t.subject \notin Shadow /\ t.at < now - Window /\ ~due => DealtWith(MarketKey(t))
  /\ \A k \in replaced : DealtWith(k)

\* However often a market goes up and down in an hour, and however many attempts look at
\* the same rows, a key is shown again only when an attempt broke off behind its message.
ShownOnce == \A k \in Keys : shown[k] <= 1 + broken
=============================================================================
