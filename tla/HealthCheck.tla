----------------------------- MODULE HealthCheck -----------------------------
(***************************************************************************)
(* airflow/dags/health_check.py with flink_health_operator.py and          *)
(* clickhouse_operator.py: twelve checks, in any order and at instants of  *)
(* their own, then one evaluation of what they returned.                   *)
(*                                                                         *)
(* Two parts of the DAG repair.  check_kafka_connect restarts what a       *)
(* connector reports as broken; the evaluation restarts the connector of   *)
(* the trades when no row has come for a minute, since a connector may     *)
(* report RUNNING and publish nothing.  The evaluation only runs when no   *)
(* check has failed.                                                       *)
(***************************************************************************)
EXTENDS Integers, FiniteSets

CONSTANTS
  Checks,           \* tasks of the DAG
  Connectors,
  CDC,              \* mysql-cdc-connector
  MaxFailures,      \* bound: events that cannot be parsed
  MaxDisturbances,  \* bound: disturbances of any other kind
  NONE

ParseCheck == "check_parse_failures"
ConnectCheck == "check_kafka_connect"

\* Checks that hold a rate, a delay or a share against a threshold; what they find is
\* left open.
Gauges == {"check_ingest_lag", "check_market_coverage", "check_source_busy", "check_insert_latency",
           "check_ledger_reconcile", "check_binance_ingest"}
AllChecks == Gauges \cup {"check_clickhouse_ingest", "check_flink_jobs", "check_kafka_health",
                          "check_producer_activity", ConnectCheck, ParseCheck}

ASSUME HealthAssumption ==
  /\ Checks \subseteq AllChecks
  /\ CDC \in Connectors
  /\ IsFiniteSet(Connectors)
  /\ {MaxFailures, MaxDisturbances} \subseteq Nat
  /\ NONE \notin Nat

VARIABLES
  condition,   \* of each connector: "fine", "failed" (a task), "unassigned", "ghost"
  down,        \* services that do not answer
  producing,   \* the producer writes trades
  job,         \* the job of the trades runs
  counter,     \* parseFailures of the running job
  silence,     \* rows: 0 in the last minute, 1 in the last five, 2 in the last ten, 3 none
  phase,       \* of the run
  result,      \* per check: "todo", "retry", "failed", "ok", "bad"
  todo,        \* check_kafka_connect: connectors not asked yet
  unwell,      \* ... and those that were not in order when asked
  reading,     \* the last XCom of check_parse_failures: a count or NONE
  attempts,    \* attempts the evaluation has failed
  issues,      \* what the evaluation found
  written,     \* tables that have the findings of this run
  fresh,       \* history: failures to parse since that XCom
  reset,       \* history: the job has started again since that XCom
  touched,     \* history: connectors check_kafka_connect has restarted in this run
  failures, disturbances

world == <<condition, down, producing, job, counter, silence>>
checking == <<result, todo, unwell, reading>>
evaluating == <<attempts, issues, written>>
alarms == <<fresh, reset, touched>>
healthVars == <<world, phase, checking, evaluating, alarms, failures, disturbances>>

-----------------------------------------------------------------------------
(* The pipeline.                                                            *)

Services == {"kafka-connect", "flink", "clickhouse", "upbit"}

Flowing ==
  /\ producing /\ job
  /\ condition[CDC] = "fine"
  /\ down \cap {"kafka-connect", "clickhouse"} = {}

HealthInit ==
  /\ condition = [k \in Connectors |-> "fine"]
  /\ down = {}
  /\ producing = TRUE
  /\ job = TRUE
  /\ counter = 0
  /\ silence = 0
  /\ phase = "idle"
  /\ result = [c \in Checks |-> "todo"]
  /\ todo = Connectors
  /\ unwell = {}
  /\ reading = NONE
  /\ attempts = 0
  /\ issues = {}
  /\ written = {}
  /\ fresh = 0
  /\ reset = FALSE
  /\ touched = {}
  /\ failures = 0
  /\ disturbances = 0

Disturbance == disturbances < MaxDisturbances /\ disturbances' = disturbances + 1
RunUnchanged == UNCHANGED <<phase, checking, evaluating, touched>>

\* A task has used up its retries; the worker was lost in a rebalance; the binlog client
\* stands still while everything reports RUNNING.
ConnectorBreaks(k, c) ==
  /\ Disturbance
  /\ condition[k] = "fine"
  /\ condition' = [condition EXCEPT ![k] = c]
  /\ UNCHANGED <<down, producing, job, counter, silence, fresh, reset, failures>> /\ RunUnchanged

Outage(s) ==
  /\ Disturbance
  /\ s \notin down
  /\ down' = down \cup {s}
  /\ UNCHANGED <<condition, producing, job, counter, silence, fresh, reset, failures>> /\ RunUnchanged

OutageEnds(s) ==
  /\ down' = down \ {s}
  /\ UNCHANGED <<condition, producing, job, counter, silence, fresh, reset, failures, disturbances>> /\ RunUnchanged

ProducerStops ==
  /\ Disturbance
  /\ producing /\ producing' = FALSE
  /\ UNCHANGED <<condition, down, job, counter, silence, fresh, reset, failures>> /\ RunUnchanged

ProducerStarts ==
  /\ ~producing /\ producing' = TRUE
  /\ UNCHANGED <<condition, down, job, counter, silence, fresh, reset, failures, disturbances>> /\ RunUnchanged

JobFails ==
  /\ Disturbance
  /\ job /\ job' = FALSE
  /\ UNCHANGED <<condition, down, producing, counter, silence, fresh, reset, failures>> /\ RunUnchanged

\* The counter begins at zero again.
JobStarts ==
  /\ ~job /\ job' = TRUE
  /\ counter' = 0
  /\ reset' = TRUE
  /\ UNCHANGED <<condition, down, producing, silence, fresh, failures, disturbances>> /\ RunUnchanged

\* CdcEventParser counts an event it cannot parse.
ParseFailure ==
  /\ Flowing
  /\ failures < MaxFailures /\ failures' = failures + 1
  /\ counter' = counter + 1
  /\ fresh' = fresh + 1
  /\ UNCHANGED <<condition, down, producing, job, silence, reset, disturbances>> /\ RunUnchanged

\* Minutes pass: with rows, or without.
Time ==
  /\ silence' = IF Flowing THEN 0 ELSE IF silence < 3 THEN silence + 1 ELSE 3
  /\ silence' # silence
  /\ UNCHANGED <<condition, down, producing, job, counter, fresh, reset, failures, disturbances>> /\ RunUnchanged

-----------------------------------------------------------------------------
(* Checks.  Each is an attempt and one retry.                               *)

\* Every ten minutes, one run at a time.
StartRun ==
  /\ phase = "idle"
  /\ phase' = "checks"
  /\ result' = [c \in Checks |-> "todo"]
  /\ todo' = Connectors
  /\ unwell' = {}
  /\ attempts' = 0
  /\ issues' = {}
  /\ written' = {}
  /\ touched' = {}
  /\ UNCHANGED <<world, reading, fresh, reset, failures, disturbances>>

Ready(c) == phase = "checks" /\ result[c] \in {"todo", "retry"}

\* The services a check asks without catching their failure.
Asks(c) ==
  CASE c \in {"check_flink_jobs", ConnectCheck} -> {}
    [] c \in {"check_source_busy", ParseCheck} -> {"flink"}
    [] c = "check_market_coverage" -> {"upbit", "clickhouse"}
    [] OTHER -> {"clickhouse"}

Raises(c) == Asks(c) \cap down # {}

\* What a check may find.
Findings(c) ==
  CASE c = "check_producer_activity" -> {silence >= 1}
    [] c = "check_kafka_health" -> {silence >= 2}
    [] c = "check_clickhouse_ingest" -> {silence = 3}
    [] c = "check_flink_jobs" -> {"flink" \in down \/ ~job}
    [] c = "check_source_busy" -> IF job THEN BOOLEAN ELSE {FALSE}
    [] OTHER -> BOOLEAN

Verdict(bad) == IF bad THEN "bad" ELSE "ok"

Check(c) ==
  /\ Ready(c)
  /\ ~Raises(c)
  /\ \E bad \in Findings(c) : result' = [result EXCEPT ![c] = Verdict(bad)]
  /\ UNCHANGED <<world, phase, todo, unwell, reading, evaluating, alarms, failures, disturbances>>

CheckRaises(c) ==
  /\ Ready(c)
  /\ Raises(c)
  /\ result' = [result EXCEPT ![c] = IF @ = "todo" THEN "retry" ELSE "failed"]
  /\ UNCHANGED <<world, phase, todo, unwell, reading, evaluating, alarms, failures, disturbances>>

\* Variant with a plausible bug: any failure counted is one to tell.
AnyFailure(cur, prev) == cur # NONE /\ cur > 0

\* More failures than at the previous reading.
Grown(cur, prev) == cur # NONE /\ prev # NONE /\ cur > prev

\* Without the job there is no count, and none to compare the next with.
CheckParse ==
  LET cur == IF job THEN counter ELSE NONE IN
  /\ ParseCheck \in Checks /\ Ready(ParseCheck)
  /\ ~Raises(ParseCheck)
  /\ result' = [result EXCEPT ![ParseCheck] = Verdict(Grown(cur, reading))]
  /\ reading' = cur
  /\ fresh' = 0
  /\ reset' = FALSE
  /\ UNCHANGED <<world, phase, todo, unwell, evaluating, touched, failures, disturbances>>

\* Restarting a connector with its tasks; Connect refuses while it rebalances.
Restarted(k) == condition' = [condition EXCEPT ![k] = "fine"]
Refused == Disturbance /\ UNCHANGED condition

\* The next connector is asked; what reports a failure is restarted.
AskConnector(k) ==
  /\ Ready(ConnectCheck)
  /\ "kafka-connect" \notin down
  /\ k \in todo
  /\ todo' = todo \ {k}
  /\ IF condition[k] \in {"failed", "unassigned"}
       THEN /\ unwell' = unwell \cup {k}
            /\ touched' = touched \cup {k}
            /\ \/ Restarted(k) /\ UNCHANGED disturbances
               \/ Refused
       ELSE UNCHANGED <<unwell, touched, condition, disturbances>>
  /\ UNCHANGED <<down, producing, job, counter, silence, phase, result, reading, evaluating, fresh, reset, failures>>

\* Variant with a plausible bug: the verdict is that of what is asked after the repairs.
ConnectVerdictAfter == Verdict(\E k \in Connectors : condition[k] \in {"failed", "unassigned"})

\* The states as they were when asked.
ConnectVerdict == Verdict(unwell # {})

CheckConnect ==
  /\ ConnectCheck \in Checks /\ Ready(ConnectCheck)
  /\ \/ "kafka-connect" \notin down /\ todo = {} /\ result' = [result EXCEPT ![ConnectCheck] = ConnectVerdict]
     \/ "kafka-connect" \in down /\ result' = [result EXCEPT ![ConnectCheck] = "bad"]
  /\ UNCHANGED <<world, phase, todo, unwell, reading, evaluating, alarms, failures, disturbances>>

-----------------------------------------------------------------------------
(* Evaluation.                                                              *)

Final == {"ok", "bad", "failed"}

\* A failed check leaves the evaluation out.
Skip ==
  /\ phase = "checks"
  /\ \A c \in Checks : result[c] \in Final
  /\ \E c \in Checks : result[c] = "failed"
  /\ phase' = "idle"
  /\ UNCHANGED <<world, checking, evaluating, alarms, failures, disturbances>>

Silent == "check_producer_activity" \in Checks /\ result["check_producer_activity"] = "bad"

\* Variant with a plausible bug: only failed tasks are restarted.
RestartCdcFailed ==
  IF Silent /\ "kafka-connect" \notin down
    THEN \/ condition' = [condition EXCEPT ![CDC] = IF @ = "ghost" THEN "ghost" ELSE "fine"] /\ UNCHANGED disturbances
         \/ Refused
    ELSE UNCHANGED <<condition, disturbances>>

\* No rows: the connector of the trades is restarted with all its tasks.
RestartCdc ==
  IF Silent /\ "kafka-connect" \notin down
    THEN \/ Restarted(CDC) /\ UNCHANGED disturbances
         \/ Refused
    ELSE UNCHANGED <<condition, disturbances>>

\* The findings go to Slack in one message.
Evaluate ==
  /\ phase = "checks"
  /\ \A c \in Checks : result[c] \in {"ok", "bad"}
  /\ RestartCdc
  /\ issues' = {c \in Checks : result[c] = "bad"}
  /\ phase' = IF issues' = {} THEN "healthy" ELSE "record"
  /\ UNCHANGED <<down, producing, job, counter, silence, checking, attempts, written, alarms, failures>>

\* The message as rows, first of one table, then of the other; a failure is only logged.
RecordEvents ==
  /\ phase = "record"
  /\ \/ "clickhouse" \notin down /\ written' = written \cup {"alert_events"} /\ phase' = "recorded"
     \/ "clickhouse" \in down /\ phase' = "done" /\ UNCHANGED written
  /\ UNCHANGED <<world, checking, attempts, issues, alarms, failures, disturbances>>

RecordIncidents ==
  /\ phase = "recorded"
  /\ written' = IF "clickhouse" \in down THEN written ELSE written \cup {"pipeline_incidents"}
  /\ phase' = "done"
  /\ UNCHANGED <<world, checking, attempts, issues, alarms, failures, disturbances>>

\* The worker is killed; the evaluation is tried once more.
Killed ==
  /\ Disturbance
  /\ phase \in {"record", "recorded"}
  /\ IF attempts = 0 THEN attempts' = 1 /\ phase' = "checks" ELSE phase' = "idle" /\ UNCHANGED attempts
  /\ UNCHANGED <<world, checking, issues, written, alarms, failures>>

EndRun ==
  /\ phase \in {"done", "healthy"}
  /\ phase' = "idle"
  /\ UNCHANGED <<world, checking, evaluating, alarms, failures, disturbances>>

-----------------------------------------------------------------------------
Run ==
  \/ StartRun
  \/ \E c \in Checks \ {ConnectCheck, ParseCheck} : Check(c)
  \/ \E c \in Checks \ {ConnectCheck} : CheckRaises(c)
  \/ CheckParse
  \/ ConnectCheck \in Checks /\ \E k \in Connectors : AskConnector(k)
  \/ CheckConnect
  \/ Skip
  \/ Evaluate
  \/ RecordEvents
  \/ RecordIncidents
  \/ EndRun

Recover ==
  \/ \E s \in down : OutageEnds(s)
  \/ ProducerStarts
  \/ JobStarts

HealthNext ==
  \/ Run
  \/ Recover
  \/ Time
  \/ \E k \in Connectors, c \in {"failed", "unassigned", "ghost"} : ConnectorBreaks(k, c)
  \/ \E s \in Services : Outage(s)
  \/ ProducerStops
  \/ JobFails
  \/ ParseFailure
  \/ Killed

HealthSpec == HealthInit /\ [][HealthNext]_healthVars

\* The scheduler goes on with a run; containers are started again; time passes.
FairSpec == HealthSpec /\ WF_healthVars(Run) /\ WF_healthVars(Recover) /\ WF_healthVars(Time)

-----------------------------------------------------------------------------
(* Properties.                                                              *)

\* No break of the stream of trades lasts for ever, the silent one of a connector that
\* reports RUNNING included; and of no connector a reported failure.
RepairedInTheEnd ==
  []<>(Flowing /\ \A k \in Connectors : condition[k] \in {"fine", "ghost"})

\* Failures to parse are told when there are new ones since the previous reading and, as
\* long as the job has not started again in between, always then: neither a restart of the
\* job nor a failed check makes an old failure look new.
ParseAlarmIsNew ==
  [][result' # result /\ ParseCheck \in Checks /\ result[ParseCheck] \notin Final /\ result'[ParseCheck] \in {"ok", "bad"} =>
       /\ result'[ParseCheck] = "bad" => fresh > 0
       /\ fresh > 0 /\ ~reset /\ reading # NONE /\ job => result'[ParseCheck] = "bad"]_healthVars

\* A run that says everything is in order has restarted nothing, also when what it found
\* was in order again by the time of the evaluation.
QuietMeansUntouched == phase = "healthy" => touched = {}
=============================================================================
