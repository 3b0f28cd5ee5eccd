--------------------------- MODULE VirtualLedger ---------------------------
(***************************************************************************)
(* The virtual trader (virtual-trader/trader.py) and its MySQL ledger, for *)
(* one symbol.  One event loop runs the main loop, a task per maker order  *)
(* (amend, then cancel) and the socket's reader; only an await lets another *)
(* of them run.  MySQL commits every statement on its own.                 *)
(*                                                                         *)
(* The exchange is a test network: it owns the state of the orders and     *)
(* writes a report of every change to `journal', whose index is the        *)
(* execution id.  A subscribed socket carries the reports; the ones written *)
(* while nobody is subscribed are not sent again.  Now and then the network *)
(* is reset: every order is gone.  Ids are not used again.                 *)
(***************************************************************************)
EXTENDS Integers, Sequences, FiniteSets, FiniteSetsExt, SequencesExt

CONSTANTS
  Sizes,             \* the quantity a cycle buys, in steps of the symbol
  MaxOrdersPerDay,   \* MAX_ORDERS_PER_SYMBOL_PER_DAY
  Reordered,         \* TRUE: the stream may overtake itself
  CleanClose,        \* TRUE: the exchange may close the socket with code 1000 or 1001
  Archives,          \* TRUE: the exchange forgets cancelled orders nothing was filled of
  Refusals,          \* TRUE: the exchange may refuse an order
  MaxOrders, MaxFaults, MaxDrops, MaxRepeats, MaxResets,   \* bounds
  NONE

ASSUME ParameterAssumption ==
  /\ Sizes \subseteq Nat \ {0}
  /\ {MaxOrdersPerDay, MaxOrders, MaxFaults, MaxDrops, MaxRepeats, MaxResets} \subseteq Nat
  /\ {Reordered, CleanClose, Archives, Refusals} \subseteq BOOLEAN

VARIABLES
  generation, book, archived, journal,    \* the exchange
  stream,            \* the execution ids on their way to the trader
  link,              \* "up"; "down": ws is None; "dead": closed, and ws is not None
  epoch, adopted,    \* of the process
  loop,              \* where the main loop stands, and what it holds there
  tasks,             \* the amend_then_cancel task of each order
  handling,          \* the report on_event is at, between two statements
  raw, rows, fills,  \* binance_user_events, virtual_orders, virtual_fills
  faults, drops, repeats

exchange == <<generation, book, archived, journal>>
process == <<epoch, adopted, loop, tasks>>
tables == <<raw, rows, fills>>
counters == <<faults, drops, repeats>>
vars == <<exchange, stream, link, process, handling, tables, counters>>

-----------------------------------------------------------------------------
(* The exchange.                                                           *)

OrderIds == 1 .. MaxOrders
Live == {"NEW", "PARTIALLY_FILLED"}
Exists(o) == o \in DOMAIN book /\ book[o].gen = generation /\ o \notin archived
Open(o) == Exists(o) /\ book[o].status \in Live

\* The change of an order, its report, and the report's way to the subscriber.
Report(o, order, type, last) ==
  /\ book' = [i \in 1 .. Max({o, Len(book)}) |-> IF i = o THEN order ELSE book[i]]
  /\ journal' = Append(journal,
       [order |-> o, type |-> type, status |-> order.status, executed_qty |-> order.executed_qty,
        orig_qty |-> order.orig_qty, last_qty |-> last])
  /\ stream' = IF link = "up" THEN Append(stream, Len(journal) + 1) ELSE stream
  /\ UNCHANGED <<generation, archived>>

Match(o) ==
  \E k \in 1 .. book[o].orig_qty - book[o].executed_qty :
    /\ Open(o)
    /\ LET done == book[o].executed_qty + k
           status == IF done = book[o].orig_qty THEN "FILLED" ELSE "PARTIALLY_FILLED"
       IN  Report(o, [book[o] EXCEPT !.executed_qty = done, !.status = status], "TRADE", k)
    /\ UNCHANGED <<link, process, handling, tables, counters>>

\* What an IOC order could not fill at once expires.
Expire(o) ==
  /\ Open(o) /\ book[o].strategy # "maker-probe"
  /\ Report(o, [book[o] EXCEPT !.status = "EXPIRED"], "EXPIRED", 0)
  /\ UNCHANGED <<link, process, handling, tables, counters>>

Archive(o) ==
  /\ Archives /\ Exists(o)
  /\ book[o].status \in {"CANCELED", "EXPIRED"} /\ book[o].executed_qty = 0
  /\ archived' = archived \cup {o}
  /\ UNCHANGED <<generation, book, journal, stream, link, process, handling, tables, counters>>

ResetNetwork ==
  /\ generation < MaxResets
  /\ generation' = generation + 1
  /\ UNCHANGED <<book, archived, journal, stream, link, process, handling, tables, counters>>

OfNetwork(i) == book[journal[i].order].gen = generation

\* At-least-once: a report is sent a second time.
Repeat ==
  /\ repeats < MaxRepeats /\ link = "up"
  /\ repeats' = repeats + 1
  /\ \E i \in DOMAIN journal : OfNetwork(i) /\ stream' = Append(stream, i)
  /\ UNCHANGED <<exchange, link, process, handling, tables, faults, drops>>

-----------------------------------------------------------------------------
(* on_event: the raw log, then the order row, then the fill row.  No await *)
(* is in it; the process may die, or MySQL fail, between the statements.   *)

Idle == handling = NONE
Wiping == loop.at \in {"wipeFills", "wipeOrders"}   \* within apply_reset
Settle(h) == handling' = h

Take(i) == stream' = RemoveAt(stream, i)

record_event ==
  /\ Idle /\ ~Wiping /\ link = "up"
  /\ \E i \in DOMAIN stream :
       /\ Reordered \/ i = 1
       /\ Take(i)
       /\ raw' = raw \cup {stream[i]}
       /\ Settle(IF stream[i] \in raw THEN NONE ELSE [exec |-> stream[i], at |-> "recorded"])
  /\ UNCHANGED <<exchange, link, process, rows, fills, counters>>

IsFill(i) == journal[i].type = "TRADE"
FillIncrement(i) == IF IsFill(i) THEN 1 ELSE 0

Snapshot(i, count, version, age) ==
  [status |-> journal[i].status, executed_qty |-> journal[i].executed_qty,
   orig_qty |-> journal[i].orig_qty, last_exec_id |-> i,
   fill_count |-> count, version |-> version, reset_epoch |-> age]

UpsertedUnguarded(row, i) ==
  IF row = NONE THEN Snapshot(i, FillIncrement(i), 1, epoch)
  ELSE [Snapshot(i, row.fill_count + FillIncrement(i), row.version + 1, row.reset_epoch)
          EXCEPT !.last_exec_id = Max({i, row.last_exec_id})]

UpsertedOnce(row, i) ==
  IF row = NONE THEN Snapshot(i, FillIncrement(i), 1, epoch) ELSE row

UpsertedAlwaysVersioned(row, i) ==
  CASE row = NONE -> Snapshot(i, FillIncrement(i), 1, epoch)
    [] row # NONE /\ i > row.last_exec_id ->
         Snapshot(i, row.fill_count + FillIncrement(i), row.version + 1, row.reset_epoch)
    [] OTHER -> [row EXCEPT !.version = @ + 1]

\* UPSERT_ORDER: an older report than the row's last leaves the row alone.
Upserted(row, i) ==
  CASE row = NONE -> Snapshot(i, FillIncrement(i), 1, epoch)
    [] row # NONE /\ i > row.last_exec_id ->
         Snapshot(i, row.fill_count + FillIncrement(i), row.version + 1, row.reset_epoch)
    [] OTHER -> row

apply_report ==
  /\ ~Idle /\ handling.at = "recorded"
  /\ LET i == handling.exec
         o == journal[i].order
     IN  /\ rows' = [rows EXCEPT ![o] = Upserted(@, i)]
         /\ Settle(IF IsFill(i) THEN [handling EXCEPT !.at = "upserted"] ELSE NONE)
  /\ UNCHANGED <<exchange, stream, link, process, raw, fills, counters>>

insert_fill ==
  /\ ~Idle /\ handling.at = "upserted"
  /\ fills' = fills \cup {handling.exec}
  /\ Settle(NONE)
  /\ UNCHANGED <<exchange, stream, link, process, raw, rows, counters>>

\* MySQL refuses a statement: on_event logs the error and goes on to the next report.
on_event_failed ==
  /\ ~Idle /\ faults < MaxFaults
  /\ faults' = faults + 1
  /\ Settle(NONE)
  /\ UNCHANGED <<exchange, stream, link, process, tables, drops, repeats>>

-----------------------------------------------------------------------------
(* Queries of the ledger.                                                  *)

Known == {o \in OrderIds : rows[o] # NONE}
is_open(o) == o \in Known /\ rows[o].status \in Live
open_orders == {o \in Known : is_open(o) /\ rows[o].reset_epoch = epoch}
open_maker_orders == {o \in Known : is_open(o) /\ book[o].strategy = "maker-probe"}
filled_orders == {o \in Known : rows[o].status = "FILLED" /\ rows[o].reset_epoch = epoch}
last_filled == CHOOSE o \in filled_orders :
                 \A p \in filled_orders : rows[p].last_exec_id <= rows[o].last_exec_id
orders_today == Cardinality(Known)

Signed(i) == IF book[journal[i].order].strategy = "unwind" THEN -journal[i].last_qty
                                                           ELSE journal[i].last_qty
net_qty == MapThenSumSet(Signed, fills)
Last_epoch == Max({0} \cup {rows[o].reset_epoch : o \in Known})

-----------------------------------------------------------------------------
(* The main loop.  `loop' holds what the code keeps across an await.       *)

AtRest == [at |-> "rest"]
Free == Idle /\ adopted /\ loop = AtRest /\ link # "down"

connect ==
  /\ Idle /\ loop = AtRest /\ link = "down"
  /\ link' = "up"
  /\ UNCHANGED <<exchange, stream, process, handling, tables, counters>>

adopt_open_orders ==
  /\ Idle /\ loop = AtRest /\ link # "down" /\ ~adopted
  /\ adopted' = TRUE
  /\ tasks' = [o \in OrderIds |-> IF o \in open_maker_orders
                                  THEN [at |-> "sleep", qty |-> rows[o].orig_qty] ELSE tasks[o]]
  /\ UNCHANGED <<exchange, stream, link, epoch, loop, handling, tables, counters>>

\* Rules A, B and C.  A plan under the minimal notional is left out: A and C may miss it.
plan_orders(qty, probe, unwind) ==
  (IF probe THEN <<[strategy |-> "maker-probe", qty |-> qty]>> ELSE <<>>)
  \o <<[strategy |-> "taker-ioc", qty |-> qty]>>
  \o (IF unwind /\ net_qty > 0 THEN <<[strategy |-> "unwind", qty |-> net_qty]>> ELSE <<>>)

cycle ==
  /\ Free /\ orders_today < MaxOrdersPerDay
  /\ \E qty \in Sizes, probe, unwind \in BOOLEAN :
       loop' = [at |-> "place", plans |-> plan_orders(qty, probe, unwind)]
  /\ UNCHANGED <<exchange, stream, link, epoch, adopted, tasks, handling, tables, counters>>

Placed == [loop EXCEPT !.at = "place", !.plans = Tail(@)]

\* The loop sends the next plan of the cycle, or leaves the cycle.
place ==
  /\ Idle /\ loop.at = "place"
  /\ loop' = CASE loop.plans = <<>> -> AtRest
               [] loop.plans # <<>> /\ link = "up" -> [loop EXCEPT !.at = "sent"]
               [] OTHER -> Placed
  /\ UNCHANGED <<exchange, stream, link, epoch, adopted, tasks, handling, tables, counters>>

\* The exchange takes the order before its answer is on the way; or it refuses it.
order_place ==
  /\ loop.at = "sent" /\ Len(book) < MaxOrders
  /\ LET plan == Head(loop.plans)
         o == Len(book) + 1
     IN  /\ Report(o, [strategy |-> plan.strategy, gen |-> generation, status |-> "NEW",
                       executed_qty |-> 0, orig_qty |-> plan.qty], "NEW", 0)
         /\ loop' = [at |-> "answered", plans |-> loop.plans, order |-> o]
  /\ UNCHANGED <<link, epoch, adopted, tasks, handling, tables, counters>>

placed ==
  /\ Idle /\ loop.at = "answered"
  /\ tasks' = IF Head(loop.plans).strategy = "maker-probe"
              THEN [tasks EXCEPT ![loop.order] = [at |-> "sleep", qty |-> Head(loop.plans).qty]]
              ELSE tasks
  /\ loop' = [at |-> "place", plans |-> Tail(loop.plans)]
  /\ UNCHANGED <<exchange, stream, link, epoch, adopted, handling, tables, counters>>

place_refused ==
  /\ Idle /\ loop.at = "sent"
  /\ Refusals \/ Len(book) = MaxOrders
  /\ loop' = Placed
  /\ UNCHANGED <<exchange, stream, link, epoch, adopted, tasks, handling, tables, counters>>

\* check_reset: the open order first, the last filled one if that one is gone.
check_reset ==
  /\ Free /\ link = "up" /\ open_orders # {}
  /\ \E o \in open_orders : loop' = [at |-> "askOpen", order |-> o]
  /\ UNCHANGED <<exchange, stream, link, epoch, adopted, tasks, handling, tables, counters>>

WipeAtOnce == IF Exists(loop.order) THEN AtRest ELSE [at |-> "wipeFills"]

AfterOpen == IF Exists(loop.order) \/ filled_orders = {}
             THEN AtRest ELSE [at |-> "askFilled", order |-> last_filled]

AfterFilled == IF Exists(loop.order) THEN AtRest ELSE [at |-> "wipeFills"]

\* The answer comes over the socket of the reports, behind those sent before it.
order_status ==
  /\ Idle
  /\ \A i \in DOMAIN stream : OfNetwork(stream[i])
  /\ \/ loop.at = "askOpen" /\ loop' = AfterOpen
     \/ loop.at = "askFilled" /\ loop' = AfterFilled
  /\ UNCHANGED <<exchange, stream, link, epoch, adopted, tasks, handling, tables, counters>>

\* apply_reset: two deletes of the epoch's rows, then the next epoch.  No await is in it.
Generation == {o \in Known : rows[o].reset_epoch = epoch}

delete_fills ==
  /\ loop.at = "wipeFills"
  /\ fills' = {i \in fills : journal[i].order \notin Generation}
  /\ loop' = [at |-> "wipeOrders"]
  /\ UNCHANGED <<exchange, stream, link, epoch, adopted, tasks, handling, raw, rows, counters>>

delete_orders ==
  /\ loop.at = "wipeOrders"
  /\ rows' = [o \in OrderIds |-> IF o \in Generation THEN NONE ELSE rows[o]]
  /\ epoch' = epoch + 1
  /\ loop' = AtRest
  /\ UNCHANGED <<exchange, stream, link, adopted, tasks, handling, raw, fills, counters>>

-----------------------------------------------------------------------------
(* amend_then_cancel, the task of one maker order.  `at' is where it waits:  *)
(* "sleep", "amend" (for the answer), "halved" (asleep again), "cancel".   *)

Ended == [at |-> "end", qty |-> 0]

\* CANCEL_AFTER_SEC is 90 s: by then the order's first report is not on its way any more.
Awake(o) ==
  /\ Idle /\ ~Wiping
  /\ \A i \in DOMAIN stream : journal[stream[i]].order = o => journal[stream[i]].type # "NEW"

Half(o) == tasks[o].qty \div 2

\* The cancel request: an error ends the task as an answer does.
Cancelling(o) == IF link = "up" THEN [tasks[o] EXCEPT !.at = "cancel"] ELSE Ended

amend(o) ==
  /\ tasks[o].at = "sleep" /\ Awake(o)
  /\ \E amendable \in BOOLEAN :
       tasks' = [tasks EXCEPT ![o] =
         CASE ~is_open(o) -> Ended
           [] is_open(o) /\ amendable /\ Half(o) > 0 ->
                [@ EXCEPT !.at = IF link = "up" THEN "amend" ELSE "halved"]
           [] OTHER -> Cancelling(o)]
  /\ UNCHANGED <<exchange, stream, link, epoch, adopted, loop, handling, tables, counters>>

RefusalEndsTask(o) ==
  /\ tasks[o].at = "amend" /\ Idle /\ ~Wiping
  /\ IF Open(o) /\ Half(o) > book[o].executed_qty /\ Half(o) < book[o].orig_qty
     THEN /\ Report(o, [book[o] EXCEPT !.orig_qty = Half(o)], "REPLACED", 0)
          /\ tasks' = [tasks EXCEPT ![o].at = "halved"]
     ELSE /\ tasks' = [tasks EXCEPT ![o] = Ended]
          /\ UNCHANGED <<exchange, stream>>
  /\ UNCHANGED <<link, epoch, adopted, loop, handling, tables, counters>>

\* The amended order, or a refusal: either way the task sleeps again.
amended(o) ==
  /\ tasks[o].at = "amend" /\ Idle /\ ~Wiping
  /\ tasks' = [tasks EXCEPT ![o].at = "halved"]
  /\ IF Open(o) /\ Half(o) > book[o].executed_qty /\ Half(o) < book[o].orig_qty
     THEN Report(o, [book[o] EXCEPT !.orig_qty = Half(o)], "REPLACED", 0)
     ELSE UNCHANGED <<exchange, stream>>
  /\ UNCHANGED <<link, epoch, adopted, loop, handling, tables, counters>>

cancel(o) ==
  /\ tasks[o].at = "halved" /\ Awake(o)
  /\ tasks' = [tasks EXCEPT ![o] = IF is_open(o) THEN Cancelling(o) ELSE Ended]
  /\ UNCHANGED <<exchange, stream, link, epoch, adopted, loop, handling, tables, counters>>

canceled(o) ==
  /\ tasks[o].at = "cancel" /\ Idle /\ ~Wiping
  /\ tasks' = [tasks EXCEPT ![o] = Ended]
  /\ IF Open(o) THEN Report(o, [book[o] EXCEPT !.status = "CANCELED"], "CANCELED", 0)
                ELSE UNCHANGED <<exchange, stream>>
  /\ UNCHANGED <<link, epoch, adopted, loop, handling, tables, counters>>

-----------------------------------------------------------------------------
(* Faults.                                                                 *)

\* _reader ends: an exception fails every pending call and clears ws; the end of the
\* loop over a socket closed in good order does neither, and the calls time out.
LoopCut == CASE loop.at \in {"sent", "answered"} -> Placed
             [] loop.at \in {"askOpen", "askFilled"} -> AtRest
             [] OTHER -> loop

TaskCut(task) == CASE task.at = "amend" -> [task EXCEPT !.at = "halved"]
                   [] task.at = "cancel" -> Ended
                   [] OTHER -> task

reader_ended ==
  /\ Idle /\ ~Wiping /\ link = "up" /\ drops < MaxDrops
  /\ drops' = drops + 1
  /\ \E l \in (IF CleanClose THEN {"down", "dead"} ELSE {"down"}) : link' = l
  /\ stream' = <<>>
  /\ loop' = LoopCut
  /\ tasks' = [o \in OrderIds |-> TaskCut(tasks[o])]
  /\ UNCHANGED <<exchange, epoch, adopted, handling, tables, faults, repeats>>

\* The process dies, anywhere, and docker starts it again: connect reads the epoch back.
restart ==
  /\ faults < MaxFaults
  /\ faults' = faults + 1
  /\ link' = "down" /\ stream' = <<>> /\ handling' = NONE
  /\ epoch' = Last_epoch
  /\ adopted' = FALSE /\ loop' = AtRest
  /\ tasks' = [o \in OrderIds |-> Ended]
  /\ UNCHANGED <<exchange, tables, drops, repeats>>

-----------------------------------------------------------------------------
Init ==
  /\ generation = 0 /\ book = <<>> /\ archived = {} /\ journal = <<>>
  /\ stream = <<>> /\ link = "down"
  /\ epoch = 0 /\ adopted = FALSE /\ loop = AtRest
  /\ tasks = [o \in OrderIds |-> Ended] /\ handling = NONE
  /\ raw = {} /\ rows = [o \in OrderIds |-> NONE] /\ fills = {}
  /\ faults = 0 /\ drops = 0 /\ repeats = 0

Reader == record_event \/ apply_report \/ insert_fill
MainLoop == \/ connect \/ adopt_open_orders \/ cycle \/ place \/ placed \/ place_refused
            \/ check_reset \/ order_status \/ delete_fills \/ delete_orders
Task(o) == amend(o) \/ amended(o) \/ cancel(o) \/ canceled(o)
Environment == \/ \E o \in DOMAIN book : Match(o) \/ Expire(o) \/ Archive(o)
               \/ ResetNetwork \/ Repeat \/ order_place
Faults == on_event_failed \/ reader_ended \/ restart

Next == Reader \/ MainLoop \/ (\E o \in OrderIds : Task(o)) \/ Environment \/ Faults

Spec == Init /\ [][Next]_vars

\* The reader, the tasks and the calls in flight go on; the exchange expires an IOC order;
\* the main loop polls for a lost socket and, every ten minutes, for a reset.
FairSpec ==
  /\ Spec
  /\ WF_vars(Reader) /\ WF_vars(connect) /\ WF_vars(adopt_open_orders)
  /\ WF_vars(place \/ placed \/ place_refused \/ order_place)
  /\ WF_vars(order_status \/ delete_fills \/ delete_orders) /\ SF_vars(check_reset)
  /\ \A o \in OrderIds : WF_vars(Task(o)) /\ WF_vars(Expire(o))

-----------------------------------------------------------------------------
(* Properties.                                                             *)

\* A row is what the exchange reported at the row's last_exec_id: whatever is repeated,
\* overtaken or lost, no column of an older report is mixed into it.  (UPSERT_ORDER)
RowsAreSnapshots ==
  \A o \in Known :
    LET r == journal[rows[o].last_exec_id]
    IN  /\ r.order = o
        /\ <<rows[o].status, rows[o].executed_qty, rows[o].orig_qty>> = <<r.status, r.executed_qty, r.orig_qty>>

\* A report in the raw log is in the order row, or a later one is; and its fill is in
\* virtual_fills.  The raw log drops a report it already has, so nothing else could apply
\* it.  And nothing is applied that is not in the log.  (on_event)
RecordedIsApplied ==
  /\ fills \subseteq {i \in raw : IsFill(i)}
  /\ \A o \in Known : rows[o].last_exec_id \in raw
  /\ Idle => \A i \in raw :
               /\ rows[journal[i].order] # NONE /\ rows[journal[i].order].last_exec_id >= i
               /\ IsFill(i) => i \in fills

\* A row that changes takes the next version and a later report: what the mirror in
\* ClickHouse orders a row's states by.  (UPSERT_ORDER)
VersionsCountChanges ==
  [][\A o \in Known : rows'[o] \notin {NONE, rows[o]} =>
       /\ rows'[o].version = rows[o].version + 1
       /\ rows'[o].last_exec_id > rows[o].last_exec_id]_vars

\* The trader never declares more resets than the network had: an order cancelled,
\* expired or forgotten by the exchange is no reset.  (check_reset)
NoFalseReset == epoch <= generation

\* What a reset deletes are orders the exchange deleted.  (check_reset, apply_reset)
WipesOldOrders ==
  [][\A o \in Known : rows'[o] = NONE => book[o].gen < generation]_vars

\* Every maker order is cancelled, filled, or gone with its network.  (amend_then_cancel)
ProbesEnd == \A o \in OrderIds : (o \in DOMAIN book /\ Open(o)) ~> ~Open(o)

\* A lost socket is connected again.  (_reader, run)
LinkComesBack == (link # "up") ~> (link = "up")

=============================================================================
