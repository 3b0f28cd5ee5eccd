------------------------ MODULE ProducerIngestProofs ------------------------
(***************************************************************************)
(* Proofs about ProducerIngest: its types, and that no trade leaves the    *)
(* reach of a repair window except through a named cause.                  *)
(***************************************************************************)
EXTENDS ProducerIngest, TLAPS, FiniteSetTheorems, SequenceTheorems

\* What the clock bounds.
Past(t) == t = NONE \/ (Epoch <= t /\ t <= now)
ClockInv ==
  /\ Epoch <= now
  /\ \A i \in Trades : Past(ledger[i])
  /\ Past(lastEvent) /\ Past(dropped)
  /\ pending # NONE => pending <= now
  /\ \A s \in Slots : /\ fill[s].hi <= now + Margin
                      /\ \A i \in Elements(fill[s].rows) : ledger[i] < fill[s].hi

\* What the phases of the loop imply.
PhaseInv ==
  /\ phase # "online" => wire = {}
  /\ phase = "online" => pending = NONE
  /\ phase = "down" => /\ buffer = <<>> /\ lastEvent = NONE /\ pending = NONE
                       /\ \A s \in Slots : fill[s] = Idle
  /\ lastEvent # NONE => pending = NONE
  /\ phase \in {"offline", "broken"} /\ lastEvent # NONE => dropped # NONE /\ lastEvent <= dropped

\* Trades are received, buffered and written in an order that strays from the
\* order of their times by at most Reorder.
OrderInv ==
  /\ buffer # <<>> => lastEvent # NONE
  /\ \A k \in DOMAIN buffer : ledger[buffer[k]] <= lastEvent
  /\ \A j, k \in DOMAIN buffer : j < k => ledger[buffer[j]] <= ledger[buffer[k]] + Reorder
  /\ lastEvent # NONE => \A i \in Exposed \cup wire : lastEvent <= ledger[i] + Reorder
  /\ lastRow # NONE /\ lastSrc = "ws" =>
       /\ \A k \in DOMAIN buffer :
            buffer[k] \in stored \/ ledger[lastRow] <= ledger[buffer[k]] + Reorder
       /\ \A i \in wire : ledger[lastRow] <= ledger[i] + Reorder

\* A hole that no task stands for is younger than the connections that opened
\* the running tasks, than the newest row, and than the startup window.
ReachInv ==
  /\ \A s \in Slots : fill[s].st # "idle" =>
       \A i \in Exposed \cup wire : fill[s].hi <= ledger[i] + Margin
  /\ lastRow # NONE => \A i \in Exposed \cup wire : ledger[lastRow] <= ledger[i] + Margin
  /\ pending # NONE => \A i \in Exposed : pending <= ledger[i]
  /\ LiveHolesAreCovered

IInv == TypeOK /\ ClockInv /\ PhaseInv /\ OrderInv /\ ReachInv

-----------------------------------------------------------------------------
\* The parameters are numbers, and the clock is ahead of the margin.
LEMMA Params ==
  /\ StartupMax \in Nat /\ Reorder \in Nat /\ Margin \in Nat /\ Margin > 0 /\ MaxFaults \in Nat
  /\ BatchSize \in Nat /\ BatchSize > 0 /\ MaxBatches \in Nat
  /\ Epoch \in Nat /\ Margin <= Epoch /\ NONE \notin Nat
<1>1. Margin \in Nat \ {0} /\ BatchSize \in Nat \ {0} /\ MaxBatches \in Nat \ {0}
  BY ParameterAssumption
<1>2. StartupMax \in Nat /\ Reorder \in Nat /\ MaxFaults \in Nat
  BY ParameterAssumption
<1>. QED
  BY <1>1, <1>2, EpochAssumption, NoneAssumption

\* The type invariant in the form the steps below use it.
LEMMA Typed ==
  ASSUME TypeOK
  PROVE  /\ now \in Nat /\ faultsLeft \in Nat
         /\ \A i \in Trades : ledger[i] \in Nat
         /\ lastEvent \in Times /\ dropped \in Times /\ pending \in Times
         /\ wire \subseteq Trades /\ Exposed \subseteq Trades
         /\ \A k \in DOMAIN buffer : buffer[k] \in Trades
         /\ lastRow # NONE => lastRow \in stored /\ lastRow \in Trades
         /\ \A s \in Slots : /\ fill[s] \in Tasks /\ fill[s].hi \in Nat /\ fill[s].lo \in Nat
                             /\ Elements(fill[s].rows) \subseteq Trades
<1>. USE DEF TypeOK
<1>1. \A i \in Trades : ledger[i] \in Nat
  BY DEF Trades
<1>2. \A s \in Slots : fill[s] \in Tasks /\ fill[s].hi \in Nat /\ fill[s].lo \in Nat
  BY DEF Tasks
<1>3. \A k \in DOMAIN buffer : buffer[k] \in Trades
  BY DEF Elements
<1>4. Exposed \subseteq Trades
  BY DEF Exposed
<1>. QED
  BY <1>1, <1>2, <1>3, <1>4

LEMMA InitInv == Init => IInv
<1>. SUFFICES ASSUME Init PROVE IInv
  OBVIOUS
<1>. USE Params
<1>1. TypeOK
  BY DEF Init, TypeOK, Trades, Elements, Phases, Times, Tasks, Idle
<1>2. Trades = {} /\ Exposed = {}
  BY DEF Init, Trades, Exposed
<1>3. ClockInv
  BY <1>2 DEF Init, ClockInv, Past, Idle, Elements
<1>4. PhaseInv
  BY DEF Init, PhaseInv
<1>5. OrderInv /\ ReachInv
  BY <1>2 DEF Init, OrderInv, ReachInv, LiveHolesAreCovered
<1>. QED
  BY <1>1, <1>3, <1>4, <1>5 DEF IInv

LEMMA TickStep == ASSUME IInv, Tick PROVE IInv'
<1>. USE Params
<1>1. TypeOK'
  <2>1. now' \in Nat
    BY DEF IInv, TypeOK, Tick
  <2>2. QED
    BY <2>1, Zenon DEF IInv, Tick, TypeOK, Trades, Elements
<1>2. Exposed' = Exposed /\ Trades' = Trades
  BY DEF Tick, Exposed, Trades, Elements, Covered, Covers, InWindow
<1>3. ClockInv'
  BY <1>2, Typed DEF IInv, Tick, ClockInv, Past, Times
<1>4. PhaseInv'
  BY DEF IInv, Tick, PhaseInv
<1>5. OrderInv'
  BY <1>2 DEF IInv, Tick, OrderInv
<1>6. ReachInv'
  BY <1>2 DEF IInv, Tick, ReachInv, LiveHolesAreCovered
<1>. QED
  BY <1>1, <1>3, <1>4, <1>5, <1>6 DEF IInv

\* A trade is executed: the only new hole it can make is itself.
LEMMA ExecuteStep == ASSUME IInv, Execute PROVE IInv'
<1>. USE Params
<1>. DEFINE n == Len(ledger) + 1
<1>0. TypeOK
  BY DEF IInv
<1>1. /\ ledger' \in Seq(Nat) /\ n \notin Trades /\ Trades' = Trades \cup {n}
      /\ ledger'[n] = now /\ \A i \in Trades : ledger'[i] = ledger[i]
  <2>1. ledger \in Seq(Nat) /\ now \in Nat /\ ledger' = Append(ledger, now)
    BY <1>0 DEF Execute, TypeOK
  <2>2. /\ Len(ledger) \in Nat /\ DOMAIN ledger = 1..Len(ledger)
        /\ ledger' \in Seq(Nat) /\ DOMAIN ledger' = 1..n
        /\ ledger'[n] = now /\ \A i \in 1..Len(ledger) : ledger'[i] = ledger[i]
    BY <2>1, AppendProperties
  <2>. QED
    BY <2>1, <2>2 DEF Trades
<1>2. /\ wire' \subseteq wire \cup {n} /\ (phase # "online" => wire' = wire)
      /\ phase = "online" => n \in wire' /\ wire \subseteq wire'
  BY DEF Execute
<1>3. /\ now' = now /\ faultsLeft' = faultsLeft /\ stored' = stored /\ lastRow' = lastRow
      /\ lastSrc' = lastSrc /\ phase' = phase /\ buffer' = buffer /\ lastEvent' = lastEvent
      /\ dropped' = dropped /\ pending' = pending /\ fill' = fill /\ forfeited' = forfeited
  BY DEF Execute
<1>4. Exposed' \subseteq Exposed \cup {n}
  <2>1. \A s \in Slots, i \in Trades : Covers(fill[s], i) => Covers(fill[s], i)'
    BY <1>1, <1>3 DEF Covers, Elements, InWindow
  <2>. QED
    BY <1>1, <1>3, <2>1 DEF Exposed, Covered, Elements
<1>. HIDE DEF n
<1>5. TypeOK'
  <2>1. wire' \subseteq Trades' /\ stored' \subseteq Trades' /\ forfeited' \subseteq Trades'
        /\ Elements(buffer') \subseteq Trades'
        /\ \A s \in Slots : Elements(fill'[s].rows) \subseteq Trades'
    BY <1>0, <1>1, <1>2, <1>3 DEF TypeOK
  <2>. QED
    BY <1>0, <1>1, <1>3, <2>1, Zenon DEF TypeOK, Elements
<1>6. ClockInv'
  <2>1. \A i \in Trades' : Past(ledger[i])'
    BY <1>0, <1>1, <1>3, Typed DEF IInv, ClockInv, Past
  <2>2. \A s \in Slots : \A i \in Elements(fill[s].rows) : ledger'[i] < fill[s].hi
    BY <1>0, <1>1, Typed DEF IInv, ClockInv
  <2>. QED
    BY <1>3, <2>1, <2>2 DEF IInv, ClockInv, Past, Elements
<1>7. PhaseInv'
  BY <1>2, <1>3 DEF IInv, PhaseInv
<1>8. OrderInv'
  <2>1. \A k \in DOMAIN buffer : ledger'[buffer[k]] = ledger[buffer[k]]
    BY <1>0, <1>1, Typed
  <2>2. \A i \in Exposed' \cup wire' : (i \in Exposed \cup wire /\ ledger'[i] = ledger[i]) \/ ledger'[i] = now
    BY <1>0, <1>1, <1>2, <1>4, Typed
  <2>3. lastRow # NONE => /\ ledger'[lastRow] = ledger[lastRow] /\ ledger[lastRow] \in Nat
                          /\ ledger[lastRow] <= now
    BY <1>0, <1>1, Typed DEF IInv, ClockInv, Past
  <2>4. lastEvent # NONE => \A i \in Exposed' \cup wire' : lastEvent <= ledger'[i] + Reorder
    BY <1>0, <2>2, Typed DEF IInv, ClockInv, Past, Times, OrderInv
  <2>5. \A j, k \in DOMAIN buffer : j < k => ledger'[buffer[j]] <= ledger'[buffer[k]] + Reorder
    BY <2>1 DEF IInv, OrderInv
  <2>6. lastRow # NONE /\ lastSrc = "ws" =>
       /\ \A k \in DOMAIN buffer :
            buffer[k] \in stored \/ ledger'[lastRow] <= ledger'[buffer[k]] + Reorder
       /\ \A i \in wire' : ledger'[lastRow] <= ledger'[i] + Reorder
    <3>1. \A i \in wire' : (i \in wire /\ ledger'[i] = ledger[i]) \/ ledger'[i] = now
      BY <1>0, <1>1, <1>2, Typed
    <3>2. ASSUME lastRow # NONE, lastSrc = "ws"
          PROVE \A i \in wire' : ledger'[lastRow] <= ledger'[i] + Reorder
      BY <1>0, <2>3, <3>1, <3>2, Typed DEF IInv, OrderInv
    <3>. QED
      BY <2>1, <2>3, <3>2 DEF IInv, OrderInv
  <2>7. (buffer # <<>> => lastEvent # NONE) /\ \A k \in DOMAIN buffer : ledger'[buffer[k]] <= lastEvent
    BY <2>1 DEF IInv, OrderInv
  <2>. QED
    BY <1>3, <2>4, <2>5, <2>6, <2>7 DEF OrderInv
<1>9. ReachInv'
  <2>1. \A i \in Exposed' \cup wire' : (i \in Exposed \cup wire /\ ledger'[i] = ledger[i]) \/ ledger'[i] = now
    BY <1>0, <1>1, <1>2, <1>4, Typed
  <2>2. LiveHolesAreCovered'
    BY <1>2, <1>3, <1>4 DEF IInv, ReachInv, LiveHolesAreCovered
  <2>3. \A s \in Slots : fill[s].st # "idle" =>
          \A i \in Exposed' \cup wire' : fill[s].hi <= ledger'[i] + Margin
    BY <1>0, <2>1, Typed DEF IInv, ClockInv, ReachInv
  <2>4. lastRow # NONE => \A i \in Exposed' \cup wire' : ledger'[lastRow] <= ledger'[i] + Margin
    <3>1. lastRow # NONE => /\ ledger'[lastRow] = ledger[lastRow] /\ ledger[lastRow] \in Nat
                            /\ ledger[lastRow] <= now
      BY <1>0, <1>1, Typed DEF IInv, ClockInv, Past
    <3>. QED
      BY <1>0, <2>1, <3>1, Typed DEF IInv, ReachInv
  <2>5. pending # NONE => \A i \in Exposed' : pending <= ledger'[i]
    BY <1>0, <1>1, <1>4, Typed DEF IInv, ClockInv, Times, ReachInv
  <2>. QED
    BY <1>3, <2>2, <2>3, <2>4, <2>5 DEF ReachInv
<1>. QED
  BY <1>5, <1>6, <1>7, <1>8, <1>9 DEF IInv

LEMMA DisconnectStep == ASSUME IInv, Disconnect PROVE IInv'
<1>. USE Params
<1>1. TypeOK /\ Trades' = Trades /\ Exposed' = Exposed
  BY DEF IInv, Disconnect, Exposed, Trades, Elements, Covered, Covers, InWindow
<1>2. TypeOK'
  <2>1. faultsLeft' \in Nat /\ wire' \subseteq Trades' /\ phase' \in Phases /\ dropped' \in Times
    BY <1>1 DEF Disconnect, Fault, TypeOK, Phases, Times
  <2>. QED
    BY <1>1, <2>1 DEF TypeOK, Disconnect, Elements
<1>3. ClockInv'
  BY <1>1, Typed DEF IInv, Disconnect, ClockInv, Past, Elements
<1>4. PhaseInv' /\ OrderInv' /\ ReachInv'
  BY <1>1, Typed DEF IInv, Disconnect, ClockInv, Past, PhaseInv, OrderInv, ReachInv, LiveHolesAreCovered
<1>. QED
  BY <1>2, <1>3, <1>4 DEF IInv

LEMMA StopStep == ASSUME IInv, Stop PROVE IInv'
<1>. USE Params
<1>1. TypeOK /\ Trades' = Trades /\ Exposed' = Exposed
  BY DEF IInv, Stop, Exposed, Trades, Elements, Covered, Covers, InWindow
<1>2. TypeOK'
  <2>1. faultsLeft' \in Nat /\ wire' \subseteq Trades' /\ phase' \in Phases
    BY <1>1 DEF Stop, Fault, TypeOK, Phases
  <2>. QED
    BY <1>1, <2>1 DEF TypeOK, Stop, Elements
<1>3. ClockInv' /\ PhaseInv' /\ OrderInv' /\ ReachInv'
  BY <1>1 DEF IInv, Stop, ClockInv, Past, PhaseInv, OrderInv, ReachInv, LiveHolesAreCovered
<1>. QED
  BY <1>2, <1>3 DEF IInv

\* A new process: nothing is connected, and the startup window, when there is
\* one, begins a margin before the newest row.
LEMMA StartStep == ASSUME IInv, Start PROVE IInv'
<1>. USE Params
<1>0. TypeOK
  BY DEF IInv
<1>1. /\ now' = now /\ ledger' = ledger /\ wire' = wire /\ stored' = stored /\ lastRow' = lastRow
      /\ lastSrc' = lastSrc /\ buffer' = buffer /\ fill' = fill
      /\ phase = "down" /\ phase' = "offline" /\ lastEvent' = NONE /\ dropped' = NONE
  BY DEF Start
<1>2. /\ wire = {} /\ buffer = <<>> /\ \A s \in Slots : fill[s] = Idle
  BY <1>1 DEF IInv, PhaseInv
<1>3. /\ faultsLeft' \in Nat /\ forfeited' \subseteq Trades /\ forfeited \subseteq forfeited'
  BY <1>0, Typed DEF Start, Fault, TypeOK
<1>4. \/ pending' = NONE
      \/ /\ lastRow # NONE /\ pending' = ledger[lastRow] - Margin /\ pending' \in Nat
         /\ pending' <= now
  <2>1. lastRow # NONE => /\ ledger[lastRow] \in Nat /\ Epoch <= ledger[lastRow]
                          /\ ledger[lastRow] <= now
    BY <1>0, Typed DEF IInv, ClockInv, Past
  <2>. QED
    BY SMTT(30), <1>0, <2>1 DEF Start, TypeOK
<1>5. Trades' = Trades /\ Exposed' \subseteq Exposed
  BY <1>1, <1>3 DEF Exposed, Trades, Covered, Covers, InWindow, Elements
<1>6. TypeOK'
  <2>1. phase' \in Phases /\ {lastEvent', dropped', pending'} \subseteq Times
    BY <1>1, <1>4 DEF Phases, Times
  <2>. QED
    BY <1>0, <1>1, <1>3, <1>5, <2>1 DEF TypeOK, Elements
<1>7. ClockInv'
  BY <1>1, <1>4, <1>5 DEF IInv, ClockInv, Past, Elements
<1>8. PhaseInv' /\ OrderInv'
  BY <1>1, <1>2, <1>5 DEF IInv, PhaseInv, OrderInv
<1>9. ReachInv'
  <2>1. pending' # NONE => \A i \in Exposed' : pending' <= ledger'[i]
    BY <1>0, <1>1, <1>4, <1>5, Typed DEF IInv, ReachInv
  <2>. QED
    BY <1>1, <1>2, <1>5, <2>1 DEF IInv, ReachInv, LiveHolesAreCovered, Idle
<1>. QED
  BY <1>6, <1>7, <1>8, <1>9 DEF IInv

\* The window a connection opens: when the process remembers where the hole
\* began, it starts no later than the oldest exposed trade.
LEMMA ResumeReaches ==
  ASSUME IInv, Reorder <= Margin, pending # NONE \/ dropped # NONE, phase \in {"offline", "broken"}
  PROVE  /\ Resume \in Nat
         /\ pending # NONE \/ lastEvent # NONE => \A i \in Exposed : Resume <= ledger[i]
<1>. USE Params
<1>0. TypeOK
  BY DEF IInv
<1>1. CASE pending # NONE
  BY <1>0, <1>1, Typed DEF IInv, ReachInv, Resume, Times
<1>2. CASE pending = NONE /\ lastEvent = NONE
  BY <1>0, <1>2, Typed DEF IInv, ClockInv, Past, Resume, Times
<1>3. CASE pending = NONE /\ lastEvent # NONE
  <2>1. Lesser(lastEvent, dropped) = lastEvent /\ lastEvent \in Nat /\ Epoch <= lastEvent
    BY <1>0, <1>3, Typed DEF IInv, PhaseInv, ClockInv, Past, Times, Lesser
  <2>2. Resume = lastEvent - Margin
    BY <1>3, <2>1 DEF Resume
  <2>3. \A i \in Exposed : lastEvent <= ledger[i] + Reorder /\ ledger[i] \in Nat
    BY <1>0, <1>3, Typed DEF IInv, OrderInv
  <2>. QED
    BY <1>3, <2>1, <2>2, <2>3
<1>. QED
  BY <1>1, <1>2, <1>3

\* A connection: its window, or a named cause, takes every hole.
LEMMA ConnectStep == ASSUME IInv, Reorder <= Margin, Connect PROVE IInv'
<1>. USE Params
<1>0. TypeOK
  BY DEF IInv
<1>1. /\ now' = now /\ ledger' = ledger /\ faultsLeft' = faultsLeft /\ stored' = stored
      /\ lastRow' = lastRow /\ lastSrc' = lastSrc /\ buffer' = buffer /\ lastEvent' = lastEvent
      /\ phase = "offline" /\ phase' = "online" /\ wire' = {}
      /\ dropped' \in {dropped, NONE} /\ pending' = NONE /\ Trades' = Trades
  BY DEF Connect, Trades
<1>. DEFINE task == [st |-> "fetching", lo |-> Resume, hi |-> now + Margin, rows |-> <<>>]
<1>2. CASE pending = NONE /\ dropped = NONE
  <2>1. fill' = fill /\ forfeited' = forfeited \cup Exposed
    BY <1>2 DEF Connect
  <2>2. Exposed' = {} /\ forfeited' \subseteq Trades
    BY <1>0, <1>1, <2>1, Typed DEF Exposed, Covered, Covers, InWindow, Elements, TypeOK
  <2>3. TypeOK'
    <3>1. phase' \in Phases /\ {lastEvent', dropped', pending'} \subseteq Times
      BY <1>0, <1>1 DEF TypeOK, Phases, Times
    <3>. QED
      BY <1>0, <1>1, <2>1, <2>2, <3>1 DEF TypeOK, Elements
  <2>4. ClockInv' /\ PhaseInv' /\ OrderInv' /\ ReachInv'
    BY <1>1, <2>1, <2>2 DEF IInv, ClockInv, Past, Elements, PhaseInv, OrderInv, ReachInv, LiveHolesAreCovered
  <2>. QED
    BY <2>3, <2>4 DEF IInv
<1>3. CASE pending # NONE \/ dropped # NONE
  <2>1. PICK s \in Slots : fill[s] = Idle /\ fill' = [fill EXCEPT ![s] = task]
    BY <1>3 DEF Connect
  <2>2. forfeited' = forfeited \cup Unanchored(Resume)
    BY <1>3 DEF Connect
  <2>3. /\ Resume \in Nat /\ task \in Tasks
        /\ pending # NONE \/ lastEvent # NONE => \A i \in Exposed : Resume <= ledger[i]
    <3>1. now + Margin \in Nat
      BY <1>0, Typed
    <3>. QED
      BY <1>1, <1>3, <3>1, ResumeReaches DEF Tasks
  <2>4. \A i \in Exposed : ledger[i] < now + Margin
    BY <1>0, Typed DEF IInv, ClockInv, Past
  <2>5. fill'[s] = task /\ \A t \in Slots \ {s} : fill'[t] = fill[t]
    BY <1>0, <2>1 DEF TypeOK
  <2>6. forfeited' \subseteq Trades
    BY <1>0, <2>2, Typed DEF TypeOK, Unanchored
  <2>7. \A i \in Exposed : i \in forfeited' \/ Covers(fill[s], i)'
    <3>1. \A i \in Exposed : Resume <= ledger[i] => Covers(fill[s], i)'
      BY <1>1, <2>4, <2>5 DEF Covers, InWindow
    <3>2. \A i \in Exposed : Resume <= ledger[i] \/ i \in forfeited'
      BY <1>0, <2>2, <2>3, Typed DEF Unanchored
    <3>. QED
      BY <3>1, <3>2
  <2>8. \A i \in Trades, t \in Slots : Covers(fill[t], i) => Covers(fill[t], i)'
    <3>1. \A i \in Trades : ~Covers(fill[s], i)
      BY <2>1 DEF Covers, Idle, Elements
    <3>. QED
      BY <1>1, <2>5, <3>1 DEF Covers, InWindow, Elements
  <2>9. Exposed' = {}
    <3>1. \A i \in Trades' : i \in Exposed' => i \in Exposed
      BY <1>1, <2>2, <2>8 DEF Exposed, Covered, Elements
    <3>2. \A i \in Exposed' : i \notin forfeited' /\ ~Covers(fill[s], i)' /\ i \in Trades'
      BY <2>1 DEF Exposed, Covered
    <3>. QED
      BY <1>1, <2>5, <2>7, <3>1, <3>2
  <2>. HIDE DEF task
  <2>10. TypeOK'
    <3>1. phase' \in Phases /\ {lastEvent', dropped', pending'} \subseteq Times
      BY <1>0, <1>1 DEF TypeOK, Phases, Times
    <3>2. fill' \in [Slots -> Tasks]
      BY <1>0, <2>1, <2>3 DEF TypeOK
    <3>3. \A t \in Slots : Elements(fill'[t].rows) \subseteq Trades'
      BY <1>0, <1>1, <2>5 DEF TypeOK, task, Elements
    <3>. QED
      BY <1>0, <1>1, <2>6, <3>1, <3>2, <3>3 DEF TypeOK, Elements
  <2>11. ClockInv'
    <3>1. \A t \in Slots : /\ fill'[t].hi <= now + Margin
                           /\ \A i \in Elements(fill'[t].rows) : ledger[i] < fill'[t].hi
      <4>1. task.hi = now + Margin /\ Elements(task.rows) = {} /\ now + Margin \in Nat
        BY <1>0, Typed DEF task, Elements
      <4>. QED
        BY <2>5, <4>1 DEF IInv, ClockInv
    <3>. QED
      BY <1>1, <3>1 DEF IInv, ClockInv, Past, Elements
  <2>12. PhaseInv' /\ OrderInv' /\ ReachInv'
    BY <1>1, <2>9 DEF IInv, PhaseInv, OrderInv, ReachInv, LiveHolesAreCovered
  <2>. QED
    BY <2>10, <2>11, <2>12 DEF IInv
<1>. QED
  BY <1>2, <1>3

\* A trade leaves the wire for the buffer: nothing behind it is older than the
\* reordering allows.
LEMMA ReceiveStep == ASSUME IInv, NEW i \in Trades, Receive(i) PROVE IInv'
<1>. USE Params
<1>0. TypeOK
  BY DEF IInv
<1>1. /\ now' = now /\ ledger' = ledger /\ faultsLeft' = faultsLeft /\ stored' = stored
      /\ lastRow' = lastRow /\ lastSrc' = lastSrc /\ phase' = phase /\ phase = "online"
      /\ dropped' = dropped /\ pending' = pending /\ fill' = fill /\ forfeited' = forfeited
      /\ i \in wire /\ wire' = wire \ {i} /\ Trades' = Trades
  BY DEF Receive, Trades
<1>. DEFINE n == Len(buffer) + 1
<1>2. /\ buffer' \in Seq(Nat) /\ Len(buffer) \in Nat
      /\ DOMAIN buffer = 1..Len(buffer) /\ DOMAIN buffer' = 1..n
      /\ buffer'[n] = i /\ \A k \in 1..Len(buffer) : buffer'[k] = buffer[k]
  <2>1. buffer \in Seq(Nat) /\ i \in Nat /\ buffer' = Append(buffer, i)
    BY <1>0 DEF TypeOK, Receive, Trades
  <2>. QED
    BY <2>1, AppendProperties
<1>3. Elements(buffer') = Elements(buffer) \cup {i}
  BY <1>2 DEF Elements
<1>. HIDE DEF n
<1>4. lastEvent' \in {lastEvent, ledger[i]} /\ lastEvent' # NONE /\ ledger[i] <= lastEvent'
      /\ (lastEvent # NONE => lastEvent <= lastEvent') /\ lastEvent' \in Nat
  BY <1>0, Typed DEF Receive, Times
<1>5. Exposed' = Exposed \ {i}
  <2>1. \A t \in Slots, j \in Trades : Covers(fill[t], j)' <=> Covers(fill[t], j)
    BY <1>1 DEF Covers, InWindow, Elements
  <2>. QED
    BY <1>1, <1>3, <2>1 DEF Exposed, Covered
<1>6. TypeOK'
  <2>1. {lastEvent', dropped', pending'} \subseteq Times
    BY <1>0, <1>1, <1>4 DEF TypeOK, Times
  <2>2. Elements(buffer') \subseteq Trades' /\ wire' \subseteq Trades'
    BY <1>0, <1>1, <1>3 DEF TypeOK
  <2>. QED
    BY <1>0, <1>1, <1>2, <2>1, <2>2 DEF TypeOK, Elements
<1>7. ClockInv' /\ PhaseInv'
  BY <1>0, <1>1, <1>4, Typed DEF IInv, ClockInv, PhaseInv, Past, Elements
<1>8. OrderInv'
  <2>1. lastEvent # NONE => lastEvent <= ledger[i] + Reorder
    BY <1>1 DEF IInv, OrderInv
  <2>2. \A k \in DOMAIN buffer : ledger[buffer[k]] <= lastEvent /\ ledger[buffer[k]] \in Nat /\ lastEvent \in Nat
    BY <1>0, Typed DEF IInv, OrderInv, Times
  <2>3. \A k \in DOMAIN buffer' : ledger[buffer'[k]] <= lastEvent'
    BY SMTT(30), <1>0, <1>2, <1>4, <2>2, Typed DEF n
  <2>4. \A j, k \in DOMAIN buffer' : j < k => ledger[buffer'[j]] <= ledger[buffer'[k]] + Reorder
    <3>. SUFFICES ASSUME NEW j \in DOMAIN buffer', NEW k \in DOMAIN buffer', j < k
                  PROVE ledger[buffer'[j]] <= ledger[buffer'[k]] + Reorder
      OBVIOUS
    <3>1. j \in DOMAIN buffer /\ buffer'[j] = buffer[j]
      BY <1>2 DEF n
    <3>2. CASE k = n
      BY SMTT(30), <1>2, <2>1, <2>2, <3>1, <3>2, Typed, <1>0
    <3>3. CASE k # n
      <4>1. k \in DOMAIN buffer /\ buffer'[k] = buffer[k]
        BY <1>2, <3>3 DEF n
      <4>. QED
        BY <3>1, <4>1 DEF IInv, OrderInv
    <3>. QED
      BY <3>2, <3>3
  <2>5. \A j \in Exposed' \cup wire' : lastEvent' <= ledger[j] + Reorder
    <3>1. Exposed \subseteq wire
      BY <1>1 DEF IInv, ReachInv, LiveHolesAreCovered
    <3>2. \A j \in wire : ledger[i] <= ledger[j] + Reorder
      BY DEF Receive
    <3>3. \A j \in wire : lastEvent # NONE => lastEvent <= ledger[j] + Reorder
      BY DEF IInv, OrderInv
    <3>. QED
      BY <1>1, <1>4, <1>5, <3>1, <3>2, <3>3
  <2>6. \A k \in DOMAIN buffer' : lastRow # NONE /\ lastSrc = "ws" =>
          buffer'[k] \in stored \/ ledger[lastRow] <= ledger[buffer'[k]] + Reorder
    <3>1. lastRow # NONE /\ lastSrc = "ws" => ledger[lastRow] <= ledger[i] + Reorder
      BY <1>1 DEF IInv, OrderInv
    <3>. QED
      BY <1>2, <3>1 DEF IInv, OrderInv, n
  <2>7. lastRow # NONE /\ lastSrc = "ws" => \A j \in wire' : ledger[lastRow] <= ledger[j] + Reorder
    BY <1>1 DEF IInv, OrderInv
  <2>. QED
    BY <1>1, <1>4, <2>3, <2>4, <2>5, <2>6, <2>7 DEF OrderInv
<1>9. ReachInv'
  BY <1>1, <1>5 DEF IInv, ReachInv, LiveHolesAreCovered
<1>. QED
  BY <1>6, <1>7, <1>8, <1>9 DEF IInv

\* What INSERT IGNORE of rows in `applied' does to the newest row.
LEMMA NewestRow ==
  ASSUME NEW rows, NEW applied, NEW src, InsertIgnore(rows, applied, src)
  PROVE  /\ stored' = stored \cup {rows[k] : k \in applied}
         /\ \/ lastRow' = lastRow /\ lastSrc' = lastSrc
            \/ \E m \in applied : lastRow' = rows[m] /\ lastSrc' = src
BY DEF InsertIgnore

\* A flush writes a prefix of the buffer and removes a prefix of it; a row it
\* removes without writing is forfeited.
LEMMA FlushPrefix ==
  ASSUME TypeOK, NEW o, Flush(o)
  PROVE  /\ o.applied \in 0..Len(buffer) /\ o.popped \in 0..Len(buffer)
         /\ buffer \in Seq(Nat) /\ Len(buffer) \in Nat /\ DOMAIN buffer = 1..Len(buffer)
         /\ buffer' \in Seq(Nat) /\ DOMAIN buffer' = 1..(Len(buffer) - o.popped)
         /\ \A k \in DOMAIN buffer' : buffer'[k] = buffer[k + o.popped]
         /\ stored' = stored \cup {buffer[k] : k \in 1..o.applied}
         /\ forfeited' = forfeited \cup {buffer[k] : k \in (o.applied + 1)..o.popped}
         /\ faultsLeft' \in Nat
         /\ \/ lastRow' = lastRow /\ lastSrc' = lastSrc
            \/ \E m \in 1..o.applied : lastRow' = buffer[m] /\ lastSrc' = "ws"
<1>. USE Params
<1>1. buffer \in Seq(Nat) /\ Len(buffer) \in Nat /\ DOMAIN buffer = 1..Len(buffer)
  BY DEF TypeOK
<1>2. o.applied \in 0..Len(buffer) /\ o.popped \in 0..Len(buffer)
  <2>1. CASE o = CleanFlush
    <3>1. Quota \in 0..Len(buffer)
      <4>1. BatchSize * MaxBatches \in Nat
        OBVIOUS
      <4>. QED
        BY <1>1, <4>1 DEF Quota, Lesser
    <3>. QED
      BY <2>1, <3>1 DEF CleanFlush
  <2>2. CASE o \in FailedFlushes
    BY <2>2 DEF FailedFlushes
  <2>. QED
    BY <2>1, <2>2 DEF Flush
<1>3. /\ buffer' \in Seq(Nat) /\ DOMAIN buffer' = 1..(Len(buffer) - o.popped)
      /\ \A k \in DOMAIN buffer' : buffer'[k] = buffer[k + o.popped]
  <2>1. buffer' = SubSeq(buffer, o.popped + 1, Len(buffer))
    BY DEF Flush
  <2>. DEFINE p == o.popped + 1
              L == Len(buffer)
  <2>2. p \in Int /\ L \in Int /\ \A k \in p..L : buffer[k] \in Nat
    BY <1>1, <1>2
  <2>3. /\ SubSeq(buffer, p, L) \in Seq(Nat)
        /\ Len(SubSeq(buffer, p, L)) = IF p <= L THEN L - p + 1 ELSE 0
        /\ \A k \in 1..(L - p + 1) : SubSeq(buffer, p, L)[k] = buffer[p + k - 1]
    <3>. HIDE DEF p, L
    <3>. QED
      BY <2>2, SubSeqProperties
  <2>4. Len(buffer') = L - o.popped /\ buffer' \in Seq(Nat)
    BY SMTT(30), <1>1, <1>2, <2>1, <2>3
  <2>5. DOMAIN buffer' = 1..(L - o.popped)
    BY <2>4
  <2>6. \A k \in 1..(L - o.popped) : buffer'[k] = buffer[k + o.popped]
    <3>. SUFFICES ASSUME NEW k \in 1..(L - o.popped) PROVE buffer'[k] = buffer[k + o.popped]
      OBVIOUS
    <3>1. k \in 1..(L - p + 1) /\ p + k - 1 = k + o.popped
      BY <1>1, <1>2
    <3>2. buffer'[k] = buffer[p + k - 1]
      BY <2>1, <2>3, <3>1, Zenon
    <3>. HIDE DEF p, L
    <3>. QED
      BY <3>1, <3>2
  <2>. QED
    BY <2>4, <2>5, <2>6
<1>4. faultsLeft' \in Nat
  BY DEF Flush, Fault, TypeOK
<1>5. InsertIgnore(buffer, 1..o.applied, "ws")
      /\ forfeited' = forfeited \cup {buffer[k] : k \in (o.applied + 1)..o.popped}
  BY DEF Flush
<1>. QED
  BY <1>1, <1>2, <1>3, <1>4, <1>5, NewestRow

\* Every step that flushes: the periodic flush, the one before a retry and the
\* ones at the end.
LEMMA FlushStep ==
  ASSUME IInv, Reorder <= Margin, NEW o, Flush(o),
         UNCHANGED <<now, ledger, lastEvent, pending, fill>>,
         phase # "down", phase' \in Phases \ {"down"},
         phase' = "online" => phase = "online" /\ wire' = wire,
         phase' # "online" => wire' = {},
         phase' \in {"offline", "broken"} =>
           dropped' = now \/ (dropped' = dropped /\ phase \in {"offline", "broken"}),
         dropped' \in {dropped, now}
  PROVE  IInv'
<1>. USE Params
<1>0. TypeOK
  BY DEF IInv
<1>1. /\ now' = now /\ ledger' = ledger /\ lastEvent' = lastEvent /\ pending' = pending
      /\ fill' = fill /\ Trades' = Trades /\ wire' \subseteq wire
  BY DEF Trades
<1>2. /\ o.applied \in 0..Len(buffer) /\ o.popped \in 0..Len(buffer)
      /\ Len(buffer) \in Nat /\ DOMAIN buffer = 1..Len(buffer)
      /\ buffer' \in Seq(Nat) /\ DOMAIN buffer' = 1..(Len(buffer) - o.popped)
      /\ \A k \in DOMAIN buffer' : buffer'[k] = buffer[k + o.popped]
      /\ stored' = stored \cup {buffer[k] : k \in 1..o.applied}
      /\ forfeited' = forfeited \cup {buffer[k] : k \in (o.applied + 1)..o.popped}
      /\ faultsLeft' \in Nat
  BY <1>0, FlushPrefix
<1>3. \A k \in DOMAIN buffer' : k + o.popped \in DOMAIN buffer /\ k \in Nat
  BY <1>2
<1>4. \/ lastRow' = lastRow /\ lastSrc' = lastSrc
      \/ \E m \in 1..o.applied : lastRow' = buffer[m] /\ lastSrc' = "ws"
  BY <1>0, FlushPrefix
<1>5. /\ stored' \subseteq Trades /\ forfeited' \subseteq Trades
      /\ lastRow' \in stored' \cup {NONE} /\ lastSrc' \in {"ws", "gapfill"}
      /\ \A k \in DOMAIN buffer' : buffer'[k] \in Trades
      /\ stored \subseteq stored'
  <2>1. \A k \in 1..o.applied : buffer[k] \in Trades /\ buffer[k] \in stored'
    BY SMTT(30), <1>0, <1>2, Typed
  <2>2. \A k \in (o.applied + 1)..o.popped : buffer[k] \in Trades
    BY <1>0, <1>2, Typed
  <2>3. stored \subseteq Trades /\ forfeited \subseteq Trades /\ lastRow \in stored \cup {NONE}
        /\ lastSrc \in {"ws", "gapfill"}
    BY <1>0 DEF TypeOK
  <2>4. \A k \in DOMAIN buffer' : buffer'[k] \in Trades
    BY <1>0, <1>2, <1>3, Typed
  <2>. QED
    BY <1>2, <1>4, <2>1, <2>2, <2>3, <2>4
<1>6. \A k \in DOMAIN buffer : k > o.popped => buffer[k] \in Elements(buffer')
  <2>. SUFFICES ASSUME NEW k \in DOMAIN buffer, k > o.popped
                PROVE buffer[k] \in Elements(buffer')
    OBVIOUS
  <2>1. k - o.popped \in DOMAIN buffer' /\ (k - o.popped) + o.popped = k
    BY SMTT(30), <1>2
  <2>. QED
    BY <1>2, <2>1 DEF Elements
<1>7. Exposed' \subseteq Exposed
  <2>1. \A k \in DOMAIN buffer : buffer[k] \in stored' \cup forfeited' \cup Elements(buffer')
    <3>. SUFFICES ASSUME NEW k \in DOMAIN buffer, k <= o.popped
                  PROVE buffer[k] \in stored' \cup forfeited'
      BY <1>2, <1>6
    <3>. QED
      BY <1>2
  <2>2. Covered' = Covered
    BY <1>1 DEF Covered, Covers, InWindow, Elements
  <2>3. \A i \in Trades : i \in Elements(buffer) => i \in stored' \cup forfeited' \cup Elements(buffer')
    BY <2>1 DEF Elements
  <2>. QED
    BY <1>1, <1>2, <2>2, <2>3 DEF Exposed
<1>8. TypeOK'
  <2>1. {lastEvent', dropped', pending'} \subseteq Times
    BY <1>0, <1>1 DEF TypeOK, Times
  <2>2. Elements(buffer') \subseteq Trades' /\ wire' \subseteq Trades' /\ phase' \in Phases
    BY <1>0, <1>1, <1>5 DEF TypeOK, Elements
  <2>. QED
    BY <1>0, <1>1, <1>2, <1>5, <2>1, <2>2 DEF TypeOK, Elements
<1>9. ClockInv'
  BY <1>0, <1>1, Typed DEF IInv, ClockInv, Past, Elements
<1>10. PhaseInv'
  BY <1>0, <1>1, Typed DEF IInv, ClockInv, Past, PhaseInv, Times
<1>11. \A k \in DOMAIN buffer : /\ ledger[buffer[k]] <= lastEvent
                                /\ ledger[buffer[k]] \in Nat /\ lastEvent \in Nat
  <2>1. buffer # <<>> => lastEvent \in Nat
    BY <1>0, Typed DEF IInv, OrderInv, Times
  <2>. QED
    BY <1>0, <2>1, Typed DEF IInv, OrderInv
<1>12. \A j, k \in DOMAIN buffer : j < k => ledger[buffer[j]] <= ledger[buffer[k]] + Reorder
  BY DEF IInv, OrderInv
<1>13. OrderInv'
  <2>1. buffer' # <<>> => lastEvent # NONE
    <3>1. buffer' # <<>> => 1 \in DOMAIN buffer'
      BY <1>2
    <3>. QED
      BY <1>3, <1>11, <3>1
  <2>2. \A k \in DOMAIN buffer' : ledger[buffer'[k]] <= lastEvent
    BY <1>2, <1>3, <1>11
  <2>3. \A j, k \in DOMAIN buffer' : j < k => ledger[buffer'[j]] <= ledger[buffer'[k]] + Reorder
    <3>. SUFFICES ASSUME NEW j \in DOMAIN buffer', NEW k \in DOMAIN buffer', j < k
                  PROVE ledger[buffer'[j]] <= ledger[buffer'[k]] + Reorder
      OBVIOUS
    <3>1. /\ j + o.popped \in DOMAIN buffer /\ k + o.popped \in DOMAIN buffer
          /\ j + o.popped < k + o.popped
      BY <1>2, <1>3
    <3>2. buffer'[j] = buffer[j + o.popped] /\ buffer'[k] = buffer[k + o.popped]
      BY <1>2
    <3>. QED
      BY <1>12, <3>1, <3>2
  <2>4. lastEvent # NONE => \A i \in Exposed' \cup wire' : lastEvent <= ledger[i] + Reorder
    BY <1>1, <1>7 DEF IInv, OrderInv
  <2>5. CASE lastRow' = lastRow /\ lastSrc' = lastSrc
    <3>1. lastRow # NONE /\ lastSrc = "ws" =>
           /\ \A k \in DOMAIN buffer' :
                buffer'[k] \in stored' \/ ledger[lastRow] <= ledger[buffer'[k]] + Reorder
           /\ \A i \in wire' : ledger[lastRow] <= ledger[i] + Reorder
      BY <1>1, <1>2, <1>3, <1>5 DEF IInv, OrderInv
    <3>. QED
      BY <1>1, <2>1, <2>2, <2>3, <2>4, <2>5, <3>1 DEF OrderInv
  <2>6. ASSUME NEW m \in 1..o.applied, lastRow' = buffer[m], lastSrc' = "ws"
        PROVE  OrderInv'
    <3>1. m \in DOMAIN buffer
      BY <1>2
    <3>2. \A i \in wire' : ledger[lastRow'] <= ledger[i] + Reorder
      <4>1. \A i \in wire' : lastEvent <= ledger[i] + Reorder /\ ledger[i] \in Nat
        BY <1>0, <1>1, <1>11, <3>1, Typed DEF IInv, OrderInv
      <4>. QED
        BY <1>11, <2>6, <3>1, <4>1
    <3>3. \A k \in DOMAIN buffer' :
            buffer'[k] \in stored' \/ ledger[lastRow'] <= ledger[buffer'[k]] + Reorder
      <4>. SUFFICES ASSUME NEW k \in DOMAIN buffer', buffer'[k] \notin stored'
                    PROVE ledger[lastRow'] <= ledger[buffer'[k]] + Reorder
        OBVIOUS
      <4>1. k + o.popped \in DOMAIN buffer /\ m < k + o.popped
        BY <1>2, <1>3
      <4>. QED
        BY <1>2, <1>12, <2>6, <3>1, <4>1
    <3>. QED
      BY <1>1, <2>1, <2>2, <2>3, <2>4, <3>2, <3>3 DEF OrderInv
  <2>. QED
    BY <1>4, <2>5, <2>6
<1>14. ReachInv'
  <2>1. lastRow' # NONE => \A i \in Exposed' \cup wire' : ledger[lastRow'] <= ledger[i] + Margin
    <3>1. CASE lastRow' = lastRow
      BY <1>1, <1>7, <3>1 DEF IInv, ReachInv
    <3>2. ASSUME NEW m \in 1..o.applied, lastRow' = buffer[m]
          PROVE  \A i \in Exposed' \cup wire' : ledger[lastRow'] <= ledger[i] + Margin
      <4>1. m \in DOMAIN buffer
        BY <1>2
      <4>2. \A i \in Exposed' \cup wire' : lastEvent <= ledger[i] + Reorder /\ ledger[i] \in Nat
        BY <1>0, <1>1, <1>7, <1>11, <4>1, Typed DEF IInv, OrderInv
      <4>. QED
        BY <1>11, <3>2, <4>1, <4>2
    <3>. QED
      BY <1>4, <3>1, <3>2
  <2>. QED
    BY <1>1, <1>7, <2>1 DEF IInv, ReachInv, LiveHolesAreCovered
<1>. QED
  BY <1>8, <1>9, <1>10, <1>13, <1>14 DEF IInv

LEMMA FlushSteps ==
  ASSUME IInv, Reorder <= Margin, FlushTick \/ RetryFlush \/ CloseFlush
  PROVE  IInv'
<1>1. CASE FlushTick
  <2>1. PICK o \in FlushOutcomes :
          /\ Flush(o)
          /\ IF o.raised THEN /\ phase' = "broken" /\ wire' = {} /\ dropped' = now
                         ELSE UNCHANGED <<phase, wire, dropped>>
    BY <1>1 DEF FlushTick
  <2>2. phase = "online" /\ UNCHANGED <<now, ledger, lastEvent, pending, fill>>
    BY <1>1 DEF FlushTick
  <2>. QED
    BY <2>1, <2>2, FlushStep DEF Phases
<1>2. CASE RetryFlush
  <2>1. PICK o \in FlushOutcomes : Flush(o) /\ phase' = IF o.raised THEN "closing" ELSE "offline"
    BY <1>2 DEF RetryFlush
  <2>2. phase = "broken" /\ UNCHANGED <<now, ledger, wire, lastEvent, dropped, pending, fill>>
    BY <1>2 DEF RetryFlush
  <2>. QED
    BY <2>1, <2>2, FlushStep DEF Phases, IInv, PhaseInv
<1>3. CASE CloseFlush
  <2>1. PICK o \in FlushOutcomes : Flush(o) /\ phase' = IF o.raised THEN "failed" ELSE "closing"
    BY <1>3 DEF CloseFlush
  <2>2. phase = "closing" /\ UNCHANGED <<now, ledger, wire, lastEvent, dropped, pending, fill>>
    BY <1>3 DEF CloseFlush
  <2>. QED
    BY <2>1, <2>2, FlushStep DEF Phases, IInv, PhaseInv
<1>. QED
  BY <1>1, <1>2, <1>3

\* A repair task's answer: the part of its window it did not read is given up,
\* the rest stays covered by the rows it is about to insert.
LEMMA FetchStep == ASSUME IInv, NEW s \in Slots, NEW cut, Fetch(s, cut) PROVE IInv'
<1>. USE Params
<1>0. TypeOK
  BY DEF IInv
<1>. DEFINE f == fill[s]
            missed == {i \in Trades : InWindow(f, i) /\ ledger[i] < cut}
            rows == {i \in Trades : InWindow(f, i) /\ ledger[i] >= cut}
<1>1. /\ now' = now /\ ledger' = ledger /\ wire' = wire /\ stored' = stored
      /\ lastRow' = lastRow /\ lastSrc' = lastSrc /\ phase' = phase /\ buffer' = buffer
      /\ lastEvent' = lastEvent /\ dropped' = dropped /\ pending' = pending /\ Trades' = Trades
      /\ f.st = "fetching" /\ phase \in {"offline", "online"}
      /\ forfeited' = forfeited \cup (missed \ (stored \cup Elements(buffer) \cup wire))
      /\ cut \in Int /\ faultsLeft' \in Nat
  <2>1. /\ ledger' = ledger /\ f.st = "fetching"
        /\ forfeited' = forfeited \cup (missed \ (stored \cup Elements(buffer) \cup wire))
        /\ now' = now /\ wire' = wire /\ stored' = stored
        /\ lastRow' = lastRow /\ lastSrc' = lastSrc /\ phase' = phase /\ buffer' = buffer
        /\ lastEvent' = lastEvent /\ dropped' = dropped /\ pending' = pending
        /\ phase \in {"offline", "online"}
    BY Zenon DEF Fetch
  <2>2. \/ cut = f.lo /\ faultsLeft' = faultsLeft
        \/ cut \in (f.lo + 1)..f.hi /\ faultsLeft' = faultsLeft - 1 /\ faultsLeft > 0
    BY DEF Fetch, Fault
  <2>3. f.lo \in Nat /\ f.hi \in Nat /\ faultsLeft \in Nat
    BY <1>0, Typed
  <2>4. cut \in Int /\ faultsLeft' \in Nat
    BY <2>2, <2>3
  <2>5. Trades' = Trades
    BY <2>1 DEF Trades
  <2>. QED
    BY <2>1, <2>4, <2>5
<1>2. PICK r \in [1..Cardinality(rows) -> rows] :
        /\ Elements(r) = rows
        /\ fill' = [fill EXCEPT ![s] = IF rows = {} THEN Idle
                                       ELSE [f EXCEPT !.st = "fetched", !.rows = r]]
  BY DEF Fetch
<1>3. r \in Seq(Nat)
  <2>1. ledger \in Seq(Nat) /\ rows \subseteq 1..Len(ledger) /\ Len(ledger) \in Nat
    BY <1>0 DEF TypeOK, Trades
  <2>2. IsFiniteSet(rows)
    <3>1. IsFiniteSet(1..Len(ledger))
      BY <2>1, FS_Interval
    <3>. QED
      BY <2>1, <3>1, FS_Subset
  <2>3. Cardinality(rows) \in Nat
    BY <2>2, FS_CardinalityType
  <2>4. r \in [1..Cardinality(rows) -> Nat]
    BY <2>1
  <2>5. DOMAIN r = 1..Cardinality(rows) /\ \A k \in 1..Cardinality(rows) : r[k] \in Nat
    BY <2>4
  <2>. HIDE DEF rows
  <2>. QED
    BY <2>3, <2>4
<1>. DEFINE g == [f EXCEPT !.st = "fetched", !.rows = r]
<1>4. f \in Tasks /\ g \in Tasks /\ g.st = "fetched" /\ g.rows = r /\ g.lo = f.lo /\ g.hi = f.hi
  BY <1>0, <1>3, Typed DEF Tasks
<1>5. /\ fill'[s] \in {Idle, g} /\ (rows # {} => fill'[s] = g)
      /\ \A t \in Slots \ {s} : fill'[t] = fill[t]
      /\ fill' \in [Slots -> Tasks]
  <2>1. Idle \in Tasks
    BY DEF Idle, Tasks
  <2>. QED
    BY <1>0, <1>2, <1>4, <2>1 DEF TypeOK
<1>6. missed \subseteq Trades /\ rows \subseteq Trades
      /\ (\A i \in rows : ledger[i] < f.hi) /\ (\A i \in Trades : InWindow(f, i) => i \in missed \cup rows)
  BY <1>0, <1>1, Typed DEF InWindow
<1>. HIDE DEF f, missed, rows, g
<1>7. Exposed' \subseteq Exposed \cup wire
  <2>1. \A i \in Trades : Covers(fill[s], i) => i \in missed \/ Covers(fill[s], i)'
    <3>1. \A i \in Trades : Covers(fill[s], i) => i \in missed \cup rows
      BY <1>1, <1>6 DEF Covers, f
    <3>2. \A i \in rows : fill'[s] = g /\ i \in Elements(fill'[s].rows)
      BY <1>2, <1>4, <1>5
    <3>. QED
      BY <1>4, <3>1, <3>2 DEF Covers
  <2>2. \A t \in Slots \ {s}, i \in Trades : Covers(fill[t], i) => Covers(fill[t], i)'
    BY <1>1, <1>5 DEF Covers, InWindow
  <2>3. \A i \in Covered : i \in missed \cup Covered'
    BY <1>1, <2>1, <2>2 DEF Covered
  <2>. QED
    BY <1>1, <2>3 DEF Exposed, Elements
<1>8. TypeOK'
  <2>1. \A t \in Slots : Elements(fill'[t].rows) \subseteq Trades'
    <3>1. Elements(g.rows) \subseteq Trades /\ Elements(Idle.rows) \subseteq Trades
      BY <1>2, <1>4, <1>6 DEF Idle, Elements
    <3>. QED
      BY <1>0, <1>1, <1>5, <3>1 DEF TypeOK
  <2>2. forfeited' \subseteq Trades'
    BY <1>0, <1>1, <1>6 DEF TypeOK
  <2>. QED
    BY <1>0, <1>1, <1>5, <2>1, <2>2 DEF TypeOK, Elements
<1>9. ClockInv'
  <2>1. \A t \in Slots : /\ fill'[t].hi <= now + Margin
                         /\ \A i \in Elements(fill'[t].rows) : ledger[i] < fill'[t].hi
    <3>1. g.hi <= now + Margin /\ \A i \in Elements(g.rows) : ledger[i] < g.hi
      BY <1>2, <1>4, <1>6 DEF IInv, ClockInv, f
    <3>2. Idle.hi <= now + Margin /\ Elements(Idle.rows) = {}
      BY <1>0, Typed DEF Idle, Elements
    <3>. QED
      BY <1>5, <3>1, <3>2 DEF IInv, ClockInv
  <2>. QED
    BY <1>1, <2>1 DEF IInv, ClockInv, Past, Elements
<1>10. PhaseInv' /\ OrderInv'
  BY <1>1, <1>7 DEF IInv, PhaseInv, OrderInv
<1>11. ReachInv'
  <2>1. \A t \in Slots : fill'[t].st # "idle" => fill[t].st # "idle" /\ fill'[t].hi = fill[t].hi
    BY <1>1, <1>4, <1>5 DEF Idle, f
  <2>2. \A t \in Slots : fill'[t].st # "idle" =>
          \A i \in Exposed' \cup wire' : fill'[t].hi <= ledger[i] + Margin
    BY <1>1, <1>7, <2>1 DEF IInv, ReachInv
  <2>3. pending # NONE => \A i \in Exposed' : pending <= ledger[i]
    BY <1>1, <1>7 DEF IInv, ReachInv, PhaseInv
  <2>. QED
    BY <1>1, <1>7, <2>2, <2>3 DEF IInv, ReachInv, LiveHolesAreCovered
<1>. QED
  BY <1>8, <1>9, <1>10, <1>11 DEF IInv

\* A repair task's insertion: its rows are stored or given up, and the newest
\* row, if it is one of them, is inside the window.
LEMMA DirectStep == ASSUME IInv, NEW s \in Slots, NEW skipped, Direct(s, skipped) PROVE IInv'
<1>. USE Params
<1>0. TypeOK
  BY DEF IInv
<1>. DEFINE rows == fill[s].rows
            applied == {k \in DOMAIN rows : (k - 1) \div BatchSize \notin skipped}
<1>1. /\ now' = now /\ ledger' = ledger /\ wire' = wire /\ phase' = phase /\ buffer' = buffer
      /\ lastEvent' = lastEvent /\ dropped' = dropped /\ pending' = pending
      /\ fill[s].st = "fetched" /\ phase \in {"offline", "online"}
      /\ fill' = [fill EXCEPT ![s] = Idle]
      /\ forfeited' = forfeited \cup (Elements(rows) \ (stored' \cup Elements(buffer) \cup wire))
      /\ InsertIgnore(rows, applied, "gapfill")
  BY DEF Direct
<1>2. Trades' = Trades /\ faultsLeft' \in Nat
  <2>1. faultsLeft' = faultsLeft \/ (faultsLeft' = faultsLeft - 1 /\ faultsLeft > 0)
    BY DEF Direct, Fault
  <2>. QED
    BY <1>0, <1>1, <2>1, Typed DEF Trades
<1>3. applied \subseteq DOMAIN rows
  OBVIOUS
<1>. HIDE DEF applied
<1>4. /\ stored' = stored \cup {rows[k] : k \in applied}
      /\ \/ lastRow' = lastRow /\ lastSrc' = lastSrc
         \/ \E m \in applied : lastRow' = rows[m] /\ lastSrc' = "gapfill"
  BY <1>1, NewestRow
<1>5. \A k \in DOMAIN rows : rows[k] \in Elements(rows)
  BY DEF Elements
<1>6. Elements(rows) \subseteq Trades /\ \A i \in Elements(rows) : ledger[i] < fill[s].hi
  BY <1>0, Typed DEF IInv, ClockInv
<1>7. fill'[s] = Idle /\ (\A t \in Slots \ {s} : fill'[t] = fill[t]) /\ fill' \in [Slots -> Tasks]
  <2>1. Idle \in Tasks
    BY DEF Idle, Tasks
  <2>. QED
    BY <1>0, <1>1, <2>1 DEF TypeOK
<1>8. Exposed' \subseteq Exposed \cup wire
  <2>1. \A i \in Trades : Covers(fill[s], i) => i \in Elements(rows)
    BY <1>1 DEF Covers
  <2>2. \A t \in Slots \ {s}, i \in Trades : Covers(fill[t], i) => Covers(fill[t], i)'
    BY <1>1, <1>7 DEF Covers, InWindow, Elements
  <2>3. \A i \in Covered : i \in Elements(rows) \cup Covered'
    BY <1>2, <2>1, <2>2 DEF Covered
  <2>. QED
    BY <1>1, <1>2, <1>4, <2>3 DEF Exposed, Elements
<1>. HIDE DEF rows
<1>9. TypeOK'
  <2>1. stored' \subseteq Trades' /\ lastRow' \in stored' \cup {NONE} /\ lastSrc' \in {"ws", "gapfill"}
    BY <1>0, <1>2, <1>3, <1>4, <1>5, <1>6 DEF TypeOK
  <2>2. forfeited' \subseteq Trades'
    BY <1>0, <1>1, <1>2, <1>6 DEF TypeOK
  <2>3. \A t \in Slots : Elements(fill'[t].rows) \subseteq Trades'
    <3>1. Elements(Idle.rows) \subseteq Trades
      BY DEF Idle, Elements
    <3>. QED
      BY <1>0, <1>2, <1>7, <3>1 DEF TypeOK
  <2>. QED
    BY <1>0, <1>1, <1>2, <1>7, <2>1, <2>2, <2>3 DEF TypeOK, Elements
<1>10. ClockInv'
  <2>1. Idle.hi <= now + Margin /\ Elements(Idle.rows) = {}
    BY <1>0, Typed DEF Idle, Elements
  <2>2. \A t \in Slots : /\ fill'[t].hi <= now + Margin
                         /\ \A i \in Elements(fill'[t].rows) : ledger[i] < fill'[t].hi
    BY <1>7, <2>1 DEF IInv, ClockInv
  <2>. QED
    BY <1>1, <1>2, <2>2 DEF IInv, ClockInv, Past, Elements
<1>11. PhaseInv'
  BY <1>1 DEF IInv, PhaseInv
<1>12. OrderInv'
  BY <1>1, <1>4, <1>8 DEF IInv, OrderInv
<1>13. ReachInv'
  <2>1. \A t \in Slots : fill'[t].st # "idle" => fill[t].st # "idle" /\ fill'[t].hi = fill[t].hi
    BY <1>7 DEF Idle
  <2>2. \A t \in Slots : fill'[t].st # "idle" =>
          \A i \in Exposed' \cup wire' : fill'[t].hi <= ledger[i] + Margin
    BY <1>1, <1>8, <2>1 DEF IInv, ReachInv
  <2>3. lastRow' # NONE => \A i \in Exposed' \cup wire' : ledger[lastRow'] <= ledger[i] + Margin
    <3>1. CASE lastRow' = lastRow
      BY <1>1, <1>8, <3>1 DEF IInv, ReachInv
    <3>2. ASSUME NEW m \in applied, lastRow' = rows[m]
          PROVE  \A i \in Exposed' \cup wire' : ledger[lastRow'] <= ledger[i] + Margin
      <4>1. ledger[lastRow'] < fill[s].hi /\ ledger[lastRow'] \in Nat /\ fill[s].hi \in Nat
        BY <1>0, <1>3, <1>5, <1>6, <3>2, Typed
      <4>2. \A i \in Exposed' \cup wire' : fill[s].hi <= ledger[i] + Margin /\ ledger[i] \in Nat
        BY <1>0, <1>1, <1>8, Typed DEF IInv, ReachInv
      <4>. QED
        BY <4>1, <4>2
    <3>. QED
      BY <1>4, <3>1, <3>2
  <2>4. pending # NONE => \A i \in Exposed' : pending <= ledger[i]
    BY <1>1, <1>8 DEF IInv, ReachInv, PhaseInv
  <2>. QED
    BY <1>1, <1>8, <2>2, <2>3, <2>4 DEF IInv, ReachInv, LiveHolesAreCovered
<1>. QED
  BY <1>9, <1>10, <1>11, <1>12, <1>13 DEF IInv

\* The process ends: what is in its memory is lost, and every part of it that
\* the next start would not look for is given up.
LEMMA ExitStep ==
  ASSUME IInv, Reorder <= Margin, Kill \/ Closed
  PROVE  IInv'
<1>. USE Params
<1>0. TypeOK
  BY DEF IInv
<1>1. /\ now' = now /\ ledger' = ledger /\ stored' = stored /\ lastRow' = lastRow /\ lastSrc' = lastSrc
      /\ phase' = "down" /\ wire' = {} /\ buffer' = <<>> /\ fill' = [s \in Slots |-> Idle]
      /\ lastEvent' = NONE /\ dropped' = NONE /\ pending' = NONE
      /\ forfeited' = forfeited \cup Unfinished \cup Stranded
      /\ (faultsLeft' = faultsLeft \/ (faultsLeft' = faultsLeft - 1 /\ faultsLeft > 0))
  BY DEF Kill, Closed, Exit, Fault
<1>2. Trades' = Trades /\ \A s \in Slots : fill'[s] = Idle
  BY <1>1 DEF Trades
<1>3. Unfinished \subseteq Trades /\ Stranded \subseteq Trades
  BY <1>0 DEF Unfinished, Covered, Stranded, TypeOK
<1>4. \A i \in Exposed' : /\ i \in Trades /\ i \notin stored /\ i \notin Stranded
                          /\ i \in Exposed \/ i \in Elements(buffer)
  BY <1>1, <1>2 DEF Exposed, Unfinished
<1>5. TypeOK'
  <2>1. Idle \in Tasks /\ Elements(Idle.rows) = {}
    BY DEF Idle, Tasks, Elements
  <2>2. fill' \in [Slots -> Tasks] /\ \A s \in Slots : Elements(fill'[s].rows) \subseteq Trades'
    BY <1>1, <1>2, <2>1
  <2>3. faultsLeft' \in Nat /\ forfeited' \subseteq Trades'
    BY <1>0, <1>1, <1>2, <1>3, Typed DEF TypeOK
  <2>4. buffer' \in Seq(Nat) /\ Elements(buffer') \subseteq Trades' /\ wire' \subseteq Trades'
        /\ phase' \in Phases /\ {lastEvent', dropped', pending'} \subseteq Times
    BY <1>1 DEF Elements, Phases, Times
  <2>. QED
    BY <1>0, <1>1, <1>2, <2>2, <2>3, <2>4 DEF TypeOK, Elements
<1>6. ClockInv'
  <2>1. Idle.hi <= now + Margin /\ Elements(Idle.rows) = {}
    BY <1>0, Typed DEF Idle, Elements
  <2>. QED
    BY ZenonT(30), <1>1, <1>2, <2>1 DEF IInv, ClockInv, Past, Elements
<1>7. PhaseInv' /\ OrderInv'
  BY <1>1, <1>2 DEF PhaseInv, OrderInv
<1>8. lastRow # NONE => \A i \in Exposed' : ledger[lastRow] <= ledger[i] + Margin
  <2>. SUFFICES ASSUME lastRow # NONE, NEW i \in Exposed'
                PROVE  ledger[lastRow] <= ledger[i] + Margin
    OBVIOUS
  <2>1. ledger[lastRow] \in Nat /\ ledger[i] \in Nat
    BY <1>0, <1>4, Typed
  <2>2. CASE i \in Exposed
    BY <2>2 DEF IInv, ReachInv
  <2>3. CASE i \in Elements(buffer) /\ lastSrc = "gapfill"
    BY <1>4, <2>1, <2>3 DEF Stranded
  <2>4. CASE i \in Elements(buffer) /\ lastSrc = "ws"
    <3>1. PICK k \in DOMAIN buffer : buffer[k] = i
      BY <2>4 DEF Elements
    <3>2. ledger[lastRow] <= ledger[i] + Reorder
      BY <1>4, <2>4, <3>1 DEF IInv, OrderInv
    <3>. QED
      BY <2>1, <3>2
  <2>. QED
    BY <1>0, <1>4, <2>2, <2>3, <2>4 DEF TypeOK
<1>9. ReachInv'
  BY <1>1, <1>2, <1>8 DEF ReachInv, LiveHolesAreCovered, Idle
<1>. QED
  BY <1>5, <1>6, <1>7, <1>9 DEF IInv

-----------------------------------------------------------------------------
\* Every step preserves the invariant, when the exchange reorders trades by no
\* more than the margin of a repair window.
LEMMA NextInv == ASSUME IInv, Reorder <= Margin, [Next]_vars PROVE IInv'
<1>1. CASE UNCHANGED vars
  <2>1. TypeOK' /\ ClockInv' /\ PhaseInv'
    BY <1>1 DEF vars, IInv, TypeOK, Trades, Elements, ClockInv, Past, PhaseInv
  <2>2. Exposed' = Exposed
    BY <1>1 DEF vars, Exposed, Trades, Elements, Covered, Covers, InWindow
  <2>. QED
    BY <1>1, <2>1, <2>2 DEF vars, IInv, OrderInv, ReachInv, LiveHolesAreCovered
<1>2. CASE Execute \/ Tick \/ Start \/ Connect \/ Disconnect
  BY <1>2, ExecuteStep, TickStep, StartStep, ConnectStep, DisconnectStep
<1>3. CASE FlushTick \/ RetryFlush \/ CloseFlush
  BY <1>3, FlushSteps
<1>4. CASE Kill \/ Closed \/ Stop
  BY <1>4, ExitStep, StopStep
<1>5. CASE \E i \in Trades : Receive(i)
  BY <1>5, ReceiveStep
<1>6. CASE \E s \in Slots : FetchSome(s) \/ DirectSome(s)
  BY <1>6, FetchStep, DirectStep DEF FetchSome, DirectSome
<1>. QED
  BY <1>1, <1>2, <1>3, <1>4, <1>5, <1>6 DEF Next

\* The three reach properties follow from the invariant.
LEMMA ReachFromInv ==
  ASSUME IInv, Reorder <= Margin
  PROVE  LiveHolesAreCovered /\ NextWindowReaches /\ RestartReaches
<1>0. TypeOK
  BY DEF IInv
<1>1. LiveHolesAreCovered
  BY DEF IInv, ReachInv
<1>2. NextWindowReaches
  <2>. SUFFICES ASSUME phase \in {"offline", "broken"}, pending # NONE \/ lastEvent # NONE,
                       NEW i \in Exposed
                PROVE  ledger[i] >= Resume
    BY DEF NextWindowReaches
  <2>1. pending # NONE \/ dropped # NONE
    BY DEF IInv, PhaseInv
  <2>2. Resume \in Nat /\ Resume <= ledger[i] /\ ledger[i] \in Nat
    BY <1>0, <2>1, ResumeReaches, Typed
  <2>. QED
    BY <2>2
<1>3. RestartReaches
  <2>. SUFFICES ASSUME lastRow # NONE, NEW i \in Exposed PROVE ledger[i] + Margin >= ledger[lastRow]
    BY DEF RestartReaches
  <2>1. ledger[lastRow] <= ledger[i] + Margin
    BY DEF IInv, ReachInv
  <2>. QED
    BY <1>0, <2>1, Typed, Params
<1>. QED
  BY <1>1, <1>2, <1>3

\* Every variable keeps its type in every behaviour.
THEOREM TypeCorrect == ASSUME Reorder <= Margin PROVE Spec => []TypeOK
<1>1. IInv /\ [Next]_vars => IInv'
  BY NextInv
<1>2. IInv => TypeOK
  BY DEF IInv
<1>. QED
  BY InitInv, <1>1, <1>2, PTL DEF Spec

\* For every number of trades, faults, tasks and every batch size: no trade
\* leaves the reach of the repair windows of subscribe_upbit (live, on the next
\* connection, on the next start) except through one of the causes that
\* `forfeited' records, when reordering stays within GAPFILL_MARGIN_MS.
THEOREM NoSilentLoss ==
  ASSUME Reorder <= Margin
  PROVE  Spec => [](LiveHolesAreCovered /\ NextWindowReaches /\ RestartReaches)
<1>1. IInv /\ [Next]_vars => IInv'
  BY NextInv
<1>2. IInv => LiveHolesAreCovered /\ NextWindowReaches /\ RestartReaches
  BY ReachFromInv
<1>. QED
  BY InitInv, <1>1, <1>2, PTL DEF Spec

\* While the producer is connected, what it lacks is on the wire or in the window of a
\* gap-fill that runs: the window of subscribe_upbit and the queue leave nothing between them.
THEOREM LiveHolesHaveCover == ASSUME Reorder <= Margin PROVE Spec => []LiveHolesAreCovered
BY NoSilentLoss, PTL

\* While it is disconnected, the window the next connection opens, from the last event or
\* the moment of the break, reaches back to every trade missing.
THEOREM NextConnectionReaches == ASSUME Reorder <= Margin PROVE Spec => []NextWindowReaches
BY NoSilentLoss, PTL
=============================================================================
