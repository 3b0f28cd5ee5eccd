------------------------ MODULE VirtualLedgerProofs ------------------------
(***************************************************************************)
(* Proofs about VirtualLedger: its types, that a row is what one report    *)
(* said, that versions count the changes, that the trader never counts a   *)
(* reset too many, and that without failures of MySQL and without resets   *)
(* what is recorded is applied.  They hold for any number of orders,       *)
(* reports, repetitions, lost sockets, restarts and resets.                *)
(***************************************************************************)
EXTENDS VirtualLedger, TLAPS, SequenceTheorems, WellFoundedInduction

\* Quantities are not looked at: a sum over fills may be one of them.
IsOrder(b) ==
  b = [strategy |-> b.strategy, gen |-> b.gen, status |-> b.status,
       executed_qty |-> b.executed_qty, orig_qty |-> b.orig_qty]

Sent == {stream[k] : k \in 1..Len(stream)}
Network(i) == book[journal[i].order].gen

TypeOK ==
  /\ generation \in Nat /\ epoch \in Nat /\ faults \in Nat
  /\ \E S : book \in Seq(S)
  /\ \E S : journal \in Seq(S)
  /\ Len(book) <= MaxOrders
  /\ \A o \in 1..Len(book) : IsOrder(book[o]) /\ book[o].gen \in Nat /\ book[o].gen <= generation
  /\ \A i \in 1..Len(journal) : journal[i].order \in 1..Len(book)
  /\ stream \in Seq(Nat) /\ Sent \subseteq 1..Len(journal)
  /\ handling # NONE =>
       /\ handling = [exec |-> handling.exec, at |-> handling.at]
       /\ handling.exec \in 1..Len(journal) /\ handling.exec \in raw
       /\ handling.at \in {"recorded", "upserted"}
  /\ raw \subseteq 1..Len(journal)
  /\ rows = [o \in OrderIds |-> rows[o]]
  /\ \A o \in Known : /\ rows[o].last_exec_id \in 1..Len(journal)
                      /\ journal[rows[o].last_exec_id].order = o
                      /\ rows[o].reset_epoch \in Nat /\ rows[o].reset_epoch <= epoch
  /\ "at" \in DOMAIN loop

-----------------------------------------------------------------------------
(* Sequences and maxima.                                                    *)

LEMMA Lengths ==
  ASSUME TypeOK
  PROVE  /\ Len(book) \in Nat /\ DOMAIN book = 1..Len(book)
         /\ Len(journal) \in Nat /\ DOMAIN journal = 1..Len(journal)
         /\ Len(stream) \in Nat /\ DOMAIN stream = 1..Len(stream)
         /\ MaxOrders \in Nat
<1>1. PICK S : book \in Seq(S)
  BY DEF TypeOK
<1>2. PICK T : journal \in Seq(T)
  BY DEF TypeOK
<1>3. stream \in Seq(Nat)
  BY DEF TypeOK
<1>4. Len(book) \in Nat /\ DOMAIN book = 1..Len(book)
  BY <1>1, LenProperties
<1>5. Len(journal) \in Nat /\ DOMAIN journal = 1..Len(journal)
  BY <1>2, LenProperties
<1>6. Len(stream) \in Nat /\ DOMAIN stream = 1..Len(stream)
  BY <1>3, LenProperties
<1>. QED
  BY <1>4, <1>5, <1>6, ParameterAssumption

LEMMA Appended ==
  ASSUME NEW S, NEW s \in Seq(S), NEW e
  PROVE  /\ \E T : Append(s, e) \in Seq(T)
         /\ Len(Append(s, e)) = Len(s) + 1
         /\ \A i \in 1..Len(s) : Append(s, e)[i] = s[i]
         /\ Append(s, e)[Len(s) + 1] = e
<1>. DEFINE T == S \cup {e}
<1>1. s \in Seq(T) /\ e \in T
  BY SeqMonotonic
<1>. HIDE DEF T
<1>2. Append(s, e) \in Seq(T)
  BY <1>1, AppendProperties
<1>. QED
  BY <1>1, <1>2, AppendProperties

\* What is left of a sequence without one of its elements was in it before.
LEMMA RemovedFrom ==
  ASSUME NEW s \in Seq(Nat), NEW i \in 1..Len(s)
  PROVE  /\ RemoveAt(s, i) \in Seq(Nat)
         /\ \A k \in 1..Len(RemoveAt(s, i)) : \E l \in 1..Len(s) : RemoveAt(s, i)[k] = s[l]
<1>. DEFINE a == SubSeq(s, 1, i - 1)
            b == SubSeq(s, i + 1, Len(s))
<1>1. Len(s) \in Nat /\ \A k \in 1..Len(s) : s[k] \in Nat
  BY LenProperties, ElementOfSeq
<1>2. /\ a \in Seq(Nat) /\ Len(a) = i - 1
      /\ \A k \in 1..i - 1 : a[k] = s[k]
  <2>1. \A k \in 1..i - 1 : s[k] \in Nat
    BY <1>1
  <2>2. 1 \in Int /\ i - 1 \in Int /\ i >= 1
    BY <1>1
  <2>3. /\ a \in Seq(Nat)
        /\ Len(a) = IF 1 <= i - 1 THEN (i - 1) - 1 + 1 ELSE 0
        /\ \A k \in 1..(i - 1) - 1 + 1 : a[k] = s[1 + k - 1]
    BY <2>1, <2>2, SubSeqProperties
  <2>. QED
    BY <1>1, <2>2, <2>3
<1>3. /\ b \in Seq(Nat) /\ Len(b) = Len(s) - i
      /\ \A k \in 1..Len(s) - i : b[k] = s[i + k]
  <2>1. \A k \in i + 1..Len(s) : s[k] \in Nat
    BY <1>1
  <2>2. i + 1 \in Int /\ Len(s) \in Int /\ i <= Len(s)
    BY <1>1
  <2>3. /\ b \in Seq(Nat)
        /\ Len(b) = IF i + 1 <= Len(s) THEN Len(s) - (i + 1) + 1 ELSE 0
        /\ \A k \in 1..Len(s) - (i + 1) + 1 : b[k] = s[(i + 1) + k - 1]
    BY SMTT(30), <2>1, <2>2, SubSeqProperties
  <2>. QED
    BY <1>1, <2>2, <2>3
<1>4. RemoveAt(s, i) = a \o b
  BY DEF RemoveAt
<1>. HIDE DEF a, b
<1>5. /\ a \o b \in Seq(Nat) /\ Len(a \o b) = Len(a) + Len(b)
      /\ \A k \in 1..Len(a) + Len(b) : (a \o b)[k] = IF k <= Len(a) THEN a[k] ELSE b[k - Len(a)]
  BY <1>2, <1>3, ConcatProperties
<1>6. ASSUME NEW k \in 1..Len(a \o b)
      PROVE  \E l \in 1..Len(s) : (a \o b)[k] = s[l]
  <2>. k \in Nat /\ i \in Nat
    BY <1>1, <1>2, <1>3, <1>5
  <2>1. CASE k <= i - 1
    <3>1. (a \o b)[k] = s[k] /\ k \in 1..Len(s)
      BY SMTT(30), <1>1, <1>2, <1>3, <1>5, <2>1
    <3>. QED
      BY <3>1
  <2>2. CASE k > i - 1
    <3>1. k - (i - 1) \in 1..Len(s) - i
      BY <1>1, <1>2, <1>3, <1>5, <2>2
    <3>2. (a \o b)[k] = b[k - (i - 1)]
      BY SMTT(30), <1>1, <1>2, <1>3, <1>5, <2>2
    <3>3. (a \o b)[k] = s[k + 1] /\ k + 1 \in 1..Len(s)
      BY SMTT(30), <1>1, <1>3, <3>1, <3>2
    <3>. QED
      BY <3>3
  <2>. QED
    BY SMTT(30), <2>1, <2>2
<1>. QED
  BY <1>4, <1>5, <1>6

\* A set of naturals with a bound has a largest element.
LEMMA Largest ==
  ASSUME NEW bound \in Nat, NEW S \in SUBSET (0..bound), S # {}
  PROVE  \E x \in S : \A y \in S : x >= y
<1>. DEFINE T == {bound - x : x \in S}
<1>1. T \subseteq Nat /\ T # {}
  <2>1. \A x \in S : bound - x \in Nat
    OBVIOUS
  <2>. QED
    BY <2>1
<1>. DEFINE R == OpToRel(<, Nat)
<1>2. IsWellFoundedOn(R, Nat)
  BY NatLessThanWellFounded
<1>3. \A x, y \in Nat : x < y => <<x, y>> \in R
  BY DEF OpToRel
<1>. HIDE DEF R
<1>4. PICK t \in T : \A u \in T : ~(<<u, t>> \in R)
  <2>. HIDE DEF T
  <2>. QED
    BY <1>1, <1>2, WFMin
<1>5. \A u \in T : ~(u < t)
  <2>. HIDE DEF T
  <2>. QED
    BY <1>1, <1>3, <1>4
<1>6. PICK x \in S : t = bound - x
  BY <1>4
<1>7. ASSUME NEW y \in S
      PROVE  x >= y
  <2>1. bound - y \in T
    OBVIOUS
  <2>2. ~(bound - y < bound - x)
    BY <1>5, <1>6, <2>1
  <2>. QED
    BY <2>2
<1>. QED
  BY <1>7

LEMMA MaxOfTwo ==
  ASSUME NEW x \in Nat, NEW y \in Nat
  PROVE  Max({x, y}) = IF x >= y THEN x ELSE y
<1>. DEFINE z == IF x >= y THEN x ELSE y
<1>1. z \in {x, y} /\ \A w \in {x, y} : z >= w
  OBVIOUS
<1>2. \A v \in {x, y} : (\A w \in {x, y} : v >= w) => v = z
  OBVIOUS
<1>. HIDE DEF z
<1>3. Max({x, y}) = z
  BY <1>1, <1>2 DEF Max
<1>. QED
  BY <1>3 DEF z

-----------------------------------------------------------------------------
(* What the steps do.                                                       *)

\* The exchange reports a change of an order, an open one or a new one.
Reporting(o) ==
  /\ \E S : book' \in Seq(S)
  /\ Len(book') <= MaxOrders /\ Len(book) <= Len(book')
  /\ \A p \in 1..Len(book') : p = o \/ p \in 1..Len(book)
  /\ o \in 1..Len(book')
  /\ \A p \in 1..Len(book) : p # o => book'[p] = book[p]
  /\ \E S : journal' \in Seq(S)
  /\ Len(journal') = Len(journal) + 1
  /\ \A i \in 1..Len(journal) : journal'[i] = journal[i]
  /\ journal'[Len(journal) + 1].order = o
  /\ journal'[Len(journal) + 1].status = book'[o].status
  /\ stream' \in Seq(Nat) /\ Sent' \subseteq Sent \cup {Len(journal) + 1}
  /\ UNCHANGED <<generation, archived>>

LEMMA Reported ==
  ASSUME TypeOK
  PROVE  \A o, order, type, last :
           o \in OrderIds /\ o <= Len(book) + 1 /\ Report(o, order, type, last)
             => Reporting(o) /\ book'[o] = order
<1>. SUFFICES ASSUME NEW o, NEW order, NEW type, NEW last,
                     o \in OrderIds, o <= Len(book) + 1, Report(o, order, type, last)
              PROVE  Reporting(o) /\ book'[o] = order
  OBVIOUS
<1>. DEFINE n == IF o >= Len(book) THEN o ELSE Len(book)
            entry == [order |-> o, type |-> type, status |-> order.status,
                      executed_qty |-> order.executed_qty, orig_qty |-> order.orig_qty,
                      last_qty |-> last]
<1>1. o \in Nat /\ o >= 1 /\ o <= MaxOrders /\ Len(book) \in Nat /\ Len(book) <= MaxOrders
  BY Lengths DEF OrderIds, TypeOK
<1>2. n \in Nat /\ n <= MaxOrders /\ Len(book) <= n /\ o \in 1..n
      /\ \A p \in 1..n : p = o \/ p \in 1..Len(book)
  BY <1>1
<1>3. book' = [i \in 1..n |-> IF i = o THEN order ELSE book[i]]
  BY <1>1, MaxOfTwo DEF Report
<1>4. journal' = Append(journal, entry)
  BY DEF Report
<1>5. stream' = Append(stream, Len(journal) + 1) \/ stream' = stream
  BY DEF Report
<1>6. UNCHANGED <<generation, archived>>
  BY DEF Report
<1>7. /\ \E S : book' \in Seq(S)
      /\ Len(book') = n
      /\ book'[o] = order
      /\ \A p \in 1..Len(book) : p # o => book'[p] = book[p]
  <2>. HIDE DEF n
  <2>. DEFINE S == {book'[i] : i \in 1..n}
  <2>1. book' \in [1..n -> S]
    BY <1>3
  <2>. HIDE DEF S
  <2>2. book' \in Seq(S)
    BY <1>2, <2>1, SeqDef
  <2>3. DOMAIN book' = 1..n
    BY <1>3
  <2>4. Len(book') = n
    BY <1>2, <2>2, <2>3, LenProperties
  <2>5. \A p \in 1..Len(book) : p \in 1..n
    BY <1>1, <1>2
  <2>. QED
    BY <1>2, <1>3, <2>2, <2>4, <2>5
<1>8. /\ \E S : journal' \in Seq(S)
      /\ Len(journal') = Len(journal) + 1
      /\ \A i \in 1..Len(journal) : journal'[i] = journal[i]
      /\ journal'[Len(journal) + 1] = entry
  <2>. HIDE DEF entry
  <2>1. \A S : \A s \in Seq(S) : \A e :
          /\ \E T : Append(s, e) \in Seq(T)
          /\ Len(Append(s, e)) = Len(s) + 1
          /\ \A i \in 1..Len(s) : Append(s, e)[i] = s[i]
          /\ Append(s, e)[Len(s) + 1] = e
    BY Appended
  <2>2. PICK S : journal \in Seq(S)
    BY DEF TypeOK
  <2>3. /\ \E T : Append(journal, entry) \in Seq(T)
        /\ Len(Append(journal, entry)) = Len(journal) + 1
        /\ \A i \in 1..Len(journal) : Append(journal, entry)[i] = journal[i]
        /\ Append(journal, entry)[Len(journal) + 1] = entry
    BY <2>1, <2>2, Zenon
  <2>. QED
    BY <1>4, <2>3, Zenon
<1>9. stream' \in Seq(Nat) /\ Sent' \subseteq Sent \cup {Len(journal) + 1}
  <2>1. stream \in Seq(Nat) /\ Len(journal) + 1 \in Nat /\ Len(stream) \in Nat
    BY Lengths DEF TypeOK
  <2>2. CASE stream' = stream
    BY <2>1, <2>2 DEF Sent
  <2>3. CASE stream' = Append(stream, Len(journal) + 1)
    <3>1. \A s \in Seq(Nat), e \in Nat :
            /\ Append(s, e) \in Seq(Nat)
            /\ Len(Append(s, e)) = Len(s) + 1
            /\ \A i \in 1..Len(s) : Append(s, e)[i] = s[i]
            /\ Append(s, e)[Len(s) + 1] = e
      BY AppendProperties
    <3>2. \A k \in 1..Len(stream) + 1 : k \in 1..Len(stream) \/ k = Len(stream) + 1
      BY <2>1
    <3>. QED
      BY <2>1, <2>3, <3>1, <3>2 DEF Sent
  <2>. QED
    BY <1>5, <2>2, <2>3
<1>10. entry.order = o /\ entry.status = order.status
  OBVIOUS
<1>. HIDE DEF n, entry
<1>. QED
  BY <1>2, <1>6, <1>7, <1>8, <1>9, <1>10 DEF Reporting

Change ==
  \E o \in OrderIds :
    /\ Reporting(o)
    /\ o \in 1..Len(book) =>
         book[o].status \in Live /\ o \notin archived /\ book[o].gen = generation
    /\ IsOrder(book'[o]) /\ book'[o].gen = generation

\* A change of an order the exchange still has.
LEMMA OpenChanges ==
  ASSUME TypeOK
  PROVE  \A o, order, type, last :
           /\ Open(o) /\ Report(o, order, type, last)
           /\ IsOrder(order) /\ order.gen = book[o].gen
           => o \in OrderIds /\ Change
<1>. SUFFICES ASSUME NEW o, NEW order, NEW type, NEW last,
                     Open(o), Report(o, order, type, last), IsOrder(order), order.gen = book[o].gen
              PROVE  o \in OrderIds /\ Change
  OBVIOUS
<1>1. o \in 1..Len(book) /\ book[o].gen = generation /\ o \notin archived /\ book[o].status \in Live
  BY Lengths DEF Open, Exists
<1>2. o \in OrderIds /\ o <= Len(book) + 1
  BY <1>1, Lengths DEF OrderIds, TypeOK
<1>3. Reporting(o) /\ book'[o] = order
  BY <1>2, Reported
<1>. QED
  BY <1>1, <1>2, <1>3 DEF Change

\* What the tables, the epoch and on_event do not notice.
Background ==
  /\ Change \/ UNCHANGED <<exchange, stream>>
  /\ UNCHANGED <<handling, tables, epoch, faults>>
  /\ "at" \in DOMAIN loop'
  /\ loop' = loop \/ loop'.at \notin {"askFilled", "wipeFills", "wipeOrders"}

LEMMA AfterPlaced ==
  ASSUME TypeOK
  PROVE  "at" \in DOMAIN Placed /\ Placed.at = "place"
BY DEF TypeOK, Placed

LEMMA StillOrder ==
  ASSUME NEW b, IsOrder(b), NEW v
  PROVE  /\ IsOrder([b EXCEPT !.status = v]) /\ [b EXCEPT !.status = v].gen = b.gen
         /\ IsOrder([b EXCEPT !.orig_qty = v]) /\ [b EXCEPT !.orig_qty = v].gen = b.gen
         /\ IsOrder([b EXCEPT !.executed_qty = v]) /\ [b EXCEPT !.executed_qty = v].gen = b.gen
<1>1. \A x : IsOrder(x) => x = [strategy |-> x.strategy, gen |-> x.gen, status |-> x.status,
                               executed_qty |-> x.executed_qty, orig_qty |-> x.orig_qty]
  BY DEF IsOrder
<1>2. PICK st, g, u, e, q :
        b = [strategy |-> st, gen |-> g, status |-> u, executed_qty |-> e, orig_qty |-> q]
  BY <1>1
<1>3. [b EXCEPT !.status = v] =
        [strategy |-> st, gen |-> g, status |-> v, executed_qty |-> e, orig_qty |-> q]
  BY <1>2
<1>4. [b EXCEPT !.orig_qty = v] =
        [strategy |-> st, gen |-> g, status |-> u, executed_qty |-> e, orig_qty |-> v]
  BY <1>2
<1>5. [b EXCEPT !.executed_qty = v] =
        [strategy |-> st, gen |-> g, status |-> u, executed_qty |-> v, orig_qty |-> q]
  BY <1>2
<1>6. b.gen = g
  BY <1>2
<1>7. IsOrder([b EXCEPT !.status = v]) /\ [b EXCEPT !.status = v].gen = b.gen
  BY <1>3, <1>6 DEF IsOrder
<1>8. IsOrder([b EXCEPT !.orig_qty = v]) /\ [b EXCEPT !.orig_qty = v].gen = b.gen
  BY <1>4, <1>6 DEF IsOrder
<1>9. IsOrder([b EXCEPT !.executed_qty = v]) /\ [b EXCEPT !.executed_qty = v].gen = b.gen
  BY <1>5, <1>6 DEF IsOrder
<1>. QED
  BY <1>7, <1>8, <1>9

LEMMA StillOrders ==
  \A b, v : IsOrder(b) =>
    /\ IsOrder([b EXCEPT !.status = v]) /\ [b EXCEPT !.status = v].gen = b.gen
    /\ IsOrder([b EXCEPT !.orig_qty = v]) /\ [b EXCEPT !.orig_qty = v].gen = b.gen
    /\ IsOrder([b EXCEPT !.executed_qty = v]) /\ [b EXCEPT !.executed_qty = v].gen = b.gen
BY StillOrder

LEMMA FilledOrder ==
  ASSUME NEW b, IsOrder(b), NEW v, NEW w
  PROVE  /\ IsOrder([b EXCEPT !.executed_qty = v, !.status = w])
         /\ [b EXCEPT !.executed_qty = v, !.status = w].gen = b.gen
<1>. DEFINE c == [b EXCEPT !.executed_qty = v]
<1>1. [b EXCEPT !.executed_qty = v, !.status = w] = [c EXCEPT !.status = w]
  OBVIOUS
<1>2. IsOrder(c) /\ c.gen = b.gen
  BY StillOrders, Zenon
<1>3. IsOrder([c EXCEPT !.status = w]) /\ [c EXCEPT !.status = w].gen = c.gen
  <2>. HIDE DEF c
  <2>. QED
    BY <1>2, StillOrders, Zenon
<1>. QED
  BY <1>1, <1>2, <1>3, Zenon

LEMMA FilledOrders ==
  \A b, v, w : IsOrder(b) =>
    /\ IsOrder([b EXCEPT !.executed_qty = v, !.status = w])
    /\ [b EXCEPT !.executed_qty = v, !.status = w].gen = b.gen
BY FilledOrder

LEMMA MatchStep ==
  ASSUME TypeOK, NEW o, Match(o)
  PROVE  Background
<1>1. PICK k \in 1..book[o].orig_qty - book[o].executed_qty :
        /\ Open(o)
        /\ \E done, status :
             Report(o, [book[o] EXCEPT !.executed_qty = done, !.status = status], "TRADE", k)
  BY DEF Match
<1>2. PICK done, status : Report(o, [book[o] EXCEPT !.executed_qty = done, !.status = status], "TRADE", k)
  BY <1>1
<1>. DEFINE order == [book[o] EXCEPT !.executed_qty = done, !.status = status]
<1>3. IsOrder(book[o])
  BY <1>1, Lengths DEF TypeOK, Open, Exists
<1>4. IsOrder(order) /\ order.gen = book[o].gen
  BY <1>3, FilledOrders, Zenon
<1>5. Change
  <2>. HIDE DEF order
  <2>. QED
    BY <1>1, <1>2, <1>4, OpenChanges DEF order
<1>. QED
  BY <1>5 DEF Match, Background, process, tables, counters, TypeOK

LEMMA ExpireStep ==
  ASSUME TypeOK, NEW o, Expire(o)
  PROVE  Background
<1>. DEFINE order == [book[o] EXCEPT !.status = "EXPIRED"]
<1>1. Open(o) /\ Report(o, order, "EXPIRED", 0)
  BY DEF Expire
<1>2. IsOrder(book[o])
  BY <1>1, Lengths DEF TypeOK, Open, Exists
<1>3. IsOrder(order) /\ order.gen = book[o].gen
  BY <1>2, StillOrders, Zenon
<1>4. Change
  <2>. HIDE DEF order
  <2>. QED
    BY <1>1, <1>3, OpenChanges
<1>. QED
  BY <1>4 DEF Expire, Background, process, tables, counters, TypeOK

LEMMA CancelStep ==
  ASSUME TypeOK, NEW o, canceled(o)
  PROVE  Background
<1>. DEFINE order == [book[o] EXCEPT !.status = "CANCELED"]
<1>1. Open(o) => Change
  <2>. HAVE Open(o)
  <2>1. Report(o, order, "CANCELED", 0)
    BY DEF canceled
  <2>2. IsOrder(book[o])
    BY Lengths DEF TypeOK, Open, Exists
  <2>3. IsOrder(order) /\ order.gen = book[o].gen
    BY <2>2, StillOrders, Zenon
  <2>. HIDE DEF order
  <2>. QED
    BY <2>1, <2>3, OpenChanges
<1>2. ~Open(o) => UNCHANGED <<exchange, stream>>
  BY DEF canceled
<1>3. UNCHANGED <<handling, tables, epoch, faults, loop>> /\ "at" \in DOMAIN loop
  BY DEF canceled, tables, counters, TypeOK
<1>. QED
  BY <1>1, <1>2, <1>3 DEF Background

LEMMA AmendStep ==
  ASSUME TypeOK, NEW o, amended(o)
  PROVE  Background
<1>. DEFINE order == [book[o] EXCEPT !.orig_qty = Half(o)]
            taken == Open(o) /\ Half(o) > book[o].executed_qty /\ Half(o) < book[o].orig_qty
<1>1. taken => Change
  <2>. HAVE taken
  <2>1. Report(o, order, "REPLACED", 0) /\ Open(o)
    BY DEF amended
  <2>2. IsOrder(book[o])
    BY Lengths DEF TypeOK, Open, Exists
  <2>3. IsOrder(order) /\ order.gen = book[o].gen
    BY <2>2, StillOrders, Zenon
  <2>. HIDE DEF order, taken
  <2>. QED
    BY <2>1, <2>3, OpenChanges
<1>2. ~taken => UNCHANGED <<exchange, stream>>
  BY DEF amended
<1>3. UNCHANGED <<handling, tables, epoch, faults, loop>> /\ "at" \in DOMAIN loop
  BY DEF amended, tables, counters, TypeOK
<1>. HIDE DEF taken
<1>. QED
  BY <1>1, <1>2, <1>3 DEF Background

LEMMA PlaceStep ==
  ASSUME TypeOK, order_place
  PROVE  Background
<1>. DEFINE o == Len(book) + 1
            order == [strategy |-> Head(loop.plans).strategy, gen |-> generation, status |-> "NEW",
                      executed_qty |-> 0, orig_qty |-> Head(loop.plans).qty]
<1>1. Report(o, order, "NEW", 0) /\ Len(book) < MaxOrders
  BY DEF order_place
<1>2. o \in OrderIds /\ o <= Len(book) + 1 /\ o \notin 1..Len(book)
  BY <1>1, Lengths DEF OrderIds
<1>3. IsOrder(order) /\ order.gen = generation
  BY DEF IsOrder
<1>4. Change
  <2>. HIDE DEF order, o
  <2>1. Reporting(o) /\ book'[o] = order
    BY <1>1, <1>2, Reported
  <2>. QED
    BY <1>2, <1>3, <2>1 DEF Change
<1>5. loop' = [at |-> "answered", plans |-> loop.plans, order |-> Len(book) + 1]
  BY DEF order_place
<1>6. "at" \in DOMAIN loop' /\ loop'.at = "answered"
  BY <1>5
<1>. QED
  BY <1>4, <1>6 DEF order_place, Background, tables, counters

Errand == \/ connect \/ adopt_open_orders \/ cycle \/ place \/ placed \/ place_refused
          \/ check_reset \/ \E o \in OrderIds : amend(o) \/ cancel(o)

LEMMA ErrandStep ==
  ASSUME TypeOK, Errand
  PROVE  Background /\ UNCHANGED <<exchange, stream>>
<1>1. CASE loop' = loop
  BY <1>1 DEF Errand, connect, adopt_open_orders, cycle, place, placed, place_refused, check_reset,
     amend, cancel, Background, process, tables, counters, TypeOK
<1>2. CASE cycle
  BY <1>2 DEF cycle, Background, tables, counters
<1>3. CASE place
  <2>1. loop' = AtRest \/ loop' = [loop EXCEPT !.at = "sent"] \/ loop' = Placed
    BY <1>3 DEF place
  <2>2. "at" \in DOMAIN AtRest /\ AtRest.at = "rest"
    BY DEF AtRest
  <2>3. "at" \in DOMAIN [loop EXCEPT !.at = "sent"] /\ [loop EXCEPT !.at = "sent"].at = "sent"
    BY DEF TypeOK
  <2>4. "at" \in DOMAIN loop' /\ loop'.at \in {"rest", "sent", "place"}
    BY <2>1, <2>2, <2>3, AfterPlaced
  <2>. QED
    BY <1>3, <2>4 DEF place, Background, tables, counters
<1>4. CASE placed
  BY <1>4 DEF placed, Background, tables, counters
<1>5. CASE place_refused
  BY <1>5, AfterPlaced DEF place_refused, Background, tables, counters
<1>6. CASE check_reset
  BY <1>6 DEF check_reset, Background, tables, counters
<1>. QED
  BY <1>1, <1>2, <1>3, <1>4, <1>5, <1>6
  DEF Errand, connect, adopt_open_orders, amend, cancel, process

\* The steps that tables, epoch or on_event do notice, and those of the network.
LEMMA Steps ==
  ASSUME TypeOK, [Next]_vars
  PROVE  \/ Background
         \/ \E o \in DOMAIN book : Archive(o)
         \/ ResetNetwork \/ Repeat
         \/ record_event \/ apply_report \/ insert_fill \/ on_event_failed
         \/ order_status \/ delete_fills \/ delete_orders
         \/ reader_ended \/ restart
<1>1. CASE UNCHANGED vars
  BY <1>1 DEF vars, process, tables, counters, Background, TypeOK
<1>2. (\E o \in DOMAIN book : Match(o) \/ Expire(o)) => Background
  BY MatchStep, ExpireStep
<1>3. (\E o \in OrderIds : amended(o) \/ canceled(o)) => Background
  BY AmendStep, CancelStep
<1>. QED
  BY <1>1, <1>2, <1>3, PlaceStep, ErrandStep
  DEF Next, Reader, MainLoop, Task, Environment, Faults, Errand

\* What a change leaves as it was.
LEMMA AfterChange ==
  ASSUME TypeOK, Change
  PROVE  /\ Len(journal') = Len(journal) + 1
         /\ \A i \in 1..Len(journal) : journal'[i] = journal[i] /\ Network(i)' = Network(i)
         /\ \A i : i = Len(journal) + 1 => Network(i)' = generation
         /\ \A o \in 1..Len(book) : o \in 1..Len(book') /\ book'[o].gen = book[o].gen
         /\ \A i \in 1..Len(journal') : \/ i \in 1..Len(journal)
                                        \/ i = Len(journal) + 1
         /\ Sent' \subseteq Sent \cup {Len(journal) + 1}
         /\ generation' = generation /\ archived' = archived
<1>1. PICK o \in OrderIds :
        /\ Reporting(o)
        /\ o \in 1..Len(book) =>
             book[o].status \in Live /\ o \notin archived /\ book[o].gen = generation
        /\ IsOrder(book'[o]) /\ book'[o].gen = generation
  BY DEF Change
<1>2. Len(book) \in Nat /\ Len(journal) \in Nat
  BY Lengths
<1>3. Len(book') \in Nat
  BY <1>1, LenProperties DEF Reporting
<1>4. \A p \in 1..Len(book) : p \in 1..Len(book') /\ book'[p].gen = book[p].gen
  <2>1. ASSUME NEW p \in 1..Len(book)
        PROVE  p \in 1..Len(book')
    BY <1>1, <1>2, <1>3 DEF Reporting
  <2>2. ASSUME NEW p \in 1..Len(book)
        PROVE  book'[p].gen = book[p].gen
    BY <1>1 DEF Reporting
  <2>. QED
    BY <2>1, <2>2
<1>5. \A i \in 1..Len(journal) : journal[i].order \in 1..Len(book)
  BY DEF TypeOK
<1>6. \A i \in 1..Len(journal) : journal'[i] = journal[i]
  BY <1>1 DEF Reporting
<1>7. \A i \in 1..Len(journal) : Network(i)' = Network(i)
  BY <1>4, <1>5, <1>6 DEF Network
<1>8. \A i : i = Len(journal) + 1 => Network(i)' = generation
  BY <1>1 DEF Network, Reporting
<1>9. Len(journal') = Len(journal) + 1 /\ Sent' \subseteq Sent \cup {Len(journal) + 1}
      /\ generation' = generation /\ archived' = archived
  BY <1>1 DEF Reporting
<1>10. \A i \in 1..Len(journal') : i \in 1..Len(journal) \/ i = Len(journal) + 1
  BY <1>2, <1>9
<1>. QED
  BY <1>4, <1>6, <1>7, <1>8, <1>9, <1>10

\* Types of what the exchange keeps, and of the reports on their way.
ExchangeOK ==
  /\ generation \in Nat
  /\ \E S : book \in Seq(S)
  /\ \E S : journal \in Seq(S)
  /\ Len(book) <= MaxOrders
  /\ \A o \in 1..Len(book) : IsOrder(book[o]) /\ book[o].gen \in Nat /\ book[o].gen <= generation
  /\ \A i \in 1..Len(journal) : journal[i].order \in 1..Len(book)
  /\ stream \in Seq(Nat) /\ Sent \subseteq 1..Len(journal)

LEMMA ExchangeTyped ==
  ASSUME TypeOK, Change
  PROVE  ExchangeOK'
<1>1. PICK o \in OrderIds :
        /\ Reporting(o)
        /\ o \in 1..Len(book) =>
             book[o].status \in Live /\ o \notin archived /\ book[o].gen = generation
        /\ IsOrder(book'[o]) /\ book'[o].gen = generation
  BY DEF Change
<1>2. Len(book) \in Nat /\ Len(journal) \in Nat
  BY Lengths
<1>3. generation' \in Nat /\ generation' = generation
  BY <1>1 DEF Reporting, TypeOK
<1>4. \A p \in 1..Len(book') : IsOrder(book'[p]) /\ book'[p].gen \in Nat /\ book'[p].gen <= generation'
  <2>. SUFFICES ASSUME NEW p \in 1..Len(book')
                PROVE  IsOrder(book'[p]) /\ book'[p].gen \in Nat /\ book'[p].gen <= generation'
    OBVIOUS
  <2>1. CASE p = o
    BY <1>1, <1>3, <2>1
  <2>2. CASE p # o
    <3>1. p \in 1..Len(book) /\ book'[p] = book[p]
      BY <1>1, <2>2 DEF Reporting
    <3>. QED
      BY <1>3, <3>1 DEF TypeOK
  <2>. QED
    BY <2>1, <2>2
<1>5. \A i \in 1..Len(journal') : journal'[i].order \in 1..Len(book')
  <2>. SUFFICES ASSUME NEW i \in 1..Len(journal')
                PROVE  journal'[i].order \in 1..Len(book')
    OBVIOUS
  <2>1. CASE i = Len(journal) + 1
    BY <1>1, <2>1 DEF Reporting
  <2>2. CASE i \in 1..Len(journal)
    <3>1. journal'[i] = journal[i] /\ journal[i].order \in 1..Len(book)
      BY <1>1, <2>2 DEF Reporting, TypeOK
    <3>. QED
      BY <3>1, AfterChange
  <2>. QED
    BY <2>1, <2>2, AfterChange
<1>6. stream' \in Seq(Nat) /\ Sent' \subseteq 1..Len(journal')
  <2>1. Sent \subseteq 1..Len(journal)
    BY DEF TypeOK
  <2>2. \A i \in 1..Len(journal) : i \in 1..Len(journal')
    BY <1>1, <1>2 DEF Reporting
  <2>3. Len(journal) + 1 \in 1..Len(journal')
    BY <1>1, <1>2 DEF Reporting
  <2>4. stream' \in Seq(Nat) /\ Sent' \subseteq Sent \cup {Len(journal) + 1}
    BY <1>1 DEF Reporting
  <2>. QED
    BY <2>1, <2>2, <2>3, <2>4
<1>. QED
  BY <1>1, <1>3, <1>4, <1>5, <1>6 DEF ExchangeOK, Reporting

\* Types of the ledger and of the process.
LedgerOK ==
  /\ epoch \in Nat /\ faults \in Nat
  /\ handling # NONE =>
       /\ handling = [exec |-> handling.exec, at |-> handling.at]
       /\ handling.exec \in 1..Len(journal) /\ handling.exec \in raw
       /\ handling.at \in {"recorded", "upserted"}
  /\ raw \subseteq 1..Len(journal)
  /\ rows = [o \in OrderIds |-> rows[o]]
  /\ \A o \in Known : /\ rows[o].last_exec_id \in 1..Len(journal)
                      /\ journal[rows[o].last_exec_id].order = o
                      /\ rows[o].reset_epoch \in Nat /\ rows[o].reset_epoch <= epoch
  /\ "at" \in DOMAIN loop

LEMMA BackgroundTyped ==
  ASSUME TypeOK, Background
  PROVE  TypeOK'
<1>1. ExchangeOK'
  <2>1. CASE Change
    BY <2>1, ExchangeTyped
  <2>2. CASE UNCHANGED <<exchange, stream>>
    BY <2>2 DEF exchange, TypeOK, ExchangeOK, Sent
  <2>. QED
    BY <2>1, <2>2 DEF Background
<1>2. \A i \in 1..Len(journal) : i \in 1..Len(journal') /\ journal'[i] = journal[i]
  <2>1. CASE Change
    BY <2>1, AfterChange, Lengths
  <2>2. CASE UNCHANGED <<exchange, stream>>
    BY <2>2 DEF exchange
  <2>. QED
    BY <2>1, <2>2 DEF Background
<1>3. LedgerOK'
  BY <1>2 DEF Background, tables, TypeOK, LedgerOK, Known
<1>. QED
  BY <1>1, <1>3 DEF TypeOK, ExchangeOK, LedgerOK

\* A step that leaves the exchange alone, with fewer or the same reports on their way.
LEMMA SameExchange ==
  ASSUME TypeOK, UNCHANGED exchange, stream' \in Seq(Nat), Sent' \subseteq Sent
  PROVE  ExchangeOK'
BY DEF exchange, TypeOK, ExchangeOK

\* What apply_report does to the rows: the order's own row, if any.
Applying(i, o) ==
  /\ handling # NONE /\ handling.at = "recorded" /\ i = handling.exec /\ o = journal[i].order
  /\ o \in OrderIds
  /\ rows' = [p \in OrderIds |-> rows'[p]]
  /\ \A p \in OrderIds : p # o => rows'[p] = rows[p]
  /\ \/ /\ rows[o] = NONE
        /\ rows'[o].reset_epoch = epoch
     \/ /\ rows[o] # NONE /\ i > rows[o].last_exec_id
        /\ rows'[o].reset_epoch = rows[o].reset_epoch
        /\ rows'[o].version = rows[o].version + 1
     \/ rows[o] # NONE /\ ~(i > rows[o].last_exec_id) /\ rows'[o] = rows[o]
  /\ rows[o] = NONE \/ i > rows[o].last_exec_id =>
       \E c, v, e : rows'[o] = Snapshot(i, c, v, e)
  /\ handling' = NONE \/ (IsFill(i) /\ handling' = [exec |-> i, at |-> "upserted"])
  /\ IsFill(i) => handling' = [exec |-> i, at |-> "upserted"]
  /\ UNCHANGED <<exchange, stream, process, raw, fills, counters>>

LEMMA ApplyIs ==
  ASSUME TypeOK, apply_report
  PROVE  \E i, o : Applying(i, o)
<1>. DEFINE i == handling.exec
            o == journal[i].order
<1>1. /\ handling # NONE /\ handling.at = "recorded"
      /\ i \in 1..Len(journal)
      /\ handling = [exec |-> handling.exec, at |-> handling.at]
  BY DEF apply_report, Idle, TypeOK
<1>2. o \in OrderIds
  <2>1. o \in 1..Len(book) /\ Len(book) <= MaxOrders
    BY <1>1 DEF TypeOK
  <2>2. Len(book) \in Nat /\ MaxOrders \in Nat
    BY Lengths
  <2>. HIDE DEF o
  <2>. QED
    BY <2>1, <2>2 DEF OrderIds
<1>3. rows' = [rows EXCEPT ![o] = Upserted(rows[o], i)]
  BY DEF apply_report
<1>4. rows = [p \in OrderIds |-> rows[p]]
  BY DEF TypeOK
<1>5. /\ rows' = [p \in OrderIds |-> rows'[p]]
      /\ rows'[o] = Upserted(rows[o], i)
      /\ \A p \in OrderIds : p # o => rows'[p] = rows[p]
  <2>. HIDE DEF o, i
  <2>. QED
    BY <1>2, <1>3, <1>4
<1>6. /\ handling' = IF IsFill(i) THEN [handling EXCEPT !.at = "upserted"] ELSE NONE
      /\ UNCHANGED <<exchange, stream, process, raw, fills, counters>>
  BY DEF apply_report, Settle, process
<1>7. [handling EXCEPT !.at = "upserted"] = [exec |-> i, at |-> "upserted"]
  BY <1>1
<1>. HIDE DEF i, o
<1>8. \/ rows[o] = NONE /\ Upserted(rows[o], i) = Snapshot(i, FillIncrement(i), 1, epoch)
      \/ /\ rows[o] # NONE /\ i > rows[o].last_exec_id
         /\ Upserted(rows[o], i) =
              Snapshot(i, rows[o].fill_count + FillIncrement(i), rows[o].version + 1, rows[o].reset_epoch)
      \/ rows[o] # NONE /\ ~(i > rows[o].last_exec_id) /\ Upserted(rows[o], i) = rows[o]
  BY DEF Upserted
<1>9. \A c, v, e : Snapshot(i, c, v, e).reset_epoch = e /\ Snapshot(i, c, v, e).version = v
  BY DEF Snapshot
<1>10. /\ \/ /\ rows[o] = NONE
             /\ rows'[o].reset_epoch = epoch
          \/ /\ rows[o] # NONE /\ i > rows[o].last_exec_id
             /\ rows'[o].reset_epoch = rows[o].reset_epoch
             /\ rows'[o].version = rows[o].version + 1
          \/ rows[o] # NONE /\ ~(i > rows[o].last_exec_id) /\ rows'[o] = rows[o]
       /\ rows[o] = NONE \/ i > rows[o].last_exec_id =>
            \E c, v, e : rows'[o] = Snapshot(i, c, v, e)
  BY <1>5, <1>8, <1>9
<1>11. handling.at = "recorded" /\ i = handling.exec /\ o = journal[i].order
  BY <1>1 DEF i, o
<1>12. /\ handling' = NONE \/ (IsFill(i) /\ handling' = [exec |-> i, at |-> "upserted"])
       /\ IsFill(i) => handling' = [exec |-> i, at |-> "upserted"]
  BY <1>6, <1>7
<1>13. Applying(i, o)
  BY <1>1, <1>2, <1>5, <1>6, <1>10, <1>11, <1>12, Zenon DEF Applying
<1>. QED
  BY <1>13

LEMMA NothingSent ==
  ASSUME stream' = <<>>
  PROVE  stream' \in Seq(Nat) /\ Sent' \subseteq Sent
<1>1. <<>> \in Seq(Nat) /\ Len(<<>>) = 0
  BY EmptySeq
<1>. QED
  BY <1>1 DEF Sent

\* The epoch read back after a restart is the largest one of the rows.
LEMMA LastEpoch ==
  ASSUME TypeOK
  PROVE  /\ Last_epoch \in Nat /\ Last_epoch <= epoch
         /\ \A o \in Known : rows[o].reset_epoch <= Last_epoch
<1>. DEFINE S == {0} \cup {rows[o].reset_epoch : o \in Known}
<1>2. epoch \in Nat /\ \A o \in Known : rows[o].reset_epoch \in Nat /\ rows[o].reset_epoch <= epoch
  BY DEF TypeOK
<1>1. \A o \in Known : rows[o].reset_epoch \in 0..epoch
  BY <1>2
<1>3. S \in SUBSET (0..epoch) /\ S # {}
  BY <1>1, <1>2
<1>4. \A o \in Known : rows[o].reset_epoch \in S
  OBVIOUS
<1>5. Last_epoch = Max(S)
  BY DEF Last_epoch
<1>. HIDE DEF S
<1>6. \A b \in Nat : \A T \in SUBSET (0..b) : T # {} => \E x \in T : \A y \in T : x >= y
  BY Largest
<1>7. \E x \in S : \A y \in S : x >= y
  BY <1>2, <1>3, <1>6
<1>8. Max(S) \in S /\ \A y \in S : Max(S) >= y
  BY <1>7 DEF Max
<1>9. Last_epoch \in 0..epoch
  BY <1>3, <1>5, <1>8
<1>10. ASSUME NEW o \in Known
       PROVE  rows[o].reset_epoch <= Last_epoch
  <2>1. Last_epoch >= rows[o].reset_epoch
    BY <1>4, <1>5, <1>8
  <2>. QED
    BY <1>2, <1>9, <2>1
<1>. QED
  BY <1>2, <1>9, <1>10

LEMMA TypeStep ==
  ASSUME TypeOK, [Next]_vars
  PROVE  TypeOK'
<1>1. CASE Background
  BY <1>1, BackgroundTyped
<1>2. CASE \E o \in DOMAIN book : Archive(o)
  BY <1>2 DEF Archive, TypeOK, Sent, Known, process, tables, counters
<1>3. CASE ResetNetwork
  <2>1. \A o \in 1..Len(book) : book[o].gen \in Nat /\ book[o].gen <= generation + 1
    BY DEF TypeOK
  <2>2. generation \in Nat
    BY DEF TypeOK
  <2>. QED
    BY <1>3, <2>1, <2>2 DEF ResetNetwork, TypeOK, Sent, Known, process, tables, counters
<1>4. CASE Repeat
  <2>1. PICK i \in 1..Len(journal) : stream' = Append(stream, i)
    BY <1>4, Lengths DEF Repeat
  <2>2. i \in Nat /\ stream \in Seq(Nat) /\ Len(stream) \in Nat
    BY Lengths DEF TypeOK
  <2>3. /\ stream' \in Seq(Nat) /\ Len(stream') = Len(stream) + 1
        /\ \A k \in 1..Len(stream) : stream'[k] = stream[k]
        /\ stream'[Len(stream) + 1] = i
    <3>1. \A s \in Seq(Nat), e \in Nat :
            /\ Append(s, e) \in Seq(Nat)
            /\ Len(Append(s, e)) = Len(s) + 1
            /\ \A k \in 1..Len(s) : Append(s, e)[k] = s[k]
            /\ Append(s, e)[Len(s) + 1] = e
      BY AppendProperties
    <3>. QED
      BY <2>1, <2>2, <3>1
  <2>4. Sent' \subseteq 1..Len(journal)
    <3>1. \A k \in 1..Len(stream) + 1 : k \in 1..Len(stream) \/ k = Len(stream) + 1
      BY <2>2
    <3>2. \A k \in 1..Len(stream) : stream[k] \in 1..Len(journal)
      BY DEF TypeOK, Sent
    <3>. QED
      BY <2>1, <2>3, <3>1, <3>2 DEF Sent
  <2>5. UNCHANGED <<exchange, process, handling, tables, faults>>
    BY <1>4 DEF Repeat
  <2>. QED
    BY <2>3, <2>4, <2>5 DEF TypeOK, Known, exchange, process, tables
<1>5. CASE record_event
  <2>1. PICK i \in 1..Len(stream) :
          /\ stream' = RemoveAt(stream, i)
          /\ raw' = raw \cup {stream[i]}
          /\ handling' = IF stream[i] \in raw THEN NONE ELSE [exec |-> stream[i], at |-> "recorded"]
    BY <1>5, Lengths DEF record_event, Take, Settle
  <2>2. stream[i] \in 1..Len(journal)
    BY DEF TypeOK, Sent
  <2>3. stream' \in Seq(Nat) /\ Sent' \subseteq Sent
    <3>1. \A s \in Seq(Nat) : \A k \in 1..Len(s) :
            /\ RemoveAt(s, k) \in Seq(Nat)
            /\ \A m \in 1..Len(RemoveAt(s, k)) : \E l \in 1..Len(s) : RemoveAt(s, k)[m] = s[l]
      BY RemovedFrom
    <3>2. stream \in Seq(Nat)
      BY DEF TypeOK
    <3>3. /\ stream' \in Seq(Nat)
          /\ \A m \in 1..Len(stream') : \E l \in 1..Len(stream) : stream'[m] = stream[l]
      BY <2>1, <3>1, <3>2
    <3>. QED
      BY <3>3 DEF Sent
  <2>4. UNCHANGED <<exchange, process, rows, fills, counters>>
    BY <1>5 DEF record_event
  <2>5. ExchangeOK'
    BY <2>3, <2>4, SameExchange
  <2>6. LedgerOK'
    BY <2>1, <2>2, <2>4 DEF TypeOK, LedgerOK, Known, exchange, process, counters
  <2>. QED
    BY <2>5, <2>6 DEF TypeOK, ExchangeOK, LedgerOK
<1>6. CASE apply_report
  <2>1. PICK i, o : Applying(i, o)
    BY <1>6, ApplyIs
  <2>2. i \in 1..Len(journal) /\ i \in raw
    BY <2>1 DEF Applying, TypeOK
  <2>3. UNCHANGED <<exchange, stream, process, raw, fills, counters>>
    BY <2>1 DEF Applying
  <2>4. ExchangeOK'
    BY <2>3, SameExchange DEF TypeOK, Sent
  <2>5. ASSUME NEW p \in OrderIds, rows'[p] # NONE
        PROVE  /\ rows'[p].last_exec_id \in 1..Len(journal)
               /\ journal[rows'[p].last_exec_id].order = p
               /\ rows'[p].reset_epoch \in Nat /\ rows'[p].reset_epoch <= epoch
    <3>1. CASE p # o \/ (rows[o] # NONE /\ ~(i > rows[o].last_exec_id))
      <4>1. rows'[p] = rows[p]
        BY <2>1, <3>1 DEF Applying
      <4>. QED
        BY <2>5, <4>1 DEF TypeOK, Known
    <3>2. CASE p = o /\ (rows[o] = NONE \/ i > rows[o].last_exec_id)
      <4>1. PICK c, v, e : rows'[o] = Snapshot(i, c, v, e)
        BY <2>1, <3>2 DEF Applying
      <4>2. rows'[o].last_exec_id = i
        BY <4>1 DEF Snapshot
      <4>3. o \in OrderIds /\ o = journal[i].order
            /\ (rows'[o].reset_epoch = epoch
                \/ (rows[o] # NONE /\ rows'[o].reset_epoch = rows[o].reset_epoch))
        BY <2>1, <3>2 DEF Applying
      <4>4. rows'[o].reset_epoch \in Nat /\ rows'[o].reset_epoch <= epoch
        BY <4>3 DEF TypeOK, Known
      <4>. QED
        BY <2>2, <3>2, <4>2, <4>3, <4>4
    <3>. QED
      BY <3>1, <3>2
  <2>6. handling' # NONE => /\ handling' = [exec |-> handling'.exec, at |-> handling'.at]
                            /\ handling'.exec = i /\ handling'.at = "upserted"
    BY SMTT(30), <2>1 DEF Applying
  <2>7. LedgerOK'
    BY <2>1, <2>2, <2>3, <2>5, <2>6 DEF Applying, TypeOK, LedgerOK, Known, exchange, process, counters
  <2>. QED
    BY <2>4, <2>7 DEF TypeOK, ExchangeOK, LedgerOK
<1>7. CASE insert_fill \/ on_event_failed
  BY SMTT(30), <1>7 DEF insert_fill, on_event_failed, Settle, TypeOK, Sent, Known, exchange, process, tables, counters
<1>8. CASE order_status \/ delete_fills
  <2>1. "at" \in DOMAIN loop'
    BY <1>8 DEF order_status, AfterOpen, AfterFilled, AtRest, delete_fills
  <2>. QED
    BY SMTT(30), <1>8, <2>1 DEF order_status, delete_fills, TypeOK, Sent, Known, exchange, tables, counters
<1>9. CASE delete_orders
  <2>1. \A o \in OrderIds : rows'[o] # NONE => rows'[o] = rows[o]
    BY <1>9 DEF delete_orders
  <2>2. rows' = [o \in OrderIds |-> rows'[o]] /\ epoch' = epoch + 1 /\ loop' = AtRest
    BY <1>9 DEF delete_orders
  <2>3. "at" \in DOMAIN AtRest
    BY DEF AtRest
  <2>4. epoch + 1 \in Nat
    BY DEF TypeOK
  <2>. QED
    BY SMTT(30), <1>9, <2>1, <2>2, <2>3, <2>4 DEF delete_orders, TypeOK, Sent, Known, exchange, counters
<1>10. CASE reader_ended
  <2>1. stream' = <<>> /\ UNCHANGED <<exchange, epoch, handling, tables, faults>>
    BY <1>10 DEF reader_ended
  <2>2. "at" \in DOMAIN loop'
    <3>1. loop' = loop \/ loop' = Placed \/ loop' = AtRest
      BY <1>10 DEF reader_ended, LoopCut
    <3>2. "at" \in DOMAIN AtRest /\ "at" \in DOMAIN loop
      BY DEF AtRest, TypeOK
    <3>. QED
      BY <3>1, <3>2, AfterPlaced
  <2>3. ExchangeOK'
    BY <2>1, NothingSent, SameExchange
  <2>4. LedgerOK'
    BY <2>1, <2>2 DEF TypeOK, LedgerOK, Known, exchange, tables
  <2>. QED
    BY <2>3, <2>4 DEF TypeOK, ExchangeOK, LedgerOK
<1>11. CASE restart
  <2>1. /\ stream' = <<>> /\ handling' = NONE /\ epoch' = Last_epoch /\ faults' = faults + 1
        /\ loop' = AtRest /\ UNCHANGED <<exchange, tables>>
    BY <1>11 DEF restart
  <2>2. "at" \in DOMAIN AtRest /\ faults + 1 \in Nat
    BY DEF AtRest, TypeOK
  <2>3. ExchangeOK'
    BY <2>1, NothingSent, SameExchange
  <2>4. LedgerOK'
    BY <2>1, <2>2, LastEpoch DEF TypeOK, LedgerOK, Known, exchange, tables
  <2>. QED
    BY <2>3, <2>4 DEF TypeOK, ExchangeOK, LedgerOK
<1>. QED
  BY <1>1, <1>2, <1>3, <1>4, <1>5, <1>6, <1>7, <1>8, <1>9, <1>10, <1>11, Steps

LEMMA InitTyped ==
  ASSUME Init
  PROVE  TypeOK
<1>1. <<>> \in Seq(Nat) /\ <<>> \in Seq({}) /\ Len(<<>>) = 0
  BY EmptySeq
<1>2. MaxOrders \in Nat
  BY ParameterAssumption
<1>3. "at" \in DOMAIN AtRest
  BY DEF AtRest
<1>. QED
  BY <1>1, <1>2, <1>3 DEF Init, TypeOK, Sent, Known, OrderIds

\* Every state is typed: reports name orders there are, rows name reports there were.
THEOREM TypeCorrect == Spec => []TypeOK
BY InitTyped, TypeStep, PTL DEF Spec

-----------------------------------------------------------------------------
(* Rows.                                                                    *)

\* A step that does not apply a report deletes rows at most.
LEMMA RowsStay ==
  ASSUME TypeOK, [Next]_vars, ~apply_report
  PROVE  \A o \in OrderIds : rows'[o] = NONE \/ rows'[o] = rows[o]
<1>1. CASE delete_orders
  BY <1>1 DEF delete_orders
<1>. QED
  BY <1>1, Steps DEF Background, Archive, ResetNetwork, Repeat, record_event, insert_fill,
     on_event_failed, order_status, delete_fills, reader_ended, restart, tables

\* The journal only grows, and an order keeps its network.
LEMMA JournalGrows ==
  ASSUME TypeOK, [Next]_vars
  PROVE  \A i \in 1..Len(journal) :
           i \in 1..Len(journal') /\ journal'[i] = journal[i] /\ Network(i)' = Network(i)
<1>1. CASE Change
  BY <1>1, AfterChange, Lengths
<1>2. CASE UNCHANGED <<book, journal>>
  BY <1>2 DEF Network
<1>. QED
  BY <1>1, <1>2, Steps DEF Background, Archive, ResetNetwork, Repeat, record_event, apply_report,
     insert_fill, on_event_failed, order_status, delete_fills, delete_orders, reader_ended, restart,
     exchange

RowSays(row, report) ==
  <<row.status, row.executed_qty, row.orig_qty>> = <<report.status, report.executed_qty, report.orig_qty>>

LEMMA SnapshotStep ==
  ASSUME TypeOK, RowsAreSnapshots, [Next]_vars
  PROVE  RowsAreSnapshots'
<1>1. \A o \in Known : RowSays(rows[o], journal[rows[o].last_exec_id])
  BY DEF RowsAreSnapshots, RowSays
<1>2. \A o \in Known : rows[o].last_exec_id \in 1..Len(journal)
  BY DEF TypeOK
<1>3. TypeOK'
  BY TypeStep
<1>4. ASSUME NEW o \in OrderIds, rows'[o] # NONE
      PROVE  RowSays(rows'[o], journal'[rows'[o].last_exec_id])
  <2>1. CASE rows'[o] = rows[o]
    <3>1. o \in Known
      BY <1>4, <2>1 DEF Known
    <3>. QED
      BY <1>1, <1>2, <2>1, <3>1, JournalGrows
  <2>2. CASE apply_report /\ rows'[o] # rows[o]
    <3>1. PICK i, p : Applying(i, p)
      BY <2>2, ApplyIs
    <3>2. o = p /\ (rows[p] = NONE \/ i > rows[p].last_exec_id) /\ journal' = journal
      BY <2>2, <3>1 DEF Applying, exchange
    <3>3. PICK c, v, e : rows'[o] = Snapshot(i, c, v, e)
      BY SMTT(30), <3>1, <3>2 DEF Applying
    <3>. QED
      BY <3>2, <3>3 DEF Snapshot, RowSays
  <2>. QED
    BY <1>4, <2>1, <2>2, RowsStay
<1>5. \A o \in OrderIds : rows'[o] # NONE => journal'[rows'[o].last_exec_id].order = o
  BY <1>3 DEF TypeOK, Known
<1>. QED
  BY <1>4, <1>5 DEF RowsAreSnapshots, RowSays, Known

\* No column of an older report is mixed into a row, whatever is repeated, overtaken, lost
\* or deleted.
THEOREM RowIsOneReport == Spec => []RowsAreSnapshots
<1>1. Init => RowsAreSnapshots
  BY DEF Init, RowsAreSnapshots, Known
<1>2. TypeOK /\ RowsAreSnapshots /\ [Next]_vars => (TypeOK /\ RowsAreSnapshots)'
  BY TypeStep, SnapshotStep
<1>. QED
  BY <1>1, <1>2, InitTyped, PTL DEF Spec

\* A row that changes takes the next version, from a later report.
THEOREM VersionsRise == Spec => VersionsCountChanges
<1>1. ASSUME TypeOK, [Next]_vars, NEW o \in Known, rows'[o] # NONE, rows'[o] # rows[o]
      PROVE  /\ rows'[o].version = rows[o].version + 1
             /\ rows'[o].last_exec_id > rows[o].last_exec_id
  <2>1. o \in OrderIds /\ rows[o] # NONE
    BY DEF Known
  <2>2. apply_report
    BY <1>1, <2>1, RowsStay
  <2>3. PICK i, p : Applying(i, p)
    BY <1>1, <2>2, ApplyIs
  <2>4. o = p /\ i > rows[p].last_exec_id /\ rows'[p].version = rows[p].version + 1
    BY <1>1, <2>1, <2>3 DEF Applying
  <2>5. PICK c, v, e : rows'[o] = Snapshot(i, c, v, e)
    BY SMTT(30), <2>3, <2>4 DEF Applying
  <2>. QED
    BY <2>4, <2>5 DEF Snapshot
<1>2. TypeOK /\ [Next]_vars =>
        [\A o \in Known : rows'[o] \notin {NONE, rows[o]} =>
           /\ rows'[o].version = rows[o].version + 1
           /\ rows'[o].last_exec_id > rows[o].last_exec_id]_vars
  BY <1>1
<1>. QED
  BY <1>2, TypeCorrect, PTL DEF Spec, VersionsCountChanges

-----------------------------------------------------------------------------
(* Resets.                                                                  *)

\* An order's network is never older than the epoch its row was given, nor than the epoch
\* at which its report arrives.
RowEpochs == \A o \in Known : rows[o].reset_epoch <= book[o].gen
ReportEpochs ==
  /\ \A i \in Sent : epoch <= Network(i)
  /\ handling # NONE => epoch <= Network(handling.exec)

\* A filled order stays filled, so that the exchange does not forget it.
FilledOnce ==
  \A i \in 1..Len(journal) :
    journal[i].status = "FILLED" => book[journal[i].order].status = "FILLED"
ForgetsUnfilled ==
  \A o \in archived : o \in 1..Len(book) /\ book[o].status \in {"CANCELED", "EXPIRED"}

\* What check_reset knows when it asks for the filled order, and when it deletes.
Asking ==
  loop.at = "askFilled" => /\ loop.order \in 1..Len(book)
                           /\ book[loop.order].status = "FILLED"
                           /\ epoch <= book[loop.order].gen
Sure ==
  Wiping => /\ handling = NONE /\ epoch < generation
            /\ \A i \in Sent : epoch < Network(i)

EpochInv == RowEpochs /\ ReportEpochs /\ FilledOnce /\ ForgetsUnfilled /\ Asking /\ Sure /\ NoFalseReset

LEMMA KnownExists ==
  ASSUME TypeOK
  PROVE  \A o \in Known : o \in OrderIds /\ o \in 1..Len(book)
BY DEF TypeOK, Known

LEMMA OrdersStay ==
  ASSUME TypeOK, [Next]_vars
  PROVE  /\ \A o \in 1..Len(book) : /\ o \in 1..Len(book') /\ book'[o].gen = book[o].gen
                                    /\ book[o].status \notin Live => book'[o] = book[o]
         /\ generation <= generation' /\ generation \in Nat /\ generation' \in Nat
<1>1. CASE Change
  <2>1. \A o \in 1..Len(book) : book[o].status \notin Live => book'[o] = book[o]
    BY <1>1 DEF Change, Reporting
  <2>2. generation \in Nat
    BY DEF TypeOK
  <2>3. generation' = generation /\ \A o \in 1..Len(book) : o \in 1..Len(book') /\ book'[o].gen = book[o].gen
    BY <1>1, AfterChange
  <2>. QED
    BY <2>1, <2>2, <2>3
<1>2. CASE book' = book /\ (generation' = generation \/ generation' = generation + 1)
  BY <1>2 DEF TypeOK
<1>. QED
  BY <1>1, <1>2, Steps DEF Background, Archive, ResetNetwork, Repeat, record_event, apply_report,
     insert_fill, on_event_failed, order_status, delete_fills, delete_orders, reader_ended, restart,
     exchange

\* A report on its way was on its way before, or is one of an order the exchange has.
LEMMA SentStep ==
  ASSUME TypeOK, [Next]_vars
  PROVE  \A i \in Sent' : \/ i \in Sent /\ Network(i)' = Network(i)
                          \/ Network(i)' = generation
<1>1. \A i \in Sent : Network(i)' = Network(i)
  BY JournalGrows DEF TypeOK
<1>2. CASE Change
  BY <1>1, <1>2, AfterChange
<1>3. CASE Sent' \subseteq Sent
  BY <1>1, <1>3
<1>4. CASE Repeat
  <2>1. PICK i \in 1..Len(journal) : OfNetwork(i) /\ stream' = Append(stream, i)
    BY <1>4, Lengths DEF Repeat
  <2>2. i \in Nat /\ stream \in Seq(Nat) /\ Len(stream) \in Nat
    BY Lengths DEF TypeOK
  <2>3. /\ Len(stream') = Len(stream) + 1
        /\ \A k \in 1..Len(stream) : stream'[k] = stream[k]
        /\ stream'[Len(stream) + 1] = i
    <3>1. \A s \in Seq(Nat), e \in Nat :
            /\ Len(Append(s, e)) = Len(s) + 1
            /\ \A k \in 1..Len(s) : Append(s, e)[k] = s[k]
            /\ Append(s, e)[Len(s) + 1] = e
      BY AppendProperties
    <3>. QED
      BY <2>1, <2>2, <3>1
  <2>4. \A j \in Sent' : j \in Sent \/ j = i
    <3>1. \A k \in 1..Len(stream) + 1 : k \in 1..Len(stream) \/ k = Len(stream) + 1
      BY <2>2
    <3>. QED
      BY <2>3, <3>1 DEF Sent
  <2>5. \A j \in 1..Len(journal) : Network(j)' = Network(j)
    BY JournalGrows
  <2>6. Network(i) = generation
    BY <2>1 DEF OfNetwork, Network
  <2>. QED
    BY <1>1, <2>4, <2>5, <2>6
<1>5. CASE record_event
  <2>1. PICK i \in 1..Len(stream) : stream' = RemoveAt(stream, i)
    BY <1>5, Lengths DEF record_event, Take
  <2>2. \A q \in Seq(Nat) : \A k \in 1..Len(q) :
          \A m \in 1..Len(RemoveAt(q, k)) : \E l \in 1..Len(q) : RemoveAt(q, k)[m] = q[l]
    BY RemovedFrom
  <2>3. stream \in Seq(Nat)
    BY DEF TypeOK
  <2>4. \A m \in 1..Len(stream') : \E l \in 1..Len(stream) : stream'[m] = stream[l]
    BY <2>1, <2>2, <2>3
  <2>5. Sent' \subseteq Sent
    BY <2>4 DEF Sent
  <2>. QED
    BY <1>3, <2>5
<1>6. CASE stream' = stream
  BY <1>3, <1>6 DEF Sent
<1>7. CASE stream' = <<>>
  BY <1>3, <1>7, NothingSent
<1>. QED
  BY <1>2, <1>4, <1>5, <1>6, <1>7, Steps DEF Background, Archive, ResetNetwork, apply_report,
     insert_fill, on_event_failed, order_status, delete_fills, delete_orders, reader_ended, restart

\* The epoch and what on_event holds.
LEMMA EpochMoves ==
  ASSUME TypeOK, [Next]_vars
  PROVE  /\ \/ epoch' = epoch
            \/ delete_orders
            \/ restart /\ epoch' <= epoch /\ epoch' \in Nat /\ handling' = NONE /\ Sent' = {}
         /\ \/ handling' = NONE
            \/ handling # NONE /\ handling'.exec = handling.exec
            \/ record_event /\ handling'.exec \in Sent
<1>1. CASE restart
  <2>1. Len(<<>>) = 0
    BY EmptySeq
  <2>. QED
    BY <1>1, <2>1, LastEpoch DEF restart, Sent
<1>2. CASE record_event
  BY <1>2, Lengths DEF record_event, Settle, process, Sent
<1>3. CASE apply_report
  <2>1. PICK i, o : Applying(i, o)
    BY <1>3, ApplyIs
  <2>2. epoch' = epoch /\ (handling' = NONE \/ (handling # NONE /\ handling'.exec = handling.exec))
    BY <2>1 DEF Applying, process
  <2>. QED
    BY <2>2
<1>4. CASE insert_fill \/ on_event_failed
  BY <1>4 DEF insert_fill, on_event_failed, Settle, process
<1>. QED
  BY <1>1, <1>2, <1>3, <1>4, Steps DEF Background, Archive, ResetNetwork, Repeat, order_status,
     delete_fills, delete_orders, reader_ended, process

\* The order check_reset asks for is one the ledger has as filled.
LEMMA LastFilled ==
  ASSUME TypeOK, filled_orders # {}
  PROVE  last_filled \in filled_orders
<1>. DEFINE S == {rows[o].last_exec_id : o \in filled_orders}
<1>1. \A o \in filled_orders : rows[o].last_exec_id \in 1..Len(journal)
  BY DEF filled_orders, TypeOK
<1>2. Len(journal) \in Nat
  BY Lengths
<1>3. \A n \in 1..Len(journal) : n \in 0..Len(journal)
  BY <1>2
<1>4. S \in SUBSET (0..Len(journal)) /\ S # {}
  BY <1>1, <1>3
<1>5. \A b \in Nat : \A T \in SUBSET (0..b) : T # {} => \E x \in T : \A y \in T : x >= y
  BY Largest
<1>6. PICK x \in S : \A y \in S : x >= y
  <2>. HIDE DEF S
  <2>. QED
    BY <1>2, <1>4, <1>5
<1>7. PICK o \in filled_orders : x = rows[o].last_exec_id
  BY <1>6
<1>8. \A p \in filled_orders : rows[p].last_exec_id <= rows[o].last_exec_id
  <2>1. ASSUME NEW p \in filled_orders
        PROVE  rows[p].last_exec_id <= rows[o].last_exec_id
    <3>1. rows[p].last_exec_id \in S
      OBVIOUS
    <3>2. rows[o].last_exec_id >= rows[p].last_exec_id
      BY <1>6, <1>7, <3>1
    <3>3. rows[o].last_exec_id \in Nat /\ rows[p].last_exec_id \in Nat
      BY <1>1, <1>2
    <3>. QED
      BY <3>2, <3>3
  <2>. QED
    BY <2>1
<1>. QED
  BY <1>8 DEF last_filled

LEMMA RowIsReport ==
  ASSUME TypeOK, RowsAreSnapshots
  PROVE  \A o \in Known : LET r == journal[rows[o].last_exec_id]
                          IN  /\ rows[o].last_exec_id \in 1..Len(journal)
                              /\ r.order = o /\ r.status = rows[o].status
BY DEF TypeOK, RowsAreSnapshots

LEMMA SureStep ==
  ASSUME TypeOK, RowsAreSnapshots, EpochInv, [Next]_vars
  PROVE  Sure' /\ NoFalseReset' /\ Asking'
<1>1. generation <= generation' /\ generation \in Nat /\ generation' \in Nat /\ epoch \in Nat
  BY OrdersStay DEF TypeOK
<1>2. epoch <= generation
  BY DEF EpochInv, NoFalseReset
<1>3. NoFalseReset'
  <2>1. CASE delete_orders
    <3>1. epoch' = epoch + 1 /\ epoch < generation
      BY <2>1 DEF delete_orders, EpochInv, Sure, Wiping
    <3>. QED
      BY <1>1, <3>1 DEF NoFalseReset
  <2>2. CASE epoch' = epoch \/ (epoch' <= epoch /\ epoch' \in Nat)
    BY <1>1, <1>2, <2>2 DEF NoFalseReset
  <2>. QED
    BY <2>1, <2>2, EpochMoves
<1>4. CASE order_status
  <2>1. /\ handling = NONE /\ handling' = handling /\ epoch' = epoch
        /\ UNCHANGED <<exchange, stream>>
        /\ \A k \in 1..Len(stream) : OfNetwork(stream[k])
        /\ \/ loop.at = "askOpen" /\ loop' = AfterOpen
           \/ loop.at = "askFilled" /\ loop' = AfterFilled
    BY <1>4, Lengths DEF order_status, Idle
  <2>2. \A i \in Sent : Network(i) = generation
    BY <2>1 DEF Sent, OfNetwork, Network
  <2>3. CASE loop' = AtRest
    BY <1>3, <2>3 DEF AtRest, Sure, Asking, Wiping
  <2>4. CASE loop.at = "askOpen" /\ loop' # AtRest
    <3>1. filled_orders # {} /\ loop' = [at |-> "askFilled", order |-> last_filled]
      BY <2>1, <2>4 DEF AfterOpen
    <3>2. last_filled \in filled_orders
      BY <3>1, LastFilled
    <3>3. last_filled \in Known /\ rows[last_filled].status = "FILLED"
          /\ rows[last_filled].reset_epoch = epoch
      BY <3>2 DEF filled_orders
    <3>4. journal[rows[last_filled].last_exec_id].status = "FILLED"
          /\ journal[rows[last_filled].last_exec_id].order = last_filled
          /\ rows[last_filled].last_exec_id \in 1..Len(journal)
      BY <3>3, RowIsReport
    <3>5. book[last_filled].status = "FILLED" /\ epoch <= book[last_filled].gen
          /\ last_filled \in 1..Len(book)
      BY <3>3, <3>4, KnownExists DEF EpochInv, FilledOnce, RowEpochs
    <3>6. loop'.at = "askFilled" /\ loop'.order = last_filled /\ book' = book
      BY <2>1, <3>1 DEF exchange
    <3>. QED
      BY <1>3, <2>1, <3>5, <3>6 DEF Sure, Asking, Wiping
  <2>5. CASE loop.at = "askFilled" /\ loop' # AtRest
    <3>1. loop' = [at |-> "wipeFills"] /\ ~Exists(loop.order)
      BY <2>1, <2>5 DEF AfterFilled
    <3>2. loop.order \in 1..Len(book) /\ book[loop.order].status = "FILLED"
          /\ epoch <= book[loop.order].gen
      BY <2>5 DEF EpochInv, Asking
    <3>3. loop.order \notin archived
      BY <3>2 DEF EpochInv, ForgetsUnfilled
    <3>4. book[loop.order].gen # generation
      BY <3>1, <3>2, <3>3, Lengths DEF Exists
    <3>5. book[loop.order].gen <= generation /\ book[loop.order].gen \in Nat
      BY <3>2 DEF TypeOK
    <3>6. epoch < generation
      BY <1>1, <3>2, <3>4, <3>5
    <3>7. loop'.at = "wipeFills"
      BY <3>1
    <3>8. Sure'
      BY <2>1, <2>2, <3>6 DEF Sure, exchange, Sent, Network
    <3>. QED
      BY <1>3, <3>7, <3>8 DEF Asking
  <2>. QED
    BY <2>1, <2>3, <2>4, <2>5
<1>5. CASE loop' = loop /\ ~record_event /\ ~restart /\ ~delete_orders
  <2>1. epoch' = epoch
    BY <1>5, EpochMoves
  <2>2. Asking'
    BY <1>5, <2>1, OrdersStay DEF Asking, EpochInv, Live
  <2>3. ASSUME Wiping
        PROVE  handling' = NONE
    BY <1>5, <2>3, EpochMoves DEF EpochInv, Sure
  <2>4. ASSUME Wiping, NEW i \in Sent'
        PROVE  epoch < Network(i)'
    BY <1>1, <2>4, SentStep DEF EpochInv, Sure
  <2>5. Wiping => epoch < generation'
    BY <1>1 DEF EpochInv, Sure
  <2>. QED
    BY <1>3, <1>5, <2>1, <2>2, <2>3, <2>4, <2>5 DEF Sure, Wiping
<1>6. CASE loop'.at \notin {"askFilled", "wipeFills", "wipeOrders"}
  BY <1>3, <1>6 DEF Sure, Asking, Wiping
<1>7. CASE delete_fills
  <2>1. Wiping /\ loop'.at = "wipeOrders" /\ UNCHANGED <<exchange, stream, epoch, handling>>
    BY <1>7 DEF delete_fills, Wiping
  <2>. QED
    BY <1>3, <2>1 DEF EpochInv, Sure, Asking, exchange, Sent, Network
<1>8. CASE record_event
  <2>1. loop' = loop /\ ~Wiping /\ UNCHANGED <<exchange, epoch>>
    BY <1>8 DEF record_event, process
  <2>. QED
    BY <1>3, <2>1 DEF EpochInv, Sure, Asking, Wiping, exchange
<1>9. CASE restart \/ delete_orders
  <2>1. loop' = AtRest
    BY <1>9 DEF restart, delete_orders
  <2>. QED
    BY <1>6, <2>1 DEF AtRest
<1>10. CASE reader_ended
  <2>1. loop' = loop \/ loop' = Placed \/ loop' = AtRest
    BY <1>10 DEF reader_ended, LoopCut
  <2>2. AtRest.at = "rest" /\ Placed.at = "place"
    BY AfterPlaced DEF AtRest
  <2>3. (~record_event /\ ~restart /\ ~delete_orders)
        \/ loop'.at \notin {"askFilled", "wipeFills", "wipeOrders"}
    BY <1>10 DEF reader_ended, record_event, restart, delete_orders, AtRest, process
  <2>. QED
    BY <1>5, <1>6, <2>1, <2>2, <2>3
<1>11. CASE Background
  BY <1>5, <1>6, <1>8, <1>9, <1>11 DEF Background
<1>12. CASE loop' = loop
  BY <1>5, <1>8, <1>9, <1>12
<1>. QED
  BY <1>4, <1>7, <1>8, <1>9, <1>10, <1>11, <1>12, Steps DEF Archive, ResetNetwork, Repeat,
     apply_report, insert_fill, on_event_failed, process

LEMMA ReportStep ==
  ASSUME TypeOK, EpochInv, [Next]_vars
  PROVE  ReportEpochs'
<1>1. generation \in Nat /\ epoch \in Nat /\ epoch <= generation
  BY DEF TypeOK, EpochInv, NoFalseReset
<1>2. \A i \in Sent : epoch <= Network(i) /\ Network(i) \in Nat
  BY DEF EpochInv, ReportEpochs, Network, TypeOK
<1>3. CASE delete_orders
  <2>1. Wiping /\ epoch' = epoch + 1 /\ UNCHANGED <<exchange, stream, handling>>
    BY <1>3 DEF delete_orders, Wiping
  <2>2. handling = NONE /\ \A i \in Sent : epoch < Network(i)
    BY <2>1 DEF EpochInv, Sure
  <2>3. \A i \in Sent : epoch + 1 <= Network(i)
    BY <1>1, <1>2, <2>2
  <2>. QED
    BY <2>1, <2>2, <2>3 DEF ReportEpochs, exchange, Sent, Network
<1>4. CASE restart
  <2>1. Len(<<>>) = 0
    BY EmptySeq
  <2>2. handling' = NONE /\ stream' = <<>>
    BY <1>4 DEF restart
  <2>3. Sent' = {}
    BY <2>1, <2>2 DEF Sent
  <2>. QED
    BY <2>2, <2>3 DEF ReportEpochs
<1>5. CASE epoch' = epoch /\ ~delete_orders /\ ~restart
  <2>1. \A i \in Sent' : epoch' <= Network(i)'
    BY <1>1, <1>2, <1>5, SentStep
  <2>2. handling' # NONE => \/ handling # NONE /\ handling'.exec = handling.exec
                            \/ handling'.exec \in Sent
    BY EpochMoves
  <2>3. \A i \in 1..Len(journal) : Network(i)' = Network(i)
    BY JournalGrows
  <2>4. handling # NONE => handling.exec \in 1..Len(journal) /\ epoch <= Network(handling.exec)
    BY DEF TypeOK, EpochInv, ReportEpochs
  <2>5. \A i \in Sent : i \in 1..Len(journal)
    BY DEF TypeOK
  <2>6. \A i : i \in 1..Len(journal) /\ epoch <= Network(i) => epoch' <= Network(i)'
    BY <1>5, <2>3
  <2>7. handling' # NONE =>
          handling'.exec \in 1..Len(journal) /\ epoch <= Network(handling'.exec)
    BY <1>2, <2>2, <2>4, <2>5
  <2>8. handling' # NONE => epoch' <= book'[journal'[handling'.exec].order].gen
    BY <2>6, <2>7 DEF Network
  <2>. QED
    BY <2>1, <2>8 DEF ReportEpochs, Network
<1>. QED
  BY <1>3, <1>4, <1>5, EpochMoves

LEMMA RowEpochStep ==
  ASSUME TypeOK, EpochInv, [Next]_vars
  PROVE  RowEpochs'
<1>1. \A o \in Known : o \in OrderIds /\ o \in 1..Len(book) /\ rows[o].reset_epoch <= book[o].gen
  BY KnownExists DEF EpochInv, RowEpochs
<1>2. ASSUME NEW o \in OrderIds, rows'[o] # NONE
      PROVE  rows'[o].reset_epoch <= book'[o].gen
  <2>1. CASE rows'[o] = rows[o]
    <3>1. o \in Known
      BY <1>2, <2>1 DEF Known
    <3>. QED
      BY <1>1, <2>1, <3>1, OrdersStay
  <2>2. CASE apply_report /\ rows'[o] # rows[o]
    <3>1. PICK i, p : Applying(i, p)
      BY <2>2, ApplyIs
    <3>2. o = p /\ o = journal[i].order /\ book' = book
          /\ (rows'[o].reset_epoch = epoch
              \/ (rows[o] # NONE /\ rows'[o].reset_epoch = rows[o].reset_epoch))
      BY <2>2, <3>1 DEF Applying, exchange
    <3>3. epoch <= book[o].gen
      BY <3>1, <3>2 DEF Applying, EpochInv, ReportEpochs, Network
    <3>4. rows[o] # NONE => rows[o].reset_epoch <= book[o].gen
      BY <1>1, <1>2 DEF Known
    <3>. QED
      BY <3>2, <3>3, <3>4
  <2>. QED
    BY <1>2, <2>1, <2>2, RowsStay
<1>. QED
  BY <1>2 DEF RowEpochs, Known

LEMMA FilledStep ==
  ASSUME TypeOK, EpochInv, [Next]_vars
  PROVE  FilledOnce' /\ ForgetsUnfilled'
<1>1. \A i \in 1..Len(journal) :
        /\ journal[i].order \in 1..Len(book)
        /\ journal[i].status = "FILLED" => book[journal[i].order].status = "FILLED"
  BY DEF TypeOK, EpochInv, FilledOnce
<1>2. \A o \in 1..Len(book) : /\ o \in 1..Len(book')
                              /\ book[o].status \notin Live => book'[o] = book[o]
  BY OrdersStay
<1>3. \A i \in 1..Len(journal) :
        journal'[i].status = "FILLED" => book'[journal'[i].order].status = "FILLED"
  BY <1>1, <1>2, JournalGrows DEF Live
<1>4. FilledOnce'
  <2>1. CASE Change
    <3>1. PICK o \in OrderIds : Reporting(o)
      BY <2>1 DEF Change
    <3>2. \A i : i = Len(journal) + 1 => journal'[i].order = o /\ journal'[i].status = book'[o].status
      BY <3>1 DEF Reporting
    <3>3. \A i \in 1..Len(journal') : i \in 1..Len(journal) \/ i = Len(journal) + 1
      BY <2>1, AfterChange
    <3>. QED
      BY <1>3, <3>2, <3>3 DEF FilledOnce
  <2>2. CASE journal' = journal
    BY <1>3, <2>2 DEF FilledOnce
  <2>. QED
    BY <2>1, <2>2, Steps DEF Background, Archive, ResetNetwork, Repeat, record_event, apply_report,
       insert_fill, on_event_failed, order_status, delete_fills, delete_orders, reader_ended,
       restart, exchange
<1>5. ForgetsUnfilled'
  <2>1. \A o \in archived : o \in 1..Len(book') /\ book'[o].status \in {"CANCELED", "EXPIRED"}
    BY <1>2 DEF EpochInv, ForgetsUnfilled, Live
  <2>2. CASE \E o \in DOMAIN book : Archive(o)
    <3>1. PICK o \in 1..Len(book) : Archive(o)
      BY <2>2, Lengths
    <3>2. archived' = archived \cup {o} /\ book' = book /\ book[o].status \in {"CANCELED", "EXPIRED"}
      BY <3>1 DEF Archive
    <3>. QED
      BY <2>1, <3>1, <3>2 DEF ForgetsUnfilled
  <2>3. CASE Change
    BY <2>1, <2>3, AfterChange DEF ForgetsUnfilled
  <2>4. CASE archived' = archived
    BY <2>1, <2>4 DEF ForgetsUnfilled
  <2>. QED
    BY <2>2, <2>3, <2>4, Steps DEF Background, ResetNetwork, Repeat, record_event, apply_report,
       insert_fill, on_event_failed, order_status, delete_fills, delete_orders, reader_ended,
       restart, exchange
<1>. QED
  BY <1>4, <1>5

\* The trader never counts a reset the network did not have, whatever was cancelled,
\* expired, forgotten, reported late or lost, and however often it was restarted.
THEOREM NoResetTooMany == Spec => []NoFalseReset
<1>1. Init => RowsAreSnapshots /\ EpochInv
  <2>1. Len(<<>>) = 0
    BY EmptySeq
  <2>. QED
    BY <2>1 DEF Init, RowsAreSnapshots, EpochInv, RowEpochs, ReportEpochs, FilledOnce, ForgetsUnfilled,
       Asking, Sure, NoFalseReset, Known, Sent, AtRest, Wiping
<1>2. TypeOK /\ RowsAreSnapshots /\ EpochInv /\ [Next]_vars
        => (TypeOK /\ RowsAreSnapshots /\ EpochInv)'
  BY TypeStep, SnapshotStep, SureStep, ReportStep, RowEpochStep, FilledStep DEF EpochInv
<1>3. EpochInv => NoFalseReset
  BY DEF EpochInv
<1>. QED
  BY <1>1, <1>2, <1>3, InitTyped, PTL DEF Spec

-----------------------------------------------------------------------------
(* Recorded and applied.                                                    *)

\* The value that stands for no row and no report is neither.
NoneIsNoRecord ==
  /\ \A e, a : [exec |-> e, at |-> a] # NONE
  /\ \A s, x, q, l, c, v, e :
       [status |-> s, executed_qty |-> x, orig_qty |-> q, last_exec_id |-> l, fill_count |-> c,
        version |-> v, reset_epoch |-> e] # NONE

\* MySQL does not fail, the process does not die, and the network is not reset.
Undisturbed == MaxFaults = 0 /\ MaxResets = 0

InHand(i) == handling # NONE /\ handling.exec = i
RowHas(i) == rows[journal[i].order] # NONE /\ rows[journal[i].order].last_exec_id >= i

\* The report on_event is at may still lack its row, or its fill.
AppliedInv ==
  /\ generation = 0
  /\ \A i \in fills : i \in raw /\ IsFill(i)
  /\ \A o \in Known : rows[o].last_exec_id \in raw
  /\ \A i \in raw : /\ RowHas(i) \/ (InHand(i) /\ handling.at = "recorded")
                    /\ IsFill(i) => i \in fills \/ InHand(i)
  /\ handling # NONE /\ handling.at = "upserted" => IsFill(handling.exec)

LEMMA Undisturbing ==
  ASSUME Undisturbed, TypeOK, EpochInv, AppliedInv
  PROVE  ~ResetNetwork /\ ~on_event_failed /\ ~restart /\ ~delete_fills /\ ~delete_orders
<1>1. generation = 0 /\ faults \in Nat /\ epoch \in Nat
  BY DEF AppliedInv, TypeOK
<1>2. ~Wiping
  <2>1. Wiping => epoch < generation
    BY DEF EpochInv, Sure
  <2>. QED
    BY <1>1, <2>1
<1>. QED
  BY <1>1, <1>2 DEF Undisturbed, ResetNetwork, on_event_failed, restart, delete_fills, delete_orders,
     Wiping

\* When the row has the report in hand, what is left of it is the fill.
LEMMA AppliedEnd ==
  ASSUME NoneIsNoRecord, TypeOK, AppliedInv, generation' = 0
  PROVE  \A i, o :
           /\ Applying(i, o)
           /\ rows'[o] # NONE /\ rows'[o].last_exec_id >= i /\ rows'[o].last_exec_id \in raw
           /\ rows[o] # NONE => rows'[o].last_exec_id >= rows[o].last_exec_id
           => AppliedInv'
<1>. SUFFICES ASSUME NEW i, NEW o, Applying(i, o),
                     rows'[o] # NONE, rows'[o].last_exec_id >= i, rows'[o].last_exec_id \in raw,
                     rows[o] # NONE => rows'[o].last_exec_id >= rows[o].last_exec_id
              PROVE  AppliedInv'
  OBVIOUS
<1>1. /\ handling # NONE /\ handling.at = "recorded" /\ i = handling.exec
      /\ raw' = raw /\ fills' = fills /\ journal' = journal
      /\ o = journal[i].order /\ o \in OrderIds
      /\ \A p \in OrderIds : p # o => rows'[p] = rows[p]
  BY DEF Applying, exchange
<1>2. \A k \in raw : k \in Nat /\ journal[k].order \in OrderIds
  <2>1. \A k \in raw : k \in 1..Len(journal) /\ journal[k].order \in 1..Len(book)
    BY DEF TypeOK
  <2>2. Len(book) <= MaxOrders /\ Len(book) \in Nat /\ Len(journal) \in Nat /\ MaxOrders \in Nat
    BY Lengths DEF TypeOK
  <2>. QED
    BY <2>1, <2>2 DEF OrderIds
<1>3. \A p \in Known : rows[p].last_exec_id \in raw /\ rows[p].last_exec_id \in Nat
  BY <1>2 DEF AppliedInv
<1>4. ASSUME NEW k \in raw
      PROVE  RowHas(k)'
  <2>1. CASE k = i
    BY <1>1, <2>1 DEF RowHas
  <2>2. CASE k # i
    <3>1. rows[journal[k].order] # NONE /\ rows[journal[k].order].last_exec_id >= k
      BY <1>1, <2>2 DEF AppliedInv, InHand, RowHas
    <3>2. CASE journal[k].order # o
      BY <1>1, <1>2, <3>1, <3>2 DEF RowHas
    <3>3. CASE journal[k].order = o
      <4>1. rows'[o].last_exec_id >= rows[o].last_exec_id /\ rows[o].last_exec_id >= k
        BY <3>1, <3>3
      <4>2. rows'[o].last_exec_id \in Nat /\ rows[o].last_exec_id \in Nat /\ k \in Nat
        BY <1>1, <1>2, <1>3, <3>1, <3>3 DEF Known
      <4>3. rows'[o].last_exec_id >= k
        BY <4>1, <4>2
      <4>. QED
        BY <1>1, <3>3, <4>3 DEF RowHas
    <3>. QED
      BY <3>2, <3>3
  <2>. QED
    BY <2>1, <2>2
<1>5. ASSUME NEW k \in raw, IsFill(k)
      PROVE  k \in fills \/ InHand(k)'
  <2>1. k \in fills \/ k = i
    BY <1>1, <1>5 DEF AppliedInv, InHand
  <2>2. k = i => handling' = [exec |-> i, at |-> "upserted"]
    BY <1>5 DEF Applying
  <2>3. k = i => handling' # NONE /\ handling'.exec = k
    BY <2>2 DEF NoneIsNoRecord
  <2>. QED
    BY <2>1, <2>3 DEF InHand
<1>6. \A p \in OrderIds : rows'[p] # NONE => rows'[p].last_exec_id \in raw
  BY <1>1, <1>3 DEF Known
<1>7. handling' # NONE => IsFill(i) /\ handling'.exec = i
  BY SMTT(30) DEF Applying
<1>8. handling' # NONE => journal'[handling'.exec].type = "TRADE"
  BY <1>1, <1>7 DEF IsFill
<1>9. \A k \in fills : k \in raw /\ IsFill(k)
  BY DEF AppliedInv
<1>. QED
  BY <1>1, <1>4, <1>5, <1>6, <1>8, <1>9 DEF AppliedInv, Known, IsFill

LEMMA AppliedStep ==
  ASSUME NoneIsNoRecord, Undisturbed, TypeOK, EpochInv, AppliedInv, [Next]_vars
  PROVE  AppliedInv'
<1>1. \A i \in raw : i \in 1..Len(journal)
  BY DEF TypeOK
<1>2. \A i \in raw : journal'[i] = journal[i] /\ (IsFill(i)' <=> IsFill(i))
  BY <1>1, JournalGrows DEF IsFill
<1>3. generation' = 0
  <2>1. CASE Change
    BY <2>1, AfterChange DEF AppliedInv
  <2>2. CASE generation' = generation
    BY <2>2 DEF AppliedInv
  <2>. QED
    BY <2>1, <2>2, Undisturbing, Steps DEF Background, Archive, Repeat, record_event, apply_report,
       insert_fill, order_status, reader_ended, exchange
<1>4. CASE UNCHANGED <<handling, tables>>
  <2>1. handling' = handling /\ raw' = raw /\ rows' = rows /\ fills' = fills
    BY <1>4 DEF tables
  <2>2. \A i \in fills' : i \in raw' /\ IsFill(i)'
    BY <1>2, <2>1 DEF AppliedInv
  <2>3. \A o \in Known' : rows'[o].last_exec_id \in raw'
    BY <2>1 DEF AppliedInv, Known
  <2>4. \A i \in raw' : /\ RowHas(i)' \/ (InHand(i)' /\ handling'.at = "recorded")
                        /\ IsFill(i)' => i \in fills' \/ InHand(i)'
    BY <1>2, <2>1 DEF AppliedInv, RowHas, InHand
  <2>5. handling # NONE => handling.exec \in raw
    BY DEF TypeOK
  <2>6. handling' # NONE /\ handling'.at = "upserted" => IsFill(handling.exec)'
    <3>1. handling # NONE /\ handling.at = "upserted" => IsFill(handling.exec)
      BY DEF AppliedInv
    <3>2. handling # NONE => journal'[handling.exec] = journal[handling.exec]
      BY <1>2, <2>5
    <3>. QED
      BY <2>1, <3>1, <3>2 DEF IsFill
  <2>. QED
    BY <1>3, <2>2, <2>3, <2>4, <2>6 DEF AppliedInv
<1>5. CASE record_event
  <2>1. PICK k \in 1..Len(stream) :
          /\ raw' = raw \cup {stream[k]}
          /\ handling' = IF stream[k] \in raw THEN NONE ELSE [exec |-> stream[k], at |-> "recorded"]
    BY <1>5, Lengths DEF record_event, Settle
  <2>2. handling = NONE /\ rows' = rows /\ fills' = fills /\ journal' = journal
    BY <1>5 DEF record_event, Idle, exchange
  <2>3. \A i \in raw : RowHas(i) /\ (IsFill(i) => i \in fills)
    BY <2>2 DEF AppliedInv, InHand
  <2>4. CASE stream[k] \in raw
    <3>1. raw' = raw /\ handling' = NONE
      BY <2>1, <2>4
    <3>. QED
      BY <1>3, <2>2, <2>3, <3>1 DEF AppliedInv, Known, RowHas, InHand, IsFill
  <2>5. CASE stream[k] \notin raw
    <3>1. /\ handling' # NONE /\ handling'.exec = stream[k] /\ handling'.at = "recorded"
      BY <2>1, <2>5 DEF NoneIsNoRecord
    <3>2. \A i \in raw' : i \in raw \/ i = stream[k]
      BY <2>1
    <3>3. \A i \in raw' : /\ RowHas(i)' \/ (InHand(i)' /\ handling'.at = "recorded")
                          /\ IsFill(i)' => i \in fills' \/ InHand(i)'
      BY <2>2, <2>3, <3>1, <3>2 DEF RowHas, InHand, IsFill
    <3>. QED
      BY <1>3, <2>1, <2>2, <3>1, <3>3 DEF AppliedInv, Known, IsFill
  <2>. QED
    BY <2>4, <2>5
<1>6. CASE apply_report
  <2>1. PICK i, o : Applying(i, o)
    BY <1>6, ApplyIs
  <2>2. /\ handling # NONE /\ handling.at = "recorded" /\ i = handling.exec
        /\ raw' = raw /\ fills' = fills /\ journal' = journal
        /\ o = journal[i].order /\ o \in OrderIds
        /\ \A p \in OrderIds : p # o => rows'[p] = rows[p]
    BY <2>1 DEF Applying, exchange
  <2>3. i \in raw /\ i \in Nat
    BY <1>1, <2>2, Lengths DEF TypeOK
  <2>4. \A p \in Known : rows[p].last_exec_id \in raw /\ rows[p].last_exec_id \in Nat
    <3>1. \A k \in raw : k \in Nat
      BY <1>1, Lengths
    <3>. QED
      BY <3>1 DEF AppliedInv
  <2>5. CASE rows[o] # NONE /\ ~(i > rows[o].last_exec_id)
    <3>1. rows'[o] = rows[o]
      BY <2>1, <2>5 DEF Applying
    <3>2. rows[o].last_exec_id >= i
      BY <2>2, <2>3, <2>4, <2>5 DEF Known
    <3>3. rows'[o] # NONE /\ rows'[o].last_exec_id >= i /\ rows'[o].last_exec_id \in raw
      BY <2>2, <2>4, <2>5, <3>1, <3>2 DEF Known
    <3>4. rows[o] # NONE => rows'[o].last_exec_id >= rows[o].last_exec_id
      BY <2>2, <2>4, <2>5, <3>1 DEF Known
    <3>. QED
      BY <3>3, <3>4, AppliedEnd, <1>3, <2>1
  <2>6. CASE rows[o] = NONE \/ i > rows[o].last_exec_id
    <3>1. PICK c, v, e : rows'[o] = Snapshot(i, c, v, e)
      BY <2>1, <2>6 DEF Applying
    <3>2. rows'[o] # NONE /\ rows'[o].last_exec_id = i
      BY <3>1 DEF Snapshot, NoneIsNoRecord
    <3>3. rows'[o].last_exec_id >= i /\ rows'[o].last_exec_id \in raw
      BY <2>3, <3>2
    <3>4. rows[o] # NONE => rows'[o].last_exec_id >= rows[o].last_exec_id
      BY <2>2, <2>3, <2>4, <2>6, <3>2 DEF Known
    <3>. QED
      BY <3>2, <3>3, <3>4, AppliedEnd, <1>3, <2>1
  <2>. QED
    BY <2>5, <2>6
<1>7. CASE insert_fill
  <2>1. /\ handling # NONE /\ handling.at = "upserted" /\ handling' = NONE
        /\ fills' = fills \cup {handling.exec}
        /\ raw' = raw /\ rows' = rows /\ journal' = journal
    BY <1>7 DEF insert_fill, Idle, Settle, exchange
  <2>2. handling.exec \in raw /\ IsFill(handling.exec)
    BY <2>1 DEF TypeOK, AppliedInv
  <2>3. \A i \in raw : RowHas(i) /\ (IsFill(i) => i \in fills')
    BY <2>1 DEF AppliedInv, InHand
  <2>4. \A i \in fills' : i \in raw /\ IsFill(i)
    BY <2>1, <2>2 DEF AppliedInv
  <2>5. \A p \in Known : rows[p].last_exec_id \in raw
    BY DEF AppliedInv
  <2>. QED
    BY <1>3, <2>1, <2>3, <2>4, <2>5 DEF AppliedInv, Known, RowHas, InHand, IsFill
<1>. QED
  BY <1>4, <1>5, <1>6, <1>7, Undisturbing, Steps DEF Background, Archive, Repeat, order_status,
     reader_ended

\* Without failures and resets, whatever entered the raw log has reached the order's row
\* and, when it is a fill, the fills; and nothing else has.
THEOREM RecordedReaches ==
  ASSUME NoneIsNoRecord, Undisturbed
  PROVE  Spec => []RecordedIsApplied
<1>1. Init => RowsAreSnapshots /\ EpochInv /\ AppliedInv
  <2>1. Len(<<>>) = 0
    BY EmptySeq
  <2>. QED
    BY <2>1 DEF Init, RowsAreSnapshots, EpochInv, RowEpochs, ReportEpochs, FilledOnce, ForgetsUnfilled,
       Asking, Sure, NoFalseReset, Known, Sent, AtRest, Wiping, AppliedInv
<1>2. TypeOK /\ RowsAreSnapshots /\ EpochInv /\ AppliedInv /\ [Next]_vars
        => (TypeOK /\ RowsAreSnapshots /\ EpochInv /\ AppliedInv)'
  BY TypeStep, SnapshotStep, SureStep, ReportStep, RowEpochStep, FilledStep, AppliedStep DEF EpochInv
<1>3. AppliedInv => RecordedIsApplied
  BY DEF AppliedInv, RecordedIsApplied, RowHas, InHand, Idle
<1>. QED
  BY <1>1, <1>2, <1>3, InitTyped, PTL DEF Spec
=============================================================================
