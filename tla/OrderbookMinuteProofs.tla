----------------------- MODULE OrderbookMinuteProofs -----------------------
(***************************************************************************)
(* Proofs about OrderbookMinute: its types, that a minute is written once  *)
(* in a run of the job, that no book the job has read vanishes, and that a *)
(* row is the aggregate of its books.  They hold for any set of markets,   *)
(* any lengths of a minute and of the delay, and any number of books,      *)
(* faults and restarts.                                                    *)
(***************************************************************************)
EXTENDS OrderbookMinute, TLAPS, SequenceTheorems, FiniteSetTheorems, WellFoundedInduction

Books == [market : Markets, ts : 0..MaxNow, mid : Mids]
Entries == [ts : 0..MaxNow, mid : Mids]
Jobs == [pos : [Markets -> Nat], win : [Markets -> [Minutes -> Accs \cup {NONE}]],
         dropped : SUBSET (Markets \X Nat)]

\* The members of a window are counted, and a position is one in the log.
JobOK(j) ==
  /\ j \in Jobs
  /\ \A m \in Markets : j.pos[m] <= Len(topic[m])
  /\ \A m \in Markets, k \in Minutes :
       j.win[m][k] # NONE /\ j.win[m][k].members # {} => j.win[m][k].count > 0

TypeOK ==
  /\ now \in 0..MaxNow
  /\ books \subseteq Books
  /\ topic \in [Markets -> Seq(Entries)]
  /\ sub # NONE => sub \subseteq Markets
  /\ markets \subseteq Markets /\ listed \subseteq Markets
  /\ JobOK(job) /\ JobOK(saved)
  /\ top \in Nat \cup {NONE}
  /\ wm \in Int
  /\ restarts \in Nat
  /\ \A r \in rows : r.market \in Markets /\ r.minute \in Minutes /\ r.run \in Nat

\* A minute that has been written since the last restart is closed, and stays closed.
WrittenIsClosed ==
  \A r \in rows :
    /\ r.run <= restarts
    /\ r.run = restarts => job.win[r.market][r.minute] = NONE /\ End(r.minute) - 1 <= wm

\* Where a book is that the job read, given the job's state.
InWindow(j, m, i) == \E k \in Minutes : j.win[m][k] # NONE /\ i \in j.win[m][k].members
InRow(m, i) == \E r \in rows : r.market = m /\ i \in r.members
AccountedBy(j) ==
  \A m \in Markets : \A i \in 1..j.pos[m] :
    topic[m][i].mid = 0 \/ <<m, i>> \in j.dropped \/ InWindow(j, m, i) \/ InRow(m, i)

-----------------------------------------------------------------------------
(* Accumulators.                                                            *)

LEMMA MinMaxOfTwo ==
  ASSUME NEW x \in Int, NEW y \in Int
  PROVE  Min({x, y}) \in Int /\ Max({x, y}) \in Int
<1>1. \E z \in {x, y} : \A w \in {x, y} : z <= w
  OBVIOUS
<1>2. \E z \in {x, y} : \A w \in {x, y} : z >= w
  OBVIOUS
<1>. QED
  BY <1>1, <1>2 DEF Min, Max

LEMMA AccTyped == Acc \in Accs /\ Acc # NONE /\ Acc.members = {}
BY ParameterAssumption, NoneAssumption DEF Acc, Accs

LEMMA AddTyped ==
  ASSUME NEW a \in Accs, NEW b \in Entries, NEW i \in Nat
  PROVE  /\ add(a, b, i) \in Accs /\ add(a, b, i) # NONE
         /\ b.mid # 0 => add(a, b, i).count = a.count + 1 /\ add(a, b, i).members = a.members \cup {i}
         /\ b.mid = 0 => add(a, b, i) = a
<1>1. b.ts \in Nat /\ b.mid \in Nat
  <2>1. MaxNow \in Nat /\ Mids \subseteq Nat
    BY ParameterAssumption
  <2>2. b.ts \in 0..MaxNow /\ b.mid \in Mids
    BY DEF Entries
  <2>3. b.ts \in Nat
    BY <2>1, <2>2
  <2>4. b.mid \in Nat
    BY <2>1, <2>2
  <2>. QED
    BY <2>3, <2>4
<1>2. CASE b.mid = 0
  BY <1>2, NoneAssumption DEF add
<1>3. CASE b.mid # 0
  <2>1. /\ Min({a.firstTs, b.ts}) \in Int /\ Max({a.lastTs, b.ts}) \in Int
        /\ Min({a.midMin, b.mid}) \in Int /\ Max({a.midMax, b.mid}) \in Int
    <3>1. a.firstTs \in Int /\ a.lastTs \in Int /\ a.midMin \in Int /\ a.midMax \in Int
      BY DEF Accs
    <3>2. b.ts \in Int /\ b.mid \in Int
      BY <1>1
    <3>. QED
      BY <3>1, <3>2, MinMaxOfTwo
  <2>2. add(a, b, i) \in Accs
    BY <1>1, <1>3, <2>1 DEF add, Accs
  <2>. QED
    BY <1>3, <2>2, NoneAssumption DEF add
<1>. QED
  BY <1>2, <1>3

-----------------------------------------------------------------------------
(* The log only grows.                                                      *)

LEMMA TopicGrows ==
  ASSUME TypeOK, [Next]_vars
  PROVE  /\ topic' \in [Markets -> Seq(Entries)]
         /\ \A m \in Markets : /\ Len(topic[m]) \in Nat /\ Len(topic'[m]) \in Nat
                               /\ Len(topic[m]) <= Len(topic'[m])
                               /\ \A i \in 1..Len(topic[m]) : topic'[m][i] = topic[m][i]
<1>. DEFINE Grown(s, t) == /\ t \in Seq(Entries) /\ Len(s) <= Len(t)
                           /\ \A i \in 1..Len(s) : t[i] = s[i]
<1>1. \A b \in books : Entry(b) \in Entries
  BY DEF TypeOK, Books, Entries, Entry
<1>2. \A s \in Seq(Entries) : Grown(s, s) /\ Len(s) \in Nat
  BY LenProperties
<1>3. \A s \in Seq(Entries), e \in Entries : Grown(s, Append(s, e))
  BY AppendProperties, LenProperties
<1>4. ASSUME NEW M
      PROVE  /\ WithPresent(M) \in [Markets -> Seq(Entries)]
             /\ \A m \in Markets : Grown(topic[m], WithPresent(M)[m])
  <2>1. ASSUME NEW m \in Markets, Present(m) # {}
        PROVE  (CHOOSE b \in Present(m) : TRUE) \in books
    BY <2>1 DEF Present
  <2>. QED
    BY <1>1, <1>2, <1>3, <2>1 DEF WithPresent, TypeOK
<1>5. ASSUME NEW b \in books
      PROVE  /\ [topic EXCEPT ![b.market] = Append(@, Entry(b))] \in [Markets -> Seq(Entries)]
             /\ \A m \in Markets :
                  Grown(topic[m], [topic EXCEPT ![b.market] = Append(@, Entry(b))][m])
  <2>1. b.market \in Markets
    BY DEF TypeOK, Books
  <2>. QED
    BY <1>1, <1>2, <1>3, <2>1 DEF TypeOK
<1>6. \/ topic' = topic
      \/ \E M : topic' = WithPresent(M)
      \/ \E b \in books : topic' = [topic EXCEPT ![b.market] = Append(@, Entry(b))]
  BY DEF Next, vars, feed, Tick, List, Change, Push, Connect, Disconnect, Refresh, Read, Watermark,
         Checkpoint, Restore
<1>7. topic' \in [Markets -> Seq(Entries)] /\ \A m \in Markets : Grown(topic[m], topic'[m])
  <2>1. CASE topic' = topic
    BY <1>2, <2>1 DEF TypeOK
  <2>2. ASSUME NEW M, topic' = WithPresent(M)
        PROVE  topic' \in [Markets -> Seq(Entries)] /\ \A m \in Markets : Grown(topic[m], topic'[m])
    <3>. HIDE DEF Grown
    <3>. QED
      BY <1>4, <2>2
  <2>3. ASSUME NEW b \in books, topic' = [topic EXCEPT ![b.market] = Append(@, Entry(b))]
        PROVE  topic' \in [Markets -> Seq(Entries)] /\ \A m \in Markets : Grown(topic[m], topic'[m])
    <3>. HIDE DEF Grown
    <3>. QED
      BY <1>5, <2>3
  <2>. QED
    <3>. HIDE DEF Grown
    <3>. QED
      BY <1>6, <2>1, <2>2, <2>3
<1>. QED
  BY <1>2, <1>7 DEF TypeOK

-----------------------------------------------------------------------------
(* Steps of the job.                                                        *)

\* What Read does, with its local names spelled out.
ReadOf(m, i, k, late, a) ==
  /\ m \in Markets /\ i = job.pos[m] + 1 /\ i \in 1..Len(topic[m])
  /\ k = Minute(topic[m][i].ts)
  /\ late = (End(k) - 1 <= wm)
  /\ a = (IF job.win[m][k] = NONE THEN Acc ELSE job.win[m][k])
  /\ job'.pos = [job.pos EXCEPT ![m] = i]
  /\ job'.win = IF late THEN job.win ELSE [job.win EXCEPT ![m][k] = add(a, topic[m][i], i)]
  /\ job'.dropped = IF late THEN job.dropped \cup {<<m, i>>} ELSE job.dropped
  /\ job' = [pos |-> job'.pos, win |-> job'.win, dropped |-> job'.dropped]
  /\ UNCHANGED <<topic, wm, rows, saved, restarts>>

LEMMA ReadIs ==
  ASSUME TypeOK, NEW m \in Markets, Read(m)
  PROVE  \E i, k, late, a : ReadOf(m, i, k, late, a)
<1>. DEFINE i == job.pos[m] + 1
            k == Minute(topic[m][i].ts)
            late == End(k) - 1 <= wm
            a == IF job.win[m][k] = NONE THEN Acc ELSE job.win[m][k]
<1>1. job.pos[m] \in Nat /\ Len(topic[m]) \in Nat
  BY LenProperties DEF TypeOK, JobOK, Jobs
<1>2. i \in 1..Len(topic[m])
  <2>1. job.pos[m] < Len(topic[m])
    BY Zenon DEF Read
  <2>. QED
    BY <1>1, <2>1
<1>3. job' = [pos |-> [job.pos EXCEPT ![m] = i],
              win |-> IF late THEN job.win ELSE [job.win EXCEPT ![m][k] = add(a, topic[m][i], i)],
              dropped |-> IF late THEN job.dropped \cup {<<m, i>>} ELSE job.dropped]
  BY DEF Read
<1>4. UNCHANGED <<topic, wm, rows, saved, restarts>>
  BY DEF Read, feed
<1>5. ReadOf(m, i, k, late, a)
  <2>. HIDE DEF i, k, late, a
  <2>1. /\ job'.pos = [job.pos EXCEPT ![m] = i]
        /\ job'.win = IF late THEN job.win ELSE [job.win EXCEPT ![m][k] = add(a, topic[m][i], i)]
        /\ job'.dropped = IF late THEN job.dropped \cup {<<m, i>>} ELSE job.dropped
        /\ job' = [pos |-> job'.pos, win |-> job'.win, dropped |-> job'.dropped]
    BY <1>3
  <2>2. /\ i = job.pos[m] + 1
        /\ k = Minute(topic[m][i].ts)
        /\ late = (End(k) - 1 <= wm)
        /\ a = (IF job.win[m][k] = NONE THEN Acc ELSE job.win[m][k])
    BY DEF i, k, late, a
  <2>. QED
    BY <1>2, <1>4, <2>1, <2>2 DEF ReadOf
<1>. QED
  BY <1>5

LEMMA MinuteTyped ==
  /\ Minutes \subseteq Int
  /\ \A k \in Minutes : End(k) \in Int
  /\ \A e \in Entries : Minute(e.ts) \in Minutes
<1>1. MINUTE \in Nat \ {0} /\ MaxNow \in Nat
  BY ParameterAssumption
<1>2. \A ts \in 0..MaxNow : Minute(ts) \in Int
  BY <1>1 DEF Minute
<1>3. Minutes \subseteq Int
  BY <1>2 DEF Minutes
<1>4. \A k \in Int : (k + 1) * MINUTE \in Int
  BY <1>1
<1>5. \A e \in Entries : Minute(e.ts) \in Minutes
  BY DEF Entries, Minutes
<1>. QED
  BY <1>3, <1>4, <1>5 DEF End

\* A book read goes into one window or, behind the watermark, into none.
LEMMA ReadEffect ==
  ASSUME TypeOK, NEW m, NEW i, NEW k, NEW late, NEW a, ReadOf(m, i, k, late, a)
  PROVE  /\ job' \in Jobs /\ k \in Minutes /\ a \in Accs /\ topic[m][i] \in Entries /\ i \in Nat
         /\ \A n \in Markets : job'.pos[n] = IF n = m THEN i ELSE job.pos[n]
         /\ \A n \in Markets, l \in Minutes :
              job'.win[n][l] = IF n = m /\ l = k /\ ~late THEN add(a, topic[m][i], i)
                                                          ELSE job.win[n][l]
<1>1. /\ job \in Jobs /\ m \in Markets /\ job.pos[m] \in Nat /\ i \in 1..Len(topic[m]) /\ i \in Nat
      /\ topic[m] \in Seq(Entries)
  <2>1. job \in Jobs /\ m \in Markets /\ topic[m] \in Seq(Entries) /\ i \in 1..Len(topic[m])
    BY DEF TypeOK, JobOK, ReadOf
  <2>. QED
    BY <2>1, LenProperties DEF Jobs
<1>2. topic[m][i] \in Entries
  BY <1>1, ElementOfSeq
<1>3. k \in Minutes
  BY <1>2, MinuteTyped DEF ReadOf
<1>4. job.win \in [Markets -> [Minutes -> Accs \cup {NONE}]]
  BY <1>1 DEF Jobs
<1>5. a \in Accs
  <2>1. job.win[m][k] \in Accs \cup {NONE}
    BY <1>1, <1>3, <1>4
  <2>2. a = (IF job.win[m][k] = NONE THEN Acc ELSE job.win[m][k])
    BY DEF ReadOf
  <2>. QED
    BY <2>1, <2>2, AccTyped
<1>6. add(a, topic[m][i], i) \in Accs
  BY <1>1, <1>2, <1>5, AddTyped
<1>. DEFINE w == add(a, topic[m][i], i)
<1>7. [job.win EXCEPT ![m][k] = w] \in [Markets -> [Minutes -> Accs \cup {NONE}]]
  <2>. HIDE DEF w
  <2>1. w \in Accs
    BY <1>6 DEF w
  <2>2. [job.win[m] EXCEPT ![k] = w] \in [Minutes -> Accs \cup {NONE}]
    BY <1>1, <1>3, <1>4, <2>1
  <2>. QED
    BY <1>1, <1>3, <1>4, <2>2
<1>8. \A n \in Markets, l \in Minutes :
        [job.win EXCEPT ![m][k] = w][n][l] = IF n = m /\ l = k THEN w ELSE job.win[n][l]
  <2>. HIDE DEF w
  <2>. QED
    BY <1>1, <1>3, <1>4
<1>9. \A n \in Markets, l \in Minutes :
        job'.win[n][l] = IF n = m /\ l = k /\ ~late THEN w ELSE job.win[n][l]
  <2>. HIDE DEF w
  <2>1. job'.win = IF late THEN job.win ELSE [job.win EXCEPT ![m][k] = w]
    BY DEF ReadOf, w
  <2>. QED
    BY <1>8, <2>1
<1>10. job'.win \in [Markets -> [Minutes -> Accs \cup {NONE}]]
  BY <1>4, <1>7 DEF ReadOf
<1>11. job'.pos \in [Markets -> Nat] /\ \A n \in Markets : job'.pos[n] = IF n = m THEN i ELSE job.pos[n]
  <2>1. job'.pos = [job.pos EXCEPT ![m] = i]
    BY DEF ReadOf
  <2>2. job.pos \in [Markets -> Nat]
    BY <1>1 DEF Jobs
  <2>. QED
    BY <1>1, <2>1, <2>2
<1>12. job'.dropped \subseteq Markets \X Nat
  <2>1. job'.dropped = job.dropped \/ job'.dropped = job.dropped \cup {<<m, i>>}
    BY DEF ReadOf
  <2>. QED
    BY <1>1, <2>1 DEF Jobs
<1>13. job' \in Jobs
  <2>1. job' = [pos |-> job'.pos, win |-> job'.win, dropped |-> job'.dropped]
    BY DEF ReadOf
  <2>. QED
    BY <1>10, <1>11, <1>12, <2>1 DEF Jobs
<1>. QED
  BY <1>1, <1>2, <1>3, <1>5, <1>9, <1>11, <1>13

\* The watermark empties the windows it passes, and writes those with books.
LEMMA WatermarkEffect ==
  ASSUME TypeOK, Watermark
  PROVE  /\ job' \in Jobs /\ job'.pos = job.pos /\ job'.dropped = job.dropped
         /\ wm' \in Int /\ wm < wm'
         /\ \A m \in Markets, k \in Minutes :
              job'.win[m][k] = IF job.win[m][k] # NONE /\ End(k) - 1 <= wm' THEN NONE ELSE job.win[m][k]
         /\ \A r \in rows' :
              \/ r \in rows
              \/ \E m \in Markets, k \in Minutes :
                   /\ job.win[m][k] # NONE /\ End(k) - 1 <= wm'
                   /\ r = Row(m, k, job.win[m][k], wm')
         /\ \A m \in Markets, k \in Minutes :
              job.win[m][k] # NONE /\ End(k) - 1 <= wm' /\ job.win[m][k].count > 0
                => Row(m, k, job.win[m][k], wm') \in rows'
         /\ rows \subseteq rows' /\ UNCHANGED <<topic, saved, restarts>>
<1>. DEFINE due == Due(wm')
<1>1. job \in Jobs
  BY DEF TypeOK, JobOK
<1>2. \A m \in Markets, k \in Minutes :
        <<m, k>> \in due <=> job.win[m][k] # NONE /\ End(k) - 1 <= wm'
  BY DEF Due
<1>3. job' = [job EXCEPT !.win = Without(due)] /\ rows' = rows \cup {r \in Rows(due, wm') : r.snapshots > 0}
  BY DEF Watermark
<1>4. Without(due) \in [Markets -> [Minutes -> Accs \cup {NONE}]]
  <2>1. \A m \in Markets, k \in Minutes : job.win[m][k] \in Accs \cup {NONE}
    BY <1>1 DEF Jobs
  <2>. QED
    BY <2>1 DEF Without
<1>5. wm' \in Int /\ wm < wm'
  <2>1. top \in Nat /\ BOUND \in Nat /\ wm \in Int
    BY ParameterAssumption DEF Watermark, TypeOK
  <2>. QED
    BY <2>1 DEF Watermark
<1>6. job' \in Jobs /\ job'.pos = job.pos /\ job'.dropped = job.dropped /\ job'.win = Without(due)
  <2>. HIDE DEF due
  <2>. QED
    BY <1>1, <1>3, <1>4 DEF Jobs
<1>7. ASSUME NEW m \in Markets, NEW k \in Minutes
      PROVE  job'.win[m][k] = IF job.win[m][k] # NONE /\ End(k) - 1 <= wm' THEN NONE ELSE job.win[m][k]
  <2>1. Without(due)[m][k] = IF <<m, k>> \in due THEN NONE ELSE job.win[m][k]
    BY DEF Without
  <2>. QED
    BY <1>2, <1>6, <2>1
<1>8. ASSUME NEW r \in rows', r \notin rows
      PROVE  \E m \in Markets, k \in Minutes : /\ job.win[m][k] # NONE /\ End(k) - 1 <= wm'
                                              /\ r = Row(m, k, job.win[m][k], wm')
  <2>1. PICK mk \in due : r = Row(mk[1], mk[2], job.win[mk[1]][mk[2]], wm')
    BY <1>3, <1>8 DEF Rows
  <2>2. mk[1] \in Markets /\ mk[2] \in Minutes /\ mk = <<mk[1], mk[2]>>
    BY <2>1 DEF Due
  <2>. QED
    BY <1>2, <2>1, <2>2
<1>9. ASSUME NEW m \in Markets, NEW k \in Minutes,
             job.win[m][k] # NONE, End(k) - 1 <= wm', job.win[m][k].count > 0
      PROVE  Row(m, k, job.win[m][k], wm') \in rows'
  <2>1. <<m, k>> \in due
    BY <1>2, <1>9
  <2>2. Row(<<m, k>>[1], <<m, k>>[2], job.win[<<m, k>>[1]][<<m, k>>[2]], wm') \in Rows(due, wm')
    BY <2>1 DEF Rows
  <2>3. Row(m, k, job.win[m][k], wm') \in Rows(due, wm')
    BY <2>2
  <2>4. Row(m, k, job.win[m][k], wm').snapshots = job.win[m][k].count
    BY DEF Row
  <2>. QED
    BY <1>3, <1>9, <2>3, <2>4
<1>10. UNCHANGED <<topic, saved, restarts>>
  BY DEF Watermark, feed
<1>. QED
  BY <1>3, <1>5, <1>6, <1>7, <1>8, <1>9, <1>10

-----------------------------------------------------------------------------
(* Types.                                                                   *)

\* A state of the job stays one, whatever is produced.
LEMMA JobStays ==
  ASSUME TypeOK, [Next]_vars, NEW j, JobOK(j)
  PROVE  /\ j \in Jobs
         /\ \A m \in Markets : j.pos[m] <= Len(topic'[m])
         /\ \A m \in Markets, k \in Minutes :
              j.win[m][k] # NONE /\ j.win[m][k].members # {} => j.win[m][k].count > 0
<1>1. \A m \in Markets : j.pos[m] \in Nat
  BY DEF JobOK, Jobs
<1>. QED
  BY <1>1, TopicGrows DEF JobOK

LEMMA JobStep ==
  ASSUME TypeOK, [Next]_vars
  PROVE  JobOK(job)' /\ JobOK(saved)'
<1>1. \A j : JobOK(j) => /\ j \in Jobs
                         /\ \A m \in Markets : j.pos[m] <= Len(topic'[m])
                         /\ \A m \in Markets, k \in Minutes :
                              j.win[m][k] # NONE /\ j.win[m][k].members # {} => j.win[m][k].count > 0
  BY JobStays
<1>2. JobOK(job) /\ JobOK(saved)
  BY DEF TypeOK
<1>3. job' \in {job, saved} => JobOK(job)'
  BY <1>1, <1>2 DEF JobOK
<1>4. saved' \in {job, saved} => JobOK(saved)'
  BY <1>1, <1>2 DEF JobOK
<1>5. ASSUME NEW m \in Markets, Read(m)
      PROVE  JobOK(job)' /\ saved' = saved
  <2>1. PICK i, k, late, a : ReadOf(m, i, k, late, a)
    BY <1>5, ReadIs
  <2>2. /\ topic' = topic /\ saved' = saved /\ i <= Len(topic[m])
        /\ a = (IF job.win[m][k] = NONE THEN Acc ELSE job.win[m][k])
    <3>1. topic' = topic /\ saved' = saved /\ i \in 1..Len(topic[m])
      BY <2>1 DEF ReadOf
    <3>2. a = (IF job.win[m][k] = NONE THEN Acc ELSE job.win[m][k])
      BY <2>1 DEF ReadOf
    <3>3. Len(topic[m]) \in Nat
      BY TopicGrows
    <3>. QED
      BY <3>1, <3>2, <3>3
  <2>3. /\ job' \in Jobs /\ k \in Minutes /\ a \in Accs /\ topic[m][i] \in Entries /\ i \in Nat
        /\ \A n \in Markets : job'.pos[n] = IF n = m THEN i ELSE job.pos[n]
        /\ \A n \in Markets, l \in Minutes :
             job'.win[n][l] = IF n = m /\ l = k /\ ~late THEN add(a, topic[m][i], i) ELSE job.win[n][l]
    BY <2>1, ReadEffect
  <2>4. \A n \in Markets : job'.pos[n] <= Len(topic'[n])
    BY <1>2, <2>2, <2>3 DEF JobOK
  <2>5. LET w == add(a, topic[m][i], i) IN w # NONE /\ w.members # {} => w.count > 0
    <3>1. a.count \in Nat
      BY <2>3 DEF Accs
    <3>2. a.members # {} => a.count > 0
      BY <1>2, <2>2, <2>3, AccTyped DEF JobOK
    <3>. QED
      BY <2>3, <3>1, <3>2, AddTyped
  <2>6. \A n \in Markets, l \in Minutes :
          job'.win[n][l] # NONE /\ job'.win[n][l].members # {} => job'.win[n][l].count > 0
    BY <1>2, <2>3, <2>5 DEF JobOK
  <2>. QED
    BY <2>2, <2>3, <2>4, <2>6 DEF JobOK
<1>6. ASSUME Watermark
      PROVE  JobOK(job)' /\ saved' = saved
  <2>1. /\ job' \in Jobs /\ job'.pos = job.pos
        /\ \A m \in Markets, k \in Minutes :
             job'.win[m][k] = IF job.win[m][k] # NONE /\ End(k) - 1 <= wm' THEN NONE ELSE job.win[m][k]
        /\ topic' = topic /\ saved' = saved
    BY <1>6, WatermarkEffect
  <2>. QED
    BY <1>2, <2>1 DEF JobOK
<1>7. \/ job' \in {job, saved} /\ saved' \in {job, saved}
      \/ \E m \in Markets : Read(m)
      \/ Watermark
  BY DEF Next, vars, feed, flink, Tick, List, Change, Push, Connect, Disconnect, Refresh,
         Checkpoint, Restore
<1>. QED
  BY <1>3, <1>4, <1>5, <1>6, <1>7

LEMMA ClockTyped ==
  ASSUME TypeOK, [Next]_vars
  PROVE  /\ now' \in 0..MaxNow /\ books' \subseteq Books
         /\ (sub' # NONE => sub' \subseteq Markets) /\ markets' \subseteq Markets /\ listed' \subseteq Markets
         /\ restarts' \in Nat
<1>1. now \in 0..MaxNow /\ MaxNow \in Nat /\ restarts \in Nat
  BY ParameterAssumption DEF TypeOK
<1>2. CASE Tick
  BY <1>1, <1>2 DEF Tick, TypeOK, feed
<1>3. ASSUME NEW m \in Markets, NEW mid \in Mids, Change(m, mid)
      PROVE  books' \subseteq Books /\ UNCHANGED <<now, listed, markets, sub, restarts>>
  <2>1. [market |-> m, ts |-> now, mid |-> mid] \in Books
    BY <1>1 DEF Books
  <2>. QED
    BY <1>3, <2>1 DEF Change, TypeOK
<1>4. ASSUME NEW m \in Markets, List(m)
      PROVE  listed' \subseteq Markets /\ UNCHANGED <<now, books, markets, sub, restarts>>
  BY <1>4 DEF List, TypeOK
<1>5. CASE Connect \/ Disconnect \/ Refresh
  BY <1>1, <1>5 DEF Connect, Disconnect, Refresh, TypeOK
<1>6. CASE Restore
  BY <1>1, <1>6 DEF Restore, feed, TypeOK
<1>7. CASE UNCHANGED <<now, listed, books, markets, sub, restarts>>
  BY <1>7 DEF TypeOK
<1>. QED
  BY <1>1, <1>2, <1>3, <1>4, <1>5, <1>6, <1>7
  DEF Next, vars, feed, flink, Push, Read, Watermark, Checkpoint, TypeOK

LEMMA MarkTyped ==
  ASSUME TypeOK, [Next]_vars
  PROVE  /\ top' \in Nat \cup {NONE} /\ wm' \in Int
         /\ \A r \in rows' : r.market \in Markets /\ r.minute \in Minutes /\ r.run \in Nat
<1>1. ASSUME NEW m \in Markets, Read(m)
      PROVE  top' \in Nat \cup {NONE} /\ wm' = wm /\ rows' = rows
  <2>1. job.pos[m] \in Nat /\ topic[m] \in Seq(Entries) /\ job.pos[m] < Len(topic[m])
    BY <1>1 DEF TypeOK, JobOK, Jobs, Read
  <2>2. topic[m][job.pos[m] + 1] \in Entries
    BY <2>1, ElementOfSeq, LenProperties
  <2>3. topic[m][job.pos[m] + 1].ts \in Nat
    <3>1. MaxNow \in Nat
      BY ParameterAssumption
    <3>. QED
      BY <2>2, <3>1 DEF Entries
  <2>4. top' = Seen(topic[m][job.pos[m] + 1].ts) /\ wm' = wm /\ rows' = rows
    BY <1>1 DEF Read
  <2>. QED
    BY <2>3, <2>4 DEF Seen, TypeOK
<1>2. CASE Watermark
  <2>1. /\ wm' \in Int
        /\ \A r \in rows' : r \in rows \/ \E m \in Markets, k \in Minutes : r = Row(m, k, job.win[m][k], wm')
    BY <1>2, WatermarkEffect
  <2>2. \A m \in Markets, k \in Minutes :
          LET r == Row(m, k, job.win[m][k], wm') IN r.market = m /\ r.minute = k /\ r.run = restarts
    BY DEF Row
  <2>3. top' = top
    BY <1>2 DEF Watermark
  <2>. QED
    BY <2>1, <2>2, <2>3 DEF TypeOK
<1>3. CASE Restore
  BY <1>3 DEF Restore, TypeOK
<1>4. CASE UNCHANGED <<top, wm, rows>>
  BY <1>4 DEF TypeOK
<1>. QED
  BY <1>1, <1>2, <1>3, <1>4
  DEF Next, vars, flink, Tick, List, Change, Push, Connect, Disconnect, Refresh, Checkpoint, TypeOK

LEMMA TypeStep ==
  ASSUME TypeOK, [Next]_vars
  PROVE  TypeOK'
BY TopicGrows, JobStep, ClockTyped, MarkTyped DEF TypeOK

LEMMA InitTyped ==
  ASSUME Init
  PROVE  TypeOK
<1>1. /\ NewJob \in Jobs
      /\ \A m \in Markets : NewJob.pos[m] = 0
      /\ \A m \in Markets, k \in Minutes : NewJob.win[m][k] = NONE
  BY DEF NewJob, Jobs
<1>2. topic \in [Markets -> Seq(Entries)] /\ \A m \in Markets : Len(topic[m]) = 0
  BY EmptySeq DEF Init
<1>3. 0 \in 0..MaxNow
  BY ParameterAssumption
<1>4. JobOK(NewJob)
  BY <1>1, <1>2 DEF JobOK
<1>5. job = NewJob /\ saved = NewJob
  BY DEF Init
<1>. QED
  BY <1>2, <1>3, <1>4, <1>5 DEF Init, TypeOK

\* Every state is typed; in particular a window that has members counts them.
THEOREM TypeCorrect == Spec => []TypeOK
BY InitTyped, TypeStep, PTL DEF Spec

-----------------------------------------------------------------------------
(* A minute is written once.                                                *)

RowFields ==
  \A m \in Markets, k \in Minutes, at \in Int :
    LET r == Row(m, k, job.win[m][k], at) IN r.market = m /\ r.minute = k /\ r.run = restarts

LEMMA RowHasFields == RowFields
BY DEF RowFields, Row

LEMMA ClosedStep ==
  ASSUME TypeOK, WrittenIsClosed, OneRowPerMinute, [Next]_vars
  PROVE  WrittenIsClosed' /\ OneRowPerMinute'
<1>1. \A r \in rows : r.market \in Markets /\ r.minute \in Minutes /\ r.run \in Nat
  BY DEF TypeOK
<1>2. restarts \in Nat /\ wm \in Int
  BY DEF TypeOK
<1>3. ASSUME NEW m \in Markets, Read(m)
      PROVE  WrittenIsClosed' /\ OneRowPerMinute'
  <2>1. PICK i, k, late, a : ReadOf(m, i, k, late, a)
    BY <1>3, ReadIs
  <2>2. wm' = wm /\ rows' = rows /\ restarts' = restarts /\ late = (End(k) - 1 <= wm)
    BY <2>1 DEF ReadOf
  <2>3. \A n \in Markets, l \in Minutes :
          job'.win[n][l] = IF n = m /\ l = k /\ ~late THEN add(a, topic[m][i], i) ELSE job.win[n][l]
    BY <2>1, ReadEffect
  <2>4. WrittenIsClosed'
    BY <1>1, <2>2, <2>3 DEF WrittenIsClosed
  <2>. QED
    BY <2>2, <2>4 DEF OneRowPerMinute
<1>4. CASE Watermark
  <2>1. /\ wm' \in Int /\ wm < wm' /\ restarts' = restarts
        /\ \A m \in Markets, k \in Minutes :
             job'.win[m][k] = IF job.win[m][k] # NONE /\ End(k) - 1 <= wm' THEN NONE ELSE job.win[m][k]
        /\ \A r \in rows' :
             \/ r \in rows
             \/ \E m \in Markets, k \in Minutes :
                  /\ job.win[m][k] # NONE /\ End(k) - 1 <= wm'
                  /\ r = Row(m, k, job.win[m][k], wm')
    BY <1>4, WatermarkEffect
  <2>2. ASSUME NEW r \in rows
        PROVE  /\ r.run <= restarts
               /\ r.run = restarts => /\ job.win[r.market][r.minute] = NONE
                                      /\ End(r.minute) - 1 <= wm'
    <3>1. End(r.minute) \in Int
      BY <1>1, MinuteTyped
    <3>2. r.run <= restarts /\ (r.run = restarts => job.win[r.market][r.minute] = NONE /\ End(r.minute) - 1 <= wm)
      BY DEF WrittenIsClosed
    <3>. QED
      BY <1>2, <2>1, <3>1, <3>2
  <2>3. ASSUME NEW r \in rows', r \notin rows
        PROVE  /\ r.market \in Markets /\ r.minute \in Minutes /\ r.run = restarts
               /\ job.win[r.market][r.minute] # NONE /\ End(r.minute) - 1 <= wm'
               /\ r = Row(r.market, r.minute, job.win[r.market][r.minute], wm')
    <3>1. PICK m \in Markets, k \in Minutes :
            /\ job.win[m][k] # NONE /\ End(k) - 1 <= wm'
            /\ r = Row(m, k, job.win[m][k], wm')
      BY <2>1, <2>3
    <3>2. r.market = m /\ r.minute = k /\ r.run = restarts
      BY <2>1, <3>1, RowHasFields DEF RowFields
    <3>. QED
      BY <3>1, <3>2
  <2>4. WrittenIsClosed'
    <3>1. ASSUME NEW r \in rows'
          PROVE  /\ r.run <= restarts'
                 /\ r.run = restarts' => job'.win[r.market][r.minute] = NONE /\ End(r.minute) - 1 <= wm'
      BY <1>1, <1>2, <2>1, <2>2, <2>3
    <3>. QED
      BY <3>1 DEF WrittenIsClosed
  <2>5. ASSUME NEW r \in rows', NEW s \in rows',
               r.market = s.market, r.minute = s.minute, r.run = s.run
        PROVE  r = s
    <3>1. CASE r \in rows /\ s \in rows
      BY <2>5, <3>1 DEF OneRowPerMinute
    <3>2. CASE r \notin rows /\ s \notin rows
      BY <2>3, <2>5, <3>2
    <3>3. CASE r \in rows /\ s \notin rows
      BY <2>2, <2>3, <2>5, <3>3
    <3>4. CASE r \notin rows /\ s \in rows
      BY <2>2, <2>3, <2>5, <3>4
    <3>. QED
      BY <3>1, <3>2, <3>3, <3>4
  <2>. QED
    BY <2>4, <2>5 DEF OneRowPerMinute
<1>5. CASE Restore
  <2>1. rows' = rows /\ restarts' = restarts + 1
    BY <1>5 DEF Restore
  <2>2. \A r \in rows : r.run <= restarts' /\ r.run # restarts'
    BY <1>1, <1>2, <2>1 DEF WrittenIsClosed
  <2>. QED
    BY <2>1, <2>2 DEF WrittenIsClosed, OneRowPerMinute
<1>6. CASE UNCHANGED <<job, wm, rows, restarts>>
  BY <1>6 DEF WrittenIsClosed, OneRowPerMinute
<1>. QED
  BY <1>3, <1>4, <1>5, <1>6
  DEF Next, vars, flink, Tick, List, Change, Push, Connect, Disconnect, Refresh, Checkpoint

\* As long as the job does not fail, a minute of a market is written once: a window that
\* has been written is behind the watermark, so that no late book opens it again.
THEOREM WrittenOnce == Spec => []OneRowPerMinute
<1>1. Init => WrittenIsClosed /\ OneRowPerMinute
  BY DEF Init, WrittenIsClosed, OneRowPerMinute
<1>2. TypeOK /\ WrittenIsClosed /\ OneRowPerMinute /\ [Next]_vars
        => (TypeOK /\ WrittenIsClosed /\ OneRowPerMinute)'
  BY TypeStep, ClosedStep
<1>. QED
  BY <1>1, <1>2, InitTyped, PTL DEF Spec

-----------------------------------------------------------------------------
(* No book vanishes.                                                        *)

\* Rows and the log only grow: what a state of the job accounts for stays accounted for.
LEMMA AccountStays ==
  ASSUME TypeOK, [Next]_vars, rows \subseteq rows', NEW j, JobOK(j), AccountedBy(j)
  PROVE  \A m \in Markets : \A i \in 1..j.pos[m] :
           \/ topic'[m][i].mid = 0
           \/ <<m, i>> \in j.dropped
           \/ InWindow(j, m, i)
           \/ \E r \in rows' : r.market = m /\ i \in r.members
<1>. SUFFICES ASSUME NEW m \in Markets, NEW i \in 1..j.pos[m]
              PROVE  \/ topic'[m][i].mid = 0
                     \/ <<m, i>> \in j.dropped
                     \/ InWindow(j, m, i)
                     \/ \E r \in rows' : r.market = m /\ i \in r.members
  OBVIOUS
<1>1. i \in 1..Len(topic[m])
  <2>1. j.pos[m] \in Nat /\ j.pos[m] <= Len(topic[m])
    BY DEF JobOK, Jobs
  <2>2. Len(topic[m]) \in Nat
    BY TopicGrows
  <2>. QED
    BY <2>1, <2>2
<1>2. topic'[m][i] = topic[m][i]
  BY <1>1, TopicGrows
<1>. QED
  BY <1>2 DEF AccountedBy, InRow

LEMMA RowsGrow ==
  ASSUME TypeOK, [Next]_vars
  PROVE  rows \subseteq rows'
<1>1. CASE Watermark
  BY <1>1, WatermarkEffect
<1>. QED
  BY <1>1 DEF Next, vars, flink, Tick, List, Change, Push, Connect, Disconnect, Refresh, Read,
     Checkpoint, Restore

LEMMA AccountStep ==
  ASSUME TypeOK, AccountedBy(job), AccountedBy(saved), [Next]_vars
  PROVE  AccountedBy(job)' /\ AccountedBy(saved)'
<1>1. JobOK(job) /\ JobOK(saved)
  BY DEF TypeOK
<1>2. \A j : JobOK(j) /\ AccountedBy(j) =>
        \A m \in Markets : \A i \in 1..j.pos[m] :
          \/ topic'[m][i].mid = 0
          \/ <<m, i>> \in j.dropped
          \/ InWindow(j, m, i)
          \/ \E r \in rows' : r.market = m /\ i \in r.members
  BY AccountStays, RowsGrow
<1>3. job' \in {job, saved} => AccountedBy(job)'
  <2>. SUFFICES ASSUME job' \in {job, saved}, NEW m \in Markets, NEW i \in 1..job'.pos[m]
                PROVE  \/ topic'[m][i].mid = 0
                       \/ <<m, i>> \in job'.dropped
                       \/ InWindow(job', m, i)
                       \/ \E r \in rows' : r.market = m /\ i \in r.members
    BY DEF AccountedBy, InRow, InWindow
  <2>1. CASE job' = job
    BY <1>1, <1>2, <2>1
  <2>2. CASE job' = saved
    BY <1>1, <1>2, <2>2
  <2>. QED
    BY <2>1, <2>2
<1>4. saved' \in {job, saved} => AccountedBy(saved)'
  <2>. SUFFICES ASSUME saved' \in {job, saved}, NEW m \in Markets, NEW i \in 1..saved'.pos[m]
                PROVE  \/ topic'[m][i].mid = 0
                       \/ <<m, i>> \in saved'.dropped
                       \/ InWindow(saved', m, i)
                       \/ \E r \in rows' : r.market = m /\ i \in r.members
    BY DEF AccountedBy, InRow, InWindow
  <2>1. CASE saved' = job
    BY <1>1, <1>2, <2>1
  <2>2. CASE saved' = saved
    BY <1>1, <1>2, <2>2
  <2>. QED
    BY <2>1, <2>2
<1>5. ASSUME NEW m \in Markets, Read(m)
      PROVE  AccountedBy(job)' /\ saved' = saved
  <2>1. PICK i, k, late, a : ReadOf(m, i, k, late, a)
    BY <1>5, ReadIs
  <2>2. /\ topic' = topic /\ rows' = rows /\ saved' = saved /\ i = job.pos[m] + 1
        /\ a = (IF job.win[m][k] = NONE THEN Acc ELSE job.win[m][k])
        /\ job'.dropped = IF late THEN job.dropped \cup {<<m, i>>} ELSE job.dropped
    BY <2>1 DEF ReadOf
  <2>3. /\ k \in Minutes /\ a \in Accs /\ topic[m][i] \in Entries /\ i \in Nat
        /\ \A n \in Markets : job'.pos[n] = IF n = m THEN i ELSE job.pos[n]
        /\ \A n \in Markets, l \in Minutes :
             job'.win[n][l] = IF n = m /\ l = k /\ ~late THEN add(a, topic[m][i], i) ELSE job.win[n][l]
    BY <2>1, ReadEffect
  <2>4. add(a, topic[m][i], i) # NONE
    BY <2>3, AddTyped
  <2>5. job.win[m][k] # NONE => job.win[m][k].members \subseteq add(a, topic[m][i], i).members
    BY <2>2, <2>3, AddTyped
  <2>6. ASSUME NEW n \in Markets, NEW x, InWindow(job, n, x)
        PROVE  InWindow(job', n, x)
    <3>1. PICK l \in Minutes : job.win[n][l] # NONE /\ x \in job.win[n][l].members
      BY <2>6 DEF InWindow
    <3>2. job'.win[n][l] # NONE /\ x \in job'.win[n][l].members
      BY <2>3, <2>4, <2>5, <3>1
    <3>. QED
      BY <3>2 DEF InWindow
  <2>7. topic[m][i].mid = 0 \/ <<m, i>> \in job'.dropped \/ InWindow(job', m, i)
    <3>1. CASE late
      BY <2>2, <3>1
    <3>2. CASE ~late /\ topic[m][i].mid # 0
      <4>1. i \in add(a, topic[m][i], i).members
        BY <2>3, <3>2, AddTyped
      <4>2. job'.win[m][k] = add(a, topic[m][i], i)
        BY <2>3, <3>2
      <4>. QED
        BY <2>3, <2>4, <4>1, <4>2 DEF InWindow
    <3>. QED
      BY <3>1, <3>2
  <2>8. ASSUME NEW n \in Markets, NEW x \in 1..job'.pos[n]
        PROVE  topic[n][x].mid = 0 \/ <<n, x>> \in job'.dropped \/ InWindow(job', n, x) \/ InRow(n, x)
    <3>1. CASE n = m /\ x = i
      BY <2>7, <3>1
    <3>2. CASE ~(n = m /\ x = i)
      <4>1. x \in 1..job.pos[n]
        <5>1. job.pos[n] \in Nat
          BY <1>1 DEF JobOK, Jobs
        <5>. QED
          BY <2>2, <2>3, <2>8, <3>2, <5>1
      <4>2. topic[n][x].mid = 0 \/ <<n, x>> \in job.dropped \/ InWindow(job, n, x) \/ InRow(n, x)
        BY <4>1 DEF AccountedBy
      <4>. QED
        BY <2>2, <2>6, <4>2
    <3>. QED
      BY <3>1, <3>2
  <2>. QED
    BY <2>2, <2>8 DEF AccountedBy, InRow, InWindow
<1>6. ASSUME Watermark
      PROVE  AccountedBy(job)' /\ saved' = saved
  <2>1. /\ job'.pos = job.pos /\ job'.dropped = job.dropped
        /\ wm' \in Int
        /\ topic' = topic /\ saved' = saved /\ rows \subseteq rows'
        /\ \A m \in Markets, k \in Minutes :
             job'.win[m][k] = IF job.win[m][k] # NONE /\ End(k) - 1 <= wm' THEN NONE ELSE job.win[m][k]
        /\ \A m \in Markets, k \in Minutes :
             job.win[m][k] # NONE /\ End(k) - 1 <= wm' /\ job.win[m][k].count > 0
               => Row(m, k, job.win[m][k], wm') \in rows'
    BY <1>6, WatermarkEffect
  <2>2. ASSUME NEW m \in Markets, NEW i, InWindow(job, m, i)
        PROVE  InWindow(job', m, i) \/ \E r \in rows' : r.market = m /\ i \in r.members
    <3>1. PICK k \in Minutes : job.win[m][k] # NONE /\ i \in job.win[m][k].members
      BY <2>2 DEF InWindow
    <3>2. CASE End(k) - 1 <= wm'
      <4>1. job.win[m][k].count > 0
        BY <1>1, <3>1 DEF JobOK
      <4>2. Row(m, k, job.win[m][k], wm') \in rows'
        BY <2>1, <3>1, <3>2, <4>1
      <4>3. Row(m, k, job.win[m][k], wm').market = m /\ Row(m, k, job.win[m][k], wm').members = job.win[m][k].members
        BY DEF Row
      <4>. QED
        BY <3>1, <4>2, <4>3
    <3>3. CASE ~(End(k) - 1 <= wm')
      <4>1. job'.win[m][k] = job.win[m][k]
        BY <2>1, <3>3
      <4>. QED
        BY <3>1, <4>1 DEF InWindow
    <3>. QED
      BY <3>2, <3>3
  <2>. QED
    BY <2>1, <2>2 DEF AccountedBy, InRow, InWindow
<1>7. \/ job' \in {job, saved} /\ saved' \in {job, saved}
      \/ \E m \in Markets : Read(m)
      \/ Watermark
  BY DEF Next, vars, feed, flink, Tick, List, Change, Push, Connect, Disconnect, Refresh,
         Checkpoint, Restore
<1>. QED
  BY <1>3, <1>4, <1>5, <1>6, <1>7

\* Every book read is in an open window, in a row, or came behind the watermark, also when
\* a failure takes the job back to its checkpoint.
THEOREM NoneVanishes == Spec => []Accounted
<1>1. Init => AccountedBy(job) /\ AccountedBy(saved)
  BY DEF Init, NewJob, AccountedBy
<1>2. TypeOK /\ AccountedBy(job) /\ AccountedBy(saved) /\ [Next]_vars
        => (TypeOK /\ AccountedBy(job) /\ AccountedBy(saved))'
  BY TypeStep, AccountStep
<1>3. AccountedBy(job) => Accounted
  BY DEF AccountedBy, Accounted, InWindow, InRow
<1>. QED
  BY <1>1, <1>2, <1>3, InitTyped, PTL DEF Spec

\* The collector's connection carries its list: the list is replaced and subscribed to in
\* one step of the refresh task, or the connection is gone with it.
THEOREM SubscriptionFollowsList == Spec => []SubscribedToList
<1>1. Init => SubscribedToList
  BY DEF Init, SubscribedToList
<1>2. ASSUME SubscribedToList, [Next]_vars PROVE SubscribedToList'
  <2>1. CASE UNCHANGED <<markets, sub>>
    BY <1>2, <2>1 DEF SubscribedToList
  <2>2. CASE Connect \/ Disconnect \/ Refresh
    BY <2>2 DEF SubscribedToList, Connect, Disconnect, Refresh
  <2>. QED
    BY <1>2, <2>1, <2>2
    DEF Next, vars, feed, Tick, List, Read, Change, Push, Watermark, Checkpoint, Restore
<1>. QED
  BY <1>1, <1>2, PTL DEF Spec

-----------------------------------------------------------------------------
(* Finite sums.  SumFunction takes the elements of the domain in an order   *)
(* of its own; what a proof may use of it is that the order does not matter.*)
(* Where one would argue by induction over a set, these proofs look at a    *)
(* smallest counterexample.                                                 *)

LEMMA LeastNumber ==
  ASSUME NEW T \in SUBSET Nat, T # {}
  PROVE  \E t \in T : \A u \in T : t <= u
<1>. DEFINE R == OpToRel(<, Nat)
<1>1. IsWellFoundedOn(R, Nat)
  BY NatLessThanWellFounded
<1>2. \A x, y \in Nat : x < y => <<x, y>> \in R
  BY DEF OpToRel
<1>. HIDE DEF R
<1>3. PICK t \in T : \A u \in T : ~(<<u, t>> \in R)
  BY <1>1, WFMin
<1>4. \A u \in T : ~(u < t)
  BY <1>2, <1>3
<1>. QED
  BY <1>4

LEMMA SmallestSet ==
  ASSUME NEW S, IsFiniteSet(S), NEW B \in SUBSET (SUBSET S), B # {}
  PROVE  \E s \in B : \A x \in s : s \ {x} \notin B
<1>. DEFINE sizes == {Cardinality(s) : s \in B}
<1>1. \A s \in SUBSET S : IsFiniteSet(s) /\ Cardinality(s) \in Nat
  BY FS_Subset, FS_CardinalityType
<1>2. sizes \in SUBSET Nat /\ sizes # {}
  BY <1>1
<1>3. PICK n \in sizes : \A k \in sizes : n <= k
  <2>. HIDE DEF sizes
  <2>. QED
    BY <1>2, LeastNumber
<1>4. PICK s \in B : Cardinality(s) = n
  BY <1>3
<1>5. ASSUME NEW x \in s, s \ {x} \in B
      PROVE  FALSE
  <2>1. Cardinality(s \ {x}) = Cardinality(s) - 1
    BY <1>1, FS_RemoveElement
  <2>2. n <= Cardinality(s \ {x})
    BY <1>3, <1>5
  <2>3. n \in Int
    BY <1>2
  <2>. QED
    BY <1>4, <2>1, <2>2, <2>3
<1>. QED
  BY <1>5

\* The function SumFunction computes: the sums over the subsets of the domain.
Summing(f) ==
  LET iter[s \in SUBSET DOMAIN f] ==
        IF s = {} THEN 0 ELSE LET x == CHOOSE y \in s : TRUE IN f[x] + iter[s \ {x}]
  IN  iter

One(s) == CHOOSE y \in s : TRUE

LEMMA OneOf == ASSUME NEW s, s # {} PROVE One(s) \in s
BY DEF One

LEMMA SumIs == ASSUME NEW f PROVE SumFunction(f) = Summing(f)[DOMAIN f]
BY Zenon DEF SumFunction, SumFunctionOnSet, FoldFunctionOnSet, MapThenFoldSet, Summing

LEMMA SummingEquation ==
  ASSUME NEW f, NEW g,
         g = [s \in SUBSET DOMAIN f |-> IF s = {} THEN 0 ELSE f[One(s)] + g[s \ {One(s)}]]
  PROVE  Summing(f) =
           [s \in SUBSET DOMAIN f |-> IF s = {} THEN 0 ELSE f[One(s)] + Summing(f)[s \ {One(s)}]]
BY Zenon DEF Summing, One

\* There is such a function, built up from the small subsets.
LEMMA SummingExists ==
  ASSUME NEW f, IsFiniteSet(DOMAIN f)
  PROVE  \E g : g = [s \in SUBSET DOMAIN f |-> IF s = {} THEN 0 ELSE f[One(s)] + g[s \ {One(s)}]]
<1>. DEFINE Small(n) == {s \in SUBSET DOMAIN f : Cardinality(s) <= n}
            Upto(g, n) == g = [s \in Small(n) |-> IF s = {} THEN 0 ELSE f[One(s)] + g[s \ {One(s)}]]
            B == {n \in Nat : \A g : ~Upto(g, n)}
<1>1. \A s \in SUBSET DOMAIN f : IsFiniteSet(s) /\ Cardinality(s) \in Nat
  BY FS_Subset, FS_CardinalityType
<1>2. B = {}
  <2>. SUFFICES ASSUME B # {} PROVE FALSE
    OBVIOUS
  <2>1. PICK n \in B : \A k \in B : n <= k
    <3>1. B \in SUBSET Nat
      OBVIOUS
    <3>. HIDE DEF B
    <3>. QED
      BY <3>1, LeastNumber
  <2>2. n \in Nat /\ \A g : ~Upto(g, n)
    BY <2>1
  <2>3. CASE n = 0
    <3>. DEFINE g == [s \in Small(n) |-> 0]
    <3>1. \A s \in Small(n) : s = {}
      BY <1>1, <2>3, FS_EmptySet
    <3>2. Upto(g, n)
      BY <3>1
    <3>. QED
      BY <2>2, <3>2
  <2>4. CASE n # 0
    <3>1. n - 1 \in Nat /\ n - 1 \notin B
      <4>1. n - 1 \in Nat /\ ~(n <= n - 1)
        BY <2>2, <2>4
      <4>. HIDE DEF B
      <4>. QED
        BY <2>1, <4>1
    <3>2. PICK g : Upto(g, n - 1)
      <4>. HIDE DEF Upto
      <4>. QED
        BY <3>1
    <3>. DEFINE h == [s \in Small(n) |-> IF s = {} THEN 0 ELSE f[One(s)] + g[s \ {One(s)}]]
    <3>3. ASSUME NEW s \in Small(n), s # {}
          PROVE  s \ {One(s)} \in Small(n - 1) /\ s \ {One(s)} \in Small(n)
      <4>1. Cardinality(s \ {One(s)}) = Cardinality(s) - 1
        BY <1>1, <3>3, OneOf, FS_RemoveElement
      <4>. QED
        BY <1>1, <2>2, <4>1
    <3>4. ASSUME NEW t \in Small(n - 1), t \in Small(n)
          PROVE  h[t] = g[t]
      <4>1. g[t] = IF t = {} THEN 0 ELSE f[One(t)] + g[t \ {One(t)}]
        BY <3>2
      <4>2. h[t] = IF t = {} THEN 0 ELSE f[One(t)] + g[t \ {One(t)}]
        BY <3>4
      <4>. QED
        BY <4>1, <4>2
    <3>5. ASSUME NEW s \in Small(n), s # {}
          PROVE  h[s \ {One(s)}] = g[s \ {One(s)}]
      <4>. HIDE DEF h, Small
      <4>. QED
        BY <3>3, <3>4, <3>5
    <3>6. Upto(h, n)
      <4>. DEFINE hh == [s \in Small(n) |-> IF s = {} THEN 0 ELSE f[One(s)] + h[s \ {One(s)}]]
      <4>1. \A s \in Small(n) : h[s] = hh[s]
        <5>1. \A s \in Small(n) : h[s] = IF s = {} THEN 0 ELSE f[One(s)] + g[s \ {One(s)}]
          OBVIOUS
        <5>2. \A s \in Small(n) : hh[s] = IF s = {} THEN 0 ELSE f[One(s)] + h[s \ {One(s)}]
          OBVIOUS
        <5>. HIDE DEF h, hh, Small
        <5>. QED
          BY <3>5, <5>1, <5>2
      <4>2. h = [s \in Small(n) |-> h[s]] /\ hh = [s \in Small(n) |-> hh[s]]
        OBVIOUS
      <4>3. h = hh
        <5>. HIDE DEF h, hh, Small
        <5>. QED
          BY <4>1, <4>2
      <4>. QED
        BY <4>3
    <3>. HIDE DEF h, Upto
    <3>. QED
      BY <2>2, <3>6
  <2>. QED
    BY <2>3, <2>4
<1>3. Cardinality(DOMAIN f) \in Nat
  BY FS_CardinalityType
<1>4. PICK g : Upto(g, Cardinality(DOMAIN f))
  <2>1. ASSUME NEW n \in Nat, n \notin B
        PROVE  \E g : Upto(g, n)
    <3>. HIDE DEF Upto
    <3>. QED
      BY <2>1
  <2>. HIDE DEF Upto, B
  <2>. QED
    BY <1>2, <1>3, <2>1
<1>5. Small(Cardinality(DOMAIN f)) = SUBSET DOMAIN f
  BY FS_Subset
<1>. QED
  BY <1>4, <1>5

LEMMA SummingIs ==
  ASSUME NEW f, IsFiniteSet(DOMAIN f)
  PROVE  Summing(f) =
           [s \in SUBSET DOMAIN f |-> IF s = {} THEN 0 ELSE f[One(s)] + Summing(f)[s \ {One(s)}]]
<1>1. PICK g : g = [s \in SUBSET DOMAIN f |-> IF s = {} THEN 0 ELSE f[One(s)] + g[s \ {One(s)}]]
  BY SummingExists
<1>. QED
  BY ZenonT(30), <1>1, SummingEquation

LEMMA SummingSteps ==
  ASSUME NEW f, IsFiniteSet(DOMAIN f)
  PROVE  /\ Summing(f)[{}] = 0
         /\ \A s \in SUBSET DOMAIN f :
              s # {} => One(s) \in s /\ Summing(f)[s] = f[One(s)] + Summing(f)[s \ {One(s)}]
<1>. DEFINE G == Summing(f)
<1>1. G = [s \in SUBSET DOMAIN f |-> IF s = {} THEN 0 ELSE f[One(s)] + G[s \ {One(s)}]]
  BY SummingIs
<1>. HIDE DEF G
<1>2. \A s \in SUBSET DOMAIN f : G[s] = IF s = {} THEN 0 ELSE f[One(s)] + G[s \ {One(s)}]
  BY <1>1
<1>3. {} \in SUBSET DOMAIN f
  OBVIOUS
<1>4. G[{}] = 0 /\ \A s \in SUBSET DOMAIN f : s # {} => One(s) \in s /\ G[s] = f[One(s)] + G[s \ {One(s)}]
  BY <1>2, <1>3, OneOf
<1>. QED
  BY <1>4 DEF G

LEMMA SummingTyped ==
  ASSUME NEW D, IsFiniteSet(D), NEW f \in [D -> Int]
  PROVE  \A s \in SUBSET D : Summing(f)[s] \in Int
<1>. DEFINE B == {s \in SUBSET D : Summing(f)[s] \notin Int}
<1>1. DOMAIN f = D
  OBVIOUS
<1>2. CASE B # {}
  <2>1. PICK s \in B : \A x \in s : s \ {x} \notin B
    <3>1. B \in SUBSET (SUBSET D)
      OBVIOUS
    <3>. HIDE DEF B
    <3>. QED
      BY <1>2, <3>1, SmallestSet
  <2>2. s \in SUBSET D /\ Summing(f)[s] \notin Int
    BY <2>1
  <2>3. s # {}
    <3>1. Summing(f)[{}] = 0
      BY <1>1, SummingSteps
    <3>. QED
      BY <2>2, <3>1
  <2>4. One(s) \in s /\ Summing(f)[s] = f[One(s)] + Summing(f)[s \ {One(s)}]
    BY <1>1, <2>2, <2>3, SummingSteps
  <2>5. Summing(f)[s \ {One(s)}] \in Int
    BY <2>1, <2>2, <2>4
  <2>6. f[One(s)] \in Int
    BY <2>2, <2>4
  <2>. QED
    BY <2>2, <2>4, <2>5, <2>6
<1>. QED
  BY <1>2

\* Any element may be taken first.
LEMMA SummingAnyOrder ==
  ASSUME NEW D, IsFiniteSet(D), NEW f \in [D -> Int]
  PROVE  \A s \in SUBSET D : \A x \in s : Summing(f)[s] = f[x] + Summing(f)[s \ {x}]
<1>. DEFINE G == Summing(f)
            B == {s \in SUBSET D : \E x \in s : G[s] # f[x] + G[s \ {x}]}
<1>1. \A s \in SUBSET D : G[s] \in Int
  BY SummingTyped
<1>2. \A s \in SUBSET D : s # {} => One(s) \in s /\ G[s] = f[One(s)] + G[s \ {One(s)}]
  <2>1. DOMAIN f = D
    OBVIOUS
  <2>. QED
    BY <2>1, SummingSteps
<1>. HIDE DEF G
<1>3. ASSUME B # {}
      PROVE  FALSE
  <2>1. PICK s \in B : \A x \in s : s \ {x} \notin B
    <3>1. B \in SUBSET (SUBSET D)
      OBVIOUS
    <3>. HIDE DEF B
    <3>. QED
      BY <1>3, <3>1, SmallestSet
  <2>2. PICK x \in s : G[s] # f[x] + G[s \ {x}]
    BY <2>1
  <2>3. s \in SUBSET D /\ s # {}
    BY <2>1, <2>2
  <2>4. PICK y \in s : y = One(s)
    BY <1>2, <2>3
  <2>5. G[s] = f[y] + G[s \ {y}]
    BY <1>2, <2>3, <2>4
  <2>6. x # y
    BY <2>2, <2>5
  <2>7. G[s \ {y}] = f[x] + G[(s \ {y}) \ {x}]
    <3>1. x \in s \ {y} /\ s \ {y} \in SUBSET D /\ s \ {y} \notin B
      BY <2>1, <2>3, <2>6
    <3>. QED
      BY <3>1
  <2>8. G[s \ {x}] = f[y] + G[(s \ {x}) \ {y}]
    <3>1. y \in s \ {x} /\ s \ {x} \in SUBSET D /\ s \ {x} \notin B
      BY <2>1, <2>3, <2>6
    <3>. QED
      BY <3>1
  <2>. DEFINE r == (s \ {x}) \ {y}
  <2>9. (s \ {y}) \ {x} = r /\ r \in SUBSET D
    BY <2>3
  <2>10. G[r] \in Int /\ f[x] \in Int /\ f[y] \in Int
    <3>1. x \in D /\ y \in D
      BY <2>3
    <3>. QED
      BY <1>1, <2>9, <3>1
  <2>. HIDE DEF r
  <2>11. G[s \ {y}] = f[x] + G[r] /\ G[s \ {x}] = f[y] + G[r]
    BY <2>7, <2>8, <2>9 DEF r
  <2>. QED
    BY <2>2, <2>5, <2>10, <2>11
<1>4. \A s \in SUBSET D : \A x \in s : G[s] = f[x] + G[s \ {x}]
  BY <1>3
<1>. QED
  BY <1>4 DEF G

\* What a sum depends on.
LEMMA SummingLocal ==
  ASSUME NEW D, NEW E, IsFiniteSet(E), D \subseteq E,
         NEW f \in [D -> Int], NEW h \in [E -> Int], \A x \in D : f[x] = h[x]
  PROVE  \A s \in SUBSET D : Summing(f)[s] = Summing(h)[s]
<1>. DEFINE B == {s \in SUBSET D : Summing(f)[s] # Summing(h)[s]}
<1>1. IsFiniteSet(D) /\ DOMAIN f = D /\ DOMAIN h = E
  BY FS_Subset
<1>2. CASE B # {}
  <2>1. PICK s \in B : \A x \in s : s \ {x} \notin B
    <3>1. B \in SUBSET (SUBSET D)
      OBVIOUS
    <3>. HIDE DEF B
    <3>. QED
      BY <1>1, <1>2, <3>1, SmallestSet
  <2>2. s \in SUBSET D /\ s \in SUBSET E /\ Summing(f)[s] # Summing(h)[s]
    BY <2>1
  <2>3. Summing(f)[{}] = 0 /\ Summing(h)[{}] = 0
    BY <1>1, SummingSteps
  <2>4. s # {}
    BY <2>2, <2>3
  <2>5. One(s) \in s /\ Summing(f)[s] = f[One(s)] + Summing(f)[s \ {One(s)}]
    BY <1>1, <2>2, <2>4, SummingSteps
  <2>6. Summing(h)[s] = h[One(s)] + Summing(h)[s \ {One(s)}]
    BY <1>1, <2>2, <2>4, SummingSteps
  <2>7. Summing(f)[s \ {One(s)}] = Summing(h)[s \ {One(s)}]
    BY <2>1, <2>2, <2>5
  <2>8. f[One(s)] = h[One(s)]
    BY <2>2, <2>5
  <2>. QED
    BY <2>2, <2>5, <2>6, <2>7, <2>8
<1>. QED
  BY <1>2

LEMMA SumOfNone ==
  ASSUME NEW f, DOMAIN f = {}
  PROVE  SumFunction(f) = 0
BY SumIs, SummingSteps, FS_EmptySet

\* A sum grows by the value of the element that is added.
LEMMA SumGrows ==
  ASSUME NEW D, IsFiniteSet(D), NEW i, i \notin D, NEW f \in [D -> Int],
         NEW h \in [D \cup {i} -> Int], \A x \in D : f[x] = h[x]
  PROVE  SumFunction(h) = SumFunction(f) + h[i] /\ SumFunction(f) \in Int
<1>. DEFINE E == D \cup {i}
<1>1. IsFiniteSet(E)
  BY FS_AddElement
<1>2. DOMAIN f = D /\ DOMAIN h = E
  OBVIOUS
<1>3. SumFunction(f) = Summing(f)[D] /\ SumFunction(h) = Summing(h)[E]
  BY <1>2, SumIs
<1>4. E \in SUBSET E /\ i \in E /\ E \ {i} = D
  OBVIOUS
<1>. HIDE DEF E
<1>5. h \in [E -> Int]
  BY DEF E
<1>6. Summing(h)[E] = h[i] + Summing(h)[D]
  BY <1>1, <1>4, <1>5, SummingAnyOrder
<1>7. Summing(f)[D] = Summing(h)[D]
  <2>1. D \subseteq E
    BY DEF E
  <2>. QED
    BY <1>1, <1>5, <2>1, SummingLocal
<1>8. Summing(f)[D] \in Int
  BY SummingTyped
<1>9. h[i] \in Int
  BY <1>4, <1>5
<1>. QED
  BY <1>3, <1>6, <1>7, <1>8, <1>9

-----------------------------------------------------------------------------
(* A row is the aggregate of its books.                                     *)

LEMMA MinMaxAre ==
  ASSUME NEW S \in SUBSET Int, NEW x \in S
  PROVE  /\ (\A y \in S : x <= y) => Min(S) = x
         /\ (\A y \in S : y <= x) => Max(S) = x
<1>1. ASSUME \A y \in S : x <= y
      PROVE  Min(S) = x
  <2>. DEFINE least(z) == z \in S /\ \A y \in S : z <= y
  <2>1. least(x)
    BY <1>1
  <2>2. \A z : least(z) => z = x
    BY <1>1
  <2>3. Min(S) = CHOOSE z \in S : \A y \in S : z <= y
    BY DEF Min
  <2>4. least(CHOOSE z \in S : \A y \in S : z <= y)
    BY <2>1
  <2>. QED
    BY <2>2, <2>3, <2>4
<1>2. ASSUME \A y \in S : y <= x
      PROVE  Max(S) = x
  <2>. DEFINE most(z) == z \in S /\ \A y \in S : z >= y
  <2>1. most(x)
    BY <1>2
  <2>2. \A z : most(z) => z = x
    BY <1>2
  <2>3. Max(S) = CHOOSE z \in S : \A y \in S : z >= y
    BY DEF Max
  <2>4. most(CHOOSE z \in S : \A y \in S : z >= y)
    BY <2>1
  <2>. QED
    BY <2>2, <2>3, <2>4
<1>. QED
  BY <1>1, <1>2

LEMMA OfTwo ==
  ASSUME NEW x \in Int, NEW y \in Int
  PROVE  /\ Min({x, y}) = IF x <= y THEN x ELSE y
         /\ Max({x, y}) = IF x >= y THEN x ELSE y
<1>1. {x, y} \in SUBSET Int /\ x \in {x, y} /\ y \in {x, y}
  OBVIOUS
<1>2. CASE x < y
  <2>1. /\ \A z \in {x, y} : x <= z
        /\ \A z \in {x, y} : z <= y
    BY <1>2
  <2>2. Min({x, y}) = x /\ Max({x, y}) = y
    BY <1>1, <2>1, MinMaxAre
  <2>. QED
    BY <1>2, <2>2
<1>3. CASE y < x
  <2>1. /\ \A z \in {x, y} : y <= z
        /\ \A z \in {x, y} : z <= x
    BY <1>3
  <2>2. Min({x, y}) = y /\ Max({x, y}) = x
    BY <1>1, <2>1, MinMaxAre
  <2>. QED
    BY <1>3, <2>2
<1>4. CASE x = y
  <2>1. /\ \A z \in {x, y} : x <= z
        /\ \A z \in {x, y} : z <= x
    BY <1>4
  <2>2. Min({x, y}) = x /\ Max({x, y}) = x
    BY <1>1, <2>1, MinMaxAre
  <2>. QED
    BY <1>4, <2>2
<1>. QED
  BY <1>2, <1>3, <1>4

\* What an accumulator knows of the books it has counted, as the log of its market holds
\* them: their number and sum, and, once there are any, books that have its extremes.
Bounded(log, a) ==
  \A i \in a.members : /\ a.firstTs <= log[i].ts /\ log[i].ts <= a.lastTs
                       /\ a.midMin <= log[i].mid /\ log[i].mid <= a.midMax
Attained(log, a) ==
  /\ \E i \in a.members : log[i].ts = a.firstTs /\ log[i].mid = a.midOpen
  /\ \E i \in a.members : log[i].ts = a.lastTs /\ log[i].mid = a.midClose
  /\ \E i \in a.members : log[i].mid = a.midMin
  /\ \E i \in a.members : log[i].mid = a.midMax
Gathered(log, k, a) ==
  /\ a.members \subseteq 1..Len(log)
  /\ \A i \in a.members : Minute(log[i].ts) = k /\ log[i].mid # 0
  /\ a.count = Cardinality(a.members)
  /\ a.spreadSum = SumFunction([i \in a.members |-> log[i].mid])
  /\ IF a.members = {} THEN a = Acc ELSE Bounded(log, a) /\ Attained(log, a)

\* A log that grows holds the same books.
LEMMA GatheredStays ==
  ASSUME NEW s, NEW t, Len(s) \in Nat, Len(t) \in Nat, Len(s) <= Len(t),
         \A i \in 1..Len(s) : t[i] = s[i], NEW k, NEW a, Gathered(s, k, a)
  PROVE  Gathered(t, k, a)
<1>. DEFINE M == a.members
<1>1. M \subseteq 1..Len(s) /\ 1..Len(s) \subseteq 1..Len(t)
  BY DEF Gathered
<1>2. \A i \in M : t[i] = s[i]
  BY <1>1
<1>3. [i \in M |-> t[i].mid] = [i \in M |-> s[i].mid]
  BY <1>2
<1>4. Bounded(s, a) => Bounded(t, a)
  BY <1>2 DEF Bounded
<1>5. Attained(s, a) => Attained(t, a)
  BY <1>2 DEF Attained
<1>. QED
  BY <1>1, <1>2, <1>3, <1>4, <1>5 DEF Gathered

LEMMA EntryTyped ==
  ASSUME NEW e \in Entries
  PROVE  /\ e.ts \in Nat /\ e.mid \in Nat /\ e.mid \in Mids
         /\ MaxNow \in Nat /\ e.ts < MaxNow + 1
         /\ MAX_VALUE \in Nat /\ e.mid <= MAX_VALUE
<1>1. MaxNow \in Nat /\ Mids \subseteq Nat /\ MAX_VALUE \in Nat /\ \A mid \in Mids : mid <= MAX_VALUE
  BY ParameterAssumption
<1>2. e.ts \in 0..MaxNow /\ e.mid \in Mids
  BY DEF Entries
<1>3. e.ts \in Nat /\ e.ts < MaxNow + 1
  BY <1>1, <1>2
<1>. QED
  BY <1>1, <1>2, <1>3

\* What counting a book does to each field.
LEMMA AddFields ==
  ASSUME NEW a \in Accs, NEW b \in Entries, NEW i \in Nat, b.mid # 0, NEW w, w = add(a, b, i)
  PROVE  /\ w.count = a.count + 1 /\ w.members = a.members \cup {i}
         /\ w.spreadSum = a.spreadSum + b.mid
         /\ w.firstTs = IF a.firstTs <= b.ts THEN a.firstTs ELSE b.ts
         /\ w.midOpen = IF b.ts < a.firstTs THEN b.mid ELSE a.midOpen
         /\ w.lastTs = IF a.lastTs >= b.ts THEN a.lastTs ELSE b.ts
         /\ w.midClose = IF b.ts >= a.lastTs THEN b.mid ELSE a.midClose
         /\ w.midMin = IF a.midMin <= b.mid THEN a.midMin ELSE b.mid
         /\ w.midMax = IF a.midMax >= b.mid THEN a.midMax ELSE b.mid
<1>1. /\ a.firstTs \in Int /\ a.lastTs \in Int /\ a.midMin \in Int /\ a.midMax \in Int
      /\ b.ts \in Int /\ b.mid \in Int
  BY EntryTyped DEF Accs
<1>2. /\ Min({a.firstTs, b.ts}) = IF a.firstTs <= b.ts THEN a.firstTs ELSE b.ts
      /\ Max({a.lastTs, b.ts}) = IF a.lastTs >= b.ts THEN a.lastTs ELSE b.ts
      /\ Min({a.midMin, b.mid}) = IF a.midMin <= b.mid THEN a.midMin ELSE b.mid
      /\ Max({a.midMax, b.mid}) = IF a.midMax >= b.mid THEN a.midMax ELSE b.mid
  BY <1>1, OfTwo
<1>. QED
  BY <1>2 DEF add

\* A book that is counted once more: the first one ...
LEMMA FirstBook ==
  ASSUME NEW log \in Seq(Entries), NEW i \in 1..Len(log), i \in Nat, log[i] \in Entries,
         log[i].mid # 0, NEW w, w = add(Acc, log[i], i)
  PROVE  Bounded(log, w) /\ Attained(log, w)
<1>1. log[i].ts \in Nat /\ log[i].mid \in Nat /\ log[i].ts < MaxNow + 1 /\ MaxNow \in Nat
      /\ MAX_VALUE \in Nat /\ log[i].mid <= MAX_VALUE
  BY EntryTyped
<1>2. Acc.firstTs = MaxNow + 1 /\ Acc.lastTs = -1 /\ Acc.midMin = MAX_VALUE /\ Acc.midMax = -1
  BY DEF Acc
<1>3. w.members = {i}
  BY AccTyped, AddFields
<1>4. /\ w.firstTs = IF Acc.firstTs <= log[i].ts THEN Acc.firstTs ELSE log[i].ts
      /\ w.midOpen = IF log[i].ts < Acc.firstTs THEN log[i].mid ELSE Acc.midOpen
      /\ w.lastTs = IF Acc.lastTs >= log[i].ts THEN Acc.lastTs ELSE log[i].ts
      /\ w.midClose = IF log[i].ts >= Acc.lastTs THEN log[i].mid ELSE Acc.midClose
      /\ w.midMin = IF Acc.midMin <= log[i].mid THEN Acc.midMin ELSE log[i].mid
      /\ w.midMax = IF Acc.midMax >= log[i].mid THEN Acc.midMax ELSE log[i].mid
  BY AccTyped, AddFields
<1>5. /\ w.firstTs = log[i].ts /\ w.midOpen = log[i].mid /\ w.lastTs = log[i].ts
      /\ w.midClose = log[i].mid /\ w.midMin = log[i].mid /\ w.midMax = log[i].mid
  BY <1>1, <1>2, <1>4
<1>. QED
  BY <1>1, <1>3, <1>5 DEF Bounded, Attained

\* ... and a further one.
LEMMA FurtherBook ==
  ASSUME NEW log \in Seq(Entries), NEW i \in 1..Len(log), i \in Nat,
         \A x \in 1..Len(log) : log[x] \in Entries,
         NEW a \in Accs, a.members \subseteq 1..Len(log), Bounded(log, a), Attained(log, a),
         log[i].mid # 0, NEW w, w = add(a, log[i], i)
  PROVE  Bounded(log, w) /\ Attained(log, w)
<1>1. /\ \A x \in a.members : log[x].ts \in Int /\ log[x].mid \in Int
      /\ log[i].ts \in Int /\ log[i].mid \in Int
  BY EntryTyped
<1>2. a.firstTs \in Int /\ a.lastTs \in Int /\ a.midMin \in Int /\ a.midMax \in Int
  BY DEF Accs
<1>3. w.members = a.members \cup {i}
  BY AddFields
<1>4. /\ w.firstTs = IF a.firstTs <= log[i].ts THEN a.firstTs ELSE log[i].ts
      /\ w.midOpen = IF log[i].ts < a.firstTs THEN log[i].mid ELSE a.midOpen
      /\ w.lastTs = IF a.lastTs >= log[i].ts THEN a.lastTs ELSE log[i].ts
      /\ w.midClose = IF log[i].ts >= a.lastTs THEN log[i].mid ELSE a.midClose
      /\ w.midMin = IF a.midMin <= log[i].mid THEN a.midMin ELSE log[i].mid
      /\ w.midMax = IF a.midMax >= log[i].mid THEN a.midMax ELSE log[i].mid
  BY AddFields
<1>5. /\ w.firstTs <= a.firstTs /\ w.firstTs <= log[i].ts
      /\ a.lastTs <= w.lastTs /\ log[i].ts <= w.lastTs
      /\ w.midMin <= a.midMin /\ w.midMin <= log[i].mid
      /\ a.midMax <= w.midMax /\ log[i].mid <= w.midMax
      /\ w.firstTs \in Int /\ w.lastTs \in Int /\ w.midMin \in Int /\ w.midMax \in Int
  BY <1>1, <1>2, <1>4
<1>6. ASSUME NEW x \in w.members
      PROVE  /\ w.firstTs <= log[x].ts /\ log[x].ts <= w.lastTs
             /\ w.midMin <= log[x].mid /\ log[x].mid <= w.midMax
  <2>1. CASE x = i
    BY <1>5, <2>1
  <2>2. CASE x \in a.members
    <3>1. /\ a.firstTs <= log[x].ts /\ log[x].ts <= a.lastTs
          /\ a.midMin <= log[x].mid /\ log[x].mid <= a.midMax
      BY <2>2 DEF Bounded
    <3>2. log[x].ts \in Int /\ log[x].mid \in Int
      BY <1>1, <2>2
    <3>3. w.firstTs <= log[x].ts /\ log[x].ts <= w.lastTs
      BY SMTT(30), <1>2, <1>5, <3>1, <3>2
    <3>4. w.midMin <= log[x].mid /\ log[x].mid <= w.midMax
      BY SMTT(30), <1>2, <1>5, <3>1, <3>2
    <3>. QED
      BY <3>3, <3>4
  <2>. QED
    BY <1>3, <2>1, <2>2
<1>7. \E x \in w.members : log[x].ts = w.firstTs /\ log[x].mid = w.midOpen
  <2>1. PICK x \in a.members : log[x].ts = a.firstTs /\ log[x].mid = a.midOpen
    BY DEF Attained
  <2>2. CASE log[i].ts < a.firstTs
    <3>1. log[i].ts = w.firstTs /\ log[i].mid = w.midOpen
      BY <1>1, <1>2, <1>4, <2>2
    <3>. QED
      BY <1>3, <3>1
  <2>3. CASE ~(log[i].ts < a.firstTs)
    <3>1. log[x].ts = w.firstTs /\ log[x].mid = w.midOpen
      BY <1>1, <1>2, <1>4, <2>1, <2>3
    <3>. QED
      BY <1>3, <3>1
  <2>. QED
    BY <2>2, <2>3
<1>8. \E x \in w.members : log[x].ts = w.lastTs /\ log[x].mid = w.midClose
  <2>1. PICK x \in a.members : log[x].ts = a.lastTs /\ log[x].mid = a.midClose
    BY DEF Attained
  <2>2. CASE log[i].ts >= a.lastTs
    <3>1. log[i].ts = w.lastTs /\ log[i].mid = w.midClose
      BY <1>1, <1>2, <1>4, <2>2
    <3>. QED
      BY <1>3, <3>1
  <2>3. CASE ~(log[i].ts >= a.lastTs)
    <3>1. log[x].ts = w.lastTs /\ log[x].mid = w.midClose
      BY <1>1, <1>2, <1>4, <2>1, <2>3
    <3>. QED
      BY <1>3, <3>1
  <2>. QED
    BY <2>2, <2>3
<1>9. \E x \in w.members : log[x].mid = w.midMin
  <2>1. PICK x \in a.members : log[x].mid = a.midMin
    BY DEF Attained
  <2>2. w.midMin = log[i].mid \/ w.midMin = log[x].mid
    BY <1>4, <2>1
  <2>. QED
    BY <1>3, <2>2
<1>10. \E x \in w.members : log[x].mid = w.midMax
  <2>1. PICK x \in a.members : log[x].mid = a.midMax
    BY DEF Attained
  <2>2. w.midMax = log[i].mid \/ w.midMax = log[x].mid
    BY <1>4, <2>1
  <2>. QED
    BY <1>3, <2>2
<1>. QED
  BY <1>6, <1>7, <1>8, <1>9, <1>10 DEF Bounded, Attained

LEMMA SumOfOneMore ==
  ASSUME NEW D, IsFiniteSet(D), NEW i, i \notin D, NEW log,
         \A x \in D \cup {i} : log[x].mid \in Int
  PROVE  SumFunction([x \in D \cup {i} |-> log[x].mid])
           = SumFunction([x \in D |-> log[x].mid]) + log[i].mid
<1>1. PICK f \in [D -> Int] : f = [x \in D |-> log[x].mid]
  OBVIOUS
<1>2. PICK h \in [D \cup {i} -> Int] : h = [x \in D \cup {i} |-> log[x].mid]
  OBVIOUS
<1>3. (\A x \in D : f[x] = h[x]) /\ h[i] = log[i].mid
  BY <1>1, <1>2
<1>4. SumFunction(h) = SumFunction(f) + h[i]
  BY <1>3, SumGrows
<1>. QED
  BY <1>1, <1>2, <1>3, <1>4

LEMMA GatheredAdds ==
  ASSUME NEW log \in Seq(Entries), NEW i \in 1..Len(log), NEW k, k = Minute(log[i].ts),
         NEW a \in Accs, Gathered(log, k, a), i \notin a.members, NEW w, w = add(a, log[i], i)
  PROVE  Gathered(log, k, w) /\ w.members \subseteq a.members \cup {i}
<1>1. Len(log) \in Nat /\ i \in Nat
  BY LenProperties
<1>2. \A x \in 1..Len(log) : log[x] \in Entries
  BY ElementOfSeq
<1>3. CASE log[i].mid = 0
  BY <1>1, <1>2, <1>3, AddTyped
<1>4. CASE log[i].mid # 0
  <2>1. w.count = a.count + 1 /\ w.members = a.members \cup {i} /\ w.spreadSum = a.spreadSum + log[i].mid
    BY <1>1, <1>2, <1>4, AddFields
  <2>2. a.members \subseteq 1..Len(log) /\ IsFiniteSet(a.members)
    <3>1. a.members \subseteq 1..Len(log)
      BY DEF Gathered
    <3>2. IsFiniteSet(1..Len(log))
      <4>1. 1 \in Int /\ Len(log) \in Int
        BY <1>1
      <4>. QED
        BY <4>1, FS_Interval
    <3>. QED
      BY <3>1, <3>2, FS_Subset
  <2>3. w.count = Cardinality(w.members)
    BY ZenonT(30), <2>1, <2>2, FS_AddElement DEF Gathered
  <2>4. w.spreadSum = SumFunction([x \in w.members |-> log[x].mid])
    <3>1. \A x \in a.members \cup {i} : log[x].mid \in Int
      BY <1>2, <2>2, EntryTyped
    <3>2. SumFunction([x \in a.members \cup {i} |-> log[x].mid])
            = SumFunction([x \in a.members |-> log[x].mid]) + log[i].mid
      BY <2>2, <3>1, SumOfOneMore
    <3>3. a.spreadSum = SumFunction([x \in a.members |-> log[x].mid])
      BY DEF Gathered
    <3>. QED
      BY <2>1, <3>2, <3>3
  <2>5. w.members \subseteq 1..Len(log) /\ \A x \in w.members : Minute(log[x].ts) = k /\ log[x].mid # 0
    BY <1>4, <2>1, <2>2 DEF Gathered
  <2>6. Bounded(log, w) /\ Attained(log, w)
    <3>1. CASE a.members = {}
      <4>1. a = Acc
        BY <3>1 DEF Gathered
      <4>. QED
        BY <1>1, <1>2, <1>4, <4>1, FirstBook
    <3>2. CASE a.members # {}
      <4>1. Bounded(log, a) /\ Attained(log, a)
        BY <3>2 DEF Gathered
      <4>. QED
        BY <1>1, <1>2, <1>4, <2>2, <4>1, FurtherBook
    <3>. QED
      BY <3>1, <3>2
  <2>. QED
    BY <2>1, <2>3, <2>4, <2>5, <2>6 DEF Gathered
<1>. QED
  BY <1>3, <1>4

LEMMA NothingGathered ==
  ASSUME NEW log, NEW k
  PROVE  Gathered(log, k, Acc)
<1>1. Acc.members = {} /\ Acc.count = 0 /\ Acc.spreadSum = 0
  BY DEF Acc
<1>2. Cardinality({}) = 0 /\ SumFunction([i \in {} |-> log[i].mid]) = 0
  BY FS_EmptySet, SumOfNone
<1>. QED
  BY <1>1, <1>2 DEF Gathered

\* Every window gathers the books it has counted, all of them behind the read position.
GathersBy(j) ==
  \A m \in Markets, k \in Minutes :
    j.win[m][k] # NONE => /\ Gathered(topic[m], k, j.win[m][k])
                          /\ j.win[m][k].members \subseteq 1..j.pos[m]

\* Every row was gathered so.
GatheredRow(log, r) ==
  \E a \in Accs :
    /\ Gathered(log, r.minute, a) /\ a.members # {}
    /\ r.members = a.members /\ r.snapshots = a.count /\ r.spreadSum = a.spreadSum
    /\ r.midOpen = a.midOpen /\ r.midClose = a.midClose
    /\ r.midMin = a.midMin /\ r.midMax = a.midMax
RowsGathered == \A r \in rows : GatheredRow(topic[r.market], r)

LEMMA LogStays ==
  ASSUME TypeOK, [Next]_vars, NEW m \in Markets, NEW k, NEW a, Gathered(topic[m], k, a)
  PROVE  Gathered(topic'[m], k, a)
<1>1. /\ Len(topic[m]) \in Nat /\ Len(topic'[m]) \in Nat /\ Len(topic[m]) <= Len(topic'[m])
      /\ \A i \in 1..Len(topic[m]) : topic'[m][i] = topic[m][i]
  BY TopicGrows
<1>. QED
  BY <1>1, GatheredStays

LEMMA GatheringStays ==
  ASSUME TypeOK, [Next]_vars, NEW j, GathersBy(j)
  PROVE  \A m \in Markets, k \in Minutes :
           j.win[m][k] # NONE => /\ Gathered(topic'[m], k, j.win[m][k])
                                 /\ j.win[m][k].members \subseteq 1..j.pos[m]
BY LogStays DEF GathersBy

LEMMA GathersStep ==
  ASSUME TypeOK, GathersBy(job), GathersBy(saved), [Next]_vars
  PROVE  GathersBy(job)' /\ GathersBy(saved)'
<1>1. JobOK(job)
  BY DEF TypeOK
<1>2. \A j : GathersBy(j) =>
        \A m \in Markets, k \in Minutes :
          j.win[m][k] # NONE => /\ Gathered(topic'[m], k, j.win[m][k])
                                /\ j.win[m][k].members \subseteq 1..j.pos[m]
  BY GatheringStays
<1>3. job' \in {job, saved} => GathersBy(job)'
  BY <1>2 DEF GathersBy
<1>4. saved' \in {job, saved} => GathersBy(saved)'
  BY <1>2 DEF GathersBy
<1>5. ASSUME NEW m \in Markets, Read(m)
      PROVE  GathersBy(job)' /\ saved' = saved
  <2>1. PICK i, k, late, a : ReadOf(m, i, k, late, a)
    BY <1>5, ReadIs
  <2>2. /\ topic' = topic /\ saved' = saved /\ i = job.pos[m] + 1 /\ i \in 1..Len(topic[m])
        /\ k = Minute(topic[m][i].ts)
        /\ a = (IF job.win[m][k] = NONE THEN Acc ELSE job.win[m][k])
    BY <2>1 DEF ReadOf
  <2>3. /\ k \in Minutes /\ a \in Accs
        /\ \A n \in Markets : job'.pos[n] = IF n = m THEN i ELSE job.pos[n]
        /\ \A n \in Markets, l \in Minutes :
             job'.win[n][l] = IF n = m /\ l = k /\ ~late THEN add(a, topic[m][i], i) ELSE job.win[n][l]
    BY <2>1, ReadEffect
  <2>4. \A n \in Markets : job.pos[n] \in Nat
    BY <1>1 DEF JobOK, Jobs
  <2>. PICK p \in Nat : p = job.pos[m]
    BY <2>4
  <2>5. i = p + 1 /\ job'.pos[m] = i /\ 1..p \subseteq 1..i /\ i \in 1..i /\ i \notin 1..p
    <3>1. i = p + 1 /\ job'.pos[m] = i
      BY <2>2, <2>3
    <3>. QED
      BY <3>1
  <2>6. \A n \in Markets : 1..job.pos[n] \subseteq 1..job'.pos[n]
    <3>1. ASSUME NEW n \in Markets, n # m
          PROVE  job'.pos[n] = job.pos[n]
      BY <2>3, <3>1
    <3>. QED
      BY <2>5, <3>1
  <2>7. Gathered(topic[m], k, a) /\ a.members \subseteq 1..job.pos[m]
    <3>1. CASE job.win[m][k] = NONE
      BY <2>2, <3>1, AccTyped, NothingGathered
    <3>2. CASE job.win[m][k] # NONE
      BY <2>2, <2>3, <3>2 DEF GathersBy
    <3>. QED
      BY <3>1, <3>2
  <2>. PICK w : w = add(a, topic[m][i], i)
    OBVIOUS
  <2>8. Gathered(topic[m], k, w) /\ w.members \subseteq 1..job'.pos[m]
    <3>1. topic[m] \in Seq(Entries)
      BY DEF TypeOK
    <3>2. i \notin a.members
      BY <2>5, <2>7
    <3>3. i \in 1..Len(topic[m]) /\ k = Minute(topic[m][i].ts)
      BY <2>2
    <3>4. a \in Accs /\ Gathered(topic[m], k, a)
      BY <2>3, <2>7
    <3>5. Gathered(topic[m], k, w) /\ w.members \subseteq a.members \cup {i}
      BY <3>1, <3>2, <3>3, <3>4, GatheredAdds
    <3>. QED
      BY <2>5, <2>7, <3>5
  <2>9. ASSUME NEW n \in Markets, NEW l \in Minutes, job'.win[n][l] # NONE
        PROVE  /\ Gathered(topic'[n], l, job'.win[n][l])
               /\ job'.win[n][l].members \subseteq 1..job'.pos[n]
    <3>1. CASE n = m /\ l = k /\ ~late
      <4>1. job'.win[n][l] = w
        BY <2>3, <3>1
      <4>. QED
        BY <2>2, <2>8, <3>1, <4>1
    <3>2. CASE ~(n = m /\ l = k /\ ~late)
      <4>1. job'.win[n][l] = job.win[n][l]
        BY <2>3, <3>2
      <4>2. Gathered(topic[n], l, job.win[n][l]) /\ job.win[n][l].members \subseteq 1..job.pos[n]
        BY <2>9, <4>1 DEF GathersBy
      <4>. QED
        BY <2>2, <2>6, <4>1, <4>2
    <3>. QED
      BY <3>1, <3>2
  <2>. QED
    BY <2>2, <2>9 DEF GathersBy
<1>6. ASSUME Watermark
      PROVE  GathersBy(job)' /\ saved' = saved
  <2>1. /\ job'.pos = job.pos /\ topic' = topic /\ saved' = saved
        /\ \A m \in Markets, k \in Minutes :
             job'.win[m][k] = IF job.win[m][k] # NONE /\ End(k) - 1 <= wm' THEN NONE ELSE job.win[m][k]
    BY <1>6, WatermarkEffect
  <2>2. ASSUME NEW m \in Markets, NEW k \in Minutes, job'.win[m][k] # NONE
        PROVE  job'.win[m][k] = job.win[m][k]
    BY <2>1, <2>2
  <2>. QED
    BY <2>1, <2>2 DEF GathersBy
<1>7. \/ job' \in {job, saved} /\ saved' \in {job, saved}
      \/ \E m \in Markets : Read(m)
      \/ Watermark
  BY DEF Next, vars, feed, flink, Tick, List, Change, Push, Connect, Disconnect, Refresh,
         Checkpoint, Restore
<1>. QED
  BY <1>3, <1>4, <1>5, <1>6, <1>7

LEMMA RowsGatheredStep ==
  ASSUME TypeOK, GathersBy(job), RowsGathered, [Next]_vars
  PROVE  RowsGathered'
<1>1. JobOK(job)
  BY DEF TypeOK
<1>2. ASSUME NEW r \in rows
      PROVE  GatheredRow(topic'[r.market], r)
  <2>1. r.market \in Markets
    BY DEF TypeOK
  <2>2. GatheredRow(topic[r.market], r)
    BY DEF RowsGathered
  <2>. QED
    BY <2>1, <2>2, LogStays DEF GatheredRow
<1>3. ASSUME Watermark, NEW r \in rows', r \notin rows
      PROVE  GatheredRow(topic'[r.market], r)
  <2>1. rows' = rows \cup {x \in Rows(Due(wm'), wm') : x.snapshots > 0} /\ topic' = topic
    BY <1>3 DEF Watermark, feed
  <2>2. r.snapshots > 0
    BY <1>3, <2>1
  <2>3. PICK m \in Markets, k \in Minutes : job.win[m][k] # NONE /\ r = Row(m, k, job.win[m][k], wm')
    BY <1>3, WatermarkEffect
  <2>4. job.win[m][k] \in Accs
    BY <1>1, <2>3 DEF JobOK, Jobs
  <2>5. PICK a \in Accs : a = job.win[m][k]
    BY <2>4
  <2>6. r = Row(m, k, a, wm')
    BY <2>3, <2>5
  <2>7. /\ r.market = m /\ r.minute = k
        /\ r.members = a.members /\ r.snapshots = a.count /\ r.spreadSum = a.spreadSum
        /\ r.midOpen = a.midOpen /\ r.midClose = a.midClose
        /\ r.midMin = a.midMin /\ r.midMax = a.midMax
    BY <2>6 DEF Row
  <2>8. Gathered(topic[m], k, a)
    BY <2>3, <2>5 DEF GathersBy
  <2>9. a.members # {}
    <3>1. a.members = {} => a.count = 0
      <4>1. Acc.count = 0
        BY DEF Acc
      <4>. QED
        BY <2>8, <4>1 DEF Gathered
    <3>. QED
      BY <2>2, <2>7, <3>1
  <2>. QED
    BY <2>1, <2>7, <2>8, <2>9 DEF GatheredRow
<1>4. Watermark \/ rows' = rows
  BY DEF Next, vars, flink, Tick, List, Change, Push, Connect, Disconnect, Refresh, Read,
         Checkpoint, Restore
<1>5. ASSUME NEW r \in rows'
      PROVE  GatheredRow(topic'[r.market], r)
  BY <1>2, <1>3, <1>4, <1>5
<1>. QED
  BY <1>5 DEF RowsGathered

LEMMA GatheredIsAggregate ==
  ASSUME TypeOK, RowsGathered
  PROVE  RowIsAggregate
<1>. SUFFICES
       ASSUME NEW r \in rows
       PROVE  LET B(i) == topic[r.market][i]
                  ts == {B(i).ts : i \in r.members}
              IN  /\ \A i \in r.members : Minute(B(i).ts) = r.minute /\ B(i).mid # 0
                  /\ r.snapshots = Cardinality(r.members)
                  /\ \E i \in r.members : B(i).ts = Min(ts) /\ B(i).mid = r.midOpen
                  /\ \E i \in r.members : B(i).ts = Max(ts) /\ B(i).mid = r.midClose
                  /\ r.midMin = Min({B(i).mid : i \in r.members})
                  /\ r.midMax = Max({B(i).mid : i \in r.members})
                  /\ r.spreadSum = SumFunction([i \in r.members |-> B(i).mid])
  BY DEF RowIsAggregate
<1>. DEFINE log == topic[r.market]
            M == r.members
<1>1. log \in Seq(Entries)
  BY DEF TypeOK
<1>2. PICK a \in Accs :
        /\ Gathered(log, r.minute, a) /\ a.members # {}
        /\ r.members = a.members /\ r.snapshots = a.count /\ r.spreadSum = a.spreadSum
        /\ r.midOpen = a.midOpen /\ r.midClose = a.midClose
        /\ r.midMin = a.midMin /\ r.midMax = a.midMax
  BY DEF RowsGathered, GatheredRow
<1>3. M = a.members
  BY <1>2
<1>. HIDE DEF log, M
<1>4. /\ M \subseteq 1..Len(log)
      /\ \A i \in M : Minute(log[i].ts) = r.minute /\ log[i].mid # 0
      /\ a.count = Cardinality(M)
      /\ a.spreadSum = SumFunction([i \in M |-> log[i].mid])
      /\ Bounded(log, a) /\ Attained(log, a)
  BY <1>2, <1>3 DEF Gathered
<1>5. \A i \in M : log[i].ts \in Int /\ log[i].mid \in Int
  BY <1>1, <1>4, ElementOfSeq, EntryTyped
<1>. DEFINE times == {log[i].ts : i \in M}
            mids == {log[i].mid : i \in M}
<1>6. times \in SUBSET Int /\ mids \in SUBSET Int
  BY <1>5
<1>7. /\ \A t \in times : a.firstTs <= t /\ t <= a.lastTs
      /\ \A v \in mids : a.midMin <= v /\ v <= a.midMax
  BY <1>3, <1>4 DEF Bounded
<1>8. /\ a.firstTs \in times /\ a.lastTs \in times /\ a.midMin \in mids /\ a.midMax \in mids
      /\ \E i \in M : log[i].ts = a.firstTs /\ log[i].mid = a.midOpen
      /\ \E i \in M : log[i].ts = a.lastTs /\ log[i].mid = a.midClose
  BY <1>3, <1>4 DEF Attained
<1>. HIDE DEF times, mids
<1>9. /\ Min(times) = a.firstTs /\ Max(times) = a.lastTs
      /\ Min(mids) = a.midMin /\ Max(mids) = a.midMax
  BY <1>6, <1>7, <1>8, MinMaxAre
<1>10. /\ \A i \in M : Minute(log[i].ts) = r.minute /\ log[i].mid # 0
       /\ r.snapshots = Cardinality(M)
       /\ \E i \in M : log[i].ts = Min(times) /\ log[i].mid = r.midOpen
       /\ \E i \in M : log[i].ts = Max(times) /\ log[i].mid = r.midClose
       /\ r.midMin = Min(mids)
       /\ r.midMax = Max(mids)
       /\ r.spreadSum = SumFunction([i \in M |-> log[i].mid])
  BY <1>2, <1>4, <1>8, <1>9
<1>. QED
  BY <1>10 DEF times, mids, M, log

\* Whatever order a minute's books come in, also across failures of the job, the row holds
\* their count, sum and extremes, and open and close are the books of its first and last
\* timestamp: an accumulator is at any time the aggregate of the books it has counted.
THEOREM RowsAreAggregates == Spec => []RowIsAggregate
<1>1. Init => GathersBy(job) /\ GathersBy(saved) /\ RowsGathered
  BY DEF Init, NewJob, GathersBy, RowsGathered
<1>2. TypeOK /\ GathersBy(job) /\ GathersBy(saved) /\ RowsGathered /\ [Next]_vars
        => (TypeOK /\ GathersBy(job) /\ GathersBy(saved) /\ RowsGathered)'
  BY TypeStep, GathersStep, RowsGatheredStep
<1>3. TypeOK /\ RowsGathered => RowIsAggregate
  BY GatheredIsAggregate
<1>. QED
  BY <1>1, <1>2, <1>3, InitTyped, PTL DEF Spec
=============================================================================
