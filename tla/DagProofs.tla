------------------------------ MODULE DagProofs ------------------------------
(***************************************************************************)
(* Proofs about the three DAGs that are modelled: the backups              *)
(* (BackupChain), the delivery of alerts (AlertDelivery) and the health    *)
(* check (HealthCheck), each for any value of its constants.               *)
(***************************************************************************)
EXTENDS BackupChain, AlertDelivery, HealthCheck, TLAPS, FiniteSetTheorems, WellFoundedInduction

-----------------------------------------------------------------------------
(* Numbers.                                                                 *)

\* A set of numbers has a least one.
LEMMA LeastNumber ==
  ASSUME NEW T \in SUBSET Nat, T # {}
  PROVE  \E t \in T : \A u \in T : t <= u
<1>. DEFINE R == OpToRel(<, Nat)
<1>1. IsWellFoundedOn(R, Nat)
  BY NatLessThanWellFounded
<1>2. \A x, y \in Nat : x < y => <<x, y>> \in R
  BY DEF OpToRel
<1>. HIDE DEF R
<1>3. PICK t \in T : \A u \in T : ~(<<u, t>> \in R)
  BY <1>1, WFMin
<1>4. \A u \in T : ~(u < t)
  BY <1>2, <1>3
<1>. QED
  BY <1>4

\* ... and one that is bounded a greatest.
LEMMA GreatestNumber ==
  ASSUME NEW T \in SUBSET Nat, T # {}, NEW n \in Nat, \A t \in T : t <= n
  PROVE  \E t \in T : \A u \in T : t >= u
<1>. DEFINE U == {n - t : t \in T}
<1>1. U \in SUBSET Nat /\ U # {}
  <2>1. \A t \in T : n - t \in Nat
    OBVIOUS
  <2>. QED
    BY <2>1
<1>2. PICK v \in U : \A u \in U : v <= u
  BY <1>1, LeastNumber
<1>3. PICK t \in T : v = n - t
  OBVIOUS
<1>4. \A u \in T : n - t <= n - u
  BY <1>2, <1>3
<1>. QED
  BY <1>4

\* A quotient: its range, and how it grows.
LEMMA DivRange ==
  ASSUME NEW a \in Int, NEW h \in Nat \ {0}
  PROVE  /\ a \div h \in Int
         /\ h * (a \div h) <= a
         /\ a < h * (a \div h) + h
BY Z3

LEMMA DivAhead ==
  ASSUME NEW a \in Int, NEW b \in Int, NEW n \in Nat, NEW h \in Nat \ {0}, a + n * h <= b
  PROVE  (a \div h) + n <= b \div h
<1>. DEFINE p == a \div h
            q == b \div h
<1>1. p \in Int /\ q \in Int /\ h * p <= a /\ b < h * q + h
  BY DivRange
<1>. HIDE DEF p, q
<1>2. SUFFICES ASSUME q + 1 <= p + n PROVE FALSE
  BY <1>1 DEF p, q
<1>3. h * (q + 1) <= h * (p + n)
  BY <1>1, <1>2
<1>4. h * (q + 1) = h * q + h /\ h * (p + n) = h * p + n * h
  BY <1>1
<1>5. n * h \in Int /\ h * p \in Int /\ h * q \in Int
  BY <1>1
<1>. QED
  BY <1>1, <1>3, <1>4, <1>5

LEMMA DivMono ==
  ASSUME NEW a \in Int, NEW b \in Int, NEW h \in Nat \ {0}, a <= b
  PROVE  a \div h <= b \div h
<1>1. (a \div h) + 0 <= b \div h
  BY DivAhead, a + 0 * h <= b
<1>. QED
  BY <1>1, DivRange

LEMMA DivNext ==
  ASSUME NEW a \in Int, NEW h \in Nat \ {0}
  PROVE  /\ (a + 1) \div h <= (a \div h) + 1
         /\ (a + 1) % h # 0 => (a + 1) \div h = a \div h
<1>1. (a + 1) \div h <= (a \div h) + 1
  <2>1. a \div h \in Int /\ (a + 1) \div h \in Int
    BY DivRange
  <2>2. h * ((a + 1) \div h) <= a + 1 /\ a < h * (a \div h) + h
    BY DivRange, a + 1 \in Int
  <2>. DEFINE p == a \div h
              q == (a + 1) \div h
  <2>. HIDE DEF p, q
  <2>3. SUFFICES ASSUME p + 2 <= q PROVE FALSE
    BY <2>1 DEF p, q
  <2>4. h * (p + 2) <= h * q
    BY <2>1, <2>3 DEF p, q
  <2>5. h * (p + 2) = h * p + h + h
    BY <2>1 DEF p, q
  <2>6. h * q <= a + 1 /\ a < h * p + h /\ h * p \in Int /\ h * q \in Int
    BY <2>1, <2>2 DEF p, q
  <2>. QED
    BY <2>4, <2>5, <2>6
<1>2. ASSUME (a + 1) % h # 0 PROVE (a + 1) \div h = a \div h
  <2>. DEFINE p == a \div h
              q == (a + 1) \div h
  <2>1. p \in Int /\ q \in Int /\ h * q <= a + 1 /\ a < h * p + h /\ p <= q
    BY DivRange, DivMono, a + 1 \in Int
  <2>2. (a + 1) % h = (a + 1) - h * q
    BY Z3
  <2>. HIDE DEF p, q
  <2>3. h * q # a + 1
    BY <2>1, <2>2, <1>2
  <2>4. SUFFICES ASSUME p + 1 <= q PROVE FALSE
    BY <2>1 DEF p, q
  <2>5. h * (p + 1) <= h * q
    BY <2>1, <2>4
  <2>6. h * (p + 1) = h * p + h /\ h * p \in Int /\ h * q \in Int
    BY <2>1
  <2>. QED
    BY <2>1, <2>3, <2>5, <2>6
<1>. QED
  BY <1>1, <1>2

-----------------------------------------------------------------------------
(* Backups: what the theorems assume.                                       *)

\* Breaks of the network in one run: one, which the retries of the remote retention outlast
\* (RETRIES is 2 in the code).
OneCut == CutsPerRun <= 1 /\ CutsPerRun <= RETRIES

\* A copy gets through before a local retention is over (3 days of Parquet files, 14 of
\* incremental backups) and before the second full backup after it is made.
CopiesInTime ==
  /\ MaxUnsynced < MONTH
  /\ MaxUnsynced <= INCR_KEEP_DAYS_LOCAL + 1
  /\ MaxUnsynced <= PARQUET_KEEP_DAYS_LOCAL + 1

-----------------------------------------------------------------------------
(* Backups: the inductive invariant.                                        *)

Items == {x \in [kind : {"full", "incr", "parquet"}, day : Nat, base : Nat] :
            x.kind # "incr" => x.base = x.day}

Incrs(items) == {x \in items : x.kind = "incr"}

\* The run that makes an item: a Parquet file is made the day after its own.
MadeOn(x) == IF x.kind = "parquet" THEN x.day + 1 ELSE x.day

BackupType ==
  /\ {day, lastSync, cuts, faults} \subseteq Nat
  /\ task \in {"idle", "save", "sync", "fulls", "incrs", "prune", "verify"}
  /\ saving \in [Saves -> {"todo", "done", "failed"}]
  /\ tries \in [Tasks -> Nat]
  /\ local \subseteq Items /\ remote \subseteq Items /\ IsFiniteSet(local) /\ IsFiniteSet(remote)
  /\ tornLocal \subseteq local /\ torn \subseteq remote
  /\ green \subseteq Nat /\ pruned \subseteq Items /\ reached \subseteq Items

Retaining == task \in {"fulls", "incrs", "prune"}
AfterSaves == Retaining \/ task \in {"sync", "verify"}

\* Nothing is older or newer than the runs that make and copy it.
DayInv ==
  /\ task # "idle" => day > 0
  /\ lastSync <= day /\ (task \in {"save", "sync"} => lastSync < day)
  /\ day - lastSync <= MaxUnsynced
  /\ tries["retention"] <= cuts
  /\ \A x \in local \cup remote \cup reached : MadeOn(x) <= day
  /\ task = "save" => \A x \in remote \cup reached : MadeOn(x) < day

\* What the two tasks of today have made.
SaveInv ==
  /\ \A x \in tornLocal : x.kind # "parquet"
  /\ task = "save" /\ saving["clickhouse_backup"] = "todo" =>
       \A x \in local : x.kind # "parquet" /\ x.day = day => x \in tornLocal
  /\ AfterSaves \/ (task = "save" /\ saving["clickhouse_backup"] = "done") =>
       \E x \in local : x.kind # "parquet" /\ x.day = day
  /\ AfterSaves \/ (task = "save" /\ saving["export_parquet"] = "done") => Parquet(day - 1) \in local

\* But for the first one, full backups are of the first of a month; the newest is here.
FullInv ==
  /\ Fulls(local) = {} => lastSync = 0 /\ Incrs(local \cup remote) = {}
  /\ \A y \in Fulls(remote) : \E z \in Fulls(local) : y.day <= z.day
  /\ \A y, z \in Fulls(local) : y.day < z.day => z.day % MONTH = 0
  /\ \A y \in Fulls(local) : y.day % MONTH = 0 \/ lastSync = 0 \/ y.day <= lastSync

\* The remote retention has deleted x: newer full backups have taken its place.
Replaced(x) == Fulls(remote) # {} /\ \A y \in Fulls(remote) : x.day < y.day

\* The base of an incremental backup is the newest full one before it, and whole; once it is
\* no longer here, it is whole on the remote host or outlived there.
Based(x) ==
  /\ x.base < x.day /\ x.day % MONTH # 0
  /\ Full(x.base) \notin tornLocal
  /\ \A y \in Fulls(local \cup remote) : y.day <= x.day => y.day <= x.base
  /\ Full(x.base) \notin local => /\ \A y \in Fulls(local) : x.base < y.day
                                  /\ Full(x.base) \in Whole \/ Replaced(Full(x.base))
  /\ Full(x.base) \notin local \/ x \in remote => Full(x.base) \in reached

IncrInv == \A x \in Incrs(local \cup remote) : Based(x)

\* What was here at the last copy has been copied, and a full backup that is still here
\* stays on the remote host until the local retention of the same run deletes it as well.
CopyInv ==
  /\ \A x \in local \ tornLocal : MadeOn(x) <= lastSync => x \in reached
  /\ \A x \in Fulls(local) \ tornLocal :
       x \in reached => x \in Whole \/ (Retaining /\ Replaced(x))

\* A run is green when it is over, and one without a cut has copied what today has made.
GreenInv ==
  /\ \A d \in green : d <= day /\ (task # "idle" => d < day)
  /\ (Retaining \/ task = "verify") /\ cuts = 0 =>
       \A x \in local : MadeOn(x) = day => x \in tornLocal \cup Whole

BackupInv == BackupType /\ DayInv /\ SaveInv /\ FullInv /\ IncrInv /\ CopyInv

-----------------------------------------------------------------------------
(* Backups: items, the newest full backup, the full backups that are kept.  *)

LEMMA BackupConstants ==
  /\ MONTH \in Nat /\ MONTH > 0 /\ FULL_KEEP_REMOTE \in Nat /\ FULL_KEEP_REMOTE > 0
  /\ PARQUET_KEEP_DAYS_LOCAL \in Nat /\ INCR_KEEP_DAYS_LOCAL \in Nat
  /\ PARQUET_KEEP_DAYS_REMOTE \in Nat /\ RETRIES \in Nat /\ CutsPerRun \in Nat
  /\ MaxUnsynced \in Nat /\ MaxDay \in Nat /\ MaxFaults \in Nat
BY ParameterAssumption

LEMMA Made ==
  ASSUME NEW d \in Nat, NEW b \in Nat
  PROVE  /\ Full(d) \in Items /\ Incr(d, b) \in Items /\ Parquet(d) \in Items
         /\ Full(d).kind = "full" /\ Full(d).day = d
         /\ Incr(d, b).kind = "incr" /\ Incr(d, b).day = d /\ Incr(d, b).base = b
         /\ Parquet(d).kind = "parquet" /\ Parquet(d).day = d
BY DEF Items, Full, Incr, Parquet

LEMMA ItemFacts ==
  ASSUME NEW x \in Items
  PROVE  /\ x.kind \in {"full", "incr", "parquet"} /\ x.day \in Nat /\ x.base \in Nat
         /\ x.kind = "full" => x = Full(x.day)
         /\ x.kind = "parquet" => x = Parquet(x.day)
         /\ MadeOn(x) \in Nat
BY DEF Items, Full, Parquet, MadeOn

\* Among items that are not of the future one is the newest.
LEMMA NewestExists ==
  ASSUME NEW S \in SUBSET Items, S # {}, NEW d \in Nat, \A x \in S : x.day <= d
  PROVE  \E x \in S : \A y \in S : y.day <= x.day
<1>. DEFINE T == {d - x.day : x \in S}
<1>1. \A x \in S : x.day \in Nat /\ d - x.day \in Nat
  BY ItemFacts
<1>2. T \in SUBSET Nat /\ T # {}
  BY <1>1
<1>3. PICK t \in T : \A u \in T : t <= u
  <2>. HIDE DEF T
  <2>. QED
    BY <1>2, LeastNumber
<1>4. PICK x \in S : t = d - x.day
  BY <1>3
<1>5. \A y \in S : d - x.day <= d - y.day
  BY <1>3, <1>4
<1>. QED
  BY <1>1, <1>5

\* What Newest finds.
LEMMA NewestIs ==
  ASSUME NEW S \in SUBSET Items, S # {}, NEW d \in Nat, \A x \in S : x.day <= d
  PROVE  /\ \E x \in S : x.day = Newest(S)
         /\ Newest(S) \in Nat
         /\ \A y \in S : y.day <= Newest(S)
<1>. DEFINE T == {x.day : x \in S}
<1>1. \A x \in S : x.day \in Nat
  BY ItemFacts
<1>2. PICK x \in S : \A y \in S : y.day <= x.day
  BY NewestExists
<1>3. x.day \in T /\ \A t \in T : x.day >= t
  BY <1>1, <1>2
<1>4. Newest(S) \in T /\ \A t \in T : Newest(S) >= t
  BY <1>3 DEF Newest, Max
<1>. QED
  BY <1>1, <1>4

\* Kept has the newest full backups: all that are not older than one of them.
LEMMA KeptIsUpward ==
  ASSUME NEW S \in SUBSET Items, IsFiniteSet(S), NEW x \in Kept(S), NEW y \in S \ Kept(S)
  PROVE  y.day < x.day
<1>. DEFINE Newer(z) == {u \in S : u.day > z.day}
<1>1. x \in S /\ \A z \in S : z.day \in Nat
  BY ItemFacts DEF Kept
<1>2. IsFiniteSet(Newer(x)) /\ IsFiniteSet(Newer(y))
  BY FS_Subset
<1>3. SUFFICES ASSUME x.day <= y.day PROVE FALSE
  BY <1>1
<1>4. Newer(y) \subseteq Newer(x)
  BY <1>1, <1>3
<1>5. Cardinality(Newer(y)) <= Cardinality(Newer(x))
  BY <1>2, <1>4, FS_Subset
<1>6. Cardinality(Newer(x)) < FULL_KEEP_REMOTE /\ ~(Cardinality(Newer(y)) < FULL_KEEP_REMOTE)
  BY DEF Kept
<1>7. Cardinality(Newer(x)) \in Nat /\ Cardinality(Newer(y)) \in Nat
  BY <1>2, FS_CardinalityType
<1>. HIDE DEF Newer
<1>. QED
  BY <1>5, <1>6, <1>7, BackupConstants

LEMMA NewestIsKept ==
  ASSUME NEW S \in SUBSET Items, NEW x \in S, \A y \in S : y.day <= x.day
  PROVE  x \in Kept(S)
<1>1. \A y \in S : y.day \in Nat
  BY ItemFacts
<1>2. {y \in S : y.day > x.day} = {}
  BY <1>1
<1>3. Cardinality({y \in S : y.day > x.day}) = 0
  BY <1>2, FS_EmptySet
<1>. QED
  BY <1>3, BackupConstants DEF Kept

\* First days of months are a month apart.
LEMMA MonthApart ==
  ASSUME NEW a \in Nat, NEW b \in Nat, a < b, a % MONTH = 0, b % MONTH = 0
  PROVE  a + MONTH <= b
<1>. DEFINE p == a \div MONTH
            q == b \div MONTH
<1>1. p \in Int /\ q \in Int /\ a = MONTH * p + (a % MONTH) /\ b = MONTH * q + (b % MONTH)
  BY BackupConstants
<1>2. a = MONTH * p /\ b = MONTH * q
  BY <1>1, BackupConstants
<1>. HIDE DEF p, q
<1>3. p < q
  <2>1. SUFFICES ASSUME q <= p PROVE FALSE
    BY <1>1
  <2>2. MONTH * q <= MONTH * p
    BY <1>1, <2>1, BackupConstants
  <2>. QED
    BY <1>2, <2>2
<1>4. MONTH * (p + 1) <= MONTH * q
  BY <1>1, <1>3, BackupConstants
<1>5. MONTH * (p + 1) = MONTH * p + MONTH
  BY <1>1, BackupConstants
<1>. QED
  BY <1>2, <1>4, <1>5, BackupConstants

LEMMA ZeroIsFirst == 0 % MONTH = 0
BY BackupConstants

-----------------------------------------------------------------------------
(* Backups: today's backup.                                                 *)

LEMMA FullsAreItems ==
  ASSUME NEW S \in SUBSET Items
  PROVE  Fulls(S) \in SUBSET Items /\ \A x \in Fulls(S) : x \in S /\ x.kind = "full" /\ x.day \in Nat
BY ItemFacts DEF Fulls

\* Nothing here is of the future.
LEMMA DaysOfItems ==
  ASSUME BackupType, DayInv
  PROVE  \A x \in local \cup remote \cup reached : x \in Items /\ x.day \in Nat /\ x.day <= day
<1>. TAKE x \in local \cup remote \cup reached
<1>1. x \in Items /\ MadeOn(x) <= day /\ day \in Nat
  BY DEF BackupType, DayInv
<1>2. x.day \in Nat /\ x.day <= MadeOn(x) /\ MadeOn(x) \in Nat
  BY <1>1, ItemFacts DEF MadeOn
<1>. QED
  BY <1>1, <1>2

LEMMA LocalNewest ==
  ASSUME BackupType, DayInv, Fulls(local) # {}
  PROVE  /\ Newest(Fulls(local)) \in Nat /\ Newest(Fulls(local)) <= day
         /\ Full(Newest(Fulls(local))) \in Fulls(local)
         /\ \A y \in Fulls(local) : y.day <= Newest(Fulls(local))
<1>1. local \in SUBSET Items /\ day \in Nat
  BY DEF BackupType
<1>2. Fulls(local) \in SUBSET Items /\ \A x \in Fulls(local) : x.day <= day /\ x.kind = "full"
  BY <1>1, FullsAreItems, DaysOfItems
<1>3. /\ \E x \in Fulls(local) : x.day = Newest(Fulls(local))
      /\ Newest(Fulls(local)) \in Nat
      /\ \A y \in Fulls(local) : y.day <= Newest(Fulls(local))
  BY <1>1, <1>2, NewestIs
<1>4. PICK x \in Fulls(local) : x.day = Newest(Fulls(local))
  BY <1>3
<1>5. x = Full(x.day) /\ x.day <= day
  BY <1>2, <1>4, ItemFacts
<1>. QED
  BY <1>3, <1>4, <1>5

LEMMA WantedIs ==
  ASSUME BackupType, DayInv
  PROVE  /\ Wanted \in Items /\ Wanted.day = day /\ Wanted.kind \in {"full", "incr"}
         /\ Wanted.kind = "full" => Wanted = Full(day) /\ (day % MONTH = 0 \/ Fulls(local) = {})
         /\ Wanted.kind = "incr" =>
              /\ day % MONTH # 0 /\ Fulls(local) # {} /\ Wanted.base = Newest(Fulls(local))
              /\ Full(Wanted.base) \in Fulls(local) /\ Wanted.base <= day
              /\ \A y \in Fulls(local) : y.day <= Wanted.base
         /\ ~Exists => Wanted \notin local
<1>1. day \in Nat
  BY DEF BackupType
<1>2. CASE day % MONTH = 0 \/ Fulls(local) = {}
  <2>1. Wanted = Full(day)
    BY <1>2 DEF Wanted
  <2>. QED
    BY <1>1, <1>2, <2>1, Made DEF Exists
<1>3. CASE day % MONTH # 0 /\ Fulls(local) # {}
  <2>1. Wanted = Incr(day, Newest(Fulls(local)))
    BY <1>3 DEF Wanted
  <2>. QED
    BY <1>1, <1>3, <2>1, LocalNewest, Made DEF Exists
<1>. QED
  BY <1>2, <1>3

\* A directory that is made today gets the wanted name, and one is made once; an incremental
\* one is based on a whole backup of an earlier day.
LEMMA WantedIsNew ==
  ASSUME BackupType, DayInv, SaveInv,
         task = "save", saving["clickhouse_backup"] = "todo", ~Exists, BaseUsable
  PROVE  /\ Wanted \notin local \cup remote \cup reached
         /\ Wanted.kind = "incr" => Full(Wanted.base) \notin tornLocal /\ Wanted.base < day
<1>0. day \in Nat
  BY DEF BackupType
<1>1. Wanted \notin local /\ Wanted.day = day /\ Wanted.kind # "parquet" /\ Wanted \in Items
  BY WantedIs
<1>2. \A x \in remote \cup reached : MadeOn(x) < day /\ MadeOn(x) \in Nat
  <2>1. remote \cup reached \subseteq Items
    BY DEF BackupType
  <2>. QED
    BY <2>1, ItemFacts DEF DayInv
<1>3. MadeOn(Wanted) = day
  BY <1>1 DEF MadeOn
<1>4. Wanted \notin remote \cup reached
  BY <1>0, <1>2, <1>3
<1>5. ASSUME Wanted.kind = "incr"
      PROVE  Full(Wanted.base) \notin tornLocal /\ Wanted.base < day
  <2>1. Full(Wanted.base) \notin tornLocal
    BY <1>5 DEF BaseUsable
  <2>2. Full(Wanted.base) \in local /\ Wanted.base <= day /\ Wanted.base \in Nat
    BY <1>1, <1>5, WantedIs, ItemFacts DEF Fulls
  <2>3. Full(Wanted.base).kind = "full" /\ Full(Wanted.base).day = Wanted.base
    BY <2>2, Made
  <2>4. Wanted.base # day
    BY <2>1, <2>2, <2>3 DEF SaveInv
  <2>. QED
    BY <1>0, <2>1, <2>2, <2>4
<1>. QED
  BY <1>1, <1>4, <1>5

\* What the two actions that make a directory do to the stores.
NewBackup(tearing) ==
  /\ task = "save" /\ saving["clickhouse_backup"] = "todo"
  /\ ~Exists /\ BaseUsable
  /\ local' = local \cup {Wanted}
  /\ tornLocal' = IF tearing THEN tornLocal \cup {Wanted} ELSE tornLocal
  /\ UNCHANGED <<remote, torn, history, day, task>>

LEMMA BackupSteps ==
  ASSUME BackupType, clickhouse_backup \/ BackupBreaks
  PROVE  /\ UNCHANGED <<day, task, remote, torn, history>>
         /\ task = "save" /\ saving["clickhouse_backup"] = "todo"
         /\ UNCHANGED stores \/ NewBackup(TRUE) \/ NewBackup(FALSE)
         /\ tries'["retention"] = tries["retention"] /\ cuts' = cuts
         /\ saving' \in [Saves -> {"todo", "done", "failed"}] /\ tries' \in [Tasks -> Nat]
         /\ faults' \in Nat
         /\ saving'["export_parquet"] = saving["export_parquet"]
<1>1. "clickhouse_backup" \in Saves /\ "retention" \in Tasks /\ "export_parquet" \in Saves
  BY DEF Saves, Tasks
<1>2. saving \in [Saves -> {"todo", "done", "failed"}] /\ tries \in [Tasks -> Nat] /\ faults \in Nat
  BY DEF BackupType
<1>3. CASE clickhouse_backup
  <2>1. UNCHANGED stores \/ NewBackup(FALSE)
    BY <1>3 DEF clickhouse_backup, Done, NewBackup, stores
  <2>2. UNCHANGED <<day, task, remote, torn, history, tries, cuts, faults>>
    BY <1>3 DEF clickhouse_backup, Done, NoFault, stores
  <2>3. saving' = [saving EXCEPT !["clickhouse_backup"] = "done"]
        /\ task = "save" /\ saving["clickhouse_backup"] = "todo"
    BY <1>3 DEF clickhouse_backup, Done
  <2>. QED
    BY <1>1, <1>2, <2>1, <2>2, <2>3
<1>4. CASE BackupBreaks
  <2>1. task = "save" /\ saving["clickhouse_backup"] = "todo" /\ UNCHANGED <<day, task, remote, torn, history>>
    BY <1>4 DEF BackupBreaks, SaveFails
  <2>2. UNCHANGED stores \/ NewBackup(TRUE)
    BY <1>4, <2>1 DEF BackupBreaks, NewBackup, stores
  <2>3. cuts' = cuts /\ faults' \in Nat
    BY <1>2, <1>4 DEF BackupBreaks, Fault, NoFault
  <2>4. tries' = tries \/ tries' = [tries EXCEPT !["clickhouse_backup"] = @ + 1]
    BY <1>4 DEF BackupBreaks, SaveFails, Again, LastFails
  <2>5. saving' = saving \/ saving' = [saving EXCEPT !["clickhouse_backup"] = "failed"]
    BY <1>4 DEF BackupBreaks, SaveFails
  <2>6. tries' \in [Tasks -> Nat] /\ tries'["retention"] = tries["retention"]
    BY <1>1, <1>2, <2>4 DEF Tasks, Saves
  <2>. QED
    BY <1>1, <1>2, <2>1, <2>2, <2>3, <2>5, <2>6
<1>. QED
  BY <1>3, <1>4

-----------------------------------------------------------------------------
(* Backups: types.                                                          *)

LEMMA BackupTypeInit == Init => BackupType
<1>. SUFFICES ASSUME Init PROVE BackupType
  OBVIOUS
<1>1. IsFiniteSet({})
  BY FS_EmptySet
<1>. QED
  BY <1>1 DEF Init, BackupType, Saves, Tasks

LEMMA BackupTypeStep ==
  ASSUME BackupType, DayInv, Next
  PROVE  BackupType'
<1>0. /\ day \in Nat /\ lastSync \in Nat /\ cuts \in Nat /\ faults \in Nat
      /\ saving \in [Saves -> {"todo", "done", "failed"}] /\ tries \in [Tasks -> Nat]
      /\ local \subseteq Items /\ remote \subseteq Items /\ IsFiniteSet(local) /\ IsFiniteSet(remote)
      /\ tornLocal \subseteq local /\ torn \subseteq remote
      /\ green \subseteq Nat /\ pruned \subseteq Items /\ reached \subseteq Items
      /\ task \in {"idle", "save", "sync", "fulls", "incrs", "prune", "verify"}
  BY DEF BackupType
<1>1. CASE NextDay
  BY <1>0, <1>1 DEF NextDay, BackupType, stores, history, Saves, Tasks
<1>2. CASE clickhouse_backup \/ BackupBreaks
  <2>1. ASSUME NEW t \in BOOLEAN, NewBackup(t)
        PROVE  local' \subseteq Items /\ IsFiniteSet(local') /\ tornLocal' \subseteq local'
    <3>1. Wanted \in Items
      BY WantedIs
    <3>2. local' = local \cup {Wanted} /\ (tornLocal' = tornLocal \/ tornLocal' = tornLocal \cup {Wanted})
      BY <2>1 DEF NewBackup
    <3>. QED
      BY <1>0, <3>1, <3>2, FS_AddElement
  <2>2. UNCHANGED stores => local' \subseteq Items /\ IsFiniteSet(local') /\ tornLocal' \subseteq local'
    BY <1>0 DEF stores
  <2>3. local' \subseteq Items /\ IsFiniteSet(local') /\ tornLocal' \subseteq local'
    BY <1>2, <2>1, <2>2, BackupSteps
  <2>4. /\ UNCHANGED <<day, task, remote, torn, history>> /\ cuts' = cuts /\ faults' \in Nat
        /\ saving' \in [Saves -> {"todo", "done", "failed"}] /\ tries' \in [Tasks -> Nat]
    BY <1>2, BackupSteps
  <2>. QED
    BY <1>0, <2>3, <2>4 DEF BackupType, history
<1>3. CASE export_parquet
  <2>1. day > 0
    BY <1>0, <1>3 DEF export_parquet, Done, DayInv
  <2>2. Parquet(day - 1) \in Items
    BY <1>0, <2>1, Made
  <2>3. local' = local \cup {Parquet(day - 1)}
    BY <1>3 DEF export_parquet
  <2>4. local' \subseteq Items /\ IsFiniteSet(local') /\ tornLocal \subseteq local'
    BY <1>0, <2>2, <2>3, FS_AddElement
  <2>5. UNCHANGED <<remote, tornLocal, torn, history, cuts, faults, day, task, tries>>
        /\ saving' = [saving EXCEPT !["export_parquet"] = "done"]
    BY <1>3 DEF export_parquet, Done, NoFault
  <2>. QED
    BY <1>0, <2>4, <2>5 DEF BackupType, history
<1>4. CASE ExportBreaks
  <2>1. UNCHANGED <<stores, history, day, task, cuts>> /\ faults' = faults + 1
    BY <1>4 DEF ExportBreaks, SaveFails, Fault
  <2>2. tries' = tries \/ tries' = [tries EXCEPT !["export_parquet"] = @ + 1]
    BY <1>4 DEF ExportBreaks, SaveFails, Again, LastFails
  <2>3. saving' = saving \/ saving' = [saving EXCEPT !["export_parquet"] = "failed"]
    BY <1>4 DEF ExportBreaks, SaveFails
  <2>. QED
    BY <1>0, <2>1, <2>2, <2>3 DEF BackupType, stores, history, Saves, Tasks
<1>5. CASE Saved
  BY <1>0, <1>5 DEF Saved, Goto, NoFault, BackupType, stores, history
<1>6. CASE sync_to_oracle
  <2>1. IsFiniteSet(remote \cup local)
    BY <1>0, FS_Union
  <2>. QED
    BY <1>0, <1>6, <2>1 DEF sync_to_oracle, Copied, Goto, NoFault, BackupType
<1>7. ASSUME NEW x \in local, SyncCut(x) PROVE BackupType'
  <2>. DEFINE before == {y \in local : Precedes(y, x)}
  <2>1. IsFiniteSet(before) /\ before \subseteq local
    BY <1>0, FS_Subset
  <2>. HIDE DEF before
  <2>2. IsFiniteSet(remote \cup before) /\ IsFiniteSet(remote \cup before \cup {x})
    BY <1>0, <2>1, FS_Union, FS_AddElement
  <2>3. \/ /\ remote' = remote \cup before
           /\ torn' = (torn \ before) \cup (tornLocal \cap before)
        \/ /\ remote' = remote \cup before \cup {x}
           /\ torn' = (torn \ before) \cup (tornLocal \cap before) \cup {x}
    BY <1>7 DEF SyncCut, Copied, before
  <2>4. reached' = reached \cup (before \ tornLocal)
    BY <1>7 DEF SyncCut, Copied, before
  <2>5. remote' \subseteq Items /\ IsFiniteSet(remote') /\ torn' \subseteq remote' /\ reached' \subseteq Items
    BY <1>0, <2>1, <2>2, <2>3, <2>4, <1>7
  <2>6. /\ UNCHANGED <<local, tornLocal, green, pruned, lastSync, day, saving, tries>>
        /\ task' = "fulls" /\ cuts' = cuts + 1 /\ faults' = faults + 1
    BY <1>7 DEF SyncCut, Goto, Cut
  <2>. QED
    BY <1>0, <2>5, <2>6 DEF BackupType
<1>8. ASSUME NEW gone, remote' = remote \ gone, torn' = torn \ gone
      PROVE  remote' \subseteq Items /\ IsFiniteSet(remote') /\ torn' \subseteq remote'
  BY <1>0, <1>8, FS_Subset
<1>9. CASE apply_remote_retention
  <2>1. remote' \subseteq Items /\ IsFiniteSet(remote') /\ torn' \subseteq remote'
    BY <1>8, <1>9 DEF apply_remote_retention, Drop
  <2>. QED
    BY <1>0, <1>9, <2>1 DEF apply_remote_retention, Goto, NoFault, BackupType, history
<1>10. CASE prune_incrementals
  <2>1. remote' \subseteq Items /\ IsFiniteSet(remote') /\ torn' \subseteq remote'
    BY <1>8, <1>10 DEF prune_incrementals, Drop
  <2>. QED
    BY <1>0, <1>10, <2>1 DEF prune_incrementals, Goto, NoFault, BackupType, history
<1>11. CASE RetentionCut
  <2>1. tries' = tries \/ tries' = [tries EXCEPT !["retention"] = @ + 1]
    BY <1>11 DEF RetentionCut, Again, LastFails
  <2>2. task' \in {"fulls", "idle"} /\ cuts' = cuts + 1 /\ faults' = faults + 1
        /\ UNCHANGED <<day, saving, stores, history>>
    BY <1>11 DEF RetentionCut, Cut
  <2>. QED
    BY <1>0, <2>1, <2>2 DEF BackupType, stores, history, Tasks, Saves
<1>12. CASE prune_local
  <2>1. local' = local \ Expired(local) /\ tornLocal' = tornLocal \ Expired(local)
        /\ pruned' = pruned \cup (Expired(local) \ tornLocal)
    BY <1>12 DEF prune_local
  <2>2. Expired(local) \subseteq local
    BY DEF Expired
  <2>3. IsFiniteSet(local') /\ local' \subseteq Items /\ tornLocal' \subseteq local' /\ pruned' \subseteq Items
    BY <1>0, <2>1, <2>2, FS_Subset
  <2>. QED
    BY <1>0, <1>12, <2>3 DEF prune_local, Goto, NoFault, BackupType
<1>13. CASE verify_remote
  <2>1. tries' = tries \/ tries' = [tries EXCEPT !["verify"] = @ + 1]
    BY <1>13 DEF verify_remote, Again, LastFails
  <2>2. task' \in {"verify", "idle"} /\ green' \subseteq green \cup {day}
        /\ UNCHANGED <<day, saving, stores, pruned, reached, lastSync, cuts, faults>>
    BY <1>13 DEF verify_remote, NoFault
  <2>. QED
    BY <1>0, <2>1, <2>2 DEF BackupType, stores, Tasks, Saves
<1>14. CASE VerifyCut
  BY <1>0, <1>14 DEF VerifyCut, Cut, Goto, BackupType, stores
<1>. QED
  BY <1>1, <1>2, <1>3, <1>4, <1>5, <1>6, <1>7, <1>9, <1>10, <1>11, <1>12, <1>13, <1>14 DEF Next

-----------------------------------------------------------------------------
(* Backups: days.                                                           *)

\* How a step moves days, items and failures.
LEMMA Flow ==
  ASSUME BackupType, Next, ~NextDay
  PROVE  /\ day' = day
         /\ remote' \subseteq remote \cup local /\ reached' \subseteq reached \cup local
         /\ IF task = "save"
              THEN local' \subseteq local \cup {Wanted, Parquet(day - 1)} /\ UNCHANGED <<remote, reached>>
              ELSE local' \subseteq local
         /\ lastSync' = lastSync \/ (task = "sync" /\ task' = "fulls" /\ lastSync' = day)
         /\ task' = "save" => task = "save"
         /\ task' = "sync" => task = "save"
         /\ task' # "idle" => task # "idle"
         /\ \/ tries'["retention"] = tries["retention"] /\ cuts' \in {cuts, cuts + 1}
            \/ tries'["retention"] = tries["retention"] + 1 /\ cuts' = cuts + 1
<1>0. tries \in [Tasks -> Nat] /\ "retention" \in Tasks
  BY DEF BackupType, Tasks
<1>1. CASE clickhouse_backup \/ BackupBreaks
  <2>1. UNCHANGED stores \/ local' = local \cup {Wanted}
    BY <1>1, BackupSteps DEF NewBackup
  <2>. QED
    BY <1>1, <2>1, BackupSteps DEF stores, history
<1>2. CASE export_parquet
  BY <1>2 DEF export_parquet, Done, NoFault, history
<1>3. CASE ExportBreaks
  <2>1. tries' = tries \/ tries' = [tries EXCEPT !["export_parquet"] = @ + 1]
    BY <1>3 DEF ExportBreaks, SaveFails, Again, LastFails
  <2>2. tries'["retention"] = tries["retention"]
    BY <1>0, <2>1
  <2>. QED
    BY <1>3, <2>2 DEF ExportBreaks, SaveFails, Fault, stores, history
<1>4. CASE Saved
  BY <1>4 DEF Saved, Goto, NoFault, stores, history
<1>5. CASE sync_to_oracle
  BY <1>5 DEF sync_to_oracle, Copied, Goto, NoFault
<1>6. ASSUME NEW x \in local, SyncCut(x)
      PROVE  /\ remote' \subseteq remote \cup local /\ reached' \subseteq reached \cup local
             /\ task = "sync" /\ task' = "fulls" /\ cuts' = cuts + 1
             /\ UNCHANGED <<local, lastSync, tries, day>>
  BY <1>6 DEF SyncCut, Copied, Goto, Cut
<1>7. CASE apply_remote_retention
  BY <1>7 DEF apply_remote_retention, Drop, Goto, NoFault, history
<1>8. CASE prune_incrementals
  BY <1>8 DEF prune_incrementals, Drop, Goto, NoFault, history
<1>9. CASE RetentionCut
  <2>1. \/ tries' = tries
        \/ tries' = [tries EXCEPT !["retention"] = @ + 1]
    BY <1>9 DEF RetentionCut, Again, LastFails
  <2>2. tries'["retention"] \in {tries["retention"], tries["retention"] + 1}
    BY <1>0, <2>1
  <2>. QED
    BY <1>9, <2>2 DEF RetentionCut, Cut, stores, history
<1>10. CASE prune_local
  BY <1>10 DEF prune_local, Goto, NoFault
<1>11. CASE verify_remote
  <2>1. tries' = tries \/ tries' = [tries EXCEPT !["verify"] = @ + 1]
    BY <1>11 DEF verify_remote, Again, LastFails
  <2>2. tries'["retention"] = tries["retention"]
    BY <1>0, <2>1
  <2>. QED
    BY <1>11, <2>2 DEF verify_remote, NoFault, stores
<1>12. CASE VerifyCut
  BY <1>12 DEF VerifyCut, Cut, Goto, stores
<1>. QED
  BY <1>1, <1>2, <1>3, <1>4, <1>5, <1>6, <1>7, <1>8, <1>9, <1>10, <1>11, <1>12 DEF Next

LEMMA DayInit == Init => DayInv
BY BackupConstants DEF Init, DayInv, Tasks

LEMMA DayStep ==
  ASSUME BackupType, DayInv, Next
  PROVE  DayInv'
<1>0. /\ day \in Nat /\ lastSync \in Nat /\ cuts \in Nat /\ tries["retention"] \in Nat
      /\ \A x \in local \cup remote \cup reached : MadeOn(x) \in Nat /\ MadeOn(x) <= day
  <2>1. tries["retention"] \in Nat /\ local \cup remote \cup reached \subseteq Items
    BY DEF BackupType, Tasks
  <2>. QED
    BY <2>1, ItemFacts DEF BackupType, DayInv
<1>. USE DEF MadeOn
<1>1. CASE NextDay
  <2>1. day' = day + 1 /\ day + 1 - lastSync <= MaxUnsynced /\ lastSync' = lastSync
        /\ task' = "save" /\ UNCHANGED <<local, remote, reached>> /\ cuts' = 0
    BY <1>1 DEF NextDay, stores, history
  <2>2. tries'["retention"] = 0
    BY <1>1 DEF NextDay, Tasks
  <2>3. lastSync <= day
    BY DEF DayInv
  <2>4. \A x \in local' \cup remote' \cup reached' : MadeOn(x) <= day' /\ MadeOn(x) < day'
    BY <1>0, <2>1
  <2>5. task' # "idle" => day' > 0
    BY <1>0, <2>1
  <2>6. lastSync' <= day' /\ lastSync' < day' /\ day' - lastSync' <= MaxUnsynced
    BY <1>0, <2>1, <2>3
  <2>. QED
    BY <2>1, <2>2, <2>4, <2>5, <2>6 DEF DayInv
<1>2. CASE ~NextDay
  <2>0. day' = day /\ (task # "idle" => day > 0)
    BY <1>2, Flow DEF DayInv
  <2>1. task' # "idle" => day' > 0
    BY <1>2, <2>0, Flow
  <2>2. lastSync' <= day' /\ (task' \in {"save", "sync"} => lastSync' < day')
    BY <1>0, <1>2, <2>0, Flow DEF DayInv
  <2>3. day' - lastSync' <= MaxUnsynced
    <3>1. CASE lastSync' = lastSync
      BY <2>0, <3>1 DEF DayInv
    <3>2. CASE lastSync' = day
      BY <1>0, <2>0, <3>2, BackupConstants
    <3>. QED
      BY <1>2, <3>1, <3>2, Flow
  <2>4. tries'["retention"] <= cuts'
    BY <1>0, <1>2, Flow DEF DayInv
  <2>5. \A x \in local' \cup remote' \cup reached' : MadeOn(x) <= day'
    <3>1. ASSUME task = "save" PROVE MadeOn(Wanted) <= day /\ MadeOn(Parquet(day - 1)) <= day
      <4>1. day > 0
        BY <2>0, <3>1
      <4>2. Parquet(day - 1).kind = "parquet" /\ Parquet(day - 1).day = day - 1
        BY <1>0, <4>1, Made
      <4>3. Wanted.kind # "parquet" /\ Wanted.day = day
        BY WantedIs
      <4>. QED
        BY <1>0, <4>2, <4>3
    <3>2. local' \subseteq local \/ (task = "save" /\ local' \subseteq local \cup {Wanted, Parquet(day - 1)})
      BY <1>2, Flow
    <3>3. remote' \subseteq remote \cup local /\ reached' \subseteq reached \cup local
      BY <1>2, Flow
    <3>. QED
      BY <1>0, <2>0, <3>1, <3>2, <3>3
  <2>6. task' = "save" => \A x \in remote' \cup reached' : MadeOn(x) < day'
    <3>1. task' = "save" => task = "save" /\ UNCHANGED <<remote, reached>>
      BY <1>2, Flow
    <3>. QED
      BY <2>0, <3>1 DEF DayInv
  <2>. QED
    BY <2>1, <2>2, <2>3, <2>4, <2>5, <2>6 DEF DayInv
<1>. QED
  BY <1>1, <1>2

\* Every variable keeps its type: items are made and copied as whole records, what is torn is
\* part of what is stored (the tasks of backup_daily).
THEOREM BackupTypeCorrect == Spec => []BackupType
<1>1. Init => BackupType /\ DayInv
  BY BackupTypeInit, DayInit
<1>2. BackupType /\ DayInv /\ [Next]_vars => BackupType' /\ DayInv'
  <2>1. SUFFICES ASSUME BackupType, DayInv, [Next]_vars PROVE BackupType' /\ DayInv'
    OBVIOUS
  <2>2. CASE Next
    BY <2>1, <2>2, BackupTypeStep, DayStep
  <2>3. CASE UNCHANGED vars
    <3>1. UNCHANGED <<day, task, saving, tries, local, remote, tornLocal, torn, green, pruned, reached,
                      lastSync, cuts, faults>>
      BY <2>3 DEF vars, run, stores, history
    <3>. QED
      BY <2>1, <3>1 DEF BackupType, DayInv
  <2>. QED
    BY <2>1, <2>2, <2>3
<1>. QED
  BY <1>1, <1>2, PTL DEF Spec

-----------------------------------------------------------------------------
(* Backups: what today has made.                                            *)

\* Steps that leave alone what is stored here.
LEMMA LocalSteps ==
  ASSUME BackupType, Next
  PROVE  \/ UNCHANGED <<local, tornLocal>>
         \/ NewBackup(TRUE) \/ NewBackup(FALSE)
         \/ export_parquet
         \/ prune_local
<1>1. CASE clickhouse_backup \/ BackupBreaks
  BY <1>1, BackupSteps DEF stores
<1>2. CASE NextDay \/ ExportBreaks \/ Saved \/ RetentionCut \/ verify_remote \/ VerifyCut
  BY <1>2 DEF NextDay, ExportBreaks, Saved, RetentionCut, verify_remote, VerifyCut, stores
<1>3. CASE sync_to_oracle \/ \E x \in local : SyncCut(x)
  BY <1>3 DEF sync_to_oracle, SyncCut
<1>4. CASE apply_remote_retention \/ prune_incrementals
  BY <1>4 DEF apply_remote_retention, prune_incrementals
<1>. QED
  BY <1>1, <1>2, <1>3, <1>4 DEF Next

\* The local retention spares what today has made and the newest full backup.
LEMMA Spared ==
  ASSUME BackupType, DayInv, NEW x \in local
  PROVE  /\ MadeOn(x) = day => x \notin Expired(local)
         /\ x.kind = "full" => (x \notin Expired(local) <=> \A y \in Fulls(local) : y.day <= x.day)
<1>1. day \in Nat /\ x \in Items /\ x.day \in Nat /\ local \in SUBSET Items
  BY DaysOfItems DEF BackupType
<1>2. \A y \in Fulls(local) : y.day \in Nat /\ y.day <= day
  BY DaysOfItems DEF Fulls
<1>3. ASSUME x.kind = "full"
      PROVE  /\ Newest(Fulls(local)) \in Nat /\ Newest(Fulls(local)) <= day
             /\ x.day <= Newest(Fulls(local))
             /\ \A y \in Fulls(local) : y.day <= Newest(Fulls(local))
             /\ Full(Newest(Fulls(local))) \in Fulls(local) /\ Full(Newest(Fulls(local))).day = Newest(Fulls(local))
  <2>1. x \in Fulls(local)
    BY <1>3 DEF Fulls
  <2>. QED
    BY <2>1, LocalNewest, Made
<1>4. x.kind = "full" => (x \notin Expired(local) <=> \A y \in Fulls(local) : y.day <= x.day)
  <2>1. SUFFICES ASSUME x.kind = "full"
                 PROVE  x \notin Expired(local) <=> \A y \in Fulls(local) : y.day <= x.day
    OBVIOUS
  <2>2. x \notin Expired(local) <=> ~(x.day < Newest(Fulls(local)))
    BY <2>1 DEF Expired
  <2>3. ~(x.day < Newest(Fulls(local))) <=> \A y \in Fulls(local) : y.day <= x.day
    BY <1>1, <1>2, <1>3, <2>1
  <2>. QED
    BY <2>2, <2>3
<1>5. ASSUME MadeOn(x) = day PROVE x \notin Expired(local)
  <2>1. CASE x.kind = "parquet"
    <3>1. ~(day - (x.day + 1) > PARQUET_KEEP_DAYS_LOCAL)
      BY <1>1, <1>5, <2>1, BackupConstants DEF MadeOn
    <3>. QED
      BY <2>1, <3>1 DEF Expired
  <2>2. CASE x.kind = "incr"
    <3>1. ~(day - x.day > INCR_KEEP_DAYS_LOCAL)
      BY <1>1, <1>5, <2>2, BackupConstants DEF MadeOn
    <3>. QED
      BY <2>2, <3>1 DEF Expired
  <2>3. CASE x.kind = "full"
    <3>1. x.day = day
      BY <1>5, <2>3 DEF MadeOn
    <3>. QED
      BY <1>2, <1>4, <2>3, <3>1
  <2>. QED
    BY <1>1, <2>1, <2>2, <2>3, ItemFacts
<1>. QED
  BY <1>4, <1>5

LEMMA SaveInit == Init => SaveInv
BY DEF Init, SaveInv, AfterSaves, Retaining

LEMMA SaveStep ==
  ASSUME BackupType, DayInv, SaveInv, Next
  PROVE  SaveInv'
<1>0. /\ day \in Nat /\ "clickhouse_backup" \in Saves /\ "export_parquet" \in Saves
      /\ saving \in [Saves -> {"todo", "done", "failed"}]
  BY DEF BackupType, Saves
<1>1. \A x \in tornLocal' : x.kind # "parquet"
  <2>1. CASE UNCHANGED <<local, tornLocal>> \/ export_parquet
    BY <2>1 DEF SaveInv, export_parquet
  <2>2. CASE NewBackup(TRUE) \/ NewBackup(FALSE)
    BY <2>2, WantedIs DEF NewBackup, SaveInv
  <2>3. CASE prune_local
    BY <2>3 DEF prune_local, SaveInv
  <2>. QED
    BY <2>1, <2>2, <2>3, LocalSteps
<1>2. CASE NextDay
  <2>1. \A x \in local' : x.day < day'
    BY <1>0, <1>2, DaysOfItems DEF NextDay, stores
  <2>2. task' = "save" /\ saving' = [t \in Saves |-> "todo"] /\ day' \in Nat
    BY <1>0, <1>2 DEF NextDay
  <2>3. \A x \in local' : x.day # day'
    <3>1. \A x \in local' : x.day \in Nat
      BY <1>2, DaysOfItems DEF NextDay, stores
    <3>. QED
      BY <2>1, <2>2, <3>1
  <2>. QED
    BY <1>0, <1>1, <2>2, <2>3 DEF SaveInv, AfterSaves, Retaining
<1>3. CASE clickhouse_backup
  <2>1. task = "save" /\ task' = "save" /\ day' = day
        /\ saving' = [saving EXCEPT !["clickhouse_backup"] = "done"]
    BY <1>3 DEF clickhouse_backup, Done
  <2>2. \E x \in local' : x.kind # "parquet" /\ x.day = day
    BY <1>3, WantedIs DEF clickhouse_backup, Exists
  <2>3. local \subseteq local'
    BY <1>3 DEF clickhouse_backup
  <2>4. saving'["clickhouse_backup"] = "done" /\ saving'["export_parquet"] = saving["export_parquet"]
    BY <1>0, <2>1
  <2>5. saving'["export_parquet"] = "done" => Parquet(day - 1) \in local'
    BY <2>1, <2>3, <2>4 DEF SaveInv
  <2>. QED
    BY <1>1, <2>1, <2>2, <2>4, <2>5 DEF SaveInv, AfterSaves, Retaining
<1>4. CASE BackupBreaks
  <2>1. task = "save" /\ task' = "save" /\ day' = day /\ saving["clickhouse_backup"] = "todo"
        /\ saving'["export_parquet"] = saving["export_parquet"]
    BY <1>4, BackupSteps
  <2>2. saving' = saving \/ saving' = [saving EXCEPT !["clickhouse_backup"] = "failed"]
    BY <1>4 DEF BackupBreaks, SaveFails
  <2>3. saving'["clickhouse_backup"] \in {"todo", "failed"}
    BY <1>0, <2>1, <2>2
  <2>4. \/ UNCHANGED <<local, tornLocal>>
        \/ local' = local \cup {Wanted} /\ tornLocal' = tornLocal \cup {Wanted}
    BY <1>4 DEF BackupBreaks
  <2>5. \A x \in local' : x.kind # "parquet" /\ x.day = day => x \in tornLocal'
    BY <2>1, <2>4 DEF SaveInv
  <2>6. saving'["export_parquet"] = "done" => Parquet(day - 1) \in local'
    BY <2>1, <2>4 DEF SaveInv
  <2>. QED
    BY <1>1, <2>1, <2>3, <2>5, <2>6 DEF SaveInv, AfterSaves, Retaining
<1>5. CASE export_parquet
  <2>1. task = "save" /\ task' = "save" /\ day' = day /\ tornLocal' = tornLocal
        /\ saving' = [saving EXCEPT !["export_parquet"] = "done"] /\ local' = local \cup {Parquet(day - 1)}
    BY <1>5 DEF export_parquet, Done
  <2>2. Parquet(day - 1).kind = "parquet"
    BY DEF Parquet
  <2>3. saving'["clickhouse_backup"] = saving["clickhouse_backup"]
    BY <1>0, <2>1
  <2>4. saving["clickhouse_backup"] = "todo" =>
          \A x \in local' : x.kind # "parquet" /\ x.day = day => x \in tornLocal
    BY <2>1, <2>2 DEF SaveInv
  <2>5. saving["clickhouse_backup"] = "done" => \E x \in local' : x.kind # "parquet" /\ x.day = day
    BY <2>1 DEF SaveInv
  <2>6. Parquet(day - 1) \in local'
    BY <2>1
  <2>. QED
    BY <1>1, <2>1, <2>3, <2>4, <2>5, <2>6 DEF SaveInv, AfterSaves, Retaining
<1>6. CASE ExportBreaks
  <2>1. task = "save" /\ task' = "save" /\ day' = day /\ UNCHANGED <<local, tornLocal>>
    BY <1>6 DEF ExportBreaks, SaveFails, stores
  <2>2. saving["export_parquet"] = "todo"
        /\ (saving' = saving \/ saving' = [saving EXCEPT !["export_parquet"] = "failed"])
    BY <1>6 DEF ExportBreaks, SaveFails
  <2>3. saving'["clickhouse_backup"] = saving["clickhouse_backup"] /\ saving'["export_parquet"] # "done"
    BY <1>0, <2>2
  <2>. QED
    BY <1>1, <2>1, <2>3 DEF SaveInv, AfterSaves, Retaining
<1>7. CASE Saved
  <2>1. /\ task = "save" /\ task' \in {"idle", "sync"} /\ day' = day /\ UNCHANGED <<local, tornLocal>>
        /\ task' = "sync" => saving["clickhouse_backup"] = "done" /\ saving["export_parquet"] = "done"
    BY <1>0, <1>7 DEF Saved, Goto, stores
  <2>. QED
    BY <1>1, <2>1 DEF SaveInv, AfterSaves, Retaining
<1>8. CASE prune_local
  <2>1. task = "prune" /\ task' = "verify" /\ day' = day /\ local' = local \ Expired(local)
    BY <1>8 DEF prune_local, Goto
  <2>2. PICK x \in local : x.kind # "parquet" /\ x.day = day
    BY <2>1 DEF SaveInv, AfterSaves, Retaining
  <2>3. x \notin Expired(local)
    BY <2>2, Spared DEF MadeOn
  <2>4. day > 0 /\ Parquet(day - 1) \in local
    BY <2>1 DEF SaveInv, AfterSaves, Retaining, DayInv
  <2>5. MadeOn(Parquet(day - 1)) = day
    BY <1>0, <2>4, Made DEF MadeOn
  <2>6. Parquet(day - 1) \in local'
    BY <2>1, <2>4, <2>5, Spared
  <2>. QED
    BY <1>1, <2>1, <2>2, <2>3, <2>6 DEF SaveInv, AfterSaves, Retaining
<1>9. CASE \/ sync_to_oracle \/ (\E x \in local : SyncCut(x)) \/ apply_remote_retention
           \/ prune_incrementals \/ RetentionCut \/ verify_remote \/ VerifyCut
  <2>1. AfterSaves /\ day' = day /\ UNCHANGED <<local, tornLocal>> /\ task' # "save"
    BY <1>9 DEF sync_to_oracle, SyncCut, apply_remote_retention, prune_incrementals, RetentionCut,
                verify_remote, VerifyCut, Goto, stores, AfterSaves, Retaining
  <2>. QED
    BY <1>1, <2>1 DEF SaveInv
<1>. QED
  BY <1>2, <1>3, <1>4, <1>5, <1>6, <1>7, <1>8, <1>9 DEF Next

-----------------------------------------------------------------------------
(* Backups: full backups.                                                   *)

\* Steps that leave alone what is stored on either side.
LEMMA StoreSteps ==
  ASSUME BackupType, Next
  PROVE  \/ UNCHANGED <<stores, reached, lastSync>>
         \/ NewBackup(TRUE) \/ NewBackup(FALSE)
         \/ export_parquet
         \/ sync_to_oracle \/ \E x \in local : SyncCut(x)
         \/ apply_remote_retention \/ prune_incrementals
         \/ prune_local
<1>1. CASE clickhouse_backup \/ BackupBreaks
  BY <1>1, BackupSteps DEF history
<1>2. CASE NextDay \/ ExportBreaks \/ Saved \/ RetentionCut \/ verify_remote \/ VerifyCut
  BY <1>2 DEF NextDay, ExportBreaks, Saved, RetentionCut, verify_remote, VerifyCut, history
<1>. QED
  BY <1>1, <1>2 DEF Next

LEMMA FullInit == Init => FullInv
BY DEF Init, FullInv, Fulls, Incrs

LEMMA FullStep ==
  ASSUME BackupType, DayInv, SaveInv, FullInv, Next
  PROVE  FullInv'
<1>0. /\ day \in Nat /\ lastSync \in Nat
      /\ \A x \in local \cup remote : x.day \in Nat /\ x.day <= day
  BY DaysOfItems DEF BackupType
<1>1. CASE UNCHANGED <<local, tornLocal>>
  <2>1. remote' \subseteq remote \cup local
    BY <1>1, Flow DEF NextDay, stores
  <2>2. lastSync' = lastSync \/ (task = "sync" /\ lastSync' = day)
    BY Flow DEF NextDay, history
  <2>3. Fulls(local) = {} => lastSync' = 0 /\ Incrs(local \cup remote') = {}
    <3>1. SUFFICES ASSUME Fulls(local) = {}
                   PROVE  lastSync' = 0 /\ Incrs(local \cup remote') = {}
      OBVIOUS
    <3>2. lastSync = 0 /\ Incrs(local \cup remote) = {}
      BY <3>1 DEF FullInv
    <3>3. task # "sync"
      <4>1. SUFFICES ASSUME task = "sync" PROVE FALSE
        OBVIOUS
      <4>2. PICK x \in local : x.kind # "parquet"
        BY <4>1 DEF SaveInv, AfterSaves
      <4>3. x.kind \in {"full", "incr"}
        BY <4>2, ItemFacts DEF BackupType
      <4>. QED
        BY <3>1, <3>2, <4>3 DEF Fulls, Incrs
    <3>. QED
      BY <2>1, <2>2, <3>2, <3>3 DEF Incrs
  <2>4. \A y \in Fulls(remote') : \E z \in Fulls(local) : y.day <= z.day
    <3>1. TAKE y \in Fulls(remote')
    <3>2. CASE y \in remote
      <4>1. y \in Fulls(remote)
        BY <3>2 DEF Fulls
      <4>. QED
        BY <4>1 DEF FullInv
    <3>3. CASE y \in local
      BY <1>0, <3>3 DEF Fulls
    <3>. QED
      BY <2>1, <3>2, <3>3 DEF Fulls
  <2>5. \A y \in Fulls(local) : y.day % MONTH = 0 \/ lastSync' = 0 \/ y.day <= lastSync'
    <3>1. \A y \in Fulls(local) : y.day <= day
      BY <1>0 DEF Fulls
    <3>. QED
      BY <2>2, <3>1 DEF FullInv
  <2>6. \A y, z \in Fulls(local) : y.day < z.day => z.day % MONTH = 0
    BY DEF FullInv
  <2>7. local' = local
    BY <1>1
  <2>. QED
    BY <2>3, <2>4, <2>5, <2>6, <2>7 DEF FullInv
<1>2. CASE NewBackup(TRUE) \/ NewBackup(FALSE)
  <2>1. /\ local' = local \cup {Wanted} /\ UNCHANGED <<remote, lastSync>>
    BY <1>2 DEF NewBackup, history
  <2>2. CASE Wanted.kind = "full"
    <3>1. /\ Wanted = Full(day) /\ (day % MONTH = 0 \/ Fulls(local) = {})
          /\ Wanted.day = day
      BY <2>2, WantedIs
    <3>2. Fulls(local') = Fulls(local) \cup {Wanted}
      BY <2>1, <2>2 DEF Fulls
    <3>3. \A y, z \in Fulls(local') : y.day < z.day => z.day % MONTH = 0
      <4>1. TAKE y, z \in Fulls(local')
      <4>2. HAVE y.day < z.day
      <4>3. y.day \in Nat /\ z.day \in Nat /\ z.day <= day /\ y.day <= day
        BY <1>0, <3>1, <3>2 DEF Fulls
      <4>4. CASE z = Wanted
        <5>1. y \in Fulls(local)
          BY <3>1, <3>2, <4>2, <4>3, <4>4
        <5>. QED
          BY <3>1, <4>4, <5>1
      <4>5. CASE z # Wanted
        <5>1. z \in Fulls(local) /\ y # Wanted
          BY <3>1, <3>2, <4>2, <4>3, <4>5
        <5>. QED
          BY <3>2, <4>2, <5>1 DEF FullInv
      <4>. QED
        BY <4>4, <4>5
    <3>4. \A y \in Fulls(local') : y.day % MONTH = 0 \/ lastSync' = 0 \/ y.day <= lastSync'
      BY <2>1, <3>1, <3>2 DEF FullInv
    <3>5. \A y \in Fulls(remote') : \E z \in Fulls(local') : y.day <= z.day
      BY <2>1, <3>2 DEF FullInv
    <3>. QED
      BY <3>2, <3>3, <3>4, <3>5 DEF FullInv
  <2>3. CASE Wanted.kind = "incr"
    <3>1. Fulls(local') = Fulls(local) /\ Fulls(local) # {}
      BY <2>1, <2>3, WantedIs DEF Fulls
    <3>. QED
      BY <2>1, <3>1 DEF FullInv
  <2>. QED
    BY <2>2, <2>3, WantedIs
<1>3. CASE export_parquet
  <2>1. /\ local' = local \cup {Parquet(day - 1)} /\ UNCHANGED <<remote, lastSync>>
    BY <1>3 DEF export_parquet, history
  <2>2. Fulls(local') = Fulls(local) /\ Incrs(local' \cup remote') = Incrs(local \cup remote)
    BY <2>1 DEF Fulls, Incrs, Parquet
  <2>. QED
    BY <2>1, <2>2 DEF FullInv
<1>4. CASE prune_local
  <2>1. local' = local \ Expired(local) /\ UNCHANGED <<remote, lastSync>>
    BY <1>4 DEF prune_local
  <2>2. CASE Fulls(local) = {}
    <3>1. Fulls(local') = {} /\ Incrs(local' \cup remote') \subseteq Incrs(local \cup remote)
      BY <2>1, <2>2 DEF Fulls, Incrs
    <3>. QED
      BY <2>1, <2>2, <3>1 DEF FullInv
  <2>3. CASE Fulls(local) # {}
    <3>1. PICK n \in Fulls(local) : \A y \in Fulls(local) : y.day <= n.day
      BY <2>3, LocalNewest, Made
    <3>2. n \in local /\ n.kind = "full"
      BY DEF Fulls
    <3>3. n \in Fulls(local') /\ Fulls(local') \subseteq Fulls(local)
      BY <2>1, <3>1, <3>2, Spared DEF Fulls
    <3>4. \A y \in Fulls(remote) : \E z \in Fulls(local') : y.day <= z.day
      <4>1. TAKE y \in Fulls(remote)
      <4>2. PICK z \in Fulls(local) : y.day <= z.day
        BY DEF FullInv
      <4>3. z.day <= n.day /\ y.day \in Nat /\ z.day \in Nat /\ n.day \in Nat
        BY <1>0, <3>1 DEF Fulls
      <4>. QED
        BY <3>3, <4>2, <4>3
    <3>. QED
      BY <2>1, <3>3, <3>4 DEF FullInv
  <2>. QED
    BY <2>2, <2>3
<1>. QED
  BY <1>1, <1>2, <1>3, <1>4, LocalSteps

\* A copy has got through between the days of two full backups here: the older one is on it.
LEMMA OlderFullIsSynced ==
  ASSUME BackupType, DayInv, FullInv, CopiesInTime,
         NEW x \in Fulls(local), NEW z \in Fulls(local), x.day < z.day
  PROVE  x.day <= lastSync
<1>0. /\ day \in Nat /\ lastSync \in Nat /\ x.day \in Nat /\ z.day \in Nat /\ z.day <= day
  BY DaysOfItems DEF BackupType, Fulls
<1>1. z.day % MONTH = 0
  BY DEF FullInv
<1>2. day - lastSync <= MaxUnsynced /\ MaxUnsynced < MONTH
  BY DEF DayInv, CopiesInTime
<1>3. CASE x.day % MONTH = 0
  <2>1. x.day + MONTH <= z.day
    BY <1>0, <1>1, <1>3, MonthApart
  <2>. QED
    BY <1>0, <1>2, <2>1, BackupConstants
<1>4. CASE lastSync = 0
  <2>1. 0 + MONTH <= z.day
    BY <1>0, <1>1, ZeroIsFirst, MonthApart
  <2>. QED
    BY <1>0, <1>2, <1>4, <2>1, BackupConstants
<1>. QED
  BY <1>3, <1>4 DEF FullInv

-----------------------------------------------------------------------------
(* Backups: incremental backups and their bases.                            *)

\* The remote retention keeps a full backup or has newer ones in its place.
LEMMA RetentionKeeps ==
  ASSUME BackupType, DayInv, apply_remote_retention \/ prune_incrementals,
         NEW f, f.kind = "full", f.day \in Nat, f \in Whole \/ Replaced(f)
  PROVE  f \in Whole' \/ Replaced(f)'
<1>0. /\ remote \in SUBSET Items /\ IsFiniteSet(remote) /\ day \in Nat
      /\ \A y \in remote : y.day \in Nat /\ y.day <= day
  BY DaysOfItems DEF BackupType
<1>1. CASE apply_remote_retention
  <2>. DEFINE S == Fulls(remote)
              gone == {x \in remote : \/ x.kind = "parquet" /\ day - (x.day + 1) > PARQUET_KEEP_DAYS_REMOTE
                                      \/ x \in S \ Kept(S)}
  <2>1. remote' = remote \ gone /\ torn' = torn \ gone
    BY <1>1 DEF apply_remote_retention, Drop
  <2>2. S \in SUBSET Items /\ IsFiniteSet(S) /\ Kept(S) \subseteq S
    BY <1>0, FS_Subset DEF Fulls, Kept
  <2>3. Fulls(remote') = Kept(S)
    <3>1. \A x \in remote : x.kind = "full" => (x \in gone <=> x \notin Kept(S))
      BY DEF Fulls
    <3>. HIDE DEF gone
    <3>. QED
      BY <2>1, <2>2, <3>1 DEF Fulls
  <2>4. S # {} => Kept(S) # {}
    <3>0. \A x \in S : x.day <= day
      BY <1>0, <2>2 DEF Fulls
    <3>1. S # {} => \E x \in S : \A y \in S : y.day <= x.day
      <4>. HIDE DEF S
      <4>. QED
        BY <1>0, <2>2, <3>0, NewestExists
    <3>. QED
      BY <2>2, <3>1, NewestIsKept
  <2>5. CASE Replaced(f)
    BY <2>2, <2>3, <2>4, <2>5 DEF Replaced
  <2>6. CASE f \in Whole /\ f \in Kept(S)
    <3>1. f \notin gone /\ f \in remote /\ f \notin torn
      BY <2>6 DEF Whole
    <3>. HIDE DEF gone
    <3>. QED
      BY <2>1, <3>1 DEF Whole
  <2>7. CASE f \in Whole /\ f \notin Kept(S)
    <3>1. f \in S \ Kept(S)
      BY <2>7 DEF Whole, Fulls
    <3>2. \A x \in Kept(S) : f.day < x.day
      BY <2>2, <3>1, KeptIsUpward
    <3>3. Kept(S) # {}
      BY <2>4, <3>1
    <3>. QED
      BY <2>3, <3>2, <3>3 DEF Replaced
  <2>. QED
    BY <2>5, <2>6, <2>7
<1>2. CASE prune_incrementals
  <2>1. PICK gone : /\ remote' = remote \ gone /\ torn' = torn \ gone
                    /\ \A x \in gone : x.kind = "incr"
    <3>1. \A x \in Outlived : x.kind = "incr"
      BY DEF Outlived
    <3>. QED
      BY <1>2, <3>1 DEF prune_incrementals, Drop
  <2>2. Fulls(remote') = Fulls(remote) /\ f \notin gone
    BY <2>1 DEF Fulls
  <2>. QED
    BY <2>1, <2>2 DEF Whole, Replaced
<1>. QED
  BY <1>1, <1>2

\* Copying items that are here: what is gone from here is untouched over there.
LEMMA CopyKeeps ==
  ASSUME IncrInv,
         NEW items \in SUBSET local, remote' = remote \cup items,
         UNCHANGED <<local, tornLocal>>, reached \subseteq reached',
         \A f : f \notin local /\ f \notin torn => f \notin torn',
         \A x \in Incrs(items) : Full(x.base) \in local => Full(x.base) \in reached'
  PROVE  IncrInv'
<1>1. Incrs(local' \cup remote') = Incrs(local \cup remote)
      /\ Fulls(local' \cup remote') = Fulls(local \cup remote)
  BY DEF Incrs, Fulls
<1>2. SUFFICES ASSUME NEW x \in Incrs(local \cup remote) PROVE Based(x)'
  BY <1>1 DEF IncrInv
<1>3. Based(x)
  BY DEF IncrInv
<1>4. ASSUME Full(x.base) \notin local PROVE Full(x.base) \in Whole' \/ Replaced(Full(x.base))'
  <2>1. CASE Full(x.base) \in Whole
    BY <1>4, <2>1 DEF Whole
  <2>2. CASE Replaced(Full(x.base))
    <3>1. Full(x.base).day = x.base
      BY DEF Full
    <3>2. \A y \in Fulls(remote) \cup Fulls(local) : Full(x.base).day < y.day
      BY <1>3, <1>4, <2>2, <3>1 DEF Based, Replaced
    <3>3. Fulls(remote') \subseteq Fulls(remote) \cup Fulls(local) /\ Fulls(remote) \subseteq Fulls(remote')
      BY DEF Fulls
    <3>. QED
      BY <2>2, <3>2, <3>3 DEF Replaced
  <2>. QED
    BY <1>3, <1>4, <2>1, <2>2 DEF Based
<1>5. ASSUME Full(x.base) \notin local \/ x \in remote' PROVE Full(x.base) \in reached'
  <2>1. CASE Full(x.base) \notin local \/ x \in remote
    BY <1>3, <2>1 DEF Based
  <2>2. CASE Full(x.base) \in local /\ x \in items
    BY <2>2 DEF Incrs
  <2>. QED
    BY <1>5, <2>1, <2>2
<1>. QED
  BY <1>1, <1>3, <1>4, <1>5 DEF Based

LEMMA IncrInit == Init => IncrInv
BY DEF Init, IncrInv, Incrs

LEMMA IncrStep ==
  ASSUME BackupType, DayInv, SaveInv, FullInv, IncrInv, CopyInv, CopiesInTime, Next
  PROVE  IncrInv'
<1>0. /\ day \in Nat /\ local \subseteq Items /\ remote \subseteq Items
      /\ \A x \in local \cup remote : x.day \in Nat /\ x.day <= day /\ x.base \in Nat
  BY DaysOfItems, ItemFacts DEF BackupType
<1>1. CASE UNCHANGED <<stores, reached, lastSync>>
  BY <1>1 DEF IncrInv, Based, Whole, Replaced, stores
<1>2. CASE NewBackup(TRUE) \/ NewBackup(FALSE)
  <2>1. /\ local' = local \cup {Wanted} /\ (tornLocal' = tornLocal \/ tornLocal' = tornLocal \cup {Wanted})
        /\ UNCHANGED <<remote, torn, reached>>
        /\ task = "save" /\ saving["clickhouse_backup"] = "todo" /\ ~Exists /\ BaseUsable
    BY <1>2 DEF NewBackup, history
  <2>2. /\ Wanted \notin local \cup remote \cup reached /\ Wanted.day = day /\ Wanted.kind \in {"full", "incr"}
        /\ Wanted \in Items /\ Wanted.base \in Nat
    BY <2>1, WantedIs, WantedIsNew, ItemFacts
  <2>3. Whole' = Whole
    BY <2>1 DEF Whole
  <2>4. ASSUME NEW x \in Incrs(local \cup remote) PROVE Based(x)'
    <3>1. Based(x) /\ x.day <= day /\ x.base \in Nat /\ x.day \in Nat
      BY <1>0 DEF IncrInv, Incrs
    <3>2. Full(x.base).day = x.base /\ x.base < day
      BY <1>0, <3>1 DEF Based, Full
    <3>3. Full(x.base) # Wanted
      BY <1>0, <2>2, <3>1, <3>2
    <3>4. ASSUME NEW y \in Fulls(local' \cup remote'), y.day <= x.day PROVE y.day <= x.base
      <4>1. CASE y \in Fulls(local \cup remote)
        BY <3>1, <3>4, <4>1 DEF Based
      <4>2. CASE y = Wanted /\ y.kind = "full"
        <5>1. x.day = day
          BY <1>0, <2>2, <3>1, <3>4, <4>2
        <5>2. Fulls(local) # {} /\ day % MONTH # 0
          BY <3>1, <5>1 DEF FullInv, Based
        <5>. QED
          BY <4>2, <5>2, WantedIs
      <4>. QED
        BY <2>1, <4>1, <4>2 DEF Fulls
    <3>5. \A y \in Fulls(local') : Full(x.base) \notin local' => x.base < y.day
      BY <2>1, <2>2, <3>1, <3>2 DEF Based, Fulls
    <3>6. Replaced(Full(x.base))' <=> Replaced(Full(x.base))
      BY <2>1 DEF Replaced
    <3>. QED
      BY <2>1, <2>3, <3>1, <3>3, <3>4, <3>5, <3>6 DEF Based
  <2>5. PICK w : w = Wanted
    OBVIOUS
  <2>6. ASSUME w.kind = "incr" PROVE Based(w)'
    <3>1. /\ day % MONTH # 0 /\ Full(w.base) \in Fulls(local)
          /\ \A y \in Fulls(local) : y.day <= w.base
          /\ Full(w.base) \notin tornLocal /\ w.base < day
      BY <2>1, <2>5, <2>6, WantedIs, WantedIsNew
    <3>2. Full(w.base) # w /\ Full(w.base) \in local'
      BY <2>1, <2>5, <2>6, <3>1 DEF Full, Fulls
    <3>3. \A y \in Fulls(local' \cup remote') : y.day <= w.base
      <4>1. \A y \in Fulls(remote) : y.day <= w.base
        <5>1. TAKE y \in Fulls(remote)
        <5>2. PICK z \in Fulls(local) : y.day <= z.day
          BY DEF FullInv
        <5>3. y.day \in Nat /\ z.day \in Nat /\ z.day <= w.base
          BY <1>0, <3>1 DEF Fulls
        <5>. QED
          BY <2>2, <2>5, <5>2, <5>3
      <4>2. Fulls(local' \cup remote') \subseteq Fulls(local) \cup Fulls(remote)
        BY <2>1, <2>5, <2>6 DEF Fulls
      <4>. QED
        BY <3>1, <4>1, <4>2
    <3>4. w.day = day /\ w \notin remote
      BY <2>2, <2>5
    <3>5. Full(w.base) \notin tornLocal'
      BY <2>1, <2>5, <3>1, <3>2
    <3>. QED
      BY <2>1, <3>1, <3>2, <3>3, <3>4, <3>5 DEF Based
  <2>. QED
    BY <2>1, <2>4, <2>5, <2>6 DEF IncrInv, Incrs
<1>3. CASE export_parquet
  <2>1. /\ local' = local \cup {Parquet(day - 1)} /\ UNCHANGED <<remote, torn, tornLocal, reached>>
    BY <1>3 DEF export_parquet, history
  <2>2. Parquet(day - 1).kind = "parquet"
    BY DEF Parquet
  <2>3. /\ Fulls(local') = Fulls(local) /\ Fulls(local' \cup remote') = Fulls(local \cup remote)
        /\ Incrs(local' \cup remote') = Incrs(local \cup remote)
    BY <2>1, <2>2 DEF Fulls, Incrs
  <2>4. \A b : Full(b) \in local' <=> Full(b) \in local
    BY <2>1, <2>2 DEF Full
  <2>. QED
    BY <2>1, <2>3, <2>4 DEF IncrInv, Based, Whole, Replaced
<1>4. CASE sync_to_oracle
  <2>1. /\ remote' = remote \cup local /\ torn' = (torn \ local) \cup (tornLocal \cap local)
        /\ reached' = reached \cup (local \ tornLocal) /\ UNCHANGED <<local, tornLocal>>
    BY <1>4 DEF sync_to_oracle, Copied
  <2>2. \A x \in Incrs(local) : Full(x.base) \in local => Full(x.base) \in reached'
    BY <2>1 DEF IncrInv, Based, Incrs
  <2>. QED
    BY <2>1, <2>2, CopyKeeps
<1>5. ASSUME NEW x \in local, SyncCut(x) PROVE IncrInv'
  <2>. DEFINE before == {y \in local : Precedes(y, x)}
  <2>1. PICK items \in {before, before \cup {x}} :
          /\ remote' = remote \cup items
          /\ torn' \subseteq torn \cup local
          /\ reached' = reached \cup (before \ tornLocal)
          /\ UNCHANGED <<local, tornLocal>>
    <3>1. before \subseteq local
      OBVIOUS
    <3>2. UNCHANGED <<local, tornLocal>> /\ reached' = reached \cup (before \ tornLocal)
      BY <1>5 DEF SyncCut, Copied
    <3>3. CASE Copied(before)
      BY <3>1, <3>2, <3>3 DEF Copied
    <3>4. CASE /\ remote' = remote \cup before \cup {x}
               /\ torn' = (torn \ before) \cup (tornLocal \cap before) \cup {x}
      <4>. HIDE DEF before
      <4>. QED
        BY <1>5, <3>1, <3>2, <3>4
    <3>. QED
      BY <1>5, <3>3, <3>4 DEF SyncCut
  <2>2. items \in SUBSET local
    BY <1>5
  <2>3. ASSUME NEW i \in Incrs(items), Full(i.base) \in local PROVE Full(i.base) \in reached'
    <3>1. Based(i) /\ i.kind = "incr" /\ i \in local
      BY <2>2 DEF IncrInv, Incrs
    <3>2. Rank(Full(i.base)) = 0 /\ Full(i.base).kind = "full"
      BY DEF Rank, Full
    <3>3. x.kind # "full"
      <4>1. CASE i = x
        BY <3>1, <4>1
      <4>2. CASE i \in before
        <5>1. Precedes(i, x) /\ Rank(i) = 1
          BY <3>1, <4>2 DEF Rank
        <5>. QED
          BY <3>1, <5>1 DEF Precedes, Rank
      <4>. QED
        BY <2>3, <4>1, <4>2 DEF Incrs
    <3>4. Rank(x) > 0
      BY <1>0, <1>5, <3>3, ItemFacts DEF Rank
    <3>5. Full(i.base) \in before
      BY <2>3, <3>2, <3>4 DEF Precedes
    <3>. QED
      BY <2>1, <3>1, <3>5 DEF Based
  <2>. HIDE DEF before
  <2>. QED
    BY <2>1, <2>2, <2>3, CopyKeeps
<1>6. CASE apply_remote_retention \/ prune_incrementals
  <2>1. /\ UNCHANGED <<local, tornLocal, reached>> /\ remote' \subseteq remote
    BY <1>6 DEF apply_remote_retention, prune_incrementals, Drop, history
  <2>2. ASSUME NEW x \in Incrs(local' \cup remote') PROVE Based(x)'
    <3>1. Based(x) /\ x.base \in Nat
      BY <1>0, <2>1 DEF IncrInv, Incrs
    <3>2. Fulls(local' \cup remote') \subseteq Fulls(local \cup remote)
      BY <2>1 DEF Fulls
    <3>3. Full(x.base) \notin local => Full(x.base) \in Whole' \/ Replaced(Full(x.base))'
      BY <1>6, <3>1, Made, RetentionKeeps DEF Based
    <3>. QED
      BY <2>1, <3>1, <3>2, <3>3 DEF Based
  <2>. QED
    BY <2>2 DEF IncrInv
<1>7. CASE prune_local
  <2>1. /\ local' = local \ Expired(local) /\ tornLocal' \subseteq tornLocal
        /\ UNCHANGED <<remote, torn, reached>>
    BY <1>7 DEF prune_local
  <2>2. ASSUME NEW x \in Incrs(local' \cup remote') PROVE Based(x)'
    <3>1. Based(x) /\ x.base \in Nat
      BY <1>0, <2>1 DEF IncrInv, Incrs
    <3>2. Fulls(local' \cup remote') \subseteq Fulls(local \cup remote) /\ Fulls(local') \subseteq Fulls(local)
      BY <2>1 DEF Fulls
    <3>3. Whole' = Whole /\ (Replaced(Full(x.base))' <=> Replaced(Full(x.base)))
      BY <2>1 DEF Whole, Replaced
    <3>4. CASE Full(x.base) \in local'
      BY <2>1, <3>1, <3>2, <3>4 DEF Based
    <3>5. CASE Full(x.base) \notin local
      BY <2>1, <3>1, <3>2, <3>3, <3>5 DEF Based
    <3>6. CASE Full(x.base) \in local /\ Full(x.base) \notin local'
      <4>1. Full(x.base).kind = "full" /\ Full(x.base).day = x.base /\ Full(x.base) \in Fulls(local) \ tornLocal
        BY <3>1, <3>6 DEF Based, Full, Fulls
      <4>2. PICK z \in Fulls(local) : ~(z.day <= x.base)
        BY <2>1, <3>6, <4>1, Spared
      <4>3. z.day \in Nat /\ x.base < z.day
        BY <1>0, <3>1, <4>2 DEF Fulls
      <4>4. x.base <= lastSync
        BY <4>1, <4>3, OlderFullIsSynced
      <4>5. Full(x.base) \in reached
        BY <4>1, <4>4 DEF CopyInv, MadeOn, Fulls
      <4>6. Full(x.base) \in Whole \/ Replaced(Full(x.base))
        BY <4>1, <4>5 DEF CopyInv
      <4>7. \A y \in Fulls(local') : x.base < y.day
        <5>1. TAKE y \in Fulls(local')
        <5>2. y \in local /\ y.kind = "full" /\ y \notin Expired(local)
          BY <2>1 DEF Fulls
        <5>3. z.day <= y.day /\ y.day \in Nat
          BY <1>0, <5>2, Spared
        <5>. QED
          BY <3>1, <4>3, <5>3
      <4>. QED
        BY <2>1, <3>1, <3>2, <3>3, <4>5, <4>6, <4>7 DEF Based
    <3>. QED
      BY <3>4, <3>5, <3>6
  <2>. QED
    BY <2>2 DEF IncrInv
<1>. QED
  BY <1>1, <1>2, <1>3, <1>4, <1>5, <1>6, <1>7, StoreSteps

-----------------------------------------------------------------------------
(* Backups: copies.                                                         *)

\* The retries outlast the break: the remote retention ends in the local one.
LEMMA RetentionEnds ==
  ASSUME BackupType, DayInv, OneCut, Next, Retaining
  PROVE  Retaining' \/ prune_local
<1>1. CASE apply_remote_retention \/ prune_incrementals
  BY <1>1 DEF apply_remote_retention, prune_incrementals, Goto, Retaining
<1>2. CASE RetentionCut
  <2>1. ASSUME LastFails("retention") PROVE FALSE
    <3>1. tries["retention"] = RETRIES /\ cuts < CutsPerRun /\ tries["retention"] <= cuts
      BY <1>2, <2>1 DEF RetentionCut, LastFails, Cut, DayInv
    <3>2. cuts \in Nat /\ CutsPerRun <= RETRIES
      BY DEF BackupType, OneCut
    <3>. QED
      BY <3>1, <3>2, BackupConstants
  <2>. QED
    BY <1>2, <2>1 DEF RetentionCut, Retaining
<1>3. ~(clickhouse_backup \/ BackupBreaks)
  BY BackupSteps DEF Retaining
<1>4. /\ ~NextDay /\ ~export_parquet /\ ~ExportBreaks /\ ~Saved /\ ~sync_to_oracle
      /\ ~(\E x \in local : SyncCut(x)) /\ ~verify_remote /\ ~VerifyCut
  BY DEF NextDay, export_parquet, Done, ExportBreaks, SaveFails, Saved, sync_to_oracle, SyncCut,
         verify_remote, VerifyCut, Retaining
<1>. QED
  BY <1>1, <1>2, <1>3, <1>4 DEF Next

LEMMA CopyInit == Init => CopyInv
BY DEF Init, CopyInv, Fulls

LEMMA CopyStep ==
  ASSUME BackupType, DayInv, FullInv, SaveInv, CopyInv, OneCut, Next
  PROVE  CopyInv'
<1>0. /\ day \in Nat /\ lastSync \in Nat /\ local \subseteq Items
      /\ \A x \in local \cup remote : x.day \in Nat /\ x.day <= day
      /\ \A x \in local : MadeOn(x) \in Nat
  BY DaysOfItems, ItemFacts DEF BackupType
<1>1. CASE prune_local
  <2>1. /\ local' = local \ Expired(local) /\ tornLocal' = tornLocal \ Expired(local)
        /\ UNCHANGED <<remote, torn, reached, lastSync>> /\ task = "prune"
    BY <1>1 DEF prune_local
  <2>2. local' \ tornLocal' \subseteq local \ tornLocal
    BY <2>1
  <2>3. ASSUME NEW x \in Fulls(local') \ tornLocal', x \in reached PROVE x \in Whole
    <3>1. x \in Fulls(local) \ tornLocal /\ x \in local /\ x.kind = "full" /\ x \notin Expired(local)
      BY <2>1, <2>3 DEF Fulls
    <3>2. \A y \in Fulls(local) : y.day <= x.day
      BY <3>1, Spared
    <3>3. ~Replaced(x)
      <4>1. SUFFICES ASSUME Replaced(x) PROVE FALSE
        OBVIOUS
      <4>2. PICK y \in Fulls(remote) : x.day < y.day
        BY <4>1 DEF Replaced
      <4>3. PICK z \in Fulls(local) : y.day <= z.day
        BY DEF FullInv
      <4>4. x.day \in Nat /\ y.day \in Nat /\ z.day \in Nat /\ z.day <= x.day
        BY <1>0, <3>1, <3>2 DEF Fulls
      <4>. QED
        BY <4>2, <4>3, <4>4
    <3>. QED
      BY <2>3, <3>1, <3>3 DEF CopyInv
  <2>4. Whole' = Whole
    BY <2>1 DEF Whole
  <2>. QED
    BY <2>1, <2>2, <2>3, <2>4 DEF CopyInv
<1>2. CASE UNCHANGED <<stores, reached, lastSync>> /\ ~prune_local
  <2>1. Retaining => Retaining'
    BY <1>2, RetentionEnds
  <2>. QED
    BY <1>2, <2>1 DEF CopyInv, Whole, Replaced, stores
<1>3. CASE NewBackup(TRUE) \/ NewBackup(FALSE)
  <2>1. /\ local' = local \cup {Wanted} /\ tornLocal \subseteq tornLocal'
        /\ UNCHANGED <<remote, torn, reached, lastSync, task>>
        /\ task = "save" /\ saving["clickhouse_backup"] = "todo" /\ ~Exists /\ BaseUsable
    BY <1>3 DEF NewBackup, history
  <2>2. Wanted \notin reached /\ MadeOn(Wanted) = day
    BY <2>1, WantedIs, WantedIsNew DEF MadeOn
  <2>3. lastSync < day
    BY <2>1 DEF DayInv
  <2>4. ASSUME NEW x \in local' \ tornLocal', MadeOn(x) <= lastSync PROVE x \in reached
    <3>1. CASE x = Wanted
      BY <1>0, <2>2, <2>3, <2>4, <3>1
    <3>2. CASE x \in local \ tornLocal
      BY <2>4, <3>2 DEF CopyInv
    <3>. QED
      BY <2>1, <3>1, <3>2
  <2>5. ASSUME NEW x \in Fulls(local') \ tornLocal', x \in reached PROVE x \in Whole
    <3>1. x \in Fulls(local) \ tornLocal
      BY <2>1, <2>2, <2>5 DEF Fulls
    <3>. QED
      BY <2>1, <2>5, <3>1 DEF CopyInv, Retaining
  <2>6. Whole' = Whole
    BY <2>1 DEF Whole
  <2>. QED
    BY <2>1, <2>4, <2>5, <2>6 DEF CopyInv
<1>4. CASE export_parquet
  <2>1. /\ local' = local \cup {Parquet(day - 1)}
        /\ UNCHANGED <<remote, torn, tornLocal, reached, lastSync, task>> /\ task = "save"
    BY <1>4 DEF export_parquet, Done, history
  <2>2. Parquet(day - 1).kind = "parquet" /\ Parquet(day - 1).day = day - 1
    BY DEF Parquet
  <2>3. MadeOn(Parquet(day - 1)) = day
    BY <1>0, <2>2 DEF MadeOn
  <2>4. lastSync < day
    BY <2>1 DEF DayInv
  <2>5. \A x \in local' \ tornLocal' : MadeOn(x) <= lastSync => x \in reached
    BY <1>0, <2>1, <2>3, <2>4 DEF CopyInv
  <2>6. Fulls(local') = Fulls(local) /\ Whole' = Whole
    BY <2>1, <2>2 DEF Fulls, Whole
  <2>. QED
    BY <2>1, <2>5, <2>6 DEF CopyInv, Retaining, Replaced
<1>5. CASE sync_to_oracle
  <2>1. /\ remote' = remote \cup local /\ torn' = (torn \ local) \cup (tornLocal \cap local)
        /\ reached' = reached \cup (local \ tornLocal) /\ UNCHANGED <<local, tornLocal>>
    BY <1>5 DEF sync_to_oracle, Copied
  <2>2. \A x \in local \ tornLocal : x \in reached' /\ x \in Whole'
    BY <2>1 DEF Whole
  <2>. QED
    BY <2>1, <2>2 DEF CopyInv, Fulls
<1>6. ASSUME NEW x \in local, SyncCut(x) PROVE CopyInv'
  <2>. DEFINE before == {y \in local : Precedes(y, x)}
  <2>1. /\ UNCHANGED <<local, tornLocal, lastSync>> /\ reached' = reached \cup (before \ tornLocal)
        /\ task = "sync"
        /\ remote' = remote \cup before \/ (x \notin remote /\ remote' = remote \cup before \cup {x})
    BY <1>6 DEF SyncCut, Copied
  <2>2. \/ torn' = (torn \ before) \cup (tornLocal \cap before)
        \/ x \notin remote /\ torn' = (torn \ before) \cup (tornLocal \cap before) \cup {x}
    BY <1>6 DEF SyncCut, Copied
  <2>3. x \notin before
    <3>1. x.day \in Nat /\ Rank(x) \in Nat
      BY <1>0, ItemFacts DEF Rank
    <3>. QED
      BY <3>1 DEF Precedes
  <2>4. ASSUME NEW y \in Fulls(local) \ tornLocal, y \in reached' PROVE y \in Whole'
    <3>. HIDE DEF before
    <3>1. CASE y \in before
      BY <2>1, <2>2, <2>3, <2>4, <3>1 DEF Whole
    <3>2. CASE y \in reached
      <4>1. y \in Whole
        BY <2>1, <2>4, <3>2 DEF CopyInv, Retaining
      <4>. QED
        BY <2>1, <2>2, <2>4, <4>1 DEF Whole
    <3>. QED
      BY <2>1, <2>4, <3>1, <3>2
  <2>5. reached \subseteq reached'
    BY <2>1
  <2>. HIDE DEF before
  <2>. QED
    BY <2>1, <2>4, <2>5 DEF CopyInv
<1>7. CASE apply_remote_retention \/ prune_incrementals
  <2>1. /\ UNCHANGED <<local, tornLocal, reached, lastSync>> /\ Retaining /\ Retaining'
    BY <1>7 DEF apply_remote_retention, prune_incrementals, Goto, history, Retaining
  <2>2. ASSUME NEW x \in Fulls(local) \ tornLocal, x \in reached PROVE x \in Whole' \/ Replaced(x)'
    <3>1. x \in Whole \/ Replaced(x)
      BY <2>2 DEF CopyInv
    <3>2. x.kind = "full" /\ x.day \in Nat
      BY <1>0 DEF Fulls
    <3>. QED
      BY <1>7, <3>1, <3>2, RetentionKeeps
  <2>. QED
    BY <2>1, <2>2 DEF CopyInv
<1>. QED
  BY <1>1, <1>2, <1>3, <1>4, <1>5, <1>6, <1>7, StoreSteps

-----------------------------------------------------------------------------
(* Backups: the theorems about what can be restored and what is deleted.    *)

LEMMA BackupInvInit == Init => BackupInv
BY BackupTypeInit, DayInit, SaveInit, FullInit, IncrInit, CopyInit DEF BackupInv

LEMMA BackupInvStep ==
  ASSUME OneCut, CopiesInTime, BackupInv, [Next]_vars
  PROVE  BackupInv'
<1>1. CASE Next
  BY <1>1, BackupTypeStep, DayStep, SaveStep, FullStep, IncrStep, CopyStep DEF BackupInv
<1>2. CASE UNCHANGED vars
  <2>1. UNCHANGED <<day, task, saving, tries, local, remote, tornLocal, torn, green, pruned, reached,
                    lastSync, cuts, faults>>
    BY <1>2 DEF vars, run, stores, history
  <2>2. BackupType' /\ DayInv' /\ SaveInv' /\ FullInv'
    BY <2>1 DEF BackupInv, BackupType, DayInv, SaveInv, FullInv, AfterSaves, Retaining
  <2>3. IncrInv' /\ CopyInv'
    BY <2>1 DEF BackupInv, IncrInv, Based, CopyInv, Whole, Replaced, Retaining
  <2>. QED
    BY <2>2, <2>3 DEF BackupInv
<1>. QED
  BY <1>1, <1>2

\* The base of a whole incremental backup is never missing (clickhouse_backup picks it, the
\* two retentions delete full backups, SyncCut leaves torn ones).
LEMMA BasesAreThere == BackupInv => IncrementalsHaveBase
<1>1. SUFFICES ASSUME BackupInv, NEW x \in Whole, x.kind = "incr",
                      NEW y \in Fulls(remote), y.day <= x.day
               PROVE  Full(x.base) \in Whole
  BY DEF IncrementalsHaveBase
<1>2. Based(x) /\ x \in remote
  BY <1>1 DEF BackupInv, IncrInv, Incrs, Whole
<1>3. y.day <= x.base /\ y.day \in Nat /\ x.base \in Nat
  <2>1. x \in Items /\ y \in Items
    BY <1>1, <1>2 DEF BackupInv, BackupType, Fulls
  <2>2. y \in Fulls(local \cup remote)
    BY DEF Fulls
  <2>. QED
    BY <1>1, <1>2, <2>1, <2>2, ItemFacts DEF Based
<1>4. ~Replaced(Full(x.base))
  <2>1. Full(x.base).day = x.base
    BY DEF Full
  <2>. QED
    BY <1>3, <2>1 DEF Replaced
<1>5. CASE Full(x.base) \in local
  <2>1. Full(x.base) \in Fulls(local) \ tornLocal /\ Full(x.base) \in reached
    BY <1>2, <1>5 DEF Based, Fulls, Full
  <2>. QED
    BY <1>1, <1>4, <2>1 DEF BackupInv, CopyInv
<1>. QED
  BY <1>2, <1>4, <1>5 DEF Based

\* Whatever copies are cut and whatever the two retentions have deleted, an incremental
\* backup that is whole on the remote host and not outlived has its base there, whole.
THEOREM BasesStay ==
  ASSUME OneCut, CopiesInTime
  PROVE  Spec => []IncrementalsHaveBase
<1>1. BackupInv /\ [Next]_vars => BackupInv'
  BY BackupInvStep
<1>. QED
  BY <1>1, BackupInvInit, BasesAreThere, PTL DEF Spec

\* What the local retention deletes was here at the last copy that got through.
LEMMA ExpiredIsSynced ==
  ASSUME BackupType, DayInv, FullInv, CopiesInTime, NEW x \in Expired(local)
  PROVE  x \in local /\ MadeOn(x) <= lastSync
<1>0. /\ day \in Nat /\ lastSync \in Nat /\ x \in local /\ x \in Items /\ x.day \in Nat
      /\ day - lastSync <= MaxUnsynced
  BY ItemFacts DEF BackupType, DayInv, Expired
<1>1. CASE x.kind = "parquet"
  <2>1. day - (x.day + 1) > PARQUET_KEEP_DAYS_LOCAL
    BY <1>1 DEF Expired
  <2>2. x.day + 1 <= lastSync
    BY <1>0, <2>1, BackupConstants DEF CopiesInTime
  <2>. QED
    BY <1>0, <1>1, <2>2 DEF MadeOn
<1>2. CASE x.kind = "incr"
  <2>1. day - x.day > INCR_KEEP_DAYS_LOCAL
    BY <1>2 DEF Expired
  <2>2. x.day <= lastSync
    BY <1>0, <2>1, BackupConstants DEF CopiesInTime
  <2>. QED
    BY <1>0, <1>2, <2>2 DEF MadeOn
<1>3. CASE x.kind = "full"
  <2>1. x \in Fulls(local)
    BY <1>0, <1>3 DEF Fulls
  <2>2. PICK z \in Fulls(local) : ~(z.day <= x.day)
    BY <1>0, <1>3, Spared
  <2>3. z.day \in Nat
    BY DaysOfItems DEF Fulls
  <2>4. x.day <= lastSync
    BY <1>0, <2>1, <2>2, <2>3, OlderFullIsSynced
  <2>. QED
    BY <1>0, <1>3, <2>4 DEF MadeOn
<1>. QED
  BY <1>0, <1>1, <1>2, <1>3, ItemFacts

\* prune_local deletes nothing whole that has never been whole on the remote host.
THEOREM PruningLosesNothing ==
  ASSUME OneCut, CopiesInTime
  PROVE  Spec => []PrunedWasRemote
<1>1. Init => PrunedWasRemote
  BY DEF Init, PrunedWasRemote
<1>2. BackupInv /\ PrunedWasRemote /\ [Next]_vars => PrunedWasRemote'
  <2>1. SUFFICES ASSUME BackupInv, PrunedWasRemote, [Next]_vars PROVE PrunedWasRemote'
    OBVIOUS
  <2>2. CASE UNCHANGED vars
    BY <2>1, <2>2 DEF vars, history, PrunedWasRemote
  <2>3. CASE prune_local
    <3>1. pruned' = pruned \cup (Expired(local) \ tornLocal) /\ reached' = reached
      BY <2>3 DEF prune_local
    <3>2. \A x \in Expired(local) \ tornLocal : x \in reached
      BY <2>1, ExpiredIsSynced DEF BackupInv, CopyInv
    <3>. QED
      BY <2>1, <3>1, <3>2 DEF PrunedWasRemote
  <2>4. CASE clickhouse_backup \/ BackupBreaks
    <3>1. UNCHANGED <<pruned, reached>>
      BY <2>1, <2>4, BackupSteps DEF BackupInv, history
    <3>. QED
      BY <2>1, <3>1 DEF PrunedWasRemote
  <2>5. CASE sync_to_oracle \/ \E x \in local : SyncCut(x)
    <3>1. pruned' = pruned /\ reached \subseteq reached'
      BY <2>5 DEF sync_to_oracle, SyncCut, Copied
    <3>. QED
      BY <2>1, <3>1 DEF PrunedWasRemote
  <2>6. CASE \/ NextDay \/ export_parquet \/ ExportBreaks \/ Saved \/ apply_remote_retention
             \/ prune_incrementals \/ RetentionCut \/ verify_remote \/ VerifyCut
    <3>1. UNCHANGED <<pruned, reached>>
      BY <2>6 DEF NextDay, export_parquet, ExportBreaks, Saved, apply_remote_retention,
                  prune_incrementals, RetentionCut, verify_remote, VerifyCut, history
    <3>. QED
      BY <2>1, <3>1 DEF PrunedWasRemote
  <2>. QED
    BY <2>1, <2>2, <2>3, <2>4, <2>5, <2>6 DEF Next
<1>3. BackupInv /\ [Next]_vars => BackupInv'
  BY BackupInvStep
<1>. QED
  BY <1>1, <1>2, <1>3, BackupInvInit, PTL DEF Spec

-----------------------------------------------------------------------------
(* Backups: green runs.                                                     *)

\* The remote retention spares what today has made.
LEMMA TodaySpared ==
  ASSUME BackupType, DayInv, apply_remote_retention \/ prune_incrementals,
         NEW x \in Whole, MadeOn(x) = day
  PROVE  x \in Whole'
<1>0. /\ day \in Nat /\ remote \in SUBSET Items /\ x \in remote /\ x \in Items /\ x.day \in Nat
      /\ \A y \in remote : y \in Items /\ y.day \in Nat /\ y.day <= day
  BY DaysOfItems DEF BackupType, Whole
<1>1. Fulls(remote) \in SUBSET Items /\ \A y \in Fulls(remote) : y \in remote
  BY <1>0 DEF Fulls
<1>2. CASE apply_remote_retention
  <2>. DEFINE gone == {y \in remote : \/ y.kind = "parquet" /\ day - (y.day + 1) > PARQUET_KEEP_DAYS_REMOTE
                                      \/ y \in Fulls(remote) \ Kept(Fulls(remote))}
  <2>1. remote' = remote \ gone /\ torn' = torn \ gone
    BY <1>2 DEF apply_remote_retention, Drop
  <2>2. CASE x.kind = "parquet"
    <3>1. ~(day - (x.day + 1) > PARQUET_KEEP_DAYS_REMOTE)
      BY <1>0, <2>2, BackupConstants DEF MadeOn
    <3>2. x \notin Fulls(remote)
      BY <2>2 DEF Fulls
    <3>. QED
      BY <2>1, <3>1, <3>2 DEF Whole
  <2>3. CASE x.kind # "parquet"
    <3>1. x.day = day
      BY <2>3 DEF MadeOn
    <3>2. x \in Fulls(remote) => x \in Kept(Fulls(remote))
      BY <1>0, <1>1, <3>1, NewestIsKept
    <3>. QED
      BY <2>1, <2>3, <3>2 DEF Whole
  <2>. QED
    BY <2>2, <2>3
<1>3. CASE prune_incrementals
  <2>1. CASE x.kind # "incr" \/ Fulls(remote) = {}
    BY <1>3, <2>1 DEF prune_incrementals, Drop, Outlived, Whole
  <2>2. CASE x.kind = "incr" /\ Fulls(remote) # {}
    <3>1. x.day = day
      BY <2>2 DEF MadeOn
    <3>2. \A y \in Fulls(remote) : y.day <= day
      BY <1>0, <1>1
    <3>3. \E y \in Fulls(remote) : \A z \in Fulls(remote) : z.day <= y.day
      BY <1>0, <1>1, <2>2, <3>2, NewestExists
    <3>4. PICK y \in Kept(Fulls(remote)) : y \in Fulls(remote)
      BY <1>1, <3>3, NewestIsKept
    <3>5. ~(x.day < y.day)
      BY <1>0, <1>1, <3>1, <3>4
    <3>6. x \notin Outlived
      BY <3>4, <3>5 DEF Outlived
    <3>. QED
      BY <1>3, <3>6 DEF prune_incrementals, Drop, Whole
  <2>. QED
    BY <2>1, <2>2
<1>. QED
  BY <1>2, <1>3

LEMMA GreenInit == Init => GreenInv
BY DEF Init, GreenInv, Retaining

LEMMA GreenStep ==
  ASSUME BackupType, DayInv, GreenInv, Next
  PROVE  GreenInv'
<1>0. /\ day \in Nat /\ cuts \in Nat /\ green \subseteq Nat /\ local \subseteq Items
  BY DEF BackupType
<1>1. \A d \in green' : d <= day' /\ (task' # "idle" => d < day')
  <2>1. CASE NextDay
    <3>1. day' = day + 1 /\ green' = green
      BY <2>1 DEF NextDay, history
    <3>. QED
      BY <1>0, <3>1 DEF GreenInv
  <2>2. CASE verify_remote \/ VerifyCut
    <3>1. /\ day' = day /\ task = "verify"
          /\ \/ green' = green
             \/ green' = green \cup {day} /\ task' = "idle"
      BY <2>2 DEF verify_remote, VerifyCut, Goto
    <3>2. \A d \in green : d \in Nat /\ d < day
      BY <1>0, <3>1 DEF GreenInv
    <3>3. CASE green' = green
      BY <1>0, <3>1, <3>2, <3>3
    <3>4. CASE green' = green \cup {day} /\ task' = "idle"
      BY <1>0, <3>1, <3>2, <3>4
    <3>. QED
      BY <3>1, <3>3, <3>4
  <2>3. CASE ~NextDay /\ ~verify_remote /\ ~VerifyCut
    <3>1. day' = day /\ (task' # "idle" => task # "idle")
      BY <2>3, Flow
    <3>2. green' = green
      <4>1. CASE clickhouse_backup \/ BackupBreaks
        BY <4>1, BackupSteps DEF history
      <4>2. CASE \/ export_parquet \/ ExportBreaks \/ Saved \/ apply_remote_retention
                 \/ prune_incrementals \/ RetentionCut
        BY <4>2 DEF export_parquet, ExportBreaks, Saved, apply_remote_retention, prune_incrementals,
                    RetentionCut, history
      <4>3. CASE sync_to_oracle \/ (\E x \in local : SyncCut(x)) \/ prune_local
        BY <4>3 DEF sync_to_oracle, SyncCut, prune_local
      <4>. QED
        BY <2>3, <4>1, <4>2, <4>3 DEF Next
    <3>. QED
      BY <3>1, <3>2 DEF GreenInv
  <2>. QED
    BY <2>1, <2>2, <2>3
<1>2. ASSUME Retaining' \/ task' = "verify", cuts' = 0,
             NEW x \in local', MadeOn(x) = day'
      PROVE  x \in tornLocal' \cup Whole'
  <2>1. CASE sync_to_oracle
    BY <2>1 DEF sync_to_oracle, Copied, Whole
  <2>2. ~(\E i \in local : SyncCut(i)) /\ ~RetentionCut /\ ~VerifyCut
    <3>1. ~Cut
      BY <1>0, <1>2 DEF Cut
    <3>. QED
      BY <3>1 DEF SyncCut, RetentionCut, VerifyCut
  <2>3. CASE apply_remote_retention \/ prune_incrementals
    <3>1. Retaining /\ UNCHANGED <<local, tornLocal, day, cuts>>
      BY <2>3 DEF apply_remote_retention, prune_incrementals, Goto, NoFault, Retaining
    <3>2. x \in tornLocal \cup Whole
      BY <1>2, <3>1 DEF GreenInv
    <3>. QED
      BY <1>2, <2>3, <3>1, <3>2, TodaySpared
  <2>4. CASE prune_local
    <3>1. /\ task = "prune" /\ UNCHANGED <<remote, torn, day, cuts>>
          /\ local' = local \ Expired(local) /\ tornLocal' = tornLocal \ Expired(local)
      BY <2>4 DEF prune_local, Goto, NoFault
    <3>. QED
      BY <1>2, <3>1 DEF GreenInv, Retaining, Whole
  <2>5. CASE verify_remote
    <3>1. task = "verify" /\ UNCHANGED <<local, tornLocal, remote, torn, day, cuts>>
      BY <2>5 DEF verify_remote, NoFault, stores
    <3>. QED
      BY <1>2, <3>1 DEF GreenInv, Whole
  <2>6. ~(clickhouse_backup \/ BackupBreaks)
    BY <1>2, BackupSteps DEF Retaining
  <2>7. ~NextDay /\ ~export_parquet /\ ~ExportBreaks /\ ~Saved
    BY <1>2 DEF NextDay, export_parquet, Done, ExportBreaks, SaveFails, Saved, Goto, Retaining
  <2>. QED
    BY <2>1, <2>2, <2>3, <2>4, <2>5, <2>6, <2>7 DEF Next
<1>. QED
  BY <1>1, <1>2 DEF GreenInv

\* What the two ends of a green run know.
LEMMA GreenRunCopied ==
  ASSUME BackupInv, GreenInv, OneCut, task = "verify",
         \/ verify_remote /\ Pending = {}
         \/ VerifyCut
  PROVE  \A x \in local : MadeOn(x) = day => x \in tornLocal \cup Whole
<1>1. CASE Pending = {}
  BY <1>1 DEF Pending, Whole
<1>2. CASE VerifyCut
  <2>1. cuts < CutsPerRun /\ cuts \in Nat
    BY <1>2 DEF VerifyCut, Cut, BackupInv, BackupType
  <2>2. cuts = 0
    BY <2>1, BackupConstants DEF OneCut
  <2>. QED
    BY <2>2 DEF GreenInv
<1>. QED
  BY <1>1, <1>2

\* Today's backup and Parquet file can be restored once they have been copied.
LEMMA TodayRestorable ==
  ASSUME BackupInv, task = "verify", \A x \in local : MadeOn(x) = day => x \in tornLocal \cup Whole
  PROVE  /\ Parquet(day - 1) \in Whole
         /\ \E x \in local : /\ x.kind \in {"full", "incr"} /\ x.day = day
                             /\ x \in tornLocal \/ {x, Full(x.base)} \subseteq Whole
<1>0. /\ day \in Nat /\ day > 0 /\ local \subseteq Items
      /\ \A x \in local : x.day \in Nat /\ x.day <= day /\ x.base \in Nat
  <2>1. \A x \in local : x.day \in Nat /\ x.day <= day /\ x \in Items
    BY DaysOfItems DEF BackupInv
  <2>. QED
    BY <2>1, ItemFacts DEF BackupInv, BackupType, DayInv
<1>1. Parquet(day - 1) \in Whole
  <2>1. Parquet(day - 1) \in local /\ Parquet(day - 1).kind = "parquet"
    BY DEF BackupInv, SaveInv, AfterSaves, Parquet
  <2>2. MadeOn(Parquet(day - 1)) = day
    BY <1>0, Made DEF MadeOn
  <2>3. Parquet(day - 1) \notin tornLocal
    BY <2>1 DEF BackupInv, SaveInv
  <2>. QED
    BY <2>1, <2>2, <2>3
<1>2. PICK x \in local : x.kind # "parquet" /\ x.day = day
  BY DEF BackupInv, SaveInv, AfterSaves
<1>3. x.kind \in {"full", "incr"} /\ MadeOn(x) = day /\ x \in tornLocal \cup Whole
  BY <1>0, <1>2, ItemFacts DEF MadeOn
<1>4. ASSUME x \in Whole PROVE Full(x.base) \in Whole
  <2>1. CASE x.kind = "full"
    <3>1. x = Full(x.day) /\ x.base = x.day
      BY <1>0, <2>1, ItemFacts DEF Items
    <3>. QED
      BY <1>4, <3>1
  <2>2. CASE x.kind = "incr"
    <3>1. Based(x) /\ x \in remote /\ Full(x.base).day = x.base
      BY <1>4, <2>2 DEF BackupInv, IncrInv, Incrs, Whole, Full
    <3>2. Full(x.base) \in local
      <4>1. SUFFICES ASSUME Full(x.base) \notin local PROVE FALSE
        OBVIOUS
      <4>2. x \in Incrs(local \cup remote)
        BY <2>2 DEF Incrs
      <4>3. PICK y \in Fulls(local) : TRUE
        BY <4>2 DEF BackupInv, FullInv
      <4>4. x.base < y.day /\ y.day <= day /\ y.day \in Nat /\ y \in Fulls(local \cup remote)
        BY <1>0, <3>1, <4>1 DEF Based, Fulls
      <4>5. y.day <= x.base
        BY <1>2, <3>1, <4>4 DEF Based
      <4>. QED
        BY <1>0, <4>4, <4>5
    <3>3. Full(x.base) \in Fulls(local) \ tornLocal /\ Full(x.base) \in reached
      BY <3>1, <3>2 DEF Based, Fulls, Full
    <3>. QED
      BY <3>3 DEF BackupInv, CopyInv, Retaining
  <2>. QED
    BY <1>3, <2>1, <2>2
<1>. QED
  BY <1>1, <1>2, <1>3, <1>4

\* A green run means that the remote host alone can restore the day (verify_remote).
THEOREM GreenIsRestorable ==
  ASSUME OneCut, CopiesInTime
  PROVE  Spec => []GreenMeansRestorable
<1>1. Init => GreenInv /\ GreenMeansRestorable
  BY GreenInit DEF Init, GreenMeansRestorable
<1>2. BackupInv /\ GreenInv /\ GreenMeansRestorable /\ [Next]_vars => GreenInv' /\ GreenMeansRestorable'
  <2>1. SUFFICES ASSUME BackupInv, GreenInv, GreenMeansRestorable, [Next]_vars
                 PROVE  GreenInv' /\ GreenMeansRestorable'
    OBVIOUS
  <2>2. CASE UNCHANGED vars
    <3>1. UNCHANGED <<day, task, local, remote, tornLocal, torn, green, cuts>>
      BY <2>2 DEF vars, run, stores, history
    <3>. QED
      BY <2>1, <3>1 DEF GreenInv, GreenMeansRestorable, Retaining, Whole
  <2>3. CASE Next
    <3>1. GreenInv'
      BY <2>1, <2>3, GreenStep DEF BackupInv
    <3>2. ASSUME task' = "idle", day' \in green'
          PROVE  /\ Parquet(day' - 1) \in Whole'
                 /\ \E x \in local' : /\ x.kind \in {"full", "incr"} /\ x.day = day'
                                      /\ x \in tornLocal' \/ {x, Full(x.base)} \subseteq Whole'
      <4>1. ~NextDay
        BY <3>2 DEF NextDay
      <4>2. day' = day /\ day \in Nat
        BY <2>1, <2>3, <4>1, Flow DEF BackupInv, BackupType
      <4>3. task # "idle"
        <5>1. SUFFICES ASSUME task = "idle" PROVE FALSE
          OBVIOUS
        <5>2. ~(clickhouse_backup \/ BackupBreaks)
          BY <2>1, <5>1, BackupSteps DEF BackupInv
        <5>. QED
          BY <2>3, <4>1, <5>1, <5>2
             DEF Next, export_parquet, Done, ExportBreaks, SaveFails, Saved, sync_to_oracle, SyncCut,
                 apply_remote_retention, prune_incrementals, RetentionCut, prune_local,
                 verify_remote, VerifyCut
      <4>4. day \notin green
        BY <2>1, <4>2, <4>3 DEF GreenInv
      <4>5. \/ verify_remote /\ Pending = {}
            \/ VerifyCut
        <5>1. ~(clickhouse_backup \/ BackupBreaks)
          BY <2>1, <3>2, BackupSteps DEF BackupInv
        <5>2. ~(export_parquet \/ ExportBreaks \/ Saved \/ apply_remote_retention
                \/ prune_incrementals \/ RetentionCut)
          BY <3>2, <4>2, <4>4 DEF export_parquet, ExportBreaks, Saved, apply_remote_retention,
                                  prune_incrementals, RetentionCut, history
        <5>3. ~(sync_to_oracle \/ (\E x \in local : SyncCut(x)) \/ prune_local)
          BY <3>2 DEF sync_to_oracle, SyncCut, prune_local, Goto
        <5>4. verify_remote => Pending = {}
          BY <3>2, <4>2, <4>4 DEF verify_remote
        <5>. QED
          BY <2>3, <4>1, <5>1, <5>2, <5>3, <5>4 DEF Next
      <4>6. task = "verify" /\ UNCHANGED <<local, remote, tornLocal, torn>>
        BY <4>5 DEF verify_remote, VerifyCut, stores
      <4>7. Whole' = Whole
        BY <4>6 DEF Whole
      <4>8. \A x \in local : MadeOn(x) = day => x \in tornLocal \cup Whole
        BY <2>1, <4>5, <4>6, GreenRunCopied
      <4>9. /\ Parquet(day - 1) \in Whole
            /\ \E x \in local : /\ x.kind \in {"full", "incr"} /\ x.day = day
                                /\ x \in tornLocal \/ {x, Full(x.base)} \subseteq Whole
        BY <2>1, <4>6, <4>8, TodayRestorable
      <4>. QED
        BY <4>2, <4>6, <4>7, <4>9
    <3>. QED
      BY <3>1, <3>2 DEF GreenMeansRestorable
  <2>. QED
    BY <2>1, <2>2, <2>3
<1>3. BackupInv /\ [Next]_vars => BackupInv'
  BY BackupInvStep
<1>. QED
  BY <1>1, <1>2, <1>3, BackupInvInit, PTL DEF Spec

-----------------------------------------------------------------------------
(* Alert delivery: the inductive invariant.                                 *)

\* Types, part by part.
Phases == {"idle", "read", "send", "record"}
TransitionRows == [subject : Subjects, prev : Levels \cup {0}, level : Levels, at : 0..MaxNow]
MessageOf(fired) == \E n \in Nat : fired \in [1..n -> Keys]

FeedType ==
  /\ dag \in {"market", "quality"}
  /\ now \in 0..MaxNow
  /\ transitions \in Seq(TransitionRows)
  /\ latest \in [Rules -> [day : Nat, bad : BOOLEAN, since : Nat]]
RunOK(c) ==
  /\ DOMAIN c = {"phase", "tries", "fired", "partial"}
  /\ c.phase \in Phases
  /\ c.tries \in Nat
  /\ MessageOf(c.fired)
  /\ c.partial \in BOOLEAN
CurrentType == due \in BOOLEAN /\ RunOK(current)
TableType ==
  /\ recorded \subseteq Keys
  /\ \A fired \in late : MessageOf(fired)
  /\ shown \in [Keys -> Nat]
  /\ muted \subseteq Keys
  /\ replaced \subseteq Keys
CountType ==
  /\ broken \in Nat /\ inARow \in Nat
  /\ breaks \in Nat /\ mutes \in Nat
DeliveryType == FeedType /\ CurrentType /\ TableType /\ CountType

\* Rows are no younger than now, and there is one a day at most.
DatesInv ==
  /\ \A i \in DOMAIN transitions : transitions[i].at <= now
  /\ \A r \in Rules : latest[r].day * DAY <= latest[r].since /\ latest[r].since <= now

\* What alert_events has, or may yet get, has been in a message.
Told(k) == shown[k] > 0 \/ k \in muted
ToldInv ==
  /\ \A k \in recorded : Told(k)
  /\ \A fired \in late : \A k \in Range(fired) : Told(k)
  /\ current.phase = "record" => \A k \in Range(current.fired) : Told(k)

\* A key no table has, and no message is about to show, has been shown no more often than
\* attempts broke off.
OnceInv ==
  /\ IsInjective(current.fired)
  /\ \A k \in Keys :
       /\ shown[k] <= broken + 1
       /\ \/ k \in recorded
          \/ shown[k] <= broken
          \/ current.phase = "record" /\ k \in Range(current.fired)
  /\ current.phase = "send" => \A k \in Range(current.fired) : shown[k] <= broken

\* Failed runs in a row; market_alerts_notify never tells only a part.
RowInv ==
  /\ inARow <= MaxInARow
  /\ current.partial => inARow < MaxInARow
  /\ dag = "market" => ~current.partial
  /\ dag = "quality" => transitions = <<>>

\* A run has chosen what to tell; one is under way or due.
Sent == current.phase \in {"send", "record"}
RunToCome == due \/ current.phase # "idle"
Promoted(t) == t.level > t.prev /\ t.subject \notin Shadow

\* Each run since a promotion was written has failed, or is to come, or tells it.
RowWaits(t) ==
  /\ now - t.at - Lateness <= inARow + 1
  /\ ~RunToCome => now - t.at - Lateness <= inARow
  /\ Sent => MarketKey(t) \in Range(current.fired) \/ now - t.at <= Lateness
MarketInv ==
  dag = "market" =>
    \A i \in DOMAIN transitions :
      Promoted(transitions[i]) /\ ~DealtWith(MarketKey(transitions[i])) => RowWaits(transitions[i])

\* Each hourly run since a bad day was written has failed or passed over its rule.
DayWaits(r) ==
  /\ (now - 1) \div HOUR - latest[r].since \div HOUR <= inARow
  /\ ~RunToCome => now \div HOUR - latest[r].since \div HOUR <= inARow
  /\ Sent => QualityKey(r) \in Range(current.fired) \/ current.partial \/ latest[r].since = now
QualityInv ==
  /\ \A k \in replaced : DealtWith(k)
  /\ \A r \in Rules : latest[r].bad /\ ~DealtWith(QualityKey(r)) => DayWaits(r)
\* No daily table without quality_alerts.
MarketOnly == dag = "market" => \A r \in Rules : ~latest[r].bad

-----------------------------------------------------------------------------
-----------------------------------------------------------------------------
(* Alert delivery: keys, rows and messages.                                 *)

LEMMA DeliveryConstants ==
  /\ Levels \subseteq Nat
  /\ IsFiniteSet(Rules)
  /\ HOUR \in Nat \ {0} /\ DAY \in Nat \ {0} /\ FIELDS \in Nat \ {0}
  /\ Window \in Nat /\ Retries \in Nat /\ Lateness \in Nat /\ MaxInARow \in Nat /\ MaxNow \in Nat
  /\ MaxTransitions \in Nat /\ MaxBreaks \in Nat /\ MaxMuted \in Nat
BY DeliveryAssumption

\* A row in range has a key in Keys, and so has the day of a rule.
LEMMA KeyOfRow ==
  ASSUME NEW t \in TransitionRows
  PROVE  MarketKey(t) \in Keys
<1>1. t.at \in 0..MaxNow /\ t.subject \in Subjects /\ t.level \in Levels
  BY DEF TransitionRows
<1>2. 0 \div HOUR <= t.at \div HOUR /\ t.at \div HOUR <= MaxNow \div HOUR
  BY <1>1, DivMono, DeliveryConstants
<1>3. t.at \div HOUR \in Int /\ MaxNow \div HOUR \in Int /\ 0 \div HOUR \in Int
  BY <1>1, DivRange, DeliveryConstants
<1>4. 0 \div HOUR = 0
  BY DeliveryConstants
<1>. QED
  BY <1>1, <1>2, <1>3, <1>4 DEF MarketKey, Keys, MarketKeys

LEMMA KeyOfRule ==
  ASSUME DeliveryType, DatesInv, NEW r \in Rules
  PROVE  QualityKey(r) \in Keys
<1>1. latest[r].day \in Nat /\ latest[r].since \in Nat /\ latest[r].day * DAY <= latest[r].since /\ latest[r].since <= MaxNow
  BY DeliveryConstants DEF DeliveryType, FeedType, DatesInv
<1>. DEFINE d == latest[r].day
<1>2. 0 + d * DAY <= MaxNow
  <2>1. d * DAY \in Nat
    BY <1>1, DeliveryConstants
  <2>. QED
    BY <1>1, <2>1, DeliveryConstants
<1>3. (0 \div DAY) + d <= MaxNow \div DAY
  BY <1>1, <1>2, DivAhead, DeliveryConstants
<1>4. 0 \div DAY = 0 /\ MaxNow \div DAY \in Int
  BY DivRange, DeliveryConstants
<1>. QED
  BY <1>1, <1>3, <1>4 DEF QualityKey, Keys, QualityKeys

\* What the type says of each row of market_level_transitions.
LEMMA RowFacts ==
  ASSUME DeliveryType
  PROVE  /\ Len(transitions) \in Nat
         /\ DOMAIN transitions = 1..Len(transitions)
         /\ DOMAIN transitions \subseteq Nat
         /\ \A i \in DOMAIN transitions :
              /\ transitions[i] \in TransitionRows
              /\ transitions[i].at \in Nat
              /\ transitions[i].level \in Nat
              /\ MarketKey(transitions[i]) \in Keys
<1>1. transitions \in Seq(TransitionRows)
  BY DEF DeliveryType, FeedType
<1>2. Len(transitions) \in Nat /\ DOMAIN transitions = 1..Len(transitions)
  BY <1>1
<1>3. \A i \in DOMAIN transitions : transitions[i] \in TransitionRows
  BY <1>1
<1>4. ASSUME NEW t \in TransitionRows
      PROVE  t.at \in Nat /\ t.level \in Nat
  <2>1. t.at \in 0..MaxNow /\ t.level \in Levels
    BY DEF TransitionRows
  <2>2. 0..MaxNow \subseteq Nat
    BY DeliveryConstants
  <2>3. Levels \subseteq Nat
    BY DeliveryConstants
  <2>. QED
    BY <2>1, <2>2, <2>3
<1>. QED
  BY <1>2, <1>3, <1>4, KeyOfRow

\* A new row is the last one.
LEMMA AppendFacts ==
  ASSUME DeliveryType, NEW t
  PROVE  /\ DOMAIN Append(transitions, t) = 1..(Len(transitions) + 1)
         /\ \A i \in DOMAIN Append(transitions, t) :
              IF i = Len(transitions) + 1
                THEN Append(transitions, t)[i] = t
                ELSE i \in DOMAIN transitions /\ Append(transitions, t)[i] = transitions[i]
<1>1. transitions \in Seq(TransitionRows)
  BY DEF DeliveryType, FeedType
<1>2. Len(transitions) \in Nat /\ DOMAIN transitions = 1..Len(transitions)
  BY <1>1
<1>3. DOMAIN Append(transitions, t) = 1..(Len(transitions) + 1)
  BY <1>1, <1>2
<1>. QED
  BY <1>1, <1>2, <1>3

\* A message is a sequence of keys.
LEMMA MessageFacts ==
  ASSUME NEW fired, MessageOf(fired)
  PROVE  /\ Range(fired) \subseteq Keys
         /\ IsFiniteSet(DOMAIN fired)
         /\ DOMAIN fired \subseteq Nat
         /\ fired = <<>> => Range(fired) = {}
<1>1. PICK n \in Nat : fired \in [1..n -> Keys]
  BY DEF MessageOf
<1>2. IsFiniteSet(1..n)
  BY FS_Interval, 1 \in Int, n \in Int
<1>3. DOMAIN <<>> = {}
  OBVIOUS
<1>. QED
  BY <1>1, <1>2, <1>3 DEF Range

LEMMA EmptyMessage == MessageOf(<<>>) /\ IsInjective(<<>>) /\ Range(<<>>) = {}
<1>1. <<>> \in [1..0 -> Keys]
  OBVIOUS
<1>. QED
  BY <1>1 DEF MessageOf, IsInjective, Range

\* Of the rows with one key there is one no other is ahead of.
LEMMA FirstRow ==
  ASSUME DeliveryType,
         NEW S \in SUBSET DOMAIN transitions, S # {},
         \A i, j \in S : transitions[i].level = transitions[j].level
  PROVE  \E i \in S : \A j \in S : ~Ahead(j, i)
<1>1. DOMAIN transitions \subseteq Nat /\ \A i \in DOMAIN transitions : transitions[i].at \in Nat /\ transitions[i].level \in Nat
  BY RowFacts
<1>2. PICK a \in {transitions[i].at : i \in S} : \A b \in {transitions[i].at : i \in S} : a <= b
  <2>1. {transitions[i].at : i \in S} \in SUBSET Nat /\ {transitions[i].at : i \in S} # {}
    BY <1>1
  <2>. QED
    BY <2>1, LeastNumber
<1>3. PICK i \in {x \in S : transitions[x].at = a} : \A j \in {x \in S : transitions[x].at = a} : i <= j
  <2>1. {x \in S : transitions[x].at = a} \in SUBSET Nat /\ {x \in S : transitions[x].at = a} # {}
    BY <1>1, <1>2
  <2>. QED
    BY <2>1, LeastNumber
<1>4. ASSUME NEW j \in S, Ahead(j, i) PROVE FALSE
  <2>1. transitions[i].at = a /\ a <= transitions[j].at /\ transitions[i].level = transitions[j].level
    BY <1>2, <1>3
  <2>2. transitions[j].at = a /\ j < i
    BY <1>1, <1>4, <2>1 DEF Ahead, Before
  <2>3. i <= j
    BY <1>3, <2>2
  <2>. QED
    BY <1>1, <1>3, <2>2, <2>3
<1>. QED
  BY <1>3, <1>4

\* A message of market_alerts_notify has no key twice and none that is in alert_events,
\* and leaves out nothing in view.
LEMMA MarketMessage ==
  ASSUME DeliveryType, NEW fired \in MarketMessages
  PROVE  /\ MessageOf(fired)
         /\ IsInjective(fired)
         /\ \A k \in Range(fired) : k \notin recorded
         /\ \A i \in DOMAIN transitions :
              InView(transitions[i]) => MarketKey(transitions[i]) \in recorded \cup Range(fired)
<1>. DEFINE rows == {i \in DOMAIN transitions : InView(transitions[i])}
            chosen == Untold(rows)
<1>1. PICK f \in Listings(chosen) : fired = [i \in DOMAIN f |-> MarketKey(transitions[f[i]])]
  BY DEF MarketMessages
<1>2. rows \subseteq DOMAIN transitions /\ chosen \subseteq rows
  BY DEF Untold
<1>3. Cardinality(chosen) \in Nat
  <2>1. Len(transitions) \in Nat /\ DOMAIN transitions = 1..Len(transitions)
    BY DEF DeliveryType, FeedType
  <2>2. IsFiniteSet(DOMAIN transitions)
    BY <2>1, FS_Interval, 1 \in Int, Len(transitions) \in Int
  <2>. QED
    BY <1>2, <2>2, FS_Subset, FS_CardinalityType
<1>4. /\ f \in [1..Cardinality(chosen) -> chosen]
      /\ \A i \in chosen : \E n \in DOMAIN f : f[n] = i
      /\ \A i, j \in DOMAIN f : i < j => Ahead(f[i], f[j])
  BY <1>1 DEF Listings, Bijection, Injection, Surjection
<1>. HIDE DEF chosen, rows
<1>5. DOMAIN fired = 1..Cardinality(chosen) /\ DOMAIN f = 1..Cardinality(chosen)
  BY <1>1, <1>4
<1>6. \A n \in DOMAIN fired : f[n] \in chosen /\ fired[n] = MarketKey(transitions[f[n]])
  BY <1>1, <1>4, <1>5
<1>7. \A i \in chosen :
        /\ i \in rows /\ MarketKey(transitions[i]) \notin recorded
        /\ \A j \in rows : Ahead(j, i) => MarketKey(transitions[j]) # MarketKey(transitions[i])
  BY DEF chosen, Untold
<1>8. \A i \in DOMAIN transitions : MarketKey(transitions[i]) \in Keys
  BY KeyOfRow DEF DeliveryType, FeedType
<1>9. MessageOf(fired)
  <2>1. \A n \in DOMAIN fired : fired[n] \in Keys
    BY <1>2, <1>6, <1>8
  <2>2. fired = [n \in 1..Cardinality(chosen) |-> fired[n]]
    BY <1>1, <1>5
  <2>. QED
    BY <1>3, <1>5, <2>1, <2>2 DEF MessageOf
<1>10. IsInjective(fired)
  <2>1. \A n, m \in DOMAIN fired : n < m => fired[n] # fired[m]
    BY <1>4, <1>5, <1>6, <1>7
  <2>. QED
    BY <1>3, <1>5, <2>1 DEF IsInjective
<1>11. \A k \in Range(fired) : k \notin recorded
  BY <1>6, <1>7 DEF Range
<1>12. ASSUME NEW i \in DOMAIN transitions, InView(transitions[i]), MarketKey(transitions[i]) \notin recorded
       PROVE  MarketKey(transitions[i]) \in Range(fired)
  <2>. DEFINE S == {j \in rows : MarketKey(transitions[j]) = MarketKey(transitions[i])}
  <2>1. i \in S /\ S \subseteq DOMAIN transitions
    BY <1>2, <1>12 DEF rows
  <2>2. \A j, k \in S : transitions[j].level = transitions[k].level
    BY DEF MarketKey
  <2>3. PICK j \in S : \A k \in S : ~Ahead(k, j)
    BY <2>1, <2>2, FirstRow
  <2>4. j \in chosen
    BY <1>12, <2>3 DEF chosen, Untold
  <2>5. PICK n \in DOMAIN f : f[n] = j
    BY <1>4, <2>4
  <2>6. fired[n] = MarketKey(transitions[i]) /\ n \in DOMAIN fired
    BY <1>5, <1>6, <2>3, <2>5
  <2>. QED
    BY <2>6 DEF Range
<1>. QED
  BY <1>9, <1>10, <1>11, <1>12

\* The same of quality_alerts, for the rules whose query does not fail.
LEMMA QualityMessage ==
  ASSUME DeliveryType, DatesInv, NEW failing \in SUBSET Rules, NEW fired \in QualityMessages(failing)
  PROVE  /\ MessageOf(fired)
         /\ IsInjective(fired)
         /\ \A k \in Range(fired) : k \notin recorded
         /\ \A r \in Rules \ failing : latest[r].bad => QualityKey(r) \in recorded \cup Range(fired)
<1>. DEFINE rules == {r \in Rules \ failing : latest[r].bad /\ QualityKey(r) \notin recorded}
<1>1. PICK f \in Bijection(1..Cardinality(rules), rules) : fired = [i \in DOMAIN f |-> QualityKey(f[i])]
  BY DEF QualityMessages
<1>2. Cardinality(rules) \in Nat
  BY DeliveryConstants, FS_Subset, FS_CardinalityType, rules \subseteq Rules
<1>3. /\ f \in [1..Cardinality(rules) -> rules]
      /\ \A r \in rules : \E n \in DOMAIN f : f[n] = r
      /\ \A n, m \in DOMAIN f : f[n] = f[m] => n = m
  BY <1>1 DEF Bijection, Injection, Surjection, IsInjective
<1>4. \A r \in rules : r \in Rules /\ QualityKey(r) \notin recorded /\ QualityKey(r) \in Keys
  BY KeyOfRule
<1>5. \A r \in Rules \ failing : latest[r].bad /\ QualityKey(r) \notin recorded => r \in rules
  OBVIOUS
<1>6. \A r, q \in Rules : QualityKey(r) = QualityKey(q) => r = q
  BY DEF QualityKey
<1>. HIDE DEF rules
<1>7. DOMAIN fired = 1..Cardinality(rules) /\ DOMAIN f = 1..Cardinality(rules)
  BY <1>1, <1>3
<1>8. \A n \in DOMAIN fired : f[n] \in rules /\ fired[n] = QualityKey(f[n])
  BY <1>1, <1>3, <1>7
<1>9. MessageOf(fired)
  <2>1. \A n \in DOMAIN fired : fired[n] \in Keys
    BY <1>4, <1>8
  <2>2. fired = [n \in 1..Cardinality(rules) |-> fired[n]]
    BY <1>1, <1>7
  <2>. QED
    BY <1>2, <1>7, <2>1, <2>2 DEF MessageOf
<1>10. IsInjective(fired)
  BY <1>3, <1>4, <1>6, <1>7, <1>8 DEF IsInjective
<1>11. \A k \in Range(fired) : k \notin recorded
  BY <1>4, <1>8 DEF Range
<1>12. ASSUME NEW r \in Rules \ failing, latest[r].bad, QualityKey(r) \notin recorded
       PROVE  QualityKey(r) \in Range(fired)
  <2>1. PICK n \in DOMAIN f : f[n] = r
    BY <1>3, <1>5, <1>12
  <2>. QED
    BY <1>7, <1>8, <2>1 DEF Range
<1>. QED
  BY <1>9, <1>10, <1>11, <1>12

LEMMA EntryCount ==
  ASSUME NEW fired, MessageOf(fired), NEW k
  PROVE  /\ Cardinality(Entries(fired, k)) \in Nat
         /\ Entries(fired, k) # {} => Cardinality(Entries(fired, k)) > 0
<1>1. IsFiniteSet(Entries(fired, k))
  BY MessageFacts, FS_Subset, Entries(fired, k) \subseteq DOMAIN fired DEF Entries
<1>. QED
  BY <1>1, FS_CardinalityType, FS_EmptySet

\* What people see of a key in a message that has it once.
LEMMA EntriesOnce ==
  ASSUME NEW fired, MessageOf(fired), IsInjective(fired), NEW k
  PROVE  /\ Cardinality(Entries(fired, k)) \in 0..1
         /\ Entries(fired, k) # {} => Cardinality(Entries(fired, k)) = 1
         /\ k \notin Range(fired) => Cardinality(Entries(fired, k)) = 0
<1>1. Entries(fired, k) # {} => \E i : Entries(fired, k) = {i}
  <2>1. \A i, j \in Entries(fired, k) : i = j
    BY DEF Entries, IsInjective
  <2>. QED
    BY <2>1
<1>2. k \notin Range(fired) => Entries(fired, k) = {}
  BY DEF Entries, Range
<1>3. \A x : Cardinality({x}) = 1
  BY FS_Singleton
<1>4. Entries(fired, k) # {} => Cardinality(Entries(fired, k)) = 1
  BY <1>1, <1>3
<1>5. Entries(fired, k) = {} => Cardinality(Entries(fired, k)) = 0
  BY FS_EmptySet
<1>. QED
  BY <1>2, <1>4, <1>5

-----------------------------------------------------------------------------
(* Alert delivery: nothing is shown twice.                                  *)

BaseInv == DeliveryType /\ DatesInv /\ ToldInv /\ OnceInv

LEMMA BaseInit == DeliveryInit => BaseInv
<1>. SUFFICES ASSUME DeliveryInit PROVE BaseInv
  OBVIOUS
<1>. USE DEF DeliveryInit, Idle
<1>1. MessageOf(current.fired) /\ IsInjective(current.fired) /\ Range(current.fired) = {}
  BY EmptyMessage
<1>2. transitions \in Seq(TransitionRows) /\ DOMAIN transitions = {}
  OBVIOUS
<1>3. latest \in [Rules -> [day : Nat, bad : BOOLEAN, since : Nat]]
  <2>. DEFINE B == IF dag = "quality" THEN BOOLEAN ELSE {FALSE}
  <2>1. B \subseteq BOOLEAN
    OBVIOUS
  <2>2. latest \in [Rules -> [day : {0}, bad : B, since : {0}]]
    OBVIOUS
  <2>. HIDE DEF B
  <2>3. [day : {0}, bad : B, since : {0}] \subseteq [day : Nat, bad : BOOLEAN, since : Nat]
    BY <2>1
  <2>. QED
    BY <2>2, <2>3
<1>4. DeliveryType
  BY <1>1, <1>2, <1>3, DeliveryConstants DEF DeliveryType, FeedType, CurrentType, RunOK, TableType, CountType, Phases
<1>5. DatesInv
  <2>1. \A r \in Rules : latest[r].day = 0 /\ latest[r].since = 0
    OBVIOUS
  <2>. QED
    BY <1>2, <2>1, DeliveryConstants DEF DatesInv
<1>6. ToldInv
  BY DEF ToldInv
<1>7. OnceInv
  BY <1>1 DEF OnceInv
<1>. QED
  BY <1>4, <1>5, <1>6, <1>7 DEF BaseInv

\* What a run does to its own record.
Shape(c, stage, n, fired, partial) ==
  /\ DOMAIN c = {"phase", "tries", "fired", "partial"}
  /\ c.phase = stage /\ c.tries = n /\ c.fired = fired /\ c.partial = partial

LEMMA Shapes ==
  ASSUME DeliveryType
  PROVE  /\ Shape(Idle, "idle", 0, <<>>, FALSE)
         /\ Shape([Idle EXCEPT !.phase = "read"], "read", 0, <<>>, FALSE)
         /\ \A n : Shape([Idle EXCEPT !.phase = "read", !.tries = n], "read", n, <<>>, FALSE)
         /\ \A f, b : Shape([current EXCEPT !.phase = "send", !.fired = f, !.partial = b], "send", current.tries, f, b)
         /\ Shape([current EXCEPT !.phase = "record"], "record", current.tries, current.fired, current.partial)
<1>1. DOMAIN current = {"phase", "tries", "fired", "partial"}
  BY DEF DeliveryType, CurrentType, RunOK
<1>2. /\ Shape(Idle, "idle", 0, <<>>, FALSE)
      /\ Shape([Idle EXCEPT !.phase = "read"], "read", 0, <<>>, FALSE)
      /\ \A n : Shape([Idle EXCEPT !.phase = "read", !.tries = n], "read", n, <<>>, FALSE)
  BY DEF Shape, Idle
<1>3. ASSUME NEW f, NEW b
      PROVE  Shape([current EXCEPT !.phase = "send", !.fired = f, !.partial = b], "send", current.tries, f, b)
  BY <1>1 DEF Shape
<1>4. Shape([current EXCEPT !.phase = "record"], "record", current.tries, current.fired, current.partial)
  BY <1>1 DEF Shape
<1>. QED
  BY <1>2, <1>3, <1>4

\* Each step of a run in these terms.
LEMMA RunEffects ==
  ASSUME DeliveryType
  PROVE  /\ Start => Shape(current', "read", 0, <<>>, FALSE)
         /\ \A fired, partial : Read(fired, partial) =>
              \/ fired = <<>> /\ Shape(current', "idle", 0, <<>>, FALSE)
              \/ fired # <<>> /\ Shape(current', "send", current.tries, fired, partial)
         /\ Send \/ SendMuted => Shape(current', "record", current.tries, current.fired, current.partial)
         /\ Record => Shape(current', "idle", 0, <<>>, FALSE)
         /\ Break => \/ current.tries < Retries /\ Shape(current', "read", current.tries + 1, <<>>, FALSE)
                     \/ ~(current.tries < Retries) /\ Shape(current', "idle", 0, <<>>, FALSE)
<1>1. Start => Shape(current', "read", 0, <<>>, FALSE)
  <2>1. Start => current' = [Idle EXCEPT !.phase = "read"]
    BY DEF Start
  <2>. QED
    BY <2>1, Shapes
<1>2. ASSUME NEW fired, NEW partial, Read(fired, partial)
      PROVE  \/ fired = <<>> /\ Shape(current', "idle", 0, <<>>, FALSE)
             \/ fired # <<>> /\ Shape(current', "send", current.tries, fired, partial)
  <2>1. CASE fired = <<>>
    <3>1. current' = Idle
      BY <1>2, <2>1 DEF Read
    <3>. QED
      BY <2>1, <3>1, Shapes
  <2>2. CASE fired # <<>>
    <3>1. current' = [current EXCEPT !.phase = "send", !.fired = fired, !.partial = partial]
      BY <1>2, <2>2 DEF Read
    <3>. QED
      BY <2>2, <3>1, Shapes
  <2>. QED
    BY <2>1, <2>2
<1>3. Send \/ SendMuted => Shape(current', "record", current.tries, current.fired, current.partial)
  <2>1. Send \/ SendMuted => current' = [current EXCEPT !.phase = "record"]
    BY DEF Send, SendMuted
  <2>. QED
    BY <2>1, Shapes
<1>4. Record => Shape(current', "idle", 0, <<>>, FALSE)
  <2>1. Record => current' = Idle
    BY DEF Record
  <2>. QED
    BY <2>1, Shapes
<1>5. ASSUME Break
      PROVE  \/ current.tries < Retries /\ Shape(current', "read", current.tries + 1, <<>>, FALSE)
             \/ ~(current.tries < Retries) /\ Shape(current', "idle", 0, <<>>, FALSE)
  <2>1. CASE current.tries < Retries
    <3>1. current' = [Idle EXCEPT !.phase = "read", !.tries = current.tries + 1]
      BY <1>5, <2>1 DEF Break
    <3>. QED
      BY <2>1, <3>1, Shapes
  <2>2. CASE ~(current.tries < Retries)
    <3>1. current' = Idle
      BY <1>5, <2>2 DEF Break
    <3>. QED
      BY <2>2, <3>1, Shapes
  <2>. QED
    BY <2>1, <2>2
<1>. QED
  BY <1>1, <1>2, <1>3, <1>4, <1>5

LEMMA FeedStep ==
  ASSUME DeliveryType, DeliveryNext
  PROVE  FeedType'
<1>. USE DEF DeliveryType, FeedType, told, work
<1>1. CASE Tick
  BY <1>1, DeliveryConstants DEF Tick
<1>2. ASSUME NEW subject \in Subjects, NEW level \in Levels, NEW at \in 0..now, Transition(subject, level, at) PROVE FeedType'
  <2>. DEFINE earlier == {i \in DOMAIN transitions : transitions[i].subject = subject}
              prev == IF earlier = {} THEN 0 ELSE transitions[Max(earlier)].level
              t == [subject |-> subject, prev |-> prev, level |-> level, at |-> at]
  <2>1. prev \in Levels \cup {0}
    <3>1. CASE earlier = {}
      BY <3>1
    <3>2. CASE earlier # {}
      <4>1. earlier \in SUBSET Nat /\ \A i \in earlier : i <= Len(transitions)
        BY RowFacts
      <4>2. \E i \in earlier : \A j \in earlier : i >= j
        BY <3>2, <4>1, GreatestNumber, RowFacts
      <4>3. Max(earlier) \in earlier
        BY <4>2 DEF Max
      <4>4. transitions[Max(earlier)] \in TransitionRows
        BY <4>3, RowFacts
      <4>. QED
        BY <3>2, <4>4 DEF TransitionRows
    <3>. QED
      BY <3>1, <3>2
  <2>. HIDE DEF prev
  <2>2. t \in TransitionRows
    <3>1. at \in 0..MaxNow
      BY DeliveryConstants
    <3>. QED
      BY <2>1, <3>1 DEF TransitionRows
  <2>3. transitions' = Append(transitions, t) /\ UNCHANGED <<now, latest, dag>>
    BY <1>2 DEF Transition, prev
  <2>. HIDE DEF t
  <2>4. transitions' \in Seq(TransitionRows)
    BY <2>2, <2>3
  <2>. QED
    BY <2>3, <2>4
<1>3. ASSUME NEW r \in Rules, NEW bad \in BOOLEAN, NewDay(r, bad) PROVE FeedType'
  <2>1. latest[r].day + 1 \in Nat /\ now \in Nat
    BY DeliveryConstants
  <2>2. latest' = [latest EXCEPT ![r] = [day |-> latest[r].day + 1, bad |-> bad, since |-> now]]
    BY <1>3 DEF NewDay
  <2>3. latest' \in [Rules -> [day : Nat, bad : BOOLEAN, since : Nat]]
    BY <2>1, <2>2
  <2>. QED
    BY <1>3, <2>3 DEF NewDay
<1>. QED
  BY <1>1, <1>2, <1>3 DEF DeliveryNext, Trigger, Start, Read, ReadMarket, ReadQuality, Send, SendMuted, Record, Break, RecordLate

LEMMA CurrentStep ==
  ASSUME DeliveryType, DatesInv, DeliveryNext
  PROVE  CurrentType'
<1>. USE DEF DeliveryType, CurrentType
<1>1. MessageOf(<<>>)
  BY EmptyMessage
<1>2. \A c, p, n, f, b :
        Shape(c, p, n, f, b) /\ p \in Phases /\ n \in Nat /\ MessageOf(f) /\ b \in BOOLEAN => RunOK(c)
  BY DEF Shape, RunOK
<1>3. {"idle", "read", "send", "record"} = Phases /\ current.tries \in Nat /\ current.tries + 1 \in Nat
      /\ MessageOf(current.fired) /\ current.partial \in BOOLEAN /\ FALSE \in BOOLEAN
  BY DEF Phases, RunOK
<1>4. due' \in BOOLEAN
  BY DEF DeliveryNext, Tick, Transition, NewDay, Trigger, Start, Read, ReadMarket, ReadQuality, Send, SendMuted, Record,
         Break, RecordLate, work
<1>5. ASSUME NEW fired, NEW partial \in BOOLEAN, MessageOf(fired), Read(fired, partial) PROVE RunOK(current')
  <2>1. \/ Shape(current', "idle", 0, <<>>, FALSE)
        \/ Shape(current', "send", current.tries, fired, partial)
    BY <1>5, RunEffects
  <2>. QED
    BY <1>1, <1>2, <1>3, <1>5, <2>1
<1>6. ReadMarket => RunOK(current')
  BY <1>5, MarketMessage DEF ReadMarket
<1>7. ASSUME NEW failing \in SUBSET Rules, ReadQuality(failing) PROVE RunOK(current')
  BY <1>5, <1>7, QualityMessage DEF ReadQuality
<1>8. Start \/ Record => RunOK(current')
  BY <1>1, <1>2, <1>3, RunEffects
<1>9. Send \/ SendMuted => RunOK(current')
  BY <1>2, <1>3, RunEffects
<1>10. Break => RunOK(current')
  BY <1>1, <1>2, <1>3, RunEffects
<1>11. UNCHANGED current => RunOK(current')
  OBVIOUS
<1>. QED
  BY <1>4, <1>6, <1>7, <1>8, <1>9, <1>10, <1>11 DEF DeliveryNext, Tick, Transition, NewDay, Trigger, RecordLate, work

LEMMA TableStep ==
  ASSUME DeliveryType, DatesInv, DeliveryNext
  PROVE  TableType'
<1>. USE DEF DeliveryType, TableType, told, work
<1>r. Range(current.fired) \subseteq Keys
  BY MessageFacts DEF CurrentType, RunOK
<1>3. ASSUME NEW r \in Rules, NEW bad \in BOOLEAN, NewDay(r, bad) PROVE TableType'
  BY <1>3, KeyOfRule DEF NewDay
<1>9. CASE Send
  <2>1. \A k \in Keys : shown[k] + Cardinality(Entries(current.fired, k)) \in Nat
    BY EntryCount DEF CurrentType, RunOK
  <2>. QED
    BY <1>9, <1>r, <2>1 DEF Send
<1>10. CASE SendMuted
  BY <1>10, <1>r DEF SendMuted
<1>11. CASE Record
  BY <1>11, <1>r DEF Record
<1>12. CASE Break
  <2>1. \A fired \in late' : MessageOf(fired)
    BY <1>12 DEF Break, CurrentType, RunOK
  <2>. QED
    BY <1>12, <2>1 DEF Break
<1>13. ASSUME NEW fired \in late, RecordLate(fired) PROVE TableType'
  BY <1>13, MessageFacts DEF RecordLate
<1>. QED
  BY <1>3, <1>9, <1>10, <1>11, <1>12, <1>13 DEF DeliveryNext, Tick, Transition, Trigger, Start, Read, ReadMarket, ReadQuality

LEMMA DeliveryCountStep ==
  ASSUME DeliveryType, DeliveryNext
  PROVE  CountType'
<1>. USE DEF DeliveryType, CountType, told, work
<1>1. ASSUME NEW fired, NEW partial, Read(fired, partial) PROVE CountType'
  BY <1>1 DEF Read, InARow
<1>2. Break => CountType'
  BY DEF Break
<1>3. Record => CountType'
  BY DEF Record, InARow
<1>4. SendMuted => CountType'
  BY DEF SendMuted
<1>. QED
  BY <1>1, <1>2, <1>3, <1>4 DEF DeliveryNext, Tick, Transition, NewDay, Trigger, Start, ReadMarket, ReadQuality, Send, RecordLate

LEMMA DeliveryTypeStep ==
  ASSUME DeliveryType, DatesInv, DeliveryNext
  PROVE  DeliveryType'
BY FeedStep, CurrentStep, TableStep, DeliveryCountStep DEF DeliveryType

LEMMA DatesStep ==
  ASSUME DeliveryType, DatesInv, DeliveryNext
  PROVE  DatesInv'
<1>. USE DEF DatesInv, told, work
<1>0. now \in Nat
  BY DeliveryConstants DEF DeliveryType, FeedType
<1>1. CASE Tick
  <2>1. \A r \in Rules : latest[r].since \in Nat
    BY DEF DeliveryType, FeedType
  <2>. QED
    BY <1>0, <1>1, <2>1, RowFacts DEF Tick
<1>2. ASSUME NEW subject \in Subjects, NEW level \in Levels, NEW at \in 0..now, Transition(subject, level, at)
      PROVE  DatesInv'
  <2>. DEFINE earlier == {i \in DOMAIN transitions : transitions[i].subject = subject}
              prev == IF earlier = {} THEN 0 ELSE transitions[Max(earlier)].level
              t == [subject |-> subject, prev |-> prev, level |-> level, at |-> at]
  <2>1. transitions' = Append(transitions, t) /\ UNCHANGED <<now, latest>>
    BY <1>2 DEF Transition
  <2>2. t.at = at /\ at <= now
    BY <1>0
  <2>. HIDE DEF t
  <2>3. \A i \in DOMAIN transitions' :
          IF i = Len(transitions) + 1
            THEN transitions'[i] = t
            ELSE i \in DOMAIN transitions /\ transitions'[i] = transitions[i]
    BY <2>1, AppendFacts
  <2>. QED
    BY <2>1, <2>2, <2>3
<1>3. ASSUME NEW r \in Rules, NEW bad \in BOOLEAN, NewDay(r, bad) PROVE DatesInv'
  <2>1. /\ latest[r].day \in Nat /\ latest[r].since \in Nat
        /\ latest[r].day * DAY <= latest[r].since /\ now >= latest[r].since + DAY
    BY <1>3 DEF NewDay, DeliveryType, FeedType
  <2>2. (latest[r].day + 1) * DAY <= now
    <3>. DEFINE d == latest[r].day
    <3>1. d \in Nat /\ d * DAY \in Nat /\ DAY \in Nat /\ (d + 1) * DAY = d * DAY + DAY
      BY <2>1, DeliveryConstants
    <3>. QED
      BY <1>0, <2>1, <3>1
  <2>3. latest' = [latest EXCEPT ![r] = [day |-> latest[r].day + 1, bad |-> bad, since |-> now]] /\ UNCHANGED <<now, transitions>>
    BY <1>3 DEF NewDay
  <2>4. \A q \in Rules : latest'[q] = IF q = r THEN [day |-> latest[r].day + 1, bad |-> bad, since |-> now] ELSE latest[q]
    BY <2>3 DEF DeliveryType, FeedType
  <2>5. \A q \in Rules : latest'[q].day * DAY <= latest'[q].since /\ latest'[q].since <= now
    BY <1>0, <2>2, <2>4
  <2>. QED
    BY <2>3, <2>5
<1>. QED
  BY <1>1, <1>2, <1>3 DEF DeliveryNext, Trigger, Start, Read, ReadMarket, ReadQuality, Send, SendMuted, Record, Break, RecordLate

LEMMA ToldStep ==
  ASSUME DeliveryType, ToldInv, DeliveryNext
  PROVE  ToldInv'
<1>. USE DEF ToldInv, Told, told, work
<1>0. Range(<<>>) = {}
  BY EmptyMessage
<1>1. CASE Start
  <2>1. current'.phase = "read"
    BY <1>1, RunEffects DEF Shape
  <2>. QED
    BY <1>1, <2>1 DEF Start
<1>2. ASSUME NEW fired, NEW partial, Read(fired, partial) PROVE ToldInv'
  <2>1. current'.phase # "record"
    BY <1>2, RunEffects DEF Shape
  <2>. QED
    BY <1>2, <2>1 DEF Read
<1>3. CASE Send
  <2>1. current'.fired = current.fired
    BY <1>3, RunEffects DEF Shape
  <2>2. MessageOf(current.fired) /\ Range(current.fired) \subseteq Keys
    BY MessageFacts DEF DeliveryType, CurrentType, RunOK
  <2>3. \A k \in Keys : shown[k] \in Nat /\ shown'[k] = shown[k] + Cardinality(Entries(current.fired, k))
    BY <1>3 DEF Send, DeliveryType, TableType
  <2>4. \A k \in Keys : Told(k) => Told(k)'
    BY <1>3, <2>2, <2>3, EntryCount DEF Send
  <2>5. \A k \in Range(current.fired) : Told(k)'
    BY <1>3, <2>2, <2>3, EntryCount DEF Send
  <2>6. \A f \in late : Range(f) \subseteq Keys
    BY MessageFacts DEF DeliveryType, TableType
  <2>7. recorded \subseteq Keys /\ UNCHANGED <<recorded, late>>
    BY <1>3 DEF Send, DeliveryType, TableType
  <2>. QED
    BY <2>1, <2>4, <2>5, <2>6, <2>7
<1>4. CASE SendMuted
  <2>1. current'.fired = current.fired
    BY <1>4, RunEffects DEF Shape
  <2>. QED
    BY <1>4, <2>1 DEF SendMuted
<1>5. CASE Record
  <2>1. current'.phase = "idle"
    BY <1>5, RunEffects DEF Shape
  <2>. QED
    BY <1>5, <2>1 DEF Record
<1>6. CASE Break
  <2>1. current'.phase # "record"
    BY <1>6, RunEffects DEF Shape
  <2>2. \A f \in late' : \A k \in Range(f) : Told(k)
    BY <1>6 DEF Break
  <2>. QED
    BY <1>6, <2>1, <2>2 DEF Break
<1>7. ASSUME NEW fired \in late, RecordLate(fired) PROVE ToldInv'
  BY <1>7 DEF RecordLate
<1>. QED
  BY <1>1, <1>2, <1>3, <1>4, <1>5, <1>6, <1>7 DEF DeliveryNext, Tick, Transition, NewDay, Trigger, ReadMarket, ReadQuality

LEMMA OnceStep ==
  ASSUME DeliveryType, DatesInv, OnceInv, DeliveryNext
  PROVE  OnceInv'
<1>. USE DEF OnceInv, told, work
<1>0. IsInjective(<<>>) /\ Range(<<>>) = {}
  BY EmptyMessage
<1>t. broken \in Nat /\ \A k \in Keys : shown[k] \in Nat
  BY DEF DeliveryType, TableType, CountType
<1>1. CASE Start
  <2>1. current'.phase = "read" /\ current'.fired = <<>>
    BY <1>1, RunEffects DEF Shape
  <2>. QED
    BY <1>0, <1>1, <2>1 DEF Start
<1>2. ASSUME NEW fired, NEW partial, Read(fired, partial), MessageOf(fired), IsInjective(fired), \A k \in Range(fired) : k \notin recorded
      PROVE  OnceInv'
  <2>1. \/ current'.phase = "idle" /\ current'.fired = <<>>
        \/ current'.phase = "send" /\ current'.fired = fired
    BY <1>2, RunEffects DEF Shape
  <2>2. current.phase = "read" /\ UNCHANGED <<shown, broken, recorded>>
    BY <1>2 DEF Read
  <2>3. Range(fired) \subseteq Keys
    BY <1>2, MessageFacts
  <2>. QED
    BY <1>0, <1>2, <2>1, <2>2, <2>3
<1>3. CASE Send
  <2>1. current'.phase = "record" /\ current'.fired = current.fired /\ current.phase = "send"
    BY <1>3, RunEffects DEF Shape, Send
  <2>2. MessageOf(current.fired) /\ Range(current.fired) \subseteq Keys
    BY MessageFacts DEF DeliveryType, CurrentType, RunOK
  <2>3. \A k \in Keys : shown'[k] = shown[k] + Cardinality(Entries(current.fired, k))
    BY <1>3 DEF Send, DeliveryType, TableType
  <2>4. UNCHANGED <<broken, recorded>>
    BY <1>3 DEF Send
  <2>5. \A k \in Keys : /\ Cardinality(Entries(current.fired, k)) \in 0..1
                        /\ k \notin Range(current.fired) => Cardinality(Entries(current.fired, k)) = 0
    BY <2>2, EntriesOnce
  <2>6. ASSUME NEW k \in Keys
        PROVE  /\ shown'[k] <= broken + 1
               /\ k \in recorded \/ shown'[k] <= broken \/ k \in Range(current.fired)
    <3>1. CASE k \in Range(current.fired)
      BY <1>t, <2>1, <2>3, <2>5, <3>1
    <3>2. CASE k \notin Range(current.fired)
      BY <1>t, <2>1, <2>3, <2>5, <3>2
    <3>. QED
      BY <3>1, <3>2
  <2>. QED
    BY <2>1, <2>4, <2>6
<1>4. CASE SendMuted
  <2>1. current'.phase = "record" /\ current'.fired = current.fired /\ current.phase = "send"
    BY <1>4, RunEffects DEF Shape, SendMuted
  <2>. QED
    BY <1>4, <2>1 DEF SendMuted
<1>5. CASE Record
  <2>1. current'.phase = "idle" /\ current'.fired = <<>>
    BY <1>5, RunEffects DEF Shape
  <2>. QED
    BY <1>0, <1>5, <2>1 DEF Record
<1>6. CASE Break
  <2>1. current'.phase \in {"idle", "read"} /\ current'.fired = <<>>
    BY <1>6, RunEffects DEF Shape
  <2>2. UNCHANGED <<recorded, shown>>
    BY <1>6 DEF Break
  <2>3. IF current.phase = "record" THEN broken' = broken + 1 ELSE broken' = broken
    BY <1>6 DEF Break
  <2>4. \A k \in Keys : shown[k] <= broken' + 1 /\ (k \in recorded \/ shown[k] <= broken')
    BY <1>t, <2>3
  <2>. QED
    BY <1>0, <2>1, <2>2, <2>4
<1>7. ASSUME NEW fired \in late, RecordLate(fired) PROVE OnceInv'
  BY <1>7 DEF RecordLate
<1>8. ReadMarket => OnceInv'
  BY <1>2, MarketMessage DEF ReadMarket
<1>9. ASSUME NEW failing \in SUBSET Rules, ReadQuality(failing) PROVE OnceInv'
  BY <1>2, <1>9, QualityMessage DEF ReadQuality
<1>. QED
  BY <1>1, <1>3, <1>4, <1>5, <1>6, <1>7, <1>8, <1>9 DEF DeliveryNext, Tick, Transition, NewDay, Trigger

LEMMA BaseStep == BaseInv /\ [DeliveryNext]_deliveryVars => BaseInv'
<1>. SUFFICES ASSUME BaseInv, [DeliveryNext]_deliveryVars PROVE BaseInv'
  OBVIOUS
<1>1. CASE DeliveryNext
  BY <1>1, DeliveryTypeStep, DatesStep, ToldStep, OnceStep DEF BaseInv
<1>2. CASE UNCHANGED deliveryVars
  BY <1>2 DEF BaseInv, DeliveryType, FeedType, CurrentType, TableType, CountType, DatesInv, ToldInv, Told, OnceInv,
             deliveryVars, work, told
<1>. QED
  BY <1>1, <1>2

\* However many attempts look at the same rows, a key is shown again only when an attempt
\* broke off behind its message.
THEOREM AgainOnlyWhenBroken == DeliverySpec => []ShownOnce
<1>1. BaseInv => ShownOnce
  <2>1. BaseInv => broken \in Nat
    BY DEF BaseInv, DeliveryType, CountType
  <2>. QED
    BY <2>1 DEF BaseInv, OnceInv, ShownOnce
<1>. QED
  BY <1>1, BaseInit, BaseStep, PTL DEF DeliverySpec

-----------------------------------------------------------------------------
(* Alert delivery: nothing leaves the view untold.                          *)

SlipInv == RowInv /\ MarketInv /\ QualityInv /\ MarketOnly

LEMMA SlipInit == DeliveryInit => SlipInv
<1>. SUFFICES ASSUME DeliveryInit PROVE SlipInv
  OBVIOUS
<1>. USE DEF DeliveryInit, Idle
<1>1. DOMAIN transitions = {} /\ due /\ ~Sent /\ RunToCome
  BY DEF Sent, RunToCome
<1>2. \A r \in Rules : latest[r].since = 0 /\ (dag = "market" => ~latest[r].bad)
  OBVIOUS
<1>3. (0 - 1) \div HOUR - 0 \div HOUR <= 0
  BY DeliveryConstants, DivMono, DivRange, 0 - 1 \in Int
<1>4. RowInv
  BY DeliveryConstants DEF RowInv
<1>. QED
  BY <1>1, <1>2, <1>3, <1>4 DEF SlipInv, MarketInv, QualityInv, MarketOnly, DayWaits

\* What has been dealt with stays so.
LEMMA DealtKept ==
  ASSUME DeliveryType, DeliveryNext, NEW k \in Keys, DealtWith(k)
  PROVE  DealtWith(k)'
<1>. USE DEF DealtWith, told, work
<1>1. shown[k] \in Nat
  BY DEF DeliveryType, TableType
<1>2. CASE Send
  <2>1. Cardinality(Entries(current.fired, k)) \in Nat
    BY EntryCount DEF DeliveryType, CurrentType, RunOK
  <2>. QED
    BY <1>1, <1>2, <2>1 DEF Send
<1>. QED
  BY <1>2 DEF DeliveryNext, Tick, Transition, NewDay, Trigger, Start, Read, ReadMarket, ReadQuality, SendMuted, Record, Break, RecordLate

\* What is in alert_events has been dealt with, and so has what a message told once it is.
LEMMA RecordedIsDealtWith ==
  ASSUME ToldInv, NEW k
  PROVE  /\ k \in recorded => DealtWith(k)
         /\ Record /\ k \in Range(current.fired) => DealtWith(k)'
<1>1. k \in recorded => DealtWith(k)
  BY DEF ToldInv, Told, DealtWith
<1>2. ASSUME Record, k \in Range(current.fired) PROVE DealtWith(k)'
  BY <1>2 DEF ToldInv, Told, DealtWith, Record
<1>. QED
  BY <1>1, <1>2

LEMMA RowStep ==
  ASSUME DeliveryType, RowInv, DeliveryNext
  PROVE  RowInv'
<1>. USE DEF RowInv, told, work
<1>0. inARow \in Nat /\ MaxInARow \in Nat
  BY DeliveryConstants DEF DeliveryType, CountType
<1>1. CASE Start
  BY <1>1, RunEffects DEF Shape, Start
<1>2. ASSUME NEW fired, NEW partial \in BOOLEAN, Read(fired, partial), partial => inARow < MaxInARow, dag = "market" => ~partial
      PROVE  RowInv'
  <2>1. \/ current'.partial = FALSE /\ inARow' = InARow(partial)
        \/ current'.partial = partial /\ inARow' = inARow
    BY <1>2, RunEffects DEF Shape, Read
  <2>2. InARow(partial) <= MaxInARow
    BY <1>0, <1>2 DEF InARow
  <2>. QED
    BY <1>2, <2>1, <2>2 DEF Read
<1>3. CASE Send
  BY <1>3, RunEffects DEF Shape, Send
<1>4. CASE SendMuted
  BY <1>4, RunEffects DEF Shape, SendMuted
<1>5. CASE Record
  <2>1. current'.partial = FALSE /\ inARow' = InARow(current.partial)
    BY <1>5, RunEffects DEF Shape, Record
  <2>2. InARow(current.partial) <= MaxInARow
    BY <1>0 DEF InARow
  <2>. QED
    BY <1>5, <2>1, <2>2 DEF Record
<1>6. CASE Break
  <2>1. current'.partial = FALSE
    BY <1>6, RunEffects DEF Shape
  <2>2. inARow' <= MaxInARow
    BY <1>0, <1>6 DEF Break
  <2>. QED
    BY <1>6, <2>1, <2>2 DEF Break
<1>7. CASE ReadMarket
  BY <1>2, <1>7 DEF ReadMarket
<1>8. ASSUME NEW failing \in SUBSET Rules, ReadQuality(failing) PROVE RowInv'
  BY <1>2, <1>8 DEF ReadQuality
<1>. QED
  BY <1>1, <1>3, <1>4, <1>5, <1>6, <1>7, <1>8 DEF DeliveryNext, Tick, Transition, NewDay, Trigger, RecordLate

LEMMA MarketOnlyStep ==
  ASSUME MarketOnly, DeliveryNext
  PROVE  MarketOnly'
BY DEF MarketOnly, DeliveryNext, Tick, Transition, NewDay, Trigger, Start, Read, ReadMarket, ReadQuality, Send, SendMuted,
       Record, Break, RecordLate, work, told

\* A promotion nobody has dealt with is still in view when a run reads.
LEMMA WaitingIsInView ==
  ASSUME Lateness + MaxInARow < Window, DeliveryType, RowInv,
         NEW t \in TransitionRows, RowWaits(t), Promoted(t)
  PROVE  InView(t)
<1>1. /\ now \in Nat /\ inARow \in Nat /\ Lateness \in Nat /\ MaxInARow \in Nat /\ Window \in Nat /\ t.at \in Int
      /\ inARow <= MaxInARow
  BY DeliveryConstants DEF DeliveryType, FeedType, CountType, RowInv, TransitionRows
<1>2. t.at >= now - Window
  BY <1>1 DEF RowWaits
<1>. QED
  BY <1>2 DEF InView, Promoted

\* No step makes a promotion wait longer than the failed runs say.
LEMMA WaitingStep ==
  ASSUME Lateness + MaxInARow < Window, DeliveryType, ToldInv, RowInv, DeliveryNext, dag = "market",
         NEW i \in DOMAIN transitions, NEW t, t = transitions[i],
         Promoted(t), RowWaits(t), ~DealtWith(MarketKey(t))'
  PROVE  RowWaits(t)'
<1>. DEFINE k == MarketKey(t)
<1>0. /\ now \in Nat /\ inARow \in Nat /\ Lateness \in Nat /\ MaxInARow \in Nat /\ Window \in Nat /\ t.at \in Nat
      /\ t \in TransitionRows /\ k \in Keys
  BY DeliveryConstants, RowFacts DEF DeliveryType, FeedType, CountType
<1>1. ~DealtWith(k)
  BY <1>0, DealtKept
<1>. USE DEF RowWaits, told, work
<1>2. CASE Tick
  <2>1. ~RunToCome /\ now' = now + 1 /\ UNCHANGED inARow /\ current'.phase = "idle"
    BY <1>2 DEF Tick, RunToCome
  <2>2. RunToCome' /\ ~Sent'
    BY <1>2, <2>1 DEF Tick, Sent, RunToCome
  <2>3. now' - t.at - Lateness <= inARow' + 1
    BY <1>0, <2>1
  <2>. QED
    BY <2>2, <2>3
<1>3. CASE Start
  <2>1. current'.phase = "read"
    BY <1>3, RunEffects DEF Shape
  <2>. QED
    BY <1>0, <1>3, <2>1 DEF Start, Sent, RunToCome
<1>4. CASE ReadMarket
  <2>1. PICK fired \in MarketMessages : Read(fired, FALSE)
    BY <1>4 DEF ReadMarket
  <2>2. k \in Range(fired)
    <3>1. InView(t)
      BY <1>0, WaitingIsInView
    <3>2. k \in recorded \cup Range(fired)
      BY <2>1, <3>1, MarketMessage
    <3>. QED
      BY <1>1, <3>2, RecordedIsDealtWith
  <2>3. fired # <<>>
    BY <2>2, EmptyMessage
  <2>4. current'.phase = "send" /\ current'.fired = fired
    BY <2>1, <2>3, RunEffects DEF Shape
  <2>5. UNCHANGED <<now, inARow>> /\ RunToCome'
    BY <2>1, <2>3, <2>4 DEF Read, RunToCome
  <2>. QED
    BY <1>0, <2>2, <2>4, <2>5
<1>5. CASE Send \/ SendMuted
  <2>1. current'.phase = "record" /\ current'.fired = current.fired /\ current.phase = "send"
    BY <1>5, RunEffects DEF Shape, Send, SendMuted
  <2>2. UNCHANGED <<now, inARow, due>>
    BY <1>5 DEF Send, SendMuted
  <2>. QED
    BY <1>0, <2>1, <2>2 DEF Sent, RunToCome
<1>6. CASE Record
  <2>1. k \notin Range(current.fired)
    BY <1>6, RecordedIsDealtWith
  <2>2. now - t.at <= Lateness
    BY <1>6, <2>1 DEF Record, Sent
  <2>3. current'.phase = "idle" /\ inARow' \in Nat /\ UNCHANGED now
    BY <1>0, <1>6, RunEffects DEF Shape, Record, InARow
  <2>. QED
    BY <1>0, <2>2, <2>3 DEF Sent
<1>7. CASE Break
  <2>1. CASE current.tries < Retries
    <3>1. current'.phase = "read" /\ UNCHANGED <<now, inARow>>
      BY <1>7, <2>1, RunEffects DEF Shape, Break
    <3>. QED
      BY <1>0, <3>1 DEF Sent, RunToCome
  <2>2. CASE ~(current.tries < Retries)
    <3>1. current'.phase = "idle" /\ inARow' = inARow + 1 /\ UNCHANGED now
      BY <1>7, <2>2, RunEffects DEF Shape, Break
    <3>. QED
      BY <1>0, <3>1 DEF Sent
  <2>. QED
    BY <2>1, <2>2
<1>8. CASE UNCHANGED <<now, inARow, current, due>>
  BY <1>8 DEF Sent, RunToCome
<1>. QED
  BY <1>2, <1>3, <1>4, <1>5, <1>6, <1>7, <1>8
     DEF DeliveryNext, Transition, NewDay, Trigger, ReadQuality, RecordLate

LEMMA MarketStep ==
  ASSUME Lateness + MaxInARow < Window, BaseInv, SlipInv, DeliveryNext
  PROVE  MarketInv'
<1>0. /\ DeliveryType /\ ToldInv /\ MarketInv /\ RowInv
      /\ now \in Nat /\ inARow \in Nat /\ Lateness \in Nat
  BY DeliveryConstants DEF BaseInv, SlipInv, DeliveryType, FeedType, CountType
<1>1. dag' = dag
  BY DEF DeliveryNext, Tick, Transition, NewDay, Trigger, Start, Read, ReadMarket, ReadQuality, Send, SendMuted,
         Record, Break, RecordLate, work
<1>2. ASSUME dag = "market", NEW i \in DOMAIN transitions, NEW t, t = transitions[i], Promoted(t), ~DealtWith(MarketKey(t))'
      PROVE  RowWaits(t)'
  <2>1. MarketKey(t) \in Keys
    BY <1>0, <1>2, RowFacts
  <2>2. ~DealtWith(MarketKey(t))
    BY <1>0, <1>2, <2>1, DealtKept
  <2>3. RowWaits(t)
    BY <1>0, <1>2, <2>2 DEF MarketInv
  <2>. QED
    BY <1>0, <1>2, <2>3, WaitingStep
<1>3. CASE UNCHANGED transitions
  <2>1. ASSUME dag = "market", NEW i \in DOMAIN transitions', NEW t, t = transitions'[i], Promoted(t), ~DealtWith(MarketKey(t))'
        PROVE  RowWaits(t)'
    BY <1>2, <1>3, <2>1
  <2>. QED
    BY <1>1, <2>1 DEF MarketInv, Promoted, RowWaits, DealtWith, MarketKey, Sent, RunToCome
<1>4. ASSUME NEW subject \in Subjects, NEW level \in Levels, NEW at \in 0..now, Transition(subject, level, at)
      PROVE  MarketInv'
  <2>. DEFINE earlier == {n \in DOMAIN transitions : transitions[n].subject = subject}
              prev == IF earlier = {} THEN 0 ELSE transitions[Max(earlier)].level
              u == [subject |-> subject, prev |-> prev, level |-> level, at |-> at]
  <2>1. transitions' = Append(transitions, u) /\ UNCHANGED <<now, inARow, current, due>> /\ at >= now - Lateness
    BY <1>4 DEF Transition, work
  <2>2. u.at = at
    OBVIOUS
  <2>. HIDE DEF u
  <2>3. ASSUME NEW i \in DOMAIN transitions', NEW t, t = transitions'[i]
        PROVE  t = u \/ (i \in DOMAIN transitions /\ t = transitions[i])
    BY <1>0, <2>1, <2>3, AppendFacts
  <2>4. \A t : t = u => RowWaits(t)'
    BY <1>0, <2>1, <2>2 DEF RowWaits, Sent, RunToCome
  <2>5. ASSUME dag = "market", NEW i \in DOMAIN transitions', NEW t, t = transitions'[i], Promoted(t), ~DealtWith(MarketKey(t))'
        PROVE  RowWaits(t)'
    BY <1>2, <2>3, <2>4, <2>5
  <2>. QED
    BY <1>1, <2>5 DEF MarketInv, Promoted, RowWaits, DealtWith, MarketKey, Sent, RunToCome
<1>. QED
  BY <1>3, <1>4 DEF DeliveryNext, Tick, NewDay, Trigger, Start, Read, ReadMarket, ReadQuality, Send, SendMuted, Record, Break,
                    RecordLate

\* A day is not replaced before the runs of a day have seen it.
LEMMA DayIsLongEnough ==
  ASSUME (MaxInARow + 1) * HOUR < DAY, NEW since \in Nat, NEW n \in Nat, n >= since + DAY
  PROVE  (n - 1) \div HOUR - since \div HOUR > MaxInARow
<1>1. MaxInARow + 1 \in Nat /\ HOUR \in Nat \ {0} /\ DAY \in Nat /\ (MaxInARow + 1) * HOUR \in Nat
  BY DeliveryConstants
<1>2. since + (MaxInARow + 1) * HOUR <= n - 1
  BY <1>1
<1>3. (since \div HOUR) + (MaxInARow + 1) <= (n - 1) \div HOUR
  <2>. DEFINE m == MaxInARow + 1
              x == n - 1
  <2>1. m \in Nat /\ x \in Int /\ since \in Int /\ since + m * HOUR <= x
    BY <1>1, <1>2
  <2>. HIDE DEF m, x
  <2>2. (since \div HOUR) + m <= x \div HOUR
    BY <1>1, <2>1, DivAhead
  <2>. QED
    BY <2>2 DEF m, x
<1>4. since \div HOUR \in Int /\ (n - 1) \div HOUR \in Int
  BY <1>1, DivRange, n - 1 \in Int
<1>. QED
  BY <1>3, <1>4, DeliveryConstants

\* The same of a bad day, whose runs are the hourly ones.
LEMMA DayWaitsStep ==
  ASSUME BaseInv, RowInv, MarketOnly, DeliveryNext,
         NEW r \in Rules, latest'[r] = latest[r], latest[r].bad,
         NEW k, k = QualityKey(r), ~DealtWith(k)', DayWaits(r)
  PROVE  DayWaits(r)'
<1>. USE DEF told, work
<1>. DEFINE since == latest[r].since
            a == (now - 1) \div HOUR
            b == now \div HOUR
            c == since \div HOUR
<1>0. /\ DeliveryType /\ DatesInv /\ ToldInv
      /\ now \in Nat /\ inARow \in Nat /\ since \in Nat /\ since <= now
      /\ k \in Keys
  BY DeliveryConstants, KeyOfRule DEF BaseInv, DeliveryType, FeedType, CountType, DatesInv
<1>1. a \in Int /\ b \in Int /\ c \in Int /\ a <= b /\ b <= a + 1
  <2>1. now - 1 \in Int /\ now - 1 + 1 = now /\ now - 1 <= now
    BY <1>0
  <2>2. a \in Int /\ b \in Int /\ c \in Int
    BY <1>0, <2>1, DivRange, DeliveryConstants
  <2>3. a <= b
    BY <1>0, <2>1, DivMono, DeliveryConstants
  <2>4. b <= a + 1
    BY <2>1, DivNext, DeliveryConstants
  <2>. QED
    BY <2>2, <2>3, <2>4
<1>2. ~DealtWith(k)
  BY <1>0, DealtKept
<1>3. QualityKey(r)' = k
  BY DEF QualityKey
<1>4. /\ a - c <= inARow
      /\ ~RunToCome => b - c <= inARow
      /\ Sent => k \in Range(current.fired) \/ current.partial \/ since = now
  BY DEF DayWaits
<1>5. SUFFICES /\ (now' - 1) \div HOUR - c <= inARow'
               /\ ~RunToCome' => now' \div HOUR - c <= inARow'
               /\ Sent' => k \in Range(current'.fired) \/ current'.partial \/ since = now'
  BY <1>3 DEF DayWaits
<1>6. CASE Tick
  <2>1. ~RunToCome /\ now' = now + 1 /\ now' - 1 = now /\ UNCHANGED <<inARow, current>> /\ current.phase = "idle"
    BY <1>0, <1>6 DEF Tick, RunToCome
  <2>2. ~Sent'
    BY <2>1 DEF Sent
  <2>3. ~RunToCome' => now' % HOUR # 0
    BY <1>6 DEF Tick, RunToCome
  <2>4. ~RunToCome' => now' \div HOUR = b
    <3>1. (now + 1) % HOUR # 0 => (now + 1) \div HOUR = now \div HOUR
      BY <1>0, DivNext, DeliveryConstants, now \in Int
    <3>. QED
      BY <2>1, <2>3, <3>1
  <2>. QED
    BY <1>4, <2>1, <2>2, <2>4
<1>. HIDE DEF a, b, c, since
<1>7. CASE Start
  <2>1. current'.phase = "read" /\ UNCHANGED <<now, inARow>>
    BY <1>7, RunEffects, <1>0 DEF Shape, Start
  <2>. QED
    BY <1>4, <2>1 DEF Sent, RunToCome, a
<1>8. ASSUME NEW failing \in SUBSET Rules, ReadQuality(failing)
      PROVE  /\ (now' - 1) \div HOUR - c <= inARow'
             /\ ~RunToCome' => now' \div HOUR - c <= inARow'
             /\ Sent' => k \in Range(current'.fired) \/ current'.partial \/ since = now'
  <2>. DEFINE partial == failing # {}
  <2>1. PICK fired \in QualityMessages(failing) : Read(fired, partial)
    BY <1>8 DEF ReadQuality
  <2>2. k \in Range(fired) \/ partial
    <3>1. CASE r \in failing
      BY <3>1
    <3>2. CASE r \notin failing
      <4>1. k \in recorded \cup Range(fired)
        BY <1>0, <2>1, <3>2, QualityMessage
      <4>. QED
        BY <1>0, <1>2, <4>1, RecordedIsDealtWith
    <3>. QED
      BY <3>1, <3>2
  <2>. HIDE DEF partial
  <2>3. UNCHANGED now
    BY <2>1 DEF Read
  <2>4. CASE fired = <<>>
    <3>1. partial
      BY <2>2, <2>4, EmptyMessage
    <3>2. inARow' = inARow + 1
      BY <2>1, <2>4, <3>1 DEF Read, InARow
    <3>3. ~Sent'
      BY <1>0, <2>1, <2>4, RunEffects DEF Shape, Sent
    <3>4. a - c <= inARow + 1 /\ b - c <= inARow + 1
      BY <1>0, <1>1, <1>4
    <3>. QED
      BY <2>3, <3>2, <3>3, <3>4 DEF a, b
  <2>5. CASE fired # <<>>
    <3>1. current'.phase = "send" /\ current'.fired = fired /\ current'.partial = partial
      BY <1>0, <2>1, <2>5, RunEffects DEF Shape
    <3>2. UNCHANGED inARow /\ RunToCome'
      BY <2>1, <2>5, <3>1 DEF Read, RunToCome
    <3>. QED
      BY <1>4, <2>2, <2>3, <3>1, <3>2 DEF a
  <2>. QED
    BY <2>4, <2>5
<1>9. CASE Send \/ SendMuted
  <2>1. /\ current'.phase = "record" /\ current'.fired = current.fired /\ current'.partial = current.partial
        /\ current.phase = "send"
    BY <1>0, <1>9, RunEffects DEF Shape, Send, SendMuted
  <2>2. UNCHANGED <<now, inARow, due>>
    BY <1>9 DEF Send, SendMuted
  <2>. QED
    BY <1>4, <2>1, <2>2 DEF Sent, RunToCome, a, b
<1>10. CASE Record
  <2>1. k \notin Range(current.fired)
    BY <1>0, <1>10, RecordedIsDealtWith
  <2>2. current.partial \/ since = now
    BY <1>4, <1>10, <2>1 DEF Record, Sent
  <2>3. current'.phase = "idle" /\ UNCHANGED now
    BY <1>0, <1>10, RunEffects DEF Shape, Record
  <2>4. CASE current.partial
    <3>1. inARow' = inARow + 1
      BY <1>10, <2>4 DEF Record, InARow
    <3>2. a - c <= inARow + 1 /\ b - c <= inARow + 1
      BY <1>0, <1>1, <1>4
    <3>. QED
      BY <2>3, <3>1, <3>2 DEF a, b, Sent
  <2>5. CASE ~current.partial
    <3>1. inARow' = 0
      BY <1>10, <2>5 DEF Record, InARow
    <3>2. c = b
      BY <2>2, <2>5 DEF b, c
    <3>3. a - c <= 0 /\ b - c <= 0
      BY <1>1, <3>2
    <3>. QED
      BY <2>3, <3>1, <3>3 DEF a, b, Sent
  <2>. QED
    BY <2>4, <2>5
<1>11. CASE Break
  <2>1. CASE current.tries < Retries
    <3>1. current'.phase = "read" /\ UNCHANGED <<now, inARow>>
      BY <1>0, <1>11, <2>1, RunEffects DEF Shape, Break
    <3>. QED
      BY <1>4, <3>1 DEF Sent, RunToCome, a
  <2>2. CASE ~(current.tries < Retries)
    <3>1. current'.phase = "idle" /\ inARow' = inARow + 1 /\ UNCHANGED now
      BY <1>0, <1>11, <2>2, RunEffects DEF Shape, Break
    <3>2. a - c <= inARow + 1 /\ b - c <= inARow + 1
      BY <1>0, <1>1, <1>4
    <3>. QED
      BY <3>1, <3>2 DEF a, b, Sent
  <2>. QED
    BY <2>1, <2>2
<1>12. CASE Trigger
  <2>1. RunToCome' /\ UNCHANGED <<now, inARow, current>>
    BY <1>12 DEF Trigger, RunToCome
  <2>. QED
    BY <1>4, <2>1 DEF Sent, a
<1>13. CASE UNCHANGED <<now, inARow, current, due>>
  BY <1>4, <1>13 DEF Sent, RunToCome, a, b
<1>14. ~ReadMarket
  BY DEF ReadMarket, MarketOnly
<1>. QED
  BY <1>6, <1>7, <1>8, <1>9, <1>10, <1>11, <1>12, <1>13, <1>14 DEF DeliveryNext, Transition, NewDay, RecordLate

LEMMA QualityStep ==
  ASSUME (MaxInARow + 1) * HOUR < DAY, BaseInv, SlipInv, DeliveryNext
  PROVE  QualityInv'
<1>. USE DEF told, work
<1>0. /\ DeliveryType /\ DatesInv /\ QualityInv /\ RowInv /\ MarketOnly
      /\ now \in Nat /\ inARow \in Nat /\ MaxInARow \in Nat
      /\ latest \in [Rules -> [day : Nat, bad : BOOLEAN, since : Nat]]
      /\ replaced \subseteq Keys
  BY DeliveryConstants DEF BaseInv, SlipInv, DeliveryType, FeedType, CountType, TableType
<1>1. \A k \in replaced : DealtWith(k)'
  BY <1>0, DealtKept DEF QualityInv
<1>2. ASSUME NEW r \in Rules, latest'[r] = latest[r], latest[r].bad, ~DealtWith(QualityKey(r))'
      PROVE  DayWaits(r)'
  <2>1. PICK k : k = QualityKey(r)
    OBVIOUS
  <2>2. QualityKey(r)' = k
    BY <1>2, <2>1 DEF QualityKey
  <2>3. ~DealtWith(k)'
    BY <1>2, <2>2 DEF DealtWith
  <2>4. k \in Keys
    BY <1>0, <2>1, KeyOfRule
  <2>5. ~DealtWith(QualityKey(r))
    BY <1>0, <2>1, <2>3, <2>4, DealtKept
  <2>6. DayWaits(r)
    BY <1>0, <1>2, <2>5 DEF QualityInv
  <2>. QED
    BY <1>0, <1>2, <2>1, <2>3, <2>6, DayWaitsStep
<1>3. CASE UNCHANGED <<latest, replaced>>
  BY <1>1, <1>2, <1>3 DEF QualityInv
<1>4. ASSUME NEW r \in Rules, NEW bad \in BOOLEAN, NewDay(r, bad) PROVE QualityInv'
  <2>1. /\ latest' = [latest EXCEPT ![r] = [day |-> latest[r].day + 1, bad |-> bad, since |-> now]]
        /\ UNCHANGED <<now, inARow, current, due, recorded, shown, muted>>
        /\ now >= latest[r].since + DAY
        /\ replaced' = IF latest[r].bad THEN replaced \cup {QualityKey(r)} ELSE replaced
    BY <1>4 DEF NewDay
  <2>2. latest[r].bad => DealtWith(QualityKey(r))
    <3>1. SUFFICES ASSUME latest[r].bad, ~DealtWith(QualityKey(r)) PROVE FALSE
      OBVIOUS
    <3>2. (now - 1) \div HOUR - latest[r].since \div HOUR <= inARow
      BY <1>0, <3>1 DEF QualityInv, DayWaits
    <3>3. (now - 1) \div HOUR - latest[r].since \div HOUR > MaxInARow
      BY <1>0, <2>1, DayIsLongEnough
    <3>4. (now - 1) \div HOUR \in Int /\ latest[r].since \div HOUR \in Int /\ inARow <= MaxInARow
      BY <1>0, DivRange, DeliveryConstants, now - 1 \in Int DEF RowInv
    <3>. QED
      BY <1>0, <3>2, <3>3, <3>4
  <2>3. \A k \in replaced' : DealtWith(k)'
    BY <1>1, <2>1, <2>2 DEF DealtWith
  <2>4. DayWaits(r)'
    <3>1. latest'[r].since = now
      BY <1>0, <2>1
    <3>2. (now - 1) \div HOUR <= now \div HOUR /\ (now - 1) \div HOUR \in Int /\ now \div HOUR \in Int
      BY <1>0, DivMono, DivRange, DeliveryConstants, now - 1 \in Int, now - 1 <= now
    <3>3. (now - 1) \div HOUR - now \div HOUR <= inARow /\ now \div HOUR - now \div HOUR <= inARow
      BY <1>0, <3>2
    <3>. QED
      BY <2>1, <3>1, <3>3 DEF DayWaits
  <2>5. \A q \in Rules : q # r => latest'[q] = latest[q]
    BY <1>0, <2>1
  <2>. QED
    BY <1>2, <2>3, <2>4, <2>5 DEF QualityInv
<1>. QED
  BY <1>3, <1>4 DEF DeliveryNext, Tick, Transition, Trigger, Start, Read, ReadMarket, ReadQuality, Send, SendMuted, Record, Break,
                    RecordLate

\* The look-back outlasts lateness and failed runs, and a day its hourly runs.
NothingOutlastsTheView == Lateness + MaxInARow < Window /\ (MaxInARow + 1) * HOUR < DAY

LEMMA SlipStep ==
  ASSUME NothingOutlastsTheView
  PROVE  BaseInv /\ SlipInv /\ [DeliveryNext]_deliveryVars => SlipInv'
<1>. SUFFICES ASSUME BaseInv, SlipInv, [DeliveryNext]_deliveryVars PROVE SlipInv'
  OBVIOUS
<1>1. CASE DeliveryNext
  BY <1>1, RowStep, MarketStep, QualityStep, MarketOnlyStep DEF SlipInv, BaseInv, NothingOutlastsTheView
<1>2. CASE UNCHANGED deliveryVars
  BY <1>2 DEF SlipInv, RowInv, MarketInv, RowWaits, QualityInv, DayWaits, MarketOnly, Sent, RunToCome, DealtWith, QualityKey,
              deliveryVars, work, told
<1>. QED
  BY <1>1, <1>2

LEMMA SlipCheck ==
  ASSUME NothingOutlastsTheView
  PROVE  BaseInv /\ SlipInv => NothingSlips
<1>. SUFFICES ASSUME BaseInv, SlipInv PROVE NothingSlips
  OBVIOUS
<1>1. /\ DeliveryType /\ MarketInv /\ QualityInv /\ RowInv
      /\ now \in Nat /\ inARow \in Nat /\ Lateness \in Nat /\ MaxInARow \in Nat /\ Window \in Nat
  BY DeliveryConstants DEF BaseInv, SlipInv, DeliveryType, FeedType, CountType
<1>2. ASSUME NEW i \in DOMAIN transitions, Promoted(transitions[i]), transitions[i].at < now - Window
      PROVE  DealtWith(MarketKey(transitions[i]))
  <2>1. dag = "market"
    BY <1>1, <1>2 DEF RowInv, DeliveryType, FeedType
  <2>2. SUFFICES ASSUME ~DealtWith(MarketKey(transitions[i])) PROVE FALSE
    OBVIOUS
  <2>3. RowWaits(transitions[i])
    BY <1>1, <1>2, <2>1, <2>2 DEF MarketInv
  <2>4. InView(transitions[i])
    BY <1>1, <1>2, <2>3, RowFacts, WaitingIsInView DEF NothingOutlastsTheView
  <2>. QED
    BY <1>1, <1>2, <2>4, RowFacts DEF InView
<1>. QED
  BY <1>1, <1>2 DEF NothingSlips, QualityInv, Promoted

\* What leaves the view of a DAG has been dealt with: a promotion because the look-back is
\* longer than a late row and the failed runs in a row together, a bad day because more
\* hourly runs see it than may fail in a row.
THEOREM NothingOutOfView ==
  ASSUME NothingOutlastsTheView
  PROVE  DeliverySpec => []NothingSlips
<1>1. DeliveryInit => BaseInv /\ SlipInv
  BY BaseInit, SlipInit
<1>2. BaseInv /\ SlipInv /\ [DeliveryNext]_deliveryVars => (BaseInv /\ SlipInv)'
  BY BaseStep, SlipStep
<1>3. BaseInv /\ SlipInv => NothingSlips
  BY SlipCheck
<1>. QED
  BY <1>1, <1>2, <1>3, PTL DEF DeliverySpec

---------------------------------------------------------------------------
(* The health check: a run that says nothing has repaired nothing.          *)

Results == Final \cup {"todo", "retry"}

\* What is restarted was not in order when it was asked, and the verdict of the check tells.
QuietInv ==
  /\ result \in [Checks -> Results]
  /\ touched \subseteq unwell
  /\ ConnectCheck \notin Checks => touched = {}
  /\ ConnectCheck \in Checks /\ result[ConnectCheck] = "ok" => unwell = {}
  /\ phase = "healthy" => \A c \in Checks : result[c] = "ok"

\* The steps of the pipeline leave a run alone; a run ends by none but its own.
LEMMA PipelineSteps ==
  ASSUME HealthNext, ~Run, ~Killed
  PROVE  RunUnchanged
<1>1. CASE Recover
  BY <1>1 DEF Recover, OutageEnds, ProducerStarts, JobStarts, RunUnchanged
<1>2. CASE Time
  BY <1>2 DEF Time, RunUnchanged
<1>3. CASE \E k \in Connectors, c \in {"failed", "unassigned", "ghost"} : ConnectorBreaks(k, c)
  BY <1>3 DEF ConnectorBreaks, RunUnchanged
<1>4. CASE \E s \in Services : Outage(s)
  BY <1>4 DEF Outage, RunUnchanged
<1>5. CASE ProducerStops \/ JobFails \/ ParseFailure
  BY <1>5 DEF ProducerStops, JobFails, ParseFailure, RunUnchanged
<1>. QED
  BY <1>1, <1>2, <1>3, <1>4, <1>5 DEF HealthNext

LEMMA QuietInit == HealthInit => QuietInv
  BY DEF HealthInit, QuietInv, Results

LEMMA QuietStep == QuietInv /\ [HealthNext]_healthVars => QuietInv'
<1>. SUFFICES ASSUME QuietInv, [HealthNext]_healthVars
             PROVE  QuietInv'
  OBVIOUS
<1>1. CASE UNCHANGED healthVars
  BY <1>1 DEF healthVars, checking, alarms, QuietInv
<1>2. CASE HealthNext /\ ~Run /\ ~Killed
  BY <1>2, PipelineSteps DEF RunUnchanged, checking, QuietInv
<1>3. CASE Killed
  BY <1>3 DEF Killed, checking, alarms, QuietInv
<1>4. CASE StartRun
  BY <1>4 DEF StartRun, QuietInv, Results
<1>5. ASSUME NEW c \in Checks \ {ConnectCheck, ParseCheck}, Check(c)
      PROVE  QuietInv'
  BY <1>5 DEF Check, Ready, Verdict, alarms, QuietInv, Results, Final
<1>6. ASSUME NEW c \in Checks \ {ConnectCheck}, CheckRaises(c)
      PROVE  QuietInv'
  BY <1>6 DEF CheckRaises, Ready, alarms, QuietInv, Results, Final
<1>7. CASE CheckParse
  BY <1>7 DEF CheckParse, Ready, Verdict, QuietInv, Results, Final, ParseCheck, ConnectCheck
\* A connector is only asked before there is a verdict.
<1>8. ASSUME ConnectCheck \in Checks, NEW k \in Connectors, AskConnector(k)
      PROVE  QuietInv'
  <2>1. touched' \subseteq unwell' /\ UNCHANGED <<phase, result>>
    BY <1>8 DEF AskConnector, QuietInv
  <2>2. result[ConnectCheck] # "ok"
    BY <1>8 DEF AskConnector, Ready
  <2>. QED
    BY <1>8, <2>1, <2>2 DEF QuietInv
<1>9. CASE CheckConnect
  BY <1>9 DEF CheckConnect, Ready, ConnectVerdict, Verdict, alarms, QuietInv, Results, Final
<1>10. CASE Skip
  BY <1>10 DEF Skip, checking, alarms, QuietInv
<1>11. CASE Evaluate
  BY <1>11 DEF Evaluate, checking, alarms, QuietInv
<1>12. CASE RecordEvents \/ RecordIncidents \/ EndRun
  BY <1>12 DEF RecordEvents, RecordIncidents, EndRun, checking, alarms, QuietInv
<1>. QED
  BY <1>1, <1>2, <1>3, <1>4, <1>5, <1>6, <1>7, <1>8, <1>9, <1>10, <1>11, <1>12 DEF Run

\* A run that finds everything in order has restarted no connector (QuietMeansUntouched):
\* the verdict of check_kafka_connect is of the states before its own repairs.
THEOREM QuietRunsRepairNothing == HealthSpec => []QuietMeansUntouched
<1>1. QuietInv => QuietMeansUntouched
  <2>. SUFFICES ASSUME QuietInv, phase = "healthy"
               PROVE  touched = {}
    BY DEF QuietMeansUntouched
  <2>. QED
    BY DEF QuietInv
<1>. QED
  BY <1>1, QuietInit, QuietStep, PTL DEF HealthSpec

-----------------------------------------------------------------------------
(* The health check: new failures to parse.                                 *)

\* The count is that of the last reading and what has come since, but for a job that has
\* started again: then it has no more than what has come since.
ReadingInv ==
  /\ counter \in Nat /\ fresh \in Nat
  /\ reading \in Nat \cup {NONE}
  /\ reading # NONE /\ ~reset => counter = reading + fresh
  /\ reset => counter <= fresh

LEMMA NoneIsNoCount == NONE \notin Nat
  BY HealthAssumption

LEMMA ReadingInit == HealthInit => ReadingInv
  BY NoneIsNoCount DEF HealthInit, ReadingInv

LEMMA ReadingStep == ReadingInv /\ [HealthNext]_healthVars => ReadingInv'
<1>. SUFFICES ASSUME ReadingInv, [HealthNext]_healthVars
             PROVE  ReadingInv'
  OBVIOUS
<1>1. CASE UNCHANGED <<counter, fresh, reset, reading>>
  BY <1>1 DEF ReadingInv
<1>2. CASE JobStarts
  BY <1>2 DEF JobStarts, RunUnchanged, checking, ReadingInv
<1>3. CASE ParseFailure
  BY <1>3 DEF ParseFailure, RunUnchanged, checking, ReadingInv
<1>4. CASE CheckParse
  BY <1>4, NoneIsNoCount DEF CheckParse, world, ReadingInv
<1>5. ASSUME ~JobStarts, ~ParseFailure, ~CheckParse
      PROVE  UNCHANGED <<counter, fresh, reset, reading>>
  <2>1. CASE UNCHANGED healthVars
    BY <2>1 DEF healthVars, world, checking, alarms
  <2>2. CASE \E s \in down : OutageEnds(s)
    BY <2>2 DEF OutageEnds, RunUnchanged, checking
  <2>3. CASE ProducerStarts \/ ProducerStops \/ JobFails \/ Time
    BY <2>3 DEF ProducerStarts, ProducerStops, JobFails, Time, RunUnchanged, checking
  <2>4. CASE \E k \in Connectors, c \in {"failed", "unassigned", "ghost"} : ConnectorBreaks(k, c)
    BY <2>4 DEF ConnectorBreaks, RunUnchanged, checking
  <2>5. CASE \E s \in Services : Outage(s)
    BY <2>5 DEF Outage, RunUnchanged, checking
  <2>6. CASE Killed
    BY <2>6 DEF Killed, world, checking, alarms
  <2>7. CASE StartRun
    BY <2>7 DEF StartRun, world
  <2>8. CASE \E c \in Checks : Check(c) \/ CheckRaises(c)
    BY <2>8 DEF Check, CheckRaises, world, alarms
  <2>9. CASE \E k \in Connectors : AskConnector(k)
    BY <2>9 DEF AskConnector
  <2>10. CASE CheckConnect
    BY <2>10 DEF CheckConnect, world, alarms
  <2>11. CASE Skip \/ EndRun
    BY <2>11 DEF Skip, EndRun, world, checking, alarms
  <2>12. CASE Evaluate
    BY <2>12 DEF Evaluate, checking, alarms
  <2>13. CASE RecordEvents \/ RecordIncidents
    BY <2>13 DEF RecordEvents, RecordIncidents, world, checking, alarms
  <2>. QED
    BY <1>5, <2>1, <2>2, <2>3, <2>4, <2>5, <2>6, <2>7, <2>8, <2>9, <2>10, <2>11, <2>12, <2>13
    DEF HealthNext, Run, Recover
<1>. QED
  BY <1>1, <1>2, <1>3, <1>4, <1>5

\* No step but the reading itself gives the check of the failures to parse a verdict.
LEMMA VerdictIsOfReading ==
  ASSUME QuietInv, [HealthNext]_healthVars, ParseCheck \in Checks,
         result[ParseCheck] \notin Final, result'[ParseCheck] \in {"ok", "bad"}
  PROVE  CheckParse
<1>1. ASSUME UNCHANGED result
      PROVE  FALSE
  BY <1>1 DEF Final
<1>2. CASE UNCHANGED healthVars
  BY <1>1, <1>2 DEF healthVars, checking
<1>3. CASE HealthNext /\ ~Run
  BY <1>1, <1>3, PipelineSteps DEF RunUnchanged, Killed, checking
<1>4. CASE StartRun
  BY <1>4 DEF StartRun
<1>5. ASSUME NEW c \in Checks \ {ConnectCheck, ParseCheck}, Check(c)
      PROVE  FALSE
  BY <1>5 DEF Check, QuietInv, Final
<1>6. ASSUME NEW c \in Checks, CheckRaises(c)
      PROVE  FALSE
  <2>1. CASE c = ParseCheck
    BY <1>6, <2>1 DEF CheckRaises, QuietInv
  <2>2. CASE c # ParseCheck
    BY <1>6, <2>2 DEF CheckRaises, QuietInv, Final
  <2>. QED
    BY <2>1, <2>2
<1>7. CASE CheckConnect
  BY <1>7 DEF CheckConnect, QuietInv, Final, ParseCheck, ConnectCheck
<1>8. CASE \E k \in Connectors : AskConnector(k)
  BY <1>1, <1>8 DEF AskConnector
<1>9. CASE Skip \/ Evaluate \/ RecordEvents \/ RecordIncidents \/ EndRun
  BY <1>1, <1>9 DEF Skip, Evaluate, RecordEvents, RecordIncidents, EndRun, checking
<1>. QED
  BY <1>2, <1>3, <1>4, <1>5, <1>6, <1>7, <1>8, <1>9 DEF Run

LEMMA NewIsTold ==
  ASSUME QuietInv, ReadingInv, CheckParse
  PROVE  /\ result'[ParseCheck] = "bad" => fresh > 0
         /\ fresh > 0 /\ ~reset /\ reading # NONE /\ job => result'[ParseCheck] = "bad"
<1>. DEFINE cur == IF job THEN counter ELSE NONE
<1>1. result'[ParseCheck] = Verdict(Grown(cur, reading))
  BY DEF CheckParse, QuietInv
<1>2. result'[ParseCheck] = "bad" <=> Grown(cur, reading)
  BY <1>1 DEF Verdict
<1>3. ASSUME Grown(cur, reading)
      PROVE  fresh > 0
  <2>1. cur = counter /\ reading \in Nat /\ counter > reading
    BY <1>3, NoneIsNoCount DEF Grown, ReadingInv
  <2>. QED
    BY <2>1, NoneIsNoCount DEF ReadingInv
<1>4. ASSUME fresh > 0, ~reset, reading # NONE, job
      PROVE  Grown(cur, reading)
  BY <1>4, NoneIsNoCount DEF Grown, ReadingInv
<1>. QED
  BY <1>2, <1>3, <1>4

\* The alarm for failures to parse is of new ones and, but across a start of the job, of
\* all of them (ParseAlarmIsNew): _evaluate_health compares with the reading before.
THEOREM OldFailuresStaySilent == HealthSpec => ParseAlarmIsNew
<1>1. QuietInv /\ ReadingInv /\ [HealthNext]_healthVars =>
        (result' # result /\ ParseCheck \in Checks /\ result[ParseCheck] \notin Final /\ result'[ParseCheck] \in {"ok", "bad"} =>
           /\ result'[ParseCheck] = "bad" => fresh > 0
           /\ fresh > 0 /\ ~reset /\ reading # NONE /\ job => result'[ParseCheck] = "bad")
  BY VerdictIsOfReading, NewIsTold
<1>. QED
  BY <1>1, QuietInit, QuietStep, ReadingInit, ReadingStep, PTL DEF HealthSpec, ParseAlarmIsNew
=============================================================================
