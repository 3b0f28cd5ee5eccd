---------------------------- MODULE BackupChain ----------------------------
(***************************************************************************)
(* airflow/dags/backup_daily.py: every day a backup of the tables, full or *)
(* incremental on the newest full one, and a Parquet file of the order     *)
(* books of the day before; then the local directory is copied to the      *)
(* remote host, old things are deleted there, then here, and a dry run of  *)
(* the copy verifies the result.                                           *)
(*                                                                         *)
(* What is stored is an item [kind, day, base].  An item may be torn: only *)
(* a part of it is there.  The copy goes on in the order of names, so full *)
(* backups come before incremental ones, and these before Parquet files.   *)
(* The network may break at any step; the copy then ends early and the     *)
(* task is green nevertheless, since its exit status is that of `tail`.    *)
(***************************************************************************)
EXTENDS Integers, FiniteSets, FiniteSetsExt

CONSTANTS
  MONTH,                      \* every so many days there is a first of the month
  PARQUET_KEEP_DAYS_LOCAL, INCR_KEEP_DAYS_LOCAL,
  PARQUET_KEEP_DAYS_REMOTE, FULL_KEEP_REMOTE,
  RETRIES,
  CutsPerRun,                 \* breaks of the network in one run
  MaxUnsynced,                \* days after which a copy has got through
  MaxDay, MaxFaults           \* bounds

ASSUME ParameterAssumption ==
  /\ {MONTH, FULL_KEEP_REMOTE} \subseteq Nat \ {0}
  /\ {PARQUET_KEEP_DAYS_LOCAL, INCR_KEEP_DAYS_LOCAL, PARQUET_KEEP_DAYS_REMOTE, RETRIES, CutsPerRun,
      MaxUnsynced, MaxDay, MaxFaults} \subseteq Nat

VARIABLES
  day,          \* data_interval_end of the run
  task,         \* what runs now, "idle" between the runs
  saving,       \* the two tasks a run begins with: "todo", "done" or "failed"
  tries,        \* failed attempts of each task at work
  local, remote,        \* items in the two directories
  tornLocal, torn,      \* those of them that are not whole
  green,        \* days whose run has ended well
  pruned,       \* history: items deleted locally that were whole
  reached,      \* history: items that have been whole on the remote host
  lastSync,     \* history: day of the last copy that was not cut
  cuts,         \* breaks of the network in this run
  faults

run == <<day, task, saving, tries>>
stores == <<local, remote, tornLocal, torn>>
history == <<green, pruned, reached, lastSync>>
vars == <<run, stores, history, cuts, faults>>

Full(d) == [kind |-> "full", day |-> d, base |-> d]
Incr(d, base) == [kind |-> "incr", day |-> d, base |-> base]
Parquet(d) == [kind |-> "parquet", day |-> d, base |-> d]

Fulls(items) == {x \in items : x.kind = "full"}
Newest(items) == Max({x.day : x \in items})
Rank(x) == CASE x.kind = "full" -> 0 [] x.kind = "incr" -> 1 [] x.kind = "parquet" -> 2
Precedes(x, y) == Rank(x) < Rank(y) \/ (x.kind = y.kind /\ x.day < y.day)

Saves == {"clickhouse_backup", "export_parquet"}
Tasks == Saves \cup {"retention", "verify"}

Init ==
  /\ day = 0
  /\ task = "idle"
  /\ saving = [t \in Saves |-> "todo"]
  /\ tries = [t \in Tasks |-> 0]
  /\ local = {} /\ remote = {} /\ tornLocal = {} /\ torn = {}
  /\ green = {} /\ pruned = {} /\ reached = {}
  /\ lastSync = 0
  /\ cuts = 0 /\ faults = 0

-----------------------------------------------------------------------------
(* Runs.                                                                    *)

\* Once a day.  Days without a copy that got through come only so many in a row.
NextDay ==
  /\ task = "idle"
  /\ day < MaxDay
  /\ day + 1 - lastSync <= MaxUnsynced
  /\ day' = day + 1
  /\ task' = "save"
  /\ saving' = [t \in Saves |-> "todo"]
  /\ tries' = [t \in Tasks |-> 0]
  /\ cuts' = 0
  /\ UNCHANGED <<stores, history, faults>>

Goto(next) == task' = next /\ UNCHANGED <<day, saving, tries>>

\* An attempt of t has failed: there is another one, or the task has failed.
Again(t) == tries[t] < RETRIES /\ tries' = [tries EXCEPT ![t] = @ + 1]
LastFails(t) == tries[t] = RETRIES /\ UNCHANGED tries

Fault == faults < MaxFaults /\ faults' = faults + 1 /\ UNCHANGED cuts
Cut == cuts < CutsPerRun /\ cuts' = cuts + 1 /\ faults < MaxFaults /\ faults' = faults + 1
NoFault == UNCHANGED <<cuts, faults>>

-----------------------------------------------------------------------------
(* Backup and export.                                                       *)

\* What today's backup is to be: full on the first of a month or without a full one.
Wanted ==
  IF day % MONTH = 0 \/ Fulls(local) = {} THEN Full(day) ELSE Incr(day, Newest(Fulls(local)))

\* A directory of that name is taken for the backup.
Exists == \E x \in local : x.kind = Wanted.kind /\ x.day = day
BaseUsable == Wanted.kind = "incr" => Full(Wanted.base) \notin tornLocal

Done(t) == task = "save" /\ saving[t] = "todo" /\ saving' = [saving EXCEPT ![t] = "done"] /\ UNCHANGED <<day, task, tries>>

SaveFails(t) ==
  /\ task = "save" /\ saving[t] = "todo"
  /\ \/ Again(t) /\ UNCHANGED saving
     \/ LastFails(t) /\ saving' = [saving EXCEPT ![t] = "failed"]
  /\ UNCHANGED <<day, task>>

clickhouse_backup ==
  /\ Exists \/ BaseUsable
  /\ local' = IF Exists THEN local ELSE local \cup {Wanted}
  /\ Done("clickhouse_backup")
  /\ UNCHANGED <<remote, tornLocal, torn, history>> /\ NoFault

\* The statement fails, or its client waits no longer; the directory may be left as it is.
BackupBreaks ==
  /\ ~Exists
  /\ IF BaseUsable THEN Fault ELSE NoFault
  /\ SaveFails("clickhouse_backup")
  /\ \/ UNCHANGED <<local, tornLocal>>
     \/ BaseUsable /\ local' = local \cup {Wanted} /\ tornLocal' = tornLocal \cup {Wanted}
  /\ UNCHANGED <<remote, torn, history>>

\* Written beside its name first and then renamed.
export_parquet ==
  /\ local' = local \cup {Parquet(day - 1)}
  /\ Done("export_parquet")
  /\ UNCHANGED <<remote, tornLocal, torn, history>> /\ NoFault

\* There are no order books of that day, or the query breaks off.
ExportBreaks ==
  /\ Fault
  /\ SaveFails("export_parquet")
  /\ UNCHANGED <<stores, history>>

\* The copy waits for both; without one of them the run has failed.
Saved ==
  /\ task = "save"
  /\ \A t \in Saves : saving[t] # "todo"
  /\ Goto(IF \E t \in Saves : saving[t] = "failed" THEN "idle" ELSE "sync")
  /\ UNCHANGED <<stores, history>> /\ NoFault

-----------------------------------------------------------------------------
(* The remote host.                                                         *)

\* Items on the remote host once some have been copied.
Copied(items) ==
  /\ remote' = remote \cup items
  /\ torn' = (torn \ items) \cup (tornLocal \cap items)
  /\ reached' = reached \cup (items \ tornLocal)

sync_to_oracle ==
  /\ task = "sync"
  /\ Copied(local)
  /\ lastSync' = day
  /\ Goto("fulls")
  /\ UNCHANGED <<local, tornLocal, green, pruned>> /\ NoFault

\* The network breaks at item x, before or while it is copied.
SyncCut(x) ==
  LET before == {y \in local : Precedes(y, x)} IN
  /\ task = "sync"
  /\ Cut
  /\ \/ Copied(before)
     \/ /\ x \notin remote
        /\ remote' = remote \cup before \cup {x}
        /\ torn' = (torn \ before) \cup (tornLocal \cap before) \cup {x}
        /\ reached' = reached \cup (before \ tornLocal)
  /\ Goto("fulls")
  /\ UNCHANGED <<local, tornLocal, green, pruned, lastSync>>

\* Variant with a plausible bug: the first of the full backups are kept.
KeptFirst(fulls) == {x \in fulls : Cardinality({y \in fulls : y.day < x.day}) < FULL_KEEP_REMOTE}

\* The last of the full backups.
Kept(fulls) == {x \in fulls : Cardinality({y \in fulls : y.day > x.day}) < FULL_KEEP_REMOTE}

Drop(items) == remote' = remote \ items /\ torn' = torn \ items

\* One command on the remote host: old Parquet files and full backups go first ...
apply_remote_retention ==
  /\ task = "fulls"
  /\ Drop({x \in remote : \/ x.kind = "parquet" /\ day - (x.day + 1) > PARQUET_KEEP_DAYS_REMOTE
                          \/ x \in Fulls(remote) \ Kept(Fulls(remote))})
  /\ Goto("incrs")
  /\ UNCHANGED <<local, tornLocal, history>> /\ NoFault

Outlived == {x \in remote : x.kind = "incr" /\ \A y \in Kept(Fulls(remote)) : x.day < y.day}

\* ... and then what is older than the oldest full backup that is kept.
prune_incrementals ==
  /\ task = "incrs"
  /\ Drop(IF Fulls(remote) = {} THEN {} ELSE Outlived)
  /\ Goto("prune")
  /\ UNCHANGED <<local, tornLocal, history>> /\ NoFault

\* The connection cannot be made or breaks between the two; the task begins again.
RetentionCut ==
  /\ task \in {"fulls", "incrs"}
  /\ Cut
  /\ \/ Again("retention") /\ task' = "fulls"
     \/ LastFails("retention") /\ task' = "idle"
  /\ UNCHANGED <<day, saving, stores, history>>

\* Variant with a plausible bug: only the newest incremental backup is kept.
ExpiredIncrs(items) ==
  {x \in items : \/ x.kind = "parquet" /\ day - (x.day + 1) > PARQUET_KEEP_DAYS_LOCAL
                 \/ \E y \in items : y.kind = x.kind /\ x.kind # "parquet" /\ x.day < y.day}

\* Old Parquet files and incremental backups, and all full ones but the newest.  The age
\* of a file is that of its making: a Parquet file is made the day after its own.
Expired(items) ==
  {x \in items : \/ x.kind = "parquet" /\ day - (x.day + 1) > PARQUET_KEEP_DAYS_LOCAL
                 \/ x.kind = "incr" /\ day - x.day > INCR_KEEP_DAYS_LOCAL
                 \/ x.kind = "full" /\ x.day < Newest(Fulls(items))}

prune_local ==
  /\ task = "prune"
  /\ local' = local \ Expired(local)
  /\ tornLocal' = tornLocal \ Expired(local)
  /\ pruned' = pruned \cup (Expired(local) \ tornLocal)
  /\ Goto("verify")
  /\ UNCHANGED <<remote, torn, green, reached, lastSync>> /\ NoFault

\* Variant with a plausible bug: only the names are compared.
PendingNames == local \ remote

\* What a dry run of the copy would transfer.
Pending == {x \in local : x \notin remote \/ (x \in torn /\ x \notin tornLocal)}

verify_remote ==
  /\ task = "verify"
  /\ \/ Pending = {} /\ task' = "idle" /\ green' = green \cup {day} /\ UNCHANGED tries
     \/ Pending # {} /\ Again("verify") /\ UNCHANGED <<task, green>>
     \/ Pending # {} /\ LastFails("verify") /\ task' = "idle" /\ UNCHANGED green
  /\ UNCHANGED <<day, saving, stores, pruned, reached, lastSync>> /\ NoFault

\* A dry run that cannot connect prints no file to transfer.
VerifyCut ==
  /\ task = "verify"
  /\ Cut
  /\ Goto("idle")
  /\ green' = green \cup {day}
  /\ UNCHANGED <<stores, pruned, reached, lastSync>>

-----------------------------------------------------------------------------
Next ==
  \/ NextDay
  \/ clickhouse_backup
  \/ BackupBreaks
  \/ export_parquet
  \/ ExportBreaks
  \/ Saved
  \/ sync_to_oracle
  \/ \E x \in local : SyncCut(x)
  \/ apply_remote_retention
  \/ prune_incrementals
  \/ RetentionCut
  \/ prune_local
  \/ verify_remote
  \/ VerifyCut

Spec == Init /\ [][Next]_vars

-----------------------------------------------------------------------------
(* Properties.                                                              *)

Whole == remote \ torn

\* Every incremental backup that is whole on the remote host, and not older than all full
\* ones there, can be restored: the full backup it is based on is there and whole, whatever
\* copies were cut and whatever has been deleted on either side.
IncrementalsHaveBase ==
  \A x \in Whole :
    x.kind = "incr" /\ (\E y \in Fulls(remote) : y.day <= x.day) => Full(x.base) \in Whole

\* Nothing is deleted locally that has never been whole on the remote host, as long as a
\* copy gets through before the local retention is over.
PrunedWasRemote == pruned \subseteq reached

\* A green run leaves a day that can be restored from the remote host alone, if its network
\* breaks at most once: the Parquet file is there, and the day's backup with its base, unless
\* that is a directory a broken-off BACKUP has left, which the run takes for a backup.
GreenMeansRestorable ==
  task = "idle" /\ day \in green =>
    /\ Parquet(day - 1) \in Whole
    /\ \E x \in local : /\ x.kind \in {"full", "incr"} /\ x.day = day
                        /\ x \in tornLocal \/ {x, Full(x.base)} \subseteq Whole
=============================================================================
