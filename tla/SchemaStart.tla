----------------------------- MODULE SchemaStart -----------------------------
(***************************************************************************)
(* core/migrations.py and the ProjectStore constructors that core/storage, *)
(* storage330, storage340 and storage360 chain: every process that opens a *)
(* workspace backs its database up, creates and migrates the tables, and   *)
(* puts the backup in its place if that fails.                             *)
(*                                                                         *)
(* A database is the set of versions whose tables exist, the versions      *)
(* schema_migrations records and the rows processes wrote.  Each file that *)
(* was ever at the path has a number: a connection stays with its file     *)
(* when another process unlinks it.                                        *)
(***************************************************************************)
EXTENDS Naturals, FiniteSets, FiniteSetsExt

CONSTANTS Processes,
          Versions,     \* of MIGRATIONS, and the baseline: the lowest
          Keep,         \* backups kept: 3
          MaxFiles,     \* bound: files ever created at the path
          MaxStarts,    \* bound: starts, each takes a backup
          MaxRows,      \* bound: rows ever written
          MaxFaults     \* bound: crashes, and errors of SQLite

\* Assumed by the modules that give the constants values.
SchemaAssumption ==
    /\ IsFiniteSet(Versions) /\ Versions \subseteq Nat /\ Versions # {}
    /\ Keep \in Nat \ {0}
    /\ MaxFiles \in Nat \ {0} /\ {MaxStarts, MaxRows, MaxFaults} \subseteq Nat

VARIABLES path,      \* the file at the database's path; 0: none
          made,      \* how many files there were at the path so far
          file,      \* what is in each file
          backups,   \* database-backups: the file of each stamp
          stamp,     \* the newest stamp
          proc,      \* the start each process is in
          starts, rows, faults

vars == <<path, made, file, backups, stamp, proc, starts, rows, faults>>

Baseline == Min(Versions)
NoVersion == 0
Rows == 1 .. MaxRows
Contents == [tables : SUBSET Versions, recorded : SUBSET Versions, rows : SUBSET Rows]
Empty  == [tables |-> {}, recorded |-> {}, rows |-> {}]
Files  == 1 .. MaxFiles
Stamps == 1 .. MaxStarts
Down   == [at |-> "down"]

\* backup: the stamp of its backup, 0 for none; before: what was at the path,
\* and clean: nobody else touched database or backup since, of which the
\* program knows nothing.  todo: the versions its list of existing ones lacks.
Start == [at : {"init", "read", "baseline", "script", "record", "check", "restore", "late"},
          backup : Stamps \cup {0}, before : Contents, clean : BOOLEAN,
          conn : Files \cup {0}, todo : SUBSET Versions]

TypeOK ==
    /\ path \in Files \cup {0} /\ made \in Files \cup {0}
    /\ file \in [Files -> Contents]
    /\ backups \in [Stamps -> Contents \cup {Down}]
    /\ stamp \in Stamps \cup {0}
    /\ proc \in [Processes -> Start \cup {Down, [at |-> "up"]}]
    /\ starts \in 0 .. MaxStarts /\ rows \in 0 .. MaxRows /\ faults \in 0 .. MaxFaults

\* A workspace without a database, or with one of the baseline from before
\* migrations were recorded, or a current one.
Init ==
    /\ file \in {[f \in Files |-> Empty],
                 [[f \in Files |-> Empty] EXCEPT ![1].tables = {Baseline}],
                 [[f \in Files |-> Empty] EXCEPT ![1].tables = Versions, ![1].recorded = Versions]}
    /\ path = IF file[1] = Empty THEN 0 ELSE 1
    /\ made = path
    /\ backups = [s \in Stamps |-> Down] /\ stamp = 0
    /\ proc = [p \in Processes |-> Down]
    /\ starts = 0 /\ rows = 0 /\ faults = 0

At(p, step) == proc[p].at = step
Goto(p, step) == [proc EXCEPT ![p].at = step]
AtPath == IF path = 0 THEN Empty ELSE file[path]
Starting(p) == proc[p].at \notin {"down", "up"}

\* proc after p did what `next` says and touched the database or a backup:
\* the other starts are not alone any more.
Touched(p, next) ==
    [q \in Processes |-> IF q # p /\ Starting(q) THEN [next[q] EXCEPT !.clean = FALSE] ELSE next[q]]

-----------------------------------------------------------------------------
(* backup_database *)

\* Faulty: the list is not sorted newest first.
KeptOldest(all) == {s \in all : Cardinality({t \in all : t < s}) < Keep}

\* The newest Keep backups.
Kept(all) == {s \in all : Cardinality({t \in all : t > s}) < Keep}

\* Backups taken in one second have one name.
Backup(p) ==
    /\ At(p, "down")
    /\ starts < MaxStarts
    /\ starts' = starts + 1
    /\ \E s \in {stamp, stamp + 1} \ {0} :
          LET none  == AtPath = Empty
              all   == {t \in Stamps : backups[t] # Down} \cup {s}
              begin == [at |-> "init", backup |-> IF none THEN 0 ELSE s, before |-> AtPath,
                        clean |-> TRUE, conn |-> 0, todo |-> {}]
              gone(q) == Starting(q) /\ proc[q].backup \in {s} \cup (all \ Kept(all))
          IN /\ stamp' = IF none THEN stamp ELSE s
             /\ backups' = IF none THEN backups
                           ELSE [t \in Stamps |-> IF t \notin Kept(all) THEN Down
                                                  ELSE IF t = s THEN AtPath ELSE backups[t]]
             /\ proc' = [q \in Processes |->
                            IF q = p THEN begin
                            ELSE IF ~none /\ gone(q) THEN [proc[q] EXCEPT !.clean = FALSE]
                            ELSE proc[q]]
    /\ UNCHANGED <<path, made, file, rows, faults>>

-----------------------------------------------------------------------------
(* initialized *)

\* sqlite3.connect makes a file when there is none.
Opened == IF path # 0 THEN path ELSE made + 1
Open ==
    /\ Opened \in Files
    /\ path' = Opened
    /\ made' = IF path # 0 THEN made ELSE Opened

\* The tables of 3.3.
CreateTables(p) ==
    /\ At(p, "init")
    /\ Open
    /\ file' = [file EXCEPT ![Opened].tables = @ \cup {Baseline}]
    /\ proc' = IF Baseline \in file[Opened].tables THEN Goto(p, "read")
               ELSE Touched(p, Goto(p, "read"))
    /\ UNCHANGED <<backups, stamp, starts, rows, faults>>

\* One connection reads what is recorded and makes the migrations.
ReadRecorded(p) ==
    /\ At(p, "read")
    /\ Open
    /\ proc' = [proc EXCEPT ![p].at = IF file[Opened].recorded = {} THEN "baseline" ELSE "script",
                            ![p].conn = Opened,
                            ![p].todo = Versions \ (file[Opened].recorded \cup {Baseline})]
    /\ UNCHANGED <<file, backups, stamp, starts, rows, faults>>

Mine(p) == file[proc[p].conn]

\* The primary key refuses a version another process has recorded.
RecordBaseline(p) ==
    /\ At(p, "baseline")
    /\ IF Baseline \in Mine(p).recorded
       THEN /\ proc' = Goto(p, "restore")
            /\ UNCHANGED file
       ELSE /\ file' = [file EXCEPT ![proc[p].conn].recorded = @ \cup {Baseline}]
            /\ proc' = Touched(p, Goto(p, "script"))
    /\ UNCHANGED <<path, made, backups, stamp, starts, rows, faults>>

Version(p) == Min(proc[p].todo)

\* The statements of a migration commit before its row is inserted.
RunScript(p) ==
    /\ At(p, "script") /\ proc[p].todo # {}
    /\ file' = [file EXCEPT ![proc[p].conn].tables = @ \cup {Version(p)}]
    /\ proc' = Touched(p, Goto(p, "record"))
    /\ UNCHANGED <<path, made, backups, stamp, starts, rows, faults>>

Record(p) ==
    /\ At(p, "record")
    /\ IF Version(p) \in Mine(p).recorded
       THEN proc' = Goto(p, "restore") /\ UNCHANGED file
       ELSE /\ file' = [file EXCEPT ![proc[p].conn].recorded = @ \cup {Version(p)}]
            /\ proc' = Touched(p, [proc EXCEPT ![p].at = "script", ![p].todo = @ \ {Version(p)}])
    /\ UNCHANGED <<path, made, backups, stamp, starts, rows, faults>>

Migrated(p) ==
    /\ At(p, "script") /\ proc[p].todo = {}
    /\ proc' = Goto(p, "check")
    /\ UNCHANGED <<path, made, file, backups, stamp, starts, rows, faults>>

Checked(p) ==
    /\ At(p, "check")
    /\ proc' = Goto(p, "late")
    /\ UNCHANGED <<path, made, file, backups, stamp, starts, rows, faults>>

\* Any statement may raise, the integrity check among them.
Raise(p) ==
    /\ proc[p].at \in {"init", "read", "baseline", "script", "record", "check"}
    /\ faults < MaxFaults /\ faults' = faults + 1
    /\ proc' = Goto(p, "restore")
    /\ UNCHANGED <<path, made, file, backups, stamp, starts, rows>>

\* restore_database
Restore(p) ==
    /\ At(p, "restore")
    /\ IF proc[p].backup = 0 \/ backups[proc[p].backup] = Down
       THEN path' = 0 /\ UNCHANGED <<made, file>>
       ELSE /\ Open
            /\ file' = [file EXCEPT ![Opened] = backups[proc[p].backup]]
    /\ proc' = Touched(p, [proc EXCEPT ![p] = Down])
    /\ UNCHANGED <<backups, stamp, starts, rows, faults>>

\* The constructor of 3.6 runs its tables again, outside of the handler.
LateTables(p) ==
    /\ At(p, "late")
    /\ Open
    /\ LET late == Max(Versions)
           base == file[Opened]
       IN file' = [file EXCEPT ![Opened] =
                      [base EXCEPT !.tables = @ \cup {late},
                                   !.recorded = IF @ = {} THEN @ ELSE @ \cup {late}]]
    /\ proc' = LET next == [proc EXCEPT ![p] = [at |-> "up"]]
               IN IF file' = file THEN next ELSE Touched(p, next)
    /\ UNCHANGED <<backups, stamp, starts, rows, faults>>

-----------------------------------------------------------------------------
(* The processes that are up, crashes *)

\* Each operation connects anew; without its table it fails.
Write(p) ==
    /\ At(p, "up")
    /\ rows < MaxRows
    /\ path # 0 /\ Baseline \in AtPath.tables
    /\ rows' = rows + 1
    /\ file' = [file EXCEPT ![path].rows = @ \cup {rows + 1}]
    /\ proc' = Touched(p, proc)
    /\ UNCHANGED <<path, made, backups, stamp, starts, faults>>

Exit(p) ==
    /\ At(p, "up")
    /\ proc' = [proc EXCEPT ![p] = Down]
    /\ UNCHANGED <<path, made, file, backups, stamp, starts, rows, faults>>

Crash(p) ==
    /\ Starting(p)
    /\ faults < MaxFaults /\ faults' = faults + 1
    /\ proc' = [proc EXCEPT ![p] = Down]
    /\ UNCHANGED <<path, made, file, backups, stamp, starts, rows>>

Next ==
    \E p \in Processes :
        \/ Backup(p) \/ CreateTables(p) \/ ReadRecorded(p) \/ RecordBaseline(p)
        \/ RunScript(p) \/ Record(p) \/ Migrated(p) \/ Checked(p) \/ Raise(p)
        \/ Restore(p) \/ LateTables(p) \/ Write(p) \/ Exit(p) \/ Crash(p)

Spec == Init /\ [][Next]_vars

-----------------------------------------------------------------------------
(* Properties *)

\* A migration the database records was made, so no later start skips one that
\* was not.  (The tables of the baseline are created at every start, recorded
\* or not.)
RecordedIsMigrated == AtPath.recorded \ {Baseline} \subseteq AtPath.tables

\* Whatever fails, crashes or runs at once, recorded migrations were made, as
\* long as no start fails while another is under way: the backup it restores
\* would take the tables from under the other, which then records them.
RestoresAlone ==
    \A p, q \in Processes : At(p, "restore") /\ Starting(q) => p = q
MigratedUnlessOverlap == []RestoresAlone => []RecordedIsMigrated

\* A start that fails leaves the database as it found it, if nobody else wrote
\* to it, or took or pruned backups, in the meantime, and if it is not killed
\* before it has restored.
FailedStartRestores ==
    [][\A p \in Processes :
          At(p, "restore") /\ proc[p].clean /\ proc'[p] = Down /\ faults' = faults
              => AtPath' = proc[p].before]_vars

\* A start leaves a database whose migrations are what it records, or what was
\* there before.
StartHolds == MigratedUnlessOverlap /\ FailedStartRestores
=============================================================================
