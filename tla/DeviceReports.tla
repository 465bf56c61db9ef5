---------------------------- MODULE DeviceReports ----------------------------
(* The files that device operations write into the workspace (service.py,    *)
(* core/reports.py): the five reports of a security audit, run on every      *)
(* device of a group at once, and the backups of an app.  Both name their    *)
(* files by the second.                                                      *)
EXTENDS Integers, FiniteSets, Sequences

CONSTANTS
    Serials,    \* devices that may be in the group
    Backups,    \* backups of one package
    Formats,    \* the formats of an audit's reports, in the order written
    Workers,    \* min(4, devices): threads of a group run
    MaxTime,    \* bound: seconds
    MaxChanges  \* bound: changes of the group

ReportsAssumption ==
    /\ Formats \in Seq(STRING) /\ Formats # <<>>
    /\ Workers \in Nat \ {0} /\ MaxTime \in Nat /\ MaxChanges \in Nat

VARIABLES
    now,      \* the second
    group,    \* the rows of the group
    changes,  \* changes of the group so far
    run,      \* the group run
    audit,    \* serial -> its security_audit in the run
    backup,   \* backup -> its call
    files     \* path -> whose content it holds

reportVars == <<now, group, changes, run, audit, backup, files>>

None == "none"
Mixed == "mixed"     \* two writers' bytes in one file
Kinds == 1 .. Len(Formats)

AuditPath(second, k) == <<"security", second, k>>
BackupPath(second) == <<"backup", second, 0>>

Paths == {AuditPath(s, k) : s \in 0 .. MaxTime, k \in Kinds}
         \cup {BackupPath(s) : s \in 0 .. MaxTime}

Init ==
    /\ now = 0 /\ changes = 0
    /\ group \in SUBSET Serials
    /\ run = [pc |-> "idle", listed |-> {}, results |-> {}]
    /\ audit = [s \in Serials |-> [pc |-> "none", at |-> 0, written |-> 0]]
    /\ backup = [b \in Backups |-> [pc |-> "idle", at |-> 0]]
    /\ files = [p \in Paths |-> None]

Tick ==
    /\ now < MaxTime /\ now' = now + 1
    /\ UNCHANGED <<group, changes, run, audit, backup, files>>

-----------------------------------------------------------------------------
(* groups_operation: add inserts or ignores, remove deletes.                 *)

WithDevice(s) == group \cup {s}
WithoutDevice(s) == group \ {s}

Regroup(s) ==
    /\ changes < MaxChanges /\ changes' = changes + 1
    /\ group' \in {WithDevice(s), WithoutDevice(s)}
    /\ UNCHANGED <<now, run, audit, backup, files>>

(* run_group reads the group once and submits one call for each device.      *)
RunGroup ==
    /\ run.pc = "idle"
    /\ IF group = {}
       THEN run' = [run EXCEPT !.pc = "refused"] /\ UNCHANGED audit
       ELSE /\ run' = [run EXCEPT !.pc = "waiting", !.listed = group]
            /\ audit' = [s \in Serials |->
                  IF s \in group THEN [audit[s] EXCEPT !.pc = "queued"] ELSE audit[s]]
    /\ UNCHANGED <<now, group, changes, backup, files>>

Busy == {s \in Serials : audit[s].pc \in {"info", "write"}}

TakeWorker(s) ==
    /\ audit[s].pc = "queued" /\ Cardinality(Busy) < Workers
    /\ audit' = [audit EXCEPT ![s].pc = "info"]
    /\ UNCHANGED <<now, group, changes, run, backup, files>>

(* info reads the device; a command may time out or be cancelled and raise.  *)
Info(s) ==
    /\ audit[s].pc = "info"
    /\ \/ audit' = [audit EXCEPT ![s].pc = "write", ![s].at = now]
       \/ audit' = [audit EXCEPT ![s].pc = "failed"]
    /\ UNCHANGED <<now, group, changes, run, backup, files>>

(* write_report: a temporary file takes the name of each report in turn.     *)
WriteReport(s) ==
    /\ audit[s].pc = "write"
    /\ LET k == audit[s].written + 1 IN
       /\ files' = [files EXCEPT ![AuditPath(audit[s].at, k)] = s]
       /\ audit' = [audit EXCEPT ![s].written = k,
                                 ![s].pc = IF k = Len(Formats) THEN "ok" ELSE @]
    /\ UNCHANGED <<now, group, changes, run, backup>>

(* The future of an audit that raised takes the whole run down.              *)
CollectUncaught(s) ==
    /\ run.pc = "waiting" /\ audit[s].pc \in {"ok", "failed"}
    /\ s \in run.listed \ run.results
    /\ run' = [run EXCEPT !.results = @ \cup {s},
                          !.pc = IF audit[s].pc = "failed" THEN "done" ELSE @]
    /\ UNCHANGED <<now, group, changes, audit, backup, files>>

(* as_completed hands over each future; one that raised becomes an answer of *)
(* its device.                                                               *)
Collect(s) ==
    /\ run.pc = "waiting" /\ audit[s].pc \in {"ok", "failed"}
    /\ s \in run.listed \ run.results
    /\ run' = [run EXCEPT !.results = @ \cup {s}]
    /\ UNCHANGED <<now, group, changes, audit, backup, files>>

Answer ==
    /\ run.pc = "waiting" /\ run.results = run.listed
    /\ run' = [run EXCEPT !.pc = "done"]
    /\ UNCHANGED <<now, group, changes, audit, backup, files>>

-----------------------------------------------------------------------------
(* backup: the file is opened, which empties it, before the device's tar is  *)
(* written into it; a tar that fails or times out has the file removed.      *)

OpenBackup(b) ==
    /\ backup[b].pc = "idle"
    /\ backup' = [backup EXCEPT ![b] = [pc |-> "open", at |-> now]]
    /\ files' = [files EXCEPT ![BackupPath(now)] = b]
    /\ UNCHANGED <<now, group, changes, run, audit>>

TarWritten(b) ==
    /\ backup[b].pc = "open"
    /\ backup' = [backup EXCEPT ![b].pc = "ok"]
    /\ files' = [files EXCEPT ![BackupPath(backup[b].at)] =
                    IF @ \in {b, None} THEN @ ELSE Mixed]
    /\ UNCHANGED <<now, group, changes, run, audit>>

(* The partial tar of a backup that failed is left.                          *)
TarFailedKept(b) ==
    /\ backup[b].pc = "open"
    /\ backup' = [backup EXCEPT ![b].pc = "failed"]
    /\ UNCHANGED <<now, group, changes, run, audit, files>>

TarFailed(b) ==
    /\ backup[b].pc = "open"
    /\ backup' = [backup EXCEPT ![b].pc = "failed"]
    /\ files' = [files EXCEPT ![BackupPath(backup[b].at)] = None]
    /\ UNCHANGED <<now, group, changes, run, audit>>

Next ==
    \/ Tick \/ RunGroup \/ Answer
    \/ \E s \in Serials :
          \/ Regroup(s) \/ TakeWorker(s) \/ Info(s) \/ WriteReport(s) \/ Collect(s)
    \/ \E b \in Backups : OpenBackup(b) \/ TarWritten(b) \/ TarFailed(b)

-----------------------------------------------------------------------------

TypeOK ==
    /\ now \in 0 .. MaxTime /\ changes \in 0 .. MaxChanges
    /\ group \subseteq Serials /\ run.results \subseteq run.listed
    /\ run.listed \subseteq Serials
    /\ run.pc \in {"idle", "refused", "waiting", "done"}
    /\ \A s \in Serials :
          /\ audit[s].pc \in {"none", "queued", "info", "write", "ok", "failed"}
          /\ audit[s].at \in 0 .. MaxTime /\ audit[s].written \in 0 .. Len(Formats)
    /\ \A b \in Backups : backup[b].pc \in {"idle", "open", "ok", "failed"}
    /\ files \in [Paths -> Serials \cup Backups \cup {None, Mixed}]

(* A group run that answers has an answer of every device it was started     *)
(* for, whichever audits raised and whoever left the group meanwhile.        *)
EveryDeviceAnswered ==
    run.pc = "done" =>
        /\ run.results = run.listed
        /\ \A s \in run.listed : audit[s].pc \in {"ok", "failed"}

(* The files that audits and backups announce hold what they wrote, unless   *)
(* another one of them was named in the same second; and a backup that       *)
(* failed leaves nothing of its own.                                         *)
KeptUnlessSameSecond ==
    /\ \A s \in Serials : audit[s].pc = "ok" =>
          \/ \A k \in Kinds : files[AuditPath(audit[s].at, k)] = s
          \/ \E o \in Serials \ {s} : audit[o].pc \in {"write", "ok"}
                                      /\ audit[o].at = audit[s].at
    /\ \A b \in Backups : backup[b].pc \in {"ok", "failed"} =>
          \/ files[BackupPath(backup[b].at)] = IF backup[b].pc = "ok" THEN b ELSE None
          \/ \E o \in Backups \ {b} : backup[o].pc # "idle"
                                      /\ backup[o].at = backup[b].at
=============================================================================
