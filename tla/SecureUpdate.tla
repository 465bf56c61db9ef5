---------------------------- MODULE SecureUpdate ----------------------------
(***************************************************************************)
(* core/updater.py (SecureUpdater): installing a release archive over an   *)
(* installation root, and rolling back.  Unlike ManagedUpdate's package,   *)
(* the root holds the user's data (workspace, projects, config), which is  *)
(* copied into the release before the swap and goes back with the backup.  *)
(*                                                                         *)
(* A tree is a build and how much of the data is in it.  Archive and       *)
(* checksum are verified before anything is written.                       *)
(***************************************************************************)
EXTENDS Naturals

CONSTANTS Builds,      \* releases
          FaultKinds,  \* which failures happen (see Fail)
          MaxFaults,   \* bound: how many of them
          MaxWrites    \* bound: writes to the data

\* Assumed by the modules that give the constants values.
SecureUpdateAssumption ==
    /\ "none" \notin Builds    \* the placeholder
    /\ FaultKinds \subseteq {"smoke", "copy", "backup", "rename", "remove", "killed"}
    /\ MaxFaults \in Nat /\ MaxWrites \in Nat

VARIABLES root,      \* install_root
          previous,  \* .<name>.previous
          backup,    \* <name>.rollback
          shelf,     \* <name>.failed-update
          prepared,  \* the staged release
          op,        \* the install or rollback under way
          written,   \* writes to the data so far
          faults     \* the failures so far: their kinds, and how many

trees == <<root, previous, backup, shelf, prepared>>
vars  == <<root, previous, backup, shelf, prepared, op, written, faults>>

Tree(b, n) == [build |-> b, data |-> n, whole |-> TRUE]
None == [build |-> "none", data |-> 0, whole |-> FALSE]
Trees == [build : Builds \cup {"none"}, data : 0 .. MaxWrites, whole : BOOLEAN]
There(t) == t.build # "none"
Torn(t) == IF There(t) THEN [t EXCEPT !.whole = FALSE] ELSE t
Idle == [at |-> "idle", swapped |-> FALSE, target |-> "none", before |-> None,
         end |-> "none"]

InstallSteps == {"payload", "preserve", "try", "drop backup", "back up", "drop previous",
                 "move aside", "move in", "smoke", "drop old"}
RollbackSteps == {"drop shelf", "shelve", "restore", "smoke restored"}

TypeOK ==
    /\ {root, previous, backup, shelf, prepared} \subseteq Trees
    /\ op \in [at : {"idle"} \cup InstallSteps \cup RollbackSteps, swapped : BOOLEAN,
               target : Builds \cup {"none"}, before : Trees,
               end : {"none", "installed", "restored", "raised"}]
    /\ written \in 0 .. MaxWrites
    /\ faults \in [kinds : SUBSET FaultKinds, number : 0 .. MaxFaults]

Init ==
    /\ \E b \in Builds : root = Tree(b, 0)
    /\ previous = None /\ backup = None /\ shelf = None /\ prepared = None
    /\ op = Idle
    /\ written = 0
    /\ faults = [kinds |-> {}, number |-> 0]

At(step) == op.at = step
Goto(step) == op' = [op EXCEPT !.at = step]
End(e) == op' = [op EXCEPT !.at = "idle", !.end = e, !.swapped = FALSE]

-----------------------------------------------------------------------------
(* install *)

BeginInstall(b) ==
    /\ At("idle")
    /\ op' = [Idle EXCEPT !.at = "payload", !.target = b, !.before = root]
    /\ UNCHANGED <<trees, written, faults>>

\* Faulty: the release brings directories of its own and keeps them.
PreserveNothing ==
    /\ At("preserve") /\ Goto("try")
    /\ UNCHANGED <<trees, written, faults>>

\* The data of the installed tree is copied into the release.
Preserve ==
    /\ At("preserve") /\ Goto("try")
    /\ prepared' = [prepared EXCEPT !.data = IF There(root) THEN root.data ELSE @]
    /\ UNCHANGED <<root, previous, backup, shelf, written, faults>>

\* The old backup goes, then the installed tree is copied.
BackUp ==
    \/ At("drop backup") /\ backup' = None /\ Goto("back up")
    \/ /\ At("back up") /\ Goto("drop previous")
       /\ backup' = IF There(root) THEN root ELSE backup

Stage ==
    /\ \/ At("payload") /\ prepared' = Tree(op.target, 0) /\ Goto("preserve")
       \/ At("try") /\ Goto("drop backup") /\ UNCHANGED prepared
    /\ UNCHANGED <<root, previous, backup, shelf, written, faults>>

KeepBackup == BackUp /\ UNCHANGED <<root, previous, shelf, prepared, written, faults>>

\* What an earlier run left aside goes, and the trees change places.
Swap ==
    /\ \/ /\ At("drop previous") /\ previous' = None /\ Goto("move aside")
          /\ UNCHANGED <<root, prepared>>
       \/ /\ At("move aside") /\ Goto("move in")
          /\ IF There(root) THEN previous' = root /\ root' = None
             ELSE UNCHANGED <<root, previous>>
          /\ UNCHANGED prepared
       \/ /\ At("move in") /\ root' = prepared /\ prepared' = None
          /\ op' = [op EXCEPT !.at = "smoke", !.swapped = TRUE]
          /\ UNCHANGED previous
    /\ UNCHANGED <<backup, shelf, written, faults>>

Accept ==
    /\ \/ At("smoke") /\ Goto("drop old") /\ UNCHANGED previous
       \/ At("drop old") /\ previous' = None /\ End("installed")
    /\ UNCHANGED <<root, backup, shelf, prepared, written, faults>>

-----------------------------------------------------------------------------
(* rollback *)

BeginRollback ==
    /\ At("idle") /\ There(backup)
    /\ op' = [Idle EXCEPT !.at = "drop shelf", !.before = root]
    /\ UNCHANGED <<trees, written, faults>>

Rollback ==
    /\ \/ At("drop shelf") /\ shelf' = None /\ Goto("shelve") /\ UNCHANGED root
       \/ /\ At("shelve") /\ Goto("restore")
          /\ IF There(root) THEN shelf' = root /\ root' = None ELSE UNCHANGED <<root, shelf>>
       \/ At("restore") /\ root' = backup /\ Goto("smoke restored") /\ UNCHANGED shelf
       \/ At("smoke restored") /\ End("restored") /\ UNCHANGED <<root, shelf>>
    /\ UNCHANGED <<previous, backup, prepared, written, faults>>

-----------------------------------------------------------------------------
(* Failures; the steps of the handlers themselves do not fail *)

\* The except clause of install: after the swap the old tree comes back.  Of
\* rollback: once the tree is shelved, it does.
Handler ==
    CASE op.at \in InstallSteps /\ op.swapped /\ There(previous) ->
            root' = previous /\ previous' = None /\ UNCHANGED shelf
      [] op.at \in {"restore", "smoke restored"} ->
            root' = shelf /\ shelf' = None /\ UNCHANGED previous
      [] OTHER -> UNCHANGED <<root, previous, shelf>>

\* A candidate or an installed build that does not start; a copy that stops;
\* a refused rename.  The finally clause removes the staged release.
Raise(kind) ==
    /\ \/ kind = "smoke" /\ op.at \in {"try", "smoke", "smoke restored"} /\ UNCHANGED backup
       \/ kind = "copy" /\ op.at \in {"payload", "preserve", "restore"} /\ UNCHANGED backup
       \/ kind = "backup" /\ At("back up") /\ backup' = Torn(root)
       \/ kind = "rename" /\ op.at \in {"move aside", "move in", "shelve"} /\ UNCHANGED backup
    /\ Handler
    /\ prepared' = None

\* A removal that stops half-way, a file being in use: that of the old tree
\* after the swap brings its remains back in the place of the new one.
RemoveFails ==
    /\ \/ /\ At("drop backup") /\ There(backup) /\ backup' = Torn(backup)
          /\ UNCHANGED <<root, previous, shelf>>
       \/ /\ At("drop previous") /\ There(previous) /\ previous' = Torn(previous)
          /\ UNCHANGED <<root, backup, shelf>>
       \/ /\ At("drop old") /\ There(previous)
          /\ root' = Torn(previous) /\ previous' = None /\ UNCHANGED <<backup, shelf>>
       \/ /\ At("drop shelf") /\ There(shelf) /\ shelf' = Torn(shelf)
          /\ UNCHANGED <<root, previous, backup>>
    /\ prepared' = None

\* A killed process runs no clause: what it copies or removes is left half-way.
\* So is the staged release, under a name nobody looks at again.
Killed ==
    /\ \/ UNCHANGED <<root, previous, backup, shelf>>
       \/ /\ At("restore") /\ root' = Torn(backup)
          /\ UNCHANGED <<previous, backup, shelf>>
       \/ /\ At("back up") /\ backup' = Torn(root)
          /\ UNCHANGED <<root, previous, shelf>>
       \/ /\ At("drop backup") /\ backup' = Torn(backup)
          /\ UNCHANGED <<root, previous, shelf>>
       \/ /\ op.at \in {"drop previous", "drop old"} /\ previous' = Torn(previous)
          /\ UNCHANGED <<root, backup, shelf>>
       \/ /\ At("drop shelf") /\ shelf' = Torn(shelf)
          /\ UNCHANGED <<root, previous, backup>>
    /\ prepared' = None

Fail ==
    /\ ~At("idle") /\ faults.number < MaxFaults
    /\ \E kind \in FaultKinds :
          /\ faults' = [kinds |-> faults.kinds \cup {kind}, number |-> faults.number + 1]
          /\ CASE kind = "remove" -> RemoveFails
               [] kind = "killed" -> Killed
               [] OTHER -> Raise(kind)
    /\ End("raised")
    /\ UNCHANGED written

\* Another process of the program writes to the data of the installed tree.
Write ==
    /\ root.whole /\ root.data = written /\ written < MaxWrites
    /\ written' = written + 1
    /\ root' = [root EXCEPT !.data = written + 1]
    /\ UNCHANGED <<previous, backup, shelf, prepared, op, faults>>

Next ==
    \/ \E b \in Builds : BeginInstall(b)
    \/ BeginRollback
    \/ Stage \/ Preserve \/ KeepBackup \/ Swap \/ Accept \/ Rollback
    \/ Fail \/ Write

Spec == Init /\ [][Next]_vars

-----------------------------------------------------------------------------
(* Properties *)

Whole(t) == There(t) /\ t.whole

\* What was installed when an operation began, and all its data.
Kept(t) == Whole(t) /\ t.build = op.before.build /\ t.data >= op.before.data

\* "Automatically restores the previous tree if post-install validation fails":
\* between operations a whole tree is in place, however many builds were
\* rejected and copies stopped.  Excepted is the copy to the backup: a rollback
\* takes what it left for a whole tree.
InPlaceUnlessBackupTorn ==
    At("idle") /\ faults.kinds \subseteq {"smoke", "copy"} => Whole(root)

\* No failures lose anything, whatever their kinds and their order: however an
\* operation ends, a whole tree that was installed before it is there under one
\* of the names with its data, and after a success the new tree has the data too.
OldKept ==
    [][~At("idle") /\ At("idle")' /\ op.before.whole =>
          /\ \E t \in {root', previous', backup', shelf'} : Kept(t)
          /\ op'.end = "installed" => root'.data >= op.before.data]_vars
=============================================================================
