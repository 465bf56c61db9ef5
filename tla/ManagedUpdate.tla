---------------------------- MODULE ManagedUpdate ----------------------------
(***************************************************************************)
(* core/selfupdate360.py (ManagedSelfUpdater): replacing the installed     *)
(* package of a managed virtual environment, and the way back.             *)
(*                                                                         *)
(* The state is the file system.  A tree is a build, whole; "partial": a   *)
(* directory some of whose files are missing; or "none".  Everything       *)
(* before the backup (download, wheel, preflight) works in a temporary     *)
(* directory: a failure there changes nothing and is not modelled.         *)
(* Renames are atomic, copies and removals are not.                        *)
(***************************************************************************)
EXTENDS Naturals, Sequences

CONSTANTS Builds,       \* commits of the main branch
          VersionOf,    \* the version each build declares
          FaultKinds,   \* which failures happen (see Fail)
          MaxFaults     \* bound: how many of them

\* Assumed by the modules that give the constants values.
ManagedUpdateAssumption ==
    /\ VersionOf \in [Builds -> Nat]
    /\ Builds \cap {"none", "partial"} = {}
    /\ FaultKinds \subseteq {"smoke", "copy", "mkdir", "rename", "torn", "interrupt", "crash"}
    /\ MaxFaults \in Nat

VARIABLES package,    \* site/adbgath
          previous,   \* site/.adbgath-update-previous
          aside,      \* site/.adbgath-rollback-current
          dist,       \* site/adbgath-<version>.dist-info, by version
          saved,      \* update-backup: package, dist-infos, manifest
          state,      \* the commit update-state.json records
          run,        \* the update or rollback under way
          faults      \* the failures so far, by kind

site == <<package, previous, aside, dist>>
vars == <<package, previous, aside, dist, saved, state, run, faults>>

Versions == {VersionOf[b] : b \in Builds}
Trees    == Builds \cup {"none", "partial"}
NoDist   == [v \in Versions |-> "none"]
Names(d) == {v \in Versions : d[v] # "none"}
Only(b)  == [NoDist EXCEPT ![VersionOf[b]] = b]
Empty    == [package |-> "none", dist |-> NoDist, manifest |-> FALSE]
Idle     == [at |-> "idle"]

\* The steps of apply() and of _restore_backup(), in program order.
ApplySteps   == {"clear", "backup package", "backup dist", "manifest", "clear previous",
                 "move aside", "move in", "drop dist", "copy dist", "smoke",
                 "drop previous", "commit", "finally"}
RestoreSteps == {"r check", "r aside", "r package", "r drop dist", "r copy dist",
                 "r smoke", "r drop aside", "r undo"}

TypeOK ==
    /\ {package, previous, aside} \subseteq Trees
    /\ dist \in [Versions -> Trees]
    /\ saved \in [package : Trees, dist : [Versions -> Trees], manifest : BOOLEAN]
    /\ state \in Builds \cup {"none"}
    /\ run \in {Idle} \cup
          [at : ApplySteps \cup RestoreSteps, target : Builds \cup {"none"},
           swapped : BOOLEAN, failed : BOOLEAN, known : SUBSET Versions,
           before : [package : Builds, dist : [Versions -> Trees]]]
    /\ faults \in UNION {[1 .. n -> FaultKinds] : n \in 0 .. MaxFaults}

Init ==
    /\ \E b \in Builds : package = b /\ dist = Only(b)
    /\ previous = "none" /\ aside = "none"
    /\ saved = Empty
    /\ state = "none"
    /\ run = Idle
    /\ faults = <<>>

-----------------------------------------------------------------------------

At(step) == run.at = step
Goto(step) == run' = [run EXCEPT !.at = step]

\* The program runs from the package it replaces, so the package is whole.
Started(step, b) ==
    [at |-> step, target |-> b, swapped |-> FALSE, failed |-> FALSE,
     known |-> Names(dist), before |-> [package |-> package, dist |-> dist]]

\* Nothing to do: the recorded commit and the running version are the remote's.
AlreadyCurrent(b) == state = b /\ VersionOf[package] = VersionOf[b]

\* apply(): --force skips the comparison.
BeginApply(b, force) ==
    /\ run = Idle /\ package \in Builds
    /\ force \/ ~AlreadyCurrent(b)
    /\ Names(dist) # {}
    /\ run' = Started("clear", b)
    /\ UNCHANGED <<site, saved, state, faults>>

BeginRollback ==
    /\ run = Idle /\ package \in Builds
    /\ saved.manifest
    /\ run' = Started("r check", "none")
    /\ UNCHANGED <<site, saved, state, faults>>

\* Faulty: the manifest is written first.
BackupManifestFirst ==
    /\ \/ /\ At("clear") /\ saved' = [Empty EXCEPT !.manifest = TRUE]
          /\ Goto("backup package")
       \/ /\ At("backup package")
          /\ saved' = [saved EXCEPT !.package = package] /\ Goto("backup dist")
       \/ /\ At("backup dist")
          /\ saved' = [saved EXCEPT !.dist = dist] /\ Goto("manifest")
       \/ At("manifest") /\ UNCHANGED saved /\ Goto("clear previous")
    /\ UNCHANGED <<site, state, faults>>

\* _backup: clear the old one, copy package and metadata, manifest last.
Backup ==
    /\ \/ At("clear") /\ saved' = Empty /\ Goto("backup package")
       \/ /\ At("backup package")
          /\ saved' = [saved EXCEPT !.package = package] /\ Goto("backup dist")
       \/ /\ At("backup dist")
          /\ saved' = [saved EXCEPT !.dist = dist] /\ Goto("manifest")
       \/ /\ At("manifest")
          /\ saved' = [saved EXCEPT !.manifest = TRUE] /\ Goto("clear previous")
    /\ UNCHANGED <<site, state, faults>>

\* The two renames.
Swap ==
    /\ \/ /\ At("clear previous") /\ previous' = "none" /\ UNCHANGED package
          /\ Goto("move aside")
       \/ /\ At("move aside") /\ previous' = package /\ package' = "none"
          /\ Goto("move in")
       \/ /\ At("move in") /\ package' = run.target /\ UNCHANGED previous
          /\ run' = [run EXCEPT !.at = "drop dist", !.swapped = TRUE]
    /\ UNCHANGED <<aside, dist, saved, state, faults>>

\* The metadata found at the start goes, the new build's comes.
ReplaceDist ==
    /\ \/ /\ At("drop dist")
          /\ dist' = [v \in Versions |-> IF v \in run.known THEN "none" ELSE dist[v]]
          /\ Goto("copy dist")
       \/ /\ At("copy dist")
          /\ dist' = [dist EXCEPT ![VersionOf[run.target]] = run.target]
          /\ Goto("smoke")
    /\ UNCHANGED <<package, previous, aside, saved, state, faults>>

\* Faulty: records a word in the place of the commit.
FinishApplyWord ==
    /\ \/ At("smoke") /\ Goto("drop previous") /\ UNCHANGED <<previous, state>>
       \/ /\ At("drop previous") /\ previous' = "none" /\ UNCHANGED state
          /\ Goto("commit")
       \/ /\ At("commit") /\ state' = "current" /\ UNCHANGED previous
          /\ Goto("finally")
    /\ UNCHANGED <<package, aside, dist, saved, faults>>

\* The smoke test passes, the copy of the old tree goes, the commit is recorded.
FinishApply ==
    /\ \/ At("smoke") /\ Goto("drop previous") /\ UNCHANGED <<previous, state>>
       \/ /\ At("drop previous") /\ previous' = "none" /\ UNCHANGED state
          /\ Goto("commit")
       \/ /\ At("commit") /\ state' = run.target /\ UNCHANGED previous
          /\ Goto("finally")
    /\ UNCHANGED <<package, aside, dist, saved, faults>>

\* The finally clause.
Finally ==
    /\ At("finally")
    /\ previous' = IF run.swapped THEN previous ELSE "none"
    /\ run' = Idle
    /\ UNCHANGED <<package, aside, dist, saved, state, faults>>

-----------------------------------------------------------------------------
(* _restore_backup, called by rollback() and by apply()'s handler. *)

\* Back to the caller: apply() goes on to its finally clause.
Return(failed) ==
    run' = IF run.target = "none" THEN Idle
           ELSE [run EXCEPT !.at = "finally", !.failed = @ \/ failed]

RestoreCheck ==
    /\ At("r check")
    /\ IF saved.manifest /\ saved.package # "none" /\ Names(dist) # {}
       THEN run' = [run EXCEPT !.at = "r aside", !.known = Names(dist)]
       ELSE Return(TRUE)
    /\ UNCHANGED <<site, saved, state, faults>>

Restore ==
    /\ \/ /\ At("r aside") /\ aside' = package /\ package' = "none" /\ UNCHANGED dist
          /\ Goto("r package")
       \/ /\ At("r package") /\ package' = saved.package /\ UNCHANGED <<aside, dist>>
          /\ Goto("r drop dist")
       \/ /\ At("r drop dist")
          /\ dist' = [v \in Versions |-> IF v \in run.known THEN "none" ELSE dist[v]]
          /\ UNCHANGED <<package, aside>>
          /\ Goto("r copy dist")
       \/ /\ At("r copy dist")
          /\ dist' = [v \in Versions |-> IF saved.dist[v] # "none" THEN saved.dist[v] ELSE dist[v]]
          /\ UNCHANGED <<package, aside>>
          /\ Goto("r smoke")
       \/ /\ At("r smoke") /\ Goto("r drop aside") /\ UNCHANGED <<package, aside, dist>>
       \/ /\ At("r drop aside") /\ aside' = "none" /\ Return(FALSE) /\ UNCHANGED <<package, dist>>
       \/ /\ At("r undo") /\ package' = aside /\ aside' = "none" /\ UNCHANGED dist
          /\ Return(TRUE)
    /\ UNCHANGED <<previous, saved, state, faults>>

-----------------------------------------------------------------------------
(* Failures. *)

Copies  == {"backup package", "backup dist", "copy dist", "r package", "r copy dist"}
Renames == {"move aside", "move in", "r aside", "r undo"}

\* KeyboardInterrupt is no Exception: only the finally clause runs.
Interrupted(r) ==
    IF r.target = "none" THEN Idle ELSE [r EXCEPT !.at = "finally", !.failed = TRUE]

\* Where an Exception raised at step `at` takes the run: past the first rename of
\* a restoration, to its own handler; after the swap, to a restoration; else out.
Handler(at, r) ==
    IF at \in RestoreSteps \ {"r check", "r aside", "r undo"}
    THEN [r EXCEPT !.at = "r undo", !.failed = TRUE]
    ELSE IF at \in ApplySteps /\ r.swapped THEN [r EXCEPT !.at = "r check", !.failed = TRUE]
    ELSE Interrupted(r)

\* What a copy that does not finish leaves: nothing, or a partial tree.  The two
\* JSON files, and the new tree, are written beside their place and renamed
\* into it.
Torn(left) ==
    /\ \/ At("backup package") /\ saved' = [saved EXCEPT !.package = left]
                               /\ UNCHANGED <<package, dist>>
       \/ At("backup dist") /\ UNCHANGED <<package, dist>>
             /\ saved' = [saved EXCEPT !.dist =
                            [v \in Versions |-> IF dist[v] = "none" THEN "none" ELSE left]]
       \/ At("copy dist") /\ dist' = [dist EXCEPT ![VersionOf[run.target]] = left]
                          /\ UNCHANGED <<package, saved>>
       \/ At("r package") /\ package' = left /\ UNCHANGED <<dist, saved>>
       \/ At("r copy dist") /\ UNCHANGED <<package, saved>>
             /\ dist' = [v \in Versions |->
                           IF saved.dist[v] = "none" THEN dist[v] ELSE left]
       \/ run.at \in {"manifest", "clear previous", "commit"} /\ UNCHANGED <<package, dist, saved>>
    /\ UNCHANGED <<previous, aside>>

NoDamage == UNCHANGED <<site, saved>>

\* A smoke test that fails; a copy that stops half-way ("copy") or cannot even
\* create its directory ("mkdir"); a rename that is refused; the removal of the
\* old backup stopped half-way, its manifest still there ("torn"); Ctrl-C; and
\* a killed process, which runs no handler.
Fail ==
    /\ run # Idle
    /\ Len(faults) < MaxFaults
    /\ \E kind \in FaultKinds : faults' = Append(faults, kind) /\
         CASE kind = "smoke" ->
                /\ run.at \in {"smoke", "r smoke"} /\ NoDamage /\ run' = Handler(run.at, run)
           [] kind = "copy"  -> Torn("partial") /\ run' = Handler(run.at, run)
           [] kind = "mkdir" -> Torn("none") /\ run' = Handler(run.at, run)
           [] kind = "rename" ->
                run.at \in Renames /\ NoDamage /\ run' = Handler(run.at, run)
           [] kind = "torn" ->
                /\ At("clear") /\ saved.package # "none"
                /\ saved' = [saved EXCEPT !.package = "partial"]
                /\ UNCHANGED site /\ run' = Handler(run.at, run)
           [] kind = "interrupt" ->
                /\ run.at # "finally"
                /\ NoDamage \/ Torn("partial") \/ Torn("none")
                /\ run' = Interrupted(run)
           [] OTHER ->
                (NoDamage \/ Torn("partial") \/ Torn("none")) /\ run' = Idle
    /\ UNCHANGED state

Next ==
    \/ \E b \in Builds, force \in BOOLEAN : BeginApply(b, force)
    \/ BeginRollback
    \/ Backup \/ Swap \/ ReplaceDist \/ FinishApply \/ Finally
    \/ RestoreCheck \/ Restore
    \/ Fail

Spec == Init /\ [][Next]_vars

-----------------------------------------------------------------------------

Happened == {faults[n] : n \in DOMAIN faults}

\* "Rollback remains in place as a second safety boundary": an update that
\* fails ends with the tree and the metadata it started from.  The code breaks
\* this when the second rename is refused, for the finally clause then removes
\* the only installed copy.
RestoresPrevious ==
    At("finally") /\ run.failed =>
        package = run.before.package /\ dist = run.before.dist

\* It does so when the one failure is a rejected build or a copy that stops.
RestoresFromOneFailure ==
    Len(faults) = 1 /\ Happened \subseteq {"smoke", "copy"} => RestoresPrevious

\* Whatever else fails and wherever the process is stopped, a whole build
\* remains, installed or in a complete backup, unless the removal of an older
\* backup stopped half-way and left its manifest.
Recoverable ==
    \/ package \in Builds
    \/ saved.manifest /\ saved.package \in Builds
    \/ "torn" \in Happened

\* When every failure is an exception of a smoke test or a copy, however many
\* there are, a whole package is installed between operations, even if the
\* restoration fails as well.
PackageWhole ==
    run = Idle /\ Happened \subseteq {"smoke", "copy", "mkdir"} => package \in Builds

\* What an update or rollback leaves after failures and stops: the three parts.
UpdateRecovers == Recoverable /\ PackageWhole /\ RestoresFromOneFailure
=============================================================================
