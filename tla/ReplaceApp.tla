----------------------------- MODULE ReplaceApp -----------------------------
(***************************************************************************)
(* service.py, replace_app: replacing one package of one device, by one or *)
(* several jobs, with the APKs pulled first as the way back.               *)
(*                                                                         *)
(* A path of the package is one part of one build.  A command ends as      *)
(* AdbClient.run ends with check=False: "ok", "failed"; "cancelled", code  *)
(* 130, for a job whose event is set; or "late", the exception of the      *)
(* time-out, which leaves replace_app whatever step it was at.  A command  *)
(* that was cancelled or late may have had its effect on the device.       *)
(***************************************************************************)
EXTENDS Naturals, FiniteSets

CONSTANTS Jobs,       \* calls of replace_app; each has its own new build
          Parts,      \* APK files of the build installed first
          Base,       \* the one a build cannot do without
          MaxFaults   \* bound: commands that fail, are late or cancelled

\* Assumed by the modules that give the constants values.
ReplaceAssumption == Base \in Parts /\ IsFiniteSet(Parts) /\ MaxFaults \in Nat

VARIABLES installed,   \* the paths of the package, {} when it is not installed
          job,         \* each call: its step, what it saw and pulled, its end
          cancelled,   \* jobs whose event is set
          faults

vars == <<installed, job, cancelled, faults>>

First == "first"
Whole(b) == IF b = First THEN {<<b, p>> : p \in Parts} ELSE {<<b, Base>>}
Builds == {First} \cup Jobs
Paths == UNION {Whole(b) : b \in Builds}
Steps == {"list", "pull", "in place", "uninstall", "install", "rollback", "ended"}
Ends == {"none", "replaced", "preserved", "unchanged", "rolled back", "not rolled back", "raised"}
NewJob == [at |-> "idle", allow |-> FALSE, todo |-> {}, backup |-> {}, before |-> {},
           hurt |-> {}, end |-> "none"]

TypeOK ==
    /\ installed \in SUBSET Paths
    /\ job \in [Jobs -> [at : Steps \cup {"idle"}, allow : BOOLEAN, todo : SUBSET Paths,
                         backup : SUBSET Paths, before : SUBSET Paths,
                         hurt : SUBSET {"pull", "late", "cancelled", "rollback", "shared"},
                         end : Ends]]
    /\ cancelled \subseteq Jobs
    /\ faults \in 0 .. MaxFaults

Init ==
    /\ installed = Whole(First)
    /\ job = [j \in Jobs |-> NewJob]
    /\ cancelled = {}
    /\ faults = 0

At(j, step) == job[j].at = step
Running(j) == job[j].at \in Steps \ {"ended"}
Goto(j, step) == job' = [job EXCEPT ![j].at = step]
End(j, e, why) == job' = [job EXCEPT ![j].at = "ended", ![j].end = e, ![j].hurt = @ \cup why]

\* One command of job j, which would make the package's paths `after`, and
\* what it ends as.  One that is not accepted by the device fails.
Command(j, outcome, after, accepted) ==
    /\ outcome \in {"ok", "failed", "late", "cancelled"}
    /\ outcome = "ok" => accepted /\ j \notin cancelled
    /\ outcome = "cancelled" => j \in cancelled
    /\ IF outcome = "ok" \/ (outcome = "failed" /\ ~accepted) \/ outcome = "cancelled"
       THEN UNCHANGED faults
       ELSE faults < MaxFaults /\ faults' = faults + 1
    /\ \/ outcome # "failed" /\ accepted /\ installed' = after
       \/ outcome # "ok" /\ UNCHANGED installed
    /\ UNCHANGED cancelled

-----------------------------------------------------------------------------

Begin(j, allow) ==
    /\ At(j, "idle")
    /\ LET others == {k \in Jobs : Running(k)}
       IN job' = [k \in Jobs |->
              IF k = j THEN [NewJob EXCEPT !.at = "list", !.allow = allow, !.before = installed,
                                           !.hurt = IF others = {} THEN {} ELSE {"shared"}]
              ELSE IF k \in others THEN [job[k] EXCEPT !.hurt = @ \cup {"shared"}]
              ELSE job[k]]
    /\ UNCHANGED <<installed, cancelled, faults>>

\* package_paths, with check=True.
List(j) ==
    /\ At(j, "list")
    /\ \E outcome \in {"ok", "failed", "late", "cancelled"} :
          /\ Command(j, outcome, installed, TRUE)
          /\ IF outcome = "ok"
             THEN job' = [job EXCEPT ![j].at = IF installed = {} THEN "in place" ELSE "pull",
                                     ![j].todo = installed]
             ELSE End(j, "raised", {})

\* One turn of the loop: what cannot be pulled is left out of the backup.
Pull(j) ==
    /\ At(j, "pull")
    /\ \E path \in job[j].todo, outcome \in {"ok", "failed", "late", "cancelled"} :
          /\ Command(j, outcome, installed, path \in installed)
          /\ IF outcome = "late" THEN End(j, "raised", {"late"})
             ELSE job' = [job EXCEPT ![j].todo = @ \ {path},
                            ![j].at = IF job[j].todo = {path} THEN "in place" ELSE @,
                            ![j].backup = IF outcome = "ok" THEN @ \cup {path} ELSE @,
                            ![j].hurt = IF outcome = "ok" THEN @ ELSE @ \cup {"pull"}]

\* Faulty: no approval is asked for.
InPlaceUnasked(j) ==
    /\ At(j, "in place")
    /\ \E outcome \in {"ok", "failed", "late", "cancelled"}, accepted \in BOOLEAN :
          /\ Command(j, outcome, Whole(j), accepted)
          /\ CASE outcome = "ok" -> End(j, "replaced", {})
               [] outcome = "late" -> End(j, "raised", {"late"})
               [] OTHER -> Goto(j, "uninstall")

\* install -r: the device may refuse it, for another signature say.
InPlace(j) ==
    /\ At(j, "in place")
    /\ \E outcome \in {"ok", "failed", "late", "cancelled"}, accepted \in BOOLEAN :
          /\ Command(j, outcome, Whole(j), accepted)
          /\ CASE outcome = "ok" -> End(j, "replaced", {})
               [] outcome = "late" -> End(j, "raised", {"late"})
               [] OTHER -> IF job[j].allow THEN Goto(j, "uninstall")
                           ELSE End(j, "preserved", {})

Uninstall(j) ==
    /\ At(j, "uninstall")
    /\ \E outcome \in {"ok", "failed", "late", "cancelled"} :
          /\ Command(j, outcome, {}, installed # {})
          /\ CASE outcome = "ok" -> Goto(j, "install")
               [] outcome = "late" -> End(j, "raised", {"late"})
               [] OTHER -> End(j, "unchanged", IF outcome = "cancelled" THEN {outcome} ELSE {})

\* Over another build only an install -r replaces.
Install(j) ==
    /\ At(j, "install")
    /\ \E outcome \in {"ok", "failed", "late", "cancelled"}, accepted \in BOOLEAN :
          /\ Command(j, outcome, Whole(j), accepted /\ installed = {})
          /\ CASE outcome = "ok" -> End(j, "replaced", {})
               [] outcome = "late" -> End(j, "raised", {"late"})
               [] OTHER -> IF job[j].backup # {} THEN Goto(j, "rollback")
                           ELSE End(j, "not rolled back", {})

\* The files given to install or install-multiple.
RollbackFiles(j) == job[j].backup

\* A set with a base, of one build, is installed.
Rollback(j) ==
    /\ At(j, "rollback")
    /\ LET files == RollbackFiles(j)
           fits == \E b \in Builds : <<b, Base>> \in files /\ files \subseteq Whole(b)
       IN \E outcome \in {"ok", "failed", "late", "cancelled"} :
             /\ Command(j, outcome, files, fits)
             /\ CASE outcome = "ok" -> End(j, "rolled back", {})
                  [] outcome = "late" -> End(j, "raised", {"late"})
                  [] OTHER -> End(j, "not rolled back", {"rollback"})

\* The operator cancels the job: its event stays set.
Cancel(j) ==
    /\ Running(j) /\ j \notin cancelled
    /\ faults < MaxFaults /\ faults' = faults + 1
    /\ cancelled' = cancelled \cup {j}
    /\ UNCHANGED <<installed, job>>

Next == \E j \in Jobs :
    \/ \E allow \in BOOLEAN : Begin(j, allow)
    \/ List(j) \/ Pull(j) \/ InPlace(j) \/ Uninstall(j) \/ Install(j) \/ Rollback(j)
    \/ Cancel(j)

Spec == Init /\ [][Next]_vars

-----------------------------------------------------------------------------
(* Properties *)

\* A replaced application stays whole through whatever fails, with three
\* exceptions, each written on the call that met it: a time-out or a cancelled
\* uninstall, after which nothing is put back; a part that was not pulled; a
\* rollback that fails itself.  And calls that overlap may undo each other.
WholeUnlessHurt ==
    (\A j \in Jobs : ~Running(j) /\ job[j].hurt = {}) => \E b \in Builds : installed = Whole(b)

\* What the call says is so when it says it: the new application is there, or
\* the one that was there before is back, if every part of it was pulled.
SaysWhatIs ==
    [][\A j \in Jobs : At(j, "ended")' /\ ~At(j, "ended") /\ job'[j].hurt = {} =>
          /\ job'[j].end = "replaced" => installed' = Whole(j)
          /\ job'[j].end = "rolled back" => installed' = job[j].before]_vars

\* Without approval the package is never removed by the call, whatever fails.
OnlyApprovedRemove ==
    [][installed # {} /\ installed' = {} => \E j \in Jobs : job[j].allow /\ At(j, "uninstall")]_vars
=============================================================================
