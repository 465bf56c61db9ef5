---------------------------- MODULE Assessments -----------------------------
(***************************************************************************)
(* What service.py keeps in the project store of longer work: the session  *)
(* of an assessment with its findings, artifact rows and reports, and the  *)
(* archive a project is exported to.  All may go on at the same time, in   *)
(* jobs, requests and the command line; every row is a transaction of its  *)
(* own, and so is every list an export reads.                              *)
(***************************************************************************)
EXTENDS Naturals, FiniteSets

CONSTANTS Runs,        \* assessments of one project
          Findings,    \* what the static analysis finds
          Formats,     \* of the report of an assessment
          Exports,     \* exports of the project
          Archives     \* file names an export may choose

VARIABLES session,     \* the status of each assessment's session
          rows,        \* the finding and artifact rows of a session
          reports,     \* the reports written
          run,         \* where each assessment is
          archive,     \* the archives: who wrote them, and how far
          export

assessVars == <<session, rows, reports, run, archive, export>>
assessing == <<session, rows, reports, run>>
exporting == <<archive, export>>

Evidence == "evidence"
Everything == Findings \cup {Evidence}
NoArchive == [by |-> {}, whole |-> FALSE]
NewExport == [at |-> "new", sessions |-> {}, rows |-> [r \in Runs |-> {}],
              name |-> "none", raced |-> FALSE, saved |-> NoArchive]

TypeOK ==
    /\ session \in [Runs -> {"none", "running", "completed", "failed"}]
    /\ rows \in [Runs -> SUBSET Everything]
    /\ reports \in [Runs -> SUBSET Formats]
    /\ run \in [Runs -> {"new", "survey", "evidence", "static", "findings", "reports", "failing",
                         "ended", "cut off"}]
    /\ archive \in [Archives -> [by : SUBSET Exports, whole : BOOLEAN]]
    /\ \A e \in Exports :
          /\ export[e].at \in {"new", "findings", "artifacts", "name", "open", "write", "hash",
                               "save", "ended", "cut off"}
          /\ export[e].sessions \subseteq Runs /\ export[e].name \in Archives \cup {"none"}
          /\ export[e].saved \in [by : SUBSET Exports, whole : BOOLEAN]

Init ==
    /\ session = [r \in Runs |-> "none"]
    /\ rows = [r \in Runs |-> {}]
    /\ reports = [r \in Runs |-> {}]
    /\ run = [r \in Runs |-> "new"]
    /\ archive = [n \in Archives |-> NoArchive]
    /\ export = [e \in Exports |-> NewExport]

-----------------------------------------------------------------------------
(* assess *)

Goto(r, step) == run' = [run EXCEPT ![r] = step]

\* create_project, where none is given, and create_session; then the session's
\* directory is made, before the try: when that raises, no handler sees it.
Begin(r) ==
    /\ run[r] = "new"
    /\ session' = [session EXCEPT ![r] = "running"]
    /\ \E step \in {"survey", "cut off"} : Goto(r, step)
    /\ UNCHANGED <<rows, reports, exporting>>

\* app_summary and capabilities; the APKs and their static analysis.
Survey(r) ==
    /\ run[r] \in {"survey", "static"}
    /\ Goto(r, IF run[r] = "survey" THEN "evidence" ELSE "findings")
    /\ UNCHANGED <<session, rows, reports, exporting>>

\* capture_evidence, which saves its rows at its end.
SaveEvidence(r) ==
    /\ run[r] = "evidence"
    /\ rows' = [rows EXCEPT ![r] = @ \cup {Evidence}]
    /\ Goto(r, "static")
    /\ UNCHANGED <<session, reports, exporting>>

SaveFinding(r) ==
    /\ run[r] = "findings"
    /\ IF Findings \subseteq rows[r]
       THEN Goto(r, "reports") /\ UNCHANGED rows
       ELSE /\ rows' = [rows EXCEPT ![r] = @ \cup {CHOOSE f \in Findings : f \notin rows[r]}]
            /\ UNCHANGED run
    /\ UNCHANGED <<session, reports, exporting>>

\* write_report, format after format.
WriteReport(r) ==
    /\ run[r] = "reports" /\ reports[r] # Formats
    /\ reports' = [reports EXCEPT ![r] = @ \cup {CHOOSE f \in Formats : f \notin reports[r]}]
    /\ UNCHANGED <<session, rows, run, exporting>>

Complete(r) ==
    /\ run[r] = "reports" /\ reports[r] = Formats
    /\ session' = [session EXCEPT ![r] = "completed"]
    /\ Goto(r, "ended")
    /\ UNCHANGED <<rows, reports, exporting>>

\* Any step raises: a command, a file, the database.
Raise(r) ==
    /\ run[r] \in {"survey", "evidence", "static", "findings", "reports"}
    /\ Goto(r, "failing")
    /\ UNCHANGED <<session, rows, reports, exporting>>

\* The handler: the session has failed, the rows and files stay.
Fail(r) ==
    /\ run[r] = "failing"
    /\ session' = [session EXCEPT ![r] = "failed"]
    /\ Goto(r, "ended")
    /\ UNCHANGED <<rows, reports, exporting>>

\* Killed or interrupted, neither of which is an Exception; or the handler's
\* own transaction fails.
CutOff(r) ==
    /\ run[r] \notin {"new", "ended", "cut off"}
    /\ Goto(r, "cut off")
    /\ UNCHANGED <<session, rows, reports, exporting>>

Assess(r) == \/ Begin(r) \/ Survey(r) \/ SaveEvidence(r) \/ SaveFinding(r) \/ WriteReport(r)
             \/ Complete(r) \/ Raise(r) \/ Fail(r) \/ CutOff(r)

-----------------------------------------------------------------------------
(* export_project_bundle *)

Step(e, state) == export' = [export EXCEPT ![e] = state]

Completed == {r \in Runs : session[r] = "completed"}

\* list_sessions.
ReadSessions(e) ==
    /\ export[e].at = "new"
    /\ Step(e, [export[e] EXCEPT !.at = "findings", !.sessions = Completed])
    /\ UNCHANGED <<archive, assessing>>

\* Faulty: what completed is looked up last, as export_project_report does.
ReadRowsFirst(e) ==
    /\ export[e].at \in {"findings", "artifacts"}
    /\ Step(e, [export[e] EXCEPT
           !.at = IF export[e].at = "findings" THEN "artifacts" ELSE "name",
           !.sessions = Completed,
           !.rows = [r \in Runs |-> @[r] \cup
               (rows[r] \cap IF export[e].at = "findings" THEN Findings ELSE {Evidence})]])
    /\ UNCHANGED <<archive, assessing>>

\* list_findings and list_artifacts.
ReadRows(e) ==
    /\ export[e].at \in {"findings", "artifacts"}
    /\ Step(e, [export[e] EXCEPT
           !.at = IF export[e].at = "findings" THEN "artifacts" ELSE "name",
           !.rows = [r \in Runs |-> @[r] \cup
               (rows[r] \cap IF export[e].at = "findings" THEN Findings ELSE {Evidence})]])
    /\ UNCHANGED <<archive, assessing>>

\* collision_safe_path: a name no file has, as long as there is none.
Name(e) ==
    /\ export[e].at = "name"
    /\ \E n \in Archives :
          /\ archive[n] = NoArchive
          /\ Step(e, [export[e] EXCEPT !.at = "open", !.name = n])
    /\ UNCHANGED <<archive, assessing>>

\* ZipFile(target, "w") makes the file or empties it.
Sharing(e) == {d \in Exports : export[d].name = export[e].name
                               /\ export[d].at \in {"open", "write", "hash", "save"}}
Open(e) ==
    /\ export[e].at = "open"
    /\ archive' = [archive EXCEPT ![export[e].name] = [by |-> {e}, whole |-> FALSE]]
    /\ export' = [d \in Exports |->
          IF d = e THEN [export[e] EXCEPT !.at = "write", !.raced = @ \/ Sharing(e) # {e}]
          ELSE IF d \in Sharing(e) THEN [export[d] EXCEPT !.raced = TRUE] ELSE export[d]]
    /\ UNCHANGED assessing

\* The lists, the files and the manifest, and the archive is closed.
Fill(e) ==
    /\ export[e].at = "write"
    /\ archive' = [archive EXCEPT ![export[e].name] = [by |-> @.by \cup {e}, whole |-> TRUE]]
    /\ Step(e, [export[e] EXCEPT !.at = "hash"])
    /\ UNCHANGED assessing

\* sha256_file, then save_artifact.
Hash(e) ==
    /\ export[e].at = "hash"
    /\ Step(e, [export[e] EXCEPT !.at = "ended", !.saved = archive[export[e].name]])
    /\ UNCHANGED <<archive, assessing>>

ExportCutOff(e) ==
    /\ export[e].at \notin {"new", "ended", "cut off"}
    /\ Step(e, [export[e] EXCEPT !.at = "cut off"])
    /\ UNCHANGED <<archive, assessing>>

Export(e) == \/ ReadSessions(e) \/ ReadRows(e) \/ Name(e) \/ Open(e) \/ Fill(e) \/ Hash(e)
             \/ ExportCutOff(e)

Next == \/ \E r \in Runs : Assess(r)
        \/ \E e \in Exports : Export(e)

-----------------------------------------------------------------------------
(* Properties *)

\* An export that lists a session as completed has all its findings and
\* artifact rows, though the lists are read one after the other while
\* assessments go on; and all the session's reports are written.
ExportListsWhole ==
    \A e \in Exports : \A r \in export[e].sessions :
        /\ reports[r] = Formats
        /\ export[e].at \notin {"findings", "artifacts", "cut off"} => export[e].rows[r] = Everything

\* The archive an export recorded stays as it was recorded, whatever is
\* exported later; two exports that chose a name at the same moment may have
\* written to one file.
ExportKept ==
    \A e \in Exports :
        export[e].at = "ended" /\ ~export[e].raced =>
            archive[export[e].name] = export[e].saved /\ export[e].saved = [by |-> {e}, whole |-> TRUE]

\* A session says "running" only while its assessment goes on, or after that
\* was cut off: killed, its handler's transaction failed, or its directory could
\* not be made.
RunningIsAlive == \A r \in Runs : session[r] = "running" => run[r] # "ended"
=============================================================================
