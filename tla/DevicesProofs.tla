---------------------------- MODULE DevicesProofs ----------------------------
(***************************************************************************)
(* What MCDevices checks of the parts that work on a device's data, for    *)
(* every set of callers, labels, devices, packages, files and keys, and    *)
(* every bound: exports and Frida records, uploads, reports and backups,   *)
(* captures, the replacement of an application, package operations, the    *)
(* inventory watch and the wireless broker.  Each part has the invariant   *)
(* its proof needs, what a step of it preserves, and a theorem on the part *)
(* alone; the theorems put the parts back into the whole that runs.        *)
(***************************************************************************)
EXTENDS MCDevices, FiniteSetTheorems, FunctionTheorems, SequenceTheorems, WellFoundedInduction, TLAPS

-----------------------------------------------------------------------------
(* Each part takes its own steps in the specification that is model-checked. *)

LEMMA DevicesSteps ==
    [Next]_vars => /\ [C!Next]_(C!captureVars) /\ [A!Next]_(A!assessVars)
                   /\ [F!Next]_(F!fridaVars) /\ [U!Next]_(U!uploadVars)
                   /\ [R!Next]_(R!reportVars) /\ [X!Next]_(X!vars)
                   /\ [I!Next]_(I!inventoryVars) /\ [P!Next]_(P!packageVars)
                   /\ [B!Next]_(B!vars)
<1> USE DEF captures, assess, tracing, uploading, reporting, inventory, packages, replace, broker,
            C!captureVars, A!assessVars, F!fridaVars, U!uploadVars, R!reportVars, X!vars,
            I!inventoryVars, P!packageVars, B!vars
<1>1. CASE CapturesStep
  BY <1>1 DEF CapturesStep
<1>2. CASE AssessStep
  BY <1>2 DEF AssessStep
<1>3. CASE TracingStep
  BY <1>3 DEF TracingStep
<1>4. CASE UploadingStep
  BY <1>4 DEF UploadingStep
<1>5. CASE ReportingStep
  BY <1>5 DEF ReportingStep
<1>6. CASE InventoryStep
  BY <1>6 DEF InventoryStep
<1>7. CASE PackagesStep
  BY <1>7 DEF PackagesStep
<1>8. CASE ReplaceStep
  BY <1>8 DEF ReplaceStep
<1>9. CASE BrokerStep
  BY <1>9 DEF BrokerStep
<1>10. CASE UNCHANGED vars
  BY <1>10 DEF vars
<1> QED BY <1>1, <1>2, <1>3, <1>4, <1>5, <1>6, <1>7, <1>8, <1>9, <1>10 DEF Next

-----------------------------------------------------------------------------
(* Assessments and the exports of their project. *)

ExportStates ==
    [at : {"new", "findings", "artifacts", "name", "open", "write", "hash", "save", "ended",
           "cut off"},
     sessions : SUBSET Runs, rows : [Runs -> SUBSET A!Everything],
     name : Labels \cup {"none"}, raced : BOOLEAN,
     saved : [by : SUBSET Actors, whole : BOOLEAN]]

AssessTypes == A!TypeOK /\ export \in [Actors -> ExportStates]

\* What is there when a run has come to a step.
RunsSound ==
    \A r \in Runs :
        /\ run[r] = "new" => session[r] = "none"
        /\ run[r] \in {"static", "findings", "reports"} => A!Evidence \in rows[r]
        /\ run[r] = "reports" => Findings \subseteq rows[r]
        /\ session[r] = "completed" =>
              run[r] = "ended" /\ reports[r] = Formats /\ rows[r] = A!Everything
        /\ run[r] = "ended" => session[r] # "running"

\* The rows of a session listed as completed were all there when an export read them.
RowsRead ==
    \A e \in Actors :
        /\ export[e].at = "new" => export[e].sessions = {}
        /\ \A r \in export[e].sessions :
              /\ session[r] = "completed"
              /\ export[e].at = "artifacts" => Findings \subseteq export[e].rows[r]
              /\ export[e].at \notin {"new", "findings", "artifacts", "cut off"} =>
                    export[e].rows[r] = A!Everything

\* An export that has opened its archive shares it with none, or is marked as raced.
ArchivesApart ==
    /\ \A e \in Actors :
          /\ export[e].at \in {"open", "write", "hash", "ended"} => export[e].name \in Labels
          /\ export[e].at = "write" /\ ~export[e].raced =>
                archive[export[e].name] = [by |-> {e}, whole |-> FALSE]
          /\ export[e].at \in {"hash", "ended"} /\ ~export[e].raced =>
                archive[export[e].name] = [by |-> {e}, whole |-> TRUE]
          /\ export[e].at = "ended" /\ ~export[e].raced =>
                export[e].saved = [by |-> {e}, whole |-> TRUE]
    /\ \A d, e \in Actors :
          d # e /\ export[d].name = export[e].name
          /\ export[d].at \in {"write", "hash", "ended"} /\ export[e].at \in {"open", "write", "hash"}
             => export[d].raced

AssessInv == AssessTypes /\ RunsSound /\ RowsRead /\ ArchivesApart

LEMMA AssessInitInv == A!Init => AssessInv
<1> SUFFICES ASSUME A!Init PROVE AssessInv
  OBVIOUS
<1>1. A!NewExport \in ExportStates /\ A!NoArchive \in [by : SUBSET Actors, whole : BOOLEAN]
  BY DEF A!NewExport, A!NoArchive, ExportStates
<1>2. AssessTypes
  BY <1>1 DEF A!Init, A!TypeOK, AssessTypes, ExportStates
<1>3. RunsSound /\ RowsRead /\ ArchivesApart
  BY DEF A!Init, A!NewExport, RunsSound, RowsRead, ArchivesApart
<1> QED BY <1>2, <1>3 DEF AssessInv

\* A step of a run keeps what its session says true, and a completed session stays.
LEMMA RunStep ==
    ASSUME AssessInv, NEW r \in Runs, A!Assess(r)
    PROVE  /\ AssessTypes' /\ RunsSound' /\ UNCHANGED <<archive, export>>
           /\ \A q \in Runs : session[q] = "completed" => session'[q] = "completed"
<1>0. /\ AssessTypes /\ RunsSound
      /\ session \in [Runs -> {"none", "running", "completed", "failed"}]
      /\ rows \in [Runs -> SUBSET A!Everything] /\ reports \in [Runs -> SUBSET Formats]
      /\ run \in [Runs -> {"new", "survey", "evidence", "static", "findings", "reports",
                           "failing", "ended", "cut off"}]
  BY DEF AssessInv, AssessTypes, A!TypeOK
<1>1. UNCHANGED <<archive, export>>
  BY DEF A!Assess, A!Begin, A!Survey, A!SaveEvidence, A!SaveFinding, A!WriteReport, A!Complete,
         A!Raise, A!Fail, A!CutOff, A!exporting
<1>2. ASSUME session' \in [Runs -> {"none", "running", "completed", "failed"}],
             rows' \in [Runs -> SUBSET A!Everything], reports' \in [Runs -> SUBSET Formats],
             run' \in [Runs -> {"new", "survey", "evidence", "static", "findings", "reports",
                                "failing", "ended", "cut off"}]
      PROVE  AssessTypes'
  BY <1>0, <1>1, <1>2 DEF AssessTypes, A!TypeOK, ExportStates
<1> USE DEF A!Goto, RunsSound
<1>3. CASE A!Begin(r)
  <2>1. PICK step \in {"survey", "cut off"} : A!Goto(r, step)
    BY <1>3 DEF A!Begin
  <2> QED BY <1>0, <1>1, <1>2, <1>3, <2>1 DEF A!Begin
<1>4. CASE A!Survey(r)
  BY <1>0, <1>1, <1>2, <1>4 DEF A!Survey
<1>5. CASE A!SaveEvidence(r)
  BY <1>0, <1>1, <1>2, <1>5 DEF A!SaveEvidence, A!Everything
<1>6. CASE A!SaveFinding(r)
  <2>1. CASE Findings \subseteq rows[r]
    BY <1>0, <1>1, <1>2, <1>6, <2>1 DEF A!SaveFinding
  <2>2. CASE ~(Findings \subseteq rows[r])
    <3>1. PICK f \in Findings : rows' = [rows EXCEPT ![r] = @ \cup {f}]
      BY <1>6, <2>2 DEF A!SaveFinding
    <3>2. UNCHANGED <<session, reports, run>> /\ run[r] = "findings"
      BY <1>6, <2>2 DEF A!SaveFinding
    <3>3. rows' \in [Runs -> SUBSET A!Everything] /\ \A q \in Runs : rows[q] \subseteq rows'[q]
      BY <1>0, <3>1 DEF A!Everything
    <3> QED BY <1>0, <1>1, <1>2, <3>1, <3>2, <3>3
  <2> QED BY <2>1, <2>2
<1>7. CASE A!WriteReport(r)
  <2>1. PICK f \in Formats : reports' = [reports EXCEPT ![r] = @ \cup {f}]
    BY <1>0, <1>7 DEF A!WriteReport
  <2>2. UNCHANGED <<session, rows, run>> /\ run[r] = "reports"
    BY <1>7 DEF A!WriteReport
  <2> QED BY <1>0, <1>1, <1>2, <2>1, <2>2
<1>8. CASE A!Complete(r)
  BY <1>0, <1>1, <1>2, <1>8 DEF A!Complete, A!Everything
<1>9. CASE A!Raise(r)
  BY <1>0, <1>1, <1>2, <1>9 DEF A!Raise
<1>10. CASE A!Fail(r)
  BY <1>0, <1>1, <1>2, <1>10 DEF A!Fail
<1>11. CASE A!CutOff(r)
  BY <1>0, <1>1, <1>2, <1>11 DEF A!CutOff
<1> QED BY <1>3, <1>4, <1>5, <1>6, <1>7, <1>8, <1>9, <1>10, <1>11 DEF A!Assess

\* A step of an export keeps what it has read and whom it shares its archive with.
LEMMA ExportStep ==
    ASSUME AssessInv, NEW e \in Actors, A!Export(e)
    PROVE  AssessInv'
<1>0. /\ AssessTypes /\ RunsSound /\ RowsRead /\ ArchivesApart
      /\ export \in [Actors -> ExportStates] /\ export[e] \in ExportStates
      /\ archive \in [Labels -> [by : SUBSET Actors, whole : BOOLEAN]]
      /\ rows \in [Runs -> SUBSET A!Everything]
      /\ UNCHANGED <<session, rows, reports, run>>
  BY DEF AssessInv, AssessTypes, A!TypeOK, A!Export, A!ReadSessions, A!ReadRows, A!Name, A!Open,
         A!Fill, A!Hash, A!ExportCutOff, A!assessing
<1>1. RunsSound'
  BY <1>0 DEF RunsSound
<1>2. ASSUME export' \in [Actors -> ExportStates],
             archive' \in [Labels -> [by : SUBSET Actors, whole : BOOLEAN]]
      PROVE  AssessTypes'
  BY <1>0, <1>2 DEF AssessTypes, A!TypeOK, ExportStates
\* A step that moves one export and no archive.
<1>3. ASSUME NEW state \in ExportStates, export' = [export EXCEPT ![e] = state],
             archive' = archive,
             state.at = "new" => state.sessions = {},
             \A r \in state.sessions :
                /\ session[r] = "completed"
                /\ state.at = "artifacts" => Findings \subseteq state.rows[r]
                /\ state.at \notin {"new", "findings", "artifacts", "cut off"} =>
                      state.rows[r] = A!Everything,
             state.at \notin {"open", "write", "hash", "ended"}
      PROVE  AssessInv'
  <2>1. AssessTypes'
    BY <1>0, <1>2, <1>3
  <2>2. \A d \in Actors : export'[d] = IF d = e THEN state ELSE export[d]
    BY <1>0, <1>3
  <2>3. RowsRead'
    BY <1>0, <1>3, <2>2 DEF RowsRead
  <2>4. ArchivesApart'
    BY <1>0, <1>3, <2>2 DEF ArchivesApart
  <2> QED BY <1>1, <2>1, <2>3, <2>4 DEF AssessInv
\* One that has read everything goes on.
<1>11. ASSUME \A d \in Actors : /\ export'[d].sessions = export[d].sessions
                                /\ export'[d].rows = export[d].rows
                                /\ d # e => export'[d].at = export[d].at,
              export[e].at \notin {"new", "findings", "artifacts", "cut off"},
              export'[e].at \notin {"new", "findings", "artifacts", "cut off"}
       PROVE  RowsRead'
  <2> SUFFICES ASSUME NEW d \in Actors
               PROVE  /\ export'[d].at = "new" => export'[d].sessions = {}
                      /\ \A r \in export'[d].sessions :
                            /\ session'[r] = "completed"
                            /\ export'[d].at = "artifacts" => Findings \subseteq export'[d].rows[r]
                            /\ export'[d].at \notin {"new", "findings", "artifacts", "cut off"} =>
                                  export'[d].rows[r] = A!Everything
    BY DEF RowsRead, A!Everything
  <2>1. session' = session /\ RowsRead
    BY <1>0
  <2>2. /\ export[d].at = "new" => export[d].sessions = {}
        /\ \A r \in export[d].sessions :
              /\ session[r] = "completed"
              /\ export[d].at = "artifacts" => Findings \subseteq export[d].rows[r]
              /\ export[d].at \notin {"new", "findings", "artifacts", "cut off"} =>
                    export[d].rows[r] = A!Everything
    BY <2>1 DEF RowsRead
  <2>3. export'[d].sessions = export[d].sessions /\ export'[d].rows = export[d].rows
    BY <1>11
  <2>4. CASE d = e
    BY <1>11, <2>1, <2>2, <2>3, <2>4
  <2>5. CASE d # e
    <3>1. export'[d].at = export[d].at
      BY <1>11, <2>5
    <3> QED BY <2>1, <2>2, <2>3, <3>1
  <2> QED BY <2>4, <2>5
\* Another export keeps what it has when no archive of its own changes.
<1>12. ASSUME \A d \in Actors \ {e} : export'[d] = export[d],
              export'[e].name = export[e].name, export'[e].raced = export[e].raced,
              export[e].at \in {"write", "hash"}, export'[e].at \in {"hash", "ended"},
              \A n \in Labels \ {export[e].name} : archive'[n] = archive[n],
              \/ export'[e].raced
              \/ /\ archive'[export[e].name] = [by |-> {e}, whole |-> TRUE]
                 /\ export'[e].at = "ended" => export'[e].saved = [by |-> {e}, whole |-> TRUE]
       PROVE  ArchivesApart'
  <2>1. \A d \in Actors \ {e} : export[d].at \in {"write", "hash", "ended"}
                                /\ export[d].name = export[e].name => export[d].raced
    BY <1>0, <1>12 DEF ArchivesApart
  <2>2. ASSUME NEW d \in Actors
        PROVE  /\ export'[d].at \in {"open", "write", "hash", "ended"} => export'[d].name \in Labels
               /\ export'[d].at = "write" /\ ~export'[d].raced =>
                     archive'[export'[d].name] = [by |-> {d}, whole |-> FALSE]
               /\ export'[d].at \in {"hash", "ended"} /\ ~export'[d].raced =>
                     archive'[export'[d].name] = [by |-> {d}, whole |-> TRUE]
               /\ export'[d].at = "ended" /\ ~export'[d].raced =>
                     export'[d].saved = [by |-> {d}, whole |-> TRUE]
    <3>1. CASE d = e
      BY <1>0, <1>12, <3>1 DEF ArchivesApart
    <3>2. CASE d # e
      <4>1. export'[d] = export[d]
        BY <1>12, <3>2
      <4>2. export[d].at \in {"write", "hash", "ended"} /\ ~export[d].raced =>
               export[d].name \in Labels \ {export[e].name}
        BY <1>0, <2>1, <3>2 DEF ArchivesApart
      <4>3. export[d].at \in {"write", "hash", "ended"} /\ ~export[d].raced =>
               archive'[export[d].name] = archive[export[d].name]
        BY <1>12, <4>2
      <4> QED BY <1>0, <4>1, <4>3 DEF ArchivesApart
    <3> QED BY <3>1, <3>2
  <2>3. ASSUME NEW c \in Actors, NEW d \in Actors, c # d, export'[c].name = export'[d].name,
               export'[c].at \in {"write", "hash", "ended"},
               export'[d].at \in {"open", "write", "hash"}
        PROVE  export'[c].raced
    BY <1>0, <1>12, <2>3 DEF ArchivesApart
  <2> QED BY <2>2, <2>3 DEF ArchivesApart
<1> USE DEF A!Step
<1>4. CASE A!ReadSessions(e)
  <2> DEFINE state == [export[e] EXCEPT !.at = "findings", !.sessions = A!Completed]
  <2>1. state \in ExportStates /\ state.at = "findings" /\ state.sessions = A!Completed
    BY <1>0 DEF ExportStates, A!Completed
  <2>2. export' = [export EXCEPT ![e] = state] /\ archive' = archive
    BY <1>4 DEF A!ReadSessions
  <2> HIDE DEF state
  <2> QED BY <1>3, <2>1, <2>2 DEF A!Completed
<1>5. CASE A!ReadRows(e)
  <2> DEFINE found == IF export[e].at = "findings" THEN Findings ELSE {A!Evidence}
             listed == [r \in Runs |-> export[e].rows[r] \cup (rows[r] \cap found)]
             to == IF export[e].at = "findings" THEN "artifacts" ELSE "name"
             state == [export[e] EXCEPT !.at = to, !.rows = listed]
  <2>1. listed \in [Runs -> SUBSET A!Everything]
        /\ \A r \in Runs : listed[r] = export[e].rows[r] \cup (rows[r] \cap found)
    BY <1>0 DEF ExportStates
  <2>2. export' = [export EXCEPT ![e] = state] /\ archive' = archive
        /\ export[e].at \in {"findings", "artifacts"}
    BY <1>5 DEF A!ReadRows
  <2> HIDE DEF listed
  <2>3. state \in ExportStates /\ state.at = to /\ state.sessions = export[e].sessions
        /\ state.rows = listed /\ to \in {"artifacts", "name"}
    BY <1>0, <2>1 DEF ExportStates
  <2> HIDE DEF state
  <2>4. ASSUME NEW r \in export[e].sessions
        PROVE  /\ session[r] = "completed" /\ r \in Runs
               /\ to = "artifacts" => Findings \subseteq listed[r]
               /\ to = "name" => listed[r] = A!Everything
    <3>1. session[r] = "completed" /\ r \in Runs /\ rows[r] = A!Everything
          /\ export[e].rows[r] \subseteq A!Everything
      BY <1>0 DEF RowsRead, RunsSound, ExportStates
    <3>2. CASE export[e].at = "findings"
      BY <2>1, <3>1, <3>2 DEF A!Everything
    <3>3. CASE export[e].at = "artifacts"
      <4>1. Findings \subseteq export[e].rows[r]
        BY <1>0, <3>3 DEF RowsRead
      <4> QED BY <2>1, <3>1, <3>3, <4>1 DEF A!Everything
    <3> QED BY <2>2, <3>2, <3>3
  <2> HIDE DEF to
  <2> QED BY <1>3, <2>2, <2>3, <2>4
<1>6. CASE A!Name(e)
  <2>1. PICK n \in Labels : archive[n] = A!NoArchive
                            /\ export' = [export EXCEPT ![e] = [export[e] EXCEPT !.at = "open", !.name = n]]
    BY <1>6 DEF A!Name
  <2>2. archive' = archive /\ export[e].at = "name"
    BY <1>6 DEF A!Name
  <2> DEFINE state == [export[e] EXCEPT !.at = "open", !.name = n]
  <2>3. state \in ExportStates /\ state.at = "open" /\ state.name = n
        /\ state.sessions = export[e].sessions /\ state.rows = export[e].rows
    BY <1>0 DEF ExportStates
  <2>4. export' = [export EXCEPT ![e] = state]
    BY <2>1
  <2> HIDE DEF state
  <2>5. \A d \in Actors : export'[d] = IF d = e THEN state ELSE export[d]
    BY <1>0, <2>4
  <2>6. AssessTypes'
    BY <1>0, <1>2, <2>2, <2>3, <2>4
  <2>7. RowsRead'
    BY <1>11, <2>2, <2>3, <2>5
  <2>8. \A d \in Actors : export[d].at \in {"write", "hash", "ended"} /\ export[d].name = n
                          => export[d].raced
    <3> SUFFICES ASSUME NEW d \in Actors, export[d].at \in {"write", "hash", "ended"},
                        export[d].name = n, ~export[d].raced
                 PROVE  FALSE
      OBVIOUS
    <3>1. archive[n] = [by |-> {d}, whole |-> FALSE] \/ archive[n] = [by |-> {d}, whole |-> TRUE]
      BY <1>0 DEF ArchivesApart
    <3> QED BY <2>1, <3>1 DEF A!NoArchive
  <2>9. ArchivesApart'
    BY <1>0, <2>2, <2>3, <2>5, <2>8 DEF ArchivesApart
  <2> QED BY <1>1, <2>6, <2>7, <2>9 DEF AssessInv
<1>7. CASE A!Open(e)
  <2> DEFINE n == export[e].name
             mine == [export[e] EXCEPT !.at = "write", !.raced = @ \/ A!Sharing(e) # {e}]
             hers(d) == [export[d] EXCEPT !.raced = TRUE]
  <2>1. export[e].at = "open" /\ n \in Labels
    BY <1>0, <1>7 DEF A!Open, ArchivesApart
  <2>2. /\ archive' = [archive EXCEPT ![n] = [by |-> {e}, whole |-> FALSE]]
        /\ export' = [d \in Actors |-> IF d = e THEN mine
                                       ELSE IF d \in A!Sharing(e) THEN hers(d) ELSE export[d]]
    BY <1>7 DEF A!Open
  <2>3. /\ mine \in ExportStates /\ mine.at = "write" /\ mine.name = n
        /\ mine.sessions = export[e].sessions /\ mine.rows = export[e].rows
        /\ ~mine.raced => A!Sharing(e) = {e}
    BY <1>0 DEF ExportStates
  <2>4. ASSUME NEW d \in Actors
        PROVE  /\ hers(d) \in ExportStates /\ hers(d).raced = TRUE
               /\ hers(d).at = export[d].at /\ hers(d).name = export[d].name
               /\ hers(d).sessions = export[d].sessions /\ hers(d).rows = export[d].rows
               /\ hers(d).saved = export[d].saved
    BY <1>0 DEF ExportStates
  <2> HIDE DEF mine, hers, n
  <2>5. export' \in [Actors -> ExportStates]
        /\ archive' \in [Labels -> [by : SUBSET Actors, whole : BOOLEAN]]
    BY <1>0, <2>1, <2>2, <2>3, <2>4
  <2>6. ASSUME NEW d \in Actors, d # e
        PROVE  /\ export'[d].at = export[d].at /\ export'[d].name = export[d].name
               /\ export'[d].sessions = export[d].sessions /\ export'[d].rows = export[d].rows
               /\ export'[d].saved = export[d].saved
               /\ export[d].raced => export'[d].raced
               /\ d \in A!Sharing(e) => export'[d].raced
    BY <1>0, <2>2, <2>4, <2>6 DEF ExportStates
  <2>7. export'[e] = mine
    BY <2>2
  <2>8. RowsRead'
    BY <1>11, <2>1, <2>3, <2>6, <2>7
  <2>9. \A d \in Actors \ {e} :
           /\ export[d].name = n /\ export[d].at \in {"open", "write", "hash"} => d \in A!Sharing(e)
           /\ export[d].name = n /\ export[d].at = "ended" => export[d].raced
    BY <1>0, <2>1 DEF A!Sharing, ArchivesApart, n
  <2>10. \A m \in Labels : archive'[m] = IF m = n THEN [by |-> {e}, whole |-> FALSE] ELSE archive[m]
    BY <1>0, <2>1, <2>2
  <2>11. ASSUME NEW d \in Actors
         PROVE  /\ export'[d].at \in {"open", "write", "hash", "ended"} => export'[d].name \in Labels
                /\ export'[d].at = "write" /\ ~export'[d].raced =>
                      archive'[export'[d].name] = [by |-> {d}, whole |-> FALSE]
                /\ export'[d].at \in {"hash", "ended"} /\ ~export'[d].raced =>
                      archive'[export'[d].name] = [by |-> {d}, whole |-> TRUE]
                /\ export'[d].at = "ended" /\ ~export'[d].raced =>
                      export'[d].saved = [by |-> {d}, whole |-> TRUE]
    <3>1. CASE d = e
      BY <2>1, <2>3, <2>7, <2>10, <3>1
    <3>2. CASE d # e
      BY <1>0, <2>6, <2>9, <2>10, <3>2 DEF ArchivesApart
    <3> QED BY <3>1, <3>2
  <2>12. ASSUME NEW c \in Actors, NEW d \in Actors, c # d, export'[c].name = export'[d].name,
                export'[c].at \in {"write", "hash", "ended"},
                export'[d].at \in {"open", "write", "hash"}
         PROVE  export'[c].raced
    <3>1. CASE c = e
      BY <2>3, <2>6, <2>7, <2>9, <2>12, <3>1
    <3>2. CASE c # e /\ d = e
      BY <2>3, <2>6, <2>7, <2>9, <2>12, <3>2
    <3>3. CASE c # e /\ d # e
      BY <1>0, <2>6, <2>12, <3>3 DEF ArchivesApart
    <3> QED BY <3>1, <3>2, <3>3
  <2>13. ArchivesApart'
    BY <2>11, <2>12 DEF ArchivesApart
  <2> QED BY <1>1, <1>2, <2>5, <2>8, <2>13 DEF AssessInv
<1>8. CASE A!Fill(e)
  <2> DEFINE n == export[e].name
             state == [export[e] EXCEPT !.at = "hash"]
             all == [by |-> archive[n].by \cup {e}, whole |-> TRUE]
  <2>1. export[e].at = "write" /\ n \in Labels
    BY <1>0, <1>8 DEF A!Fill, ArchivesApart
  <2>2. archive' = [archive EXCEPT ![n] = all] /\ export' = [export EXCEPT ![e] = state]
    BY <1>8 DEF A!Fill
  <2>3. /\ state \in ExportStates /\ state.at = "hash" /\ state.name = n
        /\ state.sessions = export[e].sessions /\ state.rows = export[e].rows
        /\ state.raced = export[e].raced
        /\ all \in [by : SUBSET Actors, whole : BOOLEAN]
    BY <1>0, <2>1 DEF ExportStates
  <2>4. ~export[e].raced => all = [by |-> {e}, whole |-> TRUE]
    <3> SUFFICES ASSUME ~export[e].raced PROVE all = [by |-> {e}, whole |-> TRUE]
      OBVIOUS
    <3>1. archive[n] = [by |-> {e}, whole |-> FALSE]
      BY <1>0, <2>1 DEF ArchivesApart
    <3>2. archive[n].by \cup {e} = {e}
      BY <3>1
    <3> QED BY <3>2
  <2> HIDE DEF state, all
  <2>5. \A d \in Actors : export'[d] = IF d = e THEN state ELSE export[d]
    BY <1>0, <2>2
  <2>6. AssessTypes'
    BY <1>0, <1>2, <2>1, <2>2, <2>3
  <2>7. RowsRead'
    BY <1>11, <2>1, <2>3, <2>5
  <2>8. archive'[n] = all /\ \A m \in Labels \ {n} : archive'[m] = archive[m]
    BY <1>0, <2>1, <2>2
  <2>9. export'[e] = state /\ \A d \in Actors \ {e} : export'[d] = export[d]
    BY <2>5
  <2>10. ArchivesApart'
    BY <1>12, <2>1, <2>3, <2>4, <2>8, <2>9
  <2> QED BY <1>1, <2>6, <2>7, <2>10 DEF AssessInv
<1>9. CASE A!Hash(e)
  <2> DEFINE state == [export[e] EXCEPT !.at = "ended", !.saved = archive[export[e].name]]
  <2>1. export[e].at = "hash" /\ export[e].name \in Labels /\ archive' = archive
    BY <1>0, <1>9 DEF A!Hash, ArchivesApart
  <2>2. export' = [export EXCEPT ![e] = state]
    BY <1>9 DEF A!Hash
  <2>3. /\ state \in ExportStates /\ state.at = "ended" /\ state.name = export[e].name
        /\ state.sessions = export[e].sessions /\ state.rows = export[e].rows
        /\ state.raced = export[e].raced /\ state.saved = archive[export[e].name]
    BY <1>0, <2>1 DEF ExportStates
  <2> HIDE DEF state
  <2>4. \A d \in Actors : export'[d] = IF d = e THEN state ELSE export[d]
    BY <1>0, <2>2
  <2>5. AssessTypes'
    BY <1>0, <1>2, <2>1, <2>2, <2>3
  <2>6. RowsRead'
    BY <1>11, <2>1, <2>3, <2>4
  <2>7. ~export[e].raced => archive[export[e].name] = [by |-> {e}, whole |-> TRUE]
    BY <1>0, <2>1 DEF ArchivesApart
  <2>8. export'[e] = state /\ \A d \in Actors \ {e} : export'[d] = export[d]
    BY <2>4
  <2>9. ArchivesApart'
    BY <1>12, <2>1, <2>3, <2>7, <2>8
  <2> QED BY <1>1, <2>5, <2>6, <2>9 DEF AssessInv
<1>10. CASE A!ExportCutOff(e)
  <2> DEFINE state == [export[e] EXCEPT !.at = "cut off"]
  <2>1. state \in ExportStates /\ state.at = "cut off" /\ state.sessions = export[e].sessions
    BY <1>0 DEF ExportStates
  <2>2. export' = [export EXCEPT ![e] = state] /\ archive' = archive
    BY <1>10 DEF A!ExportCutOff
  <2>3. \A r \in export[e].sessions : session[r] = "completed"
    BY <1>0 DEF RowsRead
  <2> HIDE DEF state
  <2> QED BY <1>3, <2>1, <2>2, <2>3
<1> QED BY <1>4, <1>5, <1>6, <1>7, <1>8, <1>9, <1>10 DEF A!Export

LEMMA AssessStepInv == AssessInv /\ [A!Next]_(A!assessVars) => AssessInv'
<1> SUFFICES ASSUME AssessInv, [A!Next]_(A!assessVars) PROVE AssessInv'
  OBVIOUS
<1>1. ASSUME NEW r \in Runs, A!Assess(r) PROVE AssessInv'
  <2>1. /\ AssessTypes' /\ RunsSound' /\ UNCHANGED <<archive, export>>
        /\ \A q \in Runs : session[q] = "completed" => session'[q] = "completed"
    BY <1>1, RunStep
  <2>2. RowsRead /\ ArchivesApart /\ \A e \in Actors : export[e].sessions \subseteq Runs
    BY DEF AssessInv, AssessTypes, ExportStates
  <2>3. RowsRead'
    BY <2>1, <2>2 DEF RowsRead
  <2>4. ArchivesApart'
    BY <2>1, <2>2 DEF ArchivesApart
  <2> QED BY <2>1, <2>3, <2>4 DEF AssessInv
<1>2. ASSUME NEW e \in Actors, A!Export(e) PROVE AssessInv'
  BY <1>2, ExportStep
<1>3. CASE UNCHANGED A!assessVars
  <2>1. UNCHANGED <<session, rows, reports, run, archive, export>>
    BY <1>3 DEF A!assessVars
  <2>2. AssessTypes'
    BY <2>1 DEF AssessInv, AssessTypes, A!TypeOK, ExportStates
  <2>3. RunsSound' /\ RowsRead'
    BY <2>1 DEF AssessInv, RunsSound, RowsRead
  <2>4. ArchivesApart'
    BY <2>1 DEF AssessInv, ArchivesApart
  <2> QED BY <2>2, <2>3, <2>4 DEF AssessInv
<1> QED BY <1>1, <1>2, <1>3 DEF A!Next

\* Exports of one project, made while its assessments go on, list whole sessions and are
\* kept; and a session says that it runs only while it does.
THEOREM ExportsAreWhole ==
    A!Init /\ [][A!Next]_(A!assessVars) =>
        [](A!TypeOK /\ A!ExportListsWhole /\ A!ExportKept /\ A!RunningIsAlive)
<1>1. AssessInv => A!ExportListsWhole /\ A!ExportKept /\ A!RunningIsAlive
  <2> SUFFICES ASSUME AssessInv PROVE A!ExportListsWhole /\ A!ExportKept /\ A!RunningIsAlive
    OBVIOUS
  <2>0. RunsSound /\ RowsRead /\ ArchivesApart /\ \A e \in Actors : export[e] \in ExportStates
    BY DEF AssessInv, AssessTypes
  <2>1. A!ExportListsWhole
    BY <2>0 DEF A!ExportListsWhole, RunsSound, RowsRead, ExportStates
  <2>2. A!ExportKept
    BY <2>0 DEF A!ExportKept, ArchivesApart
  <2>3. A!RunningIsAlive
    BY <2>0 DEF A!RunningIsAlive, RunsSound
  <2> QED BY <2>1, <2>2, <2>3
<1>2. AssessInv => A!TypeOK
  BY DEF AssessInv, AssessTypes
<1> QED BY <1>1, <1>2, AssessInitInv, AssessStepInv, PTL

-----------------------------------------------------------------------------
(* The records of Frida runs. *)

FridaOutcomes == {"completed", "failed", "timeout"}

FridaInv ==
    /\ F!TypeOK
    /\ \A f \in Fridas :
          /\ fridaRun[f].at = "new" => frida[f] = "none"
          /\ fridaRun[f].at \in {"stdout", "stderr", "complete"} => fridaRun[f].status \in FridaOutcomes
          /\ fridaRun[f].at = "stderr" => "stdout" \in logs[f]
          /\ fridaRun[f].at = "complete" => logs[f] = {"stdout", "stderr"}
          /\ frida[f] \in FridaOutcomes => logs[f] = {"stdout", "stderr"} /\ fridaRun[f].at = "ended"
          /\ fridaRun[f].at = "ended" => frida[f] # "running"

LEMMA FridaStepInv == FridaInv /\ [F!Next]_(F!fridaVars) => FridaInv'
<1> SUFFICES ASSUME FridaInv, [F!Next]_(F!fridaVars) PROVE FridaInv'
  OBVIOUS
<1> DEFINE States == [at : {"new", "run", "stdout", "stderr", "complete", "ended", "cut off"},
                      status : {"none", "completed", "failed", "timeout"}]
<1>0. /\ frida \in [Fridas -> {"none", "running", "completed", "failed", "timeout"}]
      /\ logs \in [Fridas -> SUBSET {"stdout", "stderr"}]
      /\ fridaRun \in [Fridas -> States]
  BY DEF FridaInv, F!TypeOK
\* What a step does to the one record it moves.
<1>1. ASSUME NEW f \in Fridas, fridaRun' \in [Fridas -> States],
             frida' \in [Fridas -> {"none", "running", "completed", "failed", "timeout"}],
             logs' \in [Fridas -> SUBSET {"stdout", "stderr"}],
             \A g \in Fridas \ {f} : fridaRun'[g] = fridaRun[g] /\ frida'[g] = frida[g]
                                     /\ logs'[g] = logs[g],
             fridaRun'[f].at # "new",
             fridaRun'[f].at \in {"stdout", "stderr", "complete"} => fridaRun'[f].status \in FridaOutcomes,
             fridaRun'[f].at = "stderr" => "stdout" \in logs'[f],
             fridaRun'[f].at = "complete" => logs'[f] = {"stdout", "stderr"},
             frida'[f] \in FridaOutcomes => logs'[f] = {"stdout", "stderr"} /\ fridaRun'[f].at = "ended",
             fridaRun'[f].at = "ended" => frida'[f] # "running"
      PROVE  FridaInv'
  <2>1. F!TypeOK'
    BY <1>1 DEF F!TypeOK
  <2>2. ASSUME NEW g \in Fridas
        PROVE  /\ fridaRun'[g].at = "new" => frida'[g] = "none"
               /\ fridaRun'[g].at \in {"stdout", "stderr", "complete"} =>
                     fridaRun'[g].status \in FridaOutcomes
               /\ fridaRun'[g].at = "stderr" => "stdout" \in logs'[g]
               /\ fridaRun'[g].at = "complete" => logs'[g] = {"stdout", "stderr"}
               /\ frida'[g] \in FridaOutcomes =>
                     logs'[g] = {"stdout", "stderr"} /\ fridaRun'[g].at = "ended"
               /\ fridaRun'[g].at = "ended" => frida'[g] # "running"
    <3>1. CASE g = f
      BY <1>1, <3>1
    <3>2. CASE g # f
      BY <1>1, <3>2 DEF FridaInv
    <3> QED BY <3>1, <3>2
  <2> QED BY <2>1, <2>2 DEF FridaInv
<1>2. ASSUME NEW f \in Fridas, F!Trace(f) PROVE FridaInv'
  <2>0. /\ fridaRun[f] \in States
        /\ frida[f] \in {"none", "running", "completed", "failed", "timeout"}
        /\ logs[f] \subseteq {"stdout", "stderr"}
        /\ fridaRun[f].at = "new" => frida[f] = "none"
        /\ fridaRun[f].at \in {"stdout", "stderr", "complete"} => fridaRun[f].status \in FridaOutcomes
        /\ fridaRun[f].at = "stderr" => "stdout" \in logs[f]
        /\ fridaRun[f].at = "complete" => logs[f] = {"stdout", "stderr"}
        /\ frida[f] \in FridaOutcomes => logs[f] = {"stdout", "stderr"} /\ fridaRun[f].at = "ended"
        /\ fridaRun[f].at = "ended" => frida[f] # "running"
    BY <1>0 DEF FridaInv
  <2> USE DEF F!FridaGoto, FridaOutcomes
  <2>1. CASE F!FridaBegin(f)
    BY <1>0, <1>1, <2>0, <2>1 DEF F!FridaBegin
  <2>2. CASE F!FridaEnds(f)
    <3>1. PICK status \in FridaOutcomes :
             fridaRun' = [fridaRun EXCEPT ![f] = [at |-> "stdout", status |-> status]]
      BY <2>2 DEF F!FridaEnds
    <3>2. frida' = frida /\ logs' = logs /\ fridaRun[f].at = "run"
      BY <2>2 DEF F!FridaEnds
    <3>3. /\ fridaRun'[f].at = "stdout" /\ fridaRun'[f].status = status
          /\ fridaRun' \in [Fridas -> States]
      <4> DEFINE state == [at |-> "stdout", status |-> status]
      <4>1. state \in States /\ state.at = "stdout" /\ state.status = status
        OBVIOUS
      <4> HIDE DEF state, States
      <4> QED BY <1>0, <3>1, <4>1 DEF state
    <3>4. \A g \in Fridas \ {f} : fridaRun'[g] = fridaRun[g]
      BY <1>0, <3>1
    <3> HIDE DEF States
    <3>5. frida[f] \notin FridaOutcomes
      BY <2>0, <3>2
    <3> QED BY <1>0, <1>1, <3>2, <3>3, <3>4, <3>5
  <2>3. CASE F!FridaLog(f)
    <3> DEFINE to == IF fridaRun[f].at = "stdout" THEN "stderr" ELSE "complete"
    <3>1. /\ fridaRun[f].at \in {"stdout", "stderr"} /\ frida' = frida
          /\ logs' = [logs EXCEPT ![f] = logs[f] \cup {fridaRun[f].at}]
          /\ fridaRun' = [fridaRun EXCEPT ![f] = [at |-> to, status |-> fridaRun[f].status]]
      BY <2>3 DEF F!FridaLog
    <3>2. /\ to \in {"stderr", "complete"}
          /\ to = "complete" => fridaRun[f].at = "stderr"
          /\ fridaRun[f].status \in FridaOutcomes
      BY <2>0, <3>1
    <3> HIDE DEF to
    <3>3. /\ fridaRun'[f].at = to /\ fridaRun'[f].status \in FridaOutcomes
          /\ fridaRun' \in [Fridas -> States]
      <4> DEFINE state == [at |-> to, status |-> fridaRun[f].status]
      <4>1. state \in States /\ state.at = to /\ state.status = fridaRun[f].status
        BY <2>0, <3>2
      <4>2. fridaRun' = [fridaRun EXCEPT ![f] = state]
        BY <3>1
      <4> HIDE DEF state, States
      <4> QED BY <1>0, <3>2, <4>1, <4>2
    <3>4. logs'[f] = logs[f] \cup {fridaRun[f].at} /\ logs' \in [Fridas -> SUBSET {"stdout", "stderr"}]
      BY <1>0, <3>1
    <3>5. \A g \in Fridas \ {f} : fridaRun'[g] = fridaRun[g] /\ logs'[g] = logs[g]
      BY <1>0, <3>1
    <3>6. to = "stderr" => "stdout" \in logs'[f]
      BY <2>0, <3>1, <3>4 DEF to
    <3>7. to = "complete" => logs'[f] = {"stdout", "stderr"}
      BY <2>0, <3>1, <3>2, <3>4
    <3>8. frida[f] \notin FridaOutcomes
      BY <2>0, <3>1
    <3> HIDE DEF States
    <3> QED BY <1>0, <1>1, <3>1, <3>2, <3>3, <3>4, <3>5, <3>6, <3>7, <3>8
  <2>4. CASE F!FridaComplete(f)
    BY <1>0, <1>1, <2>0, <2>4 DEF F!FridaComplete
  <2>5. CASE F!FridaCutOff(f)
    BY <1>0, <1>1, <2>0, <2>5 DEF F!FridaCutOff
  <2> QED BY <1>2, <2>1, <2>2, <2>3, <2>4, <2>5 DEF F!Trace
<1>3. CASE UNCHANGED F!fridaVars
  BY <1>3 DEF F!fridaVars, FridaInv, F!TypeOK
<1> QED BY <1>2, <1>3 DEF F!Next

\* A Frida record says running only while its run goes on, and names an outcome only when
\* both logs are written.
THEOREM FridaIsRecorded ==
    F!Init /\ [][F!Next]_(F!fridaVars) => [](F!TypeOK /\ F!RecordedWithLogs)
<1>1. F!Init => FridaInv
  BY DEF F!Init, FridaInv, F!TypeOK, FridaOutcomes
<1>2. FridaInv => F!TypeOK /\ F!RecordedWithLogs
  BY DEF FridaInv, F!TypeOK, F!RecordedWithLogs, FridaOutcomes
<1> QED BY <1>1, <1>2, FridaStepInv, PTL

-----------------------------------------------------------------------------
(* Uploads of files with one name. *)

\* A set of naturals that is not empty has a least one.
LEMMA LeastNatural ==
    ASSUME NEW S \in SUBSET Nat, S # {}
    PROVE  \E n \in S : \A m \in S : n <= m
<1> DEFINE Less == {pair \in Nat \X Nat : pair[1] < pair[2]}
<1>1. OpToRel(<, Nat) = Less
  BY DEF OpToRel
<1>2. IsWellFoundedOn(Less, Nat)
  BY <1>1, NatLessThanWellFounded, Zenon
<1> HIDE DEF Less
<1>3. PICK n \in S : \A m \in S : ~(<<m, n>> \in Less)
  BY <1>2, WFMin
<1>4. ASSUME NEW m \in S, m < n PROVE FALSE
  <2>1. <<m, n>> \in Less
    BY <1>4 DEF Less
  <2> QED BY <1>3, <2>1
<1> QED BY <1>4

\* There are more suffixes than uploads: while one has not begun, a name is free.
LEMMA VacantFound ==
    ASSUME IsFiniteSet(Uploads), NEW idle \in Uploads,
           \A n \in U!Suffixes : uploaded[n] # U!None =>
               uploaded[n] \in Uploads \ {idle} /\ upload[uploaded[n]].at = n
    PROVE  /\ U!Vacant \in U!Suffixes /\ uploaded[U!Vacant] = U!None
<1>0. /\ Cardinality(Uploads) \in Nat /\ U!Suffixes = 0 .. Cardinality(Uploads)
      /\ IsFiniteSet(U!Suffixes) /\ Cardinality(U!Suffixes) = Cardinality(Uploads) + 1
  <2>1. U!Suffixes = 0 .. Cardinality(Uploads)
    BY DEF U!Suffixes, U!Cardinality, Cardinality
  <2>2. Cardinality(Uploads) \in Nat
    BY FS_CardinalityType
  <2> QED BY <2>1, <2>2, FS_Interval
<1> DEFINE Free == {n \in U!Suffixes : uploaded[n] = U!None}
           taker == [n \in U!Suffixes |-> uploaded[n]]
<1>1. Free # {}
  <2> SUFFICES ASSUME Free = {} PROVE FALSE
    OBVIOUS
  <2>1. taker \in [U!Suffixes -> Uploads] /\ \A m, n \in U!Suffixes : taker[m] = taker[n] => m = n
    OBVIOUS
  <2> HIDE DEF taker
  <2>2. taker \in Injection(U!Suffixes, Uploads)
    BY <2>1, Fun_IsInj
  <2>3. Cardinality(U!Suffixes) <= Cardinality(Uploads)
    BY <2>2, FS_Injection
  <2> QED BY <1>0, <2>3
<1>2. PICK n \in Free : \A m \in Free : n <= m
  <2>1. Free \in SUBSET Nat
    BY <1>0
  <2> HIDE DEF Free
  <2> QED BY <1>1, <2>1, LeastNatural
<1>3. n \in U!Suffixes /\ uploaded[n] = U!None /\ \A m \in 0 .. n - 1 : uploaded[m] # U!None
  BY <1>0, <1>2
<1> QED BY <1>3 DEF U!Vacant

UploadStates == [pc : {"idle", "open", "ok", "refused"}, at : U!Suffixes]

\* Every file is that of the one upload that was given its name.
UploadInv ==
    /\ upload \in [Uploads -> UploadStates]
    /\ uploaded \in [U!Suffixes -> Uploads \cup {U!None}]
    /\ \A u \in Uploads : upload[u].pc \in {"open", "ok"} => uploaded[upload[u].at] = u
    /\ \A n \in U!Suffixes : uploaded[n] # U!None =>
          upload[uploaded[n]].pc \in {"open", "ok"} /\ upload[uploaded[n]].at = n

LEMMA UploadFacts == IsFiniteSet(Uploads) /\ U!None \notin Uploads
BY DevicesAssumption DEF U!UploadsAssumption, U!IsFiniteSet, IsFiniteSet

LEMMA UploadStepInv == UploadInv /\ [U!Next]_(U!uploadVars) => UploadInv'
<1> SUFFICES ASSUME UploadInv, [U!Next]_(U!uploadVars) PROVE UploadInv'
  OBVIOUS
<1>0. /\ upload \in [Uploads -> UploadStates]
      /\ uploaded \in [U!Suffixes -> Uploads \cup {U!None}]
      /\ \A u \in Uploads : upload[u].pc \in {"open", "ok"} => uploaded[upload[u].at] = u
      /\ \A n \in U!Suffixes : uploaded[n] # U!None =>
            upload[uploaded[n]].pc \in {"open", "ok"} /\ upload[uploaded[n]].at = n
  BY DEF UploadInv
<1>1. ASSUME NEW u \in Uploads, U!OpenUpload(u) PROVE UploadInv'
  <2> DEFINE n == U!Vacant
             state == [pc |-> "open", at |-> n]
  <2>1. upload[u].pc = "idle" /\ upload' = [upload EXCEPT ![u] = state]
        /\ uploaded' = [uploaded EXCEPT ![n] = u]
    BY <1>1 DEF U!OpenUpload
  <2>2. n \in U!Suffixes /\ uploaded[n] = U!None
    BY <1>0, <2>1, UploadFacts, VacantFound
  <2> HIDE DEF n
  <2>3. state \in UploadStates /\ state.pc = "open" /\ state.at = n
    BY <2>2 DEF UploadStates
  <2> HIDE DEF state
  <2> QED BY <1>0, <2>1, <2>2, <2>3, UploadFacts DEF UploadInv, UploadStates
<1>2. ASSUME NEW u \in Uploads, U!EndUpload(u) PROVE UploadInv'
  <2> DEFINE state == [upload[u] EXCEPT !.pc = "ok"]
  <2>1. upload[u].pc = "open" /\ upload' = [upload EXCEPT ![u] = state]
    BY <1>2 DEF U!EndUpload
  <2>2. state \in UploadStates /\ state.pc = "ok" /\ state.at = upload[u].at
    BY <1>0 DEF UploadStates
  <2> HIDE DEF state
  <2>3. uploaded' = uploaded
    <3>1. uploaded[upload[u].at] = u
      BY <1>0, <2>1
    <3> QED BY <1>0, <1>2, <3>1 DEF U!EndUpload
  <2> QED BY <1>0, <2>1, <2>2, <2>3 DEF UploadInv
<1>3. ASSUME NEW u \in Uploads, U!RefuseUpload(u) PROVE UploadInv'
  <2> DEFINE state == [upload[u] EXCEPT !.pc = "refused"]
  <2>1. upload[u].pc = "open" /\ upload' = [upload EXCEPT ![u] = state]
        /\ uploaded' = [uploaded EXCEPT ![upload[u].at] = U!None]
    BY <1>3 DEF U!RefuseUpload
  <2>2. state \in UploadStates /\ state.pc = "refused" /\ state.at = upload[u].at
        /\ upload[u].at \in U!Suffixes
    BY <1>0 DEF UploadStates
  <2> HIDE DEF state
  <2> QED BY <1>0, <2>1, <2>2, UploadFacts DEF UploadInv, UploadStates
<1>4. CASE UNCHANGED U!uploadVars
  BY <1>0, <1>4 DEF U!uploadVars, UploadInv
<1> QED BY <1>1, <1>2, <1>3, <1>4 DEF U!Next

\* An upload that was answered is what its file holds, whichever were made or refused
\* under the same name at the same time.
THEOREM UploadsAreKept ==
    U!Init /\ [][U!Next]_(U!uploadVars) => [](U!TypeOK /\ U!UploadsKept)
<1>1. U!Init => UploadInv
  <2> SUFFICES ASSUME U!Init PROVE UploadInv
    OBVIOUS
  <2>1. 0 \in U!Suffixes
    <3>1. U!Suffixes = 0 .. Cardinality(Uploads)
      BY DEF U!Suffixes, U!Cardinality, Cardinality
    <3> QED BY <3>1, UploadFacts, FS_CardinalityType
  <2> QED BY <2>1 DEF U!Init, UploadInv, UploadStates
<1>2. UploadInv => U!UploadsKept
  BY DEF UploadInv, U!UploadsKept
<1>3. UploadInv => U!TypeOK
  BY DEF UploadInv, UploadStates, U!TypeOK
<1> QED BY <1>1, <1>2, <1>3, UploadStepInv, PTL

-----------------------------------------------------------------------------
(* The audits of a group, its backups and the files they write. *)

FileContents == Actors \cup Labels \cup {R!None, R!Mixed}

LEMMA ReportFacts ==
    /\ MaxTime \in Nat /\ Len(InOrder) \in Nat /\ Len(InOrder) > 0
    /\ \A s \in 0 .. MaxTime : R!BackupPath(s) \in R!Paths
                               /\ \A k \in 1 .. Len(InOrder) : R!AuditPath(s, k) \in R!Paths
    /\ \A s, t, j, k : R!AuditPath(s, j) = R!AuditPath(t, k) => s = t /\ j = k
    /\ \A s, t, k : R!AuditPath(s, k) # R!BackupPath(t)
    /\ \A s, t : R!BackupPath(s) = R!BackupPath(t) => s = t
<1>1. MaxTime \in Nat
  BY DevicesAssumption DEF R!ReportsAssumption
<1>2. Len(InOrder) = 2
  BY DEF InOrder
<1>3. \A s \in 0 .. MaxTime : R!BackupPath(s) \in R!Paths
                              /\ \A k \in 1 .. Len(InOrder) : R!AuditPath(s, k) \in R!Paths
  BY DEF R!Paths, R!Kinds
<1>4. \A s, t, j, k : R!AuditPath(s, j) = R!AuditPath(t, k) => s = t /\ j = k
  BY DEF R!AuditPath
<1>5. \A s, t, k : R!AuditPath(s, k) # R!BackupPath(t)
  BY DEF R!AuditPath, R!BackupPath
<1>6. \A s, t : R!BackupPath(s) = R!BackupPath(t) => s = t
  BY DEF R!BackupPath
<1> QED BY <1>1, <1>2, <1>3, <1>4, <1>5, <1>6

AuditStates == [pc : {"none", "queued", "info", "write", "ok", "failed"},
                at : 0 .. MaxTime, written : 0 .. Len(InOrder)]
BackupStates == [pc : {"idle", "open", "ok", "failed"}, at : 0 .. MaxTime]
GroupStates == [pc : {"idle", "refused", "waiting", "done"}, listed : SUBSET Actors,
                results : SUBSET Actors]

ReportTypes ==
    /\ now \in 0 .. MaxTime
    /\ group \subseteq Actors
    /\ groupRun \in GroupStates
    /\ audit \in [Actors -> AuditStates]
    /\ backup \in [Labels -> BackupStates]
    /\ files \in [R!Paths -> FileContents]

\* What a run has collected are ends of audits it began.
GroupSound ==
    /\ groupRun.results \subseteq groupRun.listed
    /\ groupRun.pc = "idle" => groupRun.results = {} /\ \A s \in Actors : audit[s].pc = "none"
    /\ groupRun.pc = "done" => groupRun.results = groupRun.listed
    /\ \A s \in groupRun.results : audit[s].pc \in {"ok", "failed"}

\* What an audit has written so far is there, or another one writes in its second.
AuditsWritten ==
    \A s \in Actors :
        /\ audit[s].pc \in {"none", "queued", "info"} => audit[s].written = 0
        /\ audit[s].pc = "write" => audit[s].written < Len(InOrder)
        /\ audit[s].pc = "ok" => audit[s].written = Len(InOrder)
        /\ audit[s].pc \in {"write", "ok"} =>
              \/ \A k \in 1 .. audit[s].written : files[R!AuditPath(audit[s].at, k)] = s
              \/ \E o \in Actors \ {s} : audit[o].pc \in {"write", "ok"} /\ audit[o].at = audit[s].at

\* A backup's file is its own from its opening to its end, or another began in its second.
BackupsWritten ==
    \A b \in Labels :
        backup[b].pc # "idle" =>
            \/ files[R!BackupPath(backup[b].at)] = IF backup[b].pc = "failed" THEN R!None ELSE b
            \/ \E o \in Labels \ {b} : backup[o].pc # "idle" /\ backup[o].at = backup[b].at

ReportInv == ReportTypes /\ GroupSound /\ AuditsWritten /\ BackupsWritten

LEMMA ReportInitInv == R!Init => ReportInv
<1> SUFFICES ASSUME R!Init PROVE ReportInv
  OBVIOUS
<1>1. ReportTypes
  BY ReportFacts DEF R!Init, ReportTypes, AuditStates, BackupStates, GroupStates, FileContents
<1>2. GroupSound /\ AuditsWritten /\ BackupsWritten
  BY DEF R!Init, GroupSound, AuditsWritten, BackupsWritten
<1> QED BY <1>1, <1>2 DEF ReportInv

LEMMA ReportStepInv == ReportInv /\ [R!Next]_(R!reportVars) => ReportInv'
<1> SUFFICES ASSUME ReportInv, [R!Next]_(R!reportVars) PROVE ReportInv'
  OBVIOUS
<1> DEFINE last == Len(InOrder)
<1>0. /\ ReportTypes /\ GroupSound /\ AuditsWritten /\ BackupsWritten
      /\ now \in 0 .. MaxTime /\ groupRun \in GroupStates
      /\ audit \in [Actors -> AuditStates] /\ backup \in [Labels -> BackupStates]
      /\ files \in [R!Paths -> FileContents] /\ last \in Nat /\ last > 0 /\ MaxTime \in Nat
  BY ReportFacts DEF ReportInv, ReportTypes
<1>1. CASE R!Tick
  <2>1. now' \in 0 .. MaxTime /\ UNCHANGED <<group, groupRun, audit, backup, files>>
    BY <1>0, <1>1 DEF R!Tick
  <2>2. ReportTypes' /\ GroupSound'
    BY <1>0, <2>1 DEF ReportTypes, GroupSound
  <2>3. AuditsWritten' /\ BackupsWritten'
    BY <1>0, <2>1 DEF AuditsWritten, BackupsWritten
  <2> QED BY <2>2, <2>3 DEF ReportInv
<1>2. ASSUME NEW s \in Actors, R!Regroup(s) PROVE ReportInv'
  <2>1. group' \subseteq Actors /\ UNCHANGED <<now, groupRun, audit, backup, files>>
    BY <1>0, <1>2 DEF R!Regroup, R!WithDevice, R!WithoutDevice, ReportTypes
  <2>2. ReportTypes' /\ GroupSound'
    BY <1>0, <2>1 DEF ReportTypes, GroupSound
  <2>3. AuditsWritten' /\ BackupsWritten'
    BY <1>0, <2>1 DEF AuditsWritten, BackupsWritten
  <2> QED BY <2>2, <2>3 DEF ReportInv
<1>3. CASE R!RunGroup
  <2>1. groupRun.pc = "idle" /\ UNCHANGED <<now, group, backup, files>>
        /\ groupRun.results = {} /\ \A s \in Actors : audit[s].pc = "none"
    BY <1>0, <1>3 DEF R!RunGroup, GroupSound
  <2>2. /\ groupRun' \in GroupStates /\ groupRun'.results = {}
        /\ groupRun'.pc \in {"refused", "waiting"}
    BY <1>0, <1>3, <2>1 DEF R!RunGroup, GroupStates, ReportTypes
  <2>3. /\ audit' \in [Actors -> AuditStates]
        /\ \A s \in Actors : audit'[s].pc \in {"none", "queued"} /\ audit'[s].written = audit[s].written
    <3>1. CASE group = {}
      BY <1>0, <1>3, <2>1, <3>1 DEF R!RunGroup
    <3>2. CASE group # {}
      <4>1. \A s \in Actors : LET begun == [audit[s] EXCEPT !.pc = "queued"]
                              IN begun \in AuditStates /\ begun.pc = "queued"
                                 /\ begun.written = audit[s].written
        BY <1>0 DEF AuditStates
      <4>2. audit' = [s \in Actors |->
                  IF s \in group THEN [audit[s] EXCEPT !.pc = "queued"] ELSE audit[s]]
        BY <1>3, <3>2 DEF R!RunGroup
      <4> QED BY <1>0, <2>1, <4>1, <4>2
    <3> QED BY <3>1, <3>2
  <2>4. ReportTypes' /\ GroupSound'
    BY <1>0, <2>1, <2>2, <2>3 DEF ReportTypes, GroupSound
  <2>5. AuditsWritten' /\ BackupsWritten'
    BY <1>0, <2>1, <2>3 DEF AuditsWritten, BackupsWritten
  <2> QED BY <2>4, <2>5 DEF ReportInv
\* An audit that goes on keeps its second, and writes under its own names.
<1>4. ASSUME NEW s \in Actors, NEW state \in AuditStates, audit' = [audit EXCEPT ![s] = state],
             audit[s].pc \in {"queued", "info", "write"},
             UNCHANGED <<now, group, groupRun, backup>>, files' \in [R!Paths -> FileContents],
             \A p \in R!Paths : files'[p] # files[p] =>
                audit[s].pc = "write" /\ \E k \in 1 .. last : p = R!AuditPath(audit[s].at, k),
             audit[s].pc = "write" => state.pc \in {"write", "ok"} /\ state.at = audit[s].at,
             state.pc \in {"none", "queued", "info"} => state.written = 0,
             state.pc = "write" => state.written < last,
             state.pc = "ok" => state.written = last,
             state.pc \in {"write", "ok"} =>
                \/ \A k \in 1 .. state.written : files'[R!AuditPath(state.at, k)] = s
                \/ \E o \in Actors \ {s} : audit[o].pc \in {"write", "ok"} /\ audit[o].at = state.at
      PROVE  ReportInv'
  <2>1. audit' \in [Actors -> AuditStates] /\ audit'[s] = state
        /\ \A o \in Actors \ {s} : audit'[o] = audit[o]
    BY <1>0, <1>4
  <2>2. ReportTypes'
    BY <1>0, <1>4, <2>1 DEF ReportTypes
  <2>3. GroupSound'
    BY <1>0, <1>4, <2>1 DEF GroupSound, GroupStates
  <2>4. AuditsWritten'
    <3> SUFFICES ASSUME NEW o \in Actors
                 PROVE  /\ audit'[o].pc \in {"none", "queued", "info"} => audit'[o].written = 0
                        /\ audit'[o].pc = "write" => audit'[o].written < last
                        /\ audit'[o].pc = "ok" => audit'[o].written = last
                        /\ audit'[o].pc \in {"write", "ok"} =>
                              \/ \A k \in 1 .. audit'[o].written :
                                    files'[R!AuditPath(audit'[o].at, k)] = o
                              \/ \E u \in Actors \ {o} : audit'[u].pc \in {"write", "ok"}
                                                         /\ audit'[u].at = audit'[o].at
      BY DEF AuditsWritten, R!AuditPath
    <3>1. CASE o = s
      BY <1>4, <2>1, <3>1
    <3>2. CASE o # s
      <4>1. audit'[o] = audit[o]
        BY <2>1, <3>2
      <4>2. /\ audit[o].pc \in {"none", "queued", "info"} => audit[o].written = 0
            /\ audit[o].pc = "write" => audit[o].written < last
            /\ audit[o].pc = "ok" => audit[o].written = last
        BY <1>0 DEF AuditsWritten
      <4>3. ASSUME audit[o].pc \in {"write", "ok"},
                   NEW u \in Actors \ {o}, audit[u].pc \in {"write", "ok"}, audit[u].at = audit[o].at
            PROVE  audit'[u].pc \in {"write", "ok"} /\ audit'[u].at = audit[o].at
        BY <1>4, <2>1, <4>3
      <4>4. ASSUME audit[o].pc \in {"write", "ok"},
                   ~\E u \in Actors \ {o} : audit'[u].pc \in {"write", "ok"}
                                            /\ audit'[u].at = audit[o].at,
                   NEW k \in 1 .. audit[o].written
            PROVE  files'[R!AuditPath(audit[o].at, k)] = o
        <5>1. files[R!AuditPath(audit[o].at, k)] = o
          BY <1>0, <4>3, <4>4 DEF AuditsWritten
        <5>2. audit[s].pc = "write" => audit[s].at # audit[o].at
          BY <1>4, <2>1, <3>2, <4>4
        <5>3. audit[o].at \in 0 .. MaxTime /\ k \in 1 .. last
          BY <1>0, <4>4 DEF AuditStates
        <5>4. R!AuditPath(audit[o].at, k) \in R!Paths
          BY <5>3, ReportFacts
        <5> QED BY <1>4, <5>1, <5>2, <5>4, ReportFacts
      <4> QED BY <4>1, <4>2, <4>4
    <3> QED BY <3>1, <3>2
  <2>5. BackupsWritten'
    <3>1. \A b \in Labels : files'[R!BackupPath(backup[b].at)] = files[R!BackupPath(backup[b].at)]
      <4> SUFFICES ASSUME NEW b \in Labels
                   PROVE  files'[R!BackupPath(backup[b].at)] = files[R!BackupPath(backup[b].at)]
        OBVIOUS
      <4>1. backup[b].at \in 0 .. MaxTime
        BY <1>0 DEF BackupStates
      <4> QED BY <1>4, <4>1, ReportFacts
    <3>2. backup' = backup
      BY <1>4
    <3> QED BY <1>0, <3>1, <3>2 DEF BackupsWritten, R!BackupPath
  <2> QED BY <2>2, <2>3, <2>4, <2>5 DEF ReportInv
<1>5. ASSUME NEW s \in Actors, R!TakeWorker(s) PROVE ReportInv'
  <2> DEFINE state == [audit[s] EXCEPT !.pc = "info"]
  <2>1. /\ audit[s].pc = "queued" /\ audit' = [audit EXCEPT ![s] = state]
        /\ UNCHANGED <<now, group, groupRun, backup, files>>
    BY <1>5 DEF R!TakeWorker
  <2>2. state \in AuditStates /\ state.pc = "info" /\ state.written = audit[s].written
    BY <1>0 DEF AuditStates
  <2>3. audit[s].written = 0
    BY <1>0, <2>1 DEF AuditsWritten
  <2> HIDE DEF state
  <2> QED BY <1>0, <1>4, <2>1, <2>2, <2>3
<1>6. ASSUME NEW s \in Actors, R!Info(s) PROVE ReportInv'
  <2> DEFINE read == [audit[s] EXCEPT !.pc = "write", !.at = now]
             late == [audit[s] EXCEPT !.pc = "failed"]
  <2>1. /\ audit[s].pc = "info"
        /\ audit' = [audit EXCEPT ![s] = read] \/ audit' = [audit EXCEPT ![s] = late]
        /\ UNCHANGED <<now, group, groupRun, backup, files>>
    BY <1>6 DEF R!Info
  <2>2. /\ read \in AuditStates /\ read.pc = "write" /\ read.written = audit[s].written
        /\ late \in AuditStates /\ late.pc = "failed"
    BY <1>0 DEF AuditStates
  <2>3. audit[s].written = 0
    BY <1>0, <2>1 DEF AuditsWritten
  <2> HIDE DEF read, late
  <2>4. CASE audit' = [audit EXCEPT ![s] = read]
    <3>1. 1 .. read.written = {} /\ read.written < last
      BY <1>0, <2>2, <2>3
    <3> QED BY <1>0, <1>4, <2>1, <2>2, <2>3, <2>4, <3>1
  <2>5. CASE audit' = [audit EXCEPT ![s] = late]
    BY <1>0, <1>4, <2>1, <2>2, <2>5
  <2> QED BY <2>1, <2>4, <2>5
<1>7. ASSUME NEW s \in Actors, R!WriteReport(s) PROVE ReportInv'
  <2> DEFINE n == audit[s].written + 1
             path == R!AuditPath(audit[s].at, n)
             to == IF n = last THEN "ok" ELSE audit[s].pc
             state == [audit[s] EXCEPT !.written = n, !.pc = to]
  <2>1. /\ audit[s].pc = "write" /\ audit' = [audit EXCEPT ![s] = state]
        /\ files' = [files EXCEPT ![path] = s]
        /\ UNCHANGED <<now, group, groupRun, backup>>
    BY <1>7 DEF R!WriteReport
  <2>2. /\ audit[s] \in AuditStates /\ audit[s].written \in Nat /\ audit[s].written < last
        /\ n \in 1 .. last /\ audit[s].at \in 0 .. MaxTime
    BY <1>0, <2>1 DEF AuditsWritten, AuditStates
  <2>3. path \in R!Paths
    BY <2>2, ReportFacts
  <2>4. /\ state \in AuditStates /\ state.at = audit[s].at /\ state.written = n
        /\ state.pc = to /\ to = IF n = last THEN "ok" ELSE "write"
    <3>1. to = IF n = last THEN "ok" ELSE "write"
      BY <2>1
    <3>2. n \in 0 .. last /\ to \in {"write", "ok"}
      BY <2>2, <3>1
    <3> HIDE DEF n, to
    <3> QED BY <2>2, <3>1, <3>2 DEF AuditStates
  <2> HIDE DEF state
  <2>5. files' \in [R!Paths -> FileContents] /\ files'[path] = s
        /\ \A p \in R!Paths : p # path => files'[p] = files[p]
    BY <1>0, <2>1, <2>3 DEF FileContents
  <2>6. \/ \A k \in 1 .. n : files'[R!AuditPath(audit[s].at, k)] = s
        \/ \E o \in Actors \ {s} : audit[o].pc \in {"write", "ok"} /\ audit[o].at = audit[s].at
    <3> SUFFICES ASSUME ~\E o \in Actors \ {s} : audit[o].pc \in {"write", "ok"}
                                                 /\ audit[o].at = audit[s].at,
                        NEW k \in 1 .. n
                 PROVE  files'[R!AuditPath(audit[s].at, k)] = s
      OBVIOUS
    <3>1. CASE k = n
      BY <2>5, <3>1
    <3>2. CASE k # n
      <4>1. k \in 1 .. audit[s].written /\ k \in 1 .. last
        BY <2>2, <3>2
      <4>2. files[R!AuditPath(audit[s].at, k)] = s
        BY <1>0, <2>1, <4>1 DEF AuditsWritten
      <4>3. R!AuditPath(audit[s].at, k) \in R!Paths /\ R!AuditPath(audit[s].at, k) # path
        BY <2>2, <3>2, <4>1, ReportFacts
      <4> QED BY <2>5, <4>2, <4>3
    <3> QED BY <3>1, <3>2
  <2>7. \A p \in R!Paths : files'[p] # files[p] => \E k \in 1 .. last : p = R!AuditPath(audit[s].at, k)
    BY <2>2, <2>5
  <2>8. state.pc \in {"write", "ok"} /\ (state.pc = "write" => state.written < last)
        /\ (state.pc = "ok" => state.written = last)
    BY <2>2, <2>4
  <2> HIDE DEF n, path, to
  <2> QED BY <1>4, <2>1, <2>4, <2>5, <2>6, <2>7, <2>8
<1>8. ASSUME NEW s \in Actors, R!Collect(s) PROVE ReportInv'
  <2> DEFINE state == [groupRun EXCEPT !.results = @ \cup {s}]
  <2>1. /\ groupRun.pc = "waiting" /\ audit[s].pc \in {"ok", "failed"} /\ s \in groupRun.listed
        /\ groupRun' = state /\ UNCHANGED <<now, group, audit, backup, files>>
    BY <1>8 DEF R!Collect
  <2>2. state \in GroupStates /\ state.pc = "waiting" /\ state.results = groupRun.results \cup {s}
        /\ state.listed = groupRun.listed
    BY <1>0, <2>1 DEF GroupStates
  <2> HIDE DEF state
  <2>3. ReportTypes' /\ GroupSound'
    BY <1>0, <2>1, <2>2 DEF ReportTypes, GroupSound
  <2>4. AuditsWritten' /\ BackupsWritten'
    BY <1>0, <2>1 DEF AuditsWritten, BackupsWritten
  <2> QED BY <2>3, <2>4 DEF ReportInv
<1>9. CASE R!Answer
  <2> DEFINE state == [groupRun EXCEPT !.pc = "done"]
  <2>1. /\ groupRun.pc = "waiting" /\ groupRun.results = groupRun.listed
        /\ groupRun' = state /\ UNCHANGED <<now, group, audit, backup, files>>
    BY <1>9 DEF R!Answer
  <2>2. /\ state \in GroupStates /\ state.pc = "done" /\ state.results = groupRun.results
        /\ state.listed = groupRun.listed
    BY <1>0 DEF GroupStates
  <2> HIDE DEF state
  <2>3. ReportTypes' /\ GroupSound'
    BY <1>0, <2>1, <2>2 DEF ReportTypes, GroupSound
  <2>4. AuditsWritten' /\ BackupsWritten'
    BY <1>0, <2>1 DEF AuditsWritten, BackupsWritten
  <2> QED BY <2>3, <2>4 DEF ReportInv
\* A backup that goes on writes under the name of its second.
<1>10. ASSUME NEW b \in Labels, NEW state \in BackupStates, backup' = [backup EXCEPT ![b] = state],
              state.pc # "idle", backup[b].pc # "idle" => state.at = backup[b].at,
              UNCHANGED <<now, group, groupRun, audit>>, files' \in [R!Paths -> FileContents],
              \A p \in R!Paths : files'[p] # files[p] => p = R!BackupPath(state.at),
              \/ files'[R!BackupPath(state.at)] = IF state.pc = "failed" THEN R!None ELSE b
              \/ \E o \in Labels \ {b} : backup[o].pc # "idle" /\ backup[o].at = state.at
       PROVE  ReportInv'
  <2>1. backup' \in [Labels -> BackupStates] /\ backup'[b] = state
        /\ \A o \in Labels \ {b} : backup'[o] = backup[o]
    BY <1>0, <1>10
  <2>2. ReportTypes' /\ GroupSound'
    BY <1>0, <1>10, <2>1 DEF ReportTypes, GroupSound
  <2>3. AuditsWritten'
    <3>1. \A s \in Actors : \A k \in 1 .. audit[s].written :
             files'[R!AuditPath(audit[s].at, k)] = files[R!AuditPath(audit[s].at, k)]
      <4> SUFFICES ASSUME NEW s \in Actors, NEW k \in 1 .. audit[s].written
                   PROVE  files'[R!AuditPath(audit[s].at, k)] = files[R!AuditPath(audit[s].at, k)]
        OBVIOUS
      <4>1. audit[s].at \in 0 .. MaxTime /\ k \in 1 .. last
        BY <1>0 DEF AuditStates
      <4>2. R!AuditPath(audit[s].at, k) \in R!Paths
        BY <4>1, ReportFacts
      <4> QED BY <1>10, <4>2, ReportFacts
    <3>2. audit' = audit
      BY <1>10
    <3> QED BY <1>0, <3>1, <3>2 DEF AuditsWritten, R!AuditPath
  <2>4. BackupsWritten'
    <3> SUFFICES ASSUME NEW c \in Labels, backup'[c].pc # "idle",
                        ~\E o \in Labels \ {c} : backup'[o].pc # "idle" /\ backup'[o].at = backup'[c].at
                 PROVE  files'[R!BackupPath(backup'[c].at)] =
                            IF backup'[c].pc = "failed" THEN R!None ELSE c
      BY DEF BackupsWritten, R!BackupPath, R!None
    <3>1. CASE c = b
      BY <1>10, <2>1, <3>1
    <3>2. CASE c # b
      <4>1. backup'[c] = backup[c] /\ backup[c].at \in 0 .. MaxTime
        BY <1>0, <2>1, <3>2 DEF BackupStates
      <4>2. state.at # backup[c].at
        BY <1>10, <2>1, <3>2, <4>1
      <4>3. ~\E o \in Labels \ {c} : backup[o].pc # "idle" /\ backup[o].at = backup[c].at
        BY <1>10, <2>1, <3>2, <4>1, <4>2
      <4>4. files[R!BackupPath(backup[c].at)] = IF backup[c].pc = "failed" THEN R!None ELSE c
        BY <1>0, <4>1, <4>3 DEF BackupsWritten
      <4>5. files'[R!BackupPath(backup[c].at)] = files[R!BackupPath(backup[c].at)]
        BY <1>10, <4>1, <4>2, ReportFacts
      <4> QED BY <4>1, <4>4, <4>5
    <3> QED BY <3>1, <3>2
  <2> QED BY <2>2, <2>3, <2>4 DEF ReportInv
<1>11. ASSUME NEW b \in Labels, R!OpenBackup(b) PROVE ReportInv'
  <2> DEFINE state == [pc |-> "open", at |-> now]
             path == R!BackupPath(now)
  <2>1. /\ backup[b].pc = "idle" /\ backup' = [backup EXCEPT ![b] = state]
        /\ files' = [files EXCEPT ![path] = b] /\ UNCHANGED <<now, group, groupRun, audit>>
    BY <1>11 DEF R!OpenBackup
  <2>2. state \in BackupStates /\ state.pc = "open" /\ state.at = now
    BY <1>0 DEF BackupStates
  <2>3. path \in R!Paths
    BY <1>0, ReportFacts
  <2> HIDE DEF state, path
  <2>4. files' \in [R!Paths -> FileContents] /\ files'[path] = b
        /\ \A p \in R!Paths : files'[p] # files[p] => p = path
    BY <1>0, <2>1, <2>3 DEF FileContents
  <2> QED BY <1>10, <2>1, <2>2, <2>4 DEF path
<1>12. ASSUME NEW b \in Labels, R!TarWritten(b) \/ R!TarFailed(b) PROVE ReportInv'
  <2> DEFINE end(pc) == [backup[b] EXCEPT !.pc = pc]
             path == R!BackupPath(backup[b].at)
  <2>1. ASSUME NEW pc \in {"ok", "failed"}
        PROVE  end(pc) \in BackupStates /\ end(pc).pc = pc /\ end(pc).at = backup[b].at
    BY <1>0 DEF BackupStates
  <2>2. path \in R!Paths
    <3>1. backup[b].at \in 0 .. MaxTime
      BY <1>0 DEF BackupStates
    <3> QED BY <3>1, ReportFacts
  <2>3. backup[b].pc = "open" /\ UNCHANGED <<now, group, groupRun, audit>>
    BY <1>12 DEF R!TarWritten, R!TarFailed
  <2>4. \/ files[path] = b
        \/ \E o \in Labels \ {b} : backup[o].pc # "idle" /\ backup[o].at = backup[b].at
    BY <1>0, <2>3 DEF BackupsWritten
  <2>5. CASE R!TarWritten(b)
    <3> DEFINE content == IF files[path] \in {b, R!None} THEN files[path] ELSE R!Mixed
    <3>1. backup' = [backup EXCEPT ![b] = end("ok")] /\ files' = [files EXCEPT ![path] = content]
      BY <2>5 DEF R!TarWritten
    <3>2. content \in FileContents /\ (files[path] = b => content = b)
      BY <1>0, <2>2 DEF FileContents
    <3> HIDE DEF content, path, end
    <3>3. files' \in [R!Paths -> FileContents] /\ files'[path] = content
          /\ \A p \in R!Paths : files'[p] # files[p] => p = path
      BY <1>0, <2>2, <3>1, <3>2 DEF FileContents
    <3> QED BY <1>10, <2>1, <2>3, <2>4, <3>1, <3>2, <3>3 DEF path
  <2>6. CASE R!TarFailed(b)
    <3>1. backup' = [backup EXCEPT ![b] = end("failed")] /\ files' = [files EXCEPT ![path] = R!None]
      BY <2>6 DEF R!TarFailed
    <3> HIDE DEF path, end
    <3>2. files' \in [R!Paths -> FileContents] /\ files'[path] = R!None
          /\ \A p \in R!Paths : files'[p] # files[p] => p = path
      BY <1>0, <2>2, <3>1 DEF FileContents
    <3> QED BY <1>10, <2>1, <2>3, <3>1, <3>2 DEF path
  <2> QED BY <1>12, <2>5, <2>6
<1>13. CASE UNCHANGED R!reportVars
  <2>1. UNCHANGED <<now, group, groupRun, audit, backup, files>>
    BY <1>13 DEF R!reportVars
  <2>2. ReportTypes' /\ GroupSound'
    BY <1>0, <2>1 DEF ReportTypes, GroupSound
  <2>3. AuditsWritten' /\ BackupsWritten'
    BY <1>0, <2>1 DEF AuditsWritten, BackupsWritten
  <2> QED BY <2>2, <2>3 DEF ReportInv
<1> QED
  BY <1>1, <1>2, <1>3, <1>5, <1>6, <1>7, <1>8, <1>9, <1>11, <1>12, <1>13 DEF R!Next

\* The changes of a group stay within their bound.
GroupSteps == groupChanges \in 0 .. MaxGroupChanges

LEMMA GroupChangesBounded ==
    R!Init /\ [][R!Next]_(R!reportVars) => []GroupSteps
<1>1. R!Init => GroupSteps
  BY DevicesAssumption DEF R!ReportsAssumption, R!Init, GroupSteps
<1>2. GroupSteps /\ [R!Next]_(R!reportVars) => GroupSteps'
  <2> SUFFICES ASSUME GroupSteps, [R!Next]_(R!reportVars)
               PROVE  GroupSteps'
    OBVIOUS
  <2>1. MaxGroupChanges \in Nat
    BY DevicesAssumption DEF R!ReportsAssumption
  <2>2. \/ groupChanges' = groupChanges
        \/ groupChanges < MaxGroupChanges /\ groupChanges' = groupChanges + 1
    <3>1. CASE R!Tick
      BY <3>1 DEF R!Tick
    <3>2. CASE R!RunGroup \/ R!Answer
      BY <3>2 DEF R!RunGroup, R!Answer
    <3>3. ASSUME NEW s \in Actors, R!Regroup(s)
          PROVE  groupChanges < MaxGroupChanges /\ groupChanges' = groupChanges + 1
      BY <3>3 DEF R!Regroup
    <3>4. ASSUME NEW s \in Actors, R!TakeWorker(s) \/ R!Info(s) \/ R!WriteReport(s) \/ R!Collect(s)
          PROVE  groupChanges' = groupChanges
      BY <3>4 DEF R!TakeWorker, R!Info, R!WriteReport, R!Collect
    <3>5. ASSUME NEW b \in Labels, R!OpenBackup(b) \/ R!TarWritten(b) \/ R!TarFailed(b)
          PROVE  groupChanges' = groupChanges
      BY <3>5 DEF R!OpenBackup, R!TarWritten, R!TarFailed
    <3>6. CASE UNCHANGED R!reportVars
      BY <3>6 DEF R!reportVars
    <3> QED BY <3>1, <3>2, <3>3, <3>4, <3>5, <3>6 DEF R!Next
  <2> QED BY <2>1, <2>2 DEF GroupSteps
<1> QED BY <1>1, <1>2, PTL

\* A group run that answers has an answer of every device it was started for; and what
\* audits and backups announce is in their files, but for those of one second.
THEOREM ReportsAreKept ==
    R!Init /\ [][R!Next]_(R!reportVars) =>
        [](R!TypeOK /\ R!EveryDeviceAnswered /\ R!KeptUnlessSameSecond)
<1>1. ReportInv => R!EveryDeviceAnswered
  BY DEF ReportInv, GroupSound, R!EveryDeviceAnswered
<1>2. ReportInv => R!KeptUnlessSameSecond
  <2> SUFFICES ASSUME ReportInv PROVE R!KeptUnlessSameSecond
    OBVIOUS
  <2>1. ASSUME NEW s \in Actors, audit[s].pc = "ok"
        PROVE  \/ \A k \in R!Kinds : files[R!AuditPath(audit[s].at, k)] = s
               \/ \E o \in Actors \ {s} : audit[o].pc \in {"write", "ok"}
                                          /\ audit[o].at = audit[s].at
    <3>1. R!Kinds = 1 .. audit[s].written
      BY <2>1 DEF ReportInv, AuditsWritten, R!Kinds
    <3> QED BY <2>1, <3>1 DEF ReportInv, AuditsWritten
  <2>2. ASSUME NEW b \in Labels, backup[b].pc \in {"ok", "failed"}
        PROVE  \/ files[R!BackupPath(backup[b].at)] = IF backup[b].pc = "ok" THEN b ELSE R!None
               \/ \E o \in Labels \ {b} : backup[o].pc # "idle" /\ backup[o].at = backup[b].at
    BY <2>2 DEF ReportInv, BackupsWritten
  <2> QED BY <2>1, <2>2 DEF R!KeptUnlessSameSecond
<1>3. ReportInv /\ GroupSteps => R!TypeOK
  <2> SUFFICES ASSUME ReportInv, GroupSteps PROVE R!TypeOK
    OBVIOUS
  <2>1. /\ now \in 0 .. MaxTime /\ group \subseteq Actors /\ groupRun \in GroupStates
        /\ groupRun.results \subseteq groupRun.listed
        /\ files \in [R!Paths -> FileContents]
    BY DEF ReportInv, ReportTypes, GroupSound
  <2>2. \A s \in Actors : audit[s] \in AuditStates
    BY DEF ReportInv, ReportTypes
  <2>3. \A b \in Labels : backup[b] \in BackupStates
    BY DEF ReportInv, ReportTypes
  <2>4. \A s \in Actors : /\ audit[s].pc \in {"none", "queued", "info", "write", "ok", "failed"}
                          /\ audit[s].at \in 0 .. MaxTime /\ audit[s].written \in 0 .. Len(InOrder)
    BY <2>2 DEF AuditStates
  <2>5. \A b \in Labels : backup[b].pc \in {"idle", "open", "ok", "failed"}
    BY <2>3 DEF BackupStates
  <2>6. groupRun.listed \subseteq Actors /\ groupRun.pc \in {"idle", "refused", "waiting", "done"}
    BY <2>1 DEF GroupStates
  <2> QED BY <2>1, <2>4, <2>5, <2>6 DEF GroupSteps, R!TypeOK, FileContents
<1> QED BY <1>1, <1>2, <1>3, ReportInitInv, ReportStepInv, GroupChangesBounded, PTL

-----------------------------------------------------------------------------
(* Captures of evidence. *)

CaptureStates ==
    [at : {"new", "texts", "bugreport", "record", "recording", "pull", "remove", "add", "apks",
           "save", "done", "raised"},
     kind : {"evidence", "sniff"}, root : Roots \cup {"none"}, device : {"video"} \cup Seconds,
     package : BOOLEAN, seconds : BOOLEAN, saves : BOOLEAN, adding : C!Files,
     failed : SUBSET C!Files, kept : BOOLEAN, met : SUBSET Actors, manifest : SUBSET C!Entries]

CaptureTypes ==
    /\ remote \in [{"video"} \cup Seconds -> C!Contents]
    /\ local \in [Roots -> [C!Files -> C!Contents]]
    /\ captureCall \in [Actors -> CaptureStates]
    /\ row \in [Actors -> SUBSET C!Entries]

\* What never changes of a call that has begun, and what it makes two calls share.
Like(s, t) == s.kind = t.kind /\ s.root = t.root /\ s.device = t.device /\ s.seconds = t.seconds
ProductOf(s) == IF s.kind = "sniff" THEN "pcap" ELSE "video"
Recording(s) == s.kind = "sniff" \/ s.seconds
OneFile(s, t) == Recording(s) /\ Recording(t) /\ s.device = t.device
OnePlace(s, t) == s.kind = t.kind /\ s.root = t.root

\* The content may be attributed to call c in state s, as a file of that name.
Credit(calls, c, s, name, content) ==
    \/ content = C!Own(c)
    \/ /\ content \in C!Contents
       /\ \E d \in s.met : /\ OnePlace(s, calls[d]) \/ (name = ProductOf(s) /\ OneFile(s, calls[d]))
                           /\ s.kind = "evidence" => content.by = d

\* The file on the device is gone, or is that of another call that was under way meanwhile.
Cleared(calls, s, there) ==
    \/ there[s.device] = C!Absent
    \/ \E d \in s.met : OneFile(s, calls[d]) /\ there[s.device].by = d

InHand(s) == /\ s.at \in {"pull", "remove"} \/ (s.at = "add" /\ s.adding = ProductOf(s))
             /\ ProductOf(s) \notin s.failed

Removed(s) == /\ Recording(s) /\ ~s.kept
              /\ s.at \in {"apks", "save"} \/ (s.at = "add" /\ s.adding \in {"video", "apks", "pcap"})

\* What a call relies on at the step it is at: its recording on the device, and the file it
\* is about to hash.
StepHolds(calls, c, s, there, here) ==
    /\ s.at = "recording" => there[s.device].by = c \/ Cleared(calls, s, there)
    /\ InHand(s) => there[s.device] = C!Own(c) \/ Cleared(calls, s, there)
    /\ s.at = "remove" /\ ProductOf(s) \notin s.failed =>
          Credit(calls, c, s, ProductOf(s), here[s.root][ProductOf(s)])
    /\ s.at = "add" /\ s.adding \notin s.failed =>
          Credit(calls, c, s, s.adding, here[s.root][s.adding])
    /\ Removed(s) => Cleared(calls, s, there)

EntriesHold(calls, c, s) ==
    \A e \in s.manifest : e.name \notin s.failed => Credit(calls, c, s, e.name, e.content)

\* The call is one that its own steps lead to.
CallSound(c, s, saved) ==
    /\ s.at = "new" => saved = {}
    /\ s.at # "new" => s.root \in Roots
    /\ s.kind = "evidence" => s.device = "video"
    /\ s.at \in {"texts", "bugreport", "apks", "save"} => s.kind = "evidence"
    /\ s.at = "add" => (s.adding = "pcap" <=> s.kind = "sniff")
    /\ s.at \in {"record", "recording", "pull", "remove"} => Recording(s)
    /\ s.at = "add" /\ s.adding \in {"video", "pcap"} => Recording(s)
    /\ saved \subseteq s.manifest
    /\ c \notin s.met

CaptureInv ==
    /\ CaptureTypes
    /\ \A c \in Actors : CallSound(c, captureCall[c], row[c])
    /\ \A c \in Actors : StepHolds(captureCall, c, captureCall[c], remote, local)
    /\ \A c \in Actors : EntriesHold(captureCall, c, captureCall[c])
    /\ \A c, d \in Actors : c # d /\ captureCall[c].at \notin C!Over /\ captureCall[d].at \notin C!Over
                            => d \in captureCall[c].met
    /\ \A c \in Actors : \A d \in captureCall[c].met : captureCall[d].at # "new"

LEMMA CaptureConstants ==
    /\ C!NewCall \in CaptureStates
    /\ C!NewCall.at = "new" /\ C!NewCall.manifest = {} /\ C!NewCall.failed = {}
    /\ C!NewCall.met = {} /\ C!NewCall.kind = "evidence" /\ C!NewCall.device = "video"
    /\ C!Absent \in C!Contents
    /\ \A c \in Actors, whole \in BOOLEAN :
          [by |-> c, whole |-> whole] \in C!Contents /\ C!Own(c) \in C!Contents
          /\ C!Own(c) = [by |-> c, whole |-> TRUE]
    /\ \A name \in C!Files, content \in C!Contents :
          /\ C!Entry(name, content) \in C!Entries
          /\ C!Entry(name, content).name = name /\ C!Entry(name, content).content = content
    /\ {"texts", "bugreport", "video", "apks", "pcap"} \subseteq C!Files
<1>1. {"texts", "bugreport", "video", "apks", "pcap"} \subseteq C!Files
  BY DEF C!Files, C!Commands
<1>2. /\ C!NewCall \in CaptureStates
      /\ C!NewCall.at = "new" /\ C!NewCall.manifest = {} /\ C!NewCall.failed = {}
      /\ C!NewCall.met = {} /\ C!NewCall.kind = "evidence" /\ C!NewCall.device = "video"
  BY <1>1 DEF C!NewCall, CaptureStates
<1>3. C!Absent \in C!Contents
      /\ \A c \in Actors, whole \in BOOLEAN :
            [by |-> c, whole |-> whole] \in C!Contents /\ C!Own(c) \in C!Contents
            /\ C!Own(c) = [by |-> c, whole |-> TRUE]
  BY DEF C!Contents, C!Own
<1>4. \A name \in C!Files, content \in C!Contents :
          /\ C!Entry(name, content) \in C!Entries
          /\ C!Entry(name, content).name = name /\ C!Entry(name, content).content = content
  BY DEF C!Entry, C!Entries
<1> QED BY <1>1, <1>2, <1>3, <1>4

LEMMA CaptureInitInv == C!Init => CaptureInv
<1> SUFFICES ASSUME C!Init PROVE CaptureInv
  OBVIOUS
<1>1. CaptureTypes
  BY CaptureConstants DEF C!Init, CaptureTypes
<1>2. \A c \in Actors : captureCall[c] = C!NewCall /\ row[c] = {}
  BY DEF C!Init
<1>3. ASSUME NEW c \in Actors
      PROVE  /\ CallSound(c, captureCall[c], row[c])
             /\ StepHolds(captureCall, c, captureCall[c], remote, local)
             /\ EntriesHold(captureCall, c, captureCall[c])
  BY <1>2, CaptureConstants DEF CallSound, StepHolds, EntriesHold, InHand, Removed
<1>4. \A c \in Actors : captureCall[c].at \in C!Over /\ captureCall[c].met = {}
  BY <1>2, CaptureConstants DEF C!Over
<1> QED BY <1>1, <1>3, <1>4 DEF CaptureInv

\* What may be attributed to a call still may be when it has met more calls.
LEMMA CreditGrows ==
    ASSUME NEW calls, NEW more, NEW c, NEW s, NEW t, Like(s, t), s.met \subseteq t.met,
           \A d \in s.met : Like(calls[d], more[d])
    PROVE  /\ \A name, content : Credit(calls, c, s, name, content) => Credit(more, c, t, name, content)
           /\ \A there : Cleared(calls, s, there) => Cleared(more, t, there)
<1>1. \A d \in s.met : OneFile(s, calls[d]) => OneFile(t, more[d])
  BY DEF Like, OneFile, Recording
<1>2. \A d \in s.met : OnePlace(s, calls[d]) => OnePlace(t, more[d])
  BY DEF Like, OnePlace
<1>3. ProductOf(s) = ProductOf(t) /\ s.device = t.device /\ s.kind = t.kind
  BY DEF Like, ProductOf
<1> QED BY <1>1, <1>2, <1>3 DEF Credit, Cleared

LEMMA EntriesGrow ==
    ASSUME NEW calls, NEW more, NEW c, NEW s, NEW t, Like(s, t), s.met \subseteq t.met,
           \A d \in s.met : Like(calls[d], more[d]),
           EntriesHold(calls, c, s), t.manifest = s.manifest, s.failed \subseteq t.failed
    PROVE  EntriesHold(more, c, t)
  BY CreditGrows DEF EntriesHold

LEMMA StepGrows ==
    ASSUME NEW calls, NEW more, NEW c, NEW s, NEW t, Like(s, t), s.met \subseteq t.met,
           \A d \in s.met : Like(calls[d], more[d]), NEW there, NEW here,
           StepHolds(calls, c, s, there, here), t.at = s.at, t.adding = s.adding,
           t.failed = s.failed, t.kept = s.kept
    PROVE  StepHolds(more, c, t, there, here)
<1>1. /\ \A name, content : Credit(calls, c, s, name, content) => Credit(more, c, t, name, content)
      /\ Cleared(calls, s, there) => Cleared(more, t, there)
  BY CreditGrows
<1>2. ProductOf(s) = ProductOf(t) /\ s.device = t.device /\ s.root = t.root
      /\ (Recording(s) <=> Recording(t))
  BY DEF Like, ProductOf, Recording
<1>3. (InHand(s) <=> InHand(t)) /\ (Removed(s) <=> Removed(t))
  BY <1>2 DEF InHand, Removed
<1> QED BY <1>1, <1>2, <1>3 DEF StepHolds

\* A step of one call leaves to another what that relies on: they have met, so what the one
\* puts in a file they share may be attributed to the other.
LEMMA OthersHold ==
    ASSUME CaptureInv, NEW c \in Actors, NEW d \in Actors, c # d,
           captureCall[c].at \notin C!Over,
           NEW x \in C!Contents, NEW there, there = [remote EXCEPT ![captureCall[c].device] = x],
           \/ x = remote[captureCall[c].device]
           \/ Recording(captureCall[c]) /\ (x = C!Absent \/ x.by = c),
           NEW name \in C!Files, NEW y \in C!Contents, NEW here,
           here = [local EXCEPT ![captureCall[c].root][name] = y],
           \/ y = local[captureCall[c].root][name]
           \/ /\ name = "pcap" <=> captureCall[c].kind = "sniff"
              /\ \/ y = C!Own(c)
                 \/ /\ name = ProductOf(captureCall[c]) /\ Recording(captureCall[c])
                    /\ y = remote[captureCall[c].device] /\ y # C!Absent
    PROVE  StepHolds(captureCall, d, captureCall[d], there, here)
<1> DEFINE s == captureCall[d]
           m == captureCall[c]
<1>1. CASE s.at \in C!Over
  BY <1>1 DEF StepHolds, InHand, Removed, C!Over
<1>2. CASE s.at \notin C!Over
  <2>1. /\ c \in s.met /\ StepHolds(captureCall, d, s, remote, local) /\ s \in CaptureStates
        /\ m \in CaptureStates /\ CallSound(d, s, row[d]) /\ CallSound(c, m, row[c])
        /\ remote \in [{"video"} \cup Seconds -> C!Contents]
        /\ local \in [Roots -> [C!Files -> C!Contents]]
    BY <1>2 DEF CaptureInv, CaptureTypes
  <2>2. s.root \in Roots /\ m.root \in Roots /\ s.device \in {"video"} \cup Seconds
        /\ m.device \in {"video"} \cup Seconds /\ s.adding \in C!Files
        /\ s.kind \in {"evidence", "sniff"} /\ m.kind \in {"evidence", "sniff"}
    BY <1>2, <2>1 DEF CallSound, CaptureStates, C!Over
  <2>3. /\ there[m.device] = x /\ \A f \in {"video"} \cup Seconds : f # m.device => there[f] = remote[f]
        /\ here[m.root][name] = y
        /\ \A r \in Roots, n \in C!Files : r # m.root \/ n # name => here[r][n] = local[r][n]
    BY <2>1, <2>2
  <2> HIDE DEF s, m
  \* its file on the device
  <2>4. ASSUME Recording(s) PROVE there[s.device] = remote[s.device] \/ Cleared(captureCall, s, there)
    <3>1. CASE there[s.device] = remote[s.device]
      BY <3>1
    <3>2. CASE there[s.device] # remote[s.device]
      <4>1. s.device = m.device /\ Recording(m) /\ (x = C!Absent \/ x.by = c)
        BY <2>2, <2>3, <3>2 DEF m
      <4> QED BY <2>1, <2>3, <2>4, <4>1 DEF Cleared, OneFile, m
    <3> QED BY <3>1, <3>2
  <2>5. ASSUME Recording(s), Cleared(captureCall, s, remote) PROVE Cleared(captureCall, s, there)
    BY <2>4, <2>5 DEF Cleared
  \* its file of the name that is written
  <2>6. ASSUME NEW n \in C!Files, n \notin s.failed, n = "pcap" <=> s.kind = "sniff",
               s.at \in {"remove", "add"}, s.at = "remove" => n = ProductOf(s),
               s.at = "add" => n = s.adding,
               Credit(captureCall, d, s, n, local[s.root][n])
        PROVE  Credit(captureCall, d, s, n, here[s.root][n])
    <3>1. CASE here[s.root][n] = local[s.root][n]
      BY <2>6, <3>1
    <3>2. CASE here[s.root][n] # local[s.root][n]
      <4>1. s.root = m.root /\ n = name /\ here[s.root][n] = y /\ y # local[m.root][name]
        BY <2>2, <2>3, <3>2
      <4>2. /\ name = "pcap" <=> m.kind = "sniff"
            /\ \/ y = C!Own(c)
               \/ /\ name = ProductOf(m) /\ Recording(m) /\ y = remote[m.device] /\ y # C!Absent
        BY <4>1 DEF m
      <4>3. s.kind = m.kind /\ OnePlace(s, captureCall[c])
        BY <2>2, <2>6, <4>1, <4>2 DEF OnePlace, m
      <4>4. CASE s.kind = "sniff"
        BY <2>1, <4>1, <4>3, <4>4 DEF Credit
      <4>5. CASE s.kind = "evidence" /\ y = C!Own(c)
        <5>1. y.by = c
          BY <4>5 DEF C!Own
        <5> QED BY <2>1, <4>1, <4>3, <5>1 DEF Credit
      <4>6. CASE s.kind = "evidence" /\ y # C!Own(c)
        <5>1. n = "video" /\ n = ProductOf(s) /\ s.device = "video" /\ m.device = "video"
          BY <2>1, <4>1, <4>2, <4>3, <4>6 DEF ProductOf, CallSound
        <5>2. InHand(s) /\ y = remote[s.device] /\ y # C!Absent
          BY <2>6, <4>2, <4>6, <5>1 DEF InHand
        <5>3. y = C!Own(d) \/ \E e \in s.met : OneFile(s, captureCall[e]) /\ y.by = e
          BY <2>1, <5>2 DEF StepHolds, Cleared
        <5> QED BY <4>1, <5>1, <5>3 DEF Credit
      <4> QED BY <2>2, <4>4, <4>5, <4>6
    <3> QED BY <3>1, <3>2
  <2>7. ProductOf(s) \in C!Files /\ (ProductOf(s) = "pcap" <=> s.kind = "sniff")
    BY <2>2, CaptureConstants DEF ProductOf
  <2>8. s.at = "recording" => there[s.device].by = d \/ Cleared(captureCall, s, there)
    BY <2>1, <2>4, <2>5 DEF StepHolds, CallSound
  <2>9. InHand(s) => there[s.device] = C!Own(d) \/ Cleared(captureCall, s, there)
    <3> SUFFICES ASSUME InHand(s) PROVE there[s.device] = C!Own(d) \/ Cleared(captureCall, s, there)
      OBVIOUS
    <3>1. Recording(s)
      BY <2>1, <2>2 DEF InHand, CallSound, ProductOf
    <3> QED BY <2>1, <2>4, <2>5, <3>1 DEF StepHolds
  <2>10. s.at = "remove" /\ ProductOf(s) \notin s.failed =>
            Credit(captureCall, d, s, ProductOf(s), here[s.root][ProductOf(s)])
    BY <2>1, <2>6, <2>7 DEF StepHolds
  <2>11. s.at = "add" /\ s.adding \notin s.failed =>
            Credit(captureCall, d, s, s.adding, here[s.root][s.adding])
    BY <2>1, <2>2, <2>6 DEF StepHolds, CallSound
  <2>12. Removed(s) => Cleared(captureCall, s, there)
    BY <2>1, <2>5 DEF StepHolds, Removed
  <2>13. StepHolds(captureCall, d, s, there, here)
    BY <2>8, <2>9, <2>10, <2>11, <2>12 DEF StepHolds
  <2> QED BY <2>13 DEF s
<1> QED BY <1>1, <1>2

\* The invariant after a step, from its parts.
LEMMA CaptureFold ==
    ASSUME CaptureTypes',
           \A d \in Actors : CallSound(d, captureCall'[d], row'[d]),
           \A d \in Actors : StepHolds(captureCall', d, captureCall'[d], remote', local'),
           \A d \in Actors : EntriesHold(captureCall', d, captureCall'[d]),
           \A d, e \in Actors : d # e /\ captureCall'[d].at \notin C!Over
                                /\ captureCall'[e].at \notin C!Over => e \in captureCall'[d].met,
           \A d \in Actors : \A e \in captureCall'[d].met : captureCall'[e].at # "new"
    PROVE  CaptureInv'
<1>1. \A c : C!Own(c)' = C!Own(c)
  BY DEF C!Own
<1>2. C!Absent' = C!Absent /\ C!Contents' = C!Contents /\ C!Over' = C!Over
  BY DEF C!Absent, C!Contents, C!Over
<1> QED BY <1>1, <1>2 DEF CaptureInv, StepHolds, EntriesHold, Credit, Cleared, CallSound, InHand,
           Removed, Recording, ProductOf, OneFile, OnePlace

\* The device's file becomes x and the local file of that name y, by a step of call c.
Puts(c, x, name, y) ==
    /\ x \in C!Contents /\ y \in C!Contents /\ name \in C!Files
    /\ \/ x = remote[captureCall[c].device]
       \/ Recording(captureCall[c]) /\ (x = C!Absent \/ x.by = c)
    /\ \/ y = local[captureCall[c].root][name]
       \/ /\ name = "pcap" <=> captureCall[c].kind = "sniff"
          /\ \/ y = C!Own(c)
             \/ /\ name = ProductOf(captureCall[c]) /\ Recording(captureCall[c])
                /\ y = remote[captureCall[c].device] /\ y # C!Absent
    /\ remote' = [remote EXCEPT ![captureCall[c].device] = x]
    /\ local' = [local EXCEPT ![captureCall[c].root][name] = y]

\* One call moves on.
LEMMA CaptureMoves ==
    ASSUME CaptureInv, NEW c \in Actors, captureCall[c].at \notin C!Over,
           NEW state \in CaptureStates, captureCall' = [captureCall EXCEPT ![c] = state],
           Like(captureCall[c], state), state.met = captureCall[c].met, state.at # "new",
           NEW x, NEW name, NEW y, Puts(c, x, name, y),
           NEW saved \in SUBSET C!Entries, row' = [row EXCEPT ![c] = saved],
           CallSound(c, state, saved),
           StepHolds(captureCall, c, state, remote', local'),
           EntriesHold(captureCall, c, state)
    PROVE  CaptureInv'
<1>1. /\ captureCall \in [Actors -> CaptureStates] /\ row \in [Actors -> SUBSET C!Entries]
      /\ captureCall' \in [Actors -> CaptureStates] /\ row' \in [Actors -> SUBSET C!Entries]
      /\ captureCall'[c] = state /\ row'[c] = saved
      /\ \A d \in Actors \ {c} : captureCall'[d] = captureCall[d] /\ row'[d] = row[d]
  BY DEF CaptureInv, CaptureTypes
<1>2. CaptureTypes'
  <2>1. remote \in [{"video"} \cup Seconds -> C!Contents] /\ local \in [Roots -> [C!Files -> C!Contents]]
        /\ x \in C!Contents /\ y \in C!Contents
    BY DEF CaptureInv, CaptureTypes, Puts
  <2>2. /\ remote' \in [{"video"} \cup Seconds -> C!Contents]
        /\ local' \in [Roots -> [C!Files -> C!Contents]]
    BY <2>1 DEF Puts
  <2> QED BY <1>1, <2>2 DEF CaptureTypes
<1>3. \A d \in Actors : CallSound(d, captureCall'[d], row'[d])
  BY <1>1 DEF CaptureInv
<1>4. \A d \in Actors : /\ Like(captureCall[d], captureCall'[d])
                        /\ captureCall'[d].met = captureCall[d].met
                        /\ captureCall[d].met \subseteq Actors
  BY <1>1 DEF Like, CaptureStates
<1>5. ASSUME NEW d \in Actors
      PROVE  StepHolds(captureCall', d, captureCall'[d], remote', local')
  <2>1. CASE d = c
    <3>1. Like(state, state) /\ captureCall'[d] = state /\ StepHolds(captureCall, d, state, remote', local')
      BY <1>1, <2>1 DEF Like
    <3>2. \A e \in state.met : Like(captureCall[e], captureCall'[e])
      BY <1>4
    <3>3. StepHolds(captureCall', d, state, remote', local')
      BY <3>1, <3>2, StepGrows
    <3> QED BY <3>1, <3>3
  <2>2. CASE d # c
    <3> DEFINE s == captureCall[d]
               t == captureCall'[d]
    <3>1. StepHolds(captureCall, d, s, remote', local')
      BY <2>2, OthersHold DEF Puts
    <3>2. /\ Like(s, t) /\ s.met \subseteq t.met /\ t.at = s.at /\ t.adding = s.adding
          /\ t.failed = s.failed /\ t.kept = s.kept
      BY <1>1, <2>2 DEF Like
    <3>3. \A e \in s.met : Like(captureCall[e], captureCall'[e])
      BY <1>4
    <3> HIDE DEF s, t
    <3>4. StepHolds(captureCall', d, t, remote', local')
      BY <3>1, <3>2, <3>3, StepGrows
    <3> QED BY <3>4 DEF t
  <2> QED BY <2>1, <2>2
<1>6. ASSUME NEW d \in Actors
      PROVE  EntriesHold(captureCall', d, captureCall'[d])
  <2>1. CASE d = c
    <3>1. Like(state, captureCall'[d]) /\ captureCall'[d] = state
      BY <1>1, <2>1 DEF Like
    <3>2. \A e \in state.met : Like(captureCall[e], captureCall'[e])
      BY <1>4
    <3> QED BY <2>1, <3>1, <3>2, EntriesGrow
  <2>2. CASE d # c
    <3> DEFINE s == captureCall[d]
    <3>1. EntriesHold(captureCall, d, s)
      BY DEF CaptureInv
    <3>2. captureCall'[d] = s /\ Like(s, s) /\ \A e \in s.met : Like(captureCall[e], captureCall'[e])
      BY <1>1, <1>4, <2>2 DEF Like
    <3> HIDE DEF s
    <3> QED BY <3>1, <3>2, EntriesGrow
  <2> QED BY <2>1, <2>2
<1>7. \A d, e \in Actors : d # e /\ captureCall'[d].at \notin C!Over /\ captureCall'[e].at \notin C!Over
                           => e \in captureCall'[d].met
  BY <1>1, <1>4 DEF CaptureInv
<1>8. \A d \in Actors : \A e \in captureCall'[d].met : captureCall'[e].at # "new"
  BY <1>1, <1>4 DEF CaptureInv
<1> QED BY <1>2, <1>3, <1>5, <1>6, <1>7, <1>8, CaptureFold

\* A capture that begins meets those that are under way, and they meet it.
LEMMA CaptureBegins ==
    ASSUME CaptureInv, NEW c \in Actors, NEW state \in CaptureStates, C!Begin(c, state),
           state.at \in {"texts", "record"}, state.root \in Roots, state.manifest = {},
           state.kind = "evidence" => state.device = "video" /\ state.at = "texts",
           state.at = "texts" => state.kind = "evidence"
    PROVE  CaptureInv'
<1> DEFINE mine == [state EXCEPT !.met = C!Active]
           hers(d) == [captureCall[d] EXCEPT !.met = @ \cup {c}]
<1>1. /\ captureCall[c].at = "new" /\ UNCHANGED <<remote, local, row>>
      /\ captureCall' = [d \in Actors |-> IF d = c THEN mine
                            ELSE IF d \in C!Active THEN hers(d) ELSE captureCall[d]]
  BY DEF C!Begin, C!At
<1>2. /\ captureCall \in [Actors -> CaptureStates] /\ row \in [Actors -> SUBSET C!Entries]
      /\ C!Active \subseteq Actors \ {c}
  BY <1>1 DEF CaptureInv, CaptureTypes, C!Active, C!Over
<1>3. /\ mine \in CaptureStates /\ mine.at = state.at /\ mine.root = state.root
      /\ mine.manifest = {} /\ mine.kind = state.kind /\ mine.device = state.device
      /\ mine.met = C!Active
  BY <1>2 DEF CaptureStates
<1>4. ASSUME NEW d \in Actors
      PROVE  /\ hers(d) \in CaptureStates /\ hers(d).met = captureCall[d].met \cup {c}
             /\ hers(d).at = captureCall[d].at /\ hers(d).adding = captureCall[d].adding
             /\ hers(d).failed = captureCall[d].failed /\ hers(d).kept = captureCall[d].kept
             /\ hers(d).manifest = captureCall[d].manifest /\ Like(captureCall[d], hers(d))
  BY <1>2 DEF CaptureStates, Like
<1> HIDE DEF mine, hers
<1>5. captureCall'[c] = mine /\ captureCall' \in [Actors -> CaptureStates]
  BY <1>1, <1>2, <1>3, <1>4
<1>6. ASSUME NEW d \in Actors \ {c}
      PROVE  /\ captureCall'[d].at = captureCall[d].at /\ captureCall'[d].adding = captureCall[d].adding
             /\ captureCall'[d].failed = captureCall[d].failed
             /\ captureCall'[d].kept = captureCall[d].kept
             /\ captureCall'[d].manifest = captureCall[d].manifest
             /\ Like(captureCall[d], captureCall'[d])
             /\ captureCall'[d].met = captureCall[d].met \cup (IF d \in C!Active THEN {c} ELSE {})
  <2>1. CASE d \in C!Active
    <3>1. captureCall'[d] = hers(d)
      BY <1>1, <2>1
    <3> QED BY <1>4, <2>1, <3>1
  <2>2. CASE d \notin C!Active
    <3>1. captureCall'[d] = captureCall[d]
      BY <1>1, <2>2
    <3> QED BY <2>2, <3>1 DEF Like
  <2> QED BY <2>1, <2>2
<1>7. CaptureTypes'
  BY <1>1, <1>5 DEF CaptureInv, CaptureTypes
<1>8. \A d \in Actors : CallSound(d, captureCall'[d], row'[d])
  <2>1. row[c] = {}
    BY <1>1 DEF CaptureInv, CallSound
  <2>2. state.kind \in {"evidence", "sniff"}
    BY DEF CaptureStates
  <2>3. mine.at = "record" => Recording(mine)
    BY <1>3, <2>2 DEF Recording
  <2>4. CallSound(c, mine, row'[c])
    BY <1>1, <1>2, <1>3, <2>1, <2>3 DEF CallSound
  <2>5. ASSUME NEW d \in Actors \ {c} PROVE CallSound(d, captureCall'[d], row'[d])
    <3>1. CallSound(d, captureCall[d], row[d]) /\ row'[d] = row[d]
      BY <1>1 DEF CaptureInv
    <3>2. Recording(captureCall[d]) <=> Recording(captureCall'[d])
      BY <1>6 DEF Recording, Like
    <3> QED BY <1>6, <3>1, <3>2 DEF CallSound, Like
  <2> QED BY <1>5, <2>4, <2>5
<1>9. \A d \in Actors : \A e \in captureCall[d].met : Like(captureCall[e], captureCall'[e])
  <2> SUFFICES ASSUME NEW d \in Actors, NEW e \in captureCall[d].met
               PROVE  Like(captureCall[e], captureCall'[e])
    OBVIOUS
  <2>1. captureCall[e].at # "new" /\ e \in Actors
    BY <1>2 DEF CaptureInv, CaptureStates
  <2> QED BY <1>1, <1>6, <2>1
<1>10. ASSUME NEW d \in Actors
       PROVE  /\ StepHolds(captureCall', d, captureCall'[d], remote', local')
              /\ EntriesHold(captureCall', d, captureCall'[d])
  <2>1. CASE d = c
    BY <1>3, <1>5, <2>1 DEF StepHolds, EntriesHold, InHand, Removed
  <2>2. CASE d # c
    <3> DEFINE s == captureCall[d]
               t == captureCall'[d]
    <3>1. StepHolds(captureCall, d, s, remote', local') /\ EntriesHold(captureCall, d, s)
      BY <1>1 DEF CaptureInv
    <3>2. /\ Like(s, t) /\ s.met \subseteq t.met /\ t.at = s.at /\ t.adding = s.adding
          /\ t.failed = s.failed /\ t.kept = s.kept /\ t.manifest = s.manifest
      BY <1>6, <2>2
    <3>3. \A e \in s.met : Like(captureCall[e], captureCall'[e])
      BY <1>9
    <3> HIDE DEF s, t
    <3>4. StepHolds(captureCall', d, t, remote', local')
      BY <3>1, <3>2, <3>3, StepGrows
    <3>5. EntriesHold(captureCall', d, t)
      BY <3>1, <3>2, <3>3, EntriesGrow
    <3> QED BY <3>4, <3>5 DEF t
  <2> QED BY <2>1, <2>2
<1>11. \A d, e \in Actors :
          d # e /\ captureCall'[d].at \notin C!Over /\ captureCall'[e].at \notin C!Over
             => e \in captureCall'[d].met
  <2> SUFFICES ASSUME NEW d \in Actors, NEW e \in Actors, d # e,
                      captureCall'[d].at \notin C!Over, captureCall'[e].at \notin C!Over
               PROVE  e \in captureCall'[d].met
    OBVIOUS
  <2>1. CASE d = c
    <3>1. e \in C!Active
      BY <1>6, <2>1 DEF C!Active
    <3> QED BY <1>3, <1>5, <2>1, <3>1
  <2>2. CASE d # c /\ e = c
    <3>1. d \in C!Active
      BY <1>6, <2>2 DEF C!Active
    <3> QED BY <1>6, <2>2, <3>1
  <2>3. CASE d # c /\ e # c
    BY <1>6, <2>3 DEF CaptureInv
  <2> QED BY <2>1, <2>2, <2>3
<1>12. \A d \in Actors : \A e \in captureCall'[d].met : captureCall'[e].at # "new"
  <2> SUFFICES ASSUME NEW d \in Actors, NEW e \in captureCall'[d].met
               PROVE  captureCall'[e].at # "new"
    OBVIOUS
  <2>1. captureCall'[c].at # "new"
    BY <1>3, <1>5
  <2>2. CASE d = c
    <3>1. e \in Actors \ {c} /\ captureCall[e].at # "new"
      BY <1>2, <1>3, <1>5, <2>2 DEF C!Active, C!Over
    <3> QED BY <1>6, <3>1
  <2>3. CASE d # c
    <3>1. e = c \/ e \in captureCall[d].met
      BY <1>6, <2>3
    <3>2. CASE e \in captureCall[d].met
      <4>1. captureCall[e].at # "new" /\ e \in Actors /\ e # c
        BY <1>1, <1>2, <3>2 DEF CaptureInv, CaptureStates
      <4> QED BY <1>6, <4>1
    <3> QED BY <2>1, <3>1, <3>2
  <2> QED BY <2>2, <2>3
<1> QED BY <1>7, <1>8, <1>10, <1>11, <1>12, CaptureFold

\* What a step of call c comes to: the invariant goes on, the others' states are theirs, and
\* when c ends with it the device is cleared.
Stepped(c) ==
    /\ CaptureInv'
    /\ \A d \in Actors \ {c} : captureCall'[d] = captureCall[d]
    /\ captureCall'[c].at = "done" /\ Recording(captureCall[c]) /\ ~captureCall[c].kept =>
          Cleared(captureCall, captureCall[c], remote')

\* The steps of a capture that has begun, without those that end it by an error.
OwnStep(c) ==
    \/ C!Texts(c) \/ C!Bugreport(c) \/ C!BugreportFails(c) \/ C!Record(c) \/ C!RecordFails(c)
    \/ \E whole \in BOOLEAN : C!Recorded(c, whole)
    \/ C!Pull(c) \/ C!PullFails(c) \/ C!Remove(c) \/ C!Add(c) \/ C!Apks(c) \/ C!NoApks(c)
    \/ C!Save(c)

LEMMA CaptureStepsInv ==
    ASSUME CaptureInv, NEW c \in Actors, OwnStep(c) \/ C!Raise(c) \/ C!Kill(c)
    PROVE  Stepped(c)
<1> DEFINE was == captureCall[c]
<1>0. /\ was \in CaptureStates /\ row[c] \in SUBSET C!Entries /\ CallSound(c, was, row[c])
      /\ StepHolds(captureCall, c, was, remote, local) /\ EntriesHold(captureCall, c, was)
      /\ remote \in [{"video"} \cup Seconds -> C!Contents]
      /\ local \in [Roots -> [C!Files -> C!Contents]]
      /\ captureCall \in [Actors -> CaptureStates] /\ row \in [Actors -> SUBSET C!Entries]
      /\ row = [row EXCEPT ![c] = row[c]]
  BY DEF CaptureInv, CaptureTypes
<1>1. was.at \notin C!Over
  <2>1. CASE OwnStep(c)
    <3>1. CASE C!Texts(c) \/ C!Bugreport(c) \/ C!BugreportFails(c) \/ C!Apks(c) \/ C!NoApks(c)
      BY <3>1 DEF C!At, C!Over, C!Texts, C!Bugreport, C!BugreportFails, C!Apks, C!NoApks
    <3>2. CASE C!Record(c) \/ C!RecordFails(c) \/ \E whole \in BOOLEAN : C!Recorded(c, whole)
      <4>1. C!At(c, "record") \/ C!At(c, "recording")
        BY <3>2, Zenon DEF C!Record, C!RecordFails, C!Recorded
      <4> QED BY <4>1 DEF C!At, C!Over
    <3>3. CASE C!Pull(c) \/ C!PullFails(c) \/ C!Remove(c)
      <4>1. C!At(c, "pull") \/ C!At(c, "remove")
        BY <3>3, Zenon DEF C!Pull, C!PullFails, C!Remove
      <4> QED BY <4>1 DEF C!At, C!Over
    <3>4. CASE C!Add(c) \/ C!Save(c)
      BY <3>4 DEF C!At, C!Over, C!Add, C!Save
    <3> QED BY <2>1, <3>1, <3>2, <3>3, <3>4 DEF OwnStep
  <2>2. CASE C!Raise(c) \/ C!Kill(c)
    BY <2>2 DEF C!Over, C!At, C!Raise, C!Kill
  <2> QED BY <2>1, <2>2
<1>2. /\ was.root \in Roots /\ was.device \in {"video"} \cup Seconds
      /\ was.kind \in {"evidence", "sniff"} /\ was.adding \in C!Files
      /\ was.manifest \subseteq C!Entries /\ was.failed \subseteq C!Files
      /\ row[c] \subseteq was.manifest
  BY <1>0, <1>1 DEF CallSound, CaptureStates, C!Over
<1>3. /\ ProductOf(was) \in C!Files /\ C!Product(c) = ProductOf(was)
      /\ (ProductOf(was) = "pcap" <=> was.kind = "sniff") /\ ProductOf(was) \in {"pcap", "video"}
      /\ was.kind = "evidence" => ProductOf(was) = "video"
  BY <1>2, CaptureConstants DEF ProductOf, C!Product
\* How the device's file and a local file may change.
<1>4. /\ remote[was.device] \in C!Contents
      /\ \A name \in C!Files : local[was.root][name] \in C!Contents
      /\ remote = [remote EXCEPT ![was.device] = remote[was.device]]
      /\ \A name \in C!Files : local = [local EXCEPT ![was.root][name] = local[was.root][name]]
  BY <1>0, <1>2
<1>5. ASSUME UNCHANGED <<remote, local>>
      PROVE  Puts(c, remote[was.device], "texts", local[was.root]["texts"])
  BY <1>4, <1>5, CaptureConstants DEF Puts
<1>6. ASSUME UNCHANGED local, NEW x \in C!Contents, remote' = [remote EXCEPT ![was.device] = x],
             x = remote[was.device] \/ (Recording(was) /\ (x = C!Absent \/ x.by = c))
      PROVE  Puts(c, x, "texts", local[was.root]["texts"])
  BY <1>4, <1>6, CaptureConstants DEF Puts
<1>7. ASSUME UNCHANGED remote, NEW name \in C!Files, NEW y \in C!Contents, C!Put(c, name, y),
             name = "pcap" <=> was.kind = "sniff",
             \/ y = C!Own(c)
             \/ /\ name = ProductOf(was) /\ Recording(was)
                /\ y = remote[was.device] /\ y # C!Absent
      PROVE  /\ Puts(c, remote[was.device], name, y)
             /\ local'[was.root][name] = y
  <2>1. local' = [local EXCEPT ![was.root][name] = y]
    BY <1>7 DEF C!Put
  <2>2. local'[was.root][name] = y
    BY <1>0, <1>2, <2>1
  <2> QED BY <1>4, <1>7, <2>1, <2>2 DEF Puts
\* A step that leaves what never changes, and the calls met.
<1>8. ASSUME NEW state \in CaptureStates, captureCall' = [captureCall EXCEPT ![c] = state],
             Like(was, state), state.met = was.met, state.at # "new",
             NEW x, NEW name, NEW y, Puts(c, x, name, y),
             NEW saved \in SUBSET C!Entries, row' = [row EXCEPT ![c] = saved],
             CallSound(c, state, saved),
             StepHolds(captureCall, c, state, remote', local'),
             EntriesHold(captureCall, c, state),
             state.at = "done" /\ Recording(was) /\ ~was.kept => Cleared(captureCall, was, remote')
      PROVE  Stepped(c)
  <2>1. CaptureInv'
    BY <1>1, <1>8, CaptureMoves
  <2>2. captureCall'[c] = state /\ \A d \in Actors \ {c} : captureCall'[d] = captureCall[d]
    BY <1>0, <1>8
  <2> QED BY <1>8, <2>1, <2>2 DEF Stepped
<1>9. ASSUME NEW state, Like(was, state), state.met = was.met
      PROVE  /\ \A name, content : Credit(captureCall, c, was, name, content) =>
                                      Credit(captureCall, c, state, name, content)
             /\ \A there : Cleared(captureCall, was, there) => Cleared(captureCall, state, there)
             /\ ProductOf(state) = ProductOf(was) /\ (Recording(state) <=> Recording(was))
             /\ state.device = was.device /\ state.root = was.root /\ state.kind = was.kind
             /\ state.manifest = was.manifest /\ was.failed \subseteq state.failed =>
                   EntriesHold(captureCall, c, state)
  <2>1. \A d : Like(captureCall[d], captureCall[d])
    BY DEF Like
  <2>2. /\ \A name, content : Credit(captureCall, c, was, name, content) =>
                                 Credit(captureCall, c, state, name, content)
        /\ \A there : Cleared(captureCall, was, there) => Cleared(captureCall, state, there)
    BY <1>9, <2>1, CreditGrows
  <2>3. state.manifest = was.manifest /\ was.failed \subseteq state.failed =>
            EntriesHold(captureCall, c, state)
    BY <1>0, <2>2 DEF EntriesHold
  <2> QED BY <1>9, <2>2, <2>3 DEF Like, ProductOf, Recording
<1>10. \A name, s : Credit(captureCall, c, s, name, C!Own(c))
  BY DEF Credit
<1> USE DEF C!At, C!Set, C!Goto
\* A file of the call's own is written: structured text, a bug report or packages.
<1>11. CASE C!Texts(c) \/ C!Bugreport(c) \/ C!Apks(c)
  <2>1. PICK name \in {"texts", "bugreport", "apks"} :
           /\ was.at = name /\ C!Put(c, name, C!Own(c)) /\ UNCHANGED <<remote, row>>
           /\ captureCall' = [captureCall EXCEPT ![c] = [was EXCEPT !.at = "add", !.adding = name]]
    BY <1>11 DEF C!Texts, C!Bugreport, C!Apks, C!Wrote
  <2> DEFINE state == [was EXCEPT !.at = "add", !.adding = name]
  <2>2. name \in C!Files /\ C!Own(c) \in C!Contents /\ was.kind = "evidence" /\ name # "pcap"
    <3>1. was.kind = "evidence"
      BY <1>0, <2>1 DEF CallSound
    <3> HIDE DEF was
    <3> QED BY <3>1, CaptureConstants
  <2>3. /\ state \in CaptureStates /\ state.at = "add" /\ state.adding = name
        /\ state.failed = was.failed /\ state.kept = was.kept /\ state.manifest = was.manifest
        /\ state.met = was.met /\ Like(was, state)
    BY <1>0, <2>2 DEF CaptureStates, Like
  <2> HIDE DEF state
  <2>4. /\ Puts(c, remote[was.device], name, C!Own(c)) /\ local'[was.root][name] = C!Own(c)
    BY <1>7, <2>1, <2>2
  <2>5. captureCall' = [captureCall EXCEPT ![c] = state] /\ row' = [row EXCEPT ![c] = row[c]]
    BY <1>0, <2>1 DEF state
  <2>6. CallSound(c, state, row[c])
    BY <1>0, <1>2, <1>9, <2>2, <2>3 DEF CallSound
  <2>7. Removed(state) => Removed(was)
    BY <1>9, <2>1, <2>3 DEF Removed
  <2>8. ~InHand(state)
    BY <1>2, <1>3, <1>9, <2>1, <2>3 DEF InHand
  <2>9. StepHolds(captureCall, c, state, remote', local')
    BY <1>0, <1>9, <1>10, <2>1, <2>3, <2>4, <2>7, <2>8 DEF StepHolds
  <2>10. EntriesHold(captureCall, c, state)
    BY <1>9, <2>3
  <2> HIDE DEF was
  <2> QED BY <1>0, <1>8, <2>3, <2>4, <2>5, <2>6, <2>9, <2>10
\* A command fails: what it was to deliver is counted as failed.
<1> DEFINE Failing(to, name, adding) ==
              /\ was.kind = "evidence" /\ UNCHANGED <<remote, local, row>>
              /\ captureCall' = [captureCall EXCEPT ![c] =
                    [was EXCEPT !.at = to, !.adding = adding, !.failed = @ \cup {name}]]
              /\ \/ to = "add" /\ name = "bugreport" /\ adding = name
                 \/ to # "add" /\ name = "video" /\ Recording(was)
<1>12. ASSUME NEW to \in {"add", "pull", "remove"}, NEW name \in {"bugreport", "video"},
              NEW adding \in C!Files, Failing(to, name, adding)
       PROVE  Stepped(c)
  <2> DEFINE state == [was EXCEPT !.at = to, !.adding = adding, !.failed = @ \cup {name}]
  <2>1. name \in C!Files
    BY CaptureConstants
  <2>2. /\ state \in CaptureStates /\ state.at = to /\ state.adding = adding
        /\ state.failed = was.failed \cup {name} /\ state.kept = was.kept
        /\ state.manifest = was.manifest /\ state.met = was.met /\ Like(was, state)
    BY <1>0, <1>2, <2>1 DEF CaptureStates, Like
  <2>3. captureCall' = [captureCall EXCEPT ![c] = state] /\ row' = [row EXCEPT ![c] = row[c]]
    BY <1>0, <1>12
  <2> HIDE DEF state
  <2>4. Puts(c, remote[was.device], "texts", local[was.root]["texts"])
    BY <1>5, <1>12
  <2>5. CallSound(c, state, row[c])
    BY <1>0, <1>2, <1>9, <1>12, <2>2 DEF CallSound
  <2>6. ~InHand(state) /\ ~Removed(state)
    BY <1>3, <1>9, <1>12, <2>2 DEF InHand, Removed
  <2>7. StepHolds(captureCall, c, state, remote', local')
    BY <1>3, <1>9, <1>12, <2>2, <2>6 DEF StepHolds
  <2>8. EntriesHold(captureCall, c, state)
    BY <1>9, <2>2
  <2> HIDE DEF was
  <2> QED BY <1>0, <1>8, <1>12, <2>2, <2>3, <2>4, <2>5, <2>7, <2>8
<1>13. CASE C!BugreportFails(c)
  <2>1. /\ was.at = "bugreport" /\ UNCHANGED <<remote, local, row>>
        /\ captureCall' = [captureCall EXCEPT ![c] =
              [was EXCEPT !.at = "add", !.adding = "bugreport", !.failed = @ \cup {"bugreport"}]]
    BY <1>13 DEF C!BugreportFails
  <2>2. was.kind = "evidence" /\ "bugreport" \in C!Files
    BY <1>0, <2>1, CaptureConstants DEF CallSound
  <2> HIDE DEF was
  <2>3. Failing("add", "bugreport", "bugreport")
    BY <2>1, <2>2
  <2> HIDE DEF was, Failing
  <2> QED BY <1>12, <2>2, <2>3
<1>14. CASE C!RecordFails(c) \/ C!PullFails(c)
  <2>1. PICK to \in {"pull", "remove"} :
           /\ was.at \in {"record", "pull"} /\ was.kind = "evidence" /\ UNCHANGED <<remote, local, row>>
           /\ captureCall' = [captureCall EXCEPT ![c] =
                 [was EXCEPT !.at = to, !.failed = @ \cup {"video"}]]
    BY <1>14 DEF C!RecordFails, C!PullFails
  <2>2. Recording(was)
    BY <1>0, <2>1 DEF CallSound
  <2>3. [was EXCEPT !.at = to, !.failed = @ \cup {"video"}]
          = [was EXCEPT !.at = to, !.adding = was.adding, !.failed = @ \cup {"video"}]
    BY <1>0 DEF CaptureStates
  <2>4. captureCall' = [captureCall EXCEPT ![c] =
           [was EXCEPT !.at = to, !.adding = was.adding, !.failed = @ \cup {"video"}]]
    BY <2>1, <2>3
  <2>5. Failing(to, "video", was.adding)
    BY <2>1, <2>2, <2>4
  <2> HIDE DEF was, Failing
  <2> QED BY <1>2, <1>12, <2>5
<1>15. CASE C!Record(c)
  <2> DEFINE state == [was EXCEPT !.at = "recording"]
             x == [by |-> c, whole |-> FALSE]
  <2>1. /\ was.at = "record" /\ UNCHANGED <<local, row>>
        /\ captureCall' = [captureCall EXCEPT ![c] = state]
        /\ remote' = [remote EXCEPT ![was.device] = x]
    BY <1>15 DEF C!Record
  <2>2. x \in C!Contents /\ x.by = c
    BY CaptureConstants
  <2>3. /\ state \in CaptureStates /\ state.at = "recording"
        /\ state.failed = was.failed /\ state.kept = was.kept /\ state.manifest = was.manifest
        /\ state.met = was.met /\ Like(was, state)
    BY <1>0 DEF CaptureStates, Like
  <2> HIDE DEF state, x
  <2>4. Recording(was)
    BY <1>0, <2>1 DEF CallSound
  <2>5. Puts(c, x, "texts", local[was.root]["texts"])
    BY <1>6, <2>1, <2>2, <2>4
  <2>6. CallSound(c, state, row[c])
    BY <1>0, <1>2, <1>9, <2>3, <2>4 DEF CallSound
  <2>7. remote'[was.device].by = c
    BY <1>0, <1>2, <2>1, <2>2
  <2>8. StepHolds(captureCall, c, state, remote', local')
    BY <1>9, <2>3, <2>7 DEF StepHolds, InHand, Removed
  <2>9. EntriesHold(captureCall, c, state)
    BY <1>9, <2>3
  <2>10. row' = [row EXCEPT ![c] = row[c]]
    BY <1>0, <2>1
  <2> HIDE DEF was
  <2> QED BY <1>0, <1>8, <2>1, <2>3, <2>5, <2>6, <2>8, <2>9, <2>10
<1>16. ASSUME NEW whole \in BOOLEAN, C!Recorded(c, whole) PROVE Stepped(c)
  <2> DEFINE failing == IF whole THEN was.failed ELSE was.failed \cup {ProductOf(was)}
             x == IF remote[was.device].by = c THEN [remote[was.device] EXCEPT !.whole = whole]
                  ELSE remote[was.device]
             state == [was EXCEPT !.at = "pull", !.failed = failing]
  <2>1. /\ was.at = "recording" /\ UNCHANGED <<local, row>>
        /\ captureCall' = [captureCall EXCEPT ![c] = state]
        /\ remote' = [remote EXCEPT ![was.device] = x]
    BY <1>3, <1>16 DEF C!Recorded
  <2>2. /\ x \in C!Contents
        /\ remote[was.device].by = c => x = [by |-> c, whole |-> whole] /\ x.by = c
        /\ remote[was.device].by # c => x = remote[was.device]
    BY <1>4 DEF C!Contents, C!Absent
  <2>3. failing \subseteq C!Files /\ was.failed \subseteq failing
        /\ (ProductOf(was) \notin failing => whole = TRUE)
    BY <1>2, <1>3
  <2> HIDE DEF x, failing
  <2>4. /\ state \in CaptureStates /\ state.at = "pull" /\ state.failed = failing
        /\ state.kept = was.kept /\ state.manifest = was.manifest
        /\ state.met = was.met /\ Like(was, state)
    BY <1>0, <2>3 DEF CaptureStates, Like
  <2> HIDE DEF state
  <2>5. Recording(was)
    BY <1>0, <2>1 DEF CallSound
  <2>6. Puts(c, x, "texts", local[was.root]["texts"])
    BY <1>6, <2>1, <2>2, <2>5
  <2>7. CallSound(c, state, row[c])
    BY <1>0, <1>2, <1>9, <2>4, <2>5 DEF CallSound
  <2>8. remote'[was.device] = x
    BY <1>0, <1>2, <2>1
  <2>9. InHand(state) => remote'[was.device] = C!Own(c) \/ Cleared(captureCall, was, remote')
    <3> SUFFICES ASSUME InHand(state)
                 PROVE  remote'[was.device] = C!Own(c) \/ Cleared(captureCall, was, remote')
      OBVIOUS
    <3>1. whole = TRUE
      BY <1>9, <2>3, <2>4 DEF InHand
    <3>2. CASE remote[was.device].by = c
      BY <2>2, <2>8, <3>1, <3>2, CaptureConstants
    <3>3. CASE remote[was.device].by # c
      <4>1. Cleared(captureCall, was, remote)
        BY <1>0, <2>1, <3>3 DEF StepHolds
      <4> QED BY <2>2, <2>8, <3>3, <4>1 DEF Cleared
    <3> QED BY <3>2, <3>3
  <2>10. StepHolds(captureCall, c, state, remote', local')
    BY <1>9, <2>4, <2>9 DEF StepHolds, Removed
  <2>11. EntriesHold(captureCall, c, state)
    BY <1>9, <2>3, <2>4
  <2>12. row' = [row EXCEPT ![c] = row[c]]
    BY <1>0, <2>1
  <2> HIDE DEF was
  <2> QED BY <1>0, <1>8, <2>1, <2>4, <2>6, <2>7, <2>10, <2>11, <2>12
<1>17. CASE C!Pull(c)
  <2> DEFINE state == [was EXCEPT !.at = "remove"]
             y == remote[was.device]
             product == ProductOf(was)
  <2>1. /\ was.at = "pull" /\ UNCHANGED <<remote, row>> /\ y # C!Absent
        /\ C!Put(c, product, y) /\ captureCall' = [captureCall EXCEPT ![c] = state]
    BY <1>3, <1>17 DEF C!Pull
  <2>2. /\ state \in CaptureStates /\ state.at = "remove"
        /\ state.failed = was.failed /\ state.kept = was.kept /\ state.manifest = was.manifest
        /\ state.met = was.met /\ Like(was, state)
    BY <1>0 DEF CaptureStates, Like
  <2>3. Recording(was)
    BY <1>0, <2>1 DEF CallSound
  <2> HIDE DEF state
  <2>4. Puts(c, y, product, y) /\ local'[was.root][product] = y
    BY <1>3, <1>4, <1>7, <2>1, <2>3
  <2>5. CallSound(c, state, row[c])
    BY <1>0, <1>2, <1>9, <2>2, <2>3 DEF CallSound
  <2>6. product \notin was.failed => y = C!Own(c) \/ Cleared(captureCall, was, remote')
    <3>1. product \notin was.failed => InHand(was)
      BY <2>1 DEF InHand
    <3> QED BY <1>0, <2>1, <3>1 DEF StepHolds
  <2>7. product \notin was.failed => Credit(captureCall, c, was, product, y)
    BY <1>4, <2>1, <2>6 DEF Credit, Cleared
  <2>8. InHand(state) => product \notin was.failed
    BY <1>9, <2>2 DEF InHand
  <2>9. StepHolds(captureCall, c, state, remote', local')
    BY <1>9, <2>1, <2>2, <2>4, <2>6, <2>7, <2>8 DEF StepHolds, Removed
  <2>10. EntriesHold(captureCall, c, state)
    BY <1>9, <2>2
  <2>11. row' = [row EXCEPT ![c] = row[c]]
    BY <1>0, <2>1
  <2> HIDE DEF was, y, product
  <2> QED BY <1>0, <1>8, <2>1, <2>2, <2>4, <2>5, <2>9, <2>10, <2>11
<1>18. CASE C!Remove(c)
  <2>0. PICK ok \in BOOLEAN :
           /\ remote' = IF ok THEN [remote EXCEPT ![was.device] = C!Absent] ELSE remote
           /\ captureCall' = [captureCall EXCEPT ![c] =
                 [was EXCEPT !.at = "add", !.adding = C!Product(c), !.kept = ~ok]]
    BY <1>18, Zenon DEF C!Remove
  <2>1. /\ remote' = IF ok THEN [remote EXCEPT ![was.device] = C!Absent] ELSE remote
        /\ captureCall' = [captureCall EXCEPT ![c] =
              [was EXCEPT !.at = "add", !.adding = ProductOf(was), !.kept = ~ok]]
    BY <1>3, <2>0
  <2> DEFINE state == [was EXCEPT !.at = "add", !.adding = ProductOf(was), !.kept = ~ok]
             x == IF ok THEN C!Absent ELSE remote[was.device]
  <2>2. was.at = "remove" /\ UNCHANGED <<local, row>>
    BY <1>18 DEF C!Remove
  <2>3. remote' = [remote EXCEPT ![was.device] = x] /\ x \in C!Contents
        /\ (x = remote[was.device] \/ x = C!Absent) /\ (ok => x = C!Absent)
        /\ (~ok => x = remote[was.device])
    BY <1>4, <2>1, CaptureConstants
  <2>4. /\ state \in CaptureStates /\ state.at = "add" /\ state.adding = ProductOf(was)
        /\ state.failed = was.failed /\ state.kept = ~ok /\ state.manifest = was.manifest
        /\ state.met = was.met /\ Like(was, state)
    BY <1>0, <1>3 DEF CaptureStates, Like
  <2>5. Recording(was)
    BY <1>0, <2>2 DEF CallSound
  <2> HIDE DEF state, x
  <2>6. Puts(c, x, "texts", local[was.root]["texts"])
    BY <1>6, <2>2, <2>3, <2>5
  <2>7. CallSound(c, state, row[c])
    BY <1>0, <1>2, <1>3, <1>9, <2>4, <2>5 DEF CallSound
  <2>8. remote'[was.device] = x
    BY <1>0, <1>2, <2>3
  <2>9. InHand(state) => remote'[was.device] = C!Own(c) \/ Cleared(captureCall, was, remote')
    <3> SUFFICES ASSUME InHand(state)
                 PROVE  remote'[was.device] = C!Own(c) \/ Cleared(captureCall, was, remote')
      OBVIOUS
    <3>1. InHand(was)
      BY <1>9, <2>2, <2>4 DEF InHand
    <3>2. remote[was.device] = C!Own(c) \/ Cleared(captureCall, was, remote)
      BY <1>0, <3>1 DEF StepHolds
    <3> QED BY <2>3, <2>8, <3>2 DEF Cleared
  <2>10. Removed(state) => Cleared(captureCall, was, remote')
    BY <2>3, <2>4, <2>8 DEF Removed, Cleared
  <2>11. StepHolds(captureCall, c, state, remote', local')
    BY <1>0, <1>9, <2>2, <2>4, <2>9, <2>10 DEF StepHolds
  <2>12. EntriesHold(captureCall, c, state)
    BY <1>9, <2>4
  <2>13. captureCall' = [captureCall EXCEPT ![c] = state] /\ row' = [row EXCEPT ![c] = row[c]]
    BY <1>0, <2>1, <2>2 DEF state
  <2> HIDE DEF was
  <2> QED BY <1>0, <1>8, <2>3, <2>4, <2>6, <2>7, <2>11, <2>12, <2>13
\* add_artifact hashes what is there.
<1>19. CASE C!Add(c)
  <2> DEFINE to == C!AfterAdding(was)
             file == local[was.root][was.adding]
             entry == C!Entry(was.adding, file)
             listing == IF file = C!Absent THEN was.manifest ELSE was.manifest \cup {entry}
             state == [was EXCEPT !.at = to, !.manifest = listing]
  <2>1. /\ was.at = "add" /\ UNCHANGED <<remote, local, row>>
        /\ captureCall' = [captureCall EXCEPT ![c] = state]
    BY <1>19 DEF C!Add, C!Here
  <2>2. /\ entry \in C!Entries /\ entry.name = was.adding /\ entry.content = file
    BY <1>2, <1>4, CaptureConstants
  <2> HIDE DEF file, entry
  <2>3. /\ was.manifest \subseteq listing /\ listing \subseteq C!Entries
        /\ \A e \in listing : e \in was.manifest \/ e = entry
    BY <1>2, <2>2
  <2>4. /\ was.adding = "texts" => to = "bugreport"
        /\ was.adding = "bugreport" => to = IF was.seconds THEN "record" ELSE "apks"
        /\ was.adding = "video" => to = "apks"
        /\ was.adding = "apks" => to \in {"save", "done"}
        /\ was.adding = "pcap" => to = "done"
        /\ was.adding \in {"texts", "bugreport", "video", "apks", "pcap"}
    BY <1>2 DEF C!AfterAdding, C!Files, C!Commands
  <2>5. to \in {"bugreport", "record", "apks", "save", "done"}
    BY <2>4
  <2> HIDE DEF to, listing
  <2>6. /\ state \in CaptureStates /\ state.at = to /\ state.adding = was.adding
        /\ state.failed = was.failed /\ state.kept = was.kept /\ state.manifest = listing
        /\ state.met = was.met /\ Like(was, state)
    BY <1>0, <2>3, <2>5 DEF CaptureStates, Like
  <2> HIDE DEF state
  <2>7. Puts(c, remote[was.device], "texts", local[was.root]["texts"])
    BY <1>5, <2>1
  <2>8. was.adding = "pcap" <=> was.kind = "sniff"
    BY <1>0, <2>1 DEF CallSound
  <2>9. CallSound(c, state, row[c])
    <3>1. to \in {"bugreport", "apks", "save"} => state.kind = "evidence"
      BY <1>2, <1>9, <2>4, <2>6, <2>8
    <3>2. to = "record" => Recording(state)
      BY <1>9, <2>4, <2>6 DEF Recording
    <3> QED BY <1>0, <1>2, <1>9, <2>1, <2>3, <2>5, <2>6, <3>1, <3>2 DEF CallSound
  <2>10. to \in {"apks", "save", "done"} /\ Recording(was) /\ ~was.kept => Removed(was)
    BY <1>2, <2>1, <2>4, <2>8 DEF Removed, Recording
  <2>11. StepHolds(captureCall, c, state, remote', local')
    <3>1. ~InHand(state)
      BY <2>5, <2>6 DEF InHand
    <3>2. Removed(state) => Cleared(captureCall, state, remote')
      BY <1>0, <1>9, <2>1, <2>5, <2>6, <2>10 DEF Removed, StepHolds
    <3> QED BY <2>5, <2>6, <3>1, <3>2 DEF StepHolds
  <2>12. EntriesHold(captureCall, c, state)
    <3>1. was.adding \notin was.failed => Credit(captureCall, c, was, was.adding, file)
      BY <1>0, <2>1 DEF StepHolds, file
    <3>2. ASSUME NEW e \in listing, e.name \notin was.failed
          PROVE  Credit(captureCall, c, was, e.name, e.content)
      BY <1>0, <2>2, <2>3, <3>1, <3>2 DEF EntriesHold
    <3> QED BY <1>9, <2>6, <3>2 DEF EntriesHold
  <2>13. to = "done" /\ Recording(was) /\ ~was.kept => Cleared(captureCall, was, remote')
    BY <1>0, <2>1, <2>10 DEF StepHolds
  <2>14. row' = [row EXCEPT ![c] = row[c]] /\ state.at # "new"
    BY <1>0, <2>1, <2>5, <2>6
  <2> HIDE DEF was
  <2> QED BY <1>0, <1>8, <2>1, <2>6, <2>7, <2>9, <2>11, <2>12, <2>13, <2>14
\* A step that only ends the call.
<1>20. ASSUME NEW to \in {"done", "raised"},
              captureCall' = [captureCall EXCEPT ![c] = [was EXCEPT !.at = to]],
              UNCHANGED <<remote, local, row>>, to = "done" => was.at \in {"apks", "save"}
       PROVE  Stepped(c)
  <2> DEFINE state == [was EXCEPT !.at = to]
  <2>1. /\ state \in CaptureStates /\ state.at = to
        /\ state.failed = was.failed /\ state.kept = was.kept /\ state.manifest = was.manifest
        /\ state.met = was.met /\ Like(was, state)
    BY <1>0 DEF CaptureStates, Like
  <2>2. captureCall' = [captureCall EXCEPT ![c] = state] /\ row' = [row EXCEPT ![c] = row[c]]
    BY <1>0, <1>20
  <2> HIDE DEF state
  <2>3. Puts(c, remote[was.device], "texts", local[was.root]["texts"])
    BY <1>5, <1>20
  <2>4. CallSound(c, state, row[c])
    BY <1>0, <1>2, <1>9, <2>1 DEF CallSound
  <2>5. StepHolds(captureCall, c, state, remote', local')
    BY <2>1 DEF StepHolds, InHand, Removed
  <2>6. EntriesHold(captureCall, c, state)
    BY <1>9, <2>1
  <2>7. to = "done" /\ Recording(was) /\ ~was.kept => Cleared(captureCall, was, remote')
    BY <1>0, <1>20 DEF StepHolds, Removed
  <2> HIDE DEF was
  <2> QED BY <1>0, <1>8, <2>1, <2>2, <2>3, <2>4, <2>5, <2>6, <2>7
<1>21. CASE C!Save(c)
  <2>1. was.at = "save" /\ UNCHANGED <<remote, local>>
    BY <1>21 DEF C!Save
  <2>2. CASE row[c] = was.manifest
    BY <1>20, <1>21, <2>1, <2>2 DEF C!Save
  <2>3. CASE row[c] # was.manifest
    <3>1. PICK e \in was.manifest : row' = [row EXCEPT ![c] = row[c] \cup {e}]
      BY <1>2, <1>21, <2>3 DEF C!Save
    <3>2. captureCall' = captureCall /\ captureCall = [captureCall EXCEPT ![c] = was]
      BY <1>0, <1>21, <2>3 DEF C!Save
    <3>3. CallSound(c, was, row[c] \cup {e}) /\ row[c] \cup {e} \in SUBSET C!Entries
      BY <1>0, <1>2, <2>1 DEF CallSound
    <3>4. StepHolds(captureCall, c, was, remote', local') /\ Like(was, was) /\ was.at # "done"
          /\ was.at # "new"
      BY <1>0, <2>1 DEF Like
    <3>5. Puts(c, remote[was.device], "texts", local[was.root]["texts"])
      BY <1>5, <2>1
    <3>6. captureCall' = [captureCall EXCEPT ![c] = was]
      BY <3>2
    <3> HIDE DEF was
    <3> QED BY <1>0, <1>8, <3>1, <3>3, <3>4, <3>5, <3>6
  <2> QED BY <2>2, <2>3
<1>22. CASE C!NoApks(c)
  BY <1>20, <1>22 DEF C!NoApks
<1>23. CASE C!Raise(c) \/ C!Kill(c)
  BY <1>20, <1>23 DEF C!Raise, C!Kill
<1> QED BY <1>11, <1>13, <1>14, <1>15, <1>16, <1>17, <1>18, <1>19, <1>21, <1>22, <1>23 DEF OwnStep

\* A capture begins as NewCall with what it is asked for.
LEMMA BeginsInv ==
    ASSUME CaptureInv, NEW c \in Actors,
           \E root \in Roots : \/ C!BeginEvidence(c, root)
                               \/ \E second \in Seconds : C!BeginSniff(c, root, second)
    PROVE  CaptureInv' /\ \A d \in Actors : captureCall'[d].at = "done" =>
                                               captureCall[d].at = "done"
<1> DEFINE Fits(state) ==
              /\ C!Begin(c, state) /\ state \in CaptureStates /\ state.at \in {"texts", "record"}
              /\ state.root \in Roots /\ state.manifest = {}
              /\ state.kind = "evidence" => state.device = "video" /\ state.at = "texts"
              /\ state.at = "texts" => state.kind = "evidence"
<1>1. \E state : Fits(state)
  <2>0. PICK root \in Roots : \/ C!BeginEvidence(c, root)
                              \/ \E second \in Seconds : C!BeginSniff(c, root, second)
    OBVIOUS
  <2>1. CASE C!BeginEvidence(c, root)
    <3> DEFINE state(p, q, r) == [C!NewCall EXCEPT !.at = "texts", !.root = root,
                                     !.package = p, !.seconds = q, !.saves = r]
    <3>1. PICK app \in BOOLEAN, timed \in BOOLEAN, held \in BOOLEAN :
             C!Begin(c, state(app, timed, held))
      <4>1. PICK asked \in Options :
               C!Begin(c, state("package" \in asked, "seconds" \in asked, "saves" \in asked))
        BY <2>1, Zenon DEF C!BeginEvidence
      <4>2. ("package" \in asked) \in BOOLEAN /\ ("seconds" \in asked) \in BOOLEAN
            /\ ("saves" \in asked) \in BOOLEAN
        OBVIOUS
      <4> HIDE DEF state
      <4> QED BY <4>1, <4>2, Zenon
    <3>2. ASSUME NEW p \in BOOLEAN, NEW q \in BOOLEAN, NEW r \in BOOLEAN
          PROVE  /\ state(p, q, r) \in CaptureStates /\ state(p, q, r).at = "texts"
                 /\ state(p, q, r).root = root /\ state(p, q, r).manifest = {}
                 /\ state(p, q, r).kind = "evidence" /\ state(p, q, r).device = "video"
      BY CaptureConstants DEF CaptureStates
    <3> HIDE DEF state
    <3> QED BY <3>1, <3>2
  <2>2. ASSUME NEW second \in Seconds, C!BeginSniff(c, root, second)
        PROVE  \E state : Fits(state)
    <3> DEFINE state == [C!NewCall EXCEPT !.kind = "sniff", !.root = root, !.device = second,
                                          !.at = "record"]
    <3>1. C!Begin(c, state)
      BY <2>2, Zenon DEF C!BeginSniff
    <3>2. /\ state \in CaptureStates /\ state.at = "record" /\ state.root = root
          /\ state.manifest = {} /\ state.kind = "sniff"
      BY CaptureConstants DEF CaptureStates
    <3> HIDE DEF state
    <3> QED BY <3>1, <3>2
  <2> QED BY <2>0, <2>1, <2>2
<1>2. PICK state : Fits(state)
  BY <1>1
<1>3. CaptureInv'
  BY <1>2, CaptureBegins
<1>4. captureCall \in [Actors -> CaptureStates] /\ C!Active \subseteq Actors
  BY DEF CaptureInv, CaptureTypes, C!Active
<1>5. ASSUME NEW d \in Actors, captureCall'[d].at = "done"
      PROVE  captureCall[d].at = "done"
  <2>1. captureCall'[d] = IF d = c THEN [state EXCEPT !.met = C!Active]
                          ELSE IF d \in C!Active
                               THEN [captureCall[d] EXCEPT !.met = @ \cup {c}]
                          ELSE captureCall[d]
    BY <1>2 DEF C!Begin
  <2>2. [state EXCEPT !.met = C!Active].at = state.at
        /\ [captureCall[d] EXCEPT !.met = @ \cup {c}].at = captureCall[d].at
    BY <1>2, <1>4 DEF CaptureStates
  <2> QED BY <1>2, <1>5, <2>1, <2>2
<1> QED BY <1>3, <1>5

LEMMA CaptureStepInv == CaptureInv /\ [C!Next]_(C!captureVars) => CaptureInv'
<1> SUFFICES ASSUME CaptureInv, [C!Next]_(C!captureVars) PROVE CaptureInv'
  OBVIOUS
<1>1. ASSUME NEW c \in Actors, C!Capture(c) PROVE CaptureInv'
  BY <1>1, BeginsInv, CaptureStepsInv DEF C!Capture, OwnStep, Stepped
<1>2. CASE UNCHANGED C!captureVars
  <2>1. UNCHANGED <<remote, local, captureCall, row>>
    BY <1>2 DEF C!captureVars
  <2>2. CaptureTypes'
    BY <2>1 DEF CaptureInv, CaptureTypes
  <2> QED BY <2>1, <2>2, CaptureFold DEF CaptureInv
<1> QED BY <1>1, <1>2 DEF C!Next

\* The step that ends a capture finds the device cleaned, and leaves it so.
LEMMA CaptureEndsClean ==
    CaptureInv /\ [C!Next]_(C!captureVars) =>
        \A c \in Actors :
            captureCall'[c].at = "done" /\ ~C!At(c, "done") /\ ~captureCall[c].kept
            /\ Recording(captureCall[c]) => Cleared(captureCall, captureCall[c], remote')
<1> SUFFICES ASSUME CaptureInv, [C!Next]_(C!captureVars), NEW c \in Actors,
                    captureCall'[c].at = "done", captureCall[c].at # "done", ~captureCall[c].kept,
                    Recording(captureCall[c])
             PROVE  Cleared(captureCall, captureCall[c], remote')
  BY DEF C!At
<1>1. PICK d \in Actors : C!Capture(d)
  BY DEF C!Next, C!captureVars
<1>2. ~\E root \in Roots : \/ C!BeginEvidence(d, root)
                           \/ \E second \in Seconds : C!BeginSniff(d, root, second)
  BY BeginsInv
<1>3. Stepped(d)
  BY <1>1, <1>2, CaptureStepsInv DEF C!Capture, OwnStep
<1> QED BY <1>3 DEF Stepped

CapturesClean ==
    \A c \in Actors :
        captureCall'[c].at = "done" /\ ~C!At(c, "done") /\ ~captureCall[c].kept /\ C!Records(c) =>
            \/ remote'[captureCall[c].device] = C!Absent
            \/ \E d \in captureCall[c].met :
                  C!SameRecording(c, d) /\ remote'[captureCall[c].device].by = d

\* However captures overlap: what one stores as evidence its own commands delivered, or one
\* that was under way meanwhile and wrote to the same file; never an earlier one, but where a
\* command of its own failed.  And nothing of its own is left on the device unless the removal
\* fails.
THEOREM CapturesAreSound == Spec => CapturesSound
<1>1. CaptureInv => C!EvidenceIsOwn
  <2> SUFFICES ASSUME CaptureInv, NEW c \in Actors, NEW e \in captureCall[c].manifest \cup row[c],
                      e.name \notin captureCall[c].failed
               PROVE  e.content \in C!Attributable(c, e.name)
    BY DEF C!EvidenceIsOwn
  <2>1. e \in captureCall[c].manifest
    BY DEF CaptureInv, CallSound
  <2>2. Credit(captureCall, c, captureCall[c], e.name, e.content)
    BY <2>1 DEF CaptureInv, EntriesHold
  <2>3. /\ \A d : OnePlace(captureCall[c], captureCall[d]) <=> C!SameDirectory(c, d)
        /\ \A d : OneFile(captureCall[c], captureCall[d]) <=> C!SameRecording(c, d)
        /\ ProductOf(captureCall[c]) = C!Product(c)
    BY DEF OnePlace, C!SameDirectory, OneFile, Recording, C!SameRecording, C!Records, ProductOf,
           C!Product
  <2> QED BY <2>2, <2>3 DEF Credit, C!Attributable, C!Shares
<1>2. Init => C!Init
  BY DEF Init
<1>3. [Next]_vars => [C!Next]_(C!captureVars)
  BY DevicesSteps
<1>4. CaptureInv /\ [C!Next]_(C!captureVars) => CapturesClean
  <2>1. \A c, d, there :
           /\ OneFile(captureCall[c], captureCall[d]) <=> C!SameRecording(c, d)
           /\ Recording(captureCall[c]) <=> C!Records(c)
    BY DEF OneFile, Recording, C!SameRecording, C!Records
  <2> QED BY <2>1, CaptureEndsClean DEF CapturesClean, Cleared
<1> QED BY <1>1, <1>2, <1>3, <1>4, CaptureInitInv, CaptureStepInv, PTL
        DEF Spec, CapturesSound, C!DeviceCleaned, CapturesClean


-----------------------------------------------------------------------------
(* Replacing an application. *)

WholeSets == {X!Whole(b) : b \in X!Builds}

\* What call j relies on at the step it is at, if nothing hurt it so far.
JobHolds(j, s, p) ==
    /\ s.at = "idle" => s.hurt = {}
    /\ s.at = "list" => s.backup = {}
    /\ s.at = "uninstall" => s.allow
    /\ s.hurt = {} =>
          /\ s.at \in {"list", "pull", "in place"} => p = s.before
          /\ s.at = "pull" => s.todo \cup s.backup = s.before
          /\ s.at \in {"in place", "uninstall", "install", "rollback"} => s.backup = s.before
          /\ s.at = "uninstall" => p \in {s.before, X!Whole(j)}
          /\ s.at = "install" => p = {}
          /\ s.at = "rollback" => p \in {{}, X!Whole(j)}

\* Calls that run together are marked as such; and while no call was hurt, the
\* build to go back to, or the one that is there, is whole.
ReplaceInv ==
    /\ X!TypeOK
    /\ \A j \in Actors : JobHolds(j, job[j], parts)
    /\ \A j, k \in Actors :
          j # k /\ X!Running(j) /\ X!Running(k) => "shared" \in job[j].hurt
    /\ (\A j \in Actors : job[j].hurt = {}) =>
          /\ \A j \in Actors : X!Running(j) => job[j].before \in WholeSets
          /\ (\A j \in Actors : ~X!Running(j)) => parts \in WholeSets

JobStates == [at : X!Steps \cup {"idle"}, allow : BOOLEAN, todo : SUBSET X!Paths,
              backup : SUBSET X!Paths, before : SUBSET X!Paths,
              hurt : SUBSET {"pull", "late", "cancelled", "rollback", "shared"},
              end : X!Ends]

\* A build is never empty, and its files are paths.
LEMMA BuildsAreWhole ==
    /\ \A b : X!Whole(b) # {}
    /\ \A b \in X!Builds : X!Whole(b) \in WholeSets /\ X!Whole(b) \subseteq X!Paths
<1>1. Base \in Parts
  BY DevicesAssumption DEF X!ReplaceAssumption
<1>2. \A b : X!Whole(b) # {}
  BY <1>1 DEF X!Whole
<1>3. \A b \in X!Builds : X!Whole(b) \in WholeSets /\ X!Whole(b) \subseteq X!Paths
  BY DEF WholeSets, X!Paths
<1> QED BY <1>2, <1>3

\* What a command may do to the package, and what its outcome tells.
LEMMA CommandDoes ==
    ASSUME X!TypeOK, NEW j, NEW outcome, NEW after, NEW accepted \in BOOLEAN,
           X!Command(j, outcome, after, accepted)
    PROVE  /\ outcome \in {"ok", "failed", "late", "cancelled"}
           /\ outcome = "ok" => accepted /\ parts' = after
           /\ outcome = "failed" => parts' = parts
           /\ parts' = parts \/ (accepted /\ parts' = after)
           /\ hurts' \in 0 .. MaxHurts /\ cancelled' = cancelled
<1>1. MaxHurts \in Nat /\ hurts \in 0 .. MaxHurts
  BY DevicesAssumption DEF X!ReplaceAssumption, X!TypeOK
<1>2. hurts' = hurts \/ (hurts < MaxHurts /\ hurts' = hurts + 1)
  BY DEF X!Command
<1>3. hurts' \in 0 .. MaxHurts
  BY <1>1, <1>2
<1> QED BY <1>3 DEF X!Command

\* A running call moves to a state that holds.
LEMMA ReplaceMoves ==
    ASSUME ReplaceInv, NEW j \in Actors, X!Running(j),
           NEW s \in JobStates, job' = [job EXCEPT ![j] = s],
           parts' \subseteq X!Paths, cancelled' \subseteq Actors, hurts' \in 0 .. MaxHurts,
           s.at # "idle", s.before = job[j].before, job[j].hurt \subseteq s.hurt,
           JobHolds(j, s, parts'),
           s.at = "ended" /\ s.hurt = {} /\ job[j].before \in WholeSets => parts' \in WholeSets
    PROVE  ReplaceInv'
<1>1. job \in [Actors -> JobStates]
  BY DEF ReplaceInv, X!TypeOK, JobStates
<1>2. job' \in [Actors -> JobStates] /\ job'[j] = s /\ \A k \in Actors \ {j} : job'[k] = job[k]
  BY <1>1
<1>3. X!TypeOK'
  BY <1>2 DEF X!TypeOK, JobStates
<1>4. \A k \in Actors : X!Running(k)' => X!Running(k)
  BY <1>2 DEF X!Running
<1>5. \A k \in Actors : job[k].hurt \subseteq job'[k].hurt
  BY <1>2
<1>6. ASSUME NEW k \in Actors PROVE JobHolds(k, job'[k], parts')
  <2>1. CASE k = j
    BY <1>2, <2>1
  <2>2. CASE k # j
    <3>1. job'[k] = job[k] /\ JobHolds(k, job[k], parts)
      BY <1>2, <2>2 DEF ReplaceInv
    <3>2. CASE X!Running(k)
      <4>1. job[k].hurt # {}
        BY <2>2, <3>2 DEF ReplaceInv
      <4> QED BY <3>1, <4>1 DEF JobHolds
    <3>3. CASE ~X!Running(k)
      <4>1. job[k].at \in {"idle", "ended"}
        BY <1>1, <3>3 DEF X!Running, JobStates, X!Steps
      <4> QED BY <3>1, <4>1 DEF JobHolds
    <3> QED BY <3>2, <3>3
  <2> QED BY <2>1, <2>2
<1>7. \A k, l \in Actors : k # l /\ X!Running(k)' /\ X!Running(l)' => "shared" \in job'[k].hurt
  BY <1>4, <1>5 DEF ReplaceInv
<1>8. ASSUME \A k \in Actors : job'[k].hurt = {}
      PROVE  /\ \A k \in Actors : X!Running(k)' => job'[k].before \in WholeSets
             /\ (\A k \in Actors : ~X!Running(k)') => parts' \in WholeSets
  <2>1. \A k \in Actors : job[k].hurt = {}
    BY <1>5, <1>8
  <2>2. \A k \in Actors : X!Running(k) => job[k].before \in WholeSets
    BY <2>1 DEF ReplaceInv
  <2>3. \A k \in Actors : X!Running(k)' => job'[k].before \in WholeSets
    BY <1>2, <1>4, <2>2
  <2>4. ASSUME ~X!Running(j)' PROVE parts' \in WholeSets
    <3>1. s.at = "ended"
      BY <1>2, <2>4 DEF X!Running, JobStates, X!Steps
    <3> QED BY <1>2, <1>8, <2>2, <3>1
  <2> QED BY <2>3, <2>4
<1> HIDE DEF JobStates
<1> QED BY <1>3, <1>6, <1>7, <1>8 DEF ReplaceInv, WholeSets, X!Whole, X!Builds

\* A call ends, with what more it was hurt by.
LEMMA ReplaceEnds ==
    ASSUME ReplaceInv, NEW j \in Actors, X!Running(j),
           NEW e \in X!Ends, NEW why \in SUBSET {"pull", "late", "cancelled", "rollback"}, X!End(j, e, why),
           parts' \subseteq X!Paths, cancelled' = cancelled, hurts' \in 0 .. MaxHurts,
           job[j].hurt = {} /\ why = {} /\ job[j].before \in WholeSets => parts' \in WholeSets
    PROVE  ReplaceInv'
<1> DEFINE s == [job[j] EXCEPT !.at = "ended", !.end = e, !.hurt = job[j].hurt \cup why]
<1>1. job[j] \in JobStates /\ cancelled \subseteq Actors
  BY DEF ReplaceInv, X!TypeOK, JobStates
<1>2. /\ s \in JobStates /\ s.at = "ended" /\ s.before = job[j].before
      /\ s.hurt = job[j].hurt \cup why
  BY <1>1 DEF JobStates, X!Steps
<1>3. job' = [job EXCEPT ![j] = s]
  BY DEF X!End
<1> HIDE DEF s
<1>4. JobHolds(j, s, parts')
  BY <1>2 DEF JobHolds
<1>5. s.at # "idle" /\ job[j].hurt \subseteq s.hurt /\ cancelled' \subseteq Actors
  BY <1>1, <1>2
<1>6. s.at = "ended" /\ s.hurt = {} /\ job[j].before \in WholeSets => parts' \in WholeSets
  BY <1>2
<1> QED BY <1>2, <1>3, <1>4, <1>5, <1>6, ReplaceMoves

\* A call goes on to its next step.
LEMMA ReplaceGoesOn ==
    ASSUME ReplaceInv, NEW j \in Actors, X!Running(j),
           NEW to \in X!Steps \ {"ended"}, X!Goto(j, to),
           parts' \subseteq X!Paths, cancelled' = cancelled, hurts' \in 0 .. MaxHurts,
           JobHolds(j, [job[j] EXCEPT !.at = to], parts')
    PROVE  ReplaceInv'
<1> DEFINE s == [job[j] EXCEPT !.at = to]
<1>1. job[j] \in JobStates /\ cancelled \subseteq Actors
  BY DEF ReplaceInv, X!TypeOK, JobStates
<1>2. /\ s \in JobStates /\ s.at = to /\ s.before = job[j].before
      /\ s.hurt = job[j].hurt
  BY <1>1 DEF JobStates
<1>3. job' = [job EXCEPT ![j] = s]
  BY DEF X!Goto
<1>4. to # "idle" /\ to # "ended"
  BY DEF X!Steps
<1>5. s.at # "idle" /\ job[j].hurt \subseteq s.hurt /\ cancelled' \subseteq Actors /\ s.at # "ended"
  BY <1>1, <1>2, <1>4
<1> HIDE DEF s
<1> QED BY <1>2, <1>3, <1>5, ReplaceMoves DEF s

LEMMA ReplaceStepInv == ReplaceInv /\ [X!Next]_(X!vars) => ReplaceInv'
<1> SUFFICES ASSUME ReplaceInv, [X!Next]_(X!vars) PROVE ReplaceInv'
  OBVIOUS
<1>0. /\ X!TypeOK /\ job \in [Actors -> JobStates] /\ parts \subseteq X!Paths
      /\ cancelled \subseteq Actors /\ hurts \in 0 .. MaxHurts /\ MaxHurts \in Nat
      /\ \A k \in Actors : X!Whole(k) \in WholeSets /\ X!Whole(k) \subseteq X!Paths
  BY DevicesAssumption, BuildsAreWhole DEF ReplaceInv, X!TypeOK, JobStates, X!Builds, X!ReplaceAssumption
<1>1. ASSUME NEW j \in Actors, NEW allow \in BOOLEAN, X!Begin(j, allow) PROVE ReplaceInv'
  <2> DEFINE others == {k \in Actors : X!Running(k)}
             fresh == [X!NewJob EXCEPT !.at = "list", !.allow = allow, !.before = parts,
                                       !.hurt = IF others = {} THEN {} ELSE {"shared"}]
             marked(k) == [job[k] EXCEPT !.hurt = job[k].hurt \cup {"shared"}]
  <2>1. /\ job[j].at = "idle" /\ parts' = parts /\ cancelled' = cancelled /\ hurts' = hurts
        /\ job' = [k \in Actors |-> IF k = j THEN fresh ELSE IF k \in others THEN marked(k) ELSE job[k]]
    BY <1>1 DEF X!Begin, X!At
  <2>2. /\ fresh \in JobStates /\ fresh.at = "list" /\ fresh.backup = {} /\ fresh.before = parts
        /\ fresh.hurt = IF others = {} THEN {} ELSE {"shared"}
    BY <1>0 DEF X!NewJob, JobStates, X!Steps, X!Ends
  <2>3. ASSUME NEW k \in Actors
        PROVE  /\ marked(k) \in JobStates /\ marked(k).at = job[k].at
               /\ marked(k).before = job[k].before /\ marked(k).allow = job[k].allow
               /\ marked(k).backup = job[k].backup
               /\ "shared" \in marked(k).hurt
    <3>1. job[k] \in JobStates
      BY <1>0
    <3> QED BY <3>1 DEF JobStates
  <2> HIDE DEF fresh, marked
  <2>4. /\ job'[j] = fresh
        /\ \A k \in others : k # j => job'[k] = marked(k)
        /\ \A k \in Actors \ others : k # j => job'[k] = job[k]
    BY <2>1
  <2>5. job' \in [Actors -> JobStates]
    BY <1>0, <2>1, <2>2, <2>3
  <2>6. X!TypeOK'
    BY <1>0, <2>1, <2>5 DEF X!TypeOK, JobStates
  <2>7. \A k \in Actors \ {j} : X!Running(k)' <=> k \in others
    BY <2>3, <2>4 DEF X!Running
  <2>8. j \notin others /\ X!Running(j)'
    BY <2>1, <2>2, <2>4 DEF X!Running, X!Steps
  <2>9. ASSUME NEW k \in Actors PROVE JobHolds(k, job'[k], parts')
    <3>1. JobHolds(k, job[k], parts)
      BY DEF ReplaceInv
    <3>2. CASE k = j
      BY <2>1, <2>2, <2>4, <3>2 DEF JobHolds
    <3>3. CASE k # j /\ k \in others
      <4>1. job'[k] = marked(k) /\ job[k].at # "idle"
        BY <2>4, <3>3 DEF X!Running, X!Steps
      <4> QED BY <2>3, <3>1, <4>1 DEF JobHolds
    <3>4. CASE k # j /\ k \notin others
      BY <2>1, <2>4, <3>1, <3>4
    <3> QED BY <3>2, <3>3, <3>4
  <2>10. ASSUME NEW k \in Actors, NEW l \in Actors, k # l, X!Running(k)', X!Running(l)'
         PROVE  "shared" \in job'[k].hurt
    <3>1. CASE k = j
      BY <2>2, <2>4, <2>7, <2>10, <3>1
    <3>2. CASE k # j
      BY <2>3, <2>4, <2>7, <2>10, <3>2
    <3> QED BY <3>1, <3>2
  <2>11. ASSUME \A k \in Actors : job'[k].hurt = {}
         PROVE  /\ \A k \in Actors : X!Running(k)' => job'[k].before \in WholeSets
                /\ (\A k \in Actors : ~X!Running(k)') => parts' \in WholeSets
    <3>1. others = {}
      BY <2>2, <2>4, <2>11
    <3>2. job[j].hurt = {}
      BY <2>1 DEF ReplaceInv, JobHolds
    <3>3. \A k \in Actors : job[k].hurt = {}
      BY <2>4, <2>11, <3>1, <3>2
    <3>4. parts \in WholeSets
      BY <3>1, <3>3 DEF ReplaceInv
    <3> QED BY <2>2, <2>4, <2>7, <2>8, <3>1, <3>4
  <2> HIDE DEF others
  <2> QED BY <2>6, <2>9, <2>10, <2>11 DEF ReplaceInv, WholeSets, X!Whole, X!Builds
<1>2. ASSUME NEW j \in Actors, X!List(j) PROVE ReplaceInv'
  <2>1. PICK outcome \in {"ok", "failed", "late", "cancelled"} :
           /\ X!Command(j, outcome, parts, TRUE)
           /\ IF outcome = "ok"
              THEN job' = [job EXCEPT ![j].at = IF parts = {} THEN "in place" ELSE "pull",
                                      ![j].todo = parts]
              ELSE X!End(j, "raised", {})
    BY <1>2 DEF X!List
  <2>2. job[j].at = "list" /\ X!Running(j) /\ job[j] \in JobStates
    BY <1>0, <1>2 DEF X!List, X!At, X!Running, X!Steps
  <2>3. parts' = parts /\ hurts' \in 0 .. MaxHurts /\ cancelled' = cancelled
    BY <1>0, <2>1, CommandDoes
  <2>4. job[j].hurt = {} => parts = job[j].before
    BY <2>2 DEF ReplaceInv, JobHolds
  <2>5. job[j].backup = {}
    BY <2>2 DEF ReplaceInv, JobHolds
  <2>6. CASE outcome = "ok"
    <3> DEFINE to == IF parts = {} THEN "in place" ELSE "pull"
               s == [job[j] EXCEPT !.at = to, !.todo = parts]
    <3>1. job' = [job EXCEPT ![j] = s]
      BY <2>1, <2>6
    <3>2. /\ s \in JobStates /\ s.at = to /\ s.todo = parts /\ s.before = job[j].before
          /\ s.backup = job[j].backup /\ s.hurt = job[j].hurt
      BY <1>0, <2>2 DEF JobStates, X!Steps
    <3>3. to \in {"in place", "pull"} /\ (to = "in place" => parts = {})
      OBVIOUS
    <3> HIDE DEF s, to
    <3>4. JobHolds(j, s, parts')
      BY <2>3, <2>4, <2>5, <3>2, <3>3 DEF JobHolds
    <3>5. s.at # "idle" /\ s.at # "ended" /\ cancelled' \subseteq Actors /\ parts' \subseteq X!Paths
      BY <1>0, <2>3, <3>2, <3>3
    <3> QED BY <2>2, <2>3, <3>1, <3>2, <3>4, <3>5, ReplaceMoves
  <2>7. CASE outcome # "ok"
    <3>1. X!End(j, "raised", {}) /\ "raised" \in X!Ends /\ parts' \subseteq X!Paths
      BY <1>0, <2>1, <2>3, <2>7 DEF X!Ends
    <3> QED BY <2>2, <2>3, <2>4, <3>1, ReplaceEnds
  <2> QED BY <2>6, <2>7
<1>3. ASSUME NEW j \in Actors, X!Pull(j) PROVE ReplaceInv'
  <2>1. PICK path \in job[j].todo, outcome \in {"ok", "failed", "late", "cancelled"} :
           /\ X!Command(j, outcome, parts, path \in parts)
           /\ IF outcome = "late" THEN X!End(j, "raised", {"late"})
              ELSE job' = [job EXCEPT ![j].todo = job[j].todo \ {path},
                             ![j].at = IF job[j].todo = {path} THEN "in place" ELSE job[j].at,
                             ![j].backup = IF outcome = "ok" THEN job[j].backup \cup {path}
                                           ELSE job[j].backup,
                             ![j].hurt = IF outcome = "ok" THEN job[j].hurt
                                         ELSE job[j].hurt \cup {"pull"}]
    BY <1>3 DEF X!Pull
  <2>2. job[j].at = "pull" /\ X!Running(j) /\ job[j] \in JobStates
    BY <1>0, <1>3 DEF X!Pull, X!At, X!Running, X!Steps
  <2>3. parts' = parts /\ hurts' \in 0 .. MaxHurts /\ cancelled' = cancelled /\ parts' \subseteq X!Paths
    <3> DEFINE there == path \in parts
    <3>1. there \in BOOLEAN
      OBVIOUS
    <3>2. X!Command(j, outcome, parts, there)
      BY <2>1
    <3> HIDE DEF there
    <3> QED BY <1>0, <3>1, <3>2, CommandDoes
  <2>4. job[j].hurt = {} => /\ parts = job[j].before
                            /\ job[j].todo \cup job[j].backup = job[j].before
    BY <2>2 DEF ReplaceInv, JobHolds
  <2>5. CASE outcome = "late"
    <3>1. X!End(j, "raised", {"late"}) /\ "raised" \in X!Ends
      BY <2>1, <2>5 DEF X!Ends
    <3> QED BY <2>2, <2>3, <3>1, ReplaceEnds
  <2>6. CASE outcome # "late"
    <3> DEFINE to == IF job[j].todo = {path} THEN "in place" ELSE job[j].at
               saved == IF outcome = "ok" THEN job[j].backup \cup {path} ELSE job[j].backup
               harm == IF outcome = "ok" THEN job[j].hurt ELSE job[j].hurt \cup {"pull"}
               left == job[j].todo \ {path}
               s == [job[j] EXCEPT !.todo = left, !.at = to, !.backup = saved, !.hurt = harm]
    <3>1. job' = [job EXCEPT ![j] = s]
      BY <2>1, <2>6
    <3>2. /\ to \in {"pull", "in place"} /\ (to = "in place" => left = {})
          /\ left \subseteq X!Paths /\ saved \subseteq X!Paths
          /\ harm \in SUBSET {"pull", "late", "cancelled", "rollback", "shared"}
          /\ job[j].hurt \subseteq harm
          /\ harm = {} => job[j].hurt = {} /\ saved = job[j].backup \cup {path}
      BY <2>1, <2>2 DEF JobStates
    <3> HIDE DEF to, saved, harm
    <3>3. /\ s \in JobStates /\ s.at = to /\ s.todo = left /\ s.before = job[j].before
          /\ s.backup = saved /\ s.hurt = harm
      BY <2>2, <3>2 DEF JobStates, X!Steps
    <3>4. harm = {} => /\ parts' = job[j].before /\ left \cup saved = job[j].before
                       /\ (to = "in place" => saved = job[j].before)
      BY <2>1, <2>3, <2>4, <3>2
    <3> HIDE DEF s, left
    <3>5. JobHolds(j, s, parts')
      BY <3>2, <3>3, <3>4 DEF JobHolds
    <3>6. s.at # "idle" /\ s.at # "ended" /\ cancelled' \subseteq Actors
      BY <1>0, <2>3, <3>2, <3>3
    <3> QED BY <2>2, <2>3, <3>1, <3>2, <3>3, <3>5, <3>6, ReplaceMoves
  <2> QED BY <2>5, <2>6
<1>4. ASSUME NEW j \in Actors, X!InPlace(j) PROVE ReplaceInv'
  <2>1. PICK outcome \in {"ok", "failed", "late", "cancelled"}, accepted \in BOOLEAN :
           /\ X!Command(j, outcome, X!Whole(j), accepted)
           /\ CASE outcome = "ok" -> X!End(j, "replaced", {})
                [] outcome = "late" -> X!End(j, "raised", {"late"})
                [] OTHER -> IF job[j].allow THEN X!Goto(j, "uninstall")
                            ELSE X!End(j, "preserved", {})
    BY <1>4 DEF X!InPlace
  <2>2. job[j].at = "in place" /\ X!Running(j) /\ job[j] \in JobStates
    BY <1>0, <1>4 DEF X!InPlace, X!At, X!Running, X!Steps
  <2>3. /\ hurts' \in 0 .. MaxHurts /\ cancelled' = cancelled
        /\ outcome = "ok" => parts' = X!Whole(j)
        /\ parts' \in {parts, X!Whole(j)}
    BY <1>0, <2>1, CommandDoes
  <2>4. job[j].hurt = {} => parts = job[j].before /\ job[j].backup = job[j].before
    BY <2>2 DEF ReplaceInv, JobHolds
  <2>5. parts' \subseteq X!Paths /\ X!Whole(j) \in WholeSets
    BY <1>0, <2>3
  <2>6. CASE outcome = "ok"
    <3>1. X!End(j, "replaced", {}) /\ "replaced" \in X!Ends /\ parts' = X!Whole(j)
      BY <2>1, <2>3, <2>6 DEF X!Ends
    <3> QED BY <2>2, <2>3, <2>5, <3>1, ReplaceEnds
  <2>7. CASE outcome = "late"
    <3>1. X!End(j, "raised", {"late"}) /\ "raised" \in X!Ends
      BY <2>1, <2>7 DEF X!Ends
    <3> QED BY <2>2, <2>3, <2>5, <3>1, ReplaceEnds
  <2>8. CASE outcome \notin {"ok", "late"} /\ job[j].allow
    <3>1. X!Goto(j, "uninstall") /\ "uninstall" \in X!Steps \ {"ended"}
      BY <2>1, <2>8 DEF X!Steps
    <3> DEFINE s == [job[j] EXCEPT !.at = "uninstall"]
    <3>2. /\ s.at = "uninstall" /\ s.allow /\ s.before = job[j].before
          /\ s.backup = job[j].backup /\ s.hurt = job[j].hurt
      BY <2>2, <2>8 DEF JobStates
    <3> HIDE DEF s
    <3>3. JobHolds(j, s, parts')
      BY <2>3, <2>4, <3>2 DEF JobHolds
    <3> QED BY <2>2, <2>3, <2>5, <3>1, <3>3, ReplaceGoesOn DEF s
  <2>9. CASE outcome \notin {"ok", "late"} /\ ~job[j].allow
    <3>1. X!End(j, "preserved", {}) /\ "preserved" \in X!Ends
      BY <2>1, <2>9 DEF X!Ends
    <3> QED BY <2>2, <2>3, <2>4, <2>5, <3>1, ReplaceEnds
  <2> QED BY <2>6, <2>7, <2>8, <2>9
<1>5. ASSUME NEW j \in Actors, X!Uninstall(j) PROVE ReplaceInv'
  <2>1. PICK outcome \in {"ok", "failed", "late", "cancelled"} :
           /\ X!Command(j, outcome, {}, parts # {})
           /\ CASE outcome = "ok" -> X!Goto(j, "install")
                [] outcome = "late" -> X!End(j, "raised", {"late"})
                [] OTHER -> X!End(j, "unchanged", IF outcome = "cancelled" THEN {outcome} ELSE {})
    BY <1>5 DEF X!Uninstall
  <2>2. job[j].at = "uninstall" /\ X!Running(j) /\ job[j] \in JobStates
    BY <1>0, <1>5 DEF X!Uninstall, X!At, X!Running, X!Steps
  <2>3. /\ hurts' \in 0 .. MaxHurts /\ cancelled' = cancelled
        /\ outcome = "ok" => parts' = {}
        /\ outcome = "failed" => parts' = parts
        /\ parts' \in {parts, {}}
    <3> DEFINE there == parts # {}
    <3>1. there \in BOOLEAN /\ X!Command(j, outcome, {}, there)
      BY <2>1
    <3> HIDE DEF there
    <3> QED BY <1>0, <3>1, CommandDoes
  <2>4. job[j].hurt = {} => parts \in {job[j].before, X!Whole(j)} /\ job[j].backup = job[j].before
    BY <2>2 DEF ReplaceInv, JobHolds
  <2>5. parts' \subseteq X!Paths /\ X!Whole(j) \in WholeSets
    BY <1>0, <2>3
  <2>6. CASE outcome = "ok"
    <3>1. X!Goto(j, "install") /\ "install" \in X!Steps \ {"ended"}
      BY <2>1, <2>6 DEF X!Steps
    <3> DEFINE s == [job[j] EXCEPT !.at = "install"]
    <3>2. /\ s.at = "install" /\ s.before = job[j].before
          /\ s.backup = job[j].backup /\ s.hurt = job[j].hurt
      BY <2>2 DEF JobStates
    <3> HIDE DEF s
    <3>3. JobHolds(j, s, parts')
      BY <2>3, <2>4, <2>6, <3>2 DEF JobHolds
    <3> QED BY <2>2, <2>3, <2>5, <3>1, <3>3, ReplaceGoesOn DEF s
  <2>7. CASE outcome = "late"
    <3>1. X!End(j, "raised", {"late"}) /\ "raised" \in X!Ends
      BY <2>1, <2>7 DEF X!Ends
    <3> QED BY <2>2, <2>3, <2>5, <3>1, ReplaceEnds
  <2>8. CASE outcome = "cancelled"
    <3>1. X!End(j, "unchanged", {"cancelled"}) /\ "unchanged" \in X!Ends
      BY <2>1, <2>8 DEF X!Ends
    <3> QED BY <2>2, <2>3, <2>5, <3>1, ReplaceEnds
  <2>9. CASE outcome = "failed"
    <3>1. X!End(j, "unchanged", {}) /\ "unchanged" \in X!Ends
      BY <2>1, <2>9 DEF X!Ends
    <3>2. job[j].hurt = {} /\ job[j].before \in WholeSets => parts' \in WholeSets
      BY <2>3, <2>4, <2>5, <2>9
    <3> QED BY <2>2, <2>3, <2>5, <3>1, <3>2, ReplaceEnds
  <2> QED BY <2>6, <2>7, <2>8, <2>9
<1>6. ASSUME NEW j \in Actors, X!Install(j) PROVE ReplaceInv'
  <2>1. PICK outcome \in {"ok", "failed", "late", "cancelled"}, accepted \in BOOLEAN :
           /\ X!Command(j, outcome, X!Whole(j), accepted /\ parts = {})
           /\ CASE outcome = "ok" -> X!End(j, "replaced", {})
                [] outcome = "late" -> X!End(j, "raised", {"late"})
                [] OTHER -> IF job[j].backup # {} THEN X!Goto(j, "rollback")
                            ELSE X!End(j, "not rolled back", {})
    BY <1>6 DEF X!Install
  <2>2. job[j].at = "install" /\ X!Running(j) /\ job[j] \in JobStates
    BY <1>0, <1>6 DEF X!Install, X!At, X!Running, X!Steps
  <2>3. /\ hurts' \in 0 .. MaxHurts /\ cancelled' = cancelled
        /\ outcome = "ok" => parts' = X!Whole(j)
        /\ parts' \in {parts, X!Whole(j)}
    <3> DEFINE free == accepted /\ parts = {}
    <3>1. free \in BOOLEAN /\ X!Command(j, outcome, X!Whole(j), free)
      BY <2>1
    <3> HIDE DEF free
    <3> QED BY <1>0, <3>1, CommandDoes
  <2>4. job[j].hurt = {} => parts = {} /\ job[j].backup = job[j].before
    BY <2>2 DEF ReplaceInv, JobHolds
  <2>5. parts' \subseteq X!Paths /\ X!Whole(j) \in WholeSets /\ {} \notin WholeSets
    BY <1>0, <2>3, BuildsAreWhole DEF WholeSets
  <2>6. CASE outcome = "ok"
    <3>1. X!End(j, "replaced", {}) /\ "replaced" \in X!Ends /\ parts' = X!Whole(j)
      BY <2>1, <2>3, <2>6 DEF X!Ends
    <3> QED BY <2>2, <2>3, <2>5, <3>1, ReplaceEnds
  <2>7. CASE outcome = "late"
    <3>1. X!End(j, "raised", {"late"}) /\ "raised" \in X!Ends
      BY <2>1, <2>7 DEF X!Ends
    <3> QED BY <2>2, <2>3, <2>5, <3>1, ReplaceEnds
  <2>8. CASE outcome \notin {"ok", "late"} /\ job[j].backup # {}
    <3>1. X!Goto(j, "rollback") /\ "rollback" \in X!Steps \ {"ended"}
      BY <2>1, <2>8 DEF X!Steps
    <3> DEFINE s == [job[j] EXCEPT !.at = "rollback"]
    <3>2. /\ s.at = "rollback" /\ s.before = job[j].before
          /\ s.backup = job[j].backup /\ s.hurt = job[j].hurt
      BY <2>2 DEF JobStates
    <3> HIDE DEF s
    <3>3. JobHolds(j, s, parts')
      BY <2>3, <2>4, <3>2 DEF JobHolds
    <3> QED BY <2>2, <2>3, <2>5, <3>1, <3>3, ReplaceGoesOn DEF s
  <2>9. CASE outcome \notin {"ok", "late"} /\ ~(job[j].backup # {})
    <3>1. X!End(j, "not rolled back", {}) /\ "not rolled back" \in X!Ends
      BY <2>1, <2>9 DEF X!Ends
    <3>2. ~(job[j].hurt = {} /\ job[j].before \in WholeSets)
      BY <2>4, <2>5, <2>9
    <3> QED BY <2>2, <2>3, <2>5, <3>1, <3>2, ReplaceEnds
  <2> QED BY <2>6, <2>7, <2>8, <2>9
<1>7. ASSUME NEW j \in Actors, X!Rollback(j) PROVE ReplaceInv'
  <2> DEFINE saved == job[j].backup
             fits == \E b \in X!Builds : <<b, Base>> \in saved /\ saved \subseteq X!Whole(b)
  <2>1. PICK outcome \in {"ok", "failed", "late", "cancelled"} :
           /\ X!Command(j, outcome, saved, fits)
           /\ CASE outcome = "ok" -> X!End(j, "rolled back", {})
                [] outcome = "late" -> X!End(j, "raised", {"late"})
                [] OTHER -> X!End(j, "not rolled back", {"rollback"})
    BY <1>7 DEF X!Rollback, X!RollbackFiles
  <2>2. job[j].at = "rollback" /\ X!Running(j) /\ job[j] \in JobStates
    BY <1>0, <1>7 DEF X!Rollback, X!At, X!Running, X!Steps
  <2>3. fits \in BOOLEAN
    OBVIOUS
  <2> HIDE DEF fits
  <2>4. /\ hurts' \in 0 .. MaxHurts /\ cancelled' = cancelled
        /\ outcome = "ok" => parts' = saved
        /\ parts' \in {parts, saved}
    BY <1>0, <2>1, <2>3, CommandDoes
  <2>5. job[j].hurt = {} => saved = job[j].before
    BY <2>2 DEF ReplaceInv, JobHolds
  <2>6. parts' \subseteq X!Paths
    BY <1>0, <2>2, <2>4 DEF JobStates
  <2>7. CASE outcome = "ok"
    <3>1. X!End(j, "rolled back", {}) /\ "rolled back" \in X!Ends /\ parts' = saved
      BY <2>1, <2>4, <2>7 DEF X!Ends
    <3> HIDE DEF saved
    <3> QED BY <2>2, <2>4, <2>5, <2>6, <3>1, ReplaceEnds
  <2>8. CASE outcome = "late"
    <3>1. X!End(j, "raised", {"late"}) /\ "raised" \in X!Ends
      BY <2>1, <2>8 DEF X!Ends
    <3> QED BY <2>2, <2>4, <2>6, <3>1, ReplaceEnds
  <2>9. CASE outcome \notin {"ok", "late"}
    <3>1. X!End(j, "not rolled back", {"rollback"}) /\ "not rolled back" \in X!Ends
      BY <2>1, <2>9 DEF X!Ends
    <3> QED BY <2>2, <2>4, <2>6, <3>1, ReplaceEnds
  <2> QED BY <2>7, <2>8, <2>9
<1>8. ASSUME NEW j \in Actors, X!Cancel(j) PROVE ReplaceInv'
  <2>1. /\ parts' = parts /\ job' = job /\ cancelled' = cancelled \cup {j}
        /\ hurts < MaxHurts /\ hurts' = hurts + 1
    BY <1>8 DEF X!Cancel
  <2>2. hurts' \in 0 .. MaxHurts /\ cancelled' \subseteq Actors
    BY <1>0, <2>1
  <2> QED BY <2>1, <2>2 DEF ReplaceInv, X!TypeOK, X!Running, WholeSets, X!Whole, X!Builds
<1>9. CASE UNCHANGED X!vars
  BY <1>9 DEF X!vars, ReplaceInv, X!TypeOK, X!Running, WholeSets, X!Whole, X!Builds
<1> QED BY <1>1, <1>2, <1>3, <1>4, <1>5, <1>6, <1>7, <1>8, <1>9 DEF X!Next

\* What a call says when it ends, and what it removes.
LEMMA ReplaceAnswers ==
    ASSUME ReplaceInv, [X!Next]_(X!vars), NEW i \in Actors,
           job[i].at # "ended", job'[i].at = "ended", job'[i].hurt = {}
    PROVE  /\ job'[i].end = "replaced" => parts' = X!Whole(i)
           /\ job'[i].end = "rolled back" => parts' = job[i].before
<1>0. X!TypeOK /\ job \in [Actors -> JobStates] /\ job[i] \in JobStates
  BY DEF ReplaceInv, X!TypeOK, JobStates
<1>1. ASSUME NEW j \in Actors, NEW e, NEW why, X!End(j, e, why)
      PROVE  j = i /\ job'[i].end = e /\ job[i].hurt = {}
  <2>1. job' = [job EXCEPT ![j] = [job[j] EXCEPT !.at = "ended", !.end = e, !.hurt = job[j].hurt \cup why]]
    BY <1>1 DEF X!End
  <2>2. j = i
    BY <1>0, <2>1
  <2> QED BY <1>0, <2>1, <2>2 DEF JobStates
<1>2. ASSUME NEW j \in Actors, NEW to, to # "ended", X!Goto(j, to) PROVE FALSE
  BY <1>0, <1>2 DEF X!Goto, JobStates
\* Another answer than these two promises nothing.
<1> DEFINE Told == /\ job'[i].end = "replaced" => parts' = X!Whole(i)
                   /\ job'[i].end = "rolled back" => parts' = job[i].before
<1> SUFFICES Told
  OBVIOUS
<1>12. ASSUME NEW j \in Actors, NEW e, NEW why, X!End(j, e, why), e # "replaced", e # "rolled back"
       PROVE  Told
  <2>1. job'[i].end = e
    BY <1>1, <1>12
  <2> QED BY <1>12, <2>1
<1> HIDE DEF Told
<1>3. PICK j \in Actors :
         \/ \E allow \in BOOLEAN : X!Begin(j, allow)
         \/ X!List(j) \/ X!Pull(j) \/ X!InPlace(j) \/ X!Uninstall(j) \/ X!Install(j) \/ X!Rollback(j)
         \/ X!Cancel(j)
  BY DEF X!Next, X!vars
<1>4. ~\E allow \in BOOLEAN : X!Begin(j, allow)
  <2> SUFFICES ASSUME NEW allow \in BOOLEAN, X!Begin(j, allow) PROVE FALSE
    OBVIOUS
  <2> DEFINE others == {k \in Actors : X!Running(k)}
             fresh == [X!NewJob EXCEPT !.at = "list", !.allow = allow, !.before = parts,
                                       !.hurt = IF others = {} THEN {} ELSE {"shared"}]
             marked(k) == [job[k] EXCEPT !.hurt = job[k].hurt \cup {"shared"}]
  <2>1. job' = [k \in Actors |-> IF k = j THEN fresh ELSE IF k \in others THEN marked(k) ELSE job[k]]
    BY DEF X!Begin
  <2>2. fresh.at = "list"
    BY DEF X!NewJob
  <2>3. marked(i).at = job[i].at
    BY <1>0 DEF JobStates
  <2> HIDE DEF fresh, marked, others
  <2> QED BY <2>1, <2>2, <2>3
<1>5. CASE X!List(j)
  <2>1. \/ X!End(j, "raised", {})
        \/ job' = [job EXCEPT ![j].at = IF parts = {} THEN "in place" ELSE "pull", ![j].todo = parts]
    BY <1>5 DEF X!List
  <2>2. CASE X!End(j, "raised", {})
    <3>1. "raised" # "replaced" /\ "raised" # "rolled back"
      OBVIOUS
    <3> QED BY <1>12, <2>2, <3>1
  <2>3. CASE job' = [job EXCEPT ![j].at = IF parts = {} THEN "in place" ELSE "pull", ![j].todo = parts]
    <3> DEFINE to == IF parts = {} THEN "in place" ELSE "pull"
               s == [job[j] EXCEPT !.at = to, !.todo = parts]
    <3>1. job' = [job EXCEPT ![j] = s]
      BY <2>3
    <3>2. s.at = to /\ to # "ended"
      <4>1. job[j] \in JobStates
        BY <1>0
      <4> QED BY <4>1 DEF JobStates
    <3> HIDE DEF s, to
    <3> QED BY <1>0, <3>1, <3>2
  <2> QED BY <2>1, <2>2, <2>3
<1>6. CASE X!Pull(j)
  <2> DEFINE state(left, to, saved, harm) ==
                [job[j] EXCEPT !.todo = left, !.at = to, !.backup = saved, !.hurt = harm]
  <2>1. job[j].at = "pull" /\ job[j] \in JobStates
    BY <1>0, <1>6 DEF X!Pull, X!At
  <2>2. PICK path \in job[j].todo, outcome \in {"ok", "failed", "late", "cancelled"} :
           IF outcome = "late" THEN X!End(j, "raised", {"late"})
              ELSE job' = [job EXCEPT ![j].todo = job[j].todo \ {path},
                             ![j].at = IF job[j].todo = {path} THEN "in place" ELSE job[j].at,
                             ![j].backup = IF outcome = "ok" THEN job[j].backup \cup {path}
                                           ELSE job[j].backup,
                             ![j].hurt = IF outcome = "ok" THEN job[j].hurt
                                         ELSE job[j].hurt \cup {"pull"}]
    BY <1>6 DEF X!Pull
  <2>3. CASE outcome = "late"
    <3>1. X!End(j, "raised", {"late"})
      BY <2>2, <2>3
    <3>2. "raised" # "replaced" /\ "raised" # "rolled back"
      OBVIOUS
    <3> QED BY <1>12, <3>1, <3>2
  <2>4. CASE outcome # "late"
    <3> DEFINE left == job[j].todo \ {path}
               to == IF job[j].todo = {path} THEN "in place" ELSE job[j].at
               saved == IF outcome = "ok" THEN job[j].backup \cup {path} ELSE job[j].backup
               harm == IF outcome = "ok" THEN job[j].hurt ELSE job[j].hurt \cup {"pull"}
    <3>1. job' = [job EXCEPT ![j] = state(left, to, saved, harm)]
      BY <2>2, <2>4
    <3>2. to # "ended"
      BY <2>1
    <3> HIDE DEF left, to, saved, harm
    <3>3. state(left, to, saved, harm).at = to
      BY <2>1 DEF JobStates
    <3> HIDE DEF state
    <3> QED BY <1>0, <3>1, <3>2, <3>3
  <2> QED BY <2>3, <2>4
<1>7. CASE X!InPlace(j)
  <2>1. PICK outcome \in {"ok", "failed", "late", "cancelled"}, accepted \in BOOLEAN :
           /\ X!Command(j, outcome, X!Whole(j), accepted)
           /\ CASE outcome = "ok" -> X!End(j, "replaced", {})
                [] outcome = "late" -> X!End(j, "raised", {"late"})
                [] OTHER -> IF job[j].allow THEN X!Goto(j, "uninstall")
                            ELSE X!End(j, "preserved", {})
    BY <1>7 DEF X!InPlace
  <2>2. CASE outcome = "ok"
    <3>1. X!End(j, "replaced", {}) /\ parts' = X!Whole(j)
      BY <1>0, <2>1, <2>2, CommandDoes
    <3>2. j = i /\ job'[i].end = "replaced"
      BY <1>1, <3>1
    <3> QED BY <3>1, <3>2 DEF Told
  <2>3. CASE outcome # "ok"
    <3>1. X!End(j, "raised", {"late"}) \/ X!Goto(j, "uninstall") \/ X!End(j, "preserved", {})
      BY <2>1, <2>3
    <3>2. /\ "raised" # "replaced" /\ "raised" # "rolled back" /\ "uninstall" # "ended"
          /\ "preserved" # "replaced" /\ "preserved" # "rolled back"
      OBVIOUS
    <3> QED BY <1>2, <1>12, <3>1, <3>2
  <2> QED BY <2>2, <2>3
<1>8. CASE X!Uninstall(j)
  <2>1. \/ X!Goto(j, "install") \/ X!End(j, "raised", {"late"})
        \/ \E why : X!End(j, "unchanged", why)
    BY <1>8 DEF X!Uninstall
  <2>2. /\ "raised" # "replaced" /\ "raised" # "rolled back" /\ "install" # "ended"
        /\ "unchanged" # "replaced" /\ "unchanged" # "rolled back"
    OBVIOUS
  <2> QED BY <1>2, <1>12, <2>1, <2>2
<1>9. CASE X!Install(j)
  <2>1. PICK outcome \in {"ok", "failed", "late", "cancelled"}, accepted \in BOOLEAN :
           /\ X!Command(j, outcome, X!Whole(j), accepted /\ parts = {})
           /\ CASE outcome = "ok" -> X!End(j, "replaced", {})
                [] outcome = "late" -> X!End(j, "raised", {"late"})
                [] OTHER -> IF job[j].backup # {} THEN X!Goto(j, "rollback")
                            ELSE X!End(j, "not rolled back", {})
    BY <1>9 DEF X!Install
  <2>2. CASE outcome = "ok"
    <3> DEFINE free == accepted /\ parts = {}
    <3>1. free \in BOOLEAN /\ X!Command(j, outcome, X!Whole(j), free)
      BY <2>1
    <3> HIDE DEF free
    <3>2. parts' = X!Whole(j)
      BY <1>0, <2>2, <3>1, CommandDoes
    <3>3. X!End(j, "replaced", {})
      BY <2>1, <2>2
    <3>4. j = i /\ job'[i].end = "replaced"
      BY <1>1, <3>3
    <3> QED BY <3>2, <3>4 DEF Told
  <2>3. CASE outcome # "ok"
    <3>1. X!End(j, "raised", {"late"}) \/ X!Goto(j, "rollback") \/ X!End(j, "not rolled back", {})
      BY <2>1, <2>3
    <3>2. /\ "raised" # "replaced" /\ "raised" # "rolled back" /\ "rollback" # "ended"
          /\ "not rolled back" # "replaced" /\ "not rolled back" # "rolled back"
      OBVIOUS
    <3> QED BY <1>2, <1>12, <3>1, <3>2
  <2> QED BY <2>2, <2>3
<1>10. CASE X!Rollback(j)
  <2> DEFINE saved == job[j].backup
             fits == \E b \in X!Builds : <<b, Base>> \in saved /\ saved \subseteq X!Whole(b)
  <2>1. PICK outcome \in {"ok", "failed", "late", "cancelled"} :
           /\ X!Command(j, outcome, saved, fits)
           /\ CASE outcome = "ok" -> X!End(j, "rolled back", {})
                [] outcome = "late" -> X!End(j, "raised", {"late"})
                [] OTHER -> X!End(j, "not rolled back", {"rollback"})
    BY <1>10 DEF X!Rollback, X!RollbackFiles
  <2>2. fits \in BOOLEAN
    OBVIOUS
  <2> HIDE DEF fits
  <2>3. CASE outcome = "ok"
    <3>1. X!End(j, "rolled back", {}) /\ parts' = saved
      BY <1>0, <2>1, <2>2, <2>3, CommandDoes
    <3>2. j = i /\ job'[i].end = "rolled back" /\ job[i].hurt = {}
      BY <1>1, <3>1
    <3>3. job[j].at = "rollback"
      BY <1>10 DEF X!Rollback, X!At
    <3>4. saved = job[i].before
      BY <3>2, <3>3 DEF ReplaceInv, JobHolds
    <3> QED BY <3>1, <3>2, <3>4 DEF Told
  <2>4. CASE outcome # "ok"
    <3>1. X!End(j, "raised", {"late"}) \/ X!End(j, "not rolled back", {"rollback"})
      BY <2>1, <2>4
    <3>2. /\ "raised" # "replaced" /\ "raised" # "rolled back"
          /\ "not rolled back" # "replaced" /\ "not rolled back" # "rolled back"
      OBVIOUS
    <3> QED BY <1>12, <3>1, <3>2
  <2> QED BY <2>3, <2>4
<1>11. ~X!Cancel(j)
  BY DEF X!Cancel
<1> QED BY <1>3, <1>4, <1>5, <1>6, <1>7, <1>8, <1>9, <1>10, <1>11

LEMMA ReplaceRemoves ==
    ReplaceInv /\ [X!Next]_(X!vars) =>
       (parts # {} /\ parts' = {} => \E j \in Actors : job[j].allow /\ X!At(j, "uninstall"))
<1> SUFFICES ASSUME ReplaceInv, [X!Next]_(X!vars), parts # {}, parts' = {}
             PROVE  \E j \in Actors : job[j].allow /\ X!At(j, "uninstall")
  OBVIOUS
<1>0. X!TypeOK
  BY DEF ReplaceInv
<1>1. ASSUME NEW j, NEW outcome, NEW after, NEW accepted \in BOOLEAN,
             X!Command(j, outcome, after, accepted), accepted => after # {}
      PROVE  FALSE
  BY <1>0, <1>1, CommandDoes
<1>2. PICK j \in Actors :
         \/ \E allow \in BOOLEAN : X!Begin(j, allow)
         \/ X!List(j) \/ X!Pull(j) \/ X!InPlace(j) \/ X!Uninstall(j) \/ X!Install(j) \/ X!Rollback(j)
         \/ X!Cancel(j)
  BY DEF X!Next, X!vars
<1>3. ~X!Cancel(j) /\ ~\E allow \in BOOLEAN : X!Begin(j, allow)
  BY DEF X!Cancel, X!Begin
<1>4. ~X!List(j)
  <2>1. X!List(j) => \E outcome : X!Command(j, outcome, parts, TRUE)
    BY DEF X!List
  <2> QED BY <1>1, <2>1
<1>5. ~X!Pull(j)
  <2>1. X!Pull(j) => \E path, outcome : X!Command(j, outcome, parts, path \in parts)
    BY DEF X!Pull
  <2>2. ASSUME NEW path, NEW outcome, X!Command(j, outcome, parts, path \in parts) PROVE FALSE
    <3> DEFINE there == path \in parts
    <3>1. there \in BOOLEAN
      OBVIOUS
    <3>2. X!Command(j, outcome, parts, there)
      BY <2>2
    <3> HIDE DEF there
    <3> QED BY <1>1, <3>1, <3>2
  <2> QED BY <2>1, <2>2
<1>6. ~X!InPlace(j)
  <2>1. X!InPlace(j) => \E outcome : \E accepted \in BOOLEAN : X!Command(j, outcome, X!Whole(j), accepted)
    BY DEF X!InPlace
  <2> QED BY <1>1, <2>1, BuildsAreWhole
<1>7. ~X!Install(j)
  <2>1. X!Install(j) => \E outcome : \E accepted \in BOOLEAN :
           X!Command(j, outcome, X!Whole(j), accepted /\ parts = {})
    BY DEF X!Install
  <2>2. ASSUME NEW accepted \in BOOLEAN, NEW outcome,
               X!Command(j, outcome, X!Whole(j), accepted /\ parts = {}) PROVE FALSE
    <3> DEFINE free == accepted /\ parts = {}
    <3>1. free \in BOOLEAN /\ X!Command(j, outcome, X!Whole(j), free)
      BY <2>2
    <3> HIDE DEF free
    <3> QED BY <1>1, <3>1, BuildsAreWhole
  <2> QED BY <2>1, <2>2
<1>8. ~X!Rollback(j)
  <2> DEFINE saved == job[j].backup
             fits == \E b \in X!Builds : <<b, Base>> \in saved /\ saved \subseteq X!Whole(b)
  <2>1. X!Rollback(j) => \E outcome : X!Command(j, outcome, saved, fits)
    BY DEF X!Rollback, X!RollbackFiles
  <2>2. fits \in BOOLEAN /\ (fits => saved # {})
    OBVIOUS
  <2> HIDE DEF fits, saved
  <2> QED BY <1>1, <2>1, <2>2
<1>9. X!Uninstall(j)
  BY <1>2, <1>3, <1>4, <1>5, <1>6, <1>7, <1>8
<1> QED BY <1>9 DEF X!Uninstall, X!At, ReplaceInv, JobHolds

LEMMA ReplaceInitInv == X!Init => ReplaceInv
<1> SUFFICES ASSUME X!Init PROVE ReplaceInv
  OBVIOUS
<1>1. /\ parts = X!Whole(X!First) /\ job = [j \in Actors |-> X!NewJob]
      /\ cancelled = {} /\ hurts = 0 /\ MaxHurts \in Nat
  BY DevicesAssumption DEF X!Init, X!ReplaceAssumption
<1>2. X!First \in X!Builds
  BY DEF X!Builds
<1>3. parts \in WholeSets /\ parts \subseteq X!Paths
  BY <1>1, <1>2, BuildsAreWhole
<1>4. X!NewJob \in JobStates /\ X!NewJob.at = "idle" /\ X!NewJob.hurt = {}
  BY DEF X!NewJob, JobStates, X!Ends
<1> HIDE DEF X!NewJob
<1>5. X!TypeOK
  BY <1>1, <1>3, <1>4 DEF X!TypeOK, JobStates
<1>6. \A j \in Actors : job[j].at = "idle" /\ job[j].hurt = {} /\ ~X!Running(j)
  BY <1>1, <1>4 DEF X!Running, X!Steps
<1> QED BY <1>3, <1>5, <1>6 DEF ReplaceInv, JobHolds

\* An application stays whole unless a call was hurt; a call's answer is what is so when it
\* ends; and only a call that was allowed to uninstall removes it.
THEOREM ReplacementIsSound == Spec => ReplacementSound
<1>1. Init => ReplaceInv
  BY ReplaceInitInv DEF Init
<1>2. ReplaceInv => X!WholeUnlessHurt
  <2> SUFFICES ASSUME ReplaceInv, \A j \in Actors : ~X!Running(j) /\ job[j].hurt = {}
               PROVE  \E b \in X!Builds : parts = X!Whole(b)
    BY DEF X!WholeUnlessHurt
  <2> QED BY DEF ReplaceInv, WholeSets
<1>3. ReplaceInv /\ [X!Next]_(X!vars) =>
         [\A j \in Actors : X!At(j, "ended")' /\ ~X!At(j, "ended") /\ job'[j].hurt = {} =>
             /\ job'[j].end = "replaced" => parts' = X!Whole(j)
             /\ job'[j].end = "rolled back" => parts' = job[j].before]_(X!vars)
  BY ReplaceAnswers DEF X!At
<1>4. ReplaceInv /\ [X!Next]_(X!vars) =>
         [parts # {} /\ parts' = {} => \E j \in Actors : job[j].allow /\ X!At(j, "uninstall")]_(X!vars)
  BY ReplaceRemoves
<1>5. [Next]_vars => [X!Next]_(X!vars)
  BY DevicesSteps
<1> QED BY <1>1, <1>2, <1>3, <1>4, <1>5, ReplaceStepInv, PTL
        DEF Spec, ReplacementSound, X!SaysWhatIs, X!OnlyApprovedRemove

-----------------------------------------------------------------------------
(* Inventory states and the watches that follow them. *)

\* The rows of device d that came after number n.
Later(table, d, n) == {o \in table : o.device = d /\ o.id > n}

InventoryCalls == [pc : {"idle", "users", "packages", "insert", "prune", "sleep", "left", "right",
                         "done", "failed", "raised"},
                   device : Actors \cup {I!None},
                   seen : [users : Values] \cup {I!None},
                   previous : I!Rows \cup {I!None}, current : I!Rows \cup {I!None},
                   left : I!Rows \cup {I!None},
                   reports : Seq([from : I!Inventories, to : I!Inventories])]

\* What call s relies on, when `table` holds every row ever inserted.
WatchHolds(s, table) ==
    /\ s.pc = "idle" => s.previous = I!None
    /\ s.pc \notin {"idle", "raised"} => s.device \in Actors
    /\ s.pc = "packages" => s.seen \in [users : Values]
    /\ s.pc \in {"insert", "prune", "left", "right"} =>
          s.current \in I!Rows /\ s.current.device = s.device
    /\ s.pc \in {"prune", "left", "right"} => s.current \in table
    /\ s.previous # I!None => s.previous \in table /\ s.previous.device = s.device
    /\ s.pc \in {"left", "right"} => s.previous # I!None
    /\ s.pc = "right" => s.left = s.previous
    /\ s.left # I!None => s.left \in table

\* Its reports follow each other, and the last one ends in its previous state.
WatchComposes(s) ==
    /\ \A i \in 1 .. Len(s.reports) - 1 : s.reports[i].to = s.reports[i + 1].from
    /\ s.reports # <<>> => /\ s.previous # I!None
                           /\ s.reports[Len(s.reports)].to = s.previous.inventory

\* It fails only over a row that enough others follow.
WatchCrowded(s, table) ==
    s.pc = "failed" => \E r \in {s.previous, s.current} :
        Cardinality(Later(table, s.device, r.id)) >= Retention

InventoryInv ==
    /\ device \in [Actors -> I!Inventories]
    /\ stamps \in 0 .. MaxRows /\ changes \in 0 .. MaxChanges
    /\ states \subseteq made /\ made \subseteq I!Rows /\ IsFiniteSet(made)
    /\ inventoryCall \in [I!Calls -> InventoryCalls]
    /\ \A c \in I!Calls : /\ WatchHolds(inventoryCall[c], made)
                          /\ WatchComposes(inventoryCall[c])
                          /\ WatchCrowded(inventoryCall[c], made)
    \* a row is pruned only when enough later ones of its device exist
    /\ \A r \in made \ states : Cardinality(Later(made, r.device, r.id)) >= Retention

\* More rows never make fewer of them come after one.
LEMMA MoreComeLater ==
    ASSUME NEW table, NEW more, IsFiniteSet(more), table \subseteq more, NEW d, NEW n
    PROVE  /\ Cardinality(Later(table, d, n)) \in Nat
           /\ Cardinality(Later(more, d, n)) \in Nat
           /\ Cardinality(Later(table, d, n))
                <= Cardinality(Later(more, d, n))
<1> DEFINE few == Later(table, d, n)
           many == Later(more, d, n)
<1>1. few \subseteq many /\ many \subseteq more
  BY DEF Later
<1> HIDE DEF few, many
<1>2. IsFiniteSet(many) /\ IsFiniteSet(few)
  BY <1>1, FS_Subset
<1>3. Cardinality(few) <= Cardinality(many)
  BY <1>1, <1>2, FS_Subset
<1>4. Cardinality(few) \in Nat /\ Cardinality(many) \in Nat
  BY <1>2, FS_CardinalityType
<1> QED BY <1>3, <1>4 DEF few, many

\* One call moves on, and the table may have grown.
LEMMA InventoryMoves ==
    ASSUME InventoryInv, NEW c \in I!Calls, NEW s \in InventoryCalls,
           inventoryCall' = [inventoryCall EXCEPT ![c] = s],
           device' = device, changes' = changes, stamps' \in 0 .. MaxRows,
           made \subseteq made', made' \subseteq I!Rows, IsFiniteSet(made'), states' \subseteq made',
           \A r \in made' \ states' : Cardinality(Later(made', r.device, r.id)) >= Retention,
           WatchHolds(s, made'), WatchComposes(s), WatchCrowded(s, made')
    PROVE  InventoryInv'
<1>1. /\ inventoryCall' \in [I!Calls -> InventoryCalls] /\ inventoryCall'[c] = s
      /\ \A d \in I!Calls \ {c} : inventoryCall'[d] = inventoryCall[d]
  BY DEF InventoryInv
<1>2. ASSUME NEW d \in I!Calls
      PROVE  /\ WatchHolds(inventoryCall'[d], made') /\ WatchComposes(inventoryCall'[d])
             /\ WatchCrowded(inventoryCall'[d], made')
  <2>1. CASE d = c
    BY <1>1, <2>1
  <2>2. CASE d # c
    <3> DEFINE l == inventoryCall[d]
    <3>1. inventoryCall'[d] = l
      BY <1>1, <2>2
    <3>2. WatchHolds(l, made) /\ WatchComposes(l) /\ WatchCrowded(l, made)
      BY DEF InventoryInv
    <3> HIDE DEF l
    <3>3. WatchHolds(l, made')
      BY <3>2 DEF WatchHolds
    <3>4. WatchCrowded(l, made')
      <4> SUFFICES ASSUME l.pc = "failed"
                   PROVE  \E r \in {l.previous, l.current} :
                     Cardinality(Later(made', l.device, r.id)) >= Retention
        BY DEF WatchCrowded
      <4>1. PICK r \in {l.previous, l.current} :
               Cardinality(Later(made, l.device, r.id)) >= Retention
        BY <3>2 DEF WatchCrowded
      <4>2. Retention \in Nat
        BY DevicesAssumption DEF I!InventoryAssumption
      <4>3. made \subseteq made' /\ IsFiniteSet(made')
        OBVIOUS
      <4>4. /\ Cardinality(Later(made, l.device, r.id)) \in Nat
            /\ Cardinality(Later(made', l.device, r.id)) \in Nat
            /\ Cardinality(Later(made, l.device, r.id))
                 <= Cardinality(Later(made', l.device, r.id))
        BY <4>3, MoreComeLater
      <4>5. Cardinality(Later(made', l.device, r.id)) >= Retention
        BY <4>1, <4>2, <4>4
      <4> QED BY <4>5
    <3> QED BY <3>1, <3>2, <3>3, <3>4
  <2> QED BY <2>1, <2>2
<1>3. device \in [Actors -> I!Inventories] /\ changes \in 0 .. MaxChanges
  BY DEF InventoryInv
<1>4. \A r \in made' \ states' : Cardinality(Later(made, r.device, r.id)') >= Retention
  BY DEF Later
<1> HIDE DEF InventoryCalls
<1>5. (made \subseteq I!Rows)' /\ device' \in [Actors -> I!Inventories] /\ changes' \in 0 .. MaxChanges
  BY <1>3 DEF I!Rows, I!Inventories
<1> QED BY <1>1, <1>2, <1>4, <1>5 DEF InventoryInv, InventoryCalls, I!Rows, I!Inventories, I!Calls,
         WatchHolds, I!None

\* Appending a report that starts where the previous ones end keeps them composed.
LEMMA ReportsGrow ==
    ASSUME NEW s, WatchComposes(s), NEW e, NEW p,
           s.reports \in Seq([from : I!Inventories, to : I!Inventories]),
           e \in [from : I!Inventories, to : I!Inventories],
           s.reports # <<>> => e.from = s.previous.inventory,
           p.reports = Append(s.reports, e), p.previous # I!None, p.previous.inventory = e.to
    PROVE  WatchComposes(p) /\ p.reports \in Seq([from : I!Inventories, to : I!Inventories])
<1> DEFINE q == s.reports
<1>1. /\ Len(q) \in Nat /\ Len(p.reports) = Len(q) + 1
      /\ p.reports[Len(q) + 1] = e
      /\ \A i \in 1 .. Len(q) : p.reports[i] = q[i]
      /\ p.reports \in Seq([from : I!Inventories, to : I!Inventories])
  OBVIOUS
<1>2. q # <<>> <=> Len(q) > 0
  OBVIOUS
<1>3. ASSUME NEW i \in 1 .. Len(p.reports) - 1
      PROVE  p.reports[i].to = p.reports[i + 1].from
  <2>1. CASE i < Len(q)
    <3>1. i \in 1 .. Len(q) /\ i + 1 \in 1 .. Len(q) /\ i \in 1 .. Len(q) - 1
      BY <1>1, <2>1
    <3>2. q[i].to = q[i + 1].from
      BY <3>1 DEF WatchComposes
    <3> QED BY <1>1, <3>1, <3>2
  <2>2. CASE i = Len(q)
    <3>1. q # <<>> /\ i \in 1 .. Len(q)
      BY <1>1, <1>2, <2>2
    <3>2. q[Len(q)].to = s.previous.inventory
      BY <3>1 DEF WatchComposes
    <3> QED BY <1>1, <2>2, <3>1, <3>2
  <2> QED BY <1>1, <2>1, <2>2
<1> QED BY <1>1, <1>3 DEF WatchComposes

LEMMA PruneKeeps ==
    ASSUME InventoryInv
    PROVE  /\ I!Prune(states) \subseteq states
           /\ \A r \in made \ I!Prune(states) : Cardinality(Later(made, r.device, r.id)) >= Retention
<1>0. Retention \in Nat /\ states \subseteq made /\ made \subseteq I!Rows /\ IsFiniteSet(made)
  BY DevicesAssumption DEF I!InventoryAssumption, InventoryInv
<1>1. \A S : I!Cardinality(S) = Cardinality(S)
  BY DEF I!Cardinality, Cardinality
<1>2. I!Prune(states) \subseteq states
  BY DEF I!Prune, I!Newest
<1>3. ASSUME NEW r \in states, r \notin I!Prune(states)
      PROVE  Cardinality(Later(made, r.device, r.id)) >= Retention
  <2> DEFINE few == Later(states, r.device, r.id)
  <2>1. r.device \in Actors
    BY <1>0 DEF I!Rows
  <2>2. r \notin I!Newest(states, r.device, I!Max2(Retention))
    BY <1>3, <2>1 DEF I!Prune
  <2>3. ~(Cardinality(few) < I!Max2(Retention))
    BY <1>1, <2>2 DEF I!Newest, Later
  <2>4. /\ Cardinality(few) \in Nat /\ Cardinality(Later(made, r.device, r.id)) \in Nat
        /\ Cardinality(few) <= Cardinality(Later(made, r.device, r.id))
    BY <1>0, MoreComeLater
  <2>5. I!Max2(Retention) >= Retention /\ I!Max2(Retention) \in Nat
    BY <1>0 DEF I!Max2
  <2> HIDE DEF few
  <2> QED BY <1>0, <2>3, <2>4, <2>5
<1> QED BY <1>2, <1>3 DEF InventoryInv

LEMMA InventoryStepInv == InventoryInv /\ [I!Next]_(I!inventoryVars) => InventoryInv'
<1> SUFFICES ASSUME InventoryInv, [I!Next]_(I!inventoryVars) PROVE InventoryInv'
  OBVIOUS
<1>0. /\ device \in [Actors -> I!Inventories] /\ stamps \in 0 .. MaxRows /\ changes \in 0 .. MaxChanges
      /\ states \subseteq made /\ made \subseteq I!Rows /\ IsFiniteSet(made)
      /\ inventoryCall \in [I!Calls -> InventoryCalls]
      /\ \A r \in made \ states : Cardinality(Later(made, r.device, r.id)) >= Retention
      /\ Retention \in Nat /\ MaxRows \in Nat /\ MaxChanges \in Nat
      /\ I!None \notin I!Rows
  <2>1. Retention \in Nat /\ MaxRows \in Nat /\ MaxChanges \in Nat
    BY DevicesAssumption DEF I!InventoryAssumption
  <2>2. I!None \notin I!Rows
    BY DEF I!None, I!Rows
  <2> QED BY <2>1, <2>2 DEF InventoryInv
<1> DEFINE Holds(s) == WatchHolds(s, made) /\ WatchComposes(s) /\ WatchCrowded(s, made)
\* A step that leaves the table alone.
<1>1. ASSUME NEW c \in I!Calls, NEW s \in InventoryCalls,
             inventoryCall' = [inventoryCall EXCEPT ![c] = s],
             device' = device, changes' = changes, stamps' \in 0 .. MaxRows,
             states' = states, made' = made, Holds(s)
      PROVE  InventoryInv'
  <2>1. /\ made \subseteq made' /\ made' \subseteq I!Rows /\ IsFiniteSet(made') /\ states' \subseteq made'
        /\ \A r \in made' \ states' : Cardinality(Later(made', r.device, r.id)) >= Retention
        /\ WatchHolds(s, made') /\ WatchCrowded(s, made')
    BY <1>0, <1>1
  <2> QED BY <1>1, <2>1, InventoryMoves
\* What is known of a call.
<1>2. ASSUME NEW c \in I!Calls
      PROVE  inventoryCall[c] \in InventoryCalls /\ Holds(inventoryCall[c])
  BY <1>0 DEF InventoryInv
\* A step that leaves table and calls alone.
<1>15. ASSUME device' \in [Actors -> I!Inventories], changes' \in 0 .. MaxChanges,
              UNCHANGED <<stamps, states, made, inventoryCall>>
       PROVE  InventoryInv'
  <2>1. \A c \in I!Calls : /\ WatchHolds(inventoryCall'[c], made') /\ WatchComposes(inventoryCall'[c])
                           /\ WatchCrowded(inventoryCall'[c], made')
    BY <1>2, <1>15
  <2>2. \A r \in made' \ states' : Cardinality(Later(made', r.device, r.id)) >= Retention
    BY <1>0, <1>15
  <2>3. /\ stamps' \in 0 .. MaxRows /\ states' \subseteq made' /\ made' \subseteq I!Rows /\ IsFiniteSet(made')
        /\ inventoryCall' \in [I!Calls -> InventoryCalls]
    BY <1>0, <1>15
  <2> HIDE DEF InventoryCalls
  <2> QED BY <1>15, <2>1, <2>2, <2>3 DEF InventoryInv
<1>3. ASSUME NEW d \in Actors, I!Change(d) PROVE InventoryInv'
  <2>1. PICK i \in I!Inventories : device' = [device EXCEPT ![d] = i]
    BY <1>3 DEF I!Change
  <2>2. /\ stamps' = stamps /\ states' = states /\ made' = made /\ inventoryCall' = inventoryCall
        /\ changes < MaxChanges /\ changes' = changes + 1
    BY <1>3 DEF I!Change
  <2>3. device' \in [Actors -> I!Inventories] /\ changes' \in 0 .. MaxChanges
    BY <1>0, <2>1, <2>2
  <2> QED BY <2>2, <2>3, <1>15
<1>4. ASSUME NEW c \in I!Calls, I!Begin(c) PROVE InventoryInv'
  <2> DEFINE l == inventoryCall[c]
  <2>1. PICK d \in Actors : inventoryCall' = [inventoryCall EXCEPT ![c].pc = "users", ![c].device = d]
    BY <1>4 DEF I!Begin
  <2> DEFINE s == [l EXCEPT !.pc = "users", !.device = d]
  <2>2. inventoryCall' = [inventoryCall EXCEPT ![c] = s]
    BY <2>1
  <2>3. l.pc = "idle" /\ l \in InventoryCalls /\ Holds(l)
    BY <1>2, <1>4 DEF I!Begin, I!At
  <2>4. /\ s \in InventoryCalls /\ s.pc = "users" /\ s.device = d /\ s.previous = l.previous
        /\ s.reports = l.reports /\ s.left = l.left
    BY <2>3 DEF InventoryCalls
  <2>5. UNCHANGED <<device, stamps, states, made, changes>>
    BY <1>4 DEF I!Begin
  <2> HIDE DEF s, l
  <2>6. Holds(s)
    BY <2>3, <2>4 DEF WatchHolds, WatchComposes, WatchCrowded
  <2> QED BY <1>0, <1>1, <2>2, <2>4, <2>5, <2>6
<1>5. ASSUME NEW c \in I!Calls, I!ListUsers(c) PROVE InventoryInv'
  <2> DEFINE l == inventoryCall[c]
             found == [users |-> device[l.device].users]
             s == [l EXCEPT !.pc = "packages", !.seen = found]
  <2>1. inventoryCall' = [inventoryCall EXCEPT ![c] = s]
    BY <1>5 DEF I!ListUsers
  <2>2. l.pc = "users" /\ l \in InventoryCalls /\ Holds(l)
    BY <1>2, <1>5 DEF I!ListUsers, I!At
  <2>3. found \in [users : Values]
    BY <1>0, <2>2 DEF WatchHolds, I!Inventories
  <2> HIDE DEF found
  <2>4. /\ s \in InventoryCalls /\ s.pc = "packages" /\ s.device = l.device /\ s.previous = l.previous
        /\ s.reports = l.reports /\ s.left = l.left /\ s.seen = found
    BY <2>2, <2>3 DEF InventoryCalls
  <2>5. UNCHANGED <<device, stamps, states, made, changes>>
    BY <1>5 DEF I!ListUsers
  <2> HIDE DEF s, l
  <2>6. Holds(s)
    BY <2>2, <2>3, <2>4 DEF WatchHolds, WatchComposes, WatchCrowded
  <2> QED BY <1>0, <1>1, <2>1, <2>4, <2>5, <2>6
<1>6. ASSUME NEW c \in I!Calls, I!ListPackages(c) PROVE InventoryInv'
  <2> DEFINE l == inventoryCall[c]
             row1 == [id |-> stamps + 1, device |-> l.device,
                      inventory |-> [users |-> l.seen.users, packages |-> device[l.device].packages]]
             s == [l EXCEPT !.pc = "insert", !.seen = I!None, !.current = row1]
  <2>1. inventoryCall' = [inventoryCall EXCEPT ![c] = s]
    BY <1>6 DEF I!ListPackages
  <2>2. l.pc = "packages" /\ l \in InventoryCalls /\ Holds(l)
    BY <1>2, <1>6 DEF I!ListPackages, I!At
  <2>3. l.device \in Actors /\ l.seen.users \in Values /\ device[l.device].packages \in Values
    BY <1>0, <2>2 DEF WatchHolds, I!Inventories
  <2>4. stamps' = stamps + 1 /\ stamps < MaxRows
    BY <1>6 DEF I!ListPackages
  <2>5. row1 \in I!Rows /\ row1.device = l.device
    BY <1>0, <2>3, <2>4 DEF I!Rows, I!Inventories
  <2> HIDE DEF row1
  <2>6. /\ s \in InventoryCalls /\ s.pc = "insert" /\ s.device = l.device /\ s.previous = l.previous
        /\ s.reports = l.reports /\ s.left = l.left /\ s.current = row1
    BY <2>2, <2>5 DEF InventoryCalls
  <2>7. UNCHANGED <<device, states, made, changes>> /\ stamps' \in 0 .. MaxRows
    BY <1>0, <1>6, <2>4 DEF I!ListPackages
  <2> HIDE DEF s, l
  <2>8. Holds(s)
    BY <2>2, <2>3, <2>5, <2>6 DEF WatchHolds, WatchComposes, WatchCrowded
  <2> QED BY <1>0, <1>1, <2>1, <2>6, <2>7, <2>8
<1>7. ASSUME NEW c \in I!Calls, I!Save(c) PROVE InventoryInv'
  <2> DEFINE l == inventoryCall[c]
             s == [l EXCEPT !.pc = "prune"]
  <2>1. inventoryCall' = [inventoryCall EXCEPT ![c] = s]
    BY <1>7 DEF I!Save
  <2>2. l.pc = "insert" /\ l \in InventoryCalls /\ Holds(l)
    BY <1>2, <1>7 DEF I!Save, I!At
  <2>3. /\ s \in InventoryCalls /\ s.pc = "prune" /\ s.device = l.device /\ s.previous = l.previous
        /\ s.reports = l.reports /\ s.left = l.left /\ s.current = l.current
    BY <2>2 DEF InventoryCalls
  <2>4. /\ states' = states \cup {l.current} /\ made' = made \cup {l.current}
        /\ device' = device /\ stamps' = stamps /\ changes' = changes
    BY <1>7 DEF I!Save
  <2> HIDE DEF s, l
  <2>5. l.current \in I!Rows
    BY <2>2 DEF WatchHolds
  <2>6. /\ made \subseteq made' /\ made' \subseteq I!Rows /\ IsFiniteSet(made') /\ states' \subseteq made'
        /\ stamps' \in 0 .. MaxRows
    BY <1>0, <2>4, <2>5, FS_AddElement
  <2>7. \A r \in made' \ states' : Cardinality(Later(made', r.device, r.id)) >= Retention
    <3> SUFFICES ASSUME NEW r \in made' \ states'
                 PROVE  Cardinality(Later(made', r.device, r.id)) >= Retention
      OBVIOUS
    <3>1. Cardinality(Later(made, r.device, r.id)) >= Retention
      BY <1>0, <2>4
    <3>2. /\ Cardinality(Later(made, r.device, r.id)) \in Nat
          /\ Cardinality(Later(made', r.device, r.id)) \in Nat
          /\ Cardinality(Later(made, r.device, r.id)) <= Cardinality(Later(made', r.device, r.id))
      BY <2>6, MoreComeLater
    <3> QED BY <1>0, <3>1, <3>2
  <2>8. WatchHolds(s, made') /\ WatchComposes(s) /\ WatchCrowded(s, made')
    BY <2>2, <2>3, <2>4 DEF WatchHolds, WatchComposes, WatchCrowded
  <2> QED BY <2>1, <2>3, <2>4, <2>6, <2>7, <2>8, InventoryMoves
<1>8. ASSUME NEW c \in I!Calls, I!EndCapture(c) PROVE InventoryInv'
  <2> DEFINE l == inventoryCall[c]
             s == IF c \in Watches THEN I!AfterCapture(l) ELSE [l EXCEPT !.pc = "done"]
  <2>1. inventoryCall' = [inventoryCall EXCEPT ![c] = s]
    BY <1>8 DEF I!EndCapture
  <2>2. l.pc = "prune" /\ l \in InventoryCalls /\ Holds(l)
    BY <1>2, <1>8 DEF I!EndCapture, I!At
  <2>3. /\ states' = I!Prune(states) /\ made' = made
        /\ device' = device /\ stamps' = stamps /\ changes' = changes
    BY <1>8 DEF I!EndCapture
  <2> HIDE DEF l
  <2>4. l.current \in I!Rows /\ l.current.device = l.device /\ l.current \in made /\ l.device \in Actors
    BY <2>2 DEF WatchHolds
  <2>5. s \in InventoryCalls /\ WatchHolds(s, made) /\ WatchComposes(s) /\ s.pc # "failed"
    <3>1. CASE c \notin Watches
      <4>1. /\ s \in InventoryCalls /\ s.pc = "done" /\ s.device = l.device /\ s.previous = l.previous
            /\ s.reports = l.reports /\ s.left = l.left
        BY <2>2, <3>1 DEF InventoryCalls
      <4> HIDE DEF s
      <4> QED BY <2>2, <4>1 DEF WatchHolds, WatchComposes
    <3>2. CASE c \in Watches /\ l.previous = I!None
      <4>1. s = [l EXCEPT !.pc = "sleep", !.previous = l.current, !.current = I!None]
        BY <3>2 DEF I!AfterCapture
      <4> HIDE DEF s
      <4>2. /\ s \in InventoryCalls /\ s.pc = "sleep" /\ s.device = l.device
            /\ s.previous = l.current /\ s.reports = l.reports /\ s.left = l.left
        BY <2>2, <2>4, <4>1 DEF InventoryCalls
      <4>3. l.reports = <<>>
        BY <2>2, <3>2 DEF WatchComposes
      <4>4. Len(s.reports) = 0
        BY <4>2, <4>3
      <4>5. WatchComposes(s)
        BY <4>2, <4>3, <4>4 DEF WatchComposes
      <4> QED BY <2>2, <2>4, <4>2, <4>5 DEF WatchHolds
    <3>3. CASE c \in Watches /\ l.previous # I!None /\ l.current.inventory = l.previous.inventory
      <4>1. s = [l EXCEPT !.pc = "sleep", !.current = I!None]
        BY <3>3 DEF I!AfterCapture
      <4> HIDE DEF s
      <4>2. /\ s \in InventoryCalls /\ s.pc = "sleep" /\ s.device = l.device
            /\ s.previous = l.previous /\ s.reports = l.reports /\ s.left = l.left
        BY <2>2, <4>1 DEF InventoryCalls
      <4> QED BY <2>2, <4>2 DEF WatchHolds, WatchComposes
    <3>4. CASE c \in Watches /\ l.previous # I!None /\ l.current.inventory # l.previous.inventory
      <4>1. s = [l EXCEPT !.pc = "left"]
        BY <3>4 DEF I!AfterCapture
      <4> HIDE DEF s
      <4>2. /\ s \in InventoryCalls /\ s.pc = "left" /\ s.device = l.device /\ s.current = l.current
            /\ s.previous = l.previous /\ s.reports = l.reports /\ s.left = l.left
        BY <2>2, <4>1 DEF InventoryCalls
      <4> QED BY <2>2, <2>4, <3>4, <4>2 DEF WatchHolds, WatchComposes
    <3> QED BY <3>1, <3>2, <3>3, <3>4
  <2> HIDE DEF s
  <2>6. WatchCrowded(s, made)
    BY <2>5 DEF WatchCrowded
  <2>7. /\ made \subseteq made' /\ made' \subseteq I!Rows /\ IsFiniteSet(made') /\ states' \subseteq made'
        /\ stamps' \in 0 .. MaxRows
        /\ \A r \in made' \ states' : Cardinality(Later(made', r.device, r.id)) >= Retention
    BY <1>0, <2>3, PruneKeeps
  <2>8. WatchHolds(s, made') /\ WatchComposes(s) /\ WatchCrowded(s, made')
    BY <2>3, <2>5, <2>6
  <2> QED BY <2>1, <2>3, <2>5, <2>7, <2>8, InventoryMoves
\* The steps that only set the program counter of a call that can take them.
<1>9. ASSUME NEW c \in I!Calls, NEW to \in {"users", "done"}, inventoryCall[c].pc = "sleep",
             inventoryCall' = [inventoryCall EXCEPT ![c].pc = to],
             UNCHANGED <<device, stamps, states, made, changes>>
      PROVE  InventoryInv'
  <2> DEFINE l == inventoryCall[c]
             s == [l EXCEPT !.pc = to]
  <2>1. inventoryCall' = [inventoryCall EXCEPT ![c] = s]
    BY <1>9
  <2>2. l.pc = "sleep" /\ l \in InventoryCalls /\ Holds(l)
    BY <1>2, <1>9
  <2>3. /\ s \in InventoryCalls /\ s.pc = to /\ s.device = l.device /\ s.previous = l.previous
        /\ s.reports = l.reports /\ s.left = l.left
    BY <2>2 DEF InventoryCalls
  <2> HIDE DEF s, l
  <2>4. Holds(s)
    BY <2>2, <2>3 DEF WatchHolds, WatchComposes, WatchCrowded
  <2> QED BY <1>0, <1>1, <1>9, <2>1, <2>3, <2>4
<1>10. ASSUME NEW c \in I!Calls, I!Wake(c) PROVE InventoryInv'
  BY <1>9, <1>10 DEF I!Wake, I!At
<1>11. ASSUME NEW c \in I!Calls, I!Over(c) PROVE InventoryInv'
  BY <1>9, <1>11 DEF I!Over, I!At
\* A row that is gone is followed by enough others.
<1>12. ASSUME NEW c \in I!Calls, NEW s, NEW r \in {s.previous, s.current},
              r \in made \ states, r.device = s.device
       PROVE  WatchCrowded(s, made)
  BY <1>0, <1>12 DEF WatchCrowded
<1>13. ASSUME NEW c \in I!Calls, I!ReadLeft(c) PROVE InventoryInv'
  <2> DEFINE l == inventoryCall[c]
             to == IF l.previous \in states THEN "right" ELSE "failed"
             found == IF l.previous \in states THEN l.previous ELSE I!None
             s == [l EXCEPT !.pc = to, !.left = found]
  <2>1. inventoryCall' = [inventoryCall EXCEPT ![c] = s]
    BY <1>13 DEF I!ReadLeft, I!ReadBack
  <2>2. l.pc = "left" /\ l \in InventoryCalls /\ Holds(l)
    BY <1>2, <1>13 DEF I!ReadLeft, I!At
  <2>3. /\ to \in {"right", "failed"} /\ found \in I!Rows \cup {I!None}
        /\ to = "right" => found = l.previous
        /\ to = "failed" => l.previous \notin states
        /\ found \in {l.previous, I!None}
    BY <1>0, <2>2 DEF InventoryCalls
  <2> HIDE DEF to, found
  <2>4. /\ s \in InventoryCalls /\ s.pc = to /\ s.device = l.device /\ s.previous = l.previous
        /\ s.reports = l.reports /\ s.left = found /\ s.current = l.current
    BY <2>2, <2>3 DEF InventoryCalls
  <2>5. UNCHANGED <<device, stamps, states, made, changes>>
    BY <1>13 DEF I!ReadLeft
  <2> HIDE DEF s, l
  <2>6. WatchHolds(s, made) /\ WatchComposes(s)
    BY <2>2, <2>3, <2>4 DEF WatchHolds, WatchComposes
  <2>7. l.previous \in made /\ l.previous.device = l.device
    BY <2>2 DEF WatchHolds
  <2>8. WatchCrowded(s, made)
    <3>1. CASE to = "right"
      BY <2>4, <3>1 DEF WatchCrowded
    <3>2. CASE to = "failed"
      BY <1>12, <2>3, <2>4, <2>7, <3>2
    <3> QED BY <2>3, <3>1, <3>2
  <2> QED BY <1>0, <1>1, <2>1, <2>4, <2>5, <2>6, <2>8
<1>14. ASSUME NEW c \in I!Calls, I!Report(c) PROVE InventoryInv'
  <2> DEFINE l == inventoryCall[c]
  <2>2. l.pc = "right" /\ l \in InventoryCalls /\ Holds(l)
    BY <1>2, <1>14 DEF I!Report, I!At
  <2>3. /\ l.current \in made /\ l.current \in I!Rows /\ l.current.device = l.device
        /\ l.previous \in made /\ l.left = l.previous /\ l.previous # I!None /\ l.device \in Actors
    BY <2>2 DEF WatchHolds
  <2>5. UNCHANGED <<device, stamps, states, made, changes>>
    BY <1>14 DEF I!Report
  <2>6. CASE l.current \in states
    <3> DEFINE e == I!DiffValues(l.left, l.current)
               grown == Append(l.reports, e)
               s == [l EXCEPT !.pc = "sleep", !.previous = l.current, !.current = I!None,
                              !.left = I!None, !.reports = grown]
    <3>1. inventoryCall' = [inventoryCall EXCEPT ![c] = s]
      <4>1. inventoryCall' = [inventoryCall EXCEPT ![c] = I!Advance([l EXCEPT !.reports = grown])]
        BY <1>14, <2>6 DEF I!Report
      <4>2. I!Advance([l EXCEPT !.reports = grown]) = s
        BY <2>2 DEF I!Advance, InventoryCalls
      <4> QED BY <4>1, <4>2
    <3>2. e \in [from : I!Inventories, to : I!Inventories] /\ e.from = l.previous.inventory
          /\ e.to = l.current.inventory
      BY <1>0, <2>3 DEF I!DiffValues, I!Rows
    <3>3. l.reports \in Seq([from : I!Inventories, to : I!Inventories]) /\ WatchComposes(l)
      BY <2>2 DEF InventoryCalls
    <3> HIDE DEF e
    <3>4. grown \in Seq([from : I!Inventories, to : I!Inventories])
      BY <3>2, <3>3
    <3> HIDE DEF grown
    <3>5. /\ s \in InventoryCalls /\ s.pc = "sleep" /\ s.device = l.device /\ s.previous = l.current
          /\ s.reports = grown /\ s.left = I!None
      BY <2>2, <2>3, <3>4 DEF InventoryCalls
    <3> HIDE DEF s
    <3>6. l.current # I!None
      BY <1>0, <2>3
    <3> HIDE DEF l
    <3>7. l.reports # <<>> => e.from = l.previous.inventory
      BY <3>2
    <3>8. s.reports = Append(l.reports, e) /\ s.previous # I!None /\ s.previous.inventory = e.to
      BY <3>2, <3>5, <3>6 DEF grown
    <3>9. WatchComposes(s)
      BY <3>2, <3>3, <3>7, <3>8, ReportsGrow
    <3>10. WatchHolds(s, made) /\ WatchCrowded(s, made)
      BY <2>3, <3>5 DEF WatchHolds, WatchCrowded
    <3> QED BY <1>0, <1>1, <2>5, <3>1, <3>5, <3>9, <3>10
  <2>7. CASE l.current \notin states
    <3> DEFINE s == [l EXCEPT !.pc = "failed"]
    <3>1. inventoryCall' = [inventoryCall EXCEPT ![c] = s]
      BY <1>14, <2>7 DEF I!Report
    <3>2. /\ s \in InventoryCalls /\ s.pc = "failed" /\ s.device = l.device /\ s.previous = l.previous
          /\ s.reports = l.reports /\ s.left = l.left /\ s.current = l.current
      BY <2>2 DEF InventoryCalls
    <3> HIDE DEF s, l
    <3>3. WatchHolds(s, made) /\ WatchComposes(s)
      BY <2>2, <3>2 DEF WatchHolds, WatchComposes
    <3>4. WatchCrowded(s, made)
      BY <1>12, <2>3, <2>7, <3>2
    <3> QED BY <1>0, <1>1, <2>5, <3>1, <3>2, <3>3, <3>4
  <2> QED BY <2>6, <2>7
<1>17. ASSUME NEW c \in I!Calls, I!Raise(c) PROVE InventoryInv'
  <2> DEFINE s == [I!Idle EXCEPT !.pc = "raised"]
  <2>1. inventoryCall' = [inventoryCall EXCEPT ![c] = s]
        /\ UNCHANGED <<device, stamps, states, made, changes>>
    BY <1>17 DEF I!Raise
  <2>4. /\ I!Idle \in InventoryCalls /\ I!Idle.previous = I!None
        /\ I!Idle.reports = <<>> /\ Len(I!Idle.reports) = 0 /\ I!Idle.left = I!None
    BY DEF I!Idle, InventoryCalls
  <2> HIDE DEF I!Idle
  <2>2. /\ s \in InventoryCalls /\ s.pc = "raised" /\ s.previous = I!None
        /\ s.reports = <<>> /\ Len(s.reports) = 0 /\ s.left = I!None
    BY <2>4 DEF InventoryCalls
  <2> HIDE DEF s
  <2>3. Holds(s)
    BY <2>2 DEF WatchHolds, WatchComposes, WatchCrowded
  <2> QED BY <1>0, <1>1, <2>1, <2>2, <2>3
<1>16. CASE UNCHANGED I!inventoryVars
  BY <1>0, <1>15, <1>16 DEF I!inventoryVars
<1> QED BY <1>3, <1>4, <1>5, <1>6, <1>7, <1>8, <1>10, <1>11, <1>13, <1>14, <1>16, <1>17
        DEF I!Next

\* The reports of a watch add up to how its device changed, and a state it compares with is
\* gone only when at least as many later states of its device were captured as are kept.
THEOREM WatchesAreSound ==
    I!Init /\ [][I!Next]_(I!inventoryVars) => 
        [](I!TypeOK /\ I!ReportsCompose /\ I!FailsOnlyWhenCrowded)
<1>1. I!Init => InventoryInv
  <2> SUFFICES ASSUME I!Init PROVE InventoryInv
    OBVIOUS
  <2>1. MaxRows \in Nat /\ MaxChanges \in Nat
    BY DevicesAssumption DEF I!InventoryAssumption
  <2>2. device \in [Actors -> I!Inventories] /\ stamps \in 0 .. MaxRows /\ changes \in 0 .. MaxChanges
    BY <2>1 DEF I!Init, I!Inventories
  <2>3. states \subseteq made /\ made \subseteq I!Rows /\ IsFiniteSet(made) /\ made \ states = {}
    BY FS_EmptySet DEF I!Init
  <2>4. /\ I!Idle \in InventoryCalls /\ I!Idle.pc = "idle" /\ I!Idle.previous = I!None
        /\ I!Idle.reports = <<>> /\ Len(I!Idle.reports) = 0 /\ I!Idle.left = I!None
    BY DEF I!Idle, InventoryCalls
  <2>5. inventoryCall \in [I!Calls -> InventoryCalls] /\ \A c \in I!Calls : inventoryCall[c] = I!Idle
    BY <2>4 DEF I!Init
  <2> HIDE DEF I!Idle
  <2>6. WatchHolds(I!Idle, made) /\ WatchComposes(I!Idle) /\ WatchCrowded(I!Idle, made)
    BY <2>4 DEF WatchHolds, WatchComposes, WatchCrowded
  <2> QED BY <2>2, <2>3, <2>5, <2>6 DEF InventoryInv
<1>2. InventoryInv => I!ReportsCompose /\ I!FailsOnlyWhenCrowded
  <2> SUFFICES ASSUME InventoryInv, NEW w \in Watches
               PROVE  /\ \A i \in 1 .. Len(inventoryCall[w].reports) - 1 :
                            inventoryCall[w].reports[i].to = inventoryCall[w].reports[i + 1].from
                      /\ inventoryCall[w].pc = "sleep" /\ inventoryCall[w].reports # <<>> =>
                            inventoryCall[w].reports[Len(inventoryCall[w].reports)].to
                              = inventoryCall[w].previous.inventory
                      /\ inventoryCall[w].pc = "failed" =>
                            \E r \in {inventoryCall[w].previous, inventoryCall[w].current} :
                               I!Cardinality({o \in made : o.device = inventoryCall[w].device /\ o.id > r.id})
                                 >= Retention
    BY DEF I!ReportsCompose, I!FailsOnlyWhenCrowded, I!At
  <2>1. WatchComposes(inventoryCall[w]) /\ WatchCrowded(inventoryCall[w], made)
    BY DEF InventoryInv, I!Calls
  <2>2. \A S : I!Cardinality(S) = Cardinality(S)
    BY DEF I!Cardinality, Cardinality
  <2>3. inventoryCall[w].pc = "failed" =>
            \E r \in {inventoryCall[w].previous, inventoryCall[w].current} :
               I!Cardinality({o \in made : o.device = inventoryCall[w].device /\ o.id > r.id}) >= Retention
    BY <2>1, <2>2 DEF WatchCrowded, Later
  <2> QED BY <2>1, <2>3 DEF WatchComposes
<1>3. InventoryInv => I!TypeOK
  <2> SUFFICES ASSUME InventoryInv PROVE I!TypeOK
    OBVIOUS
  <2>1. ASSUME NEW c \in I!Calls
        PROVE  /\ inventoryCall[c].pc \in {"idle", "users", "packages", "insert", "prune", "sleep",
                                          "left", "right", "done", "failed", "raised"}
               /\ {inventoryCall[c].previous, inventoryCall[c].left} \subseteq made \cup {I!None}
               /\ inventoryCall[c].current \in I!Rows \cup {I!None}
    <3>1. inventoryCall[c] \in InventoryCalls /\ WatchHolds(inventoryCall[c], made)
      BY DEF InventoryInv
    <3>2. inventoryCall[c].previous \in made \cup {I!None} /\ inventoryCall[c].left \in made \cup {I!None}
      BY <3>1 DEF WatchHolds
    <3>3. /\ inventoryCall[c].pc \in {"idle", "users", "packages", "insert", "prune", "sleep",
                                      "left", "right", "done", "failed", "raised"}
          /\ inventoryCall[c].current \in I!Rows \cup {I!None}
      BY <3>1 DEF InventoryCalls
    <3> QED BY <3>2, <3>3
  <2> QED BY <2>1 DEF InventoryInv, I!TypeOK
<1> QED BY <1>1, <1>2, <1>3, InventoryStepInv, PTL

-----------------------------------------------------------------------------
(* The wireless broker: its threads, and what a page makes of its events. *)

About(e, k) == e.kind = "item" /\ e.key = k

\* Of the last `lag` events the newest about item k says v; a page that was told `told`
\* before them knows v after them.
Says(evs, lag, told, k, v) ==
    \/ /\ v = told[k]
       /\ \A n \in 0 .. lag - 1 : ~About(evs[Len(evs) - n], k)
    \/ \E n \in 0 .. lag - 1 :
          /\ About(evs[Len(evs) - n], k) /\ v = evs[Len(evs) - n].value
          /\ \A m \in 0 .. n - 1 : ~About(evs[Len(evs) - m], k)

Lag == sequence - (IF reader.after < 0 THEN 0 ELSE reader.after)

ThreadStates == [at : {"gone", "head", "report", "exit"}, seen : B!State, todo : Seq(B!Events)]
StopStates == [at : {"idle", "join", "joined", "told"}, of : Actors \cup {"none"}, was : BOOLEAN]

BrokerTypes ==
    /\ world \in B!State /\ services \in B!State
    /\ budget \in 0 .. MaxUpsets
    /\ running \in BOOLEAN /\ flag \in BOOLEAN /\ hurried \in BOOLEAN
    /\ current \in Actors \cup {"none"}
    /\ sequence \in Nat
    /\ thread \in [Actors -> ThreadStates]
    /\ stopper \in StopStates
    /\ reader \in [after : Int, told : B!State, missed : BOOLEAN]
    /\ reader.after \in -1 .. sequence

\* The history is the last events, as many as it holds.
HistoryIsLast ==
    /\ events \in Seq(B!Events)
    /\ Len(events) <= MaxHistory /\ Len(events) <= sequence
    /\ Len(events) < MaxHistory => Len(events) = sequence

\* Unless somebody hurried, the only thread is the current one, and it is the one
\* that a stop waits for.
ThreadAlone ==
    ~hurried => /\ (running <=> \E t \in Actors : B!Alive(t))
                /\ \A t \in Actors : B!Alive(t) => t = current
                /\ stopper.at = "join" => \A t \in Actors : B!Alive(t) => t = stopper.of
                /\ stopper.at \in {"joined", "told"} => \A t \in Actors : ~B!Alive(t)

\* What a thread has still to report is so.
TodoIsSeen ==
    \A t \in Actors : B!Busy(t) =>
        \A i \in 1 .. Len(thread[t].todo) :
            thread[t].todo[i].kind = "item" =>
                thread[t].todo[i].value = thread[t].seen[thread[t].todo[i].key]

\* What a page knows once it reads the events is what the broker knows, or what a
\* thread is about to report.
PageKnows ==
    ~hurried /\ ~reader.missed /\ Lag <= MaxHistory =>
        \A k \in Keys : \E v \in B!Item :
            /\ Says(events, Lag, reader.told, k, v)
            /\ (\A t \in Actors : ~B!Busy(t)) => v = services[k]
            /\ \A t \in Actors : B!Busy(t) =>
                  v = thread[t].seen[k]
                  \/ \E i \in 1 .. Len(thread[t].todo) : About(thread[t].todo[i], k)

BrokerInv == BrokerTypes /\ HistoryIsLast /\ ThreadAlone /\ TodoIsSeen /\ PageKnows

\* A set of indices that is not empty has a last one.
LEMMA LastIsThere ==
    ASSUME NEW N \in Nat, NEW S, S # {}, S \subseteq 1 .. N
    PROVE  \E i \in S : \A j \in S : j <= i
<1> DEFINE T == {N - i : i \in S}
<1>5. \A i \in S : i \in 1 .. N
  OBVIOUS
<1>6. \A i \in 1 .. N : N - i \in Nat
  OBVIOUS
<1>1. T # {} /\ T \subseteq Nat
  BY <1>5, <1>6
<1>2. PICK m \in T : \A n \in T : m <= n
  BY <1>1, LeastNatural
<1>3. PICK i \in S : m = N - i
  OBVIOUS
<1>4. ASSUME NEW j \in S PROVE j <= i
  <2>1. N - j \in T
    OBVIOUS
  <2>2. N - i <= N - j
    BY <1>2, <1>3, <2>1
  <2>3. i \in Nat /\ j \in Nat
    OBVIOUS
  <2> QED BY <2>2, <2>3
<1> QED BY <1>4

\* A bounded history that is appended to: what its newest entries are.
LEMMA HistoryGrows ==
    ASSUME NEW q \in Seq(B!Events), NEW e \in B!Events, Len(q) <= MaxHistory, NEW p,
           p = IF Len(Append(q, e)) > MaxHistory THEN Tail(Append(q, e)) ELSE Append(q, e)
    PROVE  /\ p \in Seq(B!Events)
           /\ Len(p) = IF Len(q) < MaxHistory THEN Len(q) + 1 ELSE MaxHistory
           /\ Len(p) > 0 => p[Len(p)] = e
           /\ \A n \in 1 .. Len(p) - 1 : p[Len(p) - n] = q[Len(q) - (n - 1)]
<1>0. MaxHistory \in Nat
  BY DevicesAssumption DEF B!WirelessBrokerAssumption
<1> DEFINE all == Append(q, e)
<1>1. /\ all \in Seq(B!Events) /\ all # <<>> /\ Len(all) = Len(q) + 1 /\ Len(q) \in Nat
      /\ \A i \in 1 .. Len(q) : all[i] = q[i]
      /\ all[Len(q) + 1] = e
  BY AppendProperties, LenProperties
<1>2. p = IF Len(all) > MaxHistory THEN Tail(all) ELSE all
  OBVIOUS
<1> HIDE DEF all
<1>3. CASE Len(q) < MaxHistory
  <2>1. p = all /\ Len(p) = Len(q) + 1
    BY <1>0, <1>1, <1>2, <1>3
  <2>2. ASSUME NEW n \in 1 .. Len(p) - 1 PROVE p[Len(p) - n] = q[Len(q) - (n - 1)]
    <3>1. Len(p) - n \in 1 .. Len(q) /\ Len(p) - n = Len(q) - (n - 1)
      BY <1>1, <2>1
    <3> QED BY <1>1, <2>1, <3>1
  <2> QED BY <1>1, <1>3, <2>1, <2>2
<1>4. CASE Len(q) = MaxHistory
  <2>1. /\ p = Tail(all) /\ p \in Seq(B!Events) /\ Len(p) = Len(q)
        /\ \A i \in 1 .. Len(p) : p[i] = all[i + 1]
    <3>1. /\ Tail(all) \in Seq(B!Events) /\ Len(Tail(all)) = Len(all) - 1
          /\ \A i \in 1 .. Len(Tail(all)) : Tail(all)[i] = all[i + 1]
      BY <1>1, HeadTailProperties
    <3>2. p = Tail(all)
      BY <1>0, <1>1, <1>2, <1>4
    <3> QED BY <1>1, <3>1, <3>2
  <2>2. ASSUME NEW n \in 1 .. Len(p) - 1 PROVE p[Len(p) - n] = q[Len(q) - (n - 1)]
    <3>1. Len(p) - n \in 1 .. Len(p) /\ Len(p) - n + 1 \in 1 .. Len(q)
          /\ Len(p) - n + 1 = Len(q) - (n - 1)
      BY <1>1, <2>1
    <3> QED BY <1>1, <2>1, <3>1
  <2>3. ASSUME Len(p) > 0 PROVE p[Len(p)] = e
    <3>1. Len(p) \in 1 .. Len(p) /\ Len(p) + 1 = Len(q) + 1
      BY <1>1, <2>1, <2>3
    <3> QED BY <1>1, <2>1, <3>1
  <2> QED BY <1>1, <1>4, <2>1, <2>2, <2>3
<1> QED BY <1>0, <1>1, <1>3, <1>4

LEMMA SaysOld ==
    ASSUME NEW evs, NEW lag, NEW told, NEW k, NEW v, v = told[k],
           \A n \in 0 .. lag - 1 : ~About(evs[Len(evs) - n], k)
    PROVE  Says(evs, lag, told, k, v)
BY DEF Says

LEMMA SaysNew ==
    ASSUME NEW evs, NEW lag, NEW told, NEW k, NEW v, NEW n \in 0 .. lag - 1,
           About(evs[Len(evs) - n], k), v = evs[Len(evs) - n].value,
           \A m \in 0 .. n - 1 : ~About(evs[Len(evs) - m], k)
    PROVE  Says(evs, lag, told, k, v)
BY DEF Says

\* The newest event is what is known of its item; of the others nothing changes.
LEMMA SaysMore ==
    ASSUME NEW q \in Seq(B!Events), NEW e \in B!Events, Len(q) <= MaxHistory, NEW p,
           p = IF Len(Append(q, e)) > MaxHistory THEN Tail(Append(q, e)) ELSE Append(q, e),
           NEW lag \in Nat, lag + 1 <= MaxHistory, lag <= Len(q),
           NEW told, NEW k, NEW v, Says(q, lag, told, k, v)
    PROVE  Says(p, lag + 1, told, k, IF About(e, k) THEN e.value ELSE v)
<1>0. MaxHistory \in Nat /\ Len(q) \in Nat
  BY DevicesAssumption DEF B!WirelessBrokerAssumption
<1>1. /\ Len(p) = IF Len(q) < MaxHistory THEN Len(q) + 1 ELSE MaxHistory
      /\ Len(p) > 0 => p[Len(p)] = e
      /\ \A n \in 1 .. Len(p) - 1 : p[Len(p) - n] = q[Len(q) - (n - 1)]
  BY HistoryGrows
<1>2. Len(p) \in Nat /\ Len(p) > 0 /\ lag + 1 <= Len(p)
  BY <1>0, <1>1
<1>6. p[Len(p) - 0] = e
  <2>1. Len(p) - 0 = Len(p)
    BY <1>2
  <2> QED BY <1>1, <1>2, <2>1
<1>3. \A n \in 1 .. lag : p[Len(p) - n] = q[Len(q) - (n - 1)]
  BY <1>1, <1>2
<1>4. CASE About(e, k)
  <2>1. 0 \in 0 .. (lag + 1) - 1 /\ \A m \in 0 .. 0 - 1 : ~About(p[Len(p) - m], k)
    OBVIOUS
  <2>2. Says(p, lag + 1, told, k, e.value)
    BY <1>4, <1>6, <2>1, SaysNew
  <2> QED BY <1>4, <2>2
<1>5. CASE ~About(e, k)
  <2>1. CASE v = told[k] /\ \A n \in 0 .. lag - 1 : ~About(q[Len(q) - n], k)
    <3>1. ASSUME NEW n \in 0 .. lag PROVE ~About(p[Len(p) - n], k)
      <4>1. CASE n = 0
        BY <1>6, <1>5, <4>1
      <4>2. CASE n # 0
        <5>1. n \in 1 .. lag /\ n - 1 \in 0 .. lag - 1
          BY <4>2
        <5> QED BY <1>3, <2>1, <5>1
      <4> QED BY <4>1, <4>2
    <3>2. \A n \in 0 .. (lag + 1) - 1 : ~About(p[Len(p) - n], k)
      <4>1. (lag + 1) - 1 = lag
        OBVIOUS
      <4> QED BY <3>1, <4>1
    <3>3. Says(p, lag + 1, told, k, v)
      BY <2>1, <3>2, SaysOld
    <3> QED BY <1>5, <3>3
  <2>2. ASSUME NEW n \in 0 .. lag - 1,
               About(q[Len(q) - n], k), v = q[Len(q) - n].value,
               \A m \in 0 .. n - 1 : ~About(q[Len(q) - m], k)
        PROVE  Says(p, lag + 1, told, k, v)
    <3>1. n + 1 \in 1 .. lag /\ (n + 1) - 1 = n
      OBVIOUS
    <3>2. p[Len(p) - (n + 1)] = q[Len(q) - n]
      BY <1>3, <3>1
    <3>3. ASSUME NEW m \in 0 .. n PROVE ~About(p[Len(p) - m], k)
      <4>1. CASE m = 0
        BY <1>6, <1>5, <4>1
      <4>2. CASE m # 0
        <5>1. m \in 1 .. lag /\ m - 1 \in 0 .. n - 1
          BY <4>2
        <5> QED BY <1>3, <2>2, <5>1
      <4> QED BY <4>1, <4>2
    <3>4. n + 1 \in 0 .. (lag + 1) - 1 /\ \A m \in 0 .. (n + 1) - 1 : ~About(p[Len(p) - m], k)
      <4>1. (lag + 1) - 1 = lag /\ (n + 1) - 1 = n /\ n + 1 \in 0 .. lag
        OBVIOUS
      <4> QED BY <3>3, <4>1
    <3> QED BY <2>2, <3>2, <3>4, SaysNew
  <2> QED BY <1>5, <2>1, <2>2 DEF Says
<1> QED BY <1>4, <1>5

\* Whoever reads the last `lag` events knows what they say.
LEMMA ReplaySays ==
    ASSUME NEW q \in Seq(B!Events), NEW lag \in Nat, lag <= Len(q), NEW p,
           p = IF lag = Len(q) THEN q ELSE SubSeq(q, Len(q) - lag + 1, Len(q)),
           NEW told \in B!State, NEW k \in Keys, NEW v, Says(q, lag, told, k, v)
    PROVE  B!Replay(told, p)[k] = v
<1>0. Len(q) \in Nat
  BY LenProperties
<1>1. q \in [1 .. Len(q) -> B!Events]
  BY LenProperties
<1>2. /\ p \in Seq(B!Events) /\ Len(p) = lag /\ \A n \in 0 .. lag - 1 : p[lag - n] = q[Len(q) - n]
  <2>1. CASE lag = Len(q)
    BY <2>1
  <2>2. CASE lag # Len(q)
    <3> DEFINE size == Len(q)
               from == size - lag + 1
    <3>8. size \in Nat /\ lag <= size
      BY <1>0
    <3> HIDE DEF size
    <3>1. from \in 1 .. size + 1 /\ size - from + 1 = lag
      BY <3>8
    <3>4. from \in Int /\ size \in Int /\ (from <= size <=> lag > 0)
      BY <3>8
    <3>6. \A n \in 0 .. lag - 1 : lag - n \in 1 .. lag /\ from + (lag - n) - 1 = size - n
      BY <3>8
    <3> USE DEF size
    <3>2. \A i \in from .. Len(q) : q[i] \in B!Events
      BY <1>1, <3>1
    <3>3. p = SubSeq(q, from, Len(q))
      BY <2>2
    <3>5. /\ p \in Seq(B!Events) /\ Len(p) = IF from <= Len(q) THEN Len(q) - from + 1 ELSE 0
          /\ \A i \in 1 .. Len(q) - from + 1 : p[i] = q[from + i - 1]
      BY <3>2, <3>3, <3>4, SubSeqProperties
    <3> HIDE DEF from
    <3>7. Len(p) = lag
      BY <3>1, <3>4, <3>5
    <3> QED BY <3>1, <3>5, <3>6, <3>7
  <2> QED BY <2>1, <2>2
<1> DEFINE last == {i \in DOMAIN p : p[i].kind = "item" /\ p[i].key = k}
           value == p[CHOOSE i \in last : \A j \in last : j <= i].value
<1>3. B!Replay(told, p)[k] = IF last = {} THEN told[k] ELSE value
  BY DEF B!Replay
<1>4. DOMAIN p = 1 .. lag
  BY <1>2, LenProperties
<1>5. last = {i \in 1 .. lag : About(p[i], k)}
  BY <1>4 DEF About
<1> HIDE DEF last
<1>6. CASE v = told[k] /\ \A n \in 0 .. lag - 1 : ~About(q[Len(q) - n], k)
  <2>1. ASSUME NEW i \in 1 .. lag PROVE ~About(p[i], k)
    <3>1. lag - i \in 0 .. lag - 1 /\ lag - (lag - i) = i
      OBVIOUS
    <3> QED BY <1>2, <1>6, <3>1
  <2>2. last = {}
    BY <1>5, <2>1
  <2> QED BY <1>3, <1>6, <2>2
<1>7. ASSUME NEW n \in 0 .. lag - 1,
             About(q[Len(q) - n], k), v = q[Len(q) - n].value,
             \A m \in 0 .. n - 1 : ~About(q[Len(q) - m], k)
      PROVE  B!Replay(told, p)[k] = v
  <2>1. lag - n \in last /\ p[lag - n].value = v
    BY <1>2, <1>5, <1>7
  <2>2. ASSUME NEW j \in last PROVE j <= lag - n
    <3>1. j \in 1 .. lag /\ About(p[j], k)
      BY <1>5
    <3>2. SUFFICES ASSUME j > lag - n PROVE FALSE
      BY <3>1
    <3>3. lag - j \in 0 .. n - 1 /\ lag - j \in 0 .. lag - 1 /\ lag - (lag - j) = j
      BY <3>1, <3>2
    <3> QED BY <1>2, <1>7, <3>1, <3>3
  <2>3. ASSUME NEW i \in last, \A j \in last : j <= i PROVE i = lag - n
    <3>1. i \in Nat
      BY <1>5
    <3>2. lag - n <= i /\ i <= lag - n
      BY <2>1, <2>2, <2>3
    <3> QED BY <3>1, <3>2
  <2>4. (CHOOSE i \in last : \A j \in last : j <= i) = lag - n
    BY <2>1, <2>2, <2>3
  <2> QED BY <1>3, <2>1, <2>4
<1> QED BY <1>6, <1>7 DEF Says

\* The events a comparison makes: each difference has one, and each tells what is there now.
LEMMA ReportTells ==
    ASSUME NEW old \in B!State, NEW new \in B!State, NEW todo \in B!Report(old, new)
    PROVE  /\ todo \in Seq(B!Events)
           /\ \A i \in 1 .. Len(todo) : todo[i].kind = "item" => todo[i].value = new[todo[i].key]
           /\ \A k \in Keys : old[k] # new[k] => \E i \in 1 .. Len(todo) : About(todo[i], k)
<1> DEFINE D == B!Differences(old, new)
           moved == {x \in Keys : old[x] # new[x]}
           event(x) == [kind |-> "item", key |-> x, value |-> new[x]]
           first == IF old = B!Nothing /\ new # B!Nothing THEN <<[kind |-> "snapshot"]>> ELSE <<>>
<1>1. PICK diff \in B!SetToSeqs(D) : todo = diff \o first
  BY DEF B!Report
<1>2. D = {event(x) : x \in moved}
  BY DEF B!Differences
<1>3. \A x \in moved : event(x) \in B!Events
  BY DEF B!Events, B!State, B!Item
<1>4. D \subseteq B!Events
  BY <1>2, <1>3
<1>5. IsFiniteSet(D)
  <2> DEFINE f == [x \in moved |-> event(x)]
  <2>1. IsFiniteSet(moved)
    <3>1. IsFiniteSet(Keys) /\ moved \subseteq Keys
      BY DevicesAssumption DEF B!WirelessBrokerAssumption, B!IsFiniteSet, IsFiniteSet
    <3> QED BY <3>1, FS_Subset
  <2>2. f \in Surjection(moved, D)
    BY <1>2 DEF Surjection
  <2> QED BY <2>1, <2>2, FS_Surjection
<1>6. /\ Cardinality(D) \in Nat
      /\ diff \in [1 .. Cardinality(D) -> D]
      /\ \A i, j \in 1 .. Cardinality(D) : i # j => diff[i] # diff[j]
  <2>1. B!Cardinality(D) = Cardinality(D)
    BY DEF B!Cardinality, Cardinality
  <2> QED BY <1>1, <1>5, <2>1, FS_CardinalityType DEF B!SetToSeqs
<1> HIDE DEF D, event, first
<1>7. ASSUME NEW d \in D PROVE \E i \in 1 .. Cardinality(D) : diff[i] = d
  <2> DEFINE N == 1 .. Cardinality(D)
  <2>1. Cardinality(N) = Cardinality(D)
    BY <1>6, FS_Interval
  <2>2. diff \in Injection(N, D)
    BY <1>6 DEF Injection, IsInjective
  <2>3. diff \in Surjection(N, D)
    BY <1>5, <2>1, <2>2, FS_Injection
  <2> QED BY <2>3 DEF Surjection
<1>8. diff \in Seq(B!Events) /\ Len(diff) = Cardinality(D)
  BY <1>4, <1>6
<1>9. first \in Seq(B!Events) /\ \A i \in 1 .. Len(first) : first[i].kind = "snapshot"
  <2> DEFINE e == [kind |-> "snapshot"]
  <2>1. e \in B!Events /\ e.kind = "snapshot"
    BY DEF B!Events
  <2>2. first = <<>> \/ first = <<e>>
    BY DEF first
  <2> HIDE DEF e
  <2>3. CASE first = <<>>
    BY <2>3
  <2>4. CASE first = <<e>>
    BY <2>1, <2>4
  <2> QED BY <2>2, <2>3, <2>4
<1>10. /\ todo \in Seq(B!Events) /\ Len(todo) = Len(diff) + Len(first)
       /\ \A i \in 1 .. Len(todo) : todo[i] = IF i <= Len(diff) THEN diff[i] ELSE first[i - Len(diff)]
  BY <1>1, <1>8, <1>9, ConcatProperties
<1>11. Len(diff) \in Nat /\ Len(first) \in Nat
  BY <1>8, <1>9, LenProperties
<1>12. ASSUME NEW i \in 1 .. Len(todo), todo[i].kind = "item"
       PROVE  todo[i].value = new[todo[i].key]
  <2>1. CASE i <= Len(diff)
    <3>1. todo[i] = diff[i] /\ i \in 1 .. Cardinality(D)
      BY <1>8, <1>10, <2>1
    <3>2. PICK x \in moved : todo[i] = event(x)
      BY <1>2, <1>6, <3>1
    <3> QED BY <3>2 DEF event
  <2>2. CASE i > Len(diff)
    <3>1. todo[i] = first[i - Len(diff)] /\ i - Len(diff) \in 1 .. Len(first)
      BY <1>10, <1>11, <2>2
    <3> QED BY <1>9, <1>12, <3>1
  <2> QED BY <1>11, <2>1, <2>2
<1>13. ASSUME NEW k \in Keys, old[k] # new[k] PROVE \E i \in 1 .. Len(todo) : About(todo[i], k)
  <2>1. event(k) \in D
    BY <1>2, <1>13
  <2>2. PICK i \in 1 .. Cardinality(D) : diff[i] = event(k)
    BY <1>7, <2>1
  <2>3. i \in 1 .. Len(todo) /\ todo[i] = event(k)
    BY <1>8, <1>10, <1>11, <2>2
  <2> QED BY <2>3 DEF About, event
<1> QED BY <1>10, <1>12, <1>13

EventOf(kind) == [kind |-> kind]

LEMMA EventKinds ==
    /\ \A kind \in {"started", "stopped", "snapshot", "error"} :
          EventOf(kind) \in B!Events /\ EventOf(kind).kind = kind
    /\ \A e \in B!Events : \A k : About(e, k) => e.value \in B!Item
BY DEF B!Events, EventOf, About

LEMMA LagIsSmall ==
    ASSUME BrokerTypes, HistoryIsLast
    PROVE  /\ Lag \in Nat /\ Lag <= sequence
           /\ Lag <= MaxHistory => Lag <= Len(events)
<1>1. MaxHistory \in Nat /\ Len(events) \in Nat
  BY DevicesAssumption, LenProperties DEF B!WirelessBrokerAssumption, HistoryIsLast
<1>2. sequence \in Nat /\ reader.after \in -1 .. sequence
  BY DEF BrokerTypes
<1> QED BY <1>1, <1>2 DEF HistoryIsLast, Lag

\* An event of any kind keeps the history.
LEMMA EmitKeeps ==
    ASSUME BrokerTypes, HistoryIsLast, NEW e \in B!Events, B!Emit(e)
    PROVE  HistoryIsLast' /\ sequence' = sequence + 1 /\ sequence' \in Nat
<1>1. MaxHistory \in Nat /\ Len(events) \in Nat /\ sequence \in Nat
  BY DevicesAssumption, LenProperties DEF B!WirelessBrokerAssumption, HistoryIsLast, BrokerTypes
<1>2. events' = IF Len(Append(events, e)) > MaxHistory THEN Tail(Append(events, e)) ELSE Append(events, e)
  BY DEF B!Emit, B!Appended
<1>3. events \in Seq(B!Events) /\ Len(events) <= MaxHistory
  BY DEF HistoryIsLast
<1>4. /\ events' \in Seq(B!Events)
      /\ Len(events') = IF Len(events) < MaxHistory THEN Len(events) + 1 ELSE MaxHistory
  BY <1>2, <1>3, HistoryGrows
<1>5. sequence' = sequence + 1
  BY DEF B!Emit
<1>6. /\ Len(events') <= MaxHistory /\ Len(events') <= sequence'
      /\ Len(events') < MaxHistory => Len(events') = sequence'
  BY <1>1, <1>3, <1>4, <1>5 DEF HistoryIsLast
<1>7. (events \in Seq(B!Events))'
  BY <1>4 DEF B!Events, B!Item
<1> QED BY <1>1, <1>5, <1>6, <1>7 DEF HistoryIsLast

\* What the page will know of an item, when one more event is emitted.
LEMMA PageHears ==
    ASSUME BrokerTypes, HistoryIsLast, NEW e \in B!Events, B!Emit(e), reader' = reader,
           Lag' <= MaxHistory, NEW k, NEW v, Says(events, Lag, reader.told, k, v)
    PROVE  Says(events', Lag', reader'.told, k, IF About(e, k) THEN e.value ELSE v)
<1>1. MaxHistory \in Nat /\ sequence \in Nat /\ reader.after \in -1 .. sequence
  BY DevicesAssumption DEF B!WirelessBrokerAssumption, BrokerTypes
<1>2. Lag' = Lag + 1
  BY <1>1 DEF B!Emit, Lag
<1>3. Lag \in Nat /\ Lag + 1 <= MaxHistory /\ Lag <= Len(events)
  BY <1>1, <1>2, LagIsSmall
<1>4. events' = IF Len(Append(events, e)) > MaxHistory THEN Tail(Append(events, e)) ELSE Append(events, e)
  BY DEF B!Emit, B!Appended
<1>5. events \in Seq(B!Events) /\ Len(events) <= MaxHistory
  BY DEF HistoryIsLast
<1>6. Says(events', Lag + 1, reader.told, k, IF About(e, k) THEN e.value ELSE v)
  BY <1>3, <1>4, <1>5, SaysMore
<1> QED BY <1>2, <1>6

SameReports ==
    \A t \in Actors : /\ (thread'[t].at = "report") <=> (thread[t].at = "report")
                      /\ thread[t].at = "report" => thread'[t] = thread[t]

LEMMA SameTodo ==
    ASSUME TodoIsSeen, SameReports
    PROVE  TodoIsSeen'
BY DEF TodoIsSeen, SameReports, B!Busy

\* A step that emits nothing about an item and leaves what is reported alone.
LEMMA QuietStep ==
    ASSUME BrokerTypes, HistoryIsLast, PageKnows, SameReports,
           reader' = reader, services' = services, hurried' = FALSE => hurried = FALSE,
           hurried \in BOOLEAN, hurried' \in BOOLEAN,
           \/ UNCHANGED <<sequence, events>>
           \/ \E kind \in {"started", "stopped", "error"} : B!Emit(EventOf(kind))
    PROVE  PageKnows'
<1> SUFFICES ASSUME ~hurried', ~reader'.missed, Lag' <= MaxHistory, NEW k \in Keys
             PROVE  \E v \in B!Item :
                /\ Says(events', Lag', reader'.told, k, v)
                /\ (\A t \in Actors : ~(thread'[t].at = "report")) => v = services'[k]
                /\ \A t \in Actors : thread'[t].at = "report" =>
                      v = thread'[t].seen[k]
                      \/ \E i \in 1 .. Len(thread'[t].todo) : About(thread'[t].todo[i], k)
  BY DEF PageKnows, B!Busy, B!Item
<1>1. MaxHistory \in Nat /\ sequence \in Nat /\ reader.after \in -1 .. sequence
  BY DevicesAssumption DEF B!WirelessBrokerAssumption, BrokerTypes
<1>2. Lag <= MaxHistory
  <2>1. sequence' = sequence \/ sequence' = sequence + 1
    BY DEF B!Emit
  <2>2. Lag' = Lag \/ Lag' = Lag + 1
    BY <1>1, <2>1 DEF Lag
  <2> QED BY <1>1, <2>2, LagIsSmall
<1>3. PICK v \in B!Item :
         /\ Says(events, Lag, reader.told, k, v)
         /\ (\A t \in Actors : ~B!Busy(t)) => v = services[k]
         /\ \A t \in Actors : B!Busy(t) =>
               v = thread[t].seen[k]
               \/ \E i \in 1 .. Len(thread[t].todo) : About(thread[t].todo[i], k)
  BY <1>2 DEF PageKnows
<1>4. Says(events', Lag', reader'.told, k, v)
  <2>1. CASE UNCHANGED <<sequence, events>>
    <3>1. Lag' = Lag
      BY <2>1 DEF Lag
    <3> QED BY <1>3, <2>1, <3>1
  <2>2. ASSUME NEW kind \in {"started", "stopped", "error"}, B!Emit(EventOf(kind))
        PROVE  Says(events', Lag', reader'.told, k, v)
    <3>1. EventOf(kind) \in B!Events /\ ~About(EventOf(kind), k)
      BY EventKinds DEF About
    <3> QED BY <1>3, <2>2, <3>1, PageHears
  <2> QED BY <2>1, <2>2
<1>5. \A t \in Actors : /\ B!Busy(t) <=> thread'[t].at = "report"
                        /\ B!Busy(t) => thread'[t] = thread[t]
  BY DEF SameReports, B!Busy
<1>6. (\A t \in Actors : ~(thread'[t].at = "report")) => v = services'[k]
  BY <1>3, <1>5
<1>7. \A t \in Actors : thread'[t].at = "report" =>
         v = thread'[t].seen[k] \/ \E i \in 1 .. Len(thread'[t].todo) : About(thread'[t].todo[i], k)
  BY <1>3, <1>5
<1> QED BY <1>4, <1>6, <1>7

LEMMA BrokerStepInv == BrokerInv /\ [B!Next]_(B!vars) => BrokerInv'
<1> SUFFICES ASSUME BrokerInv, [B!Next]_(B!vars) PROVE BrokerInv'
  OBVIOUS
<1>0. /\ BrokerTypes /\ HistoryIsLast /\ ThreadAlone /\ TodoIsSeen /\ PageKnows
      /\ world \in B!State /\ services \in B!State
      /\ budget \in 0 .. MaxUpsets /\ MaxUpsets \in Nat /\ MaxHistory \in Nat
      /\ running \in BOOLEAN /\ flag \in BOOLEAN /\ hurried \in BOOLEAN
      /\ current \in Actors \cup {"none"}
      /\ sequence \in Nat
      /\ thread \in [Actors -> ThreadStates]
      /\ stopper \in StopStates
      /\ reader \in [after : Int, told : B!State, missed : BOOLEAN]
      /\ reader.after \in -1 .. sequence
      /\ B!Nothing \in B!State
  BY DevicesAssumption DEF BrokerInv, BrokerTypes, B!WirelessBrokerAssumption, B!Nothing, B!State, B!Item
\* Types, when the reader stays.
<1>1. ASSUME world' \in B!State, services' \in B!State, budget' \in 0 .. MaxUpsets,
             running' \in BOOLEAN, flag' \in BOOLEAN, hurried' \in BOOLEAN,
             current' \in Actors \cup {"none"}, thread' \in [Actors -> ThreadStates],
             stopper' \in StopStates, reader' = reader,
             sequence' = sequence \/ sequence' = sequence + 1
      PROVE  BrokerTypes'
  <2>1. sequence' \in Nat /\ reader'.after \in -1 .. sequence'
    BY <1>0, <1>1
  <2>2. reader' \in [after : Int, told : B!State, missed : BOOLEAN]
    BY <1>0, <1>1
  <2> QED BY <1>1, <2>1, <2>2 DEF BrokerTypes, B!State, B!Item, ThreadStates, B!Events, StopStates
\* History, when nothing is emitted.
<1>2. ASSUME UNCHANGED <<sequence, events>> PROVE HistoryIsLast'
  <2>1. (events \in Seq(B!Events))'
    BY <1>0, <1>2 DEF HistoryIsLast, B!Events, B!Item
  <2> QED BY <1>0, <1>2, <2>1 DEF HistoryIsLast
<1>3. ASSUME NEW kind \in {"started", "stopped", "error"}, B!Emit(EventOf(kind))
      PROVE  HistoryIsLast' /\ sequence' = sequence + 1
  BY <1>0, <1>3, EmitKeeps, EventKinds
<1>5. B!Gone \in ThreadStates /\ B!Gone.at = "gone"
  BY <1>0 DEF B!Gone, ThreadStates
\* The state of a thread that is about to do something else.
<1>4. ASSUME NEW to \in {"gone", "head", "exit"}
      PROVE  [B!Gone EXCEPT !.at = to] \in ThreadStates /\ [B!Gone EXCEPT !.at = to].at = to
  BY <1>4, <1>5 DEF ThreadStates
<1>6. CASE B!Start
  <2>1. PICK t \in Actors :
           /\ ~B!Alive(t) /\ running' = TRUE /\ flag' = FALSE /\ current' = t
           /\ thread' = [thread EXCEPT ![t] = [B!Gone EXCEPT !.at = "head"]]
    BY <1>6 DEF B!Start
  <2>2. /\ ~running /\ B!Emit([kind |-> "started"])
        /\ hurried' = (hurried \/ stopper.at # "idle")
        /\ UNCHANGED <<world, budget, services, stopper, reader>>
    BY <1>6 DEF B!Start, B!Outside
  <2> DEFINE fresh == [B!Gone EXCEPT !.at = "head"]
  <2>3. fresh \in ThreadStates /\ fresh.at = "head"
    BY <1>4
  <2> HIDE DEF fresh
  <2>4. /\ thread' \in [Actors -> ThreadStates] /\ thread'[t].at = "head"
        /\ \A u \in Actors \ {t} : thread'[u] = thread[u]
    BY <1>0, <2>1, <2>3 DEF fresh
  <2>5. B!Emit(EventOf("started"))
    BY <2>2 DEF EventOf
  <2>6. HistoryIsLast' /\ sequence' = sequence + 1
    BY <1>3, <2>5
  <2>7. BrokerTypes'
    BY <1>0, <1>1, <2>1, <2>2, <2>4, <2>6
  <2>8. SameReports
    BY <2>1, <2>4 DEF SameReports, B!Alive
  <2>9. ThreadAlone'
    <3> SUFFICES ASSUME ~hurried'
                 PROVE  /\ \A u \in Actors : thread'[u].at # "gone" <=> u = t
                        /\ stopper'.at = "idle"
      BY <2>1 DEF ThreadAlone, B!Alive
    <3>1. ~hurried /\ stopper.at = "idle"
      BY <1>0, <2>2
    <3>2. \A u \in Actors : ~B!Alive(u)
      BY <1>0, <2>2, <3>1 DEF ThreadAlone
    <3> QED BY <2>2, <2>4, <3>1, <3>2 DEF B!Alive
  <2>10. PageKnows'
    BY <1>0, <2>2, <2>5, <2>7, <2>8, QuietStep DEF BrokerTypes
  <2> QED BY <1>0, <2>6, <2>7, <2>8, <2>9, <2>10, SameTodo DEF BrokerInv
\* A step of a caller of stop, or of the world.
<1>7. ASSUME UNCHANGED <<sequence, events, thread, reader, services>>,
             BrokerTypes', ThreadAlone', hurried' = FALSE => hurried = FALSE
      PROVE  BrokerInv'
  <2>1. SameReports
    BY <1>7 DEF SameReports
  <2>2. HistoryIsLast'
    BY <1>2, <1>7
  <2>3. PageKnows'
    BY <1>0, <1>7, <2>1, QuietStep DEF BrokerTypes
  <2> QED BY <1>0, <1>7, <2>1, <2>2, <2>3, SameTodo DEF BrokerInv
<1>8. CASE B!StopSet
  <2> DEFINE whom == IF current # "none" /\ B!Alive(current) THEN current ELSE "none"
  <2>1. /\ stopper.at = "idle" /\ budget > 0 /\ budget' = budget - 1 /\ flag' = TRUE
        /\ stopper' = [stopper EXCEPT !.at = "join", !.of = whom]
        /\ UNCHANGED <<world, running, current, services, sequence, events, thread, reader, hurried>>
    BY <1>8 DEF B!StopSet
  <2>2. stopper' \in StopStates /\ stopper'.at = "join" /\ stopper'.of = whom
    BY <1>0, <2>1 DEF StopStates
  <2>3. budget' \in 0 .. MaxUpsets
    BY <1>0, <2>1
  <2>4. BrokerTypes'
    BY <1>0, <1>1, <2>1, <2>2, <2>3
  <2>5. ThreadAlone'
    <3> SUFFICES ASSUME ~hurried
                 PROVE  /\ (running <=> \E t \in Actors : B!Alive(t))
                        /\ \A t \in Actors : B!Alive(t) => t = current
                        /\ \A t \in Actors : B!Alive(t) => t = whom
      BY <2>1, <2>2 DEF ThreadAlone, B!Alive
    <3>1. \A t \in Actors : B!Alive(t) => t = current
      BY <1>0 DEF ThreadAlone
    <3>2. ASSUME NEW t \in Actors, B!Alive(t) PROVE t = whom
      <4>1. CASE t # "none"
        BY <3>1, <3>2, <4>1
      <4>2. CASE t = "none"
        BY <3>1, <3>2, <4>2
      <4> QED BY <4>1, <4>2
    <3> QED BY <1>0, <3>1, <3>2 DEF ThreadAlone
  <2> QED BY <1>7, <2>1, <2>4, <2>5
<1>9. CASE B!StopJoin
  <2>1. /\ stopper.at = "join"
        /\ hurried' = (hurried \/ \E t \in {stopper.of} \cap Actors : B!Alive(t))
        /\ stopper' = [stopper EXCEPT !.at = "joined"]
        /\ UNCHANGED <<world, budget, running, flag, current, services, sequence, events, thread, reader>>
    BY <1>9 DEF B!StopJoin, B!Outside
  <2>2. stopper' \in StopStates /\ stopper'.at = "joined"
    BY <1>0, <2>1 DEF StopStates
  <2>3. hurried' \in BOOLEAN
    BY <2>1
  <2>4. BrokerTypes'
    BY <1>0, <1>1, <2>1, <2>2, <2>3
  <2>5. ThreadAlone'
    <3> SUFFICES ASSUME ~hurried' PROVE ~running /\ \A t \in Actors : ~B!Alive(t)
      BY <2>1, <2>2 DEF ThreadAlone, B!Alive
    <3>1. ~hurried /\ ~\E t \in {stopper.of} \cap Actors : B!Alive(t)
      BY <2>1
    <3>2. \A t \in Actors : ~B!Alive(t)
      BY <1>0, <2>1, <3>1 DEF ThreadAlone
    <3> QED BY <1>0, <3>1, <3>2 DEF ThreadAlone
  <2>6. hurried' = FALSE => hurried = FALSE
    BY <1>0, <2>1
  <2> QED BY <1>7, <2>1, <2>4, <2>5, <2>6
<1>10. CASE B!StopMark
  <2>1. /\ stopper.at = "joined" /\ running' = FALSE
        /\ stopper' = [stopper EXCEPT !.at = "told", !.was = running]
        /\ UNCHANGED <<world, budget, flag, current, services, sequence, events, thread, reader, hurried>>
    BY <1>10 DEF B!StopMark, B!Outside
  <2>2. stopper' \in StopStates /\ stopper'.at = "told"
    BY <1>0, <2>1 DEF StopStates
  <2>3. BrokerTypes'
    BY <1>0, <1>1, <2>1, <2>2
  <2>4. ThreadAlone'
    BY <1>0, <2>1, <2>2 DEF ThreadAlone, B!Alive
  <2> QED BY <1>7, <2>1, <2>3, <2>4
<1>11. CASE B!StopTell
  <2>1. /\ stopper.at = "told"
        /\ IF stopper.was THEN B!Emit([kind |-> "stopped"]) ELSE UNCHANGED <<sequence, events>>
        /\ stopper' = [at |-> "idle", of |-> "none", was |-> FALSE]
        /\ UNCHANGED <<world, budget, running, flag, current, services, thread, reader, hurried>>
    BY <1>11 DEF B!StopTell, B!Outside
  <2>2. stopper' \in StopStates /\ stopper'.at = "idle"
    BY <1>0, <2>1 DEF StopStates
  <2>3. B!Emit(EventOf("stopped")) \/ UNCHANGED <<sequence, events>>
    BY <2>1 DEF EventOf
  <2>4. HistoryIsLast' /\ (sequence' = sequence \/ sequence' = sequence + 1)
    BY <1>2, <1>3, <2>3
  <2>5. BrokerTypes'
    BY <1>0, <1>1, <2>1, <2>2, <2>4
  <2>6. ThreadAlone'
    BY <1>0, <2>1, <2>2 DEF ThreadAlone, B!Alive
  <2>7. SameReports
    BY <2>1 DEF SameReports
  <2>8. PageKnows'
    BY <1>0, <2>1, <2>3, <2>7, QuietStep
  <2> QED BY <1>0, <2>4, <2>5, <2>6, <2>7, <2>8, SameTodo DEF BrokerInv
<1>12. CASE B!Change
  <2>1. /\ budget > 0 /\ budget' = budget - 1 /\ world' \in B!State
        /\ UNCHANGED <<running, flag, current, services, sequence, events, thread, stopper, reader, hurried>>
    BY <1>12 DEF B!Change
  <2>2. budget' \in 0 .. MaxUpsets
    BY <1>0, <2>1
  <2>3. BrokerTypes'
    BY <1>0, <1>1, <2>1, <2>2
  <2>4. ThreadAlone'
    BY <1>0, <2>1 DEF ThreadAlone, B!Alive
  <2> QED BY <1>7, <2>1, <2>3, <2>4
<1>13. CASE B!Wait
  <2> DEFINE told == B!Replay(reader.told, B!After(reader.after))
             missed == reader.missed \/ Lag > MaxHistory
  <2>1. /\ sequence > 0 /\ ~hurried
        /\ reader' = [after |-> sequence, told |-> told, missed |-> missed]
        /\ UNCHANGED <<world, budget, running, flag, current, services, sequence, events,
                       thread, stopper, hurried>>
    BY <1>13 DEF B!Wait, Lag, B!Outside
  <2>2. HistoryIsLast'
    BY <1>2, <2>1
  <2>3. events \in Seq(B!Events) /\ Len(events) \in Nat /\ Len(events) <= sequence
    BY <1>0, LenProperties DEF HistoryIsLast
  <2>4. B!After(reader.after) \in Seq(B!Events)
    <3> DEFINE from == Len(events) - (sequence - reader.after) + 1
    <3>1. CASE sequence - reader.after >= Len(events)
      BY <2>3, <3>1 DEF B!After
    <3>2. CASE ~(sequence - reader.after >= Len(events))
      <4>1. B!After(reader.after) = SubSeq(events, from, Len(events))
        BY <3>2 DEF B!After
      <4>2. from \in Int /\ from >= 1
        BY <1>0, <2>3, <3>2
      <4>3. \A i \in from .. Len(events) : events[i] \in B!Events
        BY <2>3, <4>2, ElementOfSeq
      <4> QED BY <2>3, <4>1, <4>2, <4>3, SubSeqProperties
    <3> QED BY <3>1, <3>2
  <2>5. told \in B!State
    <3> DEFINE sent == B!After(reader.after)
    <3>1. \A i \in DOMAIN sent : sent[i] \in B!Events
      BY <2>4, LenProperties, ElementOfSeq
    <3> HIDE DEF sent
    <3>2. ASSUME NEW k \in Keys
          PROVE  LET last == {i \in DOMAIN sent : sent[i].kind = "item" /\ sent[i].key = k}
                 IN (IF last = {} THEN reader.told[k]
                     ELSE sent[CHOOSE i \in last : \A j \in last : j <= i].value) \in B!Item
      <4> DEFINE last == {i \in DOMAIN sent : sent[i].kind = "item" /\ sent[i].key = k}
      <4>1. CASE last = {}
        BY <1>0, <4>1 DEF B!State
      <4>2. CASE last # {}
        <5>0. sent = B!After(reader.after)
          BY DEF sent
        <5>1. sent \in Seq(B!Events) /\ DOMAIN sent = 1 .. Len(sent) /\ Len(sent) \in Nat
          BY <2>4, <5>0, LenProperties
        <5>2. PICK i \in last : \A j \in last : j <= i
          BY <4>2, <5>1, LastIsThere
        <5>3. (CHOOSE n \in last : \A j \in last : j <= n) \in last
          BY <5>2
        <5>4. \A n \in last : sent[n].value \in B!Item
          BY <3>1, EventKinds DEF About
        <5> QED BY <4>2, <5>3, <5>4
      <4> QED BY <4>1, <4>2
    <3>3. told = [k \in Keys |->
             LET last == {i \in DOMAIN sent : sent[i].kind = "item" /\ sent[i].key = k}
             IN IF last = {} THEN reader.told[k]
                ELSE sent[CHOOSE i \in last : \A j \in last : j <= i].value]
      BY DEF B!Replay, sent
    <3> QED BY <3>2, <3>3 DEF B!State
  <2>6. reader' \in [after : Int, told : B!State, missed : BOOLEAN] /\ reader'.after \in -1 .. sequence'
        /\ reader'.after = sequence /\ reader'.told = told /\ reader'.missed = missed
    <3> HIDE DEF told, missed
    <3>1. missed \in BOOLEAN
      BY <1>0 DEF missed
    <3> QED BY <1>0, <2>1, <2>5, <3>1
  <2>7. BrokerTypes'
    BY <1>0, <2>1, <2>6 DEF BrokerTypes, B!State, B!Item, ThreadStates, B!Events, StopStates
  <2>8. ThreadAlone'
    BY <1>0, <2>1 DEF ThreadAlone, B!Alive
  <2>9. SameReports
    BY <2>1 DEF SameReports
  <2>10. PageKnows'
    <3> SUFFICES ASSUME ~missed, NEW k \in Keys
                 PROVE  \E v \in B!Item :
                    /\ Says(events', Lag', reader'.told, k, v)
                    /\ (\A t \in Actors : ~(thread'[t].at = "report")) => v = services'[k]
                    /\ \A t \in Actors : thread'[t].at = "report" =>
                          v = thread'[t].seen[k]
                          \/ \E i \in 1 .. Len(thread'[t].todo) : About(thread'[t].todo[i], k)
      BY <2>6 DEF PageKnows, B!Busy, B!Item
    <3>1. Lag' = 0
      BY <1>0, <2>1, <2>6 DEF Lag
    <3>2. Lag <= MaxHistory /\ ~reader.missed /\ Lag \in Nat
      BY <1>0, LagIsSmall
    <3>3. PICK v \in B!Item :
             /\ Says(events, Lag, reader.told, k, v)
             /\ (\A t \in Actors : ~B!Busy(t)) => v = services[k]
             /\ \A t \in Actors : B!Busy(t) =>
                   v = thread[t].seen[k]
                   \/ \E i \in 1 .. Len(thread[t].todo) : About(thread[t].todo[i], k)
      BY <1>0, <2>1, <3>2 DEF PageKnows
    <3>4. Lag <= Len(events)
      BY <1>0, <3>2, LagIsSmall
    <3>5. B!After(reader.after) = IF Lag = Len(events) THEN events
                                  ELSE SubSeq(events, Len(events) - Lag + 1, Len(events))
      <4>1. CASE reader.after >= 0
        <5>1. sequence - reader.after = Lag
          BY <1>0, <4>1 DEF Lag
        <5>2. sequence - reader.after >= Len(events) <=> Lag = Len(events)
          BY <2>3, <3>2, <3>4, <5>1
        <5> QED BY <5>1, <5>2 DEF B!After
      <4>2. CASE reader.after < 0
        <5>1. Lag = sequence /\ reader.after = -1
          BY <1>0, <4>2 DEF Lag
        <5>2. Lag = Len(events) /\ sequence - reader.after >= Len(events)
          BY <1>0, <2>3, <3>4, <5>1
        <5> QED BY <5>2 DEF B!After
      <4> QED BY <1>0, <4>1, <4>2
    <3>6. reader.told \in B!State
      BY <1>0
    <3>7. told[k] = v
      BY <2>3, <3>2, <3>3, <3>4, <3>5, <3>6, ReplaySays
    <3> HIDE DEF told
    <3>8. \A n \in 0 .. Lag' - 1 : ~About(events'[Len(events') - n], k)
      BY <3>1
    <3>9. Says(events', Lag', reader'.told, k, v)
      BY <2>6, <3>7, <3>8, SaysOld
    <3> QED BY <2>1, <3>3, <3>9 DEF B!Busy
  <2> QED BY <1>0, <2>2, <2>7, <2>8, <2>9, <2>10, SameTodo DEF BrokerInv
\* A thread moves, and stays alive.
<1>14. ASSUME NEW t \in Actors, NEW s \in ThreadStates, thread' = [thread EXCEPT ![t] = s],
              B!Alive(t), s.at # "gone",
              UNCHANGED <<running, hurried, current, stopper>>
       PROVE  ThreadAlone'
  <2>1. \A u \in Actors : (thread'[u].at # "gone") <=> B!Alive(u)
    BY <1>0, <1>14 DEF B!Alive
  <2> QED BY <1>0, <1>14, <2>1 DEF ThreadAlone, B!Alive
\* A thread that reports is the only one that does.
<1>15. ASSUME NEW t \in Actors, B!Alive(t), ~hurried
       PROVE  \A u \in Actors \ {t} : ~B!Busy(u) /\ thread[u].at = "gone"
  BY <1>0, <1>15 DEF ThreadAlone, B!Alive, B!Busy
<1>16. ASSUME NEW t \in Actors, B!Discover(t) PROVE BrokerInv'
  <2>1. PICK todo \in B!Report(services, world) :
           thread' = [thread EXCEPT ![t] = [at |-> "report", seen |-> world, todo |-> todo]]
    BY <1>16 DEF B!Discover
  <2> DEFINE s == [at |-> "report", seen |-> world, todo |-> todo]
  <2>2. /\ thread[t].at = "head" /\ B!Alive(t)
        /\ UNCHANGED <<world, budget, running, flag, current, services, sequence, events,
                       stopper, reader, hurried>>
    BY <1>16 DEF B!Discover, B!Alive, B!Outside
  <2>3. /\ todo \in Seq(B!Events)
        /\ \A i \in 1 .. Len(todo) : todo[i].kind = "item" => todo[i].value = world[todo[i].key]
        /\ \A k \in Keys : services[k] # world[k] => \E i \in 1 .. Len(todo) : About(todo[i], k)
    BY <1>0, ReportTells
  <2>4. s \in ThreadStates /\ s.at = "report" /\ s.seen = world /\ s.todo = todo
    BY <1>0, <2>3 DEF ThreadStates
  <2> HIDE DEF s
  <2>5. /\ thread' \in [Actors -> ThreadStates] /\ thread'[t] = s
        /\ \A u \in Actors \ {t} : thread'[u] = thread[u]
    BY <1>0, <2>1, <2>4 DEF s
  <2>6. BrokerTypes' /\ HistoryIsLast'
    BY <1>0, <1>1, <1>2, <2>2, <2>5
  <2>7. ThreadAlone'
    BY <1>14, <2>1, <2>2, <2>4 DEF s
  <2>8. TodoIsSeen'
    BY <1>0, <2>3, <2>4, <2>5 DEF TodoIsSeen, B!Busy
  <2>9. PageKnows'
    <3> SUFFICES ASSUME ~hurried, ~reader.missed, Lag <= MaxHistory, NEW k \in Keys
                 PROVE  \E v \in B!Item :
                    /\ Says(events, Lag, reader.told, k, v)
                    /\ (\A u \in Actors : ~(thread'[u].at = "report")) => v = services[k]
                    /\ \A u \in Actors : thread'[u].at = "report" =>
                          v = thread'[u].seen[k]
                          \/ \E i \in 1 .. Len(thread'[u].todo) : About(thread'[u].todo[i], k)
      BY <2>2 DEF PageKnows, B!Busy, B!Item, Lag
    <3>1. \A u \in Actors : ~B!Busy(u)
      BY <1>15, <2>2 DEF B!Busy
    <3>2. PICK v \in B!Item : Says(events, Lag, reader.told, k, v) /\ v = services[k]
      BY <1>0, <3>1 DEF PageKnows
    <3>3. \A u \in Actors : thread'[u].at = "report" => u = t
      BY <2>5, <3>1 DEF B!Busy
    <3>4. v = s.seen[k] \/ \E i \in 1 .. Len(s.todo) : About(s.todo[i], k)
      BY <2>3, <2>4, <3>2
    <3> QED BY <2>4, <2>5, <3>2, <3>3, <3>4
  <2> QED BY <2>6, <2>7, <2>8, <2>9 DEF BrokerInv
\* A thread goes on without reporting.
<1>17. ASSUME NEW t \in Actors, NEW to \in {"head", "exit"}, thread[t].at \in {"head", "exit"},
              NEW s \in ThreadStates, s.at = to, thread' = [thread EXCEPT ![t] = s],
              BrokerTypes', HistoryIsLast',
              UNCHANGED <<running, hurried, current, services, stopper, reader>>,
              \/ UNCHANGED <<sequence, events>>
              \/ \E kind \in {"started", "stopped", "error"} : B!Emit(EventOf(kind))
       PROVE  BrokerInv'
  <2>1. SameReports
    BY <1>0, <1>17 DEF SameReports
  <2>2. ThreadAlone'
    BY <1>14, <1>17 DEF B!Alive
  <2>3. PageKnows'
    BY <1>0, <1>17, <2>1, QuietStep
  <2> QED BY <1>0, <1>17, <2>1, <2>2, <2>3, SameTodo DEF BrokerInv
<1>18. ASSUME NEW t \in Actors, B!DiscoverFails(t) PROVE BrokerInv'
  <2> DEFINE s == [B!Gone EXCEPT !.at = "head"]
  <2>1. /\ thread[t].at = "head" /\ budget > 0 /\ budget' = budget - 1
        /\ B!Emit([kind |-> "error"]) /\ thread' = [thread EXCEPT ![t] = s]
        /\ UNCHANGED <<world, running, flag, current, services, stopper, reader, hurried>>
    BY <1>18 DEF B!DiscoverFails
  <2>2. s \in ThreadStates /\ s.at = "head"
    BY <1>4
  <2> HIDE DEF s
  <2>3. B!Emit(EventOf("error"))
    BY <2>1 DEF EventOf
  <2>4. HistoryIsLast' /\ sequence' = sequence + 1
    BY <1>3, <2>3
  <2>5. thread' \in [Actors -> ThreadStates] /\ budget' \in 0 .. MaxUpsets
    BY <1>0, <2>1, <2>2
  <2>6. BrokerTypes'
    BY <1>0, <1>1, <2>1, <2>4, <2>5
  <2> QED BY <1>17, <2>1, <2>2, <2>3, <2>4, <2>6
<1>19. ASSUME NEW t \in Actors, B!Tell(t) PROVE BrokerInv'
  <2> DEFINE l == thread[t]
             e == Head(l.todo)
             rest == Tail(l.todo)
             s == [l EXCEPT !.todo = rest]
  <2>1. /\ l.at = "report" /\ l.todo # <<>> /\ B!Emit(e) /\ thread' = [thread EXCEPT ![t] = s]
        /\ UNCHANGED <<world, budget, running, flag, current, services, stopper, reader, hurried>>
    BY <1>19 DEF B!Tell, B!Outside
  <2>2. l \in ThreadStates /\ l.todo \in Seq(B!Events) /\ Len(l.todo) \in Nat
    BY <1>0, LenProperties DEF ThreadStates
  <2>3. /\ e \in B!Events /\ e = l.todo[1] /\ rest \in Seq(B!Events) /\ Len(rest) = Len(l.todo) - 1
        /\ \A i \in 1 .. Len(rest) : rest[i] = l.todo[i + 1]
        /\ Len(l.todo) > 0
    BY <2>1, <2>2, HeadTailProperties
  <2> HIDE DEF e, rest
  <2>4. s \in ThreadStates /\ s.at = "report" /\ s.seen = l.seen /\ s.todo = rest
    BY <2>1, <2>2, <2>3 DEF ThreadStates
  <2> HIDE DEF s
  <2>5. /\ thread' \in [Actors -> ThreadStates] /\ thread'[t] = s
        /\ \A u \in Actors \ {t} : thread'[u] = thread[u]
    BY <1>0, <2>1, <2>4
  <2>6. HistoryIsLast' /\ sequence' = sequence + 1
    BY <1>0, <2>1, <2>3, EmitKeeps
  <2>7. BrokerTypes'
    BY <1>0, <1>1, <2>1, <2>5, <2>6
  <2>8. B!Alive(t) /\ ThreadAlone'
    BY <1>14, <2>1, <2>4 DEF B!Alive
  <2>9. \A i \in 1 .. Len(l.todo) : l.todo[i].kind = "item" => l.todo[i].value = l.seen[l.todo[i].key]
    BY <1>0, <2>1 DEF TodoIsSeen, B!Busy
  <2>10. TodoIsSeen'
    <3> SUFFICES ASSUME NEW u \in Actors, thread'[u].at = "report", NEW i \in 1 .. Len(thread'[u].todo),
                        thread'[u].todo[i].kind = "item"
                 PROVE  thread'[u].todo[i].value = thread'[u].seen[thread'[u].todo[i].key]
      BY DEF TodoIsSeen, B!Busy
    <3>1. CASE u = t
      <4>1. i \in 1 .. Len(rest) /\ thread'[u].todo[i] = l.todo[i + 1] /\ i + 1 \in 1 .. Len(l.todo)
        BY <2>2, <2>3, <2>4, <2>5, <3>1
      <4> QED BY <2>4, <2>5, <2>9, <3>1, <4>1
    <3>2. CASE u # t
      BY <1>0, <2>5, <3>2 DEF TodoIsSeen, B!Busy
    <3> QED BY <3>1, <3>2
  <2>11. PageKnows'
    <3> SUFFICES ASSUME ~hurried, ~reader.missed, Lag' <= MaxHistory, NEW k \in Keys
                 PROVE  \E v \in B!Item :
                    /\ Says(events', Lag', reader'.told, k, v)
                    /\ (\A u \in Actors : ~(thread'[u].at = "report")) => v = services'[k]
                    /\ \A u \in Actors : thread'[u].at = "report" =>
                          v = thread'[u].seen[k]
                          \/ \E i \in 1 .. Len(thread'[u].todo) : About(thread'[u].todo[i], k)
      BY <2>1 DEF PageKnows, B!Busy, B!Item
    <3>1. Lag <= MaxHistory
      <4>1. Lag' = Lag + 1
        BY <1>0, <2>1, <2>6 DEF Lag
      <4> QED BY <1>0, <4>1, LagIsSmall
    <3>2. PICK v \in B!Item :
             /\ Says(events, Lag, reader.told, k, v)
             /\ v = l.seen[k] \/ \E i \in 1 .. Len(l.todo) : About(l.todo[i], k)
      BY <1>0, <2>1, <3>1 DEF PageKnows, B!Busy
    <3>3. \A u \in Actors : thread'[u].at = "report" => u = t
      BY <1>15, <2>5, <2>8 DEF B!Busy
    <3>4. thread'[t].at = "report" /\ thread'[t].seen = l.seen /\ thread'[t].todo = rest
      BY <2>4, <2>5
    <3> DEFINE w == IF About(e, k) THEN e.value ELSE v
    <3>5. Says(events', Lag', reader'.told, k, w)
      BY <1>0, <2>1, <2>3, <3>2, PageHears
    <3>6. w \in B!Item
      BY <2>3, <3>2, EventKinds
    <3>7. w = l.seen[k] \/ \E i \in 1 .. Len(rest) : About(rest[i], k)
      <4>1. CASE About(e, k)
        <5>1. 1 \in 1 .. Len(l.todo)
          BY <2>2, <2>3
        <5> QED BY <2>3, <2>9, <4>1, <5>1 DEF About
      <4>2. CASE ~About(e, k)
        <5>1. ASSUME NEW i \in 1 .. Len(l.todo), About(l.todo[i], k)
              PROVE  \E j \in 1 .. Len(rest) : About(rest[j], k)
          <6>1. i # 1
            BY <2>3, <4>2, <5>1
          <6>2. i - 1 \in 1 .. Len(rest) /\ (i - 1) + 1 = i
            BY <2>2, <2>3, <6>1
          <6> QED BY <2>3, <5>1, <6>2
        <5> QED BY <3>2, <4>2, <5>1
      <4> QED BY <4>1, <4>2
    <3> HIDE DEF w, l
    <3> QED BY <3>3, <3>4, <3>5, <3>6, <3>7
  <2> QED BY <2>6, <2>7, <2>8, <2>10, <2>11 DEF BrokerInv
<1>20. ASSUME NEW t \in Actors, B!Remember(t) PROVE BrokerInv'
  <2> DEFINE s == [B!Gone EXCEPT !.at = "head"]
  <2>1. /\ thread[t].at = "report" /\ thread[t].todo = <<>> /\ services' = thread[t].seen
        /\ thread' = [thread EXCEPT ![t] = s]
        /\ UNCHANGED <<world, budget, running, flag, current, sequence, events, stopper, reader, hurried>>
    BY <1>20 DEF B!Remember, B!Outside
  <2>2. s \in ThreadStates /\ s.at = "head"
    BY <1>4
  <2> HIDE DEF s
  <2>3. /\ thread' \in [Actors -> ThreadStates] /\ thread'[t] = s
        /\ \A u \in Actors \ {t} : thread'[u] = thread[u]
    BY <1>0, <2>1, <2>2
  <2>4. services' \in B!State
    BY <1>0, <2>1 DEF ThreadStates
  <2>5. BrokerTypes' /\ HistoryIsLast'
    BY <1>0, <1>1, <1>2, <2>1, <2>3, <2>4
  <2>6. B!Alive(t) /\ ThreadAlone'
    BY <1>14, <2>1, <2>2 DEF B!Alive
  <2>7. TodoIsSeen'
    BY <1>0, <2>2, <2>3 DEF TodoIsSeen, B!Busy
  <2>8. PageKnows'
    <3> SUFFICES ASSUME ~hurried, ~reader.missed, Lag <= MaxHistory, NEW k \in Keys
                 PROVE  \E v \in B!Item :
                    /\ Says(events, Lag, reader.told, k, v)
                    /\ (\A u \in Actors : ~(thread'[u].at = "report")) => v = services'[k]
                    /\ \A u \in Actors : thread'[u].at = "report" =>
                          v = thread'[u].seen[k]
                          \/ \E i \in 1 .. Len(thread'[u].todo) : About(thread'[u].todo[i], k)
      BY <2>1 DEF PageKnows, B!Busy, B!Item, Lag
    <3>1. PICK v \in B!Item :
             /\ Says(events, Lag, reader.told, k, v)
             /\ v = thread[t].seen[k] \/ \E i \in 1 .. Len(thread[t].todo) : About(thread[t].todo[i], k)
      BY <1>0, <2>1 DEF PageKnows, B!Busy
    <3>2. Len(thread[t].todo) = 0
      BY <2>1
    <3>3. v = services'[k]
      BY <2>1, <3>1, <3>2
    <3>4. \A u \in Actors : thread'[u].at # "report"
      BY <1>15, <2>2, <2>3, <2>6 DEF B!Busy
    <3> QED BY <3>1, <3>3, <3>4
  <2> QED BY <2>5, <2>6, <2>7, <2>8 DEF BrokerInv
<1>21. ASSUME NEW t \in Actors, B!LeaveLoop(t) PROVE BrokerInv'
  <2> DEFINE s == [thread[t] EXCEPT !.at = "exit"]
  <2>1. /\ thread[t].at = "head" /\ thread' = [thread EXCEPT ![t] = s]
        /\ UNCHANGED <<world, budget, running, flag, current, services, sequence, events,
                       stopper, reader, hurried>>
    BY <1>21 DEF B!LeaveLoop, B!Outside
  <2>2. s \in ThreadStates /\ s.at = "exit"
    BY <1>0 DEF ThreadStates
  <2> HIDE DEF s
  <2>3. thread' \in [Actors -> ThreadStates]
    BY <1>0, <2>1, <2>2
  <2>4. BrokerTypes' /\ HistoryIsLast'
    BY <1>0, <1>1, <1>2, <2>1, <2>3
  <2> QED BY <1>17, <2>1, <2>2, <2>4
<1>22. ASSUME NEW t \in Actors, B!Exit(t) PROVE BrokerInv'
  <2>1. /\ thread[t].at = "exit" /\ running' = FALSE /\ thread' = [thread EXCEPT ![t] = B!Gone]
        /\ UNCHANGED <<world, budget, flag, current, services, sequence, events, stopper, reader, hurried>>
    BY <1>22 DEF B!Exit, B!Outside
  <2>2. /\ thread' \in [Actors -> ThreadStates] /\ thread'[t].at = "gone"
        /\ \A u \in Actors \ {t} : thread'[u] = thread[u]
    BY <1>0, <1>5, <2>1
  <2>3. BrokerTypes' /\ HistoryIsLast'
    BY <1>0, <1>1, <1>2, <2>1, <2>2
  <2>4. SameReports
    BY <2>1, <2>2 DEF SameReports
  <2>5. ThreadAlone'
    <3> SUFFICES ASSUME ~hurried PROVE \A u \in Actors : thread'[u].at = "gone"
      BY <2>1 DEF ThreadAlone, B!Alive
    <3> QED BY <1>15, <2>1, <2>2 DEF B!Alive
  <2>6. PageKnows'
    BY <1>0, <2>1, <2>4, QuietStep
  <2> QED BY <1>0, <2>3, <2>4, <2>5, <2>6, SameTodo DEF BrokerInv
<1>23. CASE UNCHANGED B!vars
  <2>1. /\ UNCHANGED <<world, budget, running, flag, current, stopper, hurried>>
        /\ UNCHANGED <<sequence, events, thread, reader, services>>
    BY <1>23 DEF B!vars
  <2>2. BrokerTypes'
    BY <1>0, <1>1, <2>1
  <2>3. ThreadAlone'
    BY <1>0, <2>1 DEF ThreadAlone, B!Alive
  <2> QED BY <1>7, <2>1, <2>2, <2>3
<1> QED BY <1>6, <1>8, <1>9, <1>10, <1>11, <1>12, <1>13, <1>16, <1>18, <1>19, <1>20, <1>21, <1>22, <1>23
        DEF B!Next, B!Stop, B!Run

\* A page that was never too far behind and has read everything knows what the broker knows;
\* and unless a stop gave up waiting, or a start came during one, there is one thread and it
\* is marked running.
THEOREM BrokerTellsTrue ==
    B!Init /\ [][B!Next]_(B!vars) => 
        [](B!TypeOK /\ B!ReaderKnows /\ B!OneThreadUnlessHurried)
<1>1. B!Init => BrokerInv
  <2> SUFFICES ASSUME B!Init PROVE BrokerInv
    OBVIOUS
  <2>1. /\ world \in B!State /\ budget = MaxUpsets /\ running = FALSE /\ flag = FALSE /\ hurried = FALSE
        /\ current = "none" /\ services = B!Nothing /\ sequence = 0 /\ events = <<>>
        /\ thread = [t \in Actors |-> B!Gone]
        /\ stopper = [at |-> "idle", of |-> "none", was |-> FALSE]
        /\ reader = [after |-> -1, told |-> B!Nothing, missed |-> FALSE]
        /\ MaxUpsets \in Nat /\ MaxHistory \in Nat
    BY DevicesAssumption DEF B!Init, B!WirelessBrokerAssumption
  <2>2. B!Nothing \in B!State /\ \A k \in Keys : B!Nothing[k] \in B!Item
    BY DEF B!Nothing, B!State, B!Item
  <2>3. B!Gone \in ThreadStates /\ B!Gone.at = "gone"
    BY <2>2 DEF B!Gone, ThreadStates
  <2> HIDE DEF B!Gone, B!Nothing
  <2>4. BrokerTypes
    <3>1. thread \in [Actors -> ThreadStates]
      BY <2>1, <2>3
    <3>2. stopper \in StopStates
      BY <2>1 DEF StopStates
    <3>3. /\ reader \in [after : Int, told : B!State, missed : BOOLEAN]
          /\ reader.after \in -1 .. sequence
      BY <2>1, <2>2
    <3>4. budget \in 0 .. MaxUpsets /\ sequence \in Nat
      BY <2>1
    <3> QED BY <2>1, <2>2, <3>1, <3>2, <3>3, <3>4 DEF BrokerTypes
  <2>5. HistoryIsLast
    BY <2>1 DEF HistoryIsLast
  <2>6. \A t \in Actors : thread[t].at = "gone"
    BY <2>1, <2>3
  <2>7. ThreadAlone /\ TodoIsSeen
    BY <2>1, <2>6 DEF ThreadAlone, TodoIsSeen, B!Alive, B!Busy
  <2>8. PageKnows
    <3>1. Lag = 0
      BY <2>1 DEF Lag
    <3>2. ASSUME NEW k \in Keys PROVE Says(events, Lag, reader.told, k, services[k])
      <4>1. services[k] = reader.told[k] /\ \A n \in 0 .. Lag - 1 : ~About(events[Len(events) - n], k)
        BY <2>1, <3>1
      <4> QED BY <4>1, SaysOld
    <3> QED BY <2>1, <2>2, <2>6, <3>2 DEF PageKnows, B!Busy
  <2> QED BY <2>4, <2>5, <2>7, <2>8 DEF BrokerInv
<1>2. BrokerInv => B!ReaderKnows
  <2> SUFFICES ASSUME BrokerInv, reader.after = sequence, ~reader.missed, ~hurried,
                      \A t \in Actors : ~B!Busy(t)
               PROVE  reader.told = services
    BY DEF B!ReaderKnows
  <2>1. /\ sequence \in Nat /\ MaxHistory \in Nat /\ services \in B!State /\ reader.told \in B!State
    BY DevicesAssumption DEF BrokerInv, BrokerTypes, B!WirelessBrokerAssumption
  <2>2. Lag = 0
    BY <2>1 DEF Lag
  <2>3. ASSUME NEW k \in Keys PROVE reader.told[k] = services[k]
    <3>1. PICK v \in B!Item : Says(events, Lag, reader.told, k, v) /\ v = services[k]
      BY <2>1, <2>2 DEF BrokerInv, PageKnows
    <3> QED BY <2>2, <3>1 DEF Says
  <2> QED BY <2>1, <2>3 DEF B!State
<1>3. BrokerInv => B!OneThreadUnlessHurried
  <2> SUFFICES ASSUME BrokerInv PROVE B!OneThread /\ B!RunningTrue
    BY DEF B!OneThreadUnlessHurried
  <2>1. B!RunningTrue
    BY DEF BrokerInv, BrokerTypes, ThreadAlone, B!RunningTrue
  <2>2. B!OneThread
    <3> DEFINE L == {t \in Actors : B!Alive(t)}
    <3> SUFFICES ASSUME ~hurried PROVE ~(Cardinality(L) > 1)
      <4>1. B!Cardinality(L) = Cardinality(L)
        BY DEF B!Cardinality, Cardinality
      <4> QED BY <4>1 DEF B!OneThread
    <3>1. L \subseteq {current}
      BY DEF BrokerInv, ThreadAlone
    <3>2. IsFiniteSet({current}) /\ Cardinality({current}) = 1
      BY FS_Singleton
    <3>3. Cardinality(L) <= 1 /\ Cardinality(L) \in Nat
      BY <3>1, <3>2, FS_Subset, FS_CardinalityType
    <3> QED BY <3>3
  <2> QED BY <2>1, <2>2
<1>4. BrokerInv => B!TypeOK
  <2> SUFFICES ASSUME BrokerInv PROVE B!TypeOK
    OBVIOUS
  <2>1. ASSUME NEW t \in Actors
        PROVE  /\ thread[t].at \in {"gone", "head", "report", "exit"}
               /\ thread[t].seen \in B!State /\ thread[t].todo \in Seq(B!Events)
    <3>1. thread[t] \in ThreadStates
      BY DEF BrokerInv, BrokerTypes
    <3> HIDE DEF BrokerInv
    <3> QED BY <3>1 DEF ThreadStates
  <2>2. reader \in [after : -1 .. sequence, told : B!State, missed : BOOLEAN]
    BY DEF BrokerInv, BrokerTypes
  <2>3. stopper \in [at : {"idle", "join", "joined", "told"}, of : Actors \cup {"none"}, was : BOOLEAN]
    BY DEF BrokerInv, BrokerTypes, StopStates
  <2>4. events \in Seq(B!Events) /\ Len(events) <= MaxHistory
    BY DEF BrokerInv, HistoryIsLast
  <2> QED BY <2>1, <2>2, <2>3, <2>4 DEF BrokerInv, BrokerTypes, B!TypeOK
<1> QED BY <1>1, <1>2, <1>3, <1>4, BrokerStepInv, PTL

-----------------------------------------------------------------------------
(* Installing, deleting and pulling packages. *)

PackageFacts ==
    /\ P!Apk \subseteq LocalFiles /\ \A f \in P!Apk : Package[f] \in Packages
    /\ FileLists \subseteq Seq(LocalFiles) /\ PackageLists \subseteq Seq(Packages)
    /\ MaxBuilds \in Nat /\ MaxFaults \in Nat

LEMMA PackageConstants == PackageFacts
BY DevicesAssumption DEF P!PackageJobsAssumption, PackageFacts

Installations == [files : SUBSET P!Apk, build : 0 .. MaxBuilds]
PackagePaths == Packages \X P!Apk \X (0 .. MaxBuilds)
PackageCalls ==
    [op : {"none", "install", "uninstall", "set", "pull"},
     list : {<<>>} \cup FileLists \cup PackageLists, replace : BOOLEAN, next : Nat,
     paths : SUBSET PackagePaths, got : SUBSET PackagePaths, end : {"none", "ok", "raised"}]

PackageTypes ==
    /\ installed \in [Packages -> Installations] /\ call \in [Actors -> PackageCalls]
    /\ touched \in [Actors -> SUBSET Packages]
    /\ builds \in 0 .. MaxBuilds /\ faults \in 0 .. MaxFaults

\* A call has a list of its own kind and a place in it.
CallFits(r) ==
    /\ r.op \in {"install", "set"} => r.list \in FileLists
    /\ r.op \in {"uninstall", "pull"} => r.list \in PackageLists
    /\ r.op = "none" => r.list = <<>>
    /\ r.next \in 1 .. Len(r.list) + 1 /\ r.got \subseteq r.paths
    /\ r.end = "ok" /\ r.op \in {"install", "uninstall"} => r.next = Len(r.list) + 1
    /\ r.end = "none" /\ r.op \in {"install", "uninstall"} => r.next <= Len(r.list)
    /\ r.op = "set" /\ r.end = "none" => r.next = 1

\* What the loop over the files has installed: the last file of each package, unless
\* something else has changed the package since.
InstallTells(r, since, on) ==
    r.op = "install" => \A i \in 1 .. r.next - 1 :
       /\ r.list[i] \in P!Apk
       /\ \E j \in 1 .. r.next - 1 :
             /\ r.list[j] \in P!Apk /\ Package[r.list[j]] = Package[r.list[i]]
             /\ \A k \in 1 .. r.next - 1 : Package[r.list[k]] = Package[r.list[i]] => k <= j
             /\ Package[r.list[i]] \notin since => on[Package[r.list[i]]].files = {r.list[j]}

UninstallTells(r, since, on) ==
    r.op = "uninstall" =>
       \A i \in 1 .. r.next - 1 : r.list[i] \notin since => on[r.list[i]].files = {}

FilesOf(r) == {r.list[i] : i \in DOMAIN r.list} \cap P!Apk

SetTells(r, since, on) ==
    r.op = "set" /\ r.end = "ok" => \E p \in Packages :
       /\ \A f \in FilesOf(r) : Package[f] = p
       /\ p \notin since => on[p].files = FilesOf(r)

\* What is pulled is of the installation that is there, and all its paths are known.
PathsIn(on, p) == {<<p, f, on[p].build>> : f \in on[p].files}

PullTells(r, since, on) ==
    r.op = "pull" =>
       /\ r.next <= Len(r.list) => r.got = {} /\ r.end # "ok"
       /\ \A i \in 1 .. r.next - 1 : r.list[i] \notin since => PathsIn(on, r.list[i]) \subseteq r.paths
       /\ \A path \in r.got : path[1] \notin since => path \in PathsIn(on, path[1])
       /\ r.end = "ok" => r.got = r.paths

CallTells(r, since, on) ==
    /\ CallFits(r) /\ InstallTells(r, since, on) /\ UninstallTells(r, since, on)
    /\ SetTells(r, since, on) /\ PullTells(r, since, on)

PackageInv == PackageTypes /\ \A c \in Actors : CallTells(call[c], touched[c], installed)

\* What a list holds at its places.
LEMMA PackageItems ==
    ASSUME NEW r \in PackageCalls, CallFits(r)
    PROVE  /\ Len(r.list) \in Nat /\ r.next \in Nat /\ DOMAIN r.list = 1 .. Len(r.list)
           /\ \A i \in 1 .. r.next - 1 : i \in 1 .. Len(r.list)
           /\ r.op \in {"uninstall", "pull"} => \A i \in 1 .. Len(r.list) : r.list[i] \in Packages
<1>1. r.list \in {<<>>} \cup FileLists \cup PackageLists /\ r.next \in Nat
  BY DEF PackageCalls
<1>2. r.list \in Seq(LocalFiles) \/ r.list \in Seq(Packages)
  <2>1. <<>> \in Seq(LocalFiles)
    OBVIOUS
  <2> QED BY <1>1, <2>1, PackageConstants DEF PackageFacts
<1>3. Len(r.list) \in Nat /\ DOMAIN r.list = 1 .. Len(r.list)
  BY <1>2
<1>4. \A i \in 1 .. r.next - 1 : i \in 1 .. Len(r.list)
  BY <1>1, <1>3 DEF CallFits
<1>5. r.op \in {"uninstall", "pull"} => r.list \in Seq(Packages)
  BY PackageConstants DEF CallFits, PackageFacts
<1> QED BY <1>1, <1>3, <1>4, <1>5

\* What others do to packages, they mark.
LEMMA StillTells ==
    ASSUME NEW r \in PackageCalls, NEW before, NEW after, NEW old, NEW new, CallTells(r, before, old),
           \A p \in Packages : p \notin after => p \notin before /\ new[p] = old[p]
    PROVE  CallTells(r, after, new)
<1>1. CallFits(r)
  BY DEF CallTells
<1>2. InstallTells(r, after, new)
  <2> SUFFICES ASSUME r.op = "install", NEW i \in 1 .. r.next - 1
               PROVE  /\ r.list[i] \in P!Apk
                      /\ \E j \in 1 .. r.next - 1 :
                            /\ r.list[j] \in P!Apk /\ Package[r.list[j]] = Package[r.list[i]]
                            /\ \A k \in 1 .. r.next - 1 :
                                  Package[r.list[k]] = Package[r.list[i]] => k <= j
                            /\ Package[r.list[i]] \notin after =>
                                  new[Package[r.list[i]]].files = {r.list[j]}
    BY DEF InstallTells
  <2>1. r.list[i] \in P!Apk /\ InstallTells(r, before, old)
    BY DEF CallTells, InstallTells
  <2>2. PICK j \in 1 .. r.next - 1 :
           /\ r.list[j] \in P!Apk /\ Package[r.list[j]] = Package[r.list[i]]
           /\ \A k \in 1 .. r.next - 1 : Package[r.list[k]] = Package[r.list[i]] => k <= j
           /\ Package[r.list[i]] \notin before => old[Package[r.list[i]]].files = {r.list[j]}
    BY <2>1 DEF InstallTells
  <2>3. Package[r.list[i]] \in Packages
    BY <2>1, PackageConstants DEF PackageFacts
  <2> QED BY <2>1, <2>2, <2>3
<1>3. UninstallTells(r, after, new)
  BY <1>1, PackageItems DEF CallTells, UninstallTells
<1>4. SetTells(r, after, new)
  BY DEF CallTells, SetTells
<1>5. PullTells(r, after, new)
  <2> SUFFICES ASSUME r.op = "pull" PROVE PullTells(r, after, new)
    BY DEF PullTells
  <2>1. ASSUME NEW i \in 1 .. r.next - 1, r.list[i] \notin after
        PROVE  PathsIn(new, r.list[i]) \subseteq r.paths
    <3>1. r.list[i] \in Packages
      BY <1>1, PackageItems
    <3>2. r.list[i] \notin before /\ new[r.list[i]] = old[r.list[i]]
      BY <2>1, <3>1
    <3>3. PathsIn(new, r.list[i]) = PathsIn(old, r.list[i])
      BY <3>2 DEF PathsIn
    <3> QED BY <3>2, <3>3 DEF CallTells, PullTells
  <2>2. ASSUME NEW path \in r.got, path[1] \notin after PROVE path \in PathsIn(new, path[1])
    <3>1. path[1] \in Packages
      BY DEF PackageCalls, PackagePaths
    <3>2. path[1] \notin before /\ new[path[1]] = old[path[1]]
      BY <2>2, <3>1
    <3>3. PathsIn(new, path[1]) = PathsIn(old, path[1])
      BY <3>2 DEF PathsIn
    <3> QED BY <3>2, <3>3 DEF CallTells, PullTells
  <2> QED BY <2>1, <2>2 DEF CallTells, PullTells
<1> QED BY <1>1, <1>2, <1>3, <1>4, <1>5 DEF CallTells

\* One call goes on; the packages that are not marked are as they were.
LEMMA PackageMoves ==
    ASSUME PackageInv, NEW c \in Actors, NEW r \in PackageCalls, call' = [call EXCEPT ![c] = r],
           CallTells(r, touched'[c], installed'),
           installed' \in [Packages -> Installations], touched' \in [Actors -> SUBSET Packages],
           builds' \in 0 .. MaxBuilds, faults' \in 0 .. MaxFaults,
           \A d \in Actors \ {c}, p \in Packages :
              p \notin touched'[d] => p \notin touched[d] /\ installed'[p] = installed[p]
    PROVE  PackageInv'
<1>1. /\ call' \in [Actors -> PackageCalls] /\ call'[c] = r
      /\ \A d \in Actors \ {c} : call'[d] = call[d] /\ call[d] \in PackageCalls
  BY DEF PackageInv, PackageTypes
<1>2. ASSUME NEW d \in Actors PROVE CallTells(call'[d], touched'[d], installed')
  <2>1. CASE d = c
    BY <1>1, <2>1
  <2>2. CASE d # c
    <3>1. CallTells(call[d], touched[d], installed)
      BY DEF PackageInv
    <3>2. CallTells(call[d], touched'[d], installed')
      BY <1>1, <2>2, <3>1, StillTells
    <3> QED BY <1>1, <2>2, <3>2
  <2> QED BY <2>1, <2>2
<1>3. PackageTypes'
  BY <1>1 DEF PackageTypes
<1> QED BY <1>2, <1>3 DEF PackageInv

\* What a command that is done does.
LEMMA PackageDone ==
    ASSUME PackageTypes, NEW p \in Packages, NEW pack \in SUBSET P!Apk, NEW others \in SUBSET Actors,
           P!Does(p, pack, others)
    PROVE  /\ installed' \in [Packages -> Installations] /\ installed'[p].files = pack
           /\ touched' \in [Actors -> SUBSET Packages] /\ builds' \in 0 .. MaxBuilds
           /\ \A q \in Packages \ {p} : installed'[q] = installed[q]
           /\ \A d \in others : touched'[d] = touched[d] \cup {p}
           /\ \A d \in Actors \ others : touched'[d] = touched[d] \ {p}
<1>0. MaxBuilds \in Nat
  BY PackageConstants DEF PackageFacts
<1>1. builds' \in 0 .. MaxBuilds
  BY <1>0 DEF P!Does, PackageTypes
<1>2. PICK new \in Installations :
         new.files = pack /\ installed' = [installed EXCEPT ![p] = new]
  <2>1. CASE pack = {}
    <3>1. P!Gone \in Installations /\ P!Gone.files = {}
      BY <1>0 DEF P!Gone, Installations
    <3> QED BY <2>1, <3>1 DEF P!Does
  <2>2. CASE pack # {}
    <3>1. builds + 1 \in 0 .. MaxBuilds
      BY <1>0, <2>2 DEF P!Does, PackageTypes
    <3>2. [files |-> pack, build |-> builds + 1] \in Installations
      BY <3>1 DEF Installations
    <3> QED BY <2>2, <3>2 DEF P!Does
  <2> QED BY <2>1, <2>2
<1>3. /\ touched' \in [Actors -> SUBSET Packages]
      /\ \A d \in others : touched'[d] = touched[d] \cup {p}
      /\ \A d \in Actors \ others : touched'[d] = touched[d] \ {p}
  BY DEF P!Does, PackageTypes
<1> QED BY <1>1, <1>2, <1>3 DEF PackageTypes


\* A call ends with an exception, whatever its command has done.
LEMMA PackageRaises ==
    ASSUME PackageInv, NEW c \in Actors, P!End(c, "raised"),
           installed' \in [Packages -> Installations], touched' \in [Actors -> SUBSET Packages],
           builds' \in 0 .. MaxBuilds, faults' \in 0 .. MaxFaults,
           \A d \in Actors, p \in Packages :
              p \notin touched'[d] => p \notin touched[d] /\ installed'[p] = installed[p]
    PROVE  PackageInv'
<1> DEFINE r == [call[c] EXCEPT !.end = "raised"]
<1>0. call[c] \in PackageCalls /\ CallTells(call[c], touched[c], installed)
  BY DEF PackageInv, PackageTypes
<1>1. /\ r \in PackageCalls /\ r.op = call[c].op /\ r.list = call[c].list /\ r.next = call[c].next
      /\ r.paths = call[c].paths /\ r.got = call[c].got /\ r.end = "raised"
  BY <1>0 DEF PackageCalls
<1>2. call' = [call EXCEPT ![c] = r]
  BY DEF P!End
<1> HIDE DEF r
<1>3. CallTells(r, touched[c], installed)
  <2>1. CallFits(r)
    BY <1>0, <1>1 DEF CallTells, CallFits
  <2>2. InstallTells(r, touched[c], installed)
    BY <1>0, <1>1 DEF CallTells, InstallTells
  <2>3. UninstallTells(r, touched[c], installed) /\ SetTells(r, touched[c], installed)
    BY <1>0, <1>1 DEF CallTells, UninstallTells, SetTells
  <2>4. PullTells(r, touched[c], installed)
    BY <1>0, <1>1 DEF CallTells, PullTells
  <2> QED BY <2>1, <2>2, <2>3, <2>4 DEF CallTells
<1>4. CallTells(r, touched'[c], installed')
  BY <1>1, <1>3, StillTells
<1> QED BY <1>1, <1>2, <1>4, PackageMoves

\* A command that fails, or is late, done or not.
LEMMA CommandRaises ==
    ASSUME PackageInv, NEW c \in Actors, NEW p \in Packages, NEW pack \in SUBSET P!Apk,
           P!End(c, "raised"), UNCHANGED faults \/ P!Fault,
           P!DoesNothing \/ P!Does(p, pack, Actors)
    PROVE  PackageInv'
<1>0. PackageTypes /\ MaxFaults \in Nat
  BY PackageConstants DEF PackageInv, PackageFacts
<1>1. faults' \in 0 .. MaxFaults
  BY <1>0 DEF P!Fault, PackageTypes
<1>2. CASE P!DoesNothing
  BY <1>0, <1>1, <1>2, PackageRaises DEF P!DoesNothing, PackageTypes
<1>3. CASE P!Does(p, pack, Actors)
  <2>1. /\ installed' \in [Packages -> Installations] /\ touched' \in [Actors -> SUBSET Packages]
        /\ builds' \in 0 .. MaxBuilds /\ \A q \in Packages \ {p} : installed'[q] = installed[q]
        /\ \A d \in Actors : touched'[d] = touched[d] \cup {p}
    BY <1>0, <1>3, PackageDone
  <2> QED BY <1>1, <2>1, PackageRaises
<1> QED BY <1>2, <1>3

\* The next turn of a loop, or the answer.
LEMMA PackageTurn ==
    ASSUME PackageInv, NEW c \in Actors, P!At(c, {"install", "uninstall"}), P!Turn(c)
    PROVE  \E r \in PackageCalls :
              /\ call' = [call EXCEPT ![c] = r] /\ CallFits(r)
              /\ r.op = call[c].op /\ r.list = call[c].list /\ r.next = call[c].next + 1
              /\ call[c].next \in 1 .. Len(call[c].list) /\ Len(call[c].list) \in Nat
<1> DEFINE end == IF call[c].next = Len(call[c].list) THEN "ok" ELSE call[c].end
           r == [call[c] EXCEPT !.next = call[c].next + 1, !.end = end]
<1>0. call[c] \in PackageCalls /\ CallFits(call[c]) /\ call[c].end = "none"
      /\ call[c].op \in {"install", "uninstall"}
  BY DEF PackageInv, PackageTypes, CallTells, P!At
<1>1. /\ call[c].next \in Nat /\ Len(call[c].list) \in Nat
      /\ call[c].next \in 1 .. Len(call[c].list)
  BY <1>0, PackageItems DEF CallFits
<1>2. call[c].next + 1 \in Nat /\ end \in {"none", "ok"}
  BY <1>0, <1>1
<1>3. /\ r \in PackageCalls /\ r.op = call[c].op /\ r.list = call[c].list
      /\ r.next = call[c].next + 1 /\ r.end = end /\ r.got = call[c].got /\ r.paths = call[c].paths
  BY <1>0, <1>2 DEF PackageCalls
<1>4. call' = [call EXCEPT ![c] = r]
  BY DEF P!Turn
<1>5. end = "ok" <=> call[c].next = Len(call[c].list)
  BY <1>0
<1> HIDE DEF r, end
<1>6. r.next \in 1 .. Len(r.list) + 1
  BY <1>1, <1>3
<1>7. r.end = "ok" => r.next = Len(r.list) + 1
  BY <1>1, <1>3, <1>5
<1>8. r.end = "none" => r.next <= Len(r.list)
  BY <1>1, <1>2, <1>3, <1>5
<1>9. CallFits(r)
  BY <1>0, <1>3, <1>6, <1>7, <1>8 DEF CallFits
<1> QED BY <1>1, <1>3, <1>4, <1>9

LEMMA InstallInv == ASSUME PackageInv, NEW c \in Actors, P!Install(c) PROVE PackageInv'
<1> DEFINE f == P!Item(c)
<1>0. PackageTypes /\ CallTells(call[c], touched[c], installed)
  BY DEF PackageInv
<1>1. CASE f \notin P!Apk
  <2>1. P!End(c, "raised") /\ UNCHANGED <<installed, touched, builds, faults>>
    BY <1>1 DEF P!Install
  <2> QED BY <1>0, <2>1, PackageRaises DEF PackageTypes
<1>2. CASE f \in P!Apk
  <2>1. P!At(c, {"install"}) /\ Package[f] \in Packages /\ {f} \in SUBSET P!Apk
    BY <1>2, PackageConstants DEF P!Install, PackageFacts
  <2>2. P!Command(c, Package[f], {f}, P!Accepted(Package[f], {f}, call[c].replace))
    BY <1>2 DEF P!Install
  <2>3. CASE /\ P!End(c, "raised") /\ ((UNCHANGED faults) \/ P!Fault)
             /\ P!DoesNothing \/ P!Does(Package[f], {f}, Actors)
    <3>1. PICK p \in Packages, pack \in SUBSET P!Apk : p = Package[f] /\ pack = {f}
      BY <2>1
    <3> QED BY <2>3, <3>1, CommandRaises
  <2>4. CASE P!Does(Package[f], {f}, Actors \ {c}) /\ P!Turn(c) /\ UNCHANGED faults
    <3>1. P!At(c, {"install", "uninstall"}) /\ call[c].op = "install"
      BY <2>1 DEF P!At
    <3>2. PICK r \in PackageCalls :
              /\ call' = [call EXCEPT ![c] = r] /\ CallFits(r)
              /\ r.op = call[c].op /\ r.list = call[c].list /\ r.next = call[c].next + 1
              /\ call[c].next \in 1 .. Len(call[c].list) /\ Len(call[c].list) \in Nat
      BY <2>4, <3>1, PackageTurn
    <3>3. PICK p \in Packages, pack \in SUBSET P!Apk : p = Package[f] /\ pack = {f}
      BY <2>1
    <3>33. PICK others \in SUBSET Actors : others = Actors \ {c} /\ P!Does(p, pack, others)
      BY <2>4, <3>3
    <3>4. /\ installed' \in [Packages -> Installations] /\ installed'[p].files = pack
          /\ touched' \in [Actors -> SUBSET Packages] /\ builds' \in 0 .. MaxBuilds
          /\ \A q \in Packages \ {p} : installed'[q] = installed[q]
          /\ \A d \in others : touched'[d] = touched[d] \cup {p}
          /\ \A d \in Actors \ others : touched'[d] = touched[d] \ {p}
      BY <1>0, <3>33, PackageDone
    <3>5. touched'[c] = touched[c] \ {p}
      BY <3>33, <3>4
    <3>6. r.list[call[c].next] = f
      BY <3>2 DEF P!Item
    <3> HIDE DEF f
    <3>7. InstallTells(r, touched'[c], installed')
      <4> SUFFICES ASSUME NEW i \in 1 .. r.next - 1
                   PROVE  /\ r.list[i] \in P!Apk
                          /\ \E j \in 1 .. r.next - 1 :
                                /\ r.list[j] \in P!Apk /\ Package[r.list[j]] = Package[r.list[i]]
                                /\ \A k \in 1 .. r.next - 1 :
                                      Package[r.list[k]] = Package[r.list[i]] => k <= j
                                /\ Package[r.list[i]] \notin touched'[c] =>
                                      installed'[Package[r.list[i]]].files = {r.list[j]}
        BY DEF InstallTells
      <4>1. /\ call[c].next \in 1 .. r.next - 1
            /\ \A k \in 1 .. r.next - 1 : k <= call[c].next
            /\ \A k \in 1 .. r.next - 1 : k \in 1 .. call[c].next - 1 \/ k = call[c].next
            /\ \A k \in 1 .. call[c].next - 1 : k \in 1 .. r.next - 1
        BY <3>2
      <4>2. ASSUME NEW k \in 1 .. call[c].next - 1 PROVE r.list[k] \in P!Apk
        BY <1>0, <3>1, <3>2, <4>2 DEF CallTells, InstallTells
      <4>3. r.list[i] \in P!Apk
        BY <1>2, <3>6, <4>1, <4>2 DEF f
      <4>4. CASE Package[r.list[i]] = p
        <5>1. installed'[Package[r.list[i]]].files = {r.list[call[c].next]}
          BY <3>3, <3>4, <3>6, <4>4
        <5> QED BY <1>2, <3>3, <3>6, <4>1, <4>3, <4>4, <5>1 DEF f
      <4>5. CASE Package[r.list[i]] # p
        <5>1. i \in 1 .. call[c].next - 1
          BY <3>3, <3>6, <4>1, <4>5
        <5>2. PICK j \in 1 .. call[c].next - 1 :
                 /\ r.list[j] \in P!Apk /\ Package[r.list[j]] = Package[r.list[i]]
                 /\ \A k \in 1 .. call[c].next - 1 :
                       Package[r.list[k]] = Package[r.list[i]] => k <= j
                 /\ Package[r.list[i]] \notin touched[c] =>
                       installed[Package[r.list[i]]].files = {r.list[j]}
          <6>1. InstallTells(call[c], touched[c], installed)
            BY <1>0 DEF CallTells
          <6>2. \E j \in 1 .. call[c].next - 1 :
                   /\ call[c].list[j] \in P!Apk /\ Package[call[c].list[j]] = Package[call[c].list[i]]
                   /\ \A k \in 1 .. call[c].next - 1 :
                         Package[call[c].list[k]] = Package[call[c].list[i]] => k <= j
                   /\ Package[call[c].list[i]] \notin touched[c] =>
                         installed[Package[call[c].list[i]]].files = {call[c].list[j]}
            BY <3>1, <5>1, <6>1 DEF InstallTells
          <6> QED BY <3>2, <6>2
        <5>3. \A k \in 1 .. r.next - 1 : Package[r.list[k]] = Package[r.list[i]] => k <= j
          BY <3>3, <3>6, <4>1, <4>5, <5>2
        <5>4. Package[r.list[i]] \in Packages
          BY <4>3, PackageConstants DEF PackageFacts
        <5>5. Package[r.list[i]] \notin touched'[c] =>
                       installed'[Package[r.list[i]]].files = {r.list[j]}
          BY <3>4, <3>5, <4>5, <5>2, <5>4
        <5> QED BY <4>1, <4>3, <5>2, <5>3, <5>5
      <4> QED BY <4>4, <4>5
    <3>8. CallTells(r, touched'[c], installed')
      BY <3>1, <3>2, <3>7 DEF CallTells, UninstallTells, SetTells, PullTells
    <3>9. faults' \in 0 .. MaxFaults
      BY <1>0, <2>4 DEF PackageTypes
    <3>10. \A d \in Actors \ {c}, q \in Packages :
              q \notin touched'[d] => q \notin touched[d] /\ installed'[q] = installed[q]
      BY <3>33, <3>4
    <3> QED BY <3>2, <3>4, <3>8, <3>9, <3>10, PackageMoves
  <2> QED BY <2>2, <2>3, <2>4 DEF P!Command, P!Fails
<1> QED BY <1>1, <1>2

LEMMA UninstallInv == ASSUME PackageInv, NEW c \in Actors, P!Uninstall(c) PROVE PackageInv'
<1>0. /\ PackageTypes /\ CallTells(call[c], touched[c], installed) /\ call[c] \in PackageCalls
      /\ CallFits(call[c]) /\ call[c].op = "uninstall" /\ call[c].end = "none"
  BY DEF PackageInv, PackageTypes, CallTells, P!Uninstall, P!At
<1>1. call[c].next \in 1 .. Len(call[c].list)
  BY <1>0, PackageItems DEF CallFits
<1>2. PICK p \in Packages : p = call[c].list[call[c].next]
  BY <1>0, <1>1, PackageItems
<1>3. P!Command(c, p, {}, P!Accepted(p, {}, FALSE))
  BY <1>2 DEF P!Uninstall, P!Item
<1>4. CASE /\ P!End(c, "raised") /\ ((UNCHANGED faults) \/ P!Fault)
           /\ P!DoesNothing \/ P!Does(p, {}, Actors)
  <2>1. {} \in SUBSET P!Apk
    OBVIOUS
  <2> QED BY <1>4, <2>1, CommandRaises
<1>5. CASE P!Does(p, {}, Actors \ {c}) /\ P!Turn(c) /\ UNCHANGED faults
  <2>1. P!At(c, {"install", "uninstall"})
    BY <1>0 DEF P!At
  <2>2. PICK r \in PackageCalls :
            /\ call' = [call EXCEPT ![c] = r] /\ CallFits(r)
            /\ r.op = call[c].op /\ r.list = call[c].list /\ r.next = call[c].next + 1
            /\ call[c].next \in 1 .. Len(call[c].list) /\ Len(call[c].list) \in Nat
    BY <1>5, <2>1, PackageTurn
  <2>3. /\ installed' \in [Packages -> Installations] /\ installed'[p].files = {}
        /\ touched' \in [Actors -> SUBSET Packages] /\ builds' \in 0 .. MaxBuilds
        /\ \A q \in Packages \ {p} : installed'[q] = installed[q]
        /\ \A d \in Actors \ {c} : touched'[d] = touched[d] \cup {p}
        /\ \A d \in Actors \ (Actors \ {c}) : touched'[d] = touched[d] \ {p}
    BY <1>0, <1>5, PackageDone
  <2>4. touched'[c] = touched[c] \ {p}
    BY <2>3
  <2>5. ASSUME NEW i \in 1 .. r.next - 1, r.list[i] \notin touched'[c]
        PROVE  installed'[r.list[i]].files = {}
    <3>1. i \in 1 .. call[c].next - 1 \/ i = call[c].next
      BY <2>2
    <3>2. CASE r.list[i] = p
      BY <2>3, <3>2
    <3>3. CASE r.list[i] # p /\ i \in 1 .. call[c].next - 1
      <4>1. r.list[i] \in Packages /\ r.list[i] \notin touched[c]
        BY <1>0, <2>2, <2>4, <2>5, <3>3, PackageItems
      <4>2. installed[r.list[i]].files = {}
        BY <1>0, <2>2, <3>3, <4>1 DEF CallTells, UninstallTells
      <4> QED BY <2>3, <3>3, <4>1, <4>2
    <3> QED BY <1>2, <2>2, <3>1, <3>2, <3>3
  <2>6. CallTells(r, touched'[c], installed')
    BY <1>0, <2>2, <2>5 DEF CallTells, InstallTells, UninstallTells, SetTells, PullTells
  <2>7. faults' \in 0 .. MaxFaults
    BY <1>0, <1>5 DEF PackageTypes
  <2>8. \A d \in Actors \ {c}, q \in Packages :
              q \notin touched'[d] => q \notin touched[d] /\ installed'[q] = installed[q]
    BY <2>3
  <2> QED BY <2>2, <2>3, <2>6, <2>7, <2>8, PackageMoves
<1> QED BY <1>3, <1>4, <1>5 DEF P!Command, P!Fails


LEMMA InstallSetInv == ASSUME PackageInv, NEW c \in Actors, P!InstallSet(c) PROVE PackageInv'
<1>0. /\ PackageTypes /\ CallTells(call[c], touched[c], installed) /\ call[c] \in PackageCalls
      /\ CallFits(call[c]) /\ call[c].op = "set" /\ call[c].end = "none" /\ call[c].next = 1
  BY DEF PackageInv, PackageTypes, CallTells, P!InstallSet, P!At
<1>1. PICK pack \in SUBSET P!Apk : pack = P!Discovered(c)
  BY DEF P!Discovered
<1>2. pack = FilesOf(call[c])
  BY <1>1 DEF P!Discovered, P!ToSet, FilesOf
<1>3. CASE ~(pack # {} /\ P!OneApp(pack))
  <2>1. P!End(c, "raised") /\ UNCHANGED <<installed, touched, builds, faults>>
    BY <1>1, <1>3 DEF P!InstallSet
  <2> QED BY <1>0, <2>1, PackageRaises DEF PackageTypes
<1>4. CASE pack # {} /\ P!OneApp(pack)
  <2>1. PICK p \in Packages : \A f \in pack : Package[f] = p
    BY <1>4 DEF P!OneApp
  <2>2. Package[CHOOSE f \in pack : TRUE] = p
    BY <1>4, <2>1
  <2>3. \/ /\ P!End(c, "raised") /\ ((UNCHANGED faults) \/ P!Fault)
           /\ P!DoesNothing \/ P!Does(p, pack, Actors)
        \/ P!Does(p, pack, Actors \ {c}) /\ P!End(c, "ok") /\ UNCHANGED faults
    BY <1>1, <1>4, <2>2 DEF P!InstallSet
  <2>4. CASE /\ P!End(c, "raised") /\ ((UNCHANGED faults) \/ P!Fault)
             /\ P!DoesNothing \/ P!Does(p, pack, Actors)
    BY <2>4, CommandRaises
  <2>5. CASE P!Does(p, pack, Actors \ {c}) /\ P!End(c, "ok") /\ UNCHANGED faults
    <3>1. PICK others \in SUBSET Actors : others = Actors \ {c} /\ P!Does(p, pack, others)
      BY <2>5
    <3>2. /\ installed' \in [Packages -> Installations] /\ installed'[p].files = pack
          /\ touched' \in [Actors -> SUBSET Packages] /\ builds' \in 0 .. MaxBuilds
          /\ \A q \in Packages \ {p} : installed'[q] = installed[q]
          /\ \A d \in others : touched'[d] = touched[d] \cup {p}
          /\ \A d \in Actors \ others : touched'[d] = touched[d] \ {p}
      <4>1. P!Does(p, pack, others)
        BY <3>1
      <4> QED BY <1>0, <4>1, PackageDone
    <3> DEFINE r == [call[c] EXCEPT !.end = "ok"]
    <3>3. /\ r \in PackageCalls /\ r.op = call[c].op /\ r.list = call[c].list /\ r.next = call[c].next
          /\ r.paths = call[c].paths /\ r.got = call[c].got /\ r.end = "ok"
      BY <1>0 DEF PackageCalls
    <3>4. call' = [call EXCEPT ![c] = r]
      BY <2>5 DEF P!End
    <3> HIDE DEF r
    <3>5. FilesOf(r) = pack
      BY <1>2, <3>3 DEF FilesOf
    <3>6. SetTells(r, touched'[c], installed')
      BY <2>1, <3>2, <3>5 DEF SetTells
    <3>7. CallFits(r)
      BY <1>0, <3>3 DEF CallFits
    <3>8. CallTells(r, touched'[c], installed')
      BY <1>0, <3>3, <3>6, <3>7 DEF CallTells, InstallTells, UninstallTells, PullTells
    <3>9. faults' \in 0 .. MaxFaults
      BY <1>0, <2>5 DEF PackageTypes
    <3>10. \A d \in Actors \ {c}, q \in Packages :
              q \notin touched'[d] => q \notin touched[d] /\ installed'[q] = installed[q]
      BY <3>1, <3>2
    <3> QED BY <3>2, <3>3, <3>4, <3>8, <3>9, <3>10, PackageMoves
  <2> QED BY <2>3, <2>4, <2>5
<1> QED BY <1>3, <1>4

LEMMA ResolveInv == ASSUME PackageInv, NEW c \in Actors, P!Resolve(c) PROVE PackageInv'
<1>0. /\ PackageTypes /\ CallTells(call[c], touched[c], installed) /\ call[c] \in PackageCalls
      /\ CallFits(call[c]) /\ call[c].op = "pull" /\ call[c].end = "none"
      /\ call[c].next <= Len(call[c].list) /\ UNCHANGED <<installed, builds>>
  BY DEF PackageInv, PackageTypes, CallTells, P!Resolve, P!At
<1>1. /\ call[c].next \in Nat /\ Len(call[c].list) \in Nat /\ call[c].next \in 1 .. Len(call[c].list)
      /\ MaxFaults \in Nat
  BY <1>0, PackageItems, PackageConstants DEF CallFits, PackageFacts
<1>2. PICK p \in Packages : p = call[c].list[call[c].next]
  BY <1>0, <1>1, PackageItems
<1>3. CASE P!End(c, "raised") /\ UNCHANGED touched
  <2>1. faults' \in 0 .. MaxFaults
    BY <1>0, <1>1 DEF P!Resolve, P!Fault, PackageTypes
  <2> QED BY <1>0, <1>3, <2>1, PackageRaises DEF PackageTypes
<1>4. CASE /\ call' = [call EXCEPT ![c].next = @ + 1, ![c].paths = @ \cup P!PathsOf(p)]
           /\ touched' = [touched EXCEPT ![c] = @ \ {p}] /\ UNCHANGED faults
  <2> DEFINE r == [call[c] EXCEPT !.next = call[c].next + 1, !.paths = call[c].paths \cup P!PathsOf(p)]
  <2>1. P!PathsOf(p) = PathsIn(installed, p)
    BY DEF P!PathsOf, PathsIn
  <2>2. P!PathsOf(p) \in SUBSET PackagePaths
    <3>1. installed[p].files \subseteq P!Apk /\ installed[p].build \in 0 .. MaxBuilds
      BY <1>0 DEF PackageTypes, Installations
    <3> QED BY <3>1 DEF P!PathsOf, PackagePaths
  <2>3. call[c].paths \cup P!PathsOf(p) \in SUBSET PackagePaths /\ call[c].next + 1 \in Nat
    BY <1>0, <1>1, <2>2 DEF PackageCalls
  <2> HIDE DEF P!PathsOf
  <2>4. /\ r \in PackageCalls /\ r.op = "pull" /\ r.list = call[c].list
        /\ r.next = call[c].next + 1 /\ r.paths = call[c].paths \cup P!PathsOf(p)
        /\ r.got = call[c].got /\ r.end = "none"
    BY <1>0, <2>3 DEF PackageCalls
  <2>5. call' = [call EXCEPT ![c] = r]
    BY <1>4
  <2> HIDE DEF r
  <2>6. /\ touched' \in [Actors -> SUBSET Packages] /\ touched'[c] = touched[c] \ {p}
        /\ \A d \in Actors \ {c} : touched'[d] = touched[d]
    BY <1>0, <1>4 DEF PackageTypes
  <2>7. r.got = {} /\ r.end # "ok"
    BY <1>0, <2>4 DEF CallTells, PullTells
  <2>8. ASSUME NEW i \in 1 .. r.next - 1, r.list[i] \notin touched'[c]
        PROVE  PathsIn(installed', r.list[i]) \subseteq r.paths
    <3>1. i \in 1 .. call[c].next - 1 \/ i = call[c].next
      BY <1>1, <2>4
    <3>2. CASE r.list[i] = p
      BY <1>0, <2>1, <2>4, <3>2
    <3>3. CASE r.list[i] # p /\ i \in 1 .. call[c].next - 1
      <4>1. call[c].list[i] \notin touched[c]
        BY <2>4, <2>6, <2>8, <3>3
      <4>2. PathsIn(installed, call[c].list[i]) \subseteq call[c].paths
        BY <1>0, <3>3, <4>1 DEF CallTells, PullTells
      <4> QED BY <1>0, <2>4, <4>2
    <3> QED BY <1>2, <2>4, <3>1, <3>2, <3>3
  <2>9. CallFits(r)
    <3>1. r.next \in 1 .. Len(r.list) + 1
      BY <1>1, <2>4
    <3> QED BY <1>0, <2>4, <2>7, <3>1 DEF CallFits
  <2>10. CallTells(r, touched'[c], installed')
    BY <2>4, <2>7, <2>8, <2>9 DEF CallTells, InstallTells, UninstallTells, SetTells, PullTells
  <2>11. /\ installed' \in [Packages -> Installations] /\ builds' \in 0 .. MaxBuilds
         /\ faults' \in 0 .. MaxFaults
    BY <1>0, <1>4 DEF PackageTypes
  <2> QED BY <1>0, <2>4, <2>5, <2>6, <2>10, <2>11, PackageMoves
<1> QED BY <1>2, <1>3, <1>4 DEF P!Resolve, P!Item

LEMMA PullInv == ASSUME PackageInv, NEW c \in Actors, P!Pull(c) PROVE PackageInv'
<1>0. /\ PackageTypes /\ CallTells(call[c], touched[c], installed) /\ call[c] \in PackageCalls
      /\ CallFits(call[c]) /\ call[c].op = "pull" /\ call[c].end = "none"
      /\ call[c].next > Len(call[c].list) /\ UNCHANGED <<installed, touched, builds>>
  BY DEF PackageInv, PackageTypes, CallTells, P!Pull, P!At
<1>1. /\ call[c].next \in Nat /\ Len(call[c].list) \in Nat /\ MaxFaults \in Nat
  BY <1>0, PackageItems, PackageConstants DEF PackageFacts
<1>2. PICK path \in call[c].paths \ call[c].got :
         \/ /\ path \in P!PathsOf(path[1])
            /\ call' = [call EXCEPT ![c].got = @ \cup {path},
                   ![c].end = IF @ = "none" /\ call[c].got \cup {path} = call[c].paths
                              THEN "ok" ELSE @]
            /\ UNCHANGED faults
         \/ P!End(c, "raised") /\ ((UNCHANGED faults) \/ P!Fault)
  BY DEF P!Pull, P!Fails
<1>3. CASE P!End(c, "raised") /\ ((UNCHANGED faults) \/ P!Fault)
  <2>1. faults' \in 0 .. MaxFaults
    BY <1>0, <1>1, <1>3 DEF P!Fault, PackageTypes
  <2> QED BY <1>0, <1>3, <2>1, PackageRaises DEF PackageTypes
<1>4. CASE /\ path \in P!PathsOf(path[1])
           /\ call' = [call EXCEPT ![c].got = @ \cup {path},
                  ![c].end = IF @ = "none" /\ call[c].got \cup {path} = call[c].paths
                             THEN "ok" ELSE @]
           /\ UNCHANGED faults
  <2> DEFINE end == IF call[c].got \cup {path} = call[c].paths THEN "ok" ELSE "none"
             r == [call[c] EXCEPT !.got = call[c].got \cup {path}, !.end = end]
  <2>1. path \in PathsIn(installed, path[1])
    BY <1>4 DEF P!PathsOf, PathsIn
  <2>2. end \in {"none", "ok"} /\ (end = "ok" => call[c].got \cup {path} = call[c].paths)
    OBVIOUS
  <2>21. call[c].got \cup {path} \in SUBSET PackagePaths
    BY <1>0 DEF PackageCalls
  <2> HIDE DEF end
  <2>3. /\ r \in PackageCalls /\ r.op = "pull" /\ r.list = call[c].list /\ r.next = call[c].next
        /\ r.paths = call[c].paths /\ r.got = call[c].got \cup {path} /\ r.end = end
    BY <1>0, <2>2, <2>21 DEF PackageCalls
  <2>4. call' = [call EXCEPT ![c] = r]
    BY <1>0, <1>4 DEF end
  <2> HIDE DEF r
  <2>5. ~(r.next <= Len(r.list))
    BY <1>0, <1>1, <2>3
  <2>6. PullTells(r, touched[c], installed)
    <3>1. \A q \in r.got : q[1] \notin touched[c] => q \in PathsIn(installed, q[1])
      BY <1>0, <2>1, <2>3 DEF CallTells, PullTells
    <3> QED BY <1>0, <2>2, <2>3, <2>5, <3>1 DEF CallTells, PullTells
  <2>7. CallFits(r)
    BY <1>0, <1>2, <2>3 DEF CallFits
  <2>8. CallTells(r, touched'[c], installed')
    BY <1>0, <2>3, <2>6, <2>7 DEF CallTells, InstallTells, UninstallTells, SetTells
  <2>9. /\ installed' \in [Packages -> Installations] /\ builds' \in 0 .. MaxBuilds
        /\ faults' \in 0 .. MaxFaults /\ touched' \in [Actors -> SUBSET Packages]
    BY <1>0, <1>4 DEF PackageTypes
  <2> QED BY <1>0, <2>3, <2>4, <2>8, <2>9, PackageMoves
<1> QED BY <1>2, <1>3, <1>4

LEMMA BeginInv ==
    ASSUME PackageInv, NEW c \in Actors, NEW op, NEW list, NEW replacing \in BOOLEAN,
           P!Begin(c, op, list, replacing),
           \/ op \in {"install", "set"} /\ list \in FileLists
           \/ op \in {"uninstall", "pull"} /\ list \in PackageLists
    PROVE  PackageInv'
<1> DEFINE r == [P!Idle EXCEPT !.op = op, !.list = list, !.replace = replacing]
<1>0. PackageTypes /\ list # <<>> /\ UNCHANGED <<installed, builds, faults>>
  BY DEF PackageInv, P!Begin
<1>1. /\ r \in PackageCalls /\ r.op = op /\ r.list = list /\ r.next = 1 /\ r.paths = {}
      /\ r.got = {} /\ r.end = "none"
  BY DEF P!Idle, PackageCalls
<1>2. call' = [call EXCEPT ![c] = r] /\ touched' = [touched EXCEPT ![c] = {}]
  BY DEF P!Begin
<1> HIDE DEF r
<1>3. Len(list) \in Nat /\ Len(list) # 0
  <2>1. list \in Seq(LocalFiles) \/ list \in Seq(Packages)
    BY PackageConstants DEF PackageFacts
  <2> QED BY <1>0, <2>1
<1>4. CallFits(r)
  BY <1>1, <1>3 DEF CallFits
<1>5. \A i : ~(i \in 1 .. r.next - 1)
  BY <1>1
<1>6. CallTells(r, touched'[c], installed')
  BY <1>1, <1>4, <1>5 DEF CallTells, InstallTells, UninstallTells, SetTells, PullTells
<1>7. /\ touched' \in [Actors -> SUBSET Packages]
      /\ \A d \in Actors \ {c} : touched'[d] = touched[d]
  BY <1>0, <1>2 DEF PackageTypes
<1>8. /\ installed' \in [Packages -> Installations] /\ builds' \in 0 .. MaxBuilds
      /\ faults' \in 0 .. MaxFaults
  BY <1>0 DEF PackageTypes
<1> QED BY <1>0, <1>1, <1>2, <1>6, <1>7, <1>8, PackageMoves

LEMMA DeviceInv == ASSUME PackageInv, P!Device PROVE PackageInv'
<1>0. PackageTypes /\ MaxFaults \in Nat
  BY PackageConstants DEF PackageInv, PackageFacts
<1>1. PICK p \in Packages, pack \in {{}} \cup {{f} : f \in P!Apk} :
         P!Fault /\ P!Does(p, pack, Actors) /\ UNCHANGED call
  BY DEF P!Device
<1>2. pack \in SUBSET P!Apk
  OBVIOUS
<1>3. /\ installed' \in [Packages -> Installations] /\ touched' \in [Actors -> SUBSET Packages]
      /\ builds' \in 0 .. MaxBuilds /\ \A q \in Packages \ {p} : installed'[q] = installed[q]
      /\ \A d \in Actors : touched'[d] = touched[d] \cup {p}
  BY <1>0, <1>1, <1>2, PackageDone
<1>4. faults' \in 0 .. MaxFaults
  BY <1>0, <1>1 DEF P!Fault, PackageTypes
<1>5. ASSUME NEW d \in Actors PROVE CallTells(call[d], touched'[d], installed')
  <2>1. CallTells(call[d], touched[d], installed) /\ call[d] \in PackageCalls
    BY DEF PackageInv, PackageTypes
  <2>2. \A q \in Packages : q \notin touched'[d] => q \notin touched[d] /\ installed'[q] = installed[q]
    BY <1>3
  <2> QED BY <2>1, <2>2, StillTells
<1> QED BY <1>0, <1>1, <1>3, <1>4, <1>5 DEF PackageInv, PackageTypes

LEMMA PackageStepInv == PackageInv /\ [P!Next]_(P!packageVars) => PackageInv'
<1> SUFFICES ASSUME PackageInv, [P!Next]_(P!packageVars) PROVE PackageInv'
  OBVIOUS
<1>1. CASE P!Beginning
  BY <1>1, BeginInv DEF P!Beginning
<1>2. CASE UNCHANGED P!packageVars
  BY <1>2 DEF P!packageVars, PackageInv, PackageTypes
<1> QED BY <1>1, <1>2, DeviceInv, InstallInv, UninstallInv, InstallSetInv, ResolveInv, PullInv DEF P!Next

LEMMA PackageInitInv == P!Init => PackageInv
<1> SUFFICES ASSUME P!Init PROVE PackageInv
  OBVIOUS
<1>1. /\ installed = [p \in Packages |-> P!Gone] /\ call = [c \in Actors |-> P!Idle]
      /\ touched = [c \in Actors |-> {}] /\ builds = 0 /\ faults = 0
      /\ MaxBuilds \in Nat /\ MaxFaults \in Nat
  BY PackageConstants DEF P!Init, PackageFacts
<1>2. P!Gone \in Installations
  BY <1>1 DEF P!Gone, Installations
<1>3. /\ P!Idle \in PackageCalls /\ P!Idle.op = "none" /\ P!Idle.list = <<>> /\ P!Idle.next = 1
      /\ P!Idle.got = {} /\ P!Idle.paths = {} /\ P!Idle.end = "none"
  BY DEF P!Idle, PackageCalls
<1>4. Len(<<>>) = 0
  OBVIOUS
<1>5. CallFits(P!Idle)
  BY <1>3, <1>4 DEF CallFits
<1>6. CallTells(P!Idle, {}, installed)
  BY <1>3, <1>5 DEF CallTells, InstallTells, UninstallTells, SetTells, PullTells
<1> QED BY <1>1, <1>2, <1>3, <1>6 DEF PackageInv, PackageTypes


\* A call that ends well tells of all its packages what is on the device.
LEMMA PackageAnswers == PackageInv => P!AnswersForAll
<1> SUFFICES ASSUME PackageInv, NEW c \in Actors, call[c].end = "ok",
                    NEW p \in P!Concerns(c) \ touched[c]
             PROVE  P!SaysOf(c, p)
  BY DEF P!AnswersForAll
<1>0. /\ PackageTypes /\ CallTells(call[c], touched[c], installed) /\ call[c] \in PackageCalls
      /\ CallFits(call[c])
  BY DEF PackageInv, PackageTypes, CallTells
<1>1. /\ Len(call[c].list) \in Nat /\ DOMAIN call[c].list = 1 .. Len(call[c].list)
      /\ call[c].next \in Nat
  BY <1>0, PackageItems
<1>2. P!Discovered(c) = FilesOf(call[c])
  BY DEF P!Discovered, P!ToSet, FilesOf
<1>3. CASE call[c].op = "install"
  <2>1. call[c].next - 1 = Len(call[c].list)
    BY <1>0, <1>1, <1>3 DEF CallFits
  <2>2. PICK i \in 1 .. Len(call[c].list) : call[c].list[i] \in P!Apk /\ p = Package[call[c].list[i]]
    BY <1>1, <1>2, <1>3 DEF P!Concerns, FilesOf
  <2>3. PICK j \in 1 .. Len(call[c].list) :
             /\ call[c].list[j] \in P!Apk /\ Package[call[c].list[j]] = p
             /\ \A k \in 1 .. Len(call[c].list) : Package[call[c].list[k]] = p => k <= j
             /\ p \notin touched[c] => installed[p].files = {call[c].list[j]}
    BY <1>0, <1>3, <2>1, <2>2 DEF CallTells, InstallTells
  <2> DEFINE of == {k \in DOMAIN call[c].list :
                       call[c].list[k] \in P!Apk /\ Package[call[c].list[k]] = p}
  <2>4. j \in of /\ \A k \in of : k <= j
    BY <1>1, <2>3
  <2>5. \A k \in of : k = j \/ ~(j <= k)
    BY <1>1, <2>4
  <2>6. {k \in of : \A m \in of : m <= k} = {j}
    BY <2>4, <2>5
  <2>7. P!LastOf(call[c].list, p) = {call[c].list[k] : k \in {k \in of : \A m \in of : m <= k}}
    BY DEF P!LastOf
  <2> HIDE DEF of
  <2>8. P!LastOf(call[c].list, p) = installed[p].files
    BY <2>3, <2>6, <2>7
  <2> QED BY <1>3, <2>8 DEF P!SaysOf
<1>4. CASE call[c].op = "set"
  <2>1. p \in {Package[f] : f \in FilesOf(call[c])}
    BY <1>2, <1>4 DEF P!Concerns
  <2>2. FilesOf(call[c]) = installed[p].files
    BY <1>0, <1>4, <2>1 DEF CallTells, SetTells
  <2> QED BY <1>2, <1>4, <2>2 DEF P!SaysOf
<1>5. CASE call[c].op \in {"uninstall", "pull"}
  <2>1. PICK i \in 1 .. Len(call[c].list) : call[c].list[i] = p
    BY <1>1, <1>5 DEF P!Concerns, P!ToSet
  <2>2. CASE call[c].op = "uninstall"
    <3>1. call[c].next - 1 = Len(call[c].list)
      BY <1>0, <1>1, <2>2 DEF CallFits
    <3>2. installed[p].files = {}
      BY <1>0, <2>1, <2>2, <3>1 DEF CallTells, UninstallTells
    <3> QED BY <2>2, <3>2 DEF P!SaysOf
  <2>3. CASE call[c].op = "pull"
    <3>1. ~(call[c].next <= Len(call[c].list))
      BY <1>0, <2>3 DEF CallTells, PullTells
    <3>2. i \in 1 .. call[c].next - 1
      BY <1>1, <3>1
    <3>3. PathsIn(installed, p) \subseteq call[c].got
      BY <1>0, <2>1, <2>3, <3>2 DEF CallTells, PullTells
    <3>4. \A path \in call[c].got : path[1] = p => path \in PathsIn(installed, p)
      BY <1>0, <2>3 DEF CallTells, PullTells
    <3>5. \A path \in PathsIn(installed, p) : path[1] = p
      BY DEF PathsIn
    <3>6. {path \in call[c].got : path[1] = p} = P!PathsOf(p)
      BY <3>3, <3>4, <3>5 DEF PathsIn, P!PathsOf
    <3> QED BY <2>3, <3>6 DEF P!SaysOf
  <2> QED BY <1>5, <2>2, <2>3
<1>6. call[c].op # "none"
  <2>1. call[c].op = "none" => P!Concerns(c) = {}
    BY <1>0 DEF P!Concerns, P!ToSet, CallFits
  <2> QED BY <2>1
<1> QED BY <1>0, <1>3, <1>4, <1>5, <1>6 DEF PackageCalls

\* Installing, deleting and pulling several packages: what is answered is so.
THEOREM PackagesAreAnswered ==
    P!Init /\ [][P!Next]_(P!packageVars) => [](P!TypeOK /\ P!AnswersForAll)
<1>1. PackageInv => P!TypeOK
  <2> SUFFICES ASSUME PackageInv PROVE P!TypeOK
    OBVIOUS
  <2>1. ASSUME NEW c \in Actors
        PROVE  /\ call[c].op \in {"none", "install", "uninstall", "set", "pull"}
               /\ call[c].list \in {<<>>} \cup FileLists \cup PackageLists
               /\ call[c].replace \in BOOLEAN /\ call[c].next \in 1 .. Len(call[c].list) + 1
               /\ call[c].got \subseteq call[c].paths
               /\ call[c].end \in {"none", "ok", "raised"}
    <3>1. call[c] \in PackageCalls /\ CallFits(call[c])
      BY DEF PackageInv, PackageTypes, CallTells
    <3> QED BY <3>1 DEF PackageCalls, CallFits
  <2> QED BY <2>1 DEF PackageInv, PackageTypes, Installations, P!TypeOK
<1> QED BY <1>1, PackageInitInv, PackageStepInv, PackageAnswers, PTL

-----------------------------------------------------------------------------
(* What the runs check of these parts together. *)

\* An export holds whole sessions of its runs and stays the exporter's own; a record that says
\* running is of a run that goes on; and a Frida record has both its logs.
THEOREM ExportsAreSound == Spec => []ExportsSound
<1>1. Init => A!Init /\ F!Init
  BY DEF Init
<1>2. [Next]_vars => [A!Next]_(A!assessVars) /\ [F!Next]_(F!fridaVars)
  BY DevicesSteps
<1>3. Spec => [](A!ExportListsWhole /\ A!ExportKept /\ A!RunningIsAlive)
  BY <1>1, <1>2, ExportsAreWhole, PTL DEF Spec
<1>4. Spec => []F!RecordedWithLogs
  BY <1>1, <1>2, FridaIsRecorded, PTL DEF Spec
<1> QED BY <1>3, <1>4, PTL DEF ExportsSound

\* A group run answers for every device it listed; an upload is what its file holds; and a
\* report or a backup is on disk as announced unless another was made in the same second.
THEOREM ReportsAreSound == Spec => []ReportsSound
<1>1. Init => R!Init /\ U!Init
  BY DEF Init
<1>2. [Next]_vars => [R!Next]_(R!reportVars) /\ [U!Next]_(U!uploadVars)
  BY DevicesSteps
<1>3. Spec => [](R!EveryDeviceAnswered /\ R!KeptUnlessSameSecond)
  BY <1>1, <1>2, ReportsAreKept, PTL DEF Spec
<1>4. Spec => []U!UploadsKept
  BY <1>1, <1>2, UploadsAreKept, PTL DEF Spec
<1> QED BY <1>3, <1>4, PTL DEF ReportsSound

\* What one watch's reports add up to is how its device changed, and a watch whose commands and
\* transactions succeed misses a state only where so many were written that it was pruned.
THEOREM InventoryIsSound == Spec => []InventorySound
<1>1. Init => I!Init
  BY DEF Init
<1>2. [Next]_vars => [I!Next]_(I!inventoryVars)
  BY DevicesSteps
<1> QED BY <1>1, <1>2, WatchesAreSound, PTL DEF Spec, InventorySound

\* What a page was told is what the broker knew of it, and one thread watches a device unless it
\* was stopped in a hurry.
THEOREM BrokerIsSound == Spec => []BrokerSound
<1>1. Init => B!Init
  BY DEF Init
<1>2. [Next]_vars => [B!Next]_(B!vars)
  BY DevicesSteps
<1> QED BY <1>1, <1>2, BrokerTellsTrue, PTL DEF Spec, BrokerSound

\* What installing, deleting, setting or pulling packages answers of each package is so of the
\* device, unless another call changed the package meanwhile.
THEOREM PackagesAnswerForAll == Spec => []AnswersForAll
<1>1. Init => P!Init
  BY DEF Init
<1>2. [Next]_vars => [P!Next]_(P!packageVars)
  BY DevicesSteps
<1> QED BY <1>1, <1>2, PackagesAreAnswered, PTL DEF Spec, AnswersForAll

\* Every variable of every part has its type in every behaviour: the calls are where their code
\* can be, the files hold what was written by someone, and no bound is passed.
THEOREM DevicesTypeCorrect == Spec => []TypeOK
<1>1. Init => /\ C!Init /\ A!Init /\ F!Init /\ U!Init /\ R!Init /\ I!Init /\ P!Init /\ X!Init
              /\ B!Init
  BY DEF Init
<1>2. Spec => [](A!TypeOK /\ F!TypeOK)
  BY <1>1, DevicesSteps, ExportsAreWhole, FridaIsRecorded, PTL DEF Spec
<1>3. Spec => [](U!TypeOK /\ R!TypeOK)
  BY <1>1, DevicesSteps, UploadsAreKept, ReportsAreKept, PTL DEF Spec
<1>4. Spec => [](I!TypeOK /\ P!TypeOK /\ B!TypeOK)
  BY <1>1, DevicesSteps, WatchesAreSound, PackagesAreAnswered, BrokerTellsTrue, PTL DEF Spec
<1>5. ReplaceInv => X!TypeOK
  BY DEF ReplaceInv
<1>6. CaptureInv => C!TypeOK
  <2> SUFFICES ASSUME CaptureInv PROVE C!TypeOK
    OBVIOUS
  <2>1. \A c \in Actors : captureCall[c] \in CaptureStates
    BY DEF CaptureInv, CaptureTypes
  <2>2. ASSUME NEW c \in Actors
        PROVE  /\ captureCall[c].kind \in {"evidence", "sniff"}
               /\ captureCall[c].root \in Roots \cup {"none"}
               /\ captureCall[c].device \in {"video"} \cup Seconds
               /\ {captureCall[c].package, captureCall[c].seconds, captureCall[c].saves,
                   captureCall[c].kept} \subseteq BOOLEAN
               /\ captureCall[c].adding \in C!Files /\ captureCall[c].failed \subseteq C!Files
               /\ captureCall[c].manifest \subseteq C!Entries
               /\ captureCall[c].at \in {"new", "texts", "bugreport", "record", "recording", "pull",
                                         "remove", "add", "apks", "save", "done", "raised"}
    BY <2>1 DEF CaptureStates
  <2>3. \A c \in Actors : captureCall[c].met \subseteq Actors \ {c}
    BY DEF CaptureInv, CaptureTypes, CaptureStates, CallSound
  <2> QED BY <2>2, <2>3 DEF CaptureInv, CaptureTypes, C!TypeOK
<1>7. Spec => []X!TypeOK
  BY <1>1, <1>5, DevicesSteps, ReplaceInitInv, ReplaceStepInv, PTL DEF Spec
<1>8. Spec => []C!TypeOK
  BY <1>1, <1>6, DevicesSteps, CaptureInitInv, CaptureStepInv, PTL DEF Spec
<1> QED BY <1>2, <1>3, <1>4, <1>7, <1>8, PTL DEF TypeOK
=============================================================================
