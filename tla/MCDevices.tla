------------------------------ MODULE MCDevices ------------------------------
(* Instances for TLC of what the program does to devices and keeps of it:     *)
(* Captures, Assessments, FridaRuns, DeviceReports, Uploads, InventoryWatch,  *)
(* PackageJobs, ReplaceApp and WirelessBroker.  They share no variable, so    *)
(* one run explores one after the other: `part` is chosen at the start.  They *)
(* share two sets of model values, and with one of them a symmetry.           *)
EXTENDS Integers, FiniteSets, Sequences, TLC

CONSTANTS
    Actors,   \* calls, jobs, exports, devices or threads
    Labels,   \* archives' names, or backups
    Options, Roots, Seconds,
    Runs, Findings, Formats, Fridas, Uploads,
    Workers, MaxTime, MaxGroupChanges,
    Singles, Watches, Values, Retention, MaxRows, MaxChanges, MaxReports,
    Packages, LocalFiles, Package, Signer, FileLists, PackageLists, MaxBuilds, MaxFaults,
    Parts, Base, MaxHurts,
    Keys, Shown, MaxHistory, MaxUpsets

VARIABLES part,
          remote, local, captureCall, row,
          session, rows, reports, run, archive, export,
          frida, logs, fridaRun,
          upload, uploaded,
          now, group, groupChanges, groupRun, audit, backup, files,
          device, stamps, states, made, changes, inventoryCall,
          installed, call, touched, builds, faults,
          parts, job, cancelled, hurts,
          world, budget, running, flag, current, services, sequence, events,
          thread, stopper, reader, hurried

\* The reports of an audit, in the order they are written.
InOrder == <<"json", "pdf">>

\* Two files of one package, one of another and a text file.
MCFiles == {"one", "two", "other", "text"}
MCPackage == "one" :> "p" @@ "two" :> "p" @@ "other" :> "q"
MCSigner == "one" :> 1 @@ "two" :> 1 @@ "other" :> 2
MCFileLists == {<<"one", "other">>, <<"one", "two">>, <<"other", "text">>}
MCPackageLists == {<<"p", "q">>, <<"p">>}

C == INSTANCE Captures WITH Calls <- Actors, call <- captureCall
A == INSTANCE Assessments WITH Exports <- Actors, Archives <- Labels
F == INSTANCE FridaRuns
U == INSTANCE Uploads WITH files <- uploaded
R == INSTANCE DeviceReports WITH Serials <- Actors, Backups <- Labels, Formats <- InOrder,
        MaxChanges <- MaxGroupChanges, changes <- groupChanges, run <- groupRun
I == INSTANCE InventoryWatch WITH Devices <- Actors, Captures <- Singles,
        rows <- states, call <- inventoryCall
P == INSTANCE PackageJobs WITH Calls <- Actors
X == INSTANCE ReplaceApp WITH Jobs <- Actors, MaxFaults <- MaxHurts,
        installed <- parts, faults <- hurts
B == INSTANCE WirelessBroker WITH Threads <- Actors, Values <- Shown

ASSUME DevicesAssumption ==
    /\ C!CapturesAssumption /\ U!UploadsAssumption /\ R!ReportsAssumption /\ I!InventoryAssumption
    /\ P!PackageJobsAssumption /\ X!ReplaceAssumption
    /\ B!WirelessBrokerAssumption

captures  == <<remote, local, captureCall, row>>
assess    == <<session, rows, reports, run, archive, export>>
tracing   == <<frida, logs, fridaRun>>
uploading == <<upload, uploaded>>
reporting == <<now, group, groupChanges, groupRun, audit, backup, files>>
inventory == <<device, stamps, states, made, changes, inventoryCall>>
packages  == <<installed, call, touched, builds, faults>>
replace   == <<parts, job, cancelled, hurts>>
broker    == <<world, budget, running, flag, current, services, sequence, events,
               thread, stopper, reader, hurried>>
vars      == <<part, captures, assess, tracing, uploading, reporting, inventory, packages,
               replace, broker>>

Init ==
    /\ part \in {"captures", "assess", "tracing", "uploading", "reporting", "inventory",
                 "packages", "replace", "broker"}
    /\ C!Init /\ A!Init /\ F!Init /\ U!Init /\ R!Init /\ I!Init /\ P!Init /\ X!Init /\ B!Init
    \* what a part that does not run starts from is no matter
    /\ part # "reporting" => group = {}
    /\ part # "inventory" => device = [d \in Actors |-> [users |-> 1, packages |-> 1]]
    /\ part # "broker" => world = B!Nothing

\* A step of one part leaves the others alone.
CapturesStep  == /\ part = "captures" /\ C!Next
                 /\ UNCHANGED <<part, assess, tracing, uploading, reporting, inventory, packages, replace, broker>>
AssessStep    == /\ part = "assess" /\ A!Next
                 /\ UNCHANGED <<part, captures, tracing, uploading, reporting, inventory, packages, replace, broker>>
TracingStep   == /\ part = "tracing" /\ F!Next
                 /\ UNCHANGED <<part, captures, assess, uploading, reporting, inventory, packages, replace, broker>>
UploadingStep == /\ part = "uploading" /\ U!Next
                 /\ UNCHANGED <<part, captures, assess, tracing, reporting, inventory, packages, replace, broker>>
ReportingStep == /\ part = "reporting" /\ R!Next
                 /\ UNCHANGED <<part, captures, assess, tracing, uploading, inventory, packages, replace, broker>>
InventoryStep == /\ part = "inventory" /\ I!Next
                 /\ UNCHANGED <<part, captures, assess, tracing, uploading, reporting, packages, replace, broker>>
PackagesStep  == /\ part = "packages" /\ P!Next
                 /\ UNCHANGED <<part, captures, assess, tracing, uploading, reporting, inventory, replace, broker>>
ReplaceStep   == /\ part = "replace" /\ X!Next
                 /\ UNCHANGED <<part, captures, assess, tracing, uploading, reporting, inventory, packages, broker>>
BrokerStep    == /\ part = "broker" /\ B!Next
                 /\ UNCHANGED <<part, captures, assess, tracing, uploading, reporting, inventory, packages, replace>>

Next == \/ CapturesStep \/ AssessStep \/ TracingStep \/ UploadingStep
        \/ ReportingStep \/ InventoryStep \/ PackagesStep \/ ReplaceStep \/ BrokerStep

Spec == Init /\ [][Next]_vars

Symmetry == Permutations(Actors)

\* Every variable of every part has its type.
TypeOK ==
    /\ C!TypeOK /\ A!TypeOK /\ F!TypeOK /\ U!TypeOK /\ R!TypeOK /\ I!TypeOK /\ P!TypeOK /\ X!TypeOK
    /\ B!TypeOK

\* What a call stores as evidence was captured by it, or by one that was under way
\* meanwhile and wrote to the same file; and what it left on the device is removed.
CapturesSound == []C!EvidenceIsOwn /\ C!DeviceCleaned

\* An export holds whole sessions and nobody overwrites it; and what the project
\* says of an assessment or a Frida run is so.
ExportsSound ==
    A!ExportListsWhole /\ A!ExportKept /\ A!RunningIsAlive /\ F!RecordedWithLogs

\* A group run answers for each device, and files written at once are all kept,
\* but for the backups of one second.
ReportsSound == R!EveryDeviceAnswered /\ U!UploadsKept /\ R!KeptUnlessSameSecond

\* What a watch reports adds up to how the device changed; and a state it compares
\* with is gone only when others captured so many that it was pruned.
InventorySound == I!ReportsCompose /\ I!FailsOnlyWhenCrowded

\* Installing and deleting packages: stated in PackageJobs.
AnswersForAll == P!AnswersForAll

\* An application is replaced, kept or put back whole unless several steps
\* fail; the answer says which; and only an approved call removes it.
ReplacementSound == []X!WholeUnlessHurt /\ X!SaysWhatIs /\ X!OnlyApprovedRemove

\* What a page shows is what the broker knows, and one thread keeps it so.
BrokerSound == B!ReaderKnows /\ B!OneThreadUnlessHurried
=============================================================================
