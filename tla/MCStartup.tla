------------------------------ MODULE MCStartup ------------------------------
(* Instances for TLC of how the program is run and replaced: LegacyCommand,   *)
(* SchemaStart, ManagedUpdate and SecureUpdate.  They share no variable, so   *)
(* one run explores one after the other: `part` is chosen at the start.       *)
EXTENDS Naturals, Sequences, TLC

CONSTANTS Known, Commands, ValueOptions, Flags, Words, MaxOptions, MaxArguments,
          Processes, Migrations, Keep, MaxFiles, MaxStarts, MaxRows, MaxSchemaFaults,
          Commits, ManagedFaults, MaxManagedFaults,
          Releases, SecureFaults, MaxSecureFaults, MaxWrites

VARIABLES part,
          line, at, argv, parsed,
          path, made, file, backups, stamp, proc, starts, rows, schemaFaults,
          package, aside, dist, saved, state, run, managedPrevious, managedFaults,
          root, previous, backup, shelf, prepared, op, written, secureFaults

\* Flags of version 2, aliases, and the versions the builds declare: the last
\* two of one version, as a hotfix reinstalled by `update force` is.
MCLegacyOf == "-C" :> "collect" @@ "-l" :> "list" @@ "-I" :> "install"
MCCanonicalOf == "collect" :> <<"evidence">> @@ "ls" :> <<"list">>
                 @@ "pair" :> <<"wireless", "pair">> @@ "connect" :> <<"wireless", "connect">>
MCVersionOf == [c \in Commits |-> IF c = "first" THEN 1 ELSE 2]

L == INSTANCE LegacyCommand WITH LegacyOf <- MCLegacyOf, CanonicalOf <- MCCanonicalOf
D == INSTANCE SchemaStart WITH Versions <- Migrations, MaxFaults <- MaxSchemaFaults, faults <- schemaFaults
M == INSTANCE ManagedUpdate WITH Builds <- Commits, VersionOf <- MCVersionOf,
        FaultKinds <- ManagedFaults, MaxFaults <- MaxManagedFaults,
        previous <- managedPrevious, faults <- managedFaults
S == INSTANCE SecureUpdate WITH Builds <- Releases, FaultKinds <- SecureFaults,
        MaxFaults <- MaxSecureFaults, faults <- secureFaults

ASSUME StartupAssumption ==
    /\ L!CommandAssumption /\ D!SchemaAssumption
    /\ M!ManagedUpdateAssumption /\ S!SecureUpdateAssumption

command  == <<line, at, argv, parsed>>
database == <<path, made, file, backups, stamp, proc, starts, rows, schemaFaults>>
managed  == <<package, aside, dist, saved, state, run, managedPrevious, managedFaults>>
secure   == <<root, previous, backup, shelf, prepared, op, written, secureFaults>>
vars     == <<part, command, database, managed, secure>>

Init ==
    /\ part \in {"command", "database", "managed", "secure"}
    /\ L!Init /\ D!Init /\ M!Init /\ S!Init
    \* what a part that does not run starts from is no matter
    /\ part # "database" => path = 0
    /\ part # "managed" => package = CHOOSE c \in Commits : TRUE
    /\ part # "secure" => root.build = CHOOSE b \in Releases : TRUE

\* A step of one part leaves the others alone.
CommandStep  == part = "command" /\ L!Next /\ UNCHANGED <<part, database, managed, secure>>
DatabaseStep == part = "database" /\ D!Next /\ UNCHANGED <<part, command, managed, secure>>
ManagedStep  == part = "managed" /\ M!Next /\ UNCHANGED <<part, command, database, secure>>
SecureStep   == part = "secure" /\ S!Next /\ UNCHANGED <<part, command, database, managed>>
Next == CommandStep \/ DatabaseStep \/ ManagedStep \/ SecureStep

Spec == Init /\ [][Next]_vars

\* Every variable of every part has its type.
TypeOK == L!TypeOK /\ D!TypeOK /\ M!TypeOK /\ S!TypeOK

\* The properties of the parts, stated there.
RunsWhatWasTyped == L!RunsWhatWasTyped
StartHolds == D!StartHolds
UpdateRecovers == M!UpdateRecovers

\* The archive updater: a whole tree stays in place, and what was installed is
\* never lost to failures.
ReplacedOrKept == []S!InPlaceUnlessBackupTorn /\ S!OldKept
=============================================================================
