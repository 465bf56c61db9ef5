------------------------------- MODULE MCAccess ------------------------------
(* Instances for TLC of what decides who may do what: AuthStore, LoginGate,   *)
(* Presets, the keys of the server (ServerSecret, TlsStore), of the agents    *)
(* (LabEnroll) and of the publishers (PublisherTrust).  They share no         *)
(* variable, so one run explores one after the other: `part` is chosen at the *)
(* start.  They share three sets of model values, and with them a symmetry:   *)
(* Users are requests in flight, calls and server processes too, Workspaces   *)
(* are the ids of presets too.  The names of AuthStore are its own here, so   *)
(* that what is checked is what AccessProofs is about.                        *)
EXTENDS AuthStore, TLC

CONSTANTS
    Labels,   \* names of presets, hosts, names of agents, or contents
    Clients, Limit, Window, MaxTime, MaxFailures,
    Scopes, Fields, Secret, PresetLimit, MaxStamp,
    Retries, MaxSlips,
    MaxPairs, MaxStarts,
    Controller, Authority, OwnFile, AgentFile, Nobody, MaxPlaces,
    MaxKeys, MaxChanges

VARIABLES part,
          now, remote, users, stamps, attempt, failed, since, crowded,
          preset, request,
          secretKey, secretServer, slips, broken,
          tlsKey, tlsCert, tlsPair, tlsServer, starts,
          files, config, agents, labServer, labCall, labKeys, hurt,
          pair, plugin, bundle, publisher, temp, call, changes

\* Every agent's name is sanitised to one file name.
MCFileOf == [n \in Labels \cup {Controller} |-> IF n = Controller THEN OwnFile ELSE AgentFile]

G == INSTANCE LoginGate WITH Attempts <- Users
P == INSTANCE Presets WITH Servers <- Users, Names <- Labels, Limit <- PresetLimit,
                          Ids <- Workspaces
K == INSTANCE ServerSecret WITH Servers <- Users, key <- secretKey, server <- secretServer
T == INSTANCE TlsStore WITH Servers <- Users, Hosts <- Labels,
                            key <- tlsKey, cert <- tlsCert, pair <- tlsPair, server <- tlsServer
E == INSTANCE LabEnroll WITH Names <- Labels, Calls <- Users, FileOf <- MCFileOf,
                             MaxKeys <- MaxPlaces, server <- labServer, call <- labCall,
                             keys <- labKeys, None <- Nobody
B == INSTANCE PublisherTrust WITH Contents <- Labels, Calls <- Users

ASSUME AccessAssumption ==
    /\ G!LoginGateAssumption /\ P!PresetsAssumption
    /\ K!SecretAssumption /\ T!TlsStoreAssumption /\ E!EnrollAssumption
    /\ B!TrustAssumption

gate     == <<now, remote, users, stamps, attempt, failed, since, crowded>>
presets  == <<preset, request>>
secret   == <<secretKey, secretServer, slips, broken>>
tls      == <<tlsKey, tlsCert, tlsPair, tlsServer, starts>>
enroll   == <<files, config, agents, labServer, labCall, labKeys, hurt>>
trust    == <<pair, plugin, bundle, publisher, temp, call, changes>>
accessVars == <<part, vars, gate, presets, secret, tls, enroll, trust>>

AccessInit ==
    /\ part \in {"accounts", "gate", "presets", "secret", "tls", "enroll", "trust"}
    /\ Init /\ G!Init /\ P!Init /\ K!Init /\ T!Init /\ E!Init /\ B!Init
    /\ part # "gate" => ~remote /\ ~users   \* no matter there

\* A step of one part leaves the others alone.
AccountsStep == part = "accounts" /\ Next
                /\ UNCHANGED <<part, gate, presets, secret, tls, enroll, trust>>
GateStep     == part = "gate" /\ G!Next
                /\ UNCHANGED <<part, vars, presets, secret, tls, enroll, trust>>
PresetsStep  == part = "presets" /\ P!Next
                /\ UNCHANGED <<part, vars, gate, secret, tls, enroll, trust>>
SecretStep   == part = "secret" /\ K!Next
                /\ UNCHANGED <<part, vars, gate, presets, tls, enroll, trust>>
TlsStep      == part = "tls" /\ T!Next
                /\ UNCHANGED <<part, vars, gate, presets, secret, enroll, trust>>
EnrollStep   == part = "enroll" /\ E!Next
                /\ UNCHANGED <<part, vars, gate, presets, secret, tls, trust>>
TrustStep    == part = "trust" /\ B!Next
                /\ UNCHANGED <<part, vars, gate, presets, secret, tls, enroll>>

AccessNext ==
        \/ AccountsStep \/ GateStep \/ PresetsStep \/ SecretStep \/ TlsStep
        \/ EnrollStep \/ TrustStep

AccessSpec == AccessInit /\ [][AccessNext]_accessVars

Symmetry == Permutations(Users) \cup Permutations(Labels) \cup Permutations(Workspaces)

\* Every variable of every part has its type.
AccessTypeOK ==
    /\ TypeOK /\ G!TypeOK /\ P!TypeOK /\ K!TypeOK /\ T!TypeOK /\ E!TypeOK /\ B!TypeOK

\* The properties of the parts, stated there.
GateHolds == []G!LimitUnlessTogether /\ G!RefusedForCause
PresetsHold == P!SaveFindsItsRow /\ []P!NoSecretStored

\* Two starts of the server use one secret, and a server that starts serves the
\* certificate it announces.
ServersAgree == K!OneSecret /\ T!StartsAsAnnounced

\* An enrolled agent can connect, and a verdict on a plugin is of its own
\* publisher: no overlapping call leaves one's key where another's belongs.
KeysAreOwn == []E!EnrolledConnects /\ E!AuthorityKept /\ []B!VerdictIsOwn
=============================================================================
