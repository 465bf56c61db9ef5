----------------------------- MODULE LabEnroll -----------------------------
(***************************************************************************)
(* The lab's certificate directory, src/src/adbgath/lab/pki.py, and the    *)
(* enrolment of an agent, service360.lab_agent_enroll.  Everything is a    *)
(* plain file written without a lock, the private key before its           *)
(* certificate: the authority's pair, one for each agent and one for the   *)
(* controller, then the configuration an agent starts from.  Only the      *)
(* agent's row is in the database.  A call may fail, or be killed, before  *)
(* each of its writes.  A key pair is a number, the order of its           *)
(* generation, and so is the token generated with it; a certificate is     *)
(* the pair it is for and the pair that signed it.                         *)
(***************************************************************************)
EXTENDS Integers

CONSTANTS
    Names,       \* the names agents are enrolled under
    Controller,  \* the name in the controller's own certificate
    FileOf,      \* the file name a name is sanitised to
    Authority,   \* the place of ca-key.pem and ca-cert.pem
    Calls,       \* calls of init_ca, issue_certificate, lab_agent_enroll
    MaxKeys,     \* bound: how many key pairs are generated
    None         \* no name, no server

Places == {Authority} \cup {FileOf[n] : n \in Names \cup {Controller}}

EnrollAssumption ==
    /\ DOMAIN FileOf = Names \cup {Controller}
    /\ \A n \in Names : FileOf[n] # FileOf[Controller]
    /\ \A n \in DOMAIN FileOf : FileOf[n] # Authority
    /\ MaxKeys \in Nat \ {0}
    /\ None \notin Names \cup {Controller}

VARIABLES
    files,    \* of each place, the pair in -key.pem and what -cert.pem says
    config,   \* the token in agent-NAME.json
    agents,   \* the rows of lab_agents: whose token the hash is
    server,   \* what serve_controller was started with
    call,     \* each call, where it is
    keys,     \* pairs generated so far
    hurt      \* history: the places two calls wrote together, or one left
              \* with a key and not yet its certificate

enrollVars == <<files, config, agents, server, call, keys, hurt>>

Missing == [key |-> 0, cert |-> <<0, 0>>]
Idle == [at |-> "idle", name |-> None, pair |-> 0, signer |-> 0]

Init ==
    /\ files = [p \in Places |-> Missing]
    /\ config = [n \in Names |-> 0]
    /\ agents = [n \in Names |-> 0]
    /\ server = None
    /\ call = [c \in Calls |-> Idle]
    /\ keys = 0
    /\ hurt = {}

Place(c) == IF call[c].name = None THEN Authority ELSE FileOf[call[c].name]

\* Calls that have yet to finish the pair of a place.
Writers(p) == {c \in Calls : call[c].at \in {"key", "cert"} /\ Place(c) = p}

\* Faulty: the refusal to overwrite is forgotten.
AnyDirectory == TRUE

\* init_ca refuses a directory in which either of its files exists.
NoAuthority == files[Authority] = Missing

BeginInit(c) ==
    /\ call[c].at = "idle"
    /\ NoAuthority
    /\ keys < MaxKeys
    /\ keys' = keys + 1
    /\ call' = [call EXCEPT ![c] =
           [at |-> "key", name |-> None, pair |-> keys', signer |-> keys']]
    /\ hurt' = IF Writers(Authority) = {} THEN hurt ELSE hurt \cup {Authority}
    /\ UNCHANGED <<files, config, agents, server>>

\* issue_certificate reads the authority's key, then its certificate; a
\* file that is not there is an error before anything is written.
BeginIssue(c, n) ==
    /\ call[c].at = "idle"
    /\ files[Authority].key # 0
    /\ call' = [call EXCEPT ![c] = [at |-> "read", name |-> n, pair |-> 0,
                                    signer |-> files[Authority].key]]
    /\ UNCHANGED <<files, config, agents, server, keys, hurt>>

ReadAuthority(c) ==
    /\ call[c].at = "read"
    /\ IF files[Authority].cert = Missing.cert
       THEN call' = [call EXCEPT ![c] = Idle] /\ UNCHANGED keys
       ELSE /\ keys < MaxKeys
            /\ keys' = keys + 1
            /\ call' = [call EXCEPT ![c].at = "key", ![c].pair = keys']
    /\ UNCHANGED <<files, config, agents, server, hurt>>

WriteKey(c) ==
    /\ call[c].at = "key"
    /\ files' = [files EXCEPT ![Place(c)].key = call[c].pair]
    /\ call' = [call EXCEPT ![c].at = "cert"]
    /\ hurt' = IF Writers(Place(c)) = {c} THEN hurt ELSE hurt \cup {Place(c)}
    /\ UNCHANGED <<config, agents, server, keys>>

WriteCert(c) ==
    /\ call[c].at = "cert"
    /\ files' = [files EXCEPT ![Place(c)].cert = <<call[c].pair, call[c].signer>>]
    /\ call' = IF call[c].name \in Names
               THEN [call EXCEPT ![c].at = "insert"]
               ELSE [call EXCEPT ![c] = Idle]
    /\ UNCHANGED <<config, agents, server, keys, hurt>>

\* create_lab_agent: a second row of a name is an IntegrityError, raised
\* when the name's files have already been replaced.
Insert(c) ==
    /\ call[c].at = "insert"
    /\ IF agents[call[c].name] = 0
       THEN /\ agents' = [agents EXCEPT ![call[c].name] = call[c].pair]
            /\ call' = [call EXCEPT ![c].at = "config"]
       ELSE /\ call' = [call EXCEPT ![c] = Idle]
            /\ UNCHANGED agents
    /\ UNCHANGED <<files, config, server, keys, hurt>>

WriteConfig(c) ==
    /\ call[c].at = "config"
    /\ config' = [config EXCEPT ![call[c].name] = call[c].pair]
    /\ call' = [call EXCEPT ![c] = Idle]
    /\ UNCHANGED <<files, agents, server, keys, hurt>>

\* The call fails, or its process is killed, before its next write.
Fail(c) ==
    /\ call[c].at # "idle"
    /\ call' = [call EXCEPT ![c] = Idle]
    /\ hurt' = IF call[c].at = "cert" THEN hurt \cup {Place(c)} ELSE hurt
    /\ UNCHANGED <<files, config, agents, server, keys>>

\* serve_controller checks that its three files are there; the TLS context
\* refuses a key that is not the certificate's.
Serve ==
    LET own == files[FileOf[Controller]] IN
    /\ server = None
    /\ own.cert # Missing.cert
    /\ own.key = own.cert[1]
    /\ files[Authority].cert # Missing.cert
    /\ server' = [signer |-> own.cert[2], trusts |-> files[Authority].cert[1]]
    /\ UNCHANGED <<files, config, agents, call, keys, hurt>>

Stop ==
    /\ server # None
    /\ server' = None
    /\ UNCHANGED <<files, config, agents, call, keys, hurt>>

Next ==
    \/ \E c \in Calls :
        \/ BeginInit(c)
        \/ \E n \in Names \cup {Controller} : BeginIssue(c, n)
        \/ ReadAuthority(c) \/ WriteKey(c) \/ WriteCert(c)
        \/ Insert(c) \/ WriteConfig(c) \/ Fail(c)
    \/ Serve \/ Stop

(***************************************************************************)
(* LabAgent starts from its configuration: its key must be its             *)
(* certificate's, each side must trust the pair that signed the other's    *)
(* certificate, and the token must be the one whose hash the row keeps.    *)
(***************************************************************************)
Connects(n) ==
    LET own == files[FileOf[n]]
        authority == files[Authority].cert[1]
    IN /\ config[n] = agents[n]
       /\ own.key = own.cert[1]
       /\ server.trusts = own.cert[2]
       /\ server.signer = authority

TypeOK ==
    /\ files \in [Places -> [key : 0 .. MaxKeys, cert : (0 .. MaxKeys) \X (0 .. MaxKeys)]]
    /\ config \in [Names -> 0 .. MaxKeys]
    /\ agents \in [Names -> 0 .. MaxKeys]
    /\ server \in {None} \cup [signer : 1 .. MaxKeys, trusts : 1 .. MaxKeys]
    /\ call \in [Calls ->
           [at : {"idle", "read", "key", "cert", "insert", "config"},
            name : {None, Controller} \cup Names,
            pair : 0 .. MaxKeys, signer : 0 .. MaxKeys]]
    /\ keys \in 0 .. MaxKeys
    /\ hurt \subseteq Places

(***************************************************************************)
(* An agent whose enrolment wrote its configuration can connect to a       *)
(* controller that runs, whatever enrolments of its own or another name    *)
(* were refused, failed or were killed since, as long as the agent's files *)
(* and the authority's were not hurt and nobody is writing them.           *)
(* (pki.init_ca, issue_certificate; service360.lab_agent_enroll)           *)
(***************************************************************************)
EnrolledConnects ==
    \A n \in Names :
        \/ config[n] = 0
        \/ server = None
        \/ {FileOf[n], Authority} \cap hurt # {}
        \/ Writers(FileOf[n]) # {}
        \/ Connects(n)

(***************************************************************************)
(* A directory's authority is for ever: once both its files are written,   *)
(* no call replaces either, unless two init_ca had both found the          *)
(* directory empty.  (pki.init_ca, "refusing to overwrite")                *)
(***************************************************************************)
AuthorityKept ==
    [][ \/ Missing.key = files[Authority].key
        \/ Missing.cert = files[Authority].cert
        \/ Authority \in hurt
        \/ files'[Authority] = files[Authority] ]_enrollVars

=============================================================================
