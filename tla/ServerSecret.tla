---------------------------- MODULE ServerSecret -----------------------------
(***************************************************************************)
(* serversecret370.py: every server process loads the secret of its root,  *)
(* and the first ones to start create it at once.                          *)
(***************************************************************************)
EXTENDS Naturals

CONSTANTS Servers,
          Retries,     \* _SECRET_CREATE_RETRIES
          MaxSlips     \* bound: writes that fail, processes killed

\* Assumed by the modules that give the constants values.
SecretAssumption ==
    /\ Retries \in Nat \ {0} /\ MaxSlips \in Nat
    /\ Servers \cap {"absent", "short"} = {}

VARIABLES key,      \* server-secret.key: "absent", "short", or whose bytes
          server,   \* where each is, the turn it is at, what it returned
          slips,
          broken    \* a write failed after its bytes were in the file

vars == <<key, server, slips, broken>>

Keys == Servers \cup {"absent", "short"}
Fresh == [at |-> "down", turn |-> 0, secret |-> "absent"]

States == [at : {"down", "read", "create", "write", "sync", "loaded", "failed"},
           turn : 0 .. Retries, secret : Servers \cup {"absent"}]

TypeOK ==
    /\ key \in Keys
    /\ server \in [Servers -> States]
    /\ slips \in 0 .. MaxSlips
    /\ broken \in BOOLEAN

Init ==
    /\ key = "absent"
    /\ server = [s \in Servers |-> Fresh]
    /\ slips = 0
    /\ broken = FALSE

At(s, step) == server[s].at = step
Goto(s, step) == [server EXCEPT ![s].at = step]
Loaded(s, secret) == [server EXCEPT ![s].at = "loaded", ![s].secret = secret]

\* The next turn of the loop, or the error after the last.
Again(s) ==
    [server EXCEPT ![s].at = IF server[s].turn < Retries - 1 THEN "read" ELSE "failed",
                   ![s].turn = @ + 1]

Begin(s) ==
    /\ At(s, "down")
    /\ server' = Goto(s, "read")
    /\ UNCHANGED <<key, slips, broken>>

\* len(data) == _SECRET_BYTES
LongEnough(k) == k \in Servers

Read(s) ==
    /\ At(s, "read")
    /\ server' = IF key = "absent" THEN Goto(s, "create")
                 ELSE IF LongEnough(key) THEN Loaded(s, key)
                 ELSE Again(s)
    /\ UNCHANGED <<key, slips, broken>>

\* Faulty: opened for writing without O_EXCL.
CreateAnyway(s) ==
    /\ At(s, "create")
    /\ key' = "short"
    /\ server' = Goto(s, "write")
    /\ UNCHANGED <<slips, broken>>

\* O_EXCL: one creator; the others wait for it.
Create(s) ==
    /\ At(s, "create")
    /\ IF key = "absent"
       THEN /\ key' = "short"
            /\ server' = Goto(s, "write")
       ELSE /\ server' = Again(s)
            /\ UNCHANGED key
    /\ UNCHANGED <<slips, broken>>

\* Only its creator writes the file or removes it.
Write(s) ==
    /\ At(s, "write")
    /\ key' = s
    /\ server' = Goto(s, "sync")
    /\ UNCHANGED <<slips, broken>>

Sync(s) ==
    /\ At(s, "sync")
    /\ server' = Loaded(s, s)
    /\ UNCHANGED <<key, slips, broken>>

\* An error of write or fsync: the file is removed and the error raised.
WriteFails(s) ==
    /\ server[s].at \in {"write", "sync"}
    /\ slips < MaxSlips /\ slips' = slips + 1
    /\ key' = "absent"
    /\ server' = Goto(s, "failed")
    /\ broken' = (broken \/ At(s, "sync"))

Killed(s) ==
    /\ server[s].at # "down"
    /\ slips < MaxSlips /\ slips' = slips + 1
    /\ server' = [server EXCEPT ![s] = Fresh]
    /\ UNCHANGED <<key, broken>>

\* A server is stopped, or one that failed ends.
Exit(s) ==
    /\ server[s].at \in {"loaded", "failed"}
    /\ server' = [server EXCEPT ![s] = Fresh]
    /\ UNCHANGED <<key, slips, broken>>

Load(s) == Read(s) \/ Create(s) \/ Write(s) \/ Sync(s)

Next == \E s \in Servers :
            Begin(s) \/ Load(s) \/ WriteFails(s) \/ Killed(s) \/ Exit(s)

Spec == Init /\ [][Next]_vars

-----------------------------------------------------------------------------
(* Properties *)

\* Servers of one root sign with one secret: all that loaded one loaded the
\* same, unless a creator failed after its bytes were there to be read.
OneSecret ==
    ~broken => \A s, t \in Servers :
        At(s, "loaded") /\ At(t, "loaded") => server[s].secret = server[t].secret
=============================================================================
