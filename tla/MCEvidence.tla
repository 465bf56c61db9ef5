------------------------------ MODULE MCEvidence -----------------------------
(* Instances for TLC of the records the program keeps of itself:              *)
(* ArtifactStore, AuditChain and PolicyTable, whose changes are audited.      *)
(* They share no variable, so one run explores one after the other: `part` is *)
(* chosen at the start.  No name is in two of them, so that what is checked   *)
(* here is what EvidenceProofs is about.                                      *)
EXTENDS ArtifactStore, AuditChain, PolicyTable, TLC

VARIABLE part

\* One thread is the command line's, the others are the server's.
TwoProcesses == LET other == CHOOSE t \in Threads : TRUE
                IN [t \in Threads |-> IF t = other THEN "cli" ELSE "server"]

\* Role 1 may do one action, role 2, the administrator, everything.
TwoRoles == 1 :> {CHOOSE a \in Actions : a \notin Destructive} @@ 2 :> {All}

evidenceVars == <<part, storeVars, chainVars, policyVars>>

EvidenceInit ==
    part \in {"store", "chain", "policy"} /\ StoreInit /\ ChainInit /\ PolicyInit

\* A step of one part leaves the others alone.
StoreStep  == part = "store" /\ StoreNext /\ UNCHANGED <<part, chainVars, policyVars>>
ChainStep  == part = "chain" /\ ChainNext /\ UNCHANGED <<part, storeVars, policyVars>>
PolicyStep == part = "policy" /\ PolicyNext /\ UNCHANGED <<part, storeVars, chainVars>>

EvidenceNext == StoreStep \/ ChainStep \/ PolicyStep

EvidenceSpec == EvidenceInit /\ [][EvidenceNext]_evidenceVars

\* Every variable of every part has its type.
EvidenceTypeOK == StoreTypeOK /\ ChainTypeOK /\ PolicyTypeOK
=============================================================================
