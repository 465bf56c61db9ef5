------------------------------- MODULE Uploads -------------------------------
(* Uploads of files with one name (webapp.py, core/files.py): each looks for  *)
(* a name that is free, and many write at the same time, chunk by chunk.      *)
EXTENDS Integers, FiniteSets

CONSTANT Uploads

VARIABLES
    upload,   \* upload -> its request
    files     \* suffix of the name -> whose content the file holds

uploadVars == <<upload, files>>

None == "none"
Mixed == "mixed"     \* two writers' bytes in one file

UploadsAssumption == IsFiniteSet(Uploads) /\ {None, Mixed} \cap Uploads = {}

Suffixes == 0 .. Cardinality(Uploads)

Init ==
    /\ upload = [u \in Uploads |-> [pc |-> "idle", at |-> 0]]
    /\ files = [n \in Suffixes |-> None]

(* A name that only the uploads already answered count for.                  *)
VacantOfDone ==
    CHOOSE n \in Suffixes :
        /\ \A u \in Uploads : upload[u].pc = "ok" => upload[u].at # n
        /\ \A m \in 0 .. n - 1 : \E u \in Uploads : upload[u].pc = "ok" /\ upload[u].at = m

(* collision_safe_path: the first name that no file has.                     *)
Vacant ==
    CHOOSE n \in Suffixes : files[n] = None /\ \A m \in 0 .. n - 1 : files[m] # None

(* The name is found and the file opened with no await between them.         *)
OpenUpload(u) ==
    /\ upload[u].pc = "idle"
    /\ upload' = [upload EXCEPT ![u] = [pc |-> "open", at |-> Vacant]]
    /\ files' = [files EXCEPT ![Vacant] = u]

(* The chunks were awaited and written; the answer has the file's digest.    *)
EndUpload(u) ==
    /\ upload[u].pc = "open"
    /\ upload' = [upload EXCEPT ![u].pc = "ok"]
    /\ files' = [files EXCEPT ![upload[u].at] = IF @ \in {u, None} THEN @ ELSE Mixed]

(* Beyond the limit the file is removed and the request refused.             *)
RefuseUpload(u) ==
    /\ upload[u].pc = "open"
    /\ upload' = [upload EXCEPT ![u].pc = "refused"]
    /\ files' = [files EXCEPT ![upload[u].at] = None]

Next == \E u \in Uploads : OpenUpload(u) \/ EndUpload(u) \/ RefuseUpload(u)

-----------------------------------------------------------------------------

TypeOK ==
    /\ \A u \in Uploads : /\ upload[u].pc \in {"idle", "open", "ok", "refused"}
                          /\ upload[u].at \in Suffixes
    /\ files \in [Suffixes -> Uploads \cup {None, Mixed}]

(* An upload that was answered is what its file holds, whatever was uploaded *)
(* under the same name at the same time and whichever upload was refused.    *)
UploadsKept == \A u \in Uploads : upload[u].pc = "ok" => files[upload[u].at] = u
=============================================================================
