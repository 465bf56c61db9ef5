---------------------------- MODULE ArtifactStore ----------------------------
(***************************************************************************)
(* The content-addressed evidence store: core/artifacts360.py over the     *)
(* artifact tables of core/storage360.py.                                  *)
(*                                                                         *)
(* Files and rows are separate resources, touched in turn by whichever     *)
(* threads and processes import evidence or collect garbage; no lock spans *)
(* the two.  A file appears whole (os.replace of a temporary), so a file   *)
(* is present or absent here.                                              *)
(***************************************************************************)
EXTENDS Naturals, FiniteSets

CONSTANTS Digests,        \* contents, by their SHA-256
          Compressions,   \* how a source may be stored: by suffix and size
          Importers, Collectors,   \* threads; one may be both
          MaxImports,     \* bound: references added in all
          MaxCrashes      \* bound: threads killed in the middle of an operation

ASSUME ArtifactAssumption ==
    MaxImports \in Nat /\ MaxCrashes \in Nat /\ "absent" \notin Compressions

Procs == Importers \cup Collectors

VARIABLES files,     \* stored files: <<digest, compression>>
          objects,   \* artifact_objects
          refs,      \* refs[d]: how many artifact_refs rows name d
          proc,      \* the operation each thread is in
          crashes,
          cut        \* a collector was killed after a file, before its row

storeVars == <<files, objects, refs, proc, crashes, cut>>

Idle == [at |-> "idle"]
NoObject == [compression |-> "absent", count |-> 0]

Files == Digests \X Compressions

\* What a row says, and what a thread knows in the middle of an operation.
Rows == [compression : Compressions, count : 0 .. MaxImports]
Imports == [at : {"write", "stat", "register", "reference"}, file : Files]
Sweeps == [at : {"unlink"}, left : SUBSET Files]
Removals == [at : {"delete"}, left : SUBSET Files, file : Files]

StoreTypeOK ==
    /\ files \subseteq Files
    /\ objects \in [Digests -> {NoObject} \cup Rows]
    /\ refs \in [Digests -> 0 .. MaxImports]
    /\ proc \in [Procs -> {Idle} \cup Imports \cup Sweeps \cup Removals]
    /\ crashes \in 0 .. MaxCrashes
    /\ cut \in BOOLEAN

StoreInit ==
    /\ files = {}
    /\ objects = [d \in Digests |-> NoObject]
    /\ refs = [d \in Digests |-> 0]
    /\ proc = [p \in Procs |-> Idle]
    /\ crashes = 0
    /\ cut = FALSE

Goto(p, state) == proc' = [proc EXCEPT ![p] = state]
DigestOf(p) == proc[p].file[1]

Importing == {p \in Procs : proc[p].at \in {"write", "stat", "register", "reference"}}

-----------------------------------------------------------------------------
(* import_file *)

\* The content is hashed, its storage form chosen, and the target looked for.
ImportBegin(p, f) ==
    /\ p \in Importers
    /\ proc[p] = Idle
    /\ refs[f[1]] + Cardinality(Importing) < MaxImports
    /\ Goto(p, [at |-> IF f \in files THEN "stat" ELSE "write", file |-> f])
    /\ UNCHANGED <<files, objects, refs, crashes, cut>>

ImportWrite(p) ==
    /\ proc[p].at = "write"
    /\ files' = files \cup {proc[p].file}
    /\ Goto(p, [proc[p] EXCEPT !.at = "stat"])
    /\ UNCHANGED <<objects, refs, crashes, cut>>

\* target.stat(): a file that has gone meanwhile ends the import.
ImportStat(p) ==
    /\ proc[p].at = "stat"
    /\ Goto(p, IF proc[p].file \in files THEN [proc[p] EXCEPT !.at = "register"] ELSE Idle)
    /\ UNCHANGED <<files, objects, refs, crashes, cut>>

\* register_artifact_object: INSERT OR IGNORE, so an earlier row stays.
ImportRegister(p) ==
    /\ proc[p].at = "register"
    /\ objects' = IF objects[DigestOf(p)] = NoObject
                  THEN [objects EXCEPT ![DigestOf(p)] =
                           [compression |-> proc[p].file[2], count |-> 0]]
                  ELSE objects
    /\ Goto(p, [proc[p] EXCEPT !.at = "reference"])
    /\ UNCHANGED <<files, refs, crashes, cut>>

\* Faulty: the count is raised by the two statements that both raise it.
ImportReferenceTwice(p) ==
    /\ proc[p].at = "reference"
    /\ LET d == DigestOf(p) IN
         /\ refs' = [refs EXCEPT ![d] = @ + 1]
         /\ objects' = IF objects[d] = NoObject THEN objects
                       ELSE [objects EXCEPT ![d].count = @ + 2]
    /\ Goto(p, Idle)
    /\ UNCHANGED <<files, crashes, cut>>

\* add_artifact_reference: the row is inserted (foreign keys are not enforced
\* on the store's connections) and the count, if there is an object, raised.
ImportReference(p) ==
    /\ proc[p].at = "reference"
    /\ LET d == DigestOf(p) IN
         /\ refs' = [refs EXCEPT ![d] = @ + 1]
         /\ objects' = IF objects[d] = NoObject THEN objects
                       ELSE [objects EXCEPT ![d].count = @ + 1]
    /\ Goto(p, Idle)
    /\ UNCHANGED <<files, crashes, cut>>

-----------------------------------------------------------------------------
(* gc(dry_run=False): the candidates are read once; for each, the file is  *)
(* removed and then the row, if its count is still zero.                   *)

Unreferenced == {d \in Digests : objects[d] # NoObject /\ objects[d].count = 0}

CollectBegin(p) ==
    /\ p \in Collectors
    /\ proc[p] = Idle
    /\ Unreferenced # {}
    /\ Goto(p, [at |-> "unlink", left |-> {<<d, objects[d].compression>> : d \in Unreferenced}])
    /\ UNCHANGED <<files, objects, refs, crashes, cut>>

CollectUnlink(p, f) ==
    /\ proc[p].at = "unlink"
    /\ f \in proc[p].left
    /\ files' = files \ {f}
    /\ Goto(p, [at |-> "delete", left |-> proc[p].left \ {f}, file |-> f])
    /\ UNCHANGED <<objects, refs, crashes, cut>>

\* Faulty: trusts the candidates that were read.
CollectDeleteAnyway(p) ==
    /\ proc[p].at = "delete"
    /\ objects' = [objects EXCEPT ![DigestOf(p)] = NoObject]
    /\ Goto(p, IF proc[p].left = {} THEN Idle ELSE [at |-> "unlink", left |-> proc[p].left])
    /\ UNCHANGED <<files, refs, crashes, cut>>

CollectDelete(p) ==
    /\ proc[p].at = "delete"
    /\ objects' = IF objects[DigestOf(p)].count = 0
                  THEN [objects EXCEPT ![DigestOf(p)] = NoObject] ELSE objects
    /\ Goto(p, IF proc[p].left = {} THEN Idle ELSE [at |-> "unlink", left |-> proc[p].left])
    /\ UNCHANGED <<files, refs, crashes, cut>>

Crash(p) ==
    /\ proc[p] # Idle
    /\ crashes < MaxCrashes
    /\ crashes' = crashes + 1
    /\ cut' = (cut \/ proc[p].at = "delete")
    /\ Goto(p, Idle)
    /\ UNCHANGED <<files, objects, refs>>

-----------------------------------------------------------------------------

Import(p) ==
    \/ \E f \in Files : ImportBegin(p, f)
    \/ ImportWrite(p) \/ ImportStat(p) \/ ImportRegister(p) \/ ImportReference(p)

Collect(p) ==
    \/ CollectBegin(p)
    \/ \E f \in Files : CollectUnlink(p, f)
    \/ CollectDelete(p)

StoreNext == \E p \in Procs : Import(p) \/ Collect(p) \/ Crash(p)

StoreSpec == StoreInit /\ [][StoreNext]_storeVars

-----------------------------------------------------------------------------

\* "Garbage collection removes only unreferenced objects": content that some
\* reference names has a row that counts its references, it is stored in some
\* form, and the file the row names is there, unless a collector was killed
\* before it deleted the row of a file it had removed: then a later import in
\* another form is registered under that row.
ReferencedKept ==
    \A d \in Digests : refs[d] > 0 =>
        /\ objects[d].count = refs[d]
        /\ \E c \in Compressions : <<d, c>> \in files
        /\ <<d, objects[d].compression>> \in files \/ cut

Collecting == {p \in Procs : proc[p].at \in {"unlink", "delete"}}

\* The code keeps it among any number of importers and collectors, wherever they
\* are killed, as long as no import overlaps a collection; a collector that has
\* read its candidates removes the file of one referenced since.
KeptUnlessOverlap ==
    [](Importing = {} \/ Collecting = {}) => []ReferencedKept

\* Whatever runs concurrently and wherever it is killed, the row of an object
\* that has been counted is never deleted and its count never falls.
CountedRowsStay ==
    [][\A d \in Digests : objects[d].count > 0 =>
         /\ objects'[d].compression = objects[d].compression
         /\ objects'[d].count >= objects[d].count]_storeVars

\* Evidence once referenced stays: its row always, its file unless they overlap.
EvidenceKept == CountedRowsStay /\ KeptUnlessOverlap
=============================================================================
