--------------------------- MODULE EvidenceProofs ---------------------------
(***************************************************************************)
(* Proofs about the three parts of MCEvidence, and about the specification *)
(* that runs them:                                                         *)
(*   EvidenceTypeCorrect  EvidenceSpec => []EvidenceTypeOK                 *)
(*   EvidenceIsKept       StoreSpec => EvidenceKept                        *)
(*   DecisionsAreSound    PolicySpec => [](PolicyTypeOK /\                 *)
(*                                         DecidedByOneTable)              *)
(*   TrailIsOneChain      ChainSpec => []ChainHolds                        *)
(***************************************************************************)
EXTENDS MCEvidence, TLAPS, FiniteSetTheorems, WellFoundedInduction

\* A set grows by at most one element at a time.
LEMMA OneMore ==
    ASSUME NEW S, IsFiniteSet(S), NEW x
    PROVE  /\ IsFiniteSet(S \cup {x})
           /\ Cardinality(S \cup {x}) \in Nat
           /\ Cardinality(S \cup {x}) <= Cardinality(S) + 1
<1>1. /\ IsFiniteSet(S \cup {x})
      /\ Cardinality(S \cup {x}) = IF x \in S THEN Cardinality(S) ELSE Cardinality(S) + 1
  BY FS_AddElement
<1>2. Cardinality(S) \in Nat /\ Cardinality(S \cup {x}) \in Nat
  BY <1>1, FS_CardinalityType
<1> QED BY <1>1, <1>2

-----------------------------------------------------------------------------
(* The evidence store. *)

\* What a thread holds tells where it is.
LEMMA StoreShape ==
    ASSUME StoreTypeOK, NEW p \in Procs
    PROVE  /\ proc[p].at = "idle" => proc[p] = Idle
           /\ p \in Importing <=> proc[p] \in Imports
           /\ proc[p].at = "unlink" => proc[p] \in Sweeps
           /\ proc[p].at = "delete" => proc[p] \in Removals
           /\ p \in Collecting <=> proc[p] \in Sweeps \cup Removals
BY DEF StoreTypeOK, Idle, Imports, Sweeps, Removals, Importing, Collecting

\* The imports under way of one content.
For(d) == {p \in Importing : proc[p].file[1] = d}

\* The bound on references is kept by the imports that have begun, and a row
\* counts no more than there are.
BoundInv ==
    /\ IsFiniteSet(Importing)
    /\ \A d \in Digests : /\ objects[d].count <= refs[d]
                          /\ refs[d] + Cardinality(For(d)) <= MaxImports

StoreInv == StoreTypeOK /\ BoundInv

LEMMA StoreInitInv == StoreInit => StoreInv
<1> SUFFICES ASSUME StoreInit PROVE StoreInv
  OBVIOUS
<1>1. StoreTypeOK
  <2>1. MaxImports \in Nat /\ MaxCrashes \in Nat
    BY ArtifactAssumption
  <2>2. objects \in [Digests -> {NoObject} \cup Rows]
    BY DEF StoreInit
  <2>3. refs \in [Digests -> 0 .. MaxImports]
    BY <2>1 DEF StoreInit
  <2>4. proc \in [Procs -> {Idle} \cup Imports \cup Sweeps \cup Removals]
    BY DEF StoreInit
  <2>5. files \subseteq Files /\ crashes \in 0 .. MaxCrashes
    BY <2>1 DEF StoreInit
  <2>6. cut \in BOOLEAN
    BY Zenon DEF StoreInit
  <2> QED BY <2>2, <2>3, <2>4, <2>5, <2>6 DEF StoreTypeOK
<1>2. Importing = {} /\ \A d \in Digests : For(d) = {}
  BY DEF StoreInit, Importing, Idle, For
<1> QED
  BY <1>1, <1>2, FS_EmptySet, ArtifactAssumption
     DEF StoreInv, BoundInv, StoreInit, NoObject

\* Imports that end, or go on, leave room for those to come.
LEMMA RoomLeft ==
    ASSUME StoreInv, Importing' \subseteq Importing, refs' = refs,
           \A d \in Digests : For(d)' \subseteq For(d) /\ objects'[d].count <= refs[d]
    PROVE  BoundInv'
<1>1. IsFiniteSet(Importing')
  BY FS_Subset DEF StoreInv, BoundInv
<1>2. ASSUME NEW d \in Digests
      PROVE  refs[d] + Cardinality(For(d)') <= MaxImports
  <2>1. IsFiniteSet(For(d)) /\ For(d)' \subseteq For(d)
    BY FS_Subset DEF StoreInv, BoundInv, For
  <2>2. Cardinality(For(d)') <= Cardinality(For(d)) /\ Cardinality(For(d)) \in Nat
        /\ Cardinality(For(d)') \in Nat
    BY <2>1, FS_Subset, FS_CardinalityType
  <2> QED BY <2>2, ArtifactAssumption DEF StoreInv, BoundInv, StoreTypeOK
<1> QED BY <1>1, <1>2 DEF BoundInv

LEMMA StoreStepInv == StoreInv /\ [StoreNext]_storeVars => StoreInv'
<1> SUFFICES ASSUME StoreInv, [StoreNext]_storeVars PROVE StoreInv'
  OBVIOUS
<1> USE ArtifactAssumption
<1>0. StoreTypeOK
  BY DEF StoreInv
<1>1. ASSUME NEW p \in Procs, NEW f \in Files, ImportBegin(p, f) PROVE StoreInv'
  <2>1. /\ Importing' = Importing \cup {p}
        /\ \A d \in Digests : For(d)' \subseteq IF d = f[1] THEN For(d) \cup {p} ELSE For(d)
    BY <1>0, <1>1 DEF ImportBegin, Goto, Importing, For, StoreTypeOK, Idle
  <2>2. StoreTypeOK'
    BY <1>0, <1>1 DEF ImportBegin, Goto, StoreTypeOK, Imports
  <2>3. IsFiniteSet(Importing')
    BY <2>1, FS_AddElement DEF StoreInv, BoundInv
  <2>4. ASSUME NEW d \in Digests PROVE refs[d] + Cardinality(For(d)') <= MaxImports
    <3>1. CASE d = f[1]
      <4>1. IsFiniteSet(For(d)) /\ Cardinality(For(d)) <= Cardinality(Importing)
            /\ Cardinality(For(d)) \in Nat /\ Cardinality(Importing) \in Nat
        BY FS_Subset, FS_CardinalityType DEF StoreInv, BoundInv, For
      <4>2. IsFiniteSet(For(d) \cup {p})
            /\ Cardinality(For(d) \cup {p}) <= Cardinality(For(d)) + 1
            /\ Cardinality(For(d) \cup {p}) \in Nat
        BY <4>1, OneMore
      <4>3. Cardinality(For(d)') <= Cardinality(For(d) \cup {p}) /\ Cardinality(For(d)') \in Nat
        BY <2>1, <3>1, <4>2, FS_Subset, FS_CardinalityType
      <4>4. refs[d] + Cardinality(Importing) < MaxImports /\ refs[d] \in Nat
        BY <1>0, <1>1, <3>1 DEF ImportBegin, StoreTypeOK
      <4> QED BY <4>1, <4>2, <4>3, <4>4
    <3>2. CASE d # f[1]
      <4>1. IsFiniteSet(For(d)) /\ For(d)' \subseteq For(d)
        BY <2>1, <3>2, FS_Subset DEF StoreInv, BoundInv, For
      <4>2. Cardinality(For(d)') <= Cardinality(For(d)) /\ Cardinality(For(d)) \in Nat
            /\ Cardinality(For(d)') \in Nat
        BY <4>1, FS_Subset, FS_CardinalityType
      <4> QED BY <1>0, <4>2 DEF StoreInv, BoundInv, StoreTypeOK
    <3> QED BY <3>1, <3>2
  <2> QED BY <1>1, <2>2, <2>3, <2>4 DEF StoreInv, BoundInv, ImportBegin
<1>2. ASSUME NEW p \in Procs, ImportWrite(p) \/ ImportStat(p) PROVE StoreInv'
  <2>1. proc[p] \in Imports
    BY <1>0, <1>2, StoreShape DEF ImportWrite, ImportStat, Importing
  <2>2. proc'[p] \in {Idle} \cup Imports /\ (proc'[p] # Idle => proc'[p].file = proc[p].file)
        /\ \A q \in Procs \ {p} : proc'[q] = proc[q]
    <3> DEFINE on(where) == [proc[p] EXCEPT !.at = where]
    <3>1. /\ on("stat") \in Imports /\ on("stat").file = proc[p].file
          /\ on("register") \in Imports /\ on("register").file = proc[p].file
      BY <2>1 DEF Imports
    <3>2. proc'[p] \in {Idle, on("stat"), on("register")}
          /\ \A q \in Procs \ {p} : proc'[q] = proc[q]
      BY <1>0, <1>2 DEF ImportWrite, ImportStat, Goto, StoreTypeOK
    <3> HIDE DEF on
    <3> QED BY <3>1, <3>2
  <2>3. StoreTypeOK'
    BY <1>0, <1>2, <2>1, <2>2 DEF ImportWrite, ImportStat, Goto, StoreTypeOK, Imports
  <2>4. Importing' \subseteq Importing /\ \A d \in Digests : For(d)' \subseteq For(d)
    BY <1>0, <2>1, <2>2, StoreShape DEF Importing, For, Idle
  <2>5. BoundInv'
    BY <1>2, <2>4, RoomLeft DEF ImportWrite, ImportStat, StoreInv, BoundInv
  <2> QED BY <2>3, <2>5 DEF StoreInv
<1>3. ASSUME NEW p \in Procs, ImportRegister(p) PROVE StoreInv'
  <2>1. proc[p] \in Imports /\ DigestOf(p) \in Digests
    BY <1>0, <1>3, StoreShape DEF ImportRegister, Importing, DigestOf, Imports, Files
  <2> DEFINE new == [compression |-> proc[p].file[2], count |-> 0]
             on  == [proc[p] EXCEPT !.at = "reference"]
  <2>2. new \in Rows /\ new.count = 0
    BY <2>1 DEF Rows, Imports, Files
  <2>3. on \in Imports /\ on.file = proc[p].file
    BY <2>1 DEF Imports
  <2>4. \/ objects' = objects
        \/ objects[DigestOf(p)] = NoObject
           /\ objects' = [objects EXCEPT ![DigestOf(p)] = new]
    BY <1>3 DEF ImportRegister
  <2>5. proc' = [proc EXCEPT ![p] = on]
    BY <1>3 DEF ImportRegister, Goto
  <2> HIDE DEF new, on
  <2>6. StoreTypeOK'
    BY <1>0, <1>3, <2>1, <2>2, <2>3, <2>4, <2>5 DEF ImportRegister, StoreTypeOK
  <2>7. Importing' \subseteq Importing /\ \A d \in Digests : For(d)' \subseteq For(d)
    BY <1>0, <2>1, <2>3, <2>5, StoreShape DEF Importing, For, StoreTypeOK
  <2>8. \A d \in Digests : objects'[d].count <= refs[d]
    BY <1>0, <2>2, <2>4 DEF StoreInv, BoundInv, StoreTypeOK, NoObject
  <2>9. BoundInv'
    BY <1>3, <2>7, <2>8, RoomLeft DEF ImportRegister
  <2> QED BY <2>6, <2>9 DEF StoreInv
<1>4. ASSUME NEW p \in Procs, ImportReference(p) PROVE StoreInv'
  <2> DEFINE d0 == DigestOf(p)
             more == [objects[d0] EXCEPT !.count = @ + 1]
  <2>1. proc[p] \in Imports /\ d0 \in Digests /\ p \in For(d0)
    BY <1>0, <1>4, StoreShape DEF ImportReference, Importing, DigestOf, Imports, Files, For
  <2>2. /\ Importing' = Importing \ {p}
        /\ \A d \in Digests : For(d)' = For(d) \ {p}
    BY <1>0, <1>4 DEF ImportReference, Goto, Importing, For, Idle, StoreTypeOK
  <2>3. refs[d0] \in Nat /\ refs[d0] + 1 <= MaxImports
    <3>1. IsFiniteSet(For(d0))
      BY FS_Subset DEF StoreInv, BoundInv, For
    <3>2. Cardinality(For(d0)) \in Nat /\ Cardinality(For(d0)) # 0
      BY <2>1, <3>1, FS_CardinalityType, FS_EmptySet
    <3> QED BY <1>0, <2>1, <3>2 DEF StoreInv, BoundInv, StoreTypeOK
  <2>4. objects[d0] # NoObject => /\ objects[d0] \in Rows
                                  /\ more \in Rows /\ more.count = objects[d0].count + 1
                                  /\ objects[d0].count <= refs[d0]
    <3>1. objects[d0].count <= refs[d0] /\ objects[d0] \in {NoObject} \cup Rows
      BY <1>0, <2>1 DEF StoreInv, BoundInv, StoreTypeOK
    <3> QED BY <2>3, <3>1 DEF Rows
  <2>5. /\ refs' = [refs EXCEPT ![d0] = @ + 1]
        /\ \/ objects[d0] = NoObject /\ objects' = objects
           \/ objects[d0] # NoObject /\ objects' = [objects EXCEPT ![d0] = more]
    BY <1>4 DEF ImportReference
  <2>6. proc' = [proc EXCEPT ![p] = Idle] /\ UNCHANGED <<files, crashes, cut>>
    BY <1>4 DEF ImportReference, Goto
  <2> HIDE DEF d0, more
  <2>7. StoreTypeOK'
    BY <1>0, <2>1, <2>3, <2>4, <2>5, <2>6 DEF StoreTypeOK
  <2>8. IsFiniteSet(Importing')
    BY <2>2, FS_Subset DEF StoreInv, BoundInv
  <2>9. ASSUME NEW d \in Digests
        PROVE  objects'[d].count <= refs'[d] /\ refs'[d] + Cardinality(For(d)') <= MaxImports
    <3>1. IsFiniteSet(For(d))
      BY FS_Subset DEF StoreInv, BoundInv, For
    <3>2. /\ Cardinality(For(d)) \in Nat
          /\ Cardinality(For(d)') = IF p \in For(d) THEN Cardinality(For(d)) - 1
                                                    ELSE Cardinality(For(d))
      BY <2>2, <3>1, FS_CardinalityType, FS_RemoveElement
    <3>3. objects[d].count \in Nat /\ refs[d] \in Nat
      BY <1>0 DEF StoreTypeOK, NoObject, Rows
    <3>4. objects'[d].count <= refs'[d]
      BY <1>0, <2>1, <2>4, <2>5, <3>3 DEF StoreInv, BoundInv, StoreTypeOK, NoObject
    <3>5. refs'[d] + Cardinality(For(d)') <= MaxImports
      BY <1>0, <2>1, <2>5, <3>2, <3>3 DEF StoreInv, BoundInv, StoreTypeOK
    <3> QED BY <3>4, <3>5
  <2> QED BY <2>7, <2>8, <2>9 DEF StoreInv, BoundInv
<1>5. ASSUME NEW p \in Procs, Collect(p) \/ Crash(p) PROVE StoreInv'
  <2>1. Importing' \subseteq Importing /\ \A d \in Digests : For(d)' \subseteq For(d)
    BY <1>0, <1>5 DEF Collect, CollectBegin, CollectUnlink, CollectDelete, Crash, Goto,
                      Importing, For, Idle, StoreTypeOK
  <2>2. objects' \in [Digests -> {NoObject} \cup Rows]
        /\ \A d \in Digests : objects'[d].count <= refs[d]
    <3>1. \A d \in Digests : objects'[d] \in {objects[d], NoObject}
      BY <1>0, <1>5
         DEF Collect, CollectBegin, CollectUnlink, CollectDelete, Crash, StoreTypeOK
    <3>2. objects' \in [Digests -> {NoObject} \cup Rows]
      <4>1. CASE UNCHANGED objects
        BY <1>0, <4>1 DEF StoreTypeOK
      <4>2. CASE CollectDelete(p)
        BY <1>0, <4>2 DEF CollectDelete, StoreTypeOK
      <4> QED BY <1>5, <4>1, <4>2 DEF Collect, CollectBegin, CollectUnlink, Crash
    <3> QED BY <1>0, <3>1, <3>2 DEF StoreInv, BoundInv, StoreTypeOK, NoObject
  <2>3. proc' \in [Procs -> {Idle} \cup Imports \cup Sweeps \cup Removals]
    <3>1. CASE CollectBegin(p)
      <4>1. {<<d, objects[d].compression>> : d \in Unreferenced} \subseteq Files
        BY <1>0 DEF Unreferenced, Files, StoreTypeOK, Rows
      <4> QED BY <1>0, <3>1, <4>1 DEF CollectBegin, Goto, StoreTypeOK, Sweeps
    <3>2. CASE \E f \in Files : CollectUnlink(p, f)
      BY <1>0, <3>2, StoreShape DEF CollectUnlink, Goto, StoreTypeOK, Sweeps, Removals
    <3>3. CASE CollectDelete(p)
      BY <1>0, <3>3, StoreShape DEF CollectDelete, Goto, StoreTypeOK, Sweeps, Removals
    <3>4. CASE Crash(p)
      BY <1>0, <3>4 DEF Crash, Goto, StoreTypeOK
    <3> QED BY <1>5, <3>1, <3>2, <3>3, <3>4 DEF Collect
  <2>4. files' \subseteq Files /\ refs' = refs /\ crashes' \in 0 .. MaxCrashes
    <3>1. files' \subseteq files /\ refs' = refs
      BY <1>5 DEF Collect, CollectBegin, CollectUnlink, CollectDelete, Crash
    <3>2. crashes' = crashes \/ (crashes < MaxCrashes /\ crashes' = crashes + 1)
      BY <1>5 DEF Collect, CollectBegin, CollectUnlink, CollectDelete, Crash
    <3>3. crashes' \in 0 .. MaxCrashes
      BY <1>0, <3>2 DEF StoreTypeOK
    <3> QED BY <1>0, <3>1, <3>3 DEF StoreTypeOK
  <2>5. cut' \in BOOLEAN
    BY <1>0, <1>5, Zenon
       DEF Collect, CollectBegin, CollectUnlink, CollectDelete, Crash, StoreTypeOK
  <2>6. StoreTypeOK'
    BY <1>0, <2>2, <2>3, <2>4, <2>5 DEF StoreTypeOK
  <2>7. BoundInv'
    BY <2>1, <2>2, <2>4, RoomLeft
  <2> QED BY <2>6, <2>7 DEF StoreInv
<1>6. CASE UNCHANGED storeVars
  BY <1>6 DEF storeVars, StoreInv, BoundInv, StoreTypeOK, Importing, For
<1> QED BY <1>1, <1>2, <1>3, <1>4, <1>5, <1>6 DEF StoreNext, Import

\* Every variable of the store has its type, however many references were added.
THEOREM StoreTypeCorrect == StoreSpec => []StoreTypeOK
<1>1. StoreInv => StoreTypeOK
  BY DEF StoreInv
<1> QED BY <1>1, StoreInitInv, StoreStepInv, PTL DEF StoreSpec

\* A row is deleted only with a count of zero, and a count is only ever raised.
LEMMA CountedStay ==
    ASSUME StoreTypeOK, StoreNext, NEW d \in Digests, objects[d].count > 0
    PROVE  objects'[d].compression = objects[d].compression
           /\ objects'[d].count >= objects[d].count
<1>1. objects[d] \in Rows /\ objects[d] # NoObject
  BY DEF StoreTypeOK, NoObject
<1> DEFINE more == [objects[d] EXCEPT !.count = @ + 1]
<1>2. more.compression = objects[d].compression /\ more.count = objects[d].count + 1
  BY <1>1 DEF Rows
<1>3. objects'[d] \in {objects[d], more}
  <2>1. PICK p \in Procs : Import(p) \/ Collect(p) \/ Crash(p)
    BY DEF StoreNext
  <2>2. CASE ImportReference(p)
    BY <2>2 DEF ImportReference, StoreTypeOK
  <2>3. CASE ImportRegister(p)
    BY <1>1, <2>3 DEF ImportRegister, StoreTypeOK
  <2>4. CASE CollectDelete(p)
    BY <1>1, <2>4 DEF CollectDelete, StoreTypeOK
  <2>5. CASE UNCHANGED objects
    BY <2>5
  <2> QED BY <2>1, <2>2, <2>3, <2>4, <2>5
       DEF Import, Collect, ImportBegin, ImportWrite, ImportStat, CollectBegin,
           CollectUnlink, Crash
<1> HIDE DEF more
<1> QED BY <1>1, <1>2, <1>3 DEF Rows

-----------------------------------------------------------------------------
(* What keeps evidence while imports and collections do not overlap: counts  *)
(* are true, an import that registers has its file and one that references   *)
(* has its row, what a collection is about to remove has no reference, and a *)
(* row without its file is about to go.                                      *)

CountsTrue == \A d \in Digests : objects[d].count = refs[d]

InHand ==
    \A p \in Procs :
       /\ proc[p].at \in {"register", "reference"} => proc[p].file \in files
       /\ proc[p].at = "reference" => objects[DigestOf(p)] # NoObject
       /\ p \in Collecting => \A f \in proc[p].left : refs[f[1]] = 0
       /\ proc[p].at = "delete" => refs[DigestOf(p)] = 0

SomeForm == \A d \in Digests : refs[d] > 0 => \E c \in Compressions : <<d, c>> \in files

RowsHaveFiles ==
    cut \/ \A d \in Digests : objects[d] # NoObject =>
              \/ <<d, objects[d].compression>> \in files
              \/ \E p \in Procs : proc[p].at = "delete" /\ DigestOf(p) = d

KeptInv == CountsTrue /\ InHand /\ SomeForm /\ RowsHaveFiles

LEMMA KeptInit == StoreInit => KeptInv
BY DEF StoreInit, KeptInv, CountsTrue, InHand, SomeForm, RowsHaveFiles, NoObject, Idle,
       Collecting

LEMMA KeptIsKept == StoreTypeOK /\ KeptInv => ReferencedKept
<1> SUFFICES ASSUME StoreTypeOK, KeptInv, NEW d \in Digests, refs[d] > 0
             PROVE  <<d, objects[d].compression>> \in files \/ cut
  BY DEF ReferencedKept, KeptInv, CountsTrue, SomeForm
<1>1. objects[d] # NoObject
  BY DEF KeptInv, CountsTrue, NoObject
<1>2. \A p \in Procs : proc[p].at = "delete" => DigestOf(p) # d
  BY DEF KeptInv, InHand
<1> QED BY <1>1, <1>2 DEF KeptInv, RowsHaveFiles

\* An import keeps it, where no collection overlaps it.
LEMMA ImportKeeps ==
    ASSUME StoreTypeOK, KeptInv, Importing = {} \/ Collecting = {}, NEW p \in Procs,
           Import(p)
    PROVE  KeptInv'
<1>1. CASE \E f \in Files : ImportBegin(p, f)
  BY <1>1 DEF ImportBegin, Goto, KeptInv, CountsTrue, InHand, SomeForm, RowsHaveFiles,
              StoreTypeOK, Idle, Collecting, DigestOf
<1>2. CASE ~ \E f \in Files : ImportBegin(p, f)
  <2> DEFINE on(where) == [proc[p] EXCEPT !.at = where]
             new == [compression |-> proc[p].file[2], count |-> 0]
             more == [objects[DigestOf(p)] EXCEPT !.count = @ + 1]
  <2>1. /\ proc[p] \in Imports /\ proc[p].file \in Files /\ DigestOf(p) \in Digests
        /\ proc[p].file = <<DigestOf(p), proc[p].file[2]>> /\ proc[p].file[2] \in Compressions
        /\ Collecting = {}
    <3>1. proc[p] \in Imports /\ p \in Importing
      BY <1>2, StoreShape
         DEF Import, ImportWrite, ImportStat, ImportRegister, ImportReference, Importing
    <3> QED BY <3>1 DEF Imports, Files, DigestOf
  <2>2. \A where \in {"stat", "register", "reference"} :
           on(where).at = where /\ on(where).file = proc[p].file
    BY <2>1 DEF Imports
  <2>3. new # NoObject /\ new.count = 0 /\ new.compression = proc[p].file[2]
    BY <2>1, ArtifactAssumption DEF NoObject
  <2>4. objects[DigestOf(p)] # NoObject =>
           /\ more # NoObject /\ more.compression = objects[DigestOf(p)].compression
           /\ more.count = objects[DigestOf(p)].count + 1
    BY <2>1 DEF StoreTypeOK, Rows, NoObject
  <2>5. CountsTrue /\ InHand /\ SomeForm /\ RowsHaveFiles
    BY DEF KeptInv
  <2>6. \/ /\ proc[p].at = "write" /\ files' = files \cup {proc[p].file}
           /\ proc' = [proc EXCEPT ![p] = on("stat")] /\ UNCHANGED <<objects, refs, cut>>
        \/ /\ proc[p].file \in files /\ proc' = [proc EXCEPT ![p] = on("register")]
           /\ UNCHANGED <<files, objects, refs, cut>>
        \/ proc' = [proc EXCEPT ![p] = Idle] /\ UNCHANGED <<files, objects, refs, cut>>
        \/ /\ proc[p].at = "register" /\ proc' = [proc EXCEPT ![p] = on("reference")]
           /\ UNCHANGED <<files, refs, cut>>
           /\ \/ objects[DigestOf(p)] = NoObject
                 /\ objects' = [objects EXCEPT ![DigestOf(p)] = new]
              \/ objects[DigestOf(p)] # NoObject /\ objects' = objects
        \/ /\ proc[p].at = "reference" /\ proc' = [proc EXCEPT ![p] = Idle]
           /\ UNCHANGED <<files, cut>> /\ refs' = [refs EXCEPT ![DigestOf(p)] = @ + 1]
           /\ objects' = IF objects[DigestOf(p)] = NoObject THEN objects
                         ELSE [objects EXCEPT ![DigestOf(p)] = more]
    BY <1>2 DEF Import, ImportWrite, ImportStat, ImportRegister, ImportReference, Goto
  <2> HIDE DEF on, new, more
  <2>7. CountsTrue'
    BY <2>1, <2>3, <2>4, <2>5, <2>6 DEF CountsTrue, InHand, StoreTypeOK, NoObject
  <2>8. InHand'
    <3>1. ASSUME NEW q \in Procs, q # p
          PROVE  /\ proc'[q] = proc[q] /\ q \notin Collecting'
                 /\ proc[q].at # "delete"
                 /\ proc[q].at \in {"register", "reference"} => proc[q].file \in files'
                 /\ proc[q].at = "reference" => objects'[DigestOf(q)] # NoObject
      <4>1. proc'[q] = proc[q] /\ files \subseteq files'
        BY <2>6, <3>1 DEF StoreTypeOK
      <4>2. \A d \in Digests : objects[d] # NoObject => objects'[d] # NoObject
        BY <2>1, <2>3, <2>4, <2>6 DEF StoreTypeOK
      <4>3. proc[q].at = "reference" => DigestOf(q) \in Digests
        BY StoreShape DEF Importing, Imports, Files, DigestOf
      <4> QED BY <2>1, <2>5, <4>1, <4>2, <4>3 DEF InHand, Collecting
    <3>2. /\ p \notin Collecting' /\ proc'[p].at # "delete"
          /\ proc'[p].at \in {"register", "reference"} => proc'[p].file \in files'
          /\ proc'[p].at = "reference" => objects'[DigestOf(p)'] # NoObject
      BY <2>1, <2>2, <2>3, <2>5, <2>6 DEF InHand, StoreTypeOK, Collecting, DigestOf, Idle
    <3> QED BY <3>1, <3>2 DEF InHand, DigestOf
  <2>9. SomeForm'
    BY <2>1, <2>5, <2>6 DEF InHand, SomeForm, StoreTypeOK
  <2>10. RowsHaveFiles'
    BY <2>1, <2>2, <2>3, <2>4, <2>5, <2>6
       DEF InHand, RowsHaveFiles, StoreTypeOK, Collecting
  <2> QED BY <2>7, <2>8, <2>9, <2>10 DEF KeptInv
<1> QED BY <1>1, <1>2

\* A collection keeps it, where no import overlaps it; so does a kill.
LEMMA CollectionKeeps ==
    ASSUME StoreTypeOK, KeptInv, Importing = {} \/ Collecting = {}, NEW p \in Procs,
           Collect(p) \/ Crash(p)
    PROVE  KeptInv'
<1>0. CountsTrue /\ InHand /\ SomeForm /\ RowsHaveFiles
  BY DEF KeptInv
<1>1. CASE CollectBegin(p)
  <2> DEFINE left == {<<d, objects[d].compression>> : d \in Unreferenced}
  <2>1. \A f \in left : refs[f[1]] = 0
    BY <1>0 DEF CountsTrue, Unreferenced
  <2>2. /\ proc[p] = Idle /\ proc' = [proc EXCEPT ![p] = [at |-> "unlink", left |-> left]]
        /\ UNCHANGED <<files, objects, refs, cut>>
    BY <1>1 DEF CollectBegin, Goto
  <2> HIDE DEF left
  <2>3. InHand'
    BY <1>0, <2>1, <2>2 DEF InHand, StoreTypeOK, Collecting, DigestOf
  <2>4. CountsTrue' /\ SomeForm' /\ RowsHaveFiles'
    BY <1>0, <2>2 DEF CountsTrue, SomeForm, RowsHaveFiles, StoreTypeOK, DigestOf, Idle
  <2> QED BY <2>3, <2>4 DEF KeptInv
<1>2. ASSUME NEW f \in Files, CollectUnlink(p, f) PROVE KeptInv'
  <2>1. Importing = {} /\ p \in Collecting /\ refs[f[1]] = 0 /\ f = <<f[1], f[2]>>
    BY <1>0, <1>2 DEF CollectUnlink, Collecting, InHand, Files
  <2>2. /\ proc[p].at = "unlink" /\ files' = files \ {f} /\ UNCHANGED <<objects, refs, cut>>
        /\ proc' = [proc EXCEPT ![p] =
              [at |-> "delete", left |-> proc[p].left \ {f}, file |-> f]]
    BY <1>2 DEF CollectUnlink, Goto
  <2>3. InHand'
    BY <1>0, <2>1, <2>2 DEF InHand, StoreTypeOK, Collecting, Importing, DigestOf
  <2>4. CountsTrue' /\ SomeForm'
    BY <1>0, <2>1, <2>2 DEF CountsTrue, SomeForm, StoreTypeOK
  <2>5. RowsHaveFiles'
    BY <1>0, <2>1, <2>2 DEF RowsHaveFiles, StoreTypeOK, DigestOf
  <2> QED BY <2>3, <2>4, <2>5 DEF KeptInv
<1>3. CASE CollectDelete(p)
  <2>1. Importing = {} /\ p \in Collecting /\ refs[DigestOf(p)] = 0 /\ DigestOf(p) \in Digests
    BY <1>0, <1>3, StoreShape
       DEF CollectDelete, Collecting, InHand, Removals, Files, DigestOf
  <2>2. /\ objects' = [objects EXCEPT ![DigestOf(p)] = NoObject] /\ UNCHANGED <<files, refs, cut>>
        /\ proc[p].at = "delete"
        /\ proc' = [proc EXCEPT ![p] =
              IF proc[p].left = {} THEN Idle ELSE [at |-> "unlink", left |-> proc[p].left]]
    BY <1>0, <1>3, <2>1 DEF CollectDelete, Goto, CountsTrue
  <2>3. InHand'
    BY <1>0, <2>1, <2>2 DEF InHand, StoreTypeOK, Collecting, Importing, DigestOf, Idle
  <2>4. CountsTrue' /\ SomeForm'
    BY <1>0, <2>1, <2>2 DEF CountsTrue, SomeForm, StoreTypeOK, NoObject
  <2>5. RowsHaveFiles'
    BY <1>0, <2>1, <2>2 DEF RowsHaveFiles, StoreTypeOK, DigestOf
  <2> QED BY <2>3, <2>4, <2>5 DEF KeptInv
<1>4. CASE Crash(p)
  <2>1. InHand'
    BY <1>0, <1>4 DEF Crash, Goto, InHand, StoreTypeOK, Collecting, DigestOf, Idle
  <2>2. CountsTrue' /\ SomeForm'
    BY <1>0, <1>4 DEF Crash, CountsTrue, SomeForm
  <2>3. RowsHaveFiles'
    BY <1>0, <1>4 DEF Crash, Goto, RowsHaveFiles, StoreTypeOK, DigestOf, Idle
  <2> QED BY <2>1, <2>2, <2>3 DEF KeptInv
<1> QED BY <1>1, <1>2, <1>3, <1>4 DEF Collect

\* Evidence that some reference names stays: a counted row is never deleted and its
\* count never falls, whatever overlaps; and while no import overlaps a collection
\* each reference is counted and finds its content stored, wherever threads are killed.
THEOREM EvidenceIsKept == StoreSpec => EvidenceKept
<1> DEFINE Stays(d) == objects[d].count > 0 =>
                          /\ objects'[d].compression = objects[d].compression
                          /\ objects'[d].count >= objects[d].count
<1>1. StoreTypeOK /\ [StoreNext]_storeVars => [\A d \in Digests : Stays(d)]_storeVars
  BY CountedStay
<1>2. StoreSpec => CountedRowsStay
  BY <1>1, StoreTypeCorrect, PTL DEF StoreSpec, CountedRowsStay
<1>3. StoreTypeOK /\ KeptInv /\ (Importing = {} \/ Collecting = {}) /\ [StoreNext]_storeVars
         => KeptInv'
  <2> SUFFICES ASSUME StoreTypeOK, KeptInv, Importing = {} \/ Collecting = {},
                      [StoreNext]_storeVars
               PROVE  KeptInv'
    OBVIOUS
  <2>1. ASSUME NEW p \in Procs, Import(p) PROVE KeptInv'
    BY <2>1, ImportKeeps
  <2>2. ASSUME NEW p \in Procs, Collect(p) \/ Crash(p) PROVE KeptInv'
    BY <2>2, CollectionKeeps
  <2>3. CASE UNCHANGED storeVars
    BY <2>3 DEF storeVars, KeptInv, CountsTrue, InHand, SomeForm, RowsHaveFiles,
                Collecting, DigestOf
  <2> QED BY <2>1, <2>2, <2>3 DEF StoreNext
<1>4. StoreSpec => KeptUnlessOverlap
  BY <1>3, StoreTypeCorrect, KeptInit, KeptIsKept, PTL DEF StoreSpec, KeptUnlessOverlap
<1> QED BY <1>2, <1>4 DEF EvidenceKept

-----------------------------------------------------------------------------
(* The policy table. *)

\* What the two kinds of pattern a decision looks at add up to.
AnyGrant(table, q) ==
    \/ \E p \in Patterns : Matches(p, q.action) /\ table[<<q.role, p>>] = "allow"
    \/ \E r \in Roles, p \in Patterns :
          r <= q.role /\ p \in Defaults[r] /\ Matches(p, q.action)

\* effective_patterns gathers what one table and the defaults grant.
LEMMA GrantedIsAny ==
    ASSUME NEW q \in Questions, q.role \in Roles, rules \in Tables
    PROVE  (\E p \in Granted(q.role) : Matches(p, q.action)) <=> AnyGrant(rules, q)
<1>1. \A r \in 1 .. q.role : r \in Roles /\ r <= q.role
  BY PolicyAssumption
<1>2. \A r \in Roles : r <= q.role => r \in 1 .. q.role
  BY PolicyAssumption
<1>3. \A r \in Roles : Defaults[r] \subseteq Patterns
  BY PolicyAssumption
<1>4. \A p : p \in Granted(q.role) <=> \/ \E r \in 1 .. q.role : p \in Defaults[r]
                                       \/ p \in Patterns /\ rules[<<q.role, p>>] = "allow"
  BY DEF Granted
<1>5. ASSUME NEW p \in Granted(q.role), Matches(p, q.action) PROVE AnyGrant(rules, q)
  BY <1>1, <1>3, <1>4, <1>5 DEF AnyGrant
<1>6. ASSUME AnyGrant(rules, q) PROVE \E p \in Granted(q.role) : Matches(p, q.action)
  BY <1>2, <1>4, <1>6 DEF AnyGrant
<1> QED BY <1>5, <1>6

\* Two tables that one change may lie between.
Near(t, u) == \E k \in Roles \X Patterns : \A j \in (Roles \X Patterns) \ {k} : t[j] = u[j]

\* A decision in progress has met the table in force; one that has read no rule of
\* its own did so in a table that at most one change lies behind, unless it has met
\* more than two.
DecisionSound(l) ==
    /\ l.pc \in {"exact", "patterns"} =>
          /\ l.q.role \in Roles /\ ~(l.q.remote /\ l.q.action \in RemoteDeny)
          /\ rules \in l.tables /\ IsFiniteSet(l.tables)
    /\ l.pc = "patterns" =>
          \E t \in l.tables : /\ t[<<l.q.role, l.q.action>>] = "none"
                              /\ Near(t, rules) \/ Cardinality(l.tables) > 2
    /\ l.pc = "done" => \/ \E t \in l.tables : l.verdict <=> Says(t, l.q)
                        \/ Cardinality(l.tables) > 2

Unaudited == {o \in Operators : change[o]}

PolicyInv ==
    /\ PolicyTypeOK
    /\ IsFiniteSet(Unaudited) /\ audited + Cardinality(Unaudited) <= changes
    /\ \A c \in Callers : DecisionSound(call[c])

LEMMA PolicyInitInv == PolicyInit => PolicyInv
<1> SUFFICES ASSUME PolicyInit PROVE PolicyInv
  OBVIOUS
<1>1. Unaudited = {}
  BY DEF PolicyInit, Unaudited
<1>2. Cardinality(Unaudited) = 0 /\ IsFiniteSet(Unaudited)
  BY <1>1, FS_EmptySet
<1>3. changes = 0 /\ audited = 0 /\ MaxChanges \in Nat
  BY PolicyAssumption DEF PolicyInit
<1>4. rules \in Tables /\ call \in [Callers -> {NotAsked} \cup Decisions]
  BY DEF PolicyInit, Tables
<1>5. change \in [Operators -> BOOLEAN]
  BY DEF PolicyInit
<1>6. \A c \in Callers : DecisionSound(call[c])
  BY DEF PolicyInit, NotAsked, DecisionSound
<1> QED BY <1>2, <1>3, <1>4, <1>5, <1>6 DEF PolicyInv, PolicyTypeOK

LEMMA ThreeOfThem ==
    ASSUME NEW a, NEW b, NEW c, a # b, b # c, c # a
    PROVE  IsFiniteSet({a, b, c}) /\ Cardinality({a, b, c}) = 3
<1>1. IsFiniteSet({a}) /\ Cardinality({a}) = 1
  BY FS_Singleton
<1>2. IsFiniteSet({a} \cup {b}) /\ Cardinality({a} \cup {b}) = 2
  BY <1>1, FS_AddElement
<1>3. IsFiniteSet({a} \cup {b} \cup {c}) /\ Cardinality({a} \cup {b} \cup {c}) = 3
  BY <1>2, FS_AddElement
<1>4. {a} \cup {b} \cup {c} = {a, b, c}
  OBVIOUS
<1> QED BY <1>3, <1>4

\* A decision lives through a change of the table.
LEMMA DecisionMeets ==
    ASSUME PolicyInv, NEW k \in Roles \X Patterns, NEW e \in {"none", "allow", "deny"},
           rules' = [rules EXCEPT ![k] = e], call' = Met(rules'), NEW c \in Callers
    PROVE  call'[c] \in {NotAsked} \cup Decisions /\ DecisionSound(call[c])'
<1> DEFINE l == call[c]
           more == [l EXCEPT !.tables = @ \cup {rules'}]
<1>1. l \in {NotAsked} \cup Decisions /\ DecisionSound(l) /\ rules \in Tables
      /\ rules' \in Tables
  BY DEF PolicyInv, PolicyTypeOK, Tables
<1>2. CASE l.pc \in {"exact", "patterns"}
  <2>1. call'[c] = more
    BY <1>2 DEF Met
  <2>2. l \in Decisions
    BY <1>1, <1>2 DEF NotAsked
  <2>3. /\ more \in Decisions /\ more.pc = l.pc /\ more.q = l.q
        /\ more.tables = l.tables \cup {rules'}
    BY <1>1, <2>2 DEF Decisions
  <2>4. /\ l.q.role \in Roles /\ ~(l.q.remote /\ l.q.action \in RemoteDeny)
        /\ rules \in l.tables /\ IsFiniteSet(l.tables)
    BY <1>1, <1>2 DEF DecisionSound
  <2> HIDE DEF l, more
  <2>5. /\ IsFiniteSet(more.tables) /\ Cardinality(more.tables) \in Nat
        /\ Cardinality(more.tables) >= Cardinality(l.tables) /\ Cardinality(l.tables) \in Nat
    BY <2>3, <2>4, OneMore, FS_Subset, FS_CardinalityType
  <2>6. ASSUME l.pc = "patterns"
        PROVE  \E t \in more.tables : /\ t[<<l.q.role, l.q.action>>] = "none"
                                      /\ Near(t, rules') \/ Cardinality(more.tables) > 2
    <3>1. PICK t \in l.tables : /\ t[<<l.q.role, l.q.action>>] = "none"
                                /\ Near(t, rules) \/ Cardinality(l.tables) > 2
      BY <1>1, <2>6 DEF DecisionSound
    <3>2. t \in Tables /\ t \in more.tables /\ {t, rules, rules'} \subseteq more.tables
      BY <2>2, <2>3, <2>4, <3>1 DEF Decisions
    <3>3. t = rules => Near(t, rules')
      BY <1>1 DEF Near, Tables
    <3>4. CASE Near(t, rules') \/ Cardinality(l.tables) > 2
      <4>1. Near(t, rules') \/ Cardinality(more.tables) > 2
        BY <2>5, <3>4
      <4> QED BY <3>1, <3>2, <4>1
    <3>5. rules' = t => Near(t, rules')
      BY DEF Near
    <3>6. CASE t # rules /\ rules' # rules /\ rules' # t
      <4>1. Cardinality({t, rules, rules'}) = 3
        BY <3>6, ThreeOfThem
      <4>2. Cardinality(more.tables) >= 3
        BY <2>5, <3>2, <4>1, FS_Subset
      <4> QED BY <2>5, <3>1, <3>2, <4>2
    <3>7. rules' = rules => Near(t, rules') \/ Cardinality(l.tables) > 2
      BY <3>1
    <3> QED BY <3>3, <3>4, <3>5, <3>6, <3>7
  <2>7. DecisionSound(call[c])'
    <3> DEFINE now == call[c]'
    <3>1. now = more
      BY <2>1
    <3> HIDE DEF now
    <3>2. /\ now.pc \in {"exact", "patterns"} =>
                /\ now.q.role \in Roles /\ ~(now.q.remote /\ now.q.action \in RemoteDeny)
                /\ rules' \in now.tables /\ IsFiniteSet(now.tables)
          /\ now.pc = "patterns" =>
                \E t \in now.tables : /\ t[<<now.q.role, now.q.action>>] = "none"
                                      /\ Near(t, rules') \/ Cardinality(now.tables) > 2
          /\ now.pc # "done"
      BY <1>2, <2>3, <2>4, <2>5, <2>6, <3>1
    <3> QED BY <3>2 DEF DecisionSound, now
  <2> QED BY <2>1, <2>3, <2>7
<1>3. CASE l.pc \notin {"exact", "patterns"}
  <2>1. call'[c] = l
    BY <1>3 DEF Met
  <2> QED BY <1>1, <1>3, <2>1 DEF DecisionSound
<1> QED BY <1>2, <1>3

LEMMA SaysIs ==
    ASSUME NEW table, NEW q
    PROVE  Says(table, q) <=> /\ q.role \in Roles /\ ~(q.remote /\ q.action \in RemoteDeny)
                              /\ table[<<q.role, q.action>>] # "deny"
                              /\ AnyGrant(table, q) /\ Permitted(q)
BY DEF Says, AnyGrant, Permitted

\* A decision ends with its answer, whatever it has met.
LEMMA DecisionEnds ==
    ASSUME PolicyTypeOK, NEW c \in Callers, call[c] \in Decisions, NEW v \in BOOLEAN, Ends(c, v)
    PROVE  /\ call' \in [Callers -> {NotAsked} \cup Decisions]
           /\ \A b \in Callers \ {c} : call'[b] = call[b]
           /\ call'[c].pc = "done" /\ call'[c].q = call[c].q
           /\ call'[c].tables = call[c].tables /\ (call'[c].verdict <=> v)
<1> DEFINE l == call[c]
           done == [l EXCEPT !.pc = "done", !.verdict = v]
<1>1. /\ done \in Decisions /\ done.pc = "done" /\ done.q = l.q
      /\ done.tables = l.tables /\ done.verdict = v
  BY DEF Decisions
<1>2. call' = [call EXCEPT ![c] = done]
  BY DEF Ends
<1> HIDE DEF l, done
<1>3. call \in [Callers -> {NotAsked} \cup Decisions]
  BY DEF PolicyTypeOK
<1>4. call'[c] = done /\ \A b \in Callers \ {c} : call'[b] = call[b]
  BY <1>2, <1>3
<1>5. call' \in [Callers -> {NotAsked} \cup Decisions]
  BY <1>1, <1>2, <1>3
<1> QED BY <1>1, <1>4, <1>5 DEF l

\* What a decision answers is what one of its tables says.
LEMMA DecisionReads ==
    ASSUME PolicyInv, NEW c \in Callers, ReadExact(c) \/ ReadPatterns(c)
    PROVE  /\ call' \in [Callers -> {NotAsked} \cup Decisions]
           /\ \A b \in Callers \ {c} : call'[b] = call[b]
           /\ DecisionSound(call[c])'
<1> DEFINE l == call[c]
           q == l.q
           now == call'[c]
<1>1. /\ PolicyTypeOK /\ l \in Decisions /\ q \in Questions /\ q.role \in Roles
      /\ q.action \in Actions /\ ~(q.remote /\ q.action \in RemoteDeny)
      /\ l.pc \in {"exact", "patterns"} /\ rules \in l.tables /\ rules \in Tables
      /\ l.tables \subseteq Tables /\ Permitted(q) \in BOOLEAN /\ DecisionSound(l)
  <2>1. PolicyTypeOK /\ DecisionSound(l) /\ l.pc \in {"exact", "patterns"}
    BY DEF PolicyInv, ReadExact, ReadPatterns
  <2>2. l \in Decisions
    BY <2>1 DEF PolicyTypeOK, NotAsked
  <2>3. q \in Questions /\ l.tables \subseteq Tables
    BY <2>2 DEF Decisions
  <2>4. q.role \in Roles /\ ~(q.remote /\ q.action \in RemoteDeny) /\ rules \in l.tables
    BY <2>1 DEF DecisionSound
  <2> QED BY <2>1, <2>2, <2>3, <2>4 DEF Questions, Permitted, PolicyTypeOK
<1>2. rules[<<q.role, q.action>>] \in {"none", "allow", "deny"} /\ q.action \in Patterns
  BY <1>1 DEF Tables, Patterns
<1> HIDE DEF l, q, now
\* It suffices that the answer is that of a table it met.
<1>3. ASSUME NEW v \in BOOLEAN, Ends(c, v),
             (\E t \in l.tables : v <=> Says(t, q)) \/ Cardinality(l.tables) > 2
      PROVE  /\ call' \in [Callers -> {NotAsked} \cup Decisions]
             /\ \A b \in Callers \ {c} : call'[b] = call[b]
             /\ DecisionSound(call[c])'
  <2>1. /\ call' \in [Callers -> {NotAsked} \cup Decisions]
        /\ \A b \in Callers \ {c} : call'[b] = call[b]
        /\ now.pc = "done" /\ now.q = q /\ now.tables = l.tables /\ (now.verdict <=> v)
    BY <1>1, <1>3, DecisionEnds DEF l, q, now
  <2>2. (\E t \in now.tables : now.verdict <=> Says(t, now.q)) \/ Cardinality(now.tables) > 2
    BY <1>3, <2>1
  <2> QED BY <2>1, <2>2 DEF DecisionSound, now
<1>4. CASE ReadExact(c)
  <2>1. CASE rules[<<q.role, q.action>>] = "deny" /\ Ends(c, FALSE)
    <3>1. FALSE <=> Says(rules, q)
      BY <2>1, SaysIs
    <3> QED BY <1>1, <1>3, <2>1, <3>1
  <2>2. CASE rules[<<q.role, q.action>>] = "allow" /\ Ends(c, Permitted(q))
    <3>1. AnyGrant(rules, q)
      BY <1>2, <2>2 DEF AnyGrant, Matches
    <3>2. Permitted(q) <=> Says(rules, q)
      BY <1>1, <2>2, <3>1, SaysIs
    <3> QED BY <1>1, <1>3, <2>2, <3>2
  <2>3. CASE rules[<<q.role, q.action>>] = "none" /\ call' = [call EXCEPT ![c].pc = "patterns"]
    <3> DEFINE on == [l EXCEPT !.pc = "patterns"]
    <3>1. /\ on \in Decisions /\ on.pc = "patterns" /\ on.q = q /\ on.tables = l.tables
      BY <1>1 DEF Decisions, q
    <3>2. call' = [call EXCEPT ![c] = on]
      BY <2>3 DEF l
    <3> HIDE DEF on
    <3>3. /\ call' \in [Callers -> {NotAsked} \cup Decisions] /\ now = on
          /\ \A b \in Callers \ {c} : call'[b] = call[b]
      BY <1>1, <3>1, <3>2 DEF PolicyTypeOK, now
    <3>4. IsFiniteSet(l.tables) /\ rules' = rules
      BY <1>1, <1>4 DEF DecisionSound, ReadExact
    <3>5. Near(rules, rules)
      BY <1>1, <1>2 DEF Near
    <3> QED BY <1>1, <2>3, <3>1, <3>3, <3>4, <3>5 DEF DecisionSound, now
  <2> QED BY <1>4, <2>1, <2>2, <2>3 DEF ReadExact, l, q
<1>5. CASE ReadPatterns(c)
  <2> DEFINE v == Permitted(q) /\ \E p \in Granted(q.role) : Matches(p, q.action)
  <2>1. Ends(c, v) /\ v \in BOOLEAN
    BY <1>1, <1>5 DEF ReadPatterns, l, q
  <2>2. v <=> Permitted(q) /\ AnyGrant(rules, q)
    BY <1>1, GrantedIsAny
  <2> HIDE DEF v
  <2>3. PICK t \in l.tables : /\ t[<<q.role, q.action>>] = "none"
                              /\ Near(t, rules) \/ Cardinality(l.tables) > 2
    BY <1>1, <1>5 DEF DecisionSound, ReadPatterns, l, q
  <2>4. CASE rules[<<q.role, q.action>>] # "deny"
    <3>1. v <=> Says(rules, q)
      BY <1>1, <2>2, <2>4, SaysIs
    <3> QED BY <1>1, <1>3, <2>1, <3>1
  <2>5. CASE rules[<<q.role, q.action>>] = "deny" /\ Near(t, rules)
    <3>1. \A p \in Patterns : p # q.action => t[<<q.role, p>>] = rules[<<q.role, p>>]
      BY <1>1, <1>2, <2>3, <2>5 DEF Near
    <3>2. AnyGrant(t, q) <=> AnyGrant(rules, q)
      BY <2>3, <2>5, <3>1 DEF AnyGrant
    <3>3. v <=> Says(t, q)
      BY <1>1, <2>2, <2>3, <3>2, SaysIs
    <3> QED BY <1>3, <2>1, <3>3
  <2>6. CASE Cardinality(l.tables) > 2
    BY <1>3, <2>1, <2>6
  <2> QED BY <2>3, <2>4, <2>5, <2>6
<1> QED BY <1>4, <1>5

LEMMA PolicyStepInv == PolicyInv /\ [PolicyNext]_policyVars => PolicyInv'
<1> SUFFICES ASSUME PolicyInv, [PolicyNext]_policyVars PROVE PolicyInv'
  OBVIOUS
<1>0. /\ PolicyTypeOK /\ IsFiniteSet(Unaudited) /\ audited + Cardinality(Unaudited) <= changes
      /\ \A c \in Callers : DecisionSound(call[c])
      /\ changes \in Nat /\ audited \in Nat /\ Cardinality(Unaudited) \in Nat
  BY FS_CardinalityType, PolicyAssumption DEF PolicyInv, PolicyTypeOK
\* What only a decision changes.
<1>1. ASSUME UNCHANGED <<rules, changes, audited, change>>,
             call' \in [Callers -> {NotAsked} \cup Decisions],
             \A c \in Callers : DecisionSound(call[c])'
      PROVE  PolicyInv'
  BY <1>0, <1>1 DEF PolicyInv, PolicyTypeOK, Unaudited
<1>2. ASSUME NEW o \in Operators, NEW role \in Roles, NEW p \in Patterns,
             NEW e \in {"none", "allow", "deny"}, Write(o, role, p, e)
      PROVE  PolicyInv'
  <2>1. \A c \in Callers : call'[c] \in {NotAsked} \cup Decisions /\ DecisionSound(call[c])'
    <3>1. <<role, p>> \in Roles \X Patterns /\ call' = Met(rules')
          /\ rules' = [rules EXCEPT ![<<role, p>>] = e]
      BY <1>2 DEF Write
    <3> QED BY <3>1, DecisionMeets
  <2>2. call' \in [Callers -> {NotAsked} \cup Decisions]
    <3>1. call' = [c \in Callers |-> call'[c]]
      BY <1>2 DEF Write, Met
    <3> QED BY <2>1, <3>1
  <2>3. IsFiniteSet(Unaudited') /\ audited' + Cardinality(Unaudited') <= changes'
        /\ Cardinality(Unaudited') \in Nat
    <3>1. Unaudited' \subseteq Unaudited \cup {o} /\ audited' = audited /\ changes' = changes + 1
      BY <1>0, <1>2 DEF Write, Unaudited, PolicyTypeOK
    <3>2. IsFiniteSet(Unaudited \cup {o}) /\ Cardinality(Unaudited \cup {o}) \in Nat
          /\ Cardinality(Unaudited \cup {o}) <= Cardinality(Unaudited) + 1
      BY <1>0, OneMore
    <3>3. IsFiniteSet(Unaudited') /\ Cardinality(Unaudited') <= Cardinality(Unaudited \cup {o})
          /\ Cardinality(Unaudited') \in Nat
      BY <3>1, <3>2, FS_Subset, FS_CardinalityType
    <3> QED BY <1>0, <3>1, <3>2, <3>3
  <2>4. rules' \in Tables /\ change' \in [Operators -> BOOLEAN]
    BY <1>0, <1>2 DEF Write, PolicyTypeOK, Tables
  <2>5. changes' \in 0 .. MaxChanges /\ audited' \in 0 .. changes'
    <3>1. changes < MaxChanges /\ changes' = changes + 1 /\ audited' = audited
      BY <1>2 DEF Write
    <3> QED BY <1>0, <3>1, PolicyAssumption DEF PolicyTypeOK
  <2> QED BY <2>1, <2>2, <2>3, <2>4, <2>5 DEF PolicyInv, PolicyTypeOK
<1>3. ASSUME NEW o \in Operators, Audit(o) PROVE PolicyInv'
  <2>1. /\ o \in Unaudited /\ Unaudited' = Unaudited \ {o}
        /\ audited' = audited + 1 /\ changes' = changes /\ rules' = rules /\ call' = call
    BY <1>0, <1>3 DEF Audit, Unaudited, PolicyTypeOK
  <2>2. /\ IsFiniteSet(Unaudited') /\ Cardinality(Unaudited') = Cardinality(Unaudited) - 1
        /\ Cardinality(Unaudited') \in Nat
    BY <1>0, <2>1, FS_RemoveElement, FS_CardinalityType
  <2>3. change' \in [Operators -> BOOLEAN]
    BY <1>0, <1>3 DEF Audit, PolicyTypeOK
  <2>4. audited' + Cardinality(Unaudited') <= changes' /\ audited' \in 0 .. changes'
    BY <1>0, <2>1, <2>2
  <2>5. \A c \in Callers : DecisionSound(call[c])'
    BY <1>0, <2>1 DEF DecisionSound
  <2> QED BY <1>0, <2>1, <2>2, <2>3, <2>4, <2>5 DEF PolicyInv, PolicyTypeOK
<1>4. ASSUME NEW c \in Callers, NEW q \in Questions, Ask(c, q) PROVE PolicyInv'
  <2> DEFINE fresh == [pc |-> "exact", q |-> q, tables |-> {rules}, verdict |-> FALSE]
             over  == [fresh EXCEPT !.pc = "done"]
             now   == call'[c]
  <2>1. /\ fresh \in Decisions /\ fresh.pc = "exact" /\ fresh.q = q
        /\ fresh.tables = {rules} /\ ~fresh.verdict
    BY <1>0 DEF Decisions, PolicyTypeOK
  <2>2. /\ over \in Decisions /\ over.pc = "done" /\ over.q = q
        /\ over.tables = {rules} /\ ~over.verdict
    BY <2>1 DEF Decisions
  <2>3. \/ call' = [call EXCEPT ![c] = over]
           /\ (q.role = Stranger \/ (q.remote /\ q.action \in RemoteDeny))
        \/ call' = [call EXCEPT ![c] = fresh]
           /\ ~(q.role = Stranger \/ (q.remote /\ q.action \in RemoteDeny))
    BY <1>4 DEF Ask
  <2>4. UNCHANGED <<rules, changes, audited, change>>
    BY <1>4 DEF Ask
  <2> HIDE DEF fresh, over, now
  <2>5. call' \in [Callers -> {NotAsked} \cup Decisions]
        /\ \A b \in Callers \ {c} : call'[b] = call[b]
    BY <1>0, <2>1, <2>2, <2>3 DEF PolicyTypeOK
  <2>6. IsFiniteSet({rules}) /\ q.role \in Roles \cup {Stranger}
    BY FS_Singleton DEF Questions
  <2>7. DecisionSound(call[c])'
    <3>1. CASE call' = [call EXCEPT ![c] = over]
      <4>1. Stranger \notin Roles
        BY PolicyAssumption DEF Stranger
      <4>2. now = over /\ ~Says(rules, q)
        BY <1>0, <2>3, <2>6, <3>1, <4>1, SaysIs DEF PolicyTypeOK, now, fresh, over
      <4> QED BY <2>2, <4>2 DEF DecisionSound, now
    <3>2. CASE call' = [call EXCEPT ![c] = fresh]
              /\ ~(q.role = Stranger \/ (q.remote /\ q.action \in RemoteDeny))
      <4>1. now = fresh /\ rules' = rules
        BY <1>0, <2>4, <3>2 DEF PolicyTypeOK, now
      <4> QED BY <2>1, <2>6, <3>2, <4>1 DEF DecisionSound, now
    <3> QED BY <2>3, <3>1, <3>2
  <2>8. \A b \in Callers : DecisionSound(call[b])'
    BY <1>0, <2>4, <2>5, <2>7 DEF DecisionSound
  <2> QED BY <1>1, <2>4, <2>5, <2>8
<1>5. ASSUME NEW c \in Callers, ReadExact(c) \/ ReadPatterns(c) PROVE PolicyInv'
  <2>1. UNCHANGED <<rules, changes, audited, change>>
    BY <1>5 DEF ReadExact, ReadPatterns
  <2>2. \A b \in Callers : DecisionSound(call[b])'
    BY <1>0, <1>5, <2>1, DecisionReads DEF DecisionSound
  <2> QED BY <1>1, <1>5, <2>1, <2>2, DecisionReads
<1>6. CASE UNCHANGED policyVars
  <2>1. \A c \in Callers : DecisionSound(call[c])'
    BY <1>0, <1>6 DEF policyVars, DecisionSound
  <2> QED BY <1>0, <1>1, <1>6, <2>1 DEF policyVars, PolicyTypeOK
<1> QED BY <1>2, <1>3, <1>4, <1>5, <1>6 DEF PolicyNext

\* A decision answers what one table in force while it was made says, although it
\* reads the table twice, unless two changes fell into it; and no change is audited
\* before it is made.
THEOREM DecisionsAreSound == PolicySpec => [](PolicyTypeOK /\ DecidedByOneTable)
<1>1. PolicyInv => PolicyTypeOK /\ DecidedByOneTable
  <2> SUFFICES ASSUME PolicyInv, NEW c \in Callers, call[c].pc = "done"
               PROVE  \/ \E t \in call[c].tables : call[c].verdict = Says(t, call[c].q)
                      \/ Cardinality(call[c].tables) > 2
    BY DEF PolicyInv, DecidedByOneTable
  <2>1. \/ \E t \in call[c].tables : call[c].verdict <=> Says(t, call[c].q)
        \/ Cardinality(call[c].tables) > 2
    BY DEF PolicyInv, DecisionSound
  <2>2. call[c].verdict \in BOOLEAN /\ \A t : Says(t, call[c].q) \in BOOLEAN
    <3>1. call[c] \in Decisions
      BY DEF PolicyInv, PolicyTypeOK, NotAsked
    <3>2. call[c].verdict \in BOOLEAN
      BY <3>1 DEF Decisions
    <3>3. \A t : Says(t, call[c].q) \in BOOLEAN
      BY DEF Says
    <3> QED BY <3>2, <3>3
  <2> QED BY <2>1, <2>2, Zenon
<1> QED BY <1>1, PolicyInitInv, PolicyStepInv, PTL DEF PolicySpec

-----------------------------------------------------------------------------
(* The audit trail. *)

\* Rows that can be put in order of time and id: the ids are their own.
Sortable(es) ==
    /\ \A e \in es : e.time \in 0 .. MaxTime /\ e.id \in Ids
    /\ \A e, f \in es : e.id = f.id => e = f

LEMMA PartsSortable ==
    ASSUME NEW es, Sortable(es), NEW fs \in SUBSET es
    PROVE  Sortable(fs)
BY DEF Sortable

LEMMA InOrder ==
    ASSUME NEW es, Sortable(es), NEW e \in es, NEW f \in es
    PROVE  /\ e # f => Before(e, f) \/ Before(f, e)
           /\ Before(e, f) => e # f /\ ~Before(f, e)
           /\ \A g \in es : Before(e, f) /\ Before(f, g) => Before(e, g)
<1> USE AuditAssumption DEF Sortable, Ids, Before
<1>1. /\ e.time \in Nat /\ f.time \in Nat /\ e.id \in Nat /\ f.id \in Nat
      /\ \A g \in es : g.time \in Nat /\ g.id \in Nat
  OBVIOUS
<1>2. e # f => e.id # f.id
  OBVIOUS
<1>3. ASSUME e # f PROVE Before(e, f) \/ Before(f, e)
  <2>1. ASSUME NEW m \in Nat, NEW n \in Nat PROVE m < n \/ n < m \/ m = n
    OBVIOUS
  <2>2. e.time < f.time \/ f.time < e.time \/ e.time = f.time
    BY <1>1, <2>1
  <2>3. e.id < f.id \/ f.id < e.id
    BY <1>1, <1>2, <1>3, <2>1
  <2> QED BY <2>2, <2>3
<1>4. Before(e, f) => e # f /\ ~Before(f, e)
  BY <1>1
<1>5. ASSUME NEW g \in es, Before(e, f), Before(f, g) PROVE Before(e, g)
  BY <1>1, <1>5
<1> HIDE DEF Before
<1> QED BY <1>3, <1>4, <1>5

\* Of some numbers one is the least.
LEMMA Least ==
    ASSUME NEW T \in SUBSET Nat, T # {}
    PROVE  \E n \in T : \A m \in T : n <= m
<1>1. PICK n \in T : \A m \in T : <<m, n>> \notin OpToRel(<, Nat)
  BY NatLessThanWellFounded, WFMin, Zenon
<1>2. ASSUME NEW m \in Nat, NEW k \in Nat, m < k PROVE <<m, k>> \in OpToRel(<, Nat)
  BY <1>2, Zenon DEF OpToRel
<1>3. \A m \in T : ~(m < n)
  BY <1>1, <1>2
<1> QED BY <1>3

\* Of some rows one comes first.
LEMMA Earliest ==
    ASSUME NEW es, Sortable(es), es # {}
    PROVE  \E e \in es : \A f \in es \ {e} : Before(e, f)
<1> DEFINE Times == {e.time : e \in es}
<1>1. Times \subseteq Nat /\ Times # {}
  BY AuditAssumption DEF Sortable
<1>2. \E n \in Times : \A m \in Times : n <= m
  <2> HIDE DEF Times
  <2> QED BY <1>1, Least
<1>3. PICK n \in Nat : (\E e \in es : e.time = n) /\ \A e \in es : n <= e.time
  BY <1>1, <1>2
<1> DEFINE Of == {e.id : e \in {f \in es : f.time = n}}
<1>4. Of \subseteq Nat /\ Of # {}
  BY <1>3, AuditAssumption DEF Sortable, Ids
<1>5. \E i \in Of : \A k \in Of : i <= k
  <2> HIDE DEF Of
  <2> QED BY <1>4, Least
<1>6. PICK e \in es : e.time = n /\ \A f \in es : f.time = n => e.id <= f.id
  BY <1>5
<1>7. ASSUME NEW f \in es \ {e} PROVE Before(e, f)
  <2>1. /\ e.time \in Nat /\ f.time \in Nat /\ e.id \in Nat /\ f.id \in Nat /\ e.id # f.id
        /\ e.time <= f.time /\ (f.time = e.time => e.id <= f.id)
    BY <1>3, <1>6, AuditAssumption DEF Sortable, Ids
  <2> QED BY <2>1 DEF Before
<1> QED BY <1>7

\* Latest is the event that all others are before.
LEMMA LatestIs ==
    ASSUME NEW es, Sortable(es), NEW e \in es, \A f \in es \ {e} : Before(f, e)
    PROVE  Latest(es) = e
<1>1. \A x \in es : (\A f \in es \ {x} : Before(f, x)) => x = e
  BY InOrder
<1> QED BY <1>1 DEF Latest

LEMMA LatestIsOne ==
    ASSUME NEW es, Sortable(es), es # {}
    PROVE  Latest(es) \in es /\ \A f \in es \ {Latest(es)} : Before(f, Latest(es))
<1> DEFINE Ages == {MaxTime - e.time : e \in es}
<1>1. Ages \subseteq Nat /\ Ages # {}
  BY AuditAssumption DEF Sortable
<1>2. \E n \in Ages : \A m \in Ages : n <= m
  <2> HIDE DEF Ages
  <2> QED BY <1>1, Least
<1>3. PICK d \in es : \A e \in es : MaxTime - d.time <= MaxTime - e.time
  BY <1>2
<1>4. \A e \in es : e.time <= d.time
  BY <1>3, AuditAssumption DEF Sortable
<1> DEFINE Of == {MaxEvents - e.id : e \in {f \in es : f.time = d.time}}
<1>5. Of \subseteq Nat /\ Of # {}
  BY AuditAssumption DEF Sortable, Ids
<1>6. \E i \in Of : \A k \in Of : i <= k
  <2> HIDE DEF Of
  <2> QED BY <1>5, Least
<1>7. PICK e \in es : /\ e.time = d.time
                      /\ \A f \in es : f.time = d.time => MaxEvents - e.id <= MaxEvents - f.id
  BY <1>6
<1>8. ASSUME NEW f \in es \ {e} PROVE Before(f, e)
  <2>1. /\ e.time \in Nat /\ f.time \in Nat /\ e.id \in Nat /\ f.id \in Nat /\ e.id # f.id
        /\ f.time <= e.time /\ (f.time = e.time => MaxEvents - e.id <= MaxEvents - f.id)
        /\ MaxEvents \in Nat
    BY <1>4, <1>7, AuditAssumption DEF Sortable, Ids
  <2> QED BY <2>1 DEF Before
<1> QED BY <1>8, LatestIs

\* An event fits: it links to the one before it, and its hash is that of its row.
Preceding(e, es) == {f \in es : Before(f, e)}
Fits(e, es) == /\ e.prev = LatestHash(Preceding(e, es))
               /\ e.hash = HashOf(e.content, e.time, e.prev)
Chain(es) == \A e \in es : Fits(e, es)

\* What the link of a fitting event says of the one before it.
LEMMA LinkIs ==
    ASSUME NEW es, Sortable(es), Chain(es), NEW e \in es
    PROVE  \/ e.prev = NoHash /\ \A f \in es : ~Before(f, e)
           \/ \E p \in es : /\ e.prev = p.hash /\ Before(p, e)
                            /\ \A f \in es : Before(f, e) => f = p \/ Before(f, p)
<1>1. e.prev = LatestHash(Preceding(e, es)) /\ Preceding(e, es) \subseteq es
  BY DEF Chain, Fits, Preceding
<1>2. CASE Preceding(e, es) = {}
  BY <1>1, <1>2 DEF LatestHash, Preceding
<1>3. CASE Preceding(e, es) # {}
  <2>1. Sortable(Preceding(e, es))
    BY <1>1, PartsSortable
  <2> DEFINE p == Latest(Preceding(e, es))
  <2>2. p \in Preceding(e, es) /\ \A f \in Preceding(e, es) \ {p} : Before(f, p)
    BY <1>3, <2>1, LatestIsOne
  <2>3. e.prev = p.hash
    BY <1>1, <1>3 DEF LatestHash
  <2> HIDE DEF p
  <2> QED BY <2>2, <2>3 DEF Preceding
<1> QED BY <1>2, <1>3

LEMMA HashIsSome ==
    ASSUME NEW es, Chain(es), NEW e \in es
    PROVE  e.hash # NoHash
<1>1. ASSUME NEW a, NEW b, NEW c PROVE <<a, b, c>> # <<>>
  <2>1. DOMAIN <<a, b, c>> = 1 .. 3 /\ DOMAIN <<>> = 1 .. 0
    OBVIOUS
  <2> QED BY <2>1
<1> QED BY <1>1 DEF Chain, Fits, HashOf, NoHash

\* Events of a chain have different hashes: else take the first that has the hash
\* of an earlier one; the two before them would have one hash as well.
LEMMA HashesDiffer ==
    ASSUME NEW es, Sortable(es), Chain(es), NEW e0 \in es, NEW f0 \in es, e0 # f0
    PROVE  e0.hash # f0.hash
<1> SUFFICES ASSUME e0.hash = f0.hash PROVE FALSE
  OBVIOUS
<1> DEFINE Again == {e \in es : \E f \in es : Before(f, e) /\ f.hash = e.hash}
<1>1. Again # {} /\ Again \subseteq es
  BY InOrder
<1>2. \E e \in Again : \A f \in Again \ {e} : Before(e, f)
  <2> HIDE DEF Again
  <2> QED BY <1>1, PartsSortable, Earliest
<1>3. PICK e \in Again : \A f \in Again \ {e} : Before(e, f)
  BY <1>2
<1>4. PICK f \in es : Before(f, e) /\ f.hash = e.hash
  OBVIOUS
<1>5. e.prev = f.prev
  BY <1>4 DEF Chain, Fits, HashOf
<1>6. PICK p \in es : /\ e.prev = p.hash /\ Before(p, e)
                      /\ \A g \in es : Before(g, e) => g = p \/ Before(g, p)
  BY <1>4, LinkIs
<1>7. p.hash # NoHash
  BY HashIsSome
<1>8. PICK q \in es : f.prev = q.hash /\ Before(q, f)
  BY <1>5, <1>6, <1>7, LinkIs
<1>9. Before(q, p) /\ q.hash = p.hash
  BY <1>4, <1>5, <1>6, <1>8, InOrder
<1>10. p \in Again /\ p # e
  BY <1>6, <1>9, InOrder
<1>11. Before(e, p)
  BY <1>3, <1>10
<1> QED BY <1>6, <1>11, InOrder

\* What breaks a trail for good: two events with one link, or one that links to an
\* event that is not before it.
SameLink(es) == \E e, f \in es : e # f /\ e.prev = f.prev
WrongWay(es) == \E e, f \in es : e.prev = f.hash /\ ~Before(f, e)
Broken(es) == SameLink(es) \/ WrongWay(es)

LEMMA BrokenStays ==
    ASSUME NEW es, NEW fs, es \subseteq fs, Broken(es)
    PROVE  Broken(fs)
BY DEF Broken, SameLink, WrongWay

LEMMA BrokenTells ==
    ASSUME NEW es, Sortable(es), Broken(es)
    PROVE  ~Chain(es)
<1> SUFFICES ASSUME Chain(es) PROVE FALSE
  OBVIOUS
<1>1. ASSUME NEW e \in es, NEW f \in es, Before(e, f), e.prev = f.prev PROVE FALSE
  <2>1. PICK q \in es : /\ f.prev = q.hash /\ Before(q, f)
                        /\ \A g \in es : Before(g, f) => g = q \/ Before(g, q)
    BY <1>1, LinkIs
  <2>2. q.hash # NoHash
    BY HashIsSome
  <2>3. PICK p \in es : e.prev = p.hash /\ Before(p, e)
    BY <1>1, <2>1, <2>2, LinkIs
  <2>4. p = q
    BY <1>1, <2>1, <2>3, HashesDiffer
  <2>5. q = e \/ Before(e, q)
    BY <1>1, <2>1
  <2> QED BY <2>3, <2>4, <2>5, InOrder
<1>2. ASSUME NEW e \in es, NEW f \in es, e.prev = f.hash, ~Before(f, e) PROVE FALSE
  <2>1. f.hash # NoHash
    BY HashIsSome
  <2>2. PICK p \in es : e.prev = p.hash /\ Before(p, e)
    BY <1>2, <2>1, LinkIs
  <2>3. p = f
    BY <1>2, <2>2, HashesDiffer
  <2> QED BY <1>2, <2>2, <2>3
<1> QED BY <1>1, <1>2, InOrder DEF Broken, SameLink, WrongWay

-----------------------------------------------------------------------------
(* The invariant of the trail. *)

\* Of the threads of one process one holds a link at a time, and an append that no
\* event has passed links to the latest.
Turns ==
    /\ \A t, u \in Threads : /\ thread[t].at = "linked" /\ thread[u].at = "linked"
                             /\ ProcessOf[t] = ProcessOf[u]
                             => t = u
    /\ \A t \in Threads : thread[t].at = "linked" => ProcessOf[t] \notin thread[t].passed
Linking == \A t \in Threads :
              thread[t].at = "linked" /\ thread[t].passed = {} => thread[t].prev = LatestHash(events)

\* An append that was passed has the link of an event.
Passed ==
    ~disordered /\ ~tampered => \A t \in Threads :
        thread[t].at = "linked" /\ thread[t].passed # {}
           => \E e \in events : e.prev = thread[t].prev

\* Each event fits until one is edited, and then one never does again; or one was
\* inserted out of order, and the trail is broken.
Telling ==
    /\ ~disordered /\ ~tampered => Chain(events)
    /\ ~disordered /\ tampered => \E e \in events : ~Fits(e, events)
    /\ disordered /\ ~tampered => Broken(events)

TrailInv == ChainTypeOK /\ Turns /\ Linking /\ Passed /\ Telling

LEMMA EventsSortable == ChainTypeOK => Sortable(events)
BY DEF ChainTypeOK, Sortable

LEMMA ChainInitInv == ChainInit => TrailInv
<1> SUFFICES ASSUME ChainInit PROVE TrailInv
  OBVIOUS
<1>1. ChainTypeOK
  <2>1. clock \in 0 .. MaxTime
    BY AuditAssumption DEF ChainInit
  <2>2. tampered \in BOOLEAN /\ disordered \in BOOLEAN
    BY Zenon DEF ChainInit
  <2> QED BY <2>1, <2>2 DEF ChainInit, ChainTypeOK, NoAppend
<1>2. Turns /\ Linking /\ Passed
  BY DEF ChainInit, Turns, Linking, Passed, NoAppend
<1>3. Telling
  BY DEF ChainInit, Telling, Chain
<1> QED BY <1>1, <1>2, <1>3 DEF TrailInv

\* Every variable of the trail has its type.
LEMMA ChainStepTypes == ChainTypeOK /\ [ChainNext]_chainVars => ChainTypeOK'
<1> SUFFICES ASSUME ChainTypeOK, [ChainNext]_chainVars PROVE ChainTypeOK'
  OBVIOUS
<1>1. CASE Tick
  BY <1>1, AuditAssumption DEF Tick, ChainTypeOK
<1>2. ASSUME NEW t \in Threads, NEW c \in Contents, Stamp(t, c) PROVE ChainTypeOK'
  BY <1>2 DEF Stamp, ChainTypeOK, NoAppend
<1>3. ASSUME NEW t \in Threads, ReadLatest(t) PROVE ChainTypeOK'
  <2>1. /\ UNCHANGED <<events, clock, disordered, tampered>>
        /\ thread' = [u \in Threads |-> thread'[u]]
        /\ thread'[t].at = "linked" /\ thread'[t].passed = {}
        /\ thread'[t].time = thread[t].time /\ thread'[t].content = thread[t].content
        /\ thread[t].at = "stamped"
        /\ \A u \in Threads \ {t} : thread'[u] = thread[u]
    BY <1>3 DEF ReadLatest, ChainTypeOK
  <2>2. thread[t] # NoAppend
    BY <2>1 DEF NoAppend
  <2>3. ASSUME NEW u \in Threads, thread'[u] # NoAppend
        PROVE  /\ thread'[u].at \in {"stamped", "linked"}
               /\ thread'[u].time \in 0 .. MaxTime /\ thread'[u].content \in Contents
               /\ thread'[u].at = "linked" => thread'[u].passed \subseteq Processes
    <3>1. CASE u = t
      BY <2>1, <2>2, <3>1 DEF ChainTypeOK
    <3>2. CASE u # t
      BY <2>1, <2>3, <3>2 DEF ChainTypeOK
    <3> QED BY <3>1, <3>2
  <2> QED BY <2>1, <2>3 DEF ChainTypeOK
<1>4. ASSUME NEW t \in Threads, NEW id \in Ids, Insert(t, id) PROVE ChainTypeOK'
  <2>1. thread' = [u \in Threads |-> thread'[u]]
    BY <1>4 DEF Insert
  <2>2. ASSUME NEW u \in Threads, thread'[u] # NoAppend
        PROVE  /\ thread'[u].at \in {"stamped", "linked"}
               /\ thread'[u].time \in 0 .. MaxTime /\ thread'[u].content \in Contents
               /\ thread'[u].at = "linked" => thread'[u].passed \subseteq Processes
    <3> DEFINE more == [thread[u] EXCEPT !.passed = @ \cup {ProcessOf[t]}]
    <3>1. u # t /\ thread[u] # NoAppend
          /\ thread'[u] = IF thread[u].at = "linked" THEN more ELSE thread[u]
      BY <1>4, <2>2 DEF Insert, NoAppend
    <3>2. /\ more.at = thread[u].at /\ more.time = thread[u].time
          /\ more.content = thread[u].content
      OBVIOUS
    <3>3. thread[u].at = "linked" => more.passed \subseteq Processes
      BY <3>1, AuditAssumption DEF ChainTypeOK
    <3> HIDE DEF more
    <3> QED BY <3>1, <3>2, <3>3 DEF ChainTypeOK
  <2>3. /\ clock' \in 0 .. MaxTime /\ tampered' \in BOOLEAN
        /\ \A e \in events' : /\ DOMAIN e = {"id", "content", "time", "prev", "hash"}
                              /\ e.id \in Ids /\ e.content \in Contents /\ e.time \in 0 .. MaxTime
        /\ \A e, f \in events' : e.id = f.id => e = f
    BY <1>4 DEF Insert, ChainTypeOK, NoAppend
  <2>4. disordered' \in BOOLEAN
    BY <1>4 DEF Insert, ChainTypeOK
  <2> QED BY <2>1, <2>2, <2>3, <2>4 DEF ChainTypeOK
<1>5. ASSUME NEW e \in events, Tamper(e) PROVE ChainTypeOK'
  BY <1>5 DEF Tamper, ChainTypeOK
<1>6. CASE UNCHANGED chainVars
  BY <1>6 DEF chainVars, ChainTypeOK
<1> QED BY <1>1, <1>2, <1>3, <1>4, <1>5, <1>6 DEF ChainNext, Append

\* The row that an append inserts, and what becomes of the appends it passes.
LEMMA InsertIs ==
    ASSUME TrailInv, NEW t \in Threads, NEW id \in Ids, Insert(t, id)
    PROVE  \E new : /\ new \notin events /\ events' = events \cup {new}
                    /\ new.prev = thread[t].prev
                    /\ new.hash = HashOf(new.content, new.time, new.prev)
                    /\ (disordered') <=> \/ disordered \/ thread[t].passed # {}
                                         \/ \E e \in events : Before(new, e)
                    /\ tampered' = tampered
                    /\ thread'[t] = NoAppend
                    /\ \A u \in Threads \ {t} :
                          /\ thread'[u].at = thread[u].at
                          /\ thread[u].at = "linked" =>
                                /\ thread'[u].prev = thread[u].prev
                                /\ thread'[u].passed = thread[u].passed \cup {ProcessOf[t]}
<1> DEFINE new == [id |-> id, content |-> thread[t].content, time |-> thread[t].time,
                   prev |-> thread[t].prev,
                   hash |-> HashOf(thread[t].content, thread[t].time, thread[t].prev)]
<1>1. /\ new.id = id /\ new.prev = thread[t].prev
      /\ new.hash = HashOf(new.content, new.time, new.prev)
  OBVIOUS
<1>2. /\ events' = events \cup {new} /\ tampered' = tampered
      /\ (disordered') <=> \/ disordered \/ thread[t].passed # {}
                           \/ \E e \in events : Before(new, e)
      /\ id \notin {e.id : e \in events}
      /\ thread'[t] = NoAppend
  BY DEF Insert
<1>3. ASSUME NEW u \in Threads \ {t}
      PROVE  /\ thread'[u].at = thread[u].at
             /\ thread[u].at = "linked" =>
                   /\ thread'[u].prev = thread[u].prev
                   /\ thread'[u].passed = thread[u].passed \cup {ProcessOf[t]}
  <2> DEFINE more == [thread[u] EXCEPT !.passed = @ \cup {ProcessOf[t]}]
  <2>1. thread'[u] = IF thread[u].at = "linked" THEN more ELSE thread[u]
    BY DEF Insert
  <2>2. more.at = thread[u].at /\ more.prev = thread[u].prev
    OBVIOUS
  <2> QED BY <2>1, <2>2
<1> HIDE DEF new
<1>4. new \notin events
  BY <1>1, <1>2
<1> QED BY <1>1, <1>2, <1>3, <1>4

\* An event that is inserted in order comes after all others and fits; one that is
\* not breaks the trail.
LEMMA InsertTells ==
    ASSUME TrailInv, ChainTypeOK', NEW t \in Threads, NEW id \in Ids, Insert(t, id)
    PROVE  Turns' /\ Linking' /\ Passed' /\ Telling'
<1>1. PICK new : /\ new \notin events /\ events' = events \cup {new}
                 /\ new.prev = thread[t].prev
                 /\ new.hash = HashOf(new.content, new.time, new.prev)
                 /\ (disordered') <=> \/ disordered \/ thread[t].passed # {}
                                      \/ \E e \in events : Before(new, e)
                 /\ tampered' = tampered
                 /\ thread'[t] = NoAppend
                 /\ \A u \in Threads \ {t} :
                       /\ thread'[u].at = thread[u].at
                       /\ thread[u].at = "linked" =>
                             /\ thread'[u].prev = thread[u].prev
                             /\ thread'[u].passed = thread[u].passed \cup {ProcessOf[t]}
  BY InsertIs
<1>2. /\ thread[t].at = "linked" /\ Turns /\ Linking /\ Passed /\ Telling /\ ChainTypeOK
      /\ thread'[t].at = "idle"
  BY <1>1 DEF TrailInv, Insert, NoAppend
<1>3. Turns'
  BY <1>1, <1>2 DEF Turns
<1>4. Linking'
  BY <1>1, <1>2 DEF Linking
<1>5. Sortable(events) /\ Sortable(events')
  <2>1. Sortable(events')
    BY DEF ChainTypeOK, Sortable
  <2> QED BY <1>2, <2>1, EventsSortable
<1>6. CASE ~(disordered')
  <2>1. ~disordered /\ thread[t].passed = {} /\ \A e \in events : ~Before(new, e)
    BY <1>1, <1>6
  <2>2. new.prev = LatestHash(events)
    BY <1>1, <1>2, <2>1 DEF Linking
  <2>3. \A e \in events : Before(e, new)
    BY <1>1, <1>5, <2>1, InOrder
  <2>4. ~Before(new, new)
    BY <1>1, <1>5, InOrder
  <2>5. Preceding(new, events') = events
    BY <1>1, <2>3, <2>4 DEF Preceding
  <2>6. \A e \in events : Preceding(e, events') = Preceding(e, events)
    BY <1>1, <2>1 DEF Preceding
  <2>7. \A e \in events : Fits(e, events') <=> Fits(e, events)
    BY <2>6 DEF Fits
  <2>8. Fits(new, events')
    BY <1>1, <2>2, <2>5 DEF Fits
  <2>9. Telling'
    <3>1. ~tampered' => Chain(events')
      BY <1>1, <1>2, <2>1, <2>7, <2>8 DEF Telling, Chain
    <3>2. tampered' => \E e \in events' : ~Fits(e, events')
      BY <1>1, <1>2, <2>1, <2>7 DEF Telling
    <3>3. \A e : Fits(e, events)' <=> Fits(e, events')
      BY DEF Fits, Preceding
    <3>4. Chain(events)' <=> Chain(events')
      BY <3>3 DEF Chain
    <3> QED BY <1>6, <3>1, <3>2, <3>3, <3>4 DEF Telling
  <2>10. Passed'
    <3>1. ASSUME NEW u \in Threads, thread'[u].at = "linked", ~tampered'
          PROVE  \E e \in events' : e.prev = thread'[u].prev
      <4>1. u # t /\ thread[u].at = "linked" /\ thread'[u].prev = thread[u].prev
        BY <1>1, <1>2, <3>1
      <4>2. CASE thread[u].passed = {}
        BY <1>1, <1>2, <2>2, <4>1, <4>2 DEF Linking
      <4>3. CASE thread[u].passed # {}
        BY <1>1, <1>2, <2>1, <3>1, <4>1, <4>3 DEF Passed
      <4> QED BY <4>2, <4>3
    <3> QED BY <3>1 DEF Passed
  <2> QED BY <1>3, <1>4, <2>9, <2>10
<1>7. CASE disordered'
  <2>1. ASSUME ~tampered PROVE Broken(events')
    <3>1. CASE disordered
      BY <1>1, <1>2, <2>1, <3>1, BrokenStays DEF Telling
    <3>2. CASE ~disordered /\ thread[t].passed # {}
      <4>1. PICK e \in events : e.prev = new.prev
        BY <1>1, <1>2, <2>1, <3>2 DEF Passed
      <4> QED BY <1>1, <4>1 DEF Broken, SameLink
    <3>3. CASE ~disordered /\ thread[t].passed = {}
      <4>1. PICK e \in events : Before(new, e)
        BY <1>1, <1>7, <3>3
      <4> DEFINE l == Latest(events)
      <4>2. l \in events /\ \A f \in events \ {l} : Before(f, l)
        BY <1>5, <4>1, LatestIsOne
      <4>3. new.prev = l.hash
        BY <1>1, <1>2, <3>3, <4>1 DEF Linking, LatestHash
      <4> HIDE DEF l
      <4>4. ~Before(l, new)
        BY <1>1, <1>5, <4>1, <4>2, InOrder
      <4> QED BY <1>1, <4>2, <4>3, <4>4 DEF Broken, WrongWay
    <3> QED BY <3>1, <3>2, <3>3
  <2>2. Telling'
    <3>1. Broken(events)' <=> Broken(events')
      BY DEF Broken, SameLink, WrongWay
    <3> QED BY <1>1, <1>7, <2>1, <3>1 DEF Telling
  <2> QED BY <1>3, <1>4, <1>7, <2>2 DEF Passed
<1> QED BY <1>6, <1>7

\* A row that is edited no longer has its hash.
LEMMA EditTells ==
    ASSUME TrailInv, NEW e \in events, NEW c \in Contents \ {e.content}, ~tampered,
           events' = (events \ {e}) \cup {[e EXCEPT !.content = c]}
    PROVE  /\ LatestHash(events') = LatestHash(events)
           /\ ~disordered => \E f \in events' : ~Fits(f, events')
<1> DEFINE new == [e EXCEPT !.content = c]
<1>1. /\ new.content = c /\ new.time = e.time /\ new.prev = e.prev /\ new.hash = e.hash
      /\ new.id = e.id /\ events' = (events \ {e}) \cup {new}
  BY DEF TrailInv, ChainTypeOK
<1> HIDE DEF new
<1>2. Sortable(events) /\ Telling
  BY EventsSortable DEF TrailInv
<1>3. Sortable(events')
  BY <1>1, <1>2 DEF Sortable
<1>4. ASSUME ~disordered PROVE ~Fits(new, events')
  <2>1. e.hash = HashOf(e.content, e.time, e.prev)
    BY <1>2, <1>4 DEF Telling, Chain, Fits
  <2> QED BY <1>1, <2>1 DEF Fits, HashOf
<1> DEFINE l == Latest(events)
<1>5. l \in events /\ \A f \in events \ {l} : Before(f, l)
  BY <1>2, LatestIsOne
<1> HIDE DEF l
<1>6. CASE l = e
  <2>1. \A f \in events' \ {new} : Before(f, new)
    BY <1>1, <1>5, <1>6 DEF Before
  <2>2. Latest(events') = new
    BY <1>1, <1>3, <2>1, LatestIs
  <2> QED BY <1>1, <1>4, <1>6, <2>2 DEF LatestHash, l
<1>7. CASE l # e
  <2>1. l \in events' /\ \A f \in events' \ {l} : Before(f, l)
    BY <1>1, <1>5, <1>7 DEF Before
  <2>2. Latest(events') = l
    BY <1>3, <2>1, LatestIs
  <2> QED BY <1>1, <1>4, <2>2 DEF LatestHash, l
<1> QED BY <1>6, <1>7

\* The event that followed a removed one links to an event that is not there.
LEMMA RemovalTells ==
    ASSUME TrailInv, NEW e \in events, e # Latest(events), ~tampered,
           events' = events \ {e}
    PROVE  /\ LatestHash(events') = LatestHash(events)
           /\ ~disordered => \E f \in events' : ~Fits(f, events')
<1>1. Sortable(events) /\ Telling
  BY EventsSortable DEF TrailInv
<1>2. Sortable(events')
  BY <1>1, PartsSortable
<1> DEFINE l == Latest(events)
<1>3. l \in events /\ \A f \in events \ {l} : Before(f, l)
  BY <1>1, LatestIsOne
<1>4. LatestHash(events') = LatestHash(events)
  <2>1. l \in events' /\ \A f \in events' \ {l} : Before(f, l)
    BY <1>3
  <2> HIDE DEF l
  <2>2. Latest(events') = l
    BY <1>2, <2>1, LatestIs
  <2> QED BY <2>1, <2>2 DEF LatestHash, l
<1>5. ASSUME ~disordered PROVE \E f \in events' : ~Fits(f, events')
  <2>1. Chain(events)
    BY <1>1, <1>5 DEF Telling
  <2> DEFINE After == {f \in events : Before(e, f)}
  <2>2. After # {} /\ After \subseteq events
    BY <1>3
  <2>3. \E g \in After : \A f \in After \ {g} : Before(g, f)
    <3> HIDE DEF After
    <3> QED BY <1>1, <2>2, PartsSortable, Earliest
  <2>4. PICK g \in After : \A f \in After \ {g} : Before(g, f)
    BY <2>3
  <2>5. PICK p \in events : /\ g.prev = p.hash /\ Before(p, g)
                            /\ \A f \in events : Before(f, g) => f = p \/ Before(f, p)
    BY <1>1, <2>1, LinkIs
  <2>6. p = e
    <3>1. e = p \/ Before(e, p)
      BY <2>5
    <3>2. p \in After => p = g \/ Before(g, p)
      BY <2>4
    <3> QED BY <1>1, <2>5, <3>1, <3>2, InOrder
  <2>7. g \in events'
    BY <1>1, InOrder
  <2>8. ASSUME Fits(g, events') PROVE FALSE
    <3>1. g.prev = LatestHash(Preceding(g, events')) /\ Preceding(g, events') \subseteq events'
      BY <2>8 DEF Fits, Preceding
    <3>2. Preceding(g, events') # {}
      BY <2>1, <2>5, <3>1, HashIsSome DEF LatestHash
    <3>3. Latest(Preceding(g, events')) \in Preceding(g, events')
      BY <1>2, <3>1, <3>2, PartsSortable, LatestIsOne
    <3>4. PICK q \in events : q # e /\ g.prev = q.hash
      BY <3>1, <3>2, <3>3 DEF LatestHash
    <3> QED BY <1>1, <2>1, <2>5, <2>6, <3>4, HashesDiffer
  <2> QED BY <2>7, <2>8
<1> QED BY <1>4, <1>5

LEMMA TrailStepInv == TrailInv /\ [ChainNext]_chainVars => TrailInv'
<1> SUFFICES ASSUME TrailInv, [ChainNext]_chainVars PROVE TrailInv'
  OBVIOUS
<1>0. ChainTypeOK /\ Turns /\ Linking /\ Passed /\ Telling /\ ChainTypeOK'
  BY ChainStepTypes DEF TrailInv
<1>1. ASSUME UNCHANGED <<events, disordered, tampered>>
      PROVE  Telling'
  BY <1>0, <1>1 DEF Telling, Chain, Fits, Preceding, Broken, SameLink, WrongWay
<1>2. ASSUME UNCHANGED <<events, thread, disordered, tampered>>
      PROVE  Turns' /\ Linking' /\ Passed'
  BY <1>0, <1>2 DEF Turns, Linking, Passed
<1>3. ASSUME NEW t \in Threads, NEW c \in Contents, Stamp(t, c)
      PROVE  Turns' /\ Linking' /\ Passed' /\ Telling'
  <2>1. /\ UNCHANGED <<events, disordered, tampered>>
        /\ thread'[t].at = "stamped"
        /\ \A u \in Threads \ {t} : thread'[u] = thread[u]
    BY <1>0, <1>3 DEF Stamp, ChainTypeOK
  <2>2. Turns'
    BY <1>0, <2>1 DEF Turns
  <2>3. Linking'
    BY <1>0, <2>1 DEF Linking
  <2>4. Passed'
    BY <1>0, <2>1 DEF Passed
  <2> QED BY <1>1, <2>1, <2>2, <2>3, <2>4
<1>4. ASSUME NEW t \in Threads, ReadLatest(t) PROVE Turns' /\ Linking' /\ Passed' /\ Telling'
  <2>1. /\ UNCHANGED <<events, disordered, tampered>>
        /\ thread'[t].at = "linked" /\ thread'[t].passed = {}
        /\ thread'[t].prev = LatestHash(events)
        /\ \A u \in Threads \ {t} : thread'[u] = thread[u]
        /\ \A u \in Threads : ProcessOf[u] = ProcessOf[t] => thread[u].at # "linked"
    BY <1>0, <1>4 DEF ReadLatest, Locked, ChainTypeOK
  <2>2. Turns'
    BY <1>0, <2>1 DEF Turns
  <2>3. Linking'
    BY <1>0, <2>1 DEF Linking
  <2>4. Passed'
    BY <1>0, <2>1 DEF Passed
  <2> QED BY <1>1, <2>1, <2>2, <2>3, <2>4
<1>5. ASSUME NEW t \in Threads, NEW id \in Ids, Insert(t, id)
      PROVE  Turns' /\ Linking' /\ Passed' /\ Telling'
  BY <1>0, <1>5, InsertTells
<1>6. ASSUME NEW e \in events, Tamper(e) PROVE Turns' /\ Linking' /\ Passed' /\ Telling'
  <2>1. ~tampered /\ tampered' = TRUE /\ UNCHANGED <<clock, thread, disordered>>
    BY <1>6 DEF Tamper
  <2>2. \/ \E c \in Contents \ {e.content} :
              events' = (events \ {e}) \cup {[e EXCEPT !.content = c]}
        \/ e # Latest(events) /\ events' = events \ {e}
    BY <1>6 DEF Tamper
  <2>3. /\ LatestHash(events') = LatestHash(events)
        /\ ~disordered => \E f \in events' : ~Fits(f, events')
    BY <2>1, <2>2, EditTells, RemovalTells
  <2>4. \A f : Fits(f, events)' <=> Fits(f, events')
    BY DEF Fits, Preceding
  <2>5. Telling'
    BY <2>1, <2>3, <2>4 DEF Telling
  <2>6. Linking'
    <3>1. LatestHash(events)' = LatestHash(events')
      BY DEF LatestHash, Latest
    <3> QED BY <1>0, <2>1, <2>3, <3>1 DEF Linking
  <2>7. Turns' /\ Passed'
    BY <1>0, <2>1 DEF Turns, Passed
  <2> QED BY <2>5, <2>6, <2>7
<1>7. ASSUME Tick \/ UNCHANGED chainVars PROVE Turns' /\ Linking' /\ Passed' /\ Telling'
  <2>1. UNCHANGED <<events, thread, disordered, tampered>>
    BY <1>7 DEF Tick, chainVars
  <2> QED BY <1>1, <1>2, <2>1
<1> QED BY <1>0, <1>3, <1>4, <1>5, <1>6, <1>7 DEF ChainNext, Append, TrailInv

\* Every variable of the trail has its type.
THEOREM ChainTypeCorrect == ChainSpec => []ChainTypeOK
<1>1. ChainInit => ChainTypeOK
  BY ChainInitInv DEF TrailInv
<1> QED BY <1>1, ChainStepTypes, PTL DEF ChainSpec

\* For any threads of any processes, however their appends overlap: an append links
\* to the latest event unless another process inserted after it read; and the trail
\* verifies exactly while nothing edits it and every event is inserted in order.
THEOREM TrailIsOneChain == ChainSpec => []ChainHolds
<1>1. TrailInv => ChainHolds
  <2> SUFFICES ASSUME TrailInv PROVE ChainHolds
    OBVIOUS
  <2>1. Verified <=> Chain(events)
    BY DEF Verified, Chain, Fits, Preceding
  <2>2. LinksLatest
    BY DEF TrailInv, Turns, Linking, LinksLatest
  <2>3. disordered /\ ~tampered => ~Chain(events)
    BY EventsSortable, BrokenTells DEF TrailInv, Telling
  <2>4. ~disordered => (Chain(events) <=> ~tampered)
    BY DEF TrailInv, Telling, Chain
  <2> QED BY <2>1, <2>2, <2>3, <2>4 DEF ChainHolds, VerifiesInOrder
<1> QED BY <1>1, ChainInitInv, TrailStepInv, PTL DEF ChainSpec

-----------------------------------------------------------------------------
(* The three parts together, as they are explored.                           *)

LEMMA PartsRun == EvidenceSpec => StoreSpec /\ ChainSpec /\ PolicySpec
<1>1. EvidenceInit => StoreInit /\ ChainInit /\ PolicyInit
  BY DEF EvidenceInit
<1>2. [EvidenceNext]_evidenceVars =>
         [StoreNext]_storeVars /\ [ChainNext]_chainVars /\ [PolicyNext]_policyVars
  BY DEF EvidenceNext, evidenceVars, StoreStep, ChainStep, PolicyStep
<1> QED BY <1>1, <1>2, PTL DEF EvidenceSpec, StoreSpec, ChainSpec, PolicySpec

\* Every variable of the three parts has its type.
THEOREM EvidenceTypeCorrect == EvidenceSpec => []EvidenceTypeOK
BY PartsRun, StoreTypeCorrect, ChainTypeCorrect, DecisionsAreSound, PTL DEF EvidenceTypeOK

\* What the records keep and tell, in the specification that is model-checked.
THEOREM EvidenceHolds ==
    EvidenceSpec => /\ []DecidedByOneTable
                    /\ EvidenceKept
                    /\ []ChainHolds
BY PartsRun, DecisionsAreSound, EvidenceIsKept, TrailIsOneChain, PTL

=============================================================================
