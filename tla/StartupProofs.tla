---------------------------- MODULE StartupProofs ----------------------------
(***************************************************************************)
(* What MCStartup checks of the program's replacement, its database and   *)
(* its command line, for every set of builds, versions, processes, options *)
(* and words and every bound: the archive updater, the managed update, the *)
(* start of the database and the translation of what is typed.             *)
(***************************************************************************)
EXTENDS MCStartup, FiniteSetTheorems, SequenceTheorems, WellFoundedInduction, TLAPS

-----------------------------------------------------------------------------
(* The archive updater *)

\* Where the installed tree is in its place.
InPlace == {"idle", "payload", "preserve", "try", "drop backup", "back up", "drop previous",
            "move aside", "smoke", "drop old", "drop shelf", "shelve", "smoke restored"}

SecureOps == [at : {"idle"} \cup S!InstallSteps \cup S!RollbackSteps, swapped : BOOLEAN,
              target : Releases \cup {"none"}, before : S!Trees,
              end : {"none", "installed", "restored", "raised"}]

SecureFailures == [kinds : SUBSET SecureFaults, number : 0 .. MaxSecureFaults]

\* A tree that is whole is there.
Sane(t) == t \in S!Trees /\ (t.whole => S!There(t))

SecureTypes ==
    /\ Sane(root) /\ Sane(previous) /\ Sane(backup) /\ Sane(shelf) /\ Sane(prepared)
    /\ op \in SecureOps /\ Sane(op.before)
    /\ written \in 0 .. MaxWrites /\ secureFaults \in SecureFailures
    /\ op.at \in S!InstallSteps => op.target \in Releases
    /\ op.swapped => op.at \in {"smoke", "drop old"}
    /\ op.at \in {"preserve", "try", "drop backup", "back up", "drop previous", "move aside", "move in"}
          => S!Whole(prepared)

\* While only builds are rejected and copies stop, every tree that is going to
\* be in place is whole.
SecureWhole ==
    secureFaults.kinds \subseteq {"smoke", "copy"} =>
        /\ op.at \in InPlace => S!Whole(root)
        /\ op.at \in {"move in", "smoke", "drop old"} => S!Whole(previous)
        /\ op.at \in {"restore", "smoke restored"} => S!Whole(shelf)
        /\ S!There(backup) => backup.whole
        /\ op.at \in {"drop shelf", "shelve", "restore"} => S!There(backup)

\* Where the tree that was installed when the operation began is now.
SecureKept ==
    op.before.whole =>
        /\ op.at \in InPlace \ {"idle", "smoke", "drop old", "smoke restored"} => S!Kept(root)
        /\ op.at \in {"move in", "smoke", "drop old"} => S!Kept(previous)
        /\ op.at \in {"drop previous", "move aside", "move in", "smoke", "drop old"} => S!Kept(backup)
        /\ op.at \in {"restore", "smoke restored"} => S!Kept(shelf)
        /\ op.at \in {"try", "drop backup", "back up", "drop previous", "move aside", "move in"}
              => prepared.data >= op.before.data
        /\ op.at \in {"smoke", "drop old"} => root.data >= op.before.data

SecureInv == SecureTypes /\ SecureWhole /\ SecureKept

LEMMA SecureFacts ==
    /\ Sane(S!None) /\ ~S!None.whole /\ ~S!There(S!None)
    /\ \A b \in Releases, n \in 0 .. MaxWrites : Sane(S!Tree(b, n)) /\ S!Whole(S!Tree(b, n))
    /\ \A t : Sane(t) => Sane(S!Torn(t)) /\ ~S!Torn(t).whole /\ t.data \in 0 .. MaxWrites
    /\ \A t \in S!Trees, n \in 0 .. MaxWrites :
          /\ [t EXCEPT !.data = n] \in S!Trees
          /\ [t EXCEPT !.data = n].data = n
          /\ [t EXCEPT !.data = n].build = t.build
          /\ [t EXCEPT !.data = n].whole = t.whole
    /\ MaxWrites \in Nat
<1>1. "none" \notin Releases /\ MaxWrites \in Nat
  BY StartupAssumption DEF S!SecureUpdateAssumption
<1>2. Sane(S!None) /\ ~S!None.whole /\ ~S!There(S!None)
  BY <1>1 DEF Sane, S!None, S!Trees, S!There
<1>3. \A b \in Releases, n \in 0 .. MaxWrites : Sane(S!Tree(b, n)) /\ S!Whole(S!Tree(b, n))
  BY <1>1 DEF Sane, S!Tree, S!Trees, S!There, S!Whole
<1>4. \A t : Sane(t) => Sane(S!Torn(t)) /\ ~S!Torn(t).whole /\ t.data \in 0 .. MaxWrites
  <2> SUFFICES ASSUME NEW t, Sane(t) PROVE Sane(S!Torn(t)) /\ ~S!Torn(t).whole /\ t.data \in 0 .. MaxWrites
    OBVIOUS
  <2>1. CASE S!There(t)
    BY <2>1 DEF Sane, S!Torn, S!Trees
  <2>2. CASE ~S!There(t)
    BY <2>2 DEF Sane, S!Torn, S!Trees
  <2> QED BY <2>1, <2>2
<1>5. \A t \in S!Trees, n \in 0 .. MaxWrites :
          /\ [t EXCEPT !.data = n] \in S!Trees
          /\ [t EXCEPT !.data = n].data = n
          /\ [t EXCEPT !.data = n].build = t.build
          /\ [t EXCEPT !.data = n].whole = t.whole
  BY DEF S!Trees
<1> QED BY <1>1, <1>2, <1>3, <1>4, <1>5

LEMMA SecureInitInv == S!Init => SecureInv
<1> SUFFICES ASSUME S!Init PROVE SecureInv
  OBVIOUS
<1>1. PICK b \in Releases : root = S!Tree(b, 0)
  BY DEF S!Init
<1>2. /\ previous = S!None /\ backup = S!None /\ shelf = S!None /\ prepared = S!None
      /\ op = S!Idle /\ written = 0 /\ secureFaults = [kinds |-> {}, number |-> 0]
  BY DEF S!Init
<1>3. Sane(root) /\ S!Whole(root) /\ 0 \in 0 .. MaxWrites
  BY <1>1, SecureFacts
<1>4. op \in SecureOps /\ op.at = "idle" /\ op.before = S!None /\ ~op.swapped
  BY <1>2, SecureFacts DEF S!Idle, SecureOps, Sane
<1>8. secureFaults \in SecureFailures
  <2>1. MaxSecureFaults \in Nat
    BY StartupAssumption DEF S!SecureUpdateAssumption
  <2>2. 0 \in 0 .. MaxSecureFaults
    BY <2>1
  <2> QED BY <1>2, <2>2 DEF SecureFailures
<1>5. SecureTypes
  BY <1>2, <1>3, <1>4, <1>8, SecureFacts DEF SecureTypes, S!InstallSteps
<1>6. SecureWhole
  BY <1>2, <1>3, <1>4, SecureFacts DEF SecureWhole
<1>7. SecureKept
  BY <1>4, SecureFacts DEF SecureKept
<1> QED BY <1>5, <1>6, <1>7 DEF SecureInv

LEMMA SecureStepInv == SecureInv /\ [S!Next]_(S!vars) => SecureInv'
<1> SUFFICES ASSUME SecureInv, [S!Next]_(S!vars) PROVE SecureInv'
  OBVIOUS
<1> USE DEF S!At, InPlace, S!Whole, S!There, S!Kept, S!InstallSteps, S!RollbackSteps
<1>0. /\ Sane(root) /\ Sane(previous) /\ Sane(backup) /\ Sane(shelf) /\ Sane(prepared)
      /\ op \in SecureOps /\ Sane(op.before)
      /\ written \in 0 .. MaxWrites /\ secureFaults \in SecureFailures
  BY DEF SecureInv, SecureTypes
<1>1. /\ prepared.data \in Nat /\ root.data \in Nat /\ backup.data \in Nat /\ shelf.data \in Nat
      /\ previous.data \in Nat /\ op.before.data \in Nat
      /\ root.whole \in BOOLEAN
  BY <1>0, SecureFacts DEF Sane, S!Trees
<1>2. ASSUME NEW b \in Releases, S!BeginInstall(b) PROVE SecureInv'
  <2> DEFINE n == [S!Idle EXCEPT !.at = "payload", !.target = b, !.before = root]
  <2>1. n \in SecureOps /\ n.at = "payload" /\ n.before = root /\ ~n.swapped /\ n.target = b
    BY <1>0, SecureFacts DEF S!Idle, SecureOps, Sane
  <2>2. /\ op' = n /\ UNCHANGED <<root, previous, backup, shelf, prepared, written, secureFaults>>
        /\ op.at = "idle"
    BY <1>2 DEF S!BeginInstall, S!trees
  <2> HIDE DEF n
  <2>3. op' \in SecureOps /\ op'.at = "payload" /\ op'.before = root
    BY <2>1, <2>2
  <2>4. (root'.whole => S!There(root')) /\ root'.build = op'.before.build /\ root'.data >= op'.before.data
    <3>1. root' = root /\ op'.before = root
      BY <2>2, <2>3
    <3>2. root.whole => S!There(root)
      BY <1>0 DEF Sane
    <3> QED BY <1>1, <3>1, <3>2
  <2>7. SecureTypes'
    BY <1>0, <1>1, <2>1, <2>2, <2>3 DEF SecureInv, SecureTypes, Sane
  <2>8. SecureWhole'
    BY <1>0, <1>1, <2>1, <2>2, <2>3 DEF SecureInv, SecureTypes, SecureWhole, Sane
  <2>9. SecureKept'
    BY <2>2, <2>3, <2>4 DEF SecureKept
  <2> QED BY <2>7, <2>8, <2>9 DEF SecureInv
<1>3. ASSUME S!BeginRollback PROVE SecureInv'
  <2> DEFINE n == [S!Idle EXCEPT !.at = "drop shelf", !.before = root]
  <2>1. n \in SecureOps /\ n.at = "drop shelf" /\ n.before = root /\ ~n.swapped
    BY <1>0, SecureFacts DEF S!Idle, SecureOps, Sane
  <2>2. /\ op' = n /\ UNCHANGED <<root, previous, backup, shelf, prepared, written, secureFaults>>
        /\ op.at = "idle" /\ S!There(backup)
    BY <1>3 DEF S!BeginRollback, S!trees
  <2> HIDE DEF n
  <2>3. op' \in SecureOps /\ op'.at = "drop shelf" /\ op'.before = root
    BY <2>1, <2>2
  <2>4. (root'.whole => S!There(root')) /\ root'.build = op'.before.build /\ root'.data >= op'.before.data
    <3>1. root' = root /\ op'.before = root
      BY <2>2, <2>3
    <3>2. root.whole => S!There(root)
      BY <1>0 DEF Sane
    <3> QED BY <1>1, <3>1, <3>2
  <2>7. SecureTypes'
    BY <1>0, <1>1, <2>1, <2>2, <2>3 DEF SecureInv, SecureTypes, Sane
  <2>8. SecureWhole'
    BY <1>0, <1>1, <2>1, <2>2, <2>3 DEF SecureInv, SecureTypes, SecureWhole, Sane
  <2>9. SecureKept'
    BY <2>2, <2>3, <2>4 DEF SecureKept
  <2> QED BY <2>7, <2>8, <2>9 DEF SecureInv
\* Going to another step leaves the rest of the operation.
<1>4. ASSUME NEW step \in {"idle"} \cup S!InstallSteps \cup S!RollbackSteps, op' = [op EXCEPT !.at = step]
      PROVE  /\ op' \in SecureOps /\ op'.at = step /\ op'.before = op.before /\ op'.target = op.target
             /\ op'.swapped = op.swapped
  BY <1>0, <1>4 DEF SecureOps
<1>5. ASSUME NEW e \in {"installed", "restored", "raised"}, S!End(e)
      PROVE  /\ op' \in SecureOps /\ op'.at = "idle" /\ op'.before = op.before /\ op'.target = op.target
             /\ ~op'.swapped
  BY <1>0, <1>5 DEF SecureOps, S!End
<1>6. CASE S!Stage
  <2>1. UNCHANGED <<root, previous, backup, shelf, written, secureFaults>>
    BY <1>6 DEF S!Stage
  <2>2. CASE op.at = "payload"
    <3>1. /\ op' = [op EXCEPT !.at = "preserve"]
          /\ prepared' = S!Tree(op.target, 0)
      BY <1>6, <2>2 DEF S!Stage, S!Goto
    <3>2. /\ op' \in SecureOps /\ op'.at = "preserve" /\ op'.before = op.before /\ op'.target = op.target
          /\ op'.swapped = op.swapped
      BY <1>4, <3>1
    <3>3. Sane(prepared') /\ S!Whole(prepared') /\ op.target \in Releases
      BY <1>0, <2>2, <3>1, SecureFacts DEF SecureInv, SecureTypes
    <3>7. SecureTypes'
      BY <1>0, <1>1, <2>1, <2>2, <3>1, <3>2, <3>3, SecureFacts DEF SecureInv, SecureTypes, Sane
    <3>8. SecureWhole'
      BY <1>0, <1>1, <2>1, <2>2, <3>1, <3>2, <3>3, SecureFacts DEF SecureInv, SecureTypes, SecureWhole, Sane
    <3>9. SecureKept'
      BY <1>0, <1>1, <2>1, <2>2, <3>1, <3>2, <3>3, SecureFacts DEF SecureInv, SecureTypes, SecureKept, Sane
    <3> QED BY <3>7, <3>8, <3>9 DEF SecureInv
  <2>3. CASE op.at = "try"
    <3>1. /\ op' = [op EXCEPT !.at = "drop backup"]
          /\ prepared' = prepared
      BY <1>6, <2>3 DEF S!Stage, S!Goto
    <3>2. /\ op' \in SecureOps /\ op'.at = "drop backup" /\ op'.before = op.before /\ op'.target = op.target
          /\ op'.swapped = op.swapped
      BY <1>4, <3>1
    <3>7. SecureTypes'
      BY <1>0, <1>1, <2>1, <2>3, <3>1, <3>2, SecureFacts DEF SecureInv, SecureTypes, Sane
    <3>8. SecureWhole'
      BY <1>0, <1>1, <2>1, <2>3, <3>1, <3>2, SecureFacts DEF SecureInv, SecureTypes, SecureWhole, Sane
    <3>9. SecureKept'
      BY <1>0, <1>1, <2>1, <2>3, <3>1, <3>2, SecureFacts DEF SecureInv, SecureTypes, SecureKept, Sane
    <3> QED BY <3>7, <3>8, <3>9 DEF SecureInv
  <2> QED BY <1>6, <2>2, <2>3 DEF S!Stage
<1>7. CASE S!Preserve
  <2>1. UNCHANGED <<root, previous, backup, shelf, written, secureFaults>>
    BY <1>7 DEF S!Preserve
  <2>2. CASE op.at = "preserve"
    <3>1. /\ op' = [op EXCEPT !.at = "try"]
          /\ prepared' = [prepared EXCEPT !.data = IF S!There(root) THEN root.data ELSE prepared.data]
      BY <1>7, <2>2 DEF S!Preserve, S!Goto
    <3>2. /\ op' \in SecureOps /\ op'.at = "try" /\ op'.before = op.before /\ op'.target = op.target
          /\ op'.swapped = op.swapped
      BY <1>4, <3>1
    <3>3. /\ prepared' \in S!Trees /\ prepared'.build = prepared.build /\ prepared'.whole = prepared.whole
          /\ prepared'.data = IF S!There(root) THEN root.data ELSE prepared.data
      BY <1>0, <2>2, <3>1, SecureFacts DEF Sane
    <3>7. SecureTypes'
      BY <1>0, <1>1, <2>1, <2>2, <3>1, <3>2, <3>3, SecureFacts DEF SecureInv, SecureTypes, Sane
    <3>8. SecureWhole'
      BY <1>0, <1>1, <2>1, <2>2, <3>1, <3>2, <3>3, SecureFacts DEF SecureInv, SecureTypes, SecureWhole, Sane
    <3>9. SecureKept'
      BY <1>0, <1>1, <2>1, <2>2, <3>1, <3>2, <3>3, SecureFacts DEF SecureInv, SecureTypes, SecureKept, Sane
    <3> QED BY <3>7, <3>8, <3>9 DEF SecureInv
  <2> QED BY <1>7, <2>2 DEF S!Preserve
<1>8. CASE S!KeepBackup
  <2>1. UNCHANGED <<root, previous, shelf, prepared, written, secureFaults>>
    BY <1>8 DEF S!KeepBackup
  <2>2. CASE op.at = "drop backup"
    <3>1. /\ op' = [op EXCEPT !.at = "back up"]
          /\ backup' = S!None
      BY <1>8, <2>2 DEF S!KeepBackup, S!Goto, S!BackUp
    <3>2. /\ op' \in SecureOps /\ op'.at = "back up" /\ op'.before = op.before /\ op'.target = op.target
          /\ op'.swapped = op.swapped
      BY <1>4, <3>1
    <3>7. SecureTypes'
      BY <1>0, <1>1, <2>1, <2>2, <3>1, <3>2, SecureFacts DEF SecureInv, SecureTypes, Sane
    <3>8. SecureWhole'
      BY <1>0, <1>1, <2>1, <2>2, <3>1, <3>2, SecureFacts DEF SecureInv, SecureTypes, SecureWhole, Sane
    <3>9. SecureKept'
      BY <1>0, <1>1, <2>1, <2>2, <3>1, <3>2, SecureFacts DEF SecureInv, SecureTypes, SecureKept, Sane
    <3> QED BY <3>7, <3>8, <3>9 DEF SecureInv
  <2>3. CASE op.at = "back up"
    <3>1. /\ op' = [op EXCEPT !.at = "drop previous"]
          /\ backup' = IF S!There(root) THEN root ELSE backup
      BY <1>8, <2>3 DEF S!KeepBackup, S!Goto, S!BackUp
    <3>2. /\ op' \in SecureOps /\ op'.at = "drop previous" /\ op'.before = op.before /\ op'.target = op.target
          /\ op'.swapped = op.swapped
      BY <1>4, <3>1
    <3>7. SecureTypes'
      BY <1>0, <1>1, <2>1, <2>3, <3>1, <3>2, SecureFacts DEF SecureInv, SecureTypes, Sane
    <3>8. SecureWhole'
      BY <1>0, <1>1, <2>1, <2>3, <3>1, <3>2, SecureFacts DEF SecureInv, SecureTypes, SecureWhole, Sane
    <3>9. SecureKept'
      BY <1>0, <1>1, <2>1, <2>3, <3>1, <3>2, SecureFacts DEF SecureInv, SecureTypes, SecureKept, Sane
    <3> QED BY <3>7, <3>8, <3>9 DEF SecureInv
  <2> QED BY <1>8, <2>2, <2>3 DEF S!KeepBackup, S!BackUp
<1>9. CASE S!Swap
  <2>1. UNCHANGED <<backup, shelf, written, secureFaults>>
    BY <1>9 DEF S!Swap
  <2>2. CASE op.at = "drop previous"
    <3>1. /\ op' = [op EXCEPT !.at = "move aside"]
          /\ previous' = S!None /\ root' = root /\ prepared' = prepared
      BY <1>9, <2>2 DEF S!Swap, S!Goto
    <3>2. /\ op' \in SecureOps /\ op'.at = "move aside" /\ op'.before = op.before /\ op'.target = op.target
          /\ op'.swapped = op.swapped
      BY <1>4, <3>1
    <3>7. SecureTypes'
      BY <1>0, <1>1, <2>1, <2>2, <3>1, <3>2, SecureFacts DEF SecureInv, SecureTypes, Sane
    <3>8. SecureWhole'
      BY <1>0, <1>1, <2>1, <2>2, <3>1, <3>2, SecureFacts DEF SecureInv, SecureTypes, SecureWhole, Sane
    <3>9. SecureKept'
      BY <1>0, <1>1, <2>1, <2>2, <3>1, <3>2, SecureFacts DEF SecureInv, SecureTypes, SecureKept, Sane
    <3> QED BY <3>7, <3>8, <3>9 DEF SecureInv
  <2>3. CASE op.at = "move aside"
    <3>1. /\ op' = [op EXCEPT !.at = "move in"]
          /\ prepared' = prepared
          /\ \/ S!There(root) /\ previous' = root /\ root' = S!None
             \/ ~S!There(root) /\ root' = root /\ previous' = previous
      BY <1>9, <2>3 DEF S!Swap, S!Goto
    <3>2. /\ op' \in SecureOps /\ op'.at = "move in" /\ op'.before = op.before /\ op'.target = op.target
          /\ op'.swapped = op.swapped
      BY <1>4, <3>1
    <3>7. SecureTypes'
      BY <1>0, <1>1, <2>1, <2>3, <3>1, <3>2, SecureFacts DEF SecureInv, SecureTypes, Sane
    <3>8. SecureWhole'
      BY <1>0, <1>1, <2>1, <2>3, <3>1, <3>2, SecureFacts DEF SecureInv, SecureTypes, SecureWhole, Sane
    <3>9. SecureKept'
      BY <1>0, <1>1, <2>1, <2>3, <3>1, <3>2, SecureFacts DEF SecureInv, SecureTypes, SecureKept, Sane
    <3> QED BY <3>7, <3>8, <3>9 DEF SecureInv
  <2>4. CASE op.at = "move in"
    <3>1. /\ op' = [op EXCEPT !.at = "smoke", !.swapped = TRUE]
          /\ root' = prepared /\ prepared' = S!None /\ previous' = previous
      BY <1>9, <2>4 DEF S!Swap
    <3>2. /\ op' \in SecureOps /\ op'.at = "smoke" /\ op'.before = op.before /\ op'.target = op.target
      BY <1>0, <3>1 DEF SecureOps
    <3>7. SecureTypes'
      BY <1>0, <1>1, <2>1, <2>4, <3>1, <3>2, SecureFacts DEF SecureInv, SecureTypes, Sane
    <3>8. SecureWhole'
      BY <1>0, <1>1, <2>1, <2>4, <3>1, <3>2, SecureFacts DEF SecureInv, SecureTypes, SecureWhole, Sane
    <3>9. SecureKept'
      BY <1>0, <1>1, <2>1, <2>4, <3>1, <3>2, SecureFacts DEF SecureInv, SecureTypes, SecureKept, Sane
    <3> QED BY <3>7, <3>8, <3>9 DEF SecureInv
  <2> QED BY <1>9, <2>2, <2>3, <2>4 DEF S!Swap
<1>10. CASE S!Accept
  <2>1. UNCHANGED <<root, backup, shelf, prepared, written, secureFaults>>
    BY <1>10 DEF S!Accept
  <2>2. CASE op.at = "smoke"
    <3>1. /\ op' = [op EXCEPT !.at = "drop old"]
          /\ previous' = previous
      BY <1>10, <2>2 DEF S!Accept, S!Goto
    <3>2. /\ op' \in SecureOps /\ op'.at = "drop old" /\ op'.before = op.before /\ op'.target = op.target
          /\ op'.swapped = op.swapped
      BY <1>4, <3>1
    <3>7. SecureTypes'
      BY <1>0, <1>1, <2>1, <2>2, <3>1, <3>2, SecureFacts DEF SecureInv, SecureTypes, Sane
    <3>8. SecureWhole'
      BY <1>0, <1>1, <2>1, <2>2, <3>1, <3>2, SecureFacts DEF SecureInv, SecureTypes, SecureWhole, Sane
    <3>9. SecureKept'
      BY <1>0, <1>1, <2>1, <2>2, <3>1, <3>2, SecureFacts DEF SecureInv, SecureTypes, SecureKept, Sane
    <3> QED BY <3>7, <3>8, <3>9 DEF SecureInv
  <2>3. CASE op.at = "drop old"
    <3>1. S!End("installed") /\ previous' = S!None
      BY <1>10, <2>3 DEF S!Accept
    <3>2. /\ op' \in SecureOps /\ op'.at = "idle" /\ op'.before = op.before /\ op'.target = op.target
          /\ ~op'.swapped
      BY <1>5, <3>1
    <3>7. SecureTypes'
      BY <1>0, <1>1, <2>1, <2>3, <3>1, <3>2, SecureFacts DEF SecureInv, SecureTypes, Sane
    <3>8. SecureWhole'
      BY <1>0, <1>1, <2>1, <2>3, <3>1, <3>2, SecureFacts DEF SecureInv, SecureTypes, SecureWhole, Sane
    <3>9. SecureKept'
      BY <1>0, <1>1, <2>1, <2>3, <3>1, <3>2, SecureFacts DEF SecureInv, SecureTypes, SecureKept, Sane
    <3> QED BY <3>7, <3>8, <3>9 DEF SecureInv
  <2> QED BY <1>10, <2>2, <2>3 DEF S!Accept
<1>11. CASE S!Rollback
  <2>1. UNCHANGED <<previous, backup, prepared, written, secureFaults>>
    BY <1>11 DEF S!Rollback
  <2>2. CASE op.at = "drop shelf"
    <3>1. /\ op' = [op EXCEPT !.at = "shelve"]
          /\ shelf' = S!None /\ root' = root
      BY <1>11, <2>2 DEF S!Rollback, S!Goto
    <3>2. /\ op' \in SecureOps /\ op'.at = "shelve" /\ op'.before = op.before /\ op'.target = op.target
          /\ op'.swapped = op.swapped
      BY <1>4, <3>1
    <3>7. SecureTypes'
      BY <1>0, <1>1, <2>1, <2>2, <3>1, <3>2, SecureFacts DEF SecureInv, SecureTypes, Sane
    <3>8. SecureWhole'
      BY <1>0, <1>1, <2>1, <2>2, <3>1, <3>2, SecureFacts DEF SecureInv, SecureTypes, SecureWhole, Sane
    <3>9. SecureKept'
      BY <1>0, <1>1, <2>1, <2>2, <3>1, <3>2, SecureFacts DEF SecureInv, SecureTypes, SecureKept, Sane
    <3> QED BY <3>7, <3>8, <3>9 DEF SecureInv
  <2>3. CASE op.at = "shelve"
    <3>1. /\ op' = [op EXCEPT !.at = "restore"]
          /\ \/ S!There(root) /\ shelf' = root /\ root' = S!None
             \/ ~S!There(root) /\ root' = root /\ shelf' = shelf
      BY <1>11, <2>3 DEF S!Rollback, S!Goto
    <3>2. /\ op' \in SecureOps /\ op'.at = "restore" /\ op'.before = op.before /\ op'.target = op.target
          /\ op'.swapped = op.swapped
      BY <1>4, <3>1
    <3>7. SecureTypes'
      BY <1>0, <1>1, <2>1, <2>3, <3>1, <3>2, SecureFacts DEF SecureInv, SecureTypes, Sane
    <3>8. SecureWhole'
      BY <1>0, <1>1, <2>1, <2>3, <3>1, <3>2, SecureFacts DEF SecureInv, SecureTypes, SecureWhole, Sane
    <3>9. SecureKept'
      BY <1>0, <1>1, <2>1, <2>3, <3>1, <3>2, SecureFacts DEF SecureInv, SecureTypes, SecureKept, Sane
    <3> QED BY <3>7, <3>8, <3>9 DEF SecureInv
  <2>4. CASE op.at = "restore"
    <3>1. /\ op' = [op EXCEPT !.at = "smoke restored"]
          /\ root' = backup /\ shelf' = shelf
      BY <1>11, <2>4 DEF S!Rollback, S!Goto
    <3>2. /\ op' \in SecureOps /\ op'.at = "smoke restored" /\ op'.before = op.before /\ op'.target = op.target
          /\ op'.swapped = op.swapped
      BY <1>4, <3>1
    <3>7. SecureTypes'
      BY <1>0, <1>1, <2>1, <2>4, <3>1, <3>2, SecureFacts DEF SecureInv, SecureTypes, Sane
    <3>8. SecureWhole'
      BY <1>0, <1>1, <2>1, <2>4, <3>1, <3>2, SecureFacts DEF SecureInv, SecureTypes, SecureWhole, Sane
    <3>9. SecureKept'
      BY <1>0, <1>1, <2>1, <2>4, <3>1, <3>2, SecureFacts DEF SecureInv, SecureTypes, SecureKept, Sane
    <3> QED BY <3>7, <3>8, <3>9 DEF SecureInv
  <2>5. CASE op.at = "smoke restored"
    <3>1. S!End("restored") /\ root' = root /\ shelf' = shelf
      BY <1>11, <2>5 DEF S!Rollback
    <3>2. /\ op' \in SecureOps /\ op'.at = "idle" /\ op'.before = op.before /\ op'.target = op.target
          /\ ~op'.swapped
      BY <1>5, <3>1
    <3>7. SecureTypes'
      BY <1>0, <1>1, <2>1, <2>5, <3>1, <3>2, SecureFacts DEF SecureInv, SecureTypes, Sane
    <3>8. SecureWhole'
      BY <1>0, <1>1, <2>1, <2>5, <3>1, <3>2, SecureFacts DEF SecureInv, SecureTypes, SecureWhole, Sane
    <3>9. SecureKept'
      BY <1>0, <1>1, <2>1, <2>5, <3>1, <3>2, SecureFacts DEF SecureInv, SecureTypes, SecureKept, Sane
    <3> QED BY <3>7, <3>8, <3>9 DEF SecureInv
  <2> QED BY <1>11, <2>2, <2>3, <2>4, <2>5 DEF S!Rollback
<1>12. CASE S!Fail
  <2>1. PICK kind \in SecureFaults :
           /\ secureFaults' = [kinds |-> secureFaults.kinds \cup {kind},
                               number |-> secureFaults.number + 1]
           /\ CASE kind = "remove" -> S!RemoveFails
                [] kind = "killed" -> S!Killed
                [] OTHER -> S!Raise(kind)
    BY <1>12 DEF S!Fail
  <2>2. S!End("raised") /\ written' = written /\ op.at # "idle"
    BY <1>12 DEF S!Fail
  <2>10. secureFaults' \in SecureFailures
    <3>1. secureFaults.number < MaxSecureFaults /\ secureFaults \in SecureFailures
      BY <1>12 DEF S!Fail, SecureInv, SecureTypes
    <3>2. MaxSecureFaults \in Nat
      BY StartupAssumption DEF S!SecureUpdateAssumption
    <3>3. secureFaults.number + 1 \in 0 .. MaxSecureFaults
      BY <3>1, <3>2 DEF SecureFailures
    <3> QED BY <2>1, <3>1, <3>3 DEF SecureFailures
  <2>3. /\ op' \in SecureOps /\ op'.at = "idle" /\ op'.before = op.before /\ op'.target = op.target /\ ~op'.swapped
    BY <1>5, <2>2
  <2>4. SecureKept'
    BY <2>3 DEF SecureKept
  <2>5. ASSUME Sane(root'), Sane(previous'), Sane(backup'), Sane(shelf'), Sane(prepared') PROVE SecureTypes'
    BY <1>0, <2>2, <2>3, <2>5, <2>10 DEF SecureTypes, SecureInv
  <2>9. Sane(S!None) /\ \A t : Sane(t) => Sane(S!Torn(t))
    BY SecureFacts
  <2>6. CASE kind = "remove" /\ S!RemoveFails
    <3>1. Sane(root') /\ Sane(previous') /\ Sane(backup') /\ Sane(shelf') /\ Sane(prepared')
      BY <1>0, <2>6, <2>9 DEF S!RemoveFails
    <3>2. SecureWhole'
      BY <2>1, <2>6 DEF SecureWhole
    <3> QED BY <2>4, <2>5, <3>1, <3>2 DEF SecureInv
  <2>7. CASE kind = "killed" /\ S!Killed
    <3>1. Sane(root') /\ Sane(previous') /\ Sane(backup') /\ Sane(shelf') /\ Sane(prepared')
      <4>1. /\ Sane(S!Torn(backup)) /\ Sane(S!Torn(root))
            /\ Sane(S!Torn(previous)) /\ Sane(S!Torn(shelf))
        BY <1>0, <2>9
      <4>2. /\ root' \in {root, S!Torn(backup)}
            /\ backup' \in {backup, S!Torn(root), S!Torn(backup)}
            /\ previous' \in {previous, S!Torn(previous)} /\ shelf' \in {shelf, S!Torn(shelf)}
            /\ prepared' = S!None
        BY <2>7 DEF S!Killed
      <4>3. Sane(root') /\ Sane(previous')
        BY <1>0, <4>1, <4>2
      <4>4. Sane(backup') /\ Sane(shelf')
        BY <1>0, <4>1, <4>2
      <4> QED BY <2>9, <4>2, <4>3, <4>4
    <3>2. SecureWhole'
      BY <2>1, <2>7 DEF SecureWhole
    <3> QED BY <2>4, <2>5, <3>1, <3>2 DEF SecureInv
  <2>8. CASE S!Raise(kind)
    <3>1. \/ root' = previous /\ previous' = S!None /\ shelf' = shelf /\ op.swapped /\ S!There(previous)
          \/ root' = shelf /\ shelf' = S!None /\ previous' = previous /\ op.at \in {"restore", "smoke restored"}
          \/ root' = root /\ shelf' = shelf /\ previous' = previous /\ op.at \notin {"restore", "smoke restored"}
      BY <2>8 DEF S!Raise, S!Handler
    <3>2. /\ prepared' = S!None
          /\ \/ kind = "smoke" /\ op.at \in {"try", "smoke", "smoke restored"} /\ backup' = backup
             \/ kind = "copy" /\ op.at \in {"payload", "preserve", "restore"} /\ backup' = backup
             \/ kind = "backup" /\ op.at = "back up" /\ backup' = S!Torn(root)
             \/ kind = "rename" /\ op.at \in {"move aside", "move in", "shelve"} /\ backup' = backup
      BY <2>8 DEF S!Raise
    <3>3. Sane(root') /\ Sane(previous') /\ Sane(backup') /\ Sane(shelf') /\ Sane(prepared')
      <4>1. Sane(S!Torn(root))
        BY <1>0, <2>9
      <4>2. Sane(backup')
        BY <1>0, <3>2, <4>1
      <4> QED BY <1>0, <2>9, <3>1, <3>2, <4>2
    <3>4. SecureWhole'
      BY <1>0, <2>1, <2>3, <3>1, <3>2, SecureFacts DEF SecureInv, SecureTypes, SecureWhole
    <3> QED BY <2>4, <2>5, <3>3, <3>4 DEF SecureInv
  <2> QED BY <2>1, <2>6, <2>7, <2>8
<1>13. CASE S!Write
  <2>1. /\ root.whole /\ root.data = written /\ written < MaxWrites /\ written' = written + 1
        /\ root' = [root EXCEPT !.data = written + 1]
        /\ UNCHANGED <<previous, backup, shelf, prepared, op, secureFaults>>
    BY <1>13 DEF S!Write
  <2>2. written + 1 \in 0 .. MaxWrites /\ written + 1 > root.data
    BY <1>0, <2>1, SecureFacts
  <2>3. root' \in S!Trees /\ root'.build = root.build /\ root'.whole = root.whole /\ root'.data = written + 1
    BY <1>0, <2>1, <2>2, SecureFacts DEF Sane
  <2>4. root'.data \in Nat /\ \A n \in Nat : root.data >= n => root'.data >= n
    BY <1>1, <2>1, <2>2, <2>3
  <2>7. SecureTypes'
    BY <1>0, <1>1, <2>1, <2>2, <2>3, <2>4 DEF SecureInv, SecureTypes, Sane
  <2>8. SecureWhole'
    BY <1>0, <1>1, <2>1, <2>2, <2>3, <2>4 DEF SecureInv, SecureTypes, SecureWhole, Sane
  <2>9. SecureKept'
    BY <1>0, <1>1, <2>1, <2>2, <2>3, <2>4 DEF SecureInv, SecureTypes, SecureKept, Sane
  <2> QED BY <2>7, <2>8, <2>9 DEF SecureInv
<1>14. CASE UNCHANGED S!vars
  <2>1. UNCHANGED <<root, previous, backup, shelf, prepared, op, written, secureFaults>>
    BY <1>14 DEF S!vars, S!trees
  <2>7. SecureTypes'
    BY <2>1 DEF SecureInv, SecureTypes, Sane
  <2>8. SecureWhole'
    BY <2>1 DEF SecureInv, SecureTypes, SecureWhole, Sane
  <2>9. SecureKept'
    BY <2>1 DEF SecureInv, SecureTypes, SecureKept, Sane
  <2> QED BY <2>7, <2>8, <2>9 DEF SecureInv
<1> QED BY <1>2, <1>3, <1>6, <1>7, <1>8, <1>9, <1>10, <1>11, <1>12, <1>13, <1>14 DEF S!Next

\* The archive updater: a whole tree stays in place while builds are rejected
\* and copies stop, and no failure loses what was installed or its data.
THEOREM TreesAreKept == S!Init /\ [][S!Next]_(S!vars) => []S!InPlaceUnlessBackupTorn /\ S!OldKept
<1>1. SecureInv => S!InPlaceUnlessBackupTorn
  BY DEF SecureInv, SecureWhole, S!InPlaceUnlessBackupTorn, S!At, InPlace
<1> DEFINE Loses == ~S!At("idle") /\ S!At("idle")' /\ op.before.whole =>
          /\ \E t \in {root', previous', backup', shelf'} : S!Kept(t)
          /\ op'.end = "installed" => root'.data >= op.before.data
<1>2. SecureInv /\ [S!Next]_(S!vars) => [Loses]_(S!vars)
  <2> DEFINE Told == /\ \E t \in {root', previous', backup', shelf'} : S!Kept(t)
                     /\ op'.end = "installed" => root'.data >= op.before.data
  <2> SUFFICES ASSUME SecureInv, S!Next, ~S!At("idle"), S!At("idle")', op.before.whole PROVE Told
    OBVIOUS
  <2> USE DEF S!At, InPlace, S!Kept, S!Whole, S!There, S!InstallSteps, S!RollbackSteps
  <2>1. /\ op \in SecureOps /\ op.before.whole
        /\ op.swapped => op.at \in {"smoke", "drop old"}
    BY DEF SecureInv, SecureTypes
  <2> HIDE DEF Told
  <2>2. ASSUME NEW step \in S!InstallSteps \cup S!RollbackSteps PROVE op' # [op EXCEPT !.at = step]
    BY <2>1, <2>2 DEF SecureOps
  <2>3. CASE S!Accept
    <3>1. op.at = "drop old" /\ backup' = backup /\ root' = root
      BY <2>2, <2>3 DEF S!Accept, S!Goto
    <3> QED BY <3>1 DEF Told, SecureInv, SecureKept
  <2>4. CASE S!Rollback
    <3>1. op.at = "smoke restored" /\ shelf' = shelf /\ op' = [op EXCEPT !.at = "idle", !.end = "restored", !.swapped = FALSE]
      BY <2>2, <2>4 DEF S!Rollback, S!Goto, S!End
    <3>2. op'.end = "restored"
      BY <2>1, <3>1 DEF SecureOps
    <3> QED BY <3>1, <3>2 DEF Told, SecureInv, SecureKept
  <2>5. CASE S!Fail
    <3>1. PICK kind \in SecureFaults :
             CASE kind = "remove" -> S!RemoveFails
               [] kind = "killed" -> S!Killed
               [] OTHER -> S!Raise(kind)
      BY <2>5 DEF S!Fail
    <3>2. op' = [op EXCEPT !.at = "idle", !.end = "raised", !.swapped = FALSE]
      BY <2>5 DEF S!Fail, S!End
    <3>3. op'.end = "raised"
      BY <2>1, <3>2 DEF SecureOps
    <3>4. op.at \in S!InstallSteps \cup S!RollbackSteps
      BY <2>1 DEF SecureOps
    <3>5. CASE kind = "remove" /\ S!RemoveFails
      BY <3>3, <3>5 DEF Told, SecureInv, SecureKept, S!RemoveFails
    <3>6. CASE kind = "killed" /\ S!Killed
      BY <3>3, <3>4, <3>6 DEF Told, SecureInv, SecureKept, S!Killed
    <3>7. CASE S!Raise(kind)
      <4>1. \/ root' = previous /\ previous' = S!None /\ shelf' = shelf /\ op.swapped /\ S!There(previous)
            \/ root' = shelf /\ shelf' = S!None /\ previous' = previous /\ op.at \in {"restore", "smoke restored"}
            \/ root' = root /\ shelf' = shelf /\ previous' = previous /\ op.at \notin {"restore", "smoke restored"}
        BY <3>7 DEF S!Raise, S!Handler
      <4> QED BY <2>1, <3>3, <3>4, <4>1 DEF Told, SecureInv, SecureKept
    <3> QED BY <3>1, <3>5, <3>6, <3>7
  <2>6. ASSUME NEW b \in Releases, S!BeginInstall(b) PROVE Told
    BY <2>6 DEF S!BeginInstall
  <2>7. CASE S!BeginRollback
    BY <2>7 DEF S!BeginRollback
  <2>8. CASE S!Stage
    BY <2>2, <2>8 DEF S!Stage, S!Goto
  <2>9. CASE S!Preserve
    BY <2>2, <2>9 DEF S!Preserve, S!Goto
  <2>10. CASE S!KeepBackup
    BY <2>2, <2>10 DEF S!KeepBackup, S!BackUp, S!Goto
  <2>11. CASE S!Swap
    <3>1. CASE op' = [op EXCEPT !.at = "smoke", !.swapped = TRUE]
      BY <2>1, <3>1 DEF SecureOps
    <3> QED BY <2>2, <2>11, <3>1 DEF S!Swap, S!Goto
  <2>12. CASE S!Write
    BY <2>12 DEF S!Write
  <2> QED
    BY <2>3, <2>4, <2>5, <2>6, <2>7, <2>8, <2>9, <2>10, <2>11, <2>12 DEF S!Next
<1>3. [][Loses]_(S!vars) => S!OldKept
  BY DEF S!OldKept
<1> QED BY <1>1, <1>2, <1>3, SecureInitInv, SecureStepInv, PTL

-----------------------------------------------------------------------------
(* The managed update *)

\* The steps of apply until the new package is in place, and from there on.
Early == {"clear", "backup package", "backup dist", "manifest", "clear previous", "move aside",
          "move in"}
Late  == {"drop dist", "copy dist", "smoke", "drop previous", "commit"}

Dists     == [M!Versions -> M!Trees]
RunStates == [at : M!ApplySteps \cup M!RestoreSteps, target : Commits \cup {"none"},
              swapped : BOOLEAN, failed : BOOLEAN, known : SUBSET M!Versions,
              before : [package : Commits, dist : Dists]]
Backups   == [package : M!Trees, dist : Dists, manifest : BOOLEAN]

ManagedTypes ==
    /\ package \in M!Trees /\ managedPrevious \in M!Trees /\ aside \in M!Trees
    /\ dist \in Dists /\ saved \in Backups /\ state \in Commits \cup {"none"}
    /\ managedFaults \in Seq(ManagedFaults) /\ Len(managedFaults) <= MaxManagedFaults
    /\ run = M!Idle \/ run \in RunStates
    /\ run.at \in M!ApplySteps => run.target \in Commits
    /\ run.at \in Early => ~run.swapped
    /\ run.at \in Late => run.swapped
    /\ run.at \in Early \cup Late => ~run.failed
    /\ run.at \in M!RestoreSteps => run.target = "none" \/ run.failed
    /\ run.at # "idle" => ~run.failed \/ Len(managedFaults) >= 1

\* A manifest is that of a complete backup; and when the package leaves its
\* place there is one.
ManagedSafe ==
    "torn" \notin M!Happened =>
        /\ package \in Commits \/ saved.manifest
        /\ saved.manifest => saved.package \in Commits
        /\ run.at \in {"clear", "backup package", "backup dist", "manifest"} => package \in Commits
        /\ run.at \in {"backup package", "backup dist", "manifest"} => ~saved.manifest
        /\ run.at \in {"backup dist", "manifest"} => saved.package \in Commits
        /\ run.at \in {"clear previous", "move aside", "move in"} \cup Late \cup M!RestoreSteps
              => saved.manifest

\* While only smoke tests and copies fail, the package is whole, or it is the
\* turn of a step that puts a whole one in its place.
ManagedWhole ==
    M!Happened \subseteq {"smoke", "copy", "mkdir"} =>
        /\ run.at \notin {"move in", "r package", "r undo"} => package \in Commits
        /\ run.at \in {"r package", "r drop dist", "r copy dist", "r smoke", "r undo"} => aside \in Commits

\* An update that has not failed knows what it started from: it is in place
\* until the swap, and in the backup from its copy on.
Remembers ==
    /\ run.at \in Early \ {"move in"} => package = run.before.package
    /\ run.at \in Early \cup {"drop dist"} => dist = run.before.dist
    /\ run.at \in (Early \cup Late) \ {"clear", "backup package"} => saved.package = run.before.package
    /\ run.at \in (Early \cup Late) \ {"clear", "backup package", "backup dist"}
          => saved.dist = run.before.dist
    /\ run.at \in {"clear previous", "move aside", "move in"} \cup Late => saved.manifest
    /\ run.at \in {"smoke", "drop previous", "commit"} => M!Names(dist) # {}

\* One that has met one failure, of a smoke test or a copy, is put back.
OneMild == Len(managedFaults) = 1 /\ M!Happened \subseteq {"smoke", "copy"}
PutsBack ==
    OneMild /\ run.at # "idle" /\ run.target # "none" /\ run.failed =>
        /\ run.at = "finally" => package = run.before.package /\ dist = run.before.dist
        /\ run.at # "r undo"
        /\ run.at \in M!RestoreSteps =>
              saved.manifest /\ saved.package = run.before.package /\ saved.dist = run.before.dist
        /\ run.at = "r check" => M!Names(dist) # {}
        /\ run.at \in {"r aside", "r package", "r drop dist"} => run.known = M!Names(dist)
        /\ run.at \in {"r drop dist", "r copy dist", "r smoke", "r drop aside"}
              => package = run.before.package
        /\ run.at = "r copy dist" => dist = M!NoDist
        /\ run.at \in {"r smoke", "r drop aside"} => dist = run.before.dist

ManagedInv == ManagedTypes /\ ManagedSafe /\ ManagedWhole /\ Remembers /\ PutsBack

LEMMA ManagedFacts ==
    /\ Commits \cap {"none", "partial"} = {} /\ {"none", "partial"} \subseteq M!Trees
    /\ Commits \subseteq M!Trees
    /\ \A b \in Commits : MCVersionOf[b] \in M!Versions
    /\ M!NoDist \in Dists /\ M!Names(M!NoDist) = {}
    /\ M!Empty \in Backups /\ ~M!Empty.manifest
    /\ \A b \in Commits : M!Only(b) \in Dists
    /\ MaxManagedFaults \in Nat
<1>1. Commits \cap {"none", "partial"} = {} /\ MaxManagedFaults \in Nat
  BY StartupAssumption DEF M!ManagedUpdateAssumption
<1>2. {"none", "partial"} \subseteq M!Trees /\ Commits \subseteq M!Trees
  BY DEF M!Trees
<1>3. \A b \in Commits : MCVersionOf[b] \in M!Versions
  BY DEF M!Versions
<1>4. M!NoDist \in Dists /\ M!Names(M!NoDist) = {}
  BY <1>2 DEF M!NoDist, Dists, M!Names
<1>5. M!Empty \in Backups /\ ~M!Empty.manifest
  BY <1>2, <1>4 DEF M!Empty, Backups
<1>6. \A b \in Commits : M!Only(b) \in Dists
  BY <1>2, <1>3, <1>4 DEF M!Only, Dists
<1> QED BY <1>1, <1>2, <1>3, <1>4, <1>5, <1>6

LEMMA ManagedInitInv == M!Init => ManagedInv
<1> SUFFICES ASSUME M!Init PROVE ManagedInv
  OBVIOUS
<1>1. PICK b \in Commits : package = b /\ dist = M!Only(b)
  BY DEF M!Init
<1>2. /\ managedPrevious = "none" /\ aside = "none" /\ saved = M!Empty /\ state = "none"
      /\ run = M!Idle /\ managedFaults = <<>> /\ run.at = "idle"
  BY DEF M!Init, M!Idle
<1>3. M!Happened = {} /\ managedFaults \in Seq(ManagedFaults) /\ Len(managedFaults) = 0
  BY <1>2 DEF M!Happened
<1> USE DEF Early, Late, M!ApplySteps, M!RestoreSteps
<1>4. ManagedTypes
  BY <1>1, <1>2, <1>3, ManagedFacts DEF ManagedTypes
<1>5. ManagedSafe
  BY <1>1, <1>2, ManagedFacts DEF ManagedSafe
<1>6. ManagedWhole
  BY <1>1, <1>2 DEF ManagedWhole
<1>7. Remembers
  BY <1>2 DEF Remembers
<1>8. PutsBack
  BY <1>2 DEF PutsBack
<1> QED BY <1>4, <1>5, <1>6, <1>7, <1>8 DEF ManagedInv

\* A failure more.
LEMMA FaultMore ==
    ASSUME managedFaults \in Seq(ManagedFaults), NEW kind \in ManagedFaults,
           managedFaults' = Append(managedFaults, kind)
    PROVE  /\ managedFaults' \in Seq(ManagedFaults) /\ Len(managedFaults') = Len(managedFaults) + 1
           /\ M!Happened' = M!Happened \cup {kind}
           /\ Len(managedFaults) \in Nat /\ (Len(managedFaults) = 0 => M!Happened = {})
<1>1. /\ managedFaults' \in Seq(ManagedFaults) /\ Len(managedFaults') = Len(managedFaults) + 1
      /\ Len(managedFaults) \in Nat
      /\ DOMAIN managedFaults = 1 .. Len(managedFaults)
      /\ DOMAIN managedFaults' = 1 .. Len(managedFaults) + 1
      /\ \A i \in 1 .. Len(managedFaults) : managedFaults'[i] = managedFaults[i]
      /\ managedFaults'[Len(managedFaults) + 1] = kind
  OBVIOUS
<1>2. 1 .. Len(managedFaults) + 1 = (1 .. Len(managedFaults)) \cup {Len(managedFaults) + 1}
  BY <1>1
<1>3. M!Happened' = M!Happened \cup {kind}
  BY <1>1, <1>2 DEF M!Happened
<1>4. Len(managedFaults) = 0 => M!Happened = {}
  BY <1>1 DEF M!Happened
<1> QED BY <1>1, <1>3, <1>4

LEMMA ManagedStepInv == ManagedInv /\ [M!Next]_(M!vars) => ManagedInv'
<1> SUFFICES ASSUME ManagedInv, [M!Next]_(M!vars) PROVE ManagedInv'
  OBVIOUS
<1> USE DEF M!At, Early, Late, M!ApplySteps, M!RestoreSteps
<1>0. /\ package \in M!Trees /\ managedPrevious \in M!Trees /\ aside \in M!Trees
      /\ dist \in Dists /\ saved \in Backups /\ state \in Commits \cup {"none"}
      /\ managedFaults \in Seq(ManagedFaults) /\ Len(managedFaults) <= MaxManagedFaults
      /\ run = M!Idle \/ run \in RunStates
      /\ run.at \in M!ApplySteps => run.target \in Commits
      /\ run.at \in Early => ~run.swapped
      /\ run.at \in Late => run.swapped
      /\ run.at \in Early \cup Late => ~run.failed
      /\ run.at \in M!RestoreSteps => run.target = "none" \/ run.failed
      /\ run.at # "idle" => ~run.failed \/ Len(managedFaults) >= 1
  BY DEF ManagedInv, ManagedTypes
<1>1. M!Idle.at = "idle" /\ (run.at # "idle" => run \in RunStates)
  <2>1. M!Idle.at = "idle"
    BY DEF M!Idle
  <2> QED BY <1>0, <2>1
\* Going to another step leaves the rest of the run.
<1>2. ASSUME run.at # "idle", NEW step \in M!ApplySteps \cup M!RestoreSteps, M!Goto(step)
      PROVE  /\ run' \in RunStates /\ run'.at = step /\ run'.target = run.target
             /\ run'.swapped = run.swapped /\ run'.failed = run.failed /\ run'.known = run.known
             /\ run'.before = run.before
  BY <1>1, <1>2 DEF RunStates, M!Goto
<1>3. ASSUME managedFaults' = managedFaults PROVE M!Happened' = M!Happened /\ OneMild' = OneMild
  BY <1>3 DEF M!Happened, OneMild
<1>4. ASSUME run.at # "idle", NEW failed \in BOOLEAN, M!Return(failed)
      PROVE  \/ run.target = "none" /\ run' = M!Idle
             \/ /\ run.target # "none" /\ run' \in RunStates /\ run'.at = "finally"
                /\ run'.target = run.target /\ run'.swapped = run.swapped
                /\ run'.failed = (run.failed \/ failed) /\ run'.before = run.before
                /\ run'.target \in Commits
  BY <1>1, <1>4 DEF RunStates, M!Return
<1>5. ASSUME NEW b \in Commits, NEW force \in BOOLEAN, M!BeginApply(b, force) PROVE ManagedInv'
  <2>1. /\ run' = M!Started("clear", b) /\ run = M!Idle /\ run.at = "idle" /\ package \in Commits
        /\ UNCHANGED <<package, managedPrevious, aside, dist, saved, state, managedFaults>>
    BY <1>1, <1>5 DEF M!BeginApply, M!site
  <2>2. /\ run' \in RunStates /\ run'.at = "clear" /\ run'.target = b /\ ~run'.swapped /\ ~run'.failed
        /\ run'.before.package = package /\ run'.before.dist = dist
    BY <1>0, <2>1 DEF M!Started, RunStates, M!Names, Dists
  <2>3. M!Happened' = M!Happened /\ OneMild' = OneMild
    BY <1>3, <2>1
  <2>10. ManagedTypes'
    BY <1>0, <2>1, <2>2, <2>3, ManagedFacts DEF ManagedInv, ManagedTypes
  <2>11. ManagedSafe'
    BY <1>0, <2>1, <2>2, <2>3, ManagedFacts DEF ManagedInv, ManagedSafe
  <2>12. ManagedWhole'
    BY <1>0, <2>1, <2>2, <2>3, ManagedFacts DEF ManagedInv, ManagedSafe, ManagedWhole
  <2>13. Remembers'
    BY <1>0, <2>1, <2>2, <2>3, ManagedFacts DEF ManagedInv, Remembers
  <2>14. PutsBack'
    BY <1>0, <2>1, <2>2, <2>3, ManagedFacts DEF ManagedInv, PutsBack
  <2> QED BY <2>10, <2>11, <2>12, <2>13, <2>14 DEF ManagedInv
<1>6. ASSUME M!BeginRollback PROVE ManagedInv'
  <2>1. /\ run' = M!Started("r check", "none") /\ run = M!Idle /\ run.at = "idle" /\ package \in Commits /\ saved.manifest
        /\ UNCHANGED <<package, managedPrevious, aside, dist, saved, state, managedFaults>>
    BY <1>1, <1>6 DEF M!BeginRollback, M!site
  <2>2. /\ run' \in RunStates /\ run'.at = "r check" /\ run'.target = "none" /\ ~run'.swapped /\ ~run'.failed
        /\ run'.before.package = package /\ run'.before.dist = dist
    BY <1>0, <2>1 DEF M!Started, RunStates, M!Names, Dists
  <2>3. M!Happened' = M!Happened /\ OneMild' = OneMild
    BY <1>3, <2>1
  <2>10. ManagedTypes'
    BY <1>0, <2>1, <2>2, <2>3, ManagedFacts DEF ManagedInv, ManagedTypes
  <2>11. ManagedSafe'
    BY <1>0, <2>1, <2>2, <2>3, ManagedFacts DEF ManagedInv, ManagedSafe
  <2>12. ManagedWhole'
    BY <1>0, <2>1, <2>2, <2>3, ManagedFacts DEF ManagedInv, ManagedSafe, ManagedWhole
  <2>13. Remembers'
    BY <1>0, <2>1, <2>2, <2>3, ManagedFacts DEF ManagedInv, Remembers
  <2>14. PutsBack'
    BY <1>0, <2>1, <2>2, <2>3, ManagedFacts DEF ManagedInv, PutsBack
  <2> QED BY <2>10, <2>11, <2>12, <2>13, <2>14 DEF ManagedInv
<1>7. CASE M!Backup
  <2>1. UNCHANGED <<package, managedPrevious, aside, dist, state, managedFaults>>
    BY <1>7 DEF M!Backup, M!site
  <2>2. M!Happened' = M!Happened /\ OneMild' = OneMild
    BY <1>3, <2>1
  <2>3. CASE run.at = "clear"
    <3>1. M!Goto("backup package") /\ saved' = M!Empty
      BY <1>7, <2>3 DEF M!Backup
    <3>2. /\ run' \in RunStates /\ run'.at = "backup package" /\ run'.target = run.target
          /\ run'.swapped = run.swapped /\ run'.failed = run.failed /\ run'.known = run.known
          /\ run'.before = run.before
      BY <1>2, <2>3, <3>1
    <3>10. ManagedTypes'
      BY <1>0, <2>1, <2>2, <2>3, <3>1, <3>2, ManagedFacts DEF ManagedInv, ManagedTypes
    <3>11. ManagedSafe'
      BY <1>0, <2>1, <2>2, <2>3, <3>1, <3>2, ManagedFacts DEF ManagedInv, ManagedSafe
    <3>12. ManagedWhole'
      BY <1>0, <2>1, <2>2, <2>3, <3>1, <3>2, ManagedFacts DEF ManagedInv, ManagedSafe, ManagedWhole
    <3>13. Remembers'
      BY <1>0, <2>1, <2>2, <2>3, <3>1, <3>2, ManagedFacts DEF ManagedInv, Remembers
    <3>14. PutsBack'
      BY <1>0, <2>1, <2>2, <2>3, <3>1, <3>2, ManagedFacts DEF ManagedInv, PutsBack
    <3> QED BY <3>10, <3>11, <3>12, <3>13, <3>14 DEF ManagedInv
  <2>4. CASE run.at = "backup package"
    <3>1. M!Goto("backup dist") /\ saved' = [saved EXCEPT !.package = package]
      BY <1>7, <2>4 DEF M!Backup
    <3>2. /\ run' \in RunStates /\ run'.at = "backup dist" /\ run'.target = run.target
          /\ run'.swapped = run.swapped /\ run'.failed = run.failed /\ run'.known = run.known
          /\ run'.before = run.before
      BY <1>2, <2>4, <3>1
    <3>3. saved' \in Backups /\ saved'.package = package /\ saved'.dist = saved.dist /\ saved'.manifest = saved.manifest
      BY <1>0, <3>1 DEF Backups
    <3>10. ManagedTypes'
      BY <1>0, <2>1, <2>2, <2>4, <3>1, <3>2, <3>3, ManagedFacts DEF ManagedInv, ManagedTypes
    <3>11. ManagedSafe'
      BY <1>0, <2>1, <2>2, <2>4, <3>1, <3>2, <3>3, ManagedFacts DEF ManagedInv, ManagedSafe
    <3>12. ManagedWhole'
      BY <1>0, <2>1, <2>2, <2>4, <3>1, <3>2, <3>3, ManagedFacts DEF ManagedInv, ManagedSafe, ManagedWhole
    <3>13. Remembers'
      BY <1>0, <2>1, <2>2, <2>4, <3>1, <3>2, <3>3, ManagedFacts DEF ManagedInv, Remembers
    <3>14. PutsBack'
      BY <1>0, <2>1, <2>2, <2>4, <3>1, <3>2, <3>3, ManagedFacts DEF ManagedInv, PutsBack
    <3> QED BY <3>10, <3>11, <3>12, <3>13, <3>14 DEF ManagedInv
  <2>5. CASE run.at = "backup dist"
    <3>1. M!Goto("manifest") /\ saved' = [saved EXCEPT !.dist = dist]
      BY <1>7, <2>5 DEF M!Backup
    <3>2. /\ run' \in RunStates /\ run'.at = "manifest" /\ run'.target = run.target
          /\ run'.swapped = run.swapped /\ run'.failed = run.failed /\ run'.known = run.known
          /\ run'.before = run.before
      BY <1>2, <2>5, <3>1
    <3>3. saved' \in Backups /\ saved'.package = saved.package /\ saved'.dist = dist /\ saved'.manifest = saved.manifest
      BY <1>0, <3>1 DEF Backups
    <3>10. ManagedTypes'
      BY <1>0, <2>1, <2>2, <2>5, <3>1, <3>2, <3>3, ManagedFacts DEF ManagedInv, ManagedTypes
    <3>11. ManagedSafe'
      BY <1>0, <2>1, <2>2, <2>5, <3>1, <3>2, <3>3, ManagedFacts DEF ManagedInv, ManagedSafe
    <3>12. ManagedWhole'
      BY <1>0, <2>1, <2>2, <2>5, <3>1, <3>2, <3>3, ManagedFacts DEF ManagedInv, ManagedSafe, ManagedWhole
    <3>13. Remembers'
      BY <1>0, <2>1, <2>2, <2>5, <3>1, <3>2, <3>3, ManagedFacts DEF ManagedInv, Remembers
    <3>14. PutsBack'
      BY <1>0, <2>1, <2>2, <2>5, <3>1, <3>2, <3>3, ManagedFacts DEF ManagedInv, PutsBack
    <3> QED BY <3>10, <3>11, <3>12, <3>13, <3>14 DEF ManagedInv
  <2>6. CASE run.at = "manifest"
    <3>1. M!Goto("clear previous") /\ saved' = [saved EXCEPT !.manifest = TRUE]
      BY <1>7, <2>6 DEF M!Backup
    <3>2. /\ run' \in RunStates /\ run'.at = "clear previous" /\ run'.target = run.target
          /\ run'.swapped = run.swapped /\ run'.failed = run.failed /\ run'.known = run.known
          /\ run'.before = run.before
      BY <1>2, <2>6, <3>1
    <3>3. saved' \in Backups /\ saved'.package = saved.package /\ saved'.dist = saved.dist /\ saved'.manifest = TRUE
      BY <1>0, <3>1 DEF Backups
    <3>10. ManagedTypes'
      BY <1>0, <2>1, <2>2, <2>6, <3>1, <3>2, <3>3, ManagedFacts DEF ManagedInv, ManagedTypes
    <3>11. ManagedSafe'
      BY <1>0, <2>1, <2>2, <2>6, <3>1, <3>2, <3>3, ManagedFacts DEF ManagedInv, ManagedSafe
    <3>12. ManagedWhole'
      BY <1>0, <2>1, <2>2, <2>6, <3>1, <3>2, <3>3, ManagedFacts DEF ManagedInv, ManagedSafe, ManagedWhole
    <3>13. Remembers'
      BY <1>0, <2>1, <2>2, <2>6, <3>1, <3>2, <3>3, ManagedFacts DEF ManagedInv, Remembers
    <3>14. PutsBack'
      BY <1>0, <2>1, <2>2, <2>6, <3>1, <3>2, <3>3, ManagedFacts DEF ManagedInv, PutsBack
    <3> QED BY <3>10, <3>11, <3>12, <3>13, <3>14 DEF ManagedInv
  <2> QED BY <1>7, <2>3, <2>4, <2>5, <2>6 DEF M!Backup
<1>8. CASE M!Swap
  <2>1. UNCHANGED <<aside, dist, saved, state, managedFaults>>
    BY <1>8 DEF M!Swap, M!site
  <2>2. M!Happened' = M!Happened /\ OneMild' = OneMild
    BY <1>3, <2>1
  <2>3. CASE run.at = "clear previous"
    <3>1. M!Goto("move aside") /\ managedPrevious' = "none" /\ package' = package
      BY <1>8, <2>3 DEF M!Swap
    <3>2. /\ run' \in RunStates /\ run'.at = "move aside" /\ run'.target = run.target
          /\ run'.swapped = run.swapped /\ run'.failed = run.failed /\ run'.known = run.known
          /\ run'.before = run.before
      BY <1>2, <2>3, <3>1
    <3>10. ManagedTypes'
      BY <1>0, <2>1, <2>2, <2>3, <3>1, <3>2, ManagedFacts DEF ManagedInv, ManagedTypes
    <3>11. ManagedSafe'
      BY <1>0, <2>1, <2>2, <2>3, <3>1, <3>2, ManagedFacts DEF ManagedInv, ManagedSafe
    <3>12. ManagedWhole'
      BY <1>0, <2>1, <2>2, <2>3, <3>1, <3>2, ManagedFacts DEF ManagedInv, ManagedSafe, ManagedWhole
    <3>13. Remembers'
      BY <1>0, <2>1, <2>2, <2>3, <3>1, <3>2, ManagedFacts DEF ManagedInv, Remembers
    <3>14. PutsBack'
      BY <1>0, <2>1, <2>2, <2>3, <3>1, <3>2, ManagedFacts DEF ManagedInv, PutsBack
    <3> QED BY <3>10, <3>11, <3>12, <3>13, <3>14 DEF ManagedInv
  <2>4. CASE run.at = "move aside"
    <3>1. M!Goto("move in") /\ managedPrevious' = package /\ package' = "none"
      BY <1>8, <2>4 DEF M!Swap
    <3>2. /\ run' \in RunStates /\ run'.at = "move in" /\ run'.target = run.target
          /\ run'.swapped = run.swapped /\ run'.failed = run.failed /\ run'.known = run.known
          /\ run'.before = run.before
      BY <1>2, <2>4, <3>1
    <3>10. ManagedTypes'
      BY <1>0, <2>1, <2>2, <2>4, <3>1, <3>2, ManagedFacts DEF ManagedInv, ManagedTypes
    <3>11. ManagedSafe'
      BY <1>0, <2>1, <2>2, <2>4, <3>1, <3>2, ManagedFacts DEF ManagedInv, ManagedSafe
    <3>12. ManagedWhole'
      BY <1>0, <2>1, <2>2, <2>4, <3>1, <3>2, ManagedFacts DEF ManagedInv, ManagedSafe, ManagedWhole
    <3>13. Remembers'
      BY <1>0, <2>1, <2>2, <2>4, <3>1, <3>2, ManagedFacts DEF ManagedInv, Remembers
    <3>14. PutsBack'
      BY <1>0, <2>1, <2>2, <2>4, <3>1, <3>2, ManagedFacts DEF ManagedInv, PutsBack
    <3> QED BY <3>10, <3>11, <3>12, <3>13, <3>14 DEF ManagedInv
  <2>5. CASE run.at = "move in"
    <3>1. run' = [run EXCEPT !.at = "drop dist", !.swapped = TRUE] /\ package' = run.target /\ managedPrevious' = managedPrevious
      BY <1>8, <2>5 DEF M!Swap
    <3>2. /\ run' \in RunStates /\ run'.at = "drop dist" /\ run'.target = run.target
          /\ run'.swapped /\ run'.failed = run.failed /\ run'.before = run.before
      BY <1>1, <2>5, <3>1 DEF RunStates
    <3>10. ManagedTypes'
      BY <1>0, <2>1, <2>2, <2>5, <3>1, <3>2, ManagedFacts DEF ManagedInv, ManagedTypes
    <3>11. ManagedSafe'
      BY <1>0, <2>1, <2>2, <2>5, <3>1, <3>2, ManagedFacts DEF ManagedInv, ManagedSafe
    <3>12. ManagedWhole'
      BY <1>0, <2>1, <2>2, <2>5, <3>1, <3>2, ManagedFacts DEF ManagedInv, ManagedSafe, ManagedWhole
    <3>13. Remembers'
      BY <1>0, <2>1, <2>2, <2>5, <3>1, <3>2, ManagedFacts DEF ManagedInv, Remembers
    <3>14. PutsBack'
      BY <1>0, <2>1, <2>2, <2>5, <3>1, <3>2, ManagedFacts DEF ManagedInv, PutsBack
    <3> QED BY <3>10, <3>11, <3>12, <3>13, <3>14 DEF ManagedInv
  <2> QED BY <1>8, <2>3, <2>4, <2>5 DEF M!Swap
<1>9. CASE M!ReplaceDist
  <2>1. UNCHANGED <<package, managedPrevious, aside, saved, state, managedFaults>>
    BY <1>9 DEF M!ReplaceDist, M!site
  <2>2. M!Happened' = M!Happened /\ OneMild' = OneMild
    BY <1>3, <2>1
  <2>3. CASE run.at = "drop dist"
    <3>1. M!Goto("copy dist") /\ dist' = [v \in M!Versions |-> IF v \in run.known THEN "none" ELSE dist[v]]
      BY <1>9, <2>3 DEF M!ReplaceDist
    <3>2. /\ run' \in RunStates /\ run'.at = "copy dist" /\ run'.target = run.target
          /\ run'.swapped = run.swapped /\ run'.failed = run.failed /\ run'.known = run.known
          /\ run'.before = run.before
      BY <1>2, <2>3, <3>1
    <3>3. dist' \in Dists
      BY <1>0, <3>1, ManagedFacts DEF Dists
    <3>10. ManagedTypes'
      BY <1>0, <2>1, <2>2, <2>3, <3>1, <3>2, <3>3, ManagedFacts DEF ManagedInv, ManagedTypes
    <3>11. ManagedSafe'
      BY <1>0, <2>1, <2>2, <2>3, <3>1, <3>2, <3>3, ManagedFacts DEF ManagedInv, ManagedSafe
    <3>12. ManagedWhole'
      BY <1>0, <2>1, <2>2, <2>3, <3>1, <3>2, <3>3, ManagedFacts DEF ManagedInv, ManagedSafe, ManagedWhole
    <3>13. Remembers'
      BY <1>0, <2>1, <2>2, <2>3, <3>1, <3>2, <3>3, ManagedFacts DEF ManagedInv, Remembers
    <3>14. PutsBack'
      BY <1>0, <2>1, <2>2, <2>3, <3>1, <3>2, <3>3, ManagedFacts DEF ManagedInv, PutsBack
    <3> QED BY <3>10, <3>11, <3>12, <3>13, <3>14 DEF ManagedInv
  <2>4. CASE run.at = "copy dist"
    <3>1. M!Goto("smoke") /\ dist' = [dist EXCEPT ![MCVersionOf[run.target]] = run.target]
      BY <1>9, <2>4 DEF M!ReplaceDist
    <3>2. /\ run' \in RunStates /\ run'.at = "smoke" /\ run'.target = run.target
          /\ run'.swapped = run.swapped /\ run'.failed = run.failed /\ run'.known = run.known
          /\ run'.before = run.before
      BY <1>2, <2>4, <3>1
    <3>3. dist' \in Dists /\ M!Names(dist') # {}
      BY <1>0, <2>4, <3>1, ManagedFacts DEF Dists, M!Names
    <3>10. ManagedTypes'
      BY <1>0, <2>1, <2>2, <2>4, <3>1, <3>2, <3>3, ManagedFacts DEF ManagedInv, ManagedTypes
    <3>11. ManagedSafe'
      BY <1>0, <2>1, <2>2, <2>4, <3>1, <3>2, <3>3, ManagedFacts DEF ManagedInv, ManagedSafe
    <3>12. ManagedWhole'
      BY <1>0, <2>1, <2>2, <2>4, <3>1, <3>2, <3>3, ManagedFacts DEF ManagedInv, ManagedSafe, ManagedWhole
    <3>13. Remembers'
      BY <1>0, <2>1, <2>2, <2>4, <3>1, <3>2, <3>3, ManagedFacts DEF ManagedInv, Remembers
    <3>14. PutsBack'
      BY <1>0, <2>1, <2>2, <2>4, <3>1, <3>2, <3>3, ManagedFacts DEF ManagedInv, PutsBack
    <3> QED BY <3>10, <3>11, <3>12, <3>13, <3>14 DEF ManagedInv
  <2> QED BY <1>9, <2>3, <2>4 DEF M!ReplaceDist
<1>10. CASE M!FinishApply
  <2>1. UNCHANGED <<package, aside, dist, saved, managedFaults>>
    BY <1>10 DEF M!FinishApply, M!site
  <2>2. M!Happened' = M!Happened /\ OneMild' = OneMild
    BY <1>3, <2>1
  <2>3. CASE run.at = "smoke"
    <3>1. M!Goto("drop previous") /\ managedPrevious' = managedPrevious /\ state' = state
      BY <1>10, <2>3 DEF M!FinishApply
    <3>2. /\ run' \in RunStates /\ run'.at = "drop previous" /\ run'.target = run.target
          /\ run'.swapped = run.swapped /\ run'.failed = run.failed /\ run'.known = run.known
          /\ run'.before = run.before
      BY <1>2, <2>3, <3>1
    <3>10. ManagedTypes'
      BY <1>0, <2>1, <2>2, <2>3, <3>1, <3>2, ManagedFacts DEF ManagedInv, ManagedTypes
    <3>11. ManagedSafe'
      BY <1>0, <2>1, <2>2, <2>3, <3>1, <3>2, ManagedFacts DEF ManagedInv, ManagedSafe
    <3>12. ManagedWhole'
      BY <1>0, <2>1, <2>2, <2>3, <3>1, <3>2, ManagedFacts DEF ManagedInv, ManagedSafe, ManagedWhole
    <3>13. Remembers'
      BY <1>0, <2>1, <2>2, <2>3, <3>1, <3>2, ManagedFacts DEF ManagedInv, Remembers
    <3>14. PutsBack'
      BY <1>0, <2>1, <2>2, <2>3, <3>1, <3>2, ManagedFacts DEF ManagedInv, PutsBack
    <3> QED BY <3>10, <3>11, <3>12, <3>13, <3>14 DEF ManagedInv
  <2>4. CASE run.at = "drop previous"
    <3>1. M!Goto("commit") /\ managedPrevious' = "none" /\ state' = state
      BY <1>10, <2>4 DEF M!FinishApply
    <3>2. /\ run' \in RunStates /\ run'.at = "commit" /\ run'.target = run.target
          /\ run'.swapped = run.swapped /\ run'.failed = run.failed /\ run'.known = run.known
          /\ run'.before = run.before
      BY <1>2, <2>4, <3>1
    <3>10. ManagedTypes'
      BY <1>0, <2>1, <2>2, <2>4, <3>1, <3>2, ManagedFacts DEF ManagedInv, ManagedTypes
    <3>11. ManagedSafe'
      BY <1>0, <2>1, <2>2, <2>4, <3>1, <3>2, ManagedFacts DEF ManagedInv, ManagedSafe
    <3>12. ManagedWhole'
      BY <1>0, <2>1, <2>2, <2>4, <3>1, <3>2, ManagedFacts DEF ManagedInv, ManagedSafe, ManagedWhole
    <3>13. Remembers'
      BY <1>0, <2>1, <2>2, <2>4, <3>1, <3>2, ManagedFacts DEF ManagedInv, Remembers
    <3>14. PutsBack'
      BY <1>0, <2>1, <2>2, <2>4, <3>1, <3>2, ManagedFacts DEF ManagedInv, PutsBack
    <3> QED BY <3>10, <3>11, <3>12, <3>13, <3>14 DEF ManagedInv
  <2>5. CASE run.at = "commit"
    <3>1. M!Goto("finally") /\ state' = run.target /\ managedPrevious' = managedPrevious
      BY <1>10, <2>5 DEF M!FinishApply
    <3>2. /\ run' \in RunStates /\ run'.at = "finally" /\ run'.target = run.target
          /\ run'.swapped = run.swapped /\ run'.failed = run.failed /\ run'.known = run.known
          /\ run'.before = run.before
      BY <1>2, <2>5, <3>1
    <3>10. ManagedTypes'
      BY <1>0, <2>1, <2>2, <2>5, <3>1, <3>2, ManagedFacts DEF ManagedInv, ManagedTypes
    <3>11. ManagedSafe'
      BY <1>0, <2>1, <2>2, <2>5, <3>1, <3>2, ManagedFacts DEF ManagedInv, ManagedSafe
    <3>12. ManagedWhole'
      BY <1>0, <2>1, <2>2, <2>5, <3>1, <3>2, ManagedFacts DEF ManagedInv, ManagedSafe, ManagedWhole
    <3>13. Remembers'
      BY <1>0, <2>1, <2>2, <2>5, <3>1, <3>2, ManagedFacts DEF ManagedInv, Remembers
    <3>14. PutsBack'
      BY <1>0, <2>1, <2>2, <2>5, <3>1, <3>2, ManagedFacts DEF ManagedInv, PutsBack
    <3> QED BY <3>10, <3>11, <3>12, <3>13, <3>14 DEF ManagedInv
  <2> QED BY <1>10, <2>3, <2>4, <2>5 DEF M!FinishApply
<1>11. CASE M!Finally
  <2>1. /\ UNCHANGED <<package, aside, dist, saved, state, managedFaults>> /\ run.at = "finally"
        /\ managedPrevious' \in {managedPrevious, "none"} /\ run' = M!Idle /\ run'.at = "idle"
    BY <1>1, <1>11 DEF M!Finally
  <2>2. M!Happened' = M!Happened /\ OneMild' = OneMild
    BY <1>3, <2>1
  <2>10. ManagedTypes'
    BY <1>0, <2>1, <2>2, ManagedFacts DEF ManagedInv, ManagedTypes
  <2>11. ManagedSafe'
    BY <1>0, <2>1, <2>2, ManagedFacts DEF ManagedInv, ManagedSafe
  <2>12. ManagedWhole'
    BY <1>0, <2>1, <2>2, ManagedFacts DEF ManagedInv, ManagedSafe, ManagedWhole
  <2>13. Remembers'
    BY <1>0, <2>1, <2>2, ManagedFacts DEF ManagedInv, Remembers
  <2>14. PutsBack'
    BY <1>0, <2>1, <2>2, ManagedFacts DEF ManagedInv, PutsBack
  <2> QED BY <2>10, <2>11, <2>12, <2>13, <2>14 DEF ManagedInv
<1>12. CASE M!RestoreCheck
  <2>1. UNCHANGED <<package, managedPrevious, aside, dist, saved, state, managedFaults>> /\ run.at = "r check"
    BY <1>12 DEF M!RestoreCheck, M!site
  <2>2. M!Happened' = M!Happened /\ OneMild' = OneMild
    BY <1>3, <2>1
  <2>3. CASE saved.manifest /\ saved.package # "none" /\ M!Names(dist) # {}
    <3>1. run' = [run EXCEPT !.at = "r aside", !.known = M!Names(dist)]
      BY <1>12, <2>3 DEF M!RestoreCheck
    <3>2. /\ run' \in RunStates /\ run'.at = "r aside" /\ run'.target = run.target
          /\ run'.swapped = run.swapped /\ run'.failed = run.failed /\ run'.known = M!Names(dist)
          /\ run'.before = run.before
      BY <1>1, <2>1, <3>1 DEF RunStates, M!Names
    <3>10. ManagedTypes'
      BY <1>0, <2>1, <2>2, <2>3, <3>1, <3>2, ManagedFacts DEF ManagedInv, ManagedTypes
    <3>11. ManagedSafe'
      BY <1>0, <2>1, <2>2, <2>3, <3>1, <3>2, ManagedFacts DEF ManagedInv, ManagedSafe
    <3>12. ManagedWhole'
      BY <1>0, <2>1, <2>2, <2>3, <3>1, <3>2, ManagedFacts DEF ManagedInv, ManagedSafe, ManagedWhole
    <3>13. Remembers'
      BY <1>0, <2>1, <2>2, <2>3, <3>1, <3>2, ManagedFacts DEF ManagedInv, Remembers
    <3>14. PutsBack'
      BY <1>0, <2>1, <2>2, <2>3, <3>1, <3>2, ManagedFacts DEF ManagedInv, PutsBack
    <3> QED BY <3>10, <3>11, <3>12, <3>13, <3>14 DEF ManagedInv
  <2>4. CASE ~(saved.manifest /\ saved.package # "none" /\ M!Names(dist) # {})
    <3>1. M!Return(TRUE)
      BY <1>12, <2>4 DEF M!RestoreCheck
    <3>2. \/ run.target = "none" /\ run' = M!Idle /\ run'.at = "idle"
          \/ /\ run.target # "none" /\ run' \in RunStates /\ run'.at = "finally"
             /\ run'.target = run.target /\ run'.swapped = run.swapped
             /\ run'.failed = (run.failed \/ TRUE) /\ run'.before = run.before /\ run'.target \in Commits
      BY <1>1, <1>4, <2>1, <3>1
    <3>3. run.target # "none" /\ run.failed => run.before.package \in Commits
      BY <1>1, <2>1 DEF RunStates
    <3>10. ManagedTypes'
      BY <1>0, <2>1, <2>2, <2>4, <3>2, <3>3, ManagedFacts DEF ManagedInv, ManagedTypes
    <3>11. ManagedSafe'
      BY <1>0, <2>1, <2>2, <2>4, <3>2, <3>3, ManagedFacts DEF ManagedInv, ManagedSafe
    <3>12. ManagedWhole'
      BY <1>0, <2>1, <2>2, <2>4, <3>2, <3>3, ManagedFacts DEF ManagedInv, ManagedSafe, ManagedWhole
    <3>13. Remembers'
      BY <1>0, <2>1, <2>2, <2>4, <3>2, <3>3, ManagedFacts DEF ManagedInv, Remembers
    <3>14. PutsBack'
      BY <1>0, <2>1, <2>2, <2>4, <3>2, <3>3, ManagedFacts DEF ManagedInv, PutsBack
    <3> QED BY <3>10, <3>11, <3>12, <3>13, <3>14 DEF ManagedInv
  <2> QED BY <2>3, <2>4
<1>13. CASE M!Restore
  <2>1. UNCHANGED <<managedPrevious, saved, state, managedFaults>>
    BY <1>13 DEF M!Restore, M!site
  <2>2. M!Happened' = M!Happened /\ OneMild' = OneMild
    BY <1>3, <2>1
  <2>3. CASE run.at = "r aside"
    <3>1. M!Goto("r package") /\ aside' = package /\ package' = "none" /\ dist' = dist
      BY <1>13, <2>3 DEF M!Restore
    <3>2. /\ run' \in RunStates /\ run'.at = "r package" /\ run'.target = run.target
          /\ run'.swapped = run.swapped /\ run'.failed = run.failed /\ run'.known = run.known
          /\ run'.before = run.before
      BY <1>2, <2>3, <3>1
    <3>10. ManagedTypes'
      BY <1>0, <2>1, <2>2, <2>3, <3>1, <3>2, ManagedFacts DEF ManagedInv, ManagedTypes
    <3>11. ManagedSafe'
      BY <1>0, <2>1, <2>2, <2>3, <3>1, <3>2, ManagedFacts DEF ManagedInv, ManagedSafe
    <3>12. ManagedWhole'
      BY <1>0, <2>1, <2>2, <2>3, <3>1, <3>2, ManagedFacts DEF ManagedInv, ManagedSafe, ManagedWhole
    <3>13. Remembers'
      BY <1>0, <2>1, <2>2, <2>3, <3>1, <3>2, ManagedFacts DEF ManagedInv, Remembers
    <3>14. PutsBack'
      BY <1>0, <2>1, <2>2, <2>3, <3>1, <3>2, ManagedFacts DEF ManagedInv, PutsBack
    <3> QED BY <3>10, <3>11, <3>12, <3>13, <3>14 DEF ManagedInv
  <2>4. CASE run.at = "r package"
    <3>1. M!Goto("r drop dist") /\ package' = saved.package /\ aside' = aside /\ dist' = dist
      BY <1>13, <2>4 DEF M!Restore
    <3>2. /\ run' \in RunStates /\ run'.at = "r drop dist" /\ run'.target = run.target
          /\ run'.swapped = run.swapped /\ run'.failed = run.failed /\ run'.known = run.known
          /\ run'.before = run.before
      BY <1>2, <2>4, <3>1
    <3>3. package' \in M!Trees
      BY <1>0, <3>1 DEF Backups
    <3>10. ManagedTypes'
      BY <1>0, <2>1, <2>2, <2>4, <3>1, <3>2, <3>3, ManagedFacts DEF ManagedInv, ManagedTypes
    <3>11. ManagedSafe'
      BY <1>0, <2>1, <2>2, <2>4, <3>1, <3>2, <3>3, ManagedFacts DEF ManagedInv, ManagedSafe
    <3>12. ManagedWhole'
      BY <1>0, <2>1, <2>2, <2>4, <3>1, <3>2, <3>3, ManagedFacts DEF ManagedInv, ManagedSafe, ManagedWhole
    <3>13. Remembers'
      BY <1>0, <2>1, <2>2, <2>4, <3>1, <3>2, <3>3, ManagedFacts DEF ManagedInv, Remembers
    <3>14. PutsBack'
      BY <1>0, <2>1, <2>2, <2>4, <3>1, <3>2, <3>3, ManagedFacts DEF ManagedInv, PutsBack
    <3> QED BY <3>10, <3>11, <3>12, <3>13, <3>14 DEF ManagedInv
  <2>5. CASE run.at = "r drop dist"
    <3>1. M!Goto("r copy dist") /\ package' = package /\ aside' = aside
          /\ dist' = [v \in M!Versions |-> IF v \in run.known THEN "none" ELSE dist[v]]
      BY <1>13, <2>5 DEF M!Restore
    <3>2. /\ run' \in RunStates /\ run'.at = "r copy dist" /\ run'.target = run.target
          /\ run'.swapped = run.swapped /\ run'.failed = run.failed /\ run'.known = run.known
          /\ run'.before = run.before
      BY <1>2, <2>5, <3>1
    <3>3. dist' \in Dists /\ (run.known = M!Names(dist) => dist' = M!NoDist)
      BY <1>0, <3>1, ManagedFacts DEF Dists, M!Names, M!NoDist
    <3>10. ManagedTypes'
      BY <1>0, <2>1, <2>2, <2>5, <3>1, <3>2, <3>3, ManagedFacts DEF ManagedInv, ManagedTypes
    <3>11. ManagedSafe'
      BY <1>0, <2>1, <2>2, <2>5, <3>1, <3>2, <3>3, ManagedFacts DEF ManagedInv, ManagedSafe
    <3>12. ManagedWhole'
      BY <1>0, <2>1, <2>2, <2>5, <3>1, <3>2, <3>3, ManagedFacts DEF ManagedInv, ManagedSafe, ManagedWhole
    <3>13. Remembers'
      BY <1>0, <2>1, <2>2, <2>5, <3>1, <3>2, <3>3, ManagedFacts DEF ManagedInv, Remembers
    <3>14. PutsBack'
      BY <1>0, <2>1, <2>2, <2>5, <3>1, <3>2, <3>3, ManagedFacts DEF ManagedInv, PutsBack
    <3> QED BY <3>10, <3>11, <3>12, <3>13, <3>14 DEF ManagedInv
  <2>6. CASE run.at = "r copy dist"
    <3>1. M!Goto("r smoke") /\ package' = package /\ aside' = aside
          /\ dist' = [v \in M!Versions |-> IF saved.dist[v] # "none" THEN saved.dist[v] ELSE dist[v]]
      BY <1>13, <2>6 DEF M!Restore
    <3>2. /\ run' \in RunStates /\ run'.at = "r smoke" /\ run'.target = run.target
          /\ run'.swapped = run.swapped /\ run'.failed = run.failed /\ run'.known = run.known
          /\ run'.before = run.before
      BY <1>2, <2>6, <3>1
    <3>3. dist' \in Dists /\ (dist = M!NoDist => dist' = saved.dist)
      BY <1>0, <3>1, ManagedFacts DEF Dists, Backups, M!NoDist
    <3>10. ManagedTypes'
      BY <1>0, <2>1, <2>2, <2>6, <3>1, <3>2, <3>3, ManagedFacts DEF ManagedInv, ManagedTypes
    <3>11. ManagedSafe'
      BY <1>0, <2>1, <2>2, <2>6, <3>1, <3>2, <3>3, ManagedFacts DEF ManagedInv, ManagedSafe
    <3>12. ManagedWhole'
      BY <1>0, <2>1, <2>2, <2>6, <3>1, <3>2, <3>3, ManagedFacts DEF ManagedInv, ManagedSafe, ManagedWhole
    <3>13. Remembers'
      BY <1>0, <2>1, <2>2, <2>6, <3>1, <3>2, <3>3, ManagedFacts DEF ManagedInv, Remembers
    <3>14. PutsBack'
      BY <1>0, <2>1, <2>2, <2>6, <3>1, <3>2, <3>3, ManagedFacts DEF ManagedInv, PutsBack
    <3> QED BY <3>10, <3>11, <3>12, <3>13, <3>14 DEF ManagedInv
  <2>7. CASE run.at = "r smoke"
    <3>1. M!Goto("r drop aside") /\ package' = package /\ aside' = aside /\ dist' = dist
      BY <1>13, <2>7 DEF M!Restore
    <3>2. /\ run' \in RunStates /\ run'.at = "r drop aside" /\ run'.target = run.target
          /\ run'.swapped = run.swapped /\ run'.failed = run.failed /\ run'.known = run.known
          /\ run'.before = run.before
      BY <1>2, <2>7, <3>1
    <3>10. ManagedTypes'
      BY <1>0, <2>1, <2>2, <2>7, <3>1, <3>2, ManagedFacts DEF ManagedInv, ManagedTypes
    <3>11. ManagedSafe'
      BY <1>0, <2>1, <2>2, <2>7, <3>1, <3>2, ManagedFacts DEF ManagedInv, ManagedSafe
    <3>12. ManagedWhole'
      BY <1>0, <2>1, <2>2, <2>7, <3>1, <3>2, ManagedFacts DEF ManagedInv, ManagedSafe, ManagedWhole
    <3>13. Remembers'
      BY <1>0, <2>1, <2>2, <2>7, <3>1, <3>2, ManagedFacts DEF ManagedInv, Remembers
    <3>14. PutsBack'
      BY <1>0, <2>1, <2>2, <2>7, <3>1, <3>2, ManagedFacts DEF ManagedInv, PutsBack
    <3> QED BY <3>10, <3>11, <3>12, <3>13, <3>14 DEF ManagedInv
  <2>8. CASE run.at = "r drop aside"
    <3>1. M!Return(FALSE) /\ package' = package /\ aside' = "none" /\ dist' = dist
      BY <1>13, <2>8 DEF M!Restore
    <3>2. \/ run.target = "none" /\ run' = M!Idle /\ run'.at = "idle"
          \/ /\ run.target # "none" /\ run' \in RunStates /\ run'.at = "finally"
             /\ run'.target = run.target /\ run'.swapped = run.swapped
             /\ run'.failed = (run.failed \/ FALSE) /\ run'.before = run.before
             /\ run'.target \in Commits
      BY <1>1, <1>4, <2>8, <3>1
    <3>10. ManagedTypes'
      BY <1>0, <2>1, <2>2, <2>8, <3>1, <3>2, ManagedFacts DEF ManagedInv, ManagedTypes
    <3>11. ManagedSafe'
      BY <1>0, <2>1, <2>2, <2>8, <3>1, <3>2, ManagedFacts DEF ManagedInv, ManagedSafe
    <3>12. ManagedWhole'
      BY <1>0, <2>1, <2>2, <2>8, <3>1, <3>2, ManagedFacts DEF ManagedInv, ManagedSafe, ManagedWhole
    <3>13. Remembers'
      BY <1>0, <2>1, <2>2, <2>8, <3>1, <3>2, ManagedFacts DEF ManagedInv, Remembers
    <3>14. PutsBack'
      BY <1>0, <2>1, <2>2, <2>8, <3>1, <3>2, ManagedFacts DEF ManagedInv, PutsBack
    <3> QED BY <3>10, <3>11, <3>12, <3>13, <3>14 DEF ManagedInv
  <2>9. CASE run.at = "r undo"
    <3>1. M!Return(TRUE) /\ package' = aside /\ aside' = "none" /\ dist' = dist
      BY <1>13, <2>9 DEF M!Restore
    <3>2. \/ run.target = "none" /\ run' = M!Idle /\ run'.at = "idle"
          \/ /\ run.target # "none" /\ run' \in RunStates /\ run'.at = "finally"
             /\ run'.target = run.target /\ run'.swapped = run.swapped
             /\ run'.failed = (run.failed \/ TRUE) /\ run'.before = run.before
             /\ run'.target \in Commits
      BY <1>1, <1>4, <2>9, <3>1
    <3>10. ManagedTypes'
      BY <1>0, <2>1, <2>2, <2>9, <3>1, <3>2, ManagedFacts DEF ManagedInv, ManagedTypes
    <3>11. ManagedSafe'
      BY <1>0, <2>1, <2>2, <2>9, <3>1, <3>2, ManagedFacts DEF ManagedInv, ManagedSafe
    <3>12. ManagedWhole'
      BY <1>0, <2>1, <2>2, <2>9, <3>1, <3>2, ManagedFacts DEF ManagedInv, ManagedSafe, ManagedWhole
    <3>13. Remembers'
      BY <1>0, <2>1, <2>2, <2>9, <3>1, <3>2, ManagedFacts DEF ManagedInv, Remembers
    <3>14. PutsBack'
      BY <1>0, <2>1, <2>2, <2>9, <3>1, <3>2, ManagedFacts DEF ManagedInv, PutsBack
    <3> QED BY <3>10, <3>11, <3>12, <3>13, <3>14 DEF ManagedInv
  <2> QED BY <1>13, <2>3, <2>4, <2>5, <2>6, <2>7, <2>8, <2>9 DEF M!Restore
<1>14. CASE M!Fail
  <2>1. run.at # "idle" /\ run \in RunStates /\ Len(managedFaults) < MaxManagedFaults /\ state' = state
    <3>1. run # M!Idle => run.at # "idle"
      <4>1. run # M!Idle => run \in RunStates
        BY <1>0
      <4> QED BY <4>1 DEF RunStates
    <3> QED BY <1>1, <1>14, <3>1 DEF M!Fail
  <2>2. PICK kind \in ManagedFaults : managedFaults' = Append(managedFaults, kind) /\
           CASE kind = "smoke" ->
                  /\ run.at \in {"smoke", "r smoke"} /\ M!NoDamage /\ run' = M!Handler(run.at, run)
             [] kind = "copy"  -> M!Torn("partial") /\ run' = M!Handler(run.at, run)
             [] kind = "mkdir" -> M!Torn("none") /\ run' = M!Handler(run.at, run)
             [] kind = "rename" ->
                  run.at \in M!Renames /\ M!NoDamage /\ run' = M!Handler(run.at, run)
             [] kind = "torn" ->
                  /\ run.at = "clear" /\ saved.package # "none"
                  /\ saved' = [saved EXCEPT !.package = "partial"]
                  /\ UNCHANGED M!site /\ run' = M!Handler(run.at, run)
             [] kind = "interrupt" ->
                  /\ run.at # "finally"
                  /\ M!NoDamage \/ M!Torn("partial") \/ M!Torn("none")
                  /\ run' = M!Interrupted(run)
             [] OTHER ->
                  (M!NoDamage \/ M!Torn("partial") \/ M!Torn("none")) /\ run' = M!Idle
    BY <1>14 DEF M!Fail
  <2>3. /\ managedFaults' \in Seq(ManagedFaults) /\ Len(managedFaults') = Len(managedFaults) + 1
        /\ M!Happened' = M!Happened \cup {kind}
        /\ Len(managedFaults) \in Nat /\ (Len(managedFaults) = 0 => M!Happened = {})
    BY <1>0, <2>2, FaultMore
  \* What is damaged.
  <2>4. /\ managedPrevious' = managedPrevious /\ aside' = aside
        /\ \/ package' = package /\ dist' = dist /\ saved' = saved
           \/ /\ package' = package /\ dist' = dist
              /\ \/ run.at = "backup package" /\ \E left \in {"partial", "none"} : saved' = [saved EXCEPT !.package = left]
                 \/ run.at = "backup dist" /\ \E left \in {"partial", "none"} :
                      saved' = [saved EXCEPT !.dist = [v \in M!Versions |-> IF dist[v] = "none" THEN "none" ELSE left]]
                 \/ kind = "torn" /\ run.at = "clear" /\ saved' = [saved EXCEPT !.package = "partial"]
           \/ /\ package' = package /\ saved' = saved
              /\ \/ run.at = "copy dist" /\ \E left \in {"partial", "none"} :
                      dist' = [dist EXCEPT ![MCVersionOf[run.target]] = left]
                 \/ run.at = "r copy dist" /\ \E left \in {"partial", "none"} :
                      dist' = [v \in M!Versions |-> IF saved.dist[v] = "none" THEN dist[v] ELSE left]
           \/ /\ dist' = dist /\ saved' = saved
              /\ run.at = "r package" /\ package' \in {"partial", "none"}
    <3>1. ASSUME NEW left \in {"partial", "none"}, M!Torn(left)
          PROVE  /\ managedPrevious' = managedPrevious /\ aside' = aside
                 /\ \/ package' = package /\ dist' = dist /\ saved' = saved
                    \/ /\ package' = package /\ dist' = dist
                       /\ \/ run.at = "backup package" /\ saved' = [saved EXCEPT !.package = left]
                          \/ /\ run.at = "backup dist"
                             /\ saved' = [saved EXCEPT !.dist = [v \in M!Versions |-> IF dist[v] = "none" THEN "none" ELSE left]]
                    \/ /\ package' = package /\ saved' = saved
                       /\ \/ run.at = "copy dist" /\ dist' = [dist EXCEPT ![MCVersionOf[run.target]] = left]
                          \/ /\ run.at = "r copy dist"
                             /\ dist' = [v \in M!Versions |-> IF saved.dist[v] = "none" THEN dist[v] ELSE left]
                    \/ dist' = dist /\ saved' = saved /\ run.at = "r package" /\ package' = left
      BY <3>1 DEF M!Torn
    <3>2. CASE M!NoDamage
      BY <3>2 DEF M!NoDamage, M!site
    <3>3. CASE M!Torn("partial")
      BY <3>1, <3>3
    <3>4. CASE M!Torn("none")
      BY <3>1, <3>4
    <3>5. CASE /\ kind = "torn" /\ run.at = "clear" /\ saved' = [saved EXCEPT !.package = "partial"] /\ UNCHANGED M!site
      BY <3>5 DEF M!site
    <3> QED BY <2>2, <3>2, <3>3, <3>4, <3>5
  \* Where the run goes.
  <2> DEFINE To(step) == run' = [run EXCEPT !.at = step, !.failed = TRUE]
  <2> DEFINE Mild == {"smoke", "copy", "mkdir"}
  <2>5. \/ run' = M!Idle /\ kind \notin Mild
        \/ To("finally") /\ run.target # "none" /\ (kind \in Mild => run.at \in Early \ {"move aside", "move in"})
        \/ To("r check") /\ run.at \in Late /\ (kind \in Mild => run.at \in {"smoke", "copy dist", "commit"})
        \/ To("r undo") /\ run.at \in M!RestoreSteps \ {"r check", "r aside", "r undo"}
    <3>1. run.at \in Early => ~run.swapped /\ run.target # "none"
      BY <1>0, ManagedFacts
    <3>2. run.at \in Late => run.swapped /\ run.target # "none"
      BY <1>0, ManagedFacts
    <3>3. ASSUME run.at \in Early, run' = M!Handler(run.at, run) PROVE To("finally")
      BY <3>1, <3>3 DEF M!Handler, M!Interrupted
    <3>4. ASSUME run.at \in Late, run' = M!Handler(run.at, run) PROVE To("r check")
      BY <3>2, <3>4 DEF M!Handler
    <3>5. ASSUME run.at \in M!RestoreSteps \ {"r check", "r aside", "r undo"}, run' = M!Handler(run.at, run)
          PROVE  To("r undo")
      BY <3>5 DEF M!Handler
    <3>6. ASSUME run.at \in {"r check", "r aside", "r undo"}, run' = M!Handler(run.at, run)
          PROVE  run' = M!Idle \/ (To("finally") /\ run.target # "none")
      BY <3>6 DEF M!Handler, M!Interrupted
    <3>7. ASSUME run' = M!Interrupted(run) PROVE run' = M!Idle \/ (To("finally") /\ run.target # "none")
      BY <3>7 DEF M!Interrupted
    <3>8. ASSUME NEW left, M!Torn(left)
          PROVE  run.at \in {"backup package", "backup dist", "copy dist", "r package", "r copy dist",
                             "manifest", "clear previous", "commit"}
      BY <3>8 DEF M!Torn
    <3> HIDE DEF To
    <3>9. CASE kind = "smoke" /\ run.at \in {"smoke", "r smoke"} /\ run' = M!Handler(run.at, run)
      BY <3>4, <3>5, <3>9
    <3>10. CASE kind \in {"copy", "mkdir"} /\ run' = M!Handler(run.at, run) /\ (M!Torn("partial") \/ M!Torn("none"))
      <4>1. run.at \in {"backup package", "backup dist", "copy dist", "r package", "r copy dist",
                        "manifest", "clear previous", "commit"}
        BY <3>8, <3>10
      <4>2. CASE run.at \in {"backup package", "backup dist", "manifest", "clear previous"}
        BY <3>1, <3>3, <3>10, <4>2
      <4>3. CASE run.at \in {"copy dist", "commit"}
        BY <3>4, <3>10, <4>3
      <4>4. CASE run.at \in {"r package", "r copy dist"}
        BY <3>5, <3>10, <4>4
      <4> QED BY <4>1, <4>2, <4>3, <4>4
    <3>11. CASE kind = "rename" /\ run.at \in M!Renames /\ run' = M!Handler(run.at, run)
      <4>1. run.at \in {"move aside", "move in", "r aside", "r undo"}
        BY <3>11 DEF M!Renames
      <4> QED BY <3>1, <3>3, <3>6, <3>11, <4>1
    <3>12. CASE kind = "torn" /\ run.at = "clear" /\ run' = M!Handler(run.at, run)
      BY <3>1, <3>3, <3>12
    <3>13. CASE kind = "interrupt" /\ run' = M!Interrupted(run)
      BY <3>7, <3>13
    <3>14. CASE kind \notin {"smoke", "copy", "mkdir", "rename", "torn", "interrupt"} /\ run' = M!Idle
      BY <3>14
    <3> QED BY <2>2, <3>9, <3>10, <3>11, <3>12, <3>13, <3>14
  <2>6. ASSUME NEW step \in {"finally", "r check", "r undo"}, To(step)
        PROVE  /\ run' \in RunStates /\ run'.at = step /\ run'.target = run.target /\ run'.swapped = run.swapped
               /\ run'.failed /\ run'.known = run.known /\ run'.before = run.before
    BY <2>1, <2>6 DEF RunStates
  <2> HIDE DEF To
  <2>7. /\ package' \in M!Trees /\ dist' \in Dists /\ saved' \in Backups
        /\ saved'.manifest = saved.manifest
        /\ run.at \notin {"clear", "backup package"} => saved'.package = saved.package
        /\ run.at # "backup dist" => saved'.dist = saved.dist
        /\ run.at \notin {"copy dist", "r copy dist"} => dist' = dist
        /\ run.at # "r package" => package' = package
        /\ kind # "torn" /\ run.at # "backup package" => saved'.package = saved.package
    <3>1. CASE package' = package /\ dist' = dist /\ saved' = saved
      BY <1>0, <3>1
    <3>2. ASSUME NEW left \in {"partial", "none"}, saved' = [saved EXCEPT !.package = left]
          PROVE  saved' \in Backups /\ saved'.manifest = saved.manifest /\ saved'.dist = saved.dist
      BY <1>0, <3>2, ManagedFacts DEF Backups
    <3>3. ASSUME NEW left \in {"partial", "none"},
                 saved' = [saved EXCEPT !.dist = [v \in M!Versions |-> IF dist[v] = "none" THEN "none" ELSE left]]
          PROVE  saved' \in Backups /\ saved'.manifest = saved.manifest /\ saved'.package = saved.package
      <4> DEFINE d == [v \in M!Versions |-> IF dist[v] = "none" THEN "none" ELSE left]
      <4>1. d \in Dists
        BY ManagedFacts DEF Dists
      <4>2. saved' = [saved EXCEPT !.dist = d]
        BY <3>3
      <4> HIDE DEF d
      <4> QED BY <1>0, <4>1, <4>2 DEF Backups
    <3>4. ASSUME NEW left \in {"partial", "none"}, dist' = [dist EXCEPT ![MCVersionOf[run.target]] = left]
          PROVE  dist' \in Dists
      BY <1>0, <3>4, ManagedFacts DEF Dists
    <3>5. ASSUME NEW left \in {"partial", "none"},
                 dist' = [v \in M!Versions |-> IF saved.dist[v] = "none" THEN dist[v] ELSE left]
          PROVE  dist' \in Dists
      BY <1>0, <3>5, ManagedFacts DEF Dists
    <3>6. package' \in {"partial", "none"} => package' \in M!Trees
      BY ManagedFacts
    <3> QED BY <1>0, <2>4, <3>1, <3>2, <3>3, <3>4, <3>5, <3>6
  \* The new metadata is there, if only in part.
  <2>8. run.at \in {"smoke", "copy dist", "commit"} /\ kind \in {"smoke", "copy"} => M!Names(dist') # {}
    <3>1. CASE run.at \in {"smoke", "commit"}
      BY <2>7, <3>1 DEF ManagedInv, Remembers
    <3>2. CASE run.at = "copy dist" /\ kind \in {"smoke", "copy"}
      <4>1. kind = "copy" /\ M!Torn("partial")
        BY <2>2, <3>2
      <4>2. dist' = [dist EXCEPT ![MCVersionOf[run.target]] = "partial"] /\ run.target \in Commits
        BY <1>0, <3>2, <4>1 DEF M!Torn
      <4> QED BY <1>0, <4>2, ManagedFacts DEF Dists, M!Names
    <3> QED BY <3>1, <3>2
  <2>9. OneMild' => ~run.failed /\ kind \in {"smoke", "copy"}
    <3> SUFFICES ASSUME OneMild' PROVE ~run.failed /\ kind \in {"smoke", "copy"}
      OBVIOUS
    <3>1. Len(managedFaults') = 1 /\ M!Happened' \subseteq {"smoke", "copy"}
      BY DEF OneMild
    <3>2. ASSUME NEW n \in Nat, n + 1 = 1 PROVE ~(n >= 1)
      BY <3>2
    <3>3. ~run.failed
      <4>1. ~(Len(managedFaults) >= 1)
        BY <2>3, <3>1, <3>2
      <4> QED BY <1>0, <2>1, <4>1
    <3>4. kind \in {"smoke", "copy"}
      BY <2>3, <3>1
    <3> QED BY <3>3, <3>4
  <2>10. ManagedTypes'
    <3>1. Len(managedFaults') <= MaxManagedFaults /\ Len(managedFaults') >= 1
      BY <2>1, <2>3, ManagedFacts
    <3>2. CASE run' = M!Idle
      BY <1>0, <1>1, <2>1, <2>3, <2>4, <2>7, <3>1, <3>2 DEF ManagedTypes
    <3>3. CASE To("finally") /\ run.target # "none"
      <4>1. run'.target \in Commits
        BY <2>1, <2>6, <3>3 DEF RunStates
      <4> QED BY <1>0, <2>1, <2>3, <2>4, <2>6, <2>7, <3>1, <3>3, <4>1 DEF ManagedTypes
    <3>4. CASE To("r check") \/ To("r undo")
      BY <1>0, <2>1, <2>3, <2>4, <2>6, <2>7, <3>1, <3>4 DEF ManagedTypes
    <3> QED BY <2>5, <3>2, <3>3, <3>4
  <2>11. ManagedSafe'
    <3> SUFFICES ASSUME "torn" \notin M!Happened' PROVE ManagedSafe'
      BY DEF ManagedSafe
    <3>1. kind # "torn" /\ "torn" \notin M!Happened
      BY <2>3
    <3>2. /\ package \in Commits \/ saved.manifest
          /\ saved.manifest => saved.package \in Commits
          /\ run.at \in {"clear", "backup package", "backup dist", "manifest"} => package \in Commits
          /\ run.at \in {"backup package", "backup dist", "manifest"} => ~saved.manifest
          /\ run.at \in {"clear previous", "move aside", "move in"} \cup Late \cup M!RestoreSteps
                => saved.manifest
      BY <3>1 DEF ManagedInv, ManagedSafe
    <3>3. /\ package' \in Commits \/ saved'.manifest
          /\ saved'.manifest => saved'.package \in Commits
      BY <2>7, <3>1, <3>2
    <3>4. /\ run'.at \in {"idle", "finally", "r check", "r undo"}
          /\ run'.at \in {"r check", "r undo"} => run.at \in Late \cup M!RestoreSteps
      <4>1. CASE run' = M!Idle
        BY <1>1, <4>1
      <4>2. CASE To("finally")
        BY <2>6, <4>2
      <4>3. CASE To("r check") /\ run.at \in Late
        BY <2>6, <4>3
      <4>4. CASE To("r undo") /\ run.at \in M!RestoreSteps
        BY <2>6, <4>4
      <4> QED BY <2>5, <4>1, <4>2, <4>3, <4>4
    <3> QED BY <2>7, <3>2, <3>3, <3>4 DEF ManagedSafe
  <2>12. ManagedWhole'
    <3> SUFFICES ASSUME M!Happened' \subseteq Mild PROVE ManagedWhole'
      BY DEF ManagedWhole
    <3>1. kind \in Mild /\ M!Happened \subseteq Mild
      BY <2>3
    <3>2. /\ run.at \notin {"move in", "r package", "r undo"} => package \in Commits
          /\ run.at \in {"r package", "r drop dist", "r copy dist", "r smoke", "r undo"} => aside \in Commits
      BY <3>1 DEF ManagedInv, ManagedWhole
    <3>3. CASE To("finally") /\ run.at \in Early \ {"move aside", "move in"}
      BY <2>6, <2>7, <3>2, <3>3 DEF ManagedWhole
    <3>4. CASE To("r check") /\ run.at \in Late
      BY <2>6, <2>7, <3>2, <3>4 DEF ManagedWhole
    <3>5. CASE To("r undo") /\ run.at \in {"r package", "r copy dist", "r smoke"}
      BY <2>4, <2>6, <3>2, <3>5 DEF ManagedWhole
    <3>6. run.at \in M!RestoreSteps => run.at \in {"r package", "r copy dist", "r smoke"}
      <4>1. \/ run.at \in {"smoke", "r smoke"} \/ M!Torn("partial") \/ M!Torn("none")
        BY <2>2, <3>1
      <4> QED BY <4>1 DEF M!Torn
    <3> QED BY <2>5, <3>1, <3>3, <3>4, <3>5, <3>6
  <2>13. Remembers'
    <3>1. run'.at \in {"idle", "finally", "r check", "r undo"}
      BY <1>1, <2>5, <2>6
    <3> QED BY <3>1 DEF Remembers
  <2>14. PutsBack'
    <3> SUFFICES ASSUME OneMild', run'.at # "idle", run'.target # "none" PROVE PutsBack'
      BY DEF PutsBack
    <3>1. ~run.failed /\ kind \in {"smoke", "copy"}
      BY <2>9
    <3>2. CASE To("finally") /\ run.at \in Early \ {"move aside", "move in"}
      BY <2>6, <2>7, <3>2 DEF PutsBack, ManagedInv, Remembers
    <3>3. CASE To("r check") /\ run.at \in {"smoke", "copy dist", "commit"}
      BY <2>6, <2>7, <2>8, <3>1, <3>3 DEF PutsBack, ManagedInv, Remembers
    <3>4. CASE To("r undo") /\ run.at \in M!RestoreSteps
      BY <1>0, <2>6, <3>1, <3>4
    <3>5. run' # M!Idle
      BY <1>1
    <3> QED BY <2>5, <3>1, <3>2, <3>3, <3>4, <3>5
  <2> QED BY <2>10, <2>11, <2>12, <2>13, <2>14 DEF ManagedInv
<1>15. CASE UNCHANGED M!vars
  <2>1. UNCHANGED <<package, managedPrevious, aside, dist, saved, state, run, managedFaults>>
    BY <1>15 DEF M!vars, M!site
  <2>2. M!Happened' = M!Happened /\ OneMild' = OneMild
    BY <1>3, <2>1
  <2>10. ManagedTypes'
    BY <2>1, <2>2 DEF ManagedInv, ManagedTypes
  <2>11. ManagedSafe'
    BY <2>1, <2>2 DEF ManagedInv, ManagedSafe
  <2>12. ManagedWhole'
    BY <2>1, <2>2 DEF ManagedInv, ManagedSafe, ManagedWhole
  <2>13. Remembers'
    BY <2>1, <2>2 DEF ManagedInv, Remembers
  <2>14. PutsBack'
    BY <2>1, <2>2 DEF ManagedInv, PutsBack
  <2> QED BY <2>10, <2>11, <2>12, <2>13, <2>14 DEF ManagedInv
<1> QED BY <1>5, <1>6, <1>7, <1>8, <1>9, <1>10, <1>11, <1>12, <1>13, <1>14, <1>15 DEF M!Next

\* A managed update: whatever fails and wherever it is stopped, a whole build is
\* installed or in a complete backup; failing smoke tests and copies leave a
\* whole package; and one of them leaves what was there before.
THEOREM UpdatesRecover == M!Init /\ [][M!Next]_(M!vars) => []M!UpdateRecovers
<1>1. ManagedInv => M!UpdateRecovers
  <2> SUFFICES ASSUME ManagedInv PROVE M!UpdateRecovers
    OBVIOUS
  <2>1. M!Recoverable
    BY DEF ManagedInv, ManagedSafe, M!Recoverable
  <2>2. M!PackageWhole
    <3>1. run = M!Idle => run.at = "idle"
      BY DEF M!Idle
    <3> QED BY <3>1 DEF ManagedInv, ManagedWhole, M!PackageWhole
  <2>3. M!RestoresFromOneFailure
    <3>1. run.at = "finally" => run.target # "none"
      BY ManagedFacts DEF ManagedInv, ManagedTypes, M!ApplySteps
    <3> QED BY <3>1 DEF ManagedInv, PutsBack, OneMild, M!RestoresFromOneFailure, M!RestoresPrevious, M!At
  <2> QED BY <2>1, <2>2, <2>3 DEF M!UpdateRecovers
<1> QED BY <1>1, ManagedInitInv, ManagedStepInv, PTL

-----------------------------------------------------------------------------
(* The start of the database *)

ProcStates == D!Start \cup {D!Down, [at |-> "up"]}
Whole(c)   == c.recorded \ {D!Baseline} \subseteq c.tables

SchemaTypes ==
    /\ path \in D!Files \cup {0} /\ made \in D!Files \cup {0}
    /\ file \in [D!Files -> D!Contents]
    /\ backups \in [D!Stamps -> D!Contents \cup {D!Down}]
    /\ proc \in [Processes -> ProcStates]
    /\ starts \in 0 .. MaxStarts /\ rows \in 0 .. MaxRows /\ schemaFaults \in 0 .. MaxSchemaFaults
    /\ stamp \in Nat /\ stamp <= starts
    \* whoever migrates has a connection, and what it records is left to do
    /\ \A p \in Processes : proc[p].at \in {"baseline", "script", "record"} => proc[p].conn \in D!Files
    /\ \A p \in Processes : proc[p].at = "record" => proc[p].todo # {}
    /\ \A t \in D!Stamps : backups[t] # D!Down => t <= stamp

\* What a start that is not disturbed would restore is what it found.
BackedUp ==
    \A p \in Processes : D!Starting(p) /\ proc[p].clean =>
        /\ proc[p].backup = 0 => proc[p].before = D!Empty
        /\ proc[p].backup # 0 => backups[proc[p].backup] = proc[p].before

\* Files and backups record what was made, and the script a start is about to
\* record is in its file.
RecordedWhole ==
    /\ \A f \in D!Files : Whole(file[f])
    /\ \A t \in D!Stamps : backups[t] # D!Down => Whole(backups[t])
    /\ \A p \in Processes : proc[p].at = "record" => D!Version(p) \in file[proc[p].conn].tables

LEMMA LeastNatural ==
    ASSUME NEW X \in SUBSET Nat, X # {}
    PROVE  \E n \in X : \A m \in X : n <= m
<1> DEFINE Less == {pair \in Nat \X Nat : pair[1] < pair[2]}
<1>1. OpToRel(<, Nat) = Less
  BY DEF OpToRel
<1>2. IsWellFoundedOn(Less, Nat)
  BY <1>1, NatLessThanWellFounded, Zenon
<1> HIDE DEF Less
<1>3. PICK n \in X : \A m \in X : ~(<<m, n>> \in Less)
  BY <1>2, WFMin
<1>4. ASSUME NEW m \in X, m < n PROVE FALSE
  <2>1. <<m, n>> \in Less
    BY <1>4 DEF Less
  <2> QED BY <1>3, <2>1
<1> QED BY <1>4

\* The greatest of finitely many: the one with the fewest above it.
LEMMA GreatestNatural ==
    ASSUME NEW X \in SUBSET Nat, IsFiniteSet(X), X # {}
    PROVE  \E n \in X : \A m \in X : n >= m
<1> DEFINE Above(n) == {m \in X : m > n}
<1> DEFINE Counts == {Cardinality(Above(n)) : n \in X}
<1>1. ASSUME NEW n \in X PROVE IsFiniteSet(Above(n)) /\ Cardinality(Above(n)) \in Nat
  BY FS_Subset, FS_CardinalityType
<1>2. Counts \in SUBSET Nat /\ Counts # {}
  BY <1>1
<1>3. PICK c \in Counts : \A d \in Counts : c <= d
  BY <1>2, LeastNatural
<1>4. PICK n \in X : c = Cardinality(Above(n))
  OBVIOUS
<1>5. ASSUME NEW m \in X, m > n PROVE FALSE
  <2>1. Above(m) \in SUBSET Above(n) /\ m \in Above(n) /\ m \notin Above(m)
    <3>1. m \in Nat /\ n \in Nat /\ ~(m > m)
      OBVIOUS
    <3>2. ASSUME NEW k \in Above(m) PROVE k \in Above(n)
      <4>1. k \in X /\ k \in Nat /\ k > m
        OBVIOUS
      <4>2. k > n
        BY <1>5, <3>1, <4>1
      <4> QED BY <4>1, <4>2
    <3> QED BY <1>5, <3>1, <3>2
  <2>2. Cardinality(Above(n)) <= Cardinality(Above(m))
    BY <1>3, <1>4
  <2>3. Cardinality(Above(m)) <= Cardinality(Above(n))
        /\ (Cardinality(Above(n)) = Cardinality(Above(m)) => Above(n) = Above(m))
    BY <1>1, <2>1, FS_Subset
  <2> HIDE DEF Above
  <2>4. Cardinality(Above(n)) = Cardinality(Above(m))
    <3>1. ASSUME NEW i \in Nat, NEW j \in Nat, i <= j, j <= i PROVE i = j
      BY <3>1
    <3>2. Cardinality(Above(n)) \in Nat /\ Cardinality(Above(m)) \in Nat
      BY <1>1
    <3> QED BY <2>2, <2>3, <3>1, <3>2
  <2> QED BY <2>1, <2>3, <2>4
<1> QED BY <1>5

LEMMA SchemaFacts ==
    /\ Migrations \subseteq Nat /\ D!Baseline \in Migrations /\ D!Max(Migrations) \in Migrations
    /\ \A X \in SUBSET Migrations : X # {} => D!Min(X) \in X
    /\ D!Empty \in D!Contents /\ D!Down \notin D!Contents /\ Whole(D!Empty)
    /\ 0 \notin D!Files /\ 0 \notin D!Stamps /\ 1 \in D!Files
    /\ MaxFiles \in Nat /\ MaxStarts \in Nat /\ MaxRows \in Nat /\ MaxSchemaFaults \in Nat
    /\ Keep \in Nat \ {0}
<1>1. /\ IsFiniteSet(Migrations) /\ Migrations \subseteq Nat /\ Migrations # {} /\ Keep \in Nat \ {0}
      /\ MaxFiles \in Nat \ {0} /\ MaxStarts \in Nat /\ MaxRows \in Nat /\ MaxSchemaFaults \in Nat
  BY StartupAssumption DEF D!SchemaAssumption, D!IsFiniteSet, IsFiniteSet
<1>2. ASSUME NEW X \in SUBSET Migrations, X # {} PROVE D!Min(X) \in X
  <2>1. \E n \in X : \A m \in X : n <= m
    BY <1>1, <1>2, LeastNatural
  <2> QED BY <2>1 DEF D!Min
<1>3. D!Max(Migrations) \in Migrations
  <2>1. \E n \in Migrations : \A m \in Migrations : n >= m
    BY <1>1, GreatestNatural
  <2> QED BY <2>1 DEF D!Max
<1>4. D!Baseline \in Migrations
  BY <1>1, <1>2 DEF D!Baseline
<1>5. D!Empty \in D!Contents /\ Whole(D!Empty)
  BY DEF D!Empty, D!Contents, Whole
<1>6. D!Down \notin D!Contents
  <2>1. ASSUME NEW c \in D!Contents PROVE DOMAIN c = {"tables", "recorded", "rows"}
    BY DEF D!Contents
  <2>2. "at" \in DOMAIN D!Down
    BY DEF D!Down
  <2>3. "at" # "tables" /\ "at" # "recorded" /\ "at" # "rows"
    OBVIOUS
  <2> QED BY <2>1, <2>2, <2>3
<1>7. 0 \notin D!Files /\ 0 \notin D!Stamps /\ 1 \in D!Files
  BY <1>1 DEF D!Files, D!Stamps
<1> QED BY <1>1, <1>2, <1>3, <1>4, <1>5, <1>6, <1>7

\* A database is a record of three sets.
LEMMA ContentFacts ==
    ASSUME NEW c \in D!Contents
    PROVE  /\ c.tables \subseteq Migrations /\ c.recorded \subseteq Migrations
           /\ \A X \in SUBSET Migrations :
                 LET more == [c EXCEPT !.tables = X]
                 IN more \in D!Contents /\ more.tables = X /\ more.recorded = c.recorded
           /\ \A X \in SUBSET Migrations :
                 LET more == [c EXCEPT !.recorded = X]
                 IN more \in D!Contents /\ more.tables = c.tables /\ more.recorded = X
BY DEF D!Contents

LEMMA ProcFacts ==
    /\ D!Down \in ProcStates /\ [at |-> "up"] \in ProcStates
    /\ D!Down.at = "down" /\ [at |-> "up"].at = "up"
    /\ \A s \in ProcStates :
          /\ s.at \in {"down", "up", "init", "read", "baseline", "script", "record", "check", "restore", "late"}
          /\ s.at \notin {"down", "up"} => s \in D!Start
    /\ \A s \in D!Start : s.at \notin {"down", "up"} /\ s \in ProcStates
<1>1. D!Down.at = "down" /\ [at |-> "up"].at = "up"
  BY DEF D!Down
<1>2. \A s \in D!Start : s.at \in {"init", "read", "baseline", "script", "record", "check", "restore", "late"}
  BY DEF D!Start
<1> QED BY <1>1, <1>2 DEF ProcStates

LEMMA StartFacts ==
    ASSUME NEW s \in D!Start
    PROVE  /\ s.backup \in D!Stamps \cup {0} /\ s.before \in D!Contents /\ s.todo \subseteq Migrations
           /\ s.conn \in D!Files \cup {0}
           /\ \A step \in {"init", "read", "baseline", "script", "record", "check", "restore", "late"} :
                 LET next == [s EXCEPT !.at = step]
                 IN /\ next \in D!Start /\ next.at = step /\ next.backup = s.backup
                    /\ next.before = s.before /\ next.clean = s.clean /\ next.conn = s.conn
                    /\ next.todo = s.todo
BY DEF D!Start

\* What a step of another does to a start: it may not be alone any more.
Alike(q) ==
    /\ proc'[q].at = proc[q].at
    /\ D!Starting(q) =>
          /\ proc'[q].backup = proc[q].backup /\ proc'[q].before = proc[q].before
          /\ proc'[q].conn = proc[q].conn /\ proc'[q].todo = proc[q].todo
          /\ proc'[q].clean => proc[q].clean

LEMMA OneMoves ==
    ASSUME proc \in [Processes -> ProcStates], NEW p \in Processes, NEW next,
           next \in [Processes -> ProcStates], \A q \in Processes \ {p} : next[q] = proc[q],
           proc' = next \/ proc' = D!Touched(p, next)
    PROVE  /\ proc' \in [Processes -> ProcStates] /\ proc'[p] = next[p]
           /\ \A q \in Processes \ {p} : Alike(q)
<1>1. ASSUME proc' = next PROVE proc' \in [Processes -> ProcStates] /\ proc'[p] = next[p]
  BY <1>1
<1>2. ASSUME proc' = next, NEW q \in Processes \ {p} PROVE Alike(q)
  BY <1>2 DEF Alike
<1>3. ASSUME proc' = D!Touched(p, next)
      PROVE  /\ proc' \in [Processes -> ProcStates] /\ proc'[p] = next[p]
             /\ \A q \in Processes \ {p} : Alike(q)
  <2>1. /\ DOMAIN proc' = Processes /\ proc'[p] = next[p]
        /\ proc' = [q \in Processes |-> proc'[q]]
    BY <1>3 DEF D!Touched
  <2>2. ASSUME NEW q \in Processes \ {p} PROVE proc'[q] \in ProcStates /\ Alike(q)
    <3>1. CASE D!Starting(q)
      <4>1. proc[q] \in D!Start
        BY <3>1, ProcFacts DEF D!Starting
      <4>2. proc'[q] = [proc[q] EXCEPT !.clean = FALSE]
        BY <1>3, <3>1 DEF D!Touched
      <4>3. /\ proc'[q] \in D!Start /\ proc'[q].at = proc[q].at /\ proc'[q].backup = proc[q].backup
            /\ proc'[q].before = proc[q].before /\ ~proc'[q].clean /\ proc'[q].conn = proc[q].conn
            /\ proc'[q].todo = proc[q].todo
        BY <4>1, <4>2 DEF D!Start
      <4> QED BY <4>3, ProcFacts DEF Alike
    <3>2. CASE ~D!Starting(q)
      <4>1. proc'[q] = proc[q]
        BY <1>3, <3>2 DEF D!Touched
      <4> QED BY <3>2, <4>1 DEF Alike
    <3> QED BY <3>1, <3>2
  <2> QED BY <2>1, <2>2
<1> QED BY <1>1, <1>2, <1>3

\* A file is opened, or written.
LEMMA OpenFacts ==
    ASSUME path \in D!Files \cup {0}, made \in D!Files \cup {0}, D!Open
    PROVE  path' \in D!Files /\ made' \in D!Files \cup {0} /\ path' = D!Opened /\ D!Opened \in D!Files
BY SchemaFacts DEF D!Open, D!Opened

LEMMA PutFacts ==
    ASSUME file \in [D!Files -> D!Contents], NEW o \in D!Files, NEW c \in D!Contents,
           file' = [file EXCEPT ![o] = c]
    PROVE  /\ file' \in [D!Files -> D!Contents] /\ file'[o] = c
           /\ \A f \in D!Files \ {o} : file'[f] = file[f]
OBVIOUS

LEMMA SchemaInit == D!Init => SchemaTypes /\ BackedUp /\ RecordedWhole
<1> SUFFICES ASSUME D!Init PROVE SchemaTypes /\ BackedUp /\ RecordedWhole
  OBVIOUS
<1>1. /\ path = IF file[1] = D!Empty THEN 0 ELSE 1
      /\ made = path /\ backups = [t \in D!Stamps |-> D!Down] /\ stamp = 0
      /\ proc = [p \in Processes |-> D!Down] /\ starts = 0 /\ rows = 0 /\ schemaFaults = 0
  BY DEF D!Init
<1>2. file \in [D!Files -> D!Contents] /\ \A f \in D!Files : Whole(file[f])
  <2> DEFINE fresh == [f \in D!Files |-> D!Empty]
  <2> DEFINE old == [D!Empty EXCEPT !.tables = {D!Baseline}]
  <2> DEFINE new == [[D!Empty EXCEPT !.tables = Migrations] EXCEPT !.recorded = Migrations]
  <2>1. old \in D!Contents /\ Whole(old) /\ new \in D!Contents /\ Whole(new)
    <3>1. D!Empty.recorded = {} /\ {D!Baseline} \in SUBSET Migrations /\ Migrations \in SUBSET Migrations
      BY SchemaFacts DEF D!Empty
    <3>2. old \in D!Contents /\ old.tables = {D!Baseline} /\ old.recorded = {}
      BY <3>1, SchemaFacts, ContentFacts
    <3>3. /\ [D!Empty EXCEPT !.tables = Migrations] \in D!Contents
          /\ [D!Empty EXCEPT !.tables = Migrations].tables = Migrations
      BY <3>1, SchemaFacts, ContentFacts
    <3>4. new \in D!Contents /\ new.tables = Migrations /\ new.recorded = Migrations
      BY <3>1, <3>3, ContentFacts
    <3> HIDE DEF old, new
    <3> QED BY <3>2, <3>4 DEF Whole
  <2>2. \/ file = fresh
        \/ file = [fresh EXCEPT ![1] = old]
        \/ file = [fresh EXCEPT ![1] = new]
    BY SchemaFacts DEF D!Init, D!Empty
  <2> HIDE DEF old, new
  <2> QED BY <2>1, <2>2, SchemaFacts
<1>3. \A p \in Processes : proc[p] = D!Down /\ proc[p].at = "down"
  BY <1>1, ProcFacts
<1>4. SchemaTypes
  BY <1>1, <1>2, <1>3, SchemaFacts, ProcFacts DEF SchemaTypes
<1>5. BackedUp
  BY <1>3 DEF BackedUp, D!Starting
<1>6. RecordedWhole
  BY <1>1, <1>2, <1>3 DEF RecordedWhole
<1> QED BY <1>4, <1>5, <1>6

\* A step while every start that fails is alone keeps the three parts; without
\* that condition it keeps the first two.
LEMMA SchemaStepInv ==
    ASSUME SchemaTypes, BackedUp, [D!Next]_(D!vars)
    PROVE  /\ SchemaTypes' /\ BackedUp'
           /\ RecordedWhole /\ D!RestoresAlone => RecordedWhole'
<1> DEFINE Goal == /\ SchemaTypes' /\ BackedUp'
                   /\ RecordedWhole /\ D!RestoresAlone => RecordedWhole'
<1> SUFFICES Goal
  OBVIOUS
<1>0. /\ path \in D!Files \cup {0} /\ made \in D!Files \cup {0}
      /\ file \in [D!Files -> D!Contents]
      /\ backups \in [D!Stamps -> D!Contents \cup {D!Down}]
      /\ proc \in [Processes -> ProcStates]
      /\ starts \in 0 .. MaxStarts /\ rows \in 0 .. MaxRows /\ schemaFaults \in 0 .. MaxSchemaFaults
      /\ stamp \in Nat /\ stamp <= starts
      /\ \A p \in Processes : proc[p].at \in {"baseline", "script", "record"} => proc[p].conn \in D!Files
      /\ \A p \in Processes : proc[p].at = "record" => proc[p].todo # {}
      /\ \A t \in D!Stamps : backups[t] # D!Down => t <= stamp
  BY DEF SchemaTypes
\* Types, when neither backups nor bounds move.
<1>1. ASSUME backups' = backups, stamp' = stamp, starts' = starts,
             path' \in D!Files \cup {0}, made' \in D!Files \cup {0}, file' \in [D!Files -> D!Contents],
             rows' \in 0 .. MaxRows, schemaFaults' \in 0 .. MaxSchemaFaults,
             NEW p \in Processes, proc' \in [Processes -> ProcStates],
             \A q \in Processes \ {p} : Alike(q),
             proc'[p].at \in {"baseline", "script", "record"} => proc'[p].conn \in D!Files,
             proc'[p].at = "record" => proc'[p].todo # {}
      PROVE  SchemaTypes'
  <2>1. ASSUME NEW q \in Processes
        PROVE  /\ proc'[q].at \in {"baseline", "script", "record"} => proc'[q].conn \in D!Files
               /\ proc'[q].at = "record" => proc'[q].todo # {}
    <3>1. CASE q = p
      BY <1>1, <3>1
    <3>2. CASE q # p
      BY <1>0, <1>1, <3>2 DEF Alike, D!Starting
    <3> QED BY <3>1, <3>2
  <2> QED BY <1>0, <1>1, <2>1 DEF SchemaTypes
\* Backups, when no start is made and the one that moves keeps what it noted.
<1>2. ASSUME backups' = backups, NEW p \in Processes, \A q \in Processes \ {p} : Alike(q),
             D!Starting(p)' => /\ D!Starting(p) /\ proc'[p].backup = proc[p].backup
                               /\ proc'[p].before = proc[p].before /\ (proc'[p].clean => proc[p].clean)
      PROVE  BackedUp'
  <2>1. ASSUME NEW q \in Processes, D!Starting(q)', proc'[q].clean
        PROVE  /\ D!Starting(q) /\ proc[q].clean
               /\ proc'[q].backup = proc[q].backup /\ proc'[q].before = proc[q].before
    <3>1. CASE q = p
      BY <1>2, <2>1, <3>1
    <3>2. CASE q # p
      BY <1>2, <2>1, <3>2 DEF Alike, D!Starting
    <3> QED BY <3>1, <3>2
  <2> QED BY <1>2, <2>1 DEF BackedUp
\* Records, when files only gain and the one that moves is not about to record.
<1>3. ASSUME backups' = backups, NEW p \in Processes, \A q \in Processes \ {p} : Alike(q),
             proc'[p].at # "record", RecordedWhole,
             \A f \in D!Files : Whole(file'[f]) /\ file[f].tables \subseteq file'[f].tables
      PROVE  RecordedWhole'
  <2>1. ASSUME NEW q \in Processes, proc'[q].at = "record"
        PROVE  D!Version(q)' \in file'[proc'[q].conn].tables
    <3>1. q # p /\ proc[q].at = "record" /\ proc'[q].conn = proc[q].conn /\ proc'[q].todo = proc[q].todo
      BY <1>3, <2>1 DEF Alike, D!Starting
    <3>2. D!Version(q)' = D!Version(q) /\ proc[q].conn \in D!Files
      BY <1>0, <3>1 DEF D!Version
    <3> QED BY <1>3, <3>1, <3>2 DEF RecordedWhole
  <2>2. \A t \in D!Stamps : backups'[t] # D!Down => Whole(backups'[t])
    BY <1>3 DEF RecordedWhole
  <2> QED BY <1>3, <2>1, <2>2 DEF RecordedWhole
\* No file is written.
<1>4. ASSUME backups' = backups, stamp' = stamp, starts' = starts, file' = file, rows' = rows,
             path' \in D!Files \cup {0}, made' \in D!Files \cup {0}, schemaFaults' \in 0 .. MaxSchemaFaults,
             NEW p \in Processes, proc' \in [Processes -> ProcStates],
             \A q \in Processes \ {p} : Alike(q),
             proc'[p].at # "record",
             proc'[p].at \in {"baseline", "script"} => proc'[p].conn \in D!Files,
             D!Starting(p)' => /\ D!Starting(p) /\ proc'[p].backup = proc[p].backup
                               /\ proc'[p].before = proc[p].before /\ (proc'[p].clean => proc[p].clean)
      PROVE  Goal
  <2>1. SchemaTypes'
    <3>1. /\ file' \in [D!Files -> D!Contents] /\ rows' \in 0 .. MaxRows
          /\ proc'[p].at \in {"baseline", "script", "record"} => proc'[p].conn \in D!Files
          /\ proc'[p].at = "record" => proc'[p].todo # {}
      BY <1>0, <1>4
    <3> QED BY <1>1, <1>4, <3>1
  <2>2. BackedUp'
    BY <1>2, <1>4
  <2>3. ASSUME RecordedWhole PROVE RecordedWhole'
    <3>1. \A f \in D!Files : Whole(file'[f]) /\ file[f].tables \subseteq file'[f].tables
      BY <1>4, <2>3 DEF RecordedWhole
    <3> QED BY <1>3, <1>4, <2>3, <3>1
  <2> QED BY <2>1, <2>2, <2>3
\* One file gets more tables or records, and keeps its records whole.
<1>5. ASSUME backups' = backups, stamp' = stamp, starts' = starts, schemaFaults' = schemaFaults,
             path' \in D!Files \cup {0}, made' \in D!Files \cup {0}, rows' \in 0 .. MaxRows,
             NEW p \in Processes, proc' \in [Processes -> ProcStates],
             \A q \in Processes \ {p} : Alike(q),
             NEW o \in D!Files, NEW c \in D!Contents, file' = [file EXCEPT ![o] = c],
             file[o].tables \subseteq c.tables, RecordedWhole => Whole(c),
             proc'[p].at # "record",
             proc'[p].at \in {"baseline", "script"} => proc'[p].conn \in D!Files,
             D!Starting(p)' => /\ D!Starting(p) /\ proc'[p].backup = proc[p].backup
                               /\ proc'[p].before = proc[p].before /\ (proc'[p].clean => proc[p].clean)
      PROVE  Goal
  <2>1. /\ file' \in [D!Files -> D!Contents] /\ file'[o] = c
        /\ \A f \in D!Files \ {o} : file'[f] = file[f]
    BY <1>0, <1>5, PutFacts
  <2>2. SchemaTypes'
    <3>1. /\ schemaFaults' \in 0 .. MaxSchemaFaults
          /\ proc'[p].at \in {"baseline", "script", "record"} => proc'[p].conn \in D!Files
          /\ proc'[p].at = "record" => proc'[p].todo # {}
      BY <1>0, <1>5
    <3> QED BY <1>1, <1>5, <2>1, <3>1
  <2>3. BackedUp'
    BY <1>2, <1>5
  <2>4. ASSUME RecordedWhole PROVE RecordedWhole'
    <3>1. \A f \in D!Files : Whole(file'[f]) /\ file[f].tables \subseteq file'[f].tables
      BY <1>5, <2>1, <2>4 DEF RecordedWhole
    <3> QED BY <1>3, <1>5, <2>4, <3>1
  <2> QED BY <2>2, <2>3, <2>4
\* Going to another step leaves the rest of a start.
<1>6. ASSUME NEW p \in Processes, D!Starting(p), NEW next,
             NEW step \in {"init", "read", "baseline", "script", "record", "check", "restore", "late"},
             next = D!Goto(p, step), proc' = next \/ proc' = D!Touched(p, next)
      PROVE  /\ proc' \in [Processes -> ProcStates] /\ \A q \in Processes \ {p} : Alike(q)
             /\ proc'[p].at = step /\ proc'[p].backup = proc[p].backup
             /\ proc'[p].before = proc[p].before /\ proc'[p].clean = proc[p].clean
             /\ proc'[p].conn = proc[p].conn /\ proc'[p].todo = proc[p].todo
  <2>1. proc[p] \in D!Start
    BY <1>0, <1>6, ProcFacts DEF D!Starting
  <2> DEFINE s == [proc[p] EXCEPT !.at = step]
  <2>2. /\ s \in D!Start /\ s.at = step /\ s.backup = proc[p].backup
        /\ s.before = proc[p].before /\ s.clean = proc[p].clean /\ s.conn = proc[p].conn
        /\ s.todo = proc[p].todo
    BY <2>1 DEF D!Start
  <2>3. next = [proc EXCEPT ![p] = s]
    BY <1>6 DEF D!Goto
  <2> HIDE DEF s
  <2>4. /\ next \in [Processes -> ProcStates] /\ next[p] = s
        /\ \A q \in Processes \ {p} : next[q] = proc[q]
    BY <1>0, <2>2, <2>3, ProcFacts
  <2> QED BY <1>0, <1>6, <2>2, <2>4, OneMoves
\* Going down or up.
<1>7. ASSUME NEW p \in Processes, NEW s \in {D!Down, [at |-> "up"]}, NEW next,
             next = [proc EXCEPT ![p] = s], proc' = next \/ proc' = D!Touched(p, next)
      PROVE  /\ proc' \in [Processes -> ProcStates] /\ \A q \in Processes \ {p} : Alike(q)
             /\ proc'[p] = s /\ proc'[p].at \in {"down", "up"} /\ ~D!Starting(p)'
  <2>1. s \in ProcStates /\ s.at \in {"down", "up"}
    BY ProcFacts
  <2>2. /\ next \in [Processes -> ProcStates] /\ next[p] = s
        /\ \A q \in Processes \ {p} : next[q] = proc[q]
    BY <1>0, <1>7, <2>1
  <2> QED BY <1>0, <1>7, <2>1, <2>2, OneMoves DEF D!Starting
<1>8. ASSUME NEW p \in Processes, D!Backup(p) PROVE Goal
  <2>1. PICK s \in {stamp, stamp + 1} \ {0} :
           LET none  == D!AtPath = D!Empty
               all   == {t \in D!Stamps : backups[t] # D!Down} \cup {s}
               begin == [at |-> "init", backup |-> IF none THEN 0 ELSE s, before |-> D!AtPath,
                         clean |-> TRUE, conn |-> 0, todo |-> {}]
               gone(q) == D!Starting(q) /\ proc[q].backup \in {s} \cup (all \ D!Kept(all))
           IN /\ stamp' = IF none THEN stamp ELSE s
              /\ backups' = IF none THEN backups
                            ELSE [t \in D!Stamps |-> IF t \notin D!Kept(all) THEN D!Down
                                                     ELSE IF t = s THEN D!AtPath ELSE backups[t]]
              /\ proc' = [q \in Processes |->
                             IF q = p THEN begin
                             ELSE IF ~none /\ gone(q) THEN [proc[q] EXCEPT !.clean = FALSE]
                             ELSE proc[q]]
    BY <1>8 DEF D!Backup
  <2>2. /\ proc[p].at = "down" /\ starts < MaxStarts /\ starts' = starts + 1
        /\ UNCHANGED <<path, made, file, rows, schemaFaults>>
    BY <1>8 DEF D!Backup, D!At
  <2> DEFINE none == D!AtPath = D!Empty
  <2> DEFINE all == {t \in D!Stamps : backups[t] # D!Down} \cup {s}
  <2> DEFINE gone(q) == D!Starting(q) /\ proc[q].backup \in {s} \cup (all \ D!Kept(all))
  <2> DEFINE begin == [at |-> "init", backup |-> IF none THEN 0 ELSE s, before |-> D!AtPath,
                       clean |-> TRUE, conn |-> 0, todo |-> {}]
  <2>3. s \in D!Stamps /\ s \in Nat /\ stamp <= s /\ s <= starts + 1
    BY <1>0, <2>2, SchemaFacts DEF D!Stamps
  <2>4. /\ stamp' = IF none THEN stamp ELSE s
        /\ backups' = IF none THEN backups
                      ELSE [t \in D!Stamps |-> IF t \notin D!Kept(all) THEN D!Down
                                               ELSE IF t = s THEN D!AtPath ELSE backups[t]]
        /\ proc' = [q \in Processes |->
                       IF q = p THEN begin
                       ELSE IF ~none /\ gone(q) THEN [proc[q] EXCEPT !.clean = FALSE]
                       ELSE proc[q]]
    BY <2>1
  <2>5. D!AtPath \in D!Contents
    BY <1>0, SchemaFacts DEF D!AtPath
  \* The newest is kept.
  <2>6. s \in D!Kept(all) /\ D!Kept(all) \subseteq all
    <3>1. \A t \in all : ~(t > s)
      <4>1. ASSUME NEW t \in D!Stamps, backups[t] # D!Down PROVE ~(t > s)
        <5>1. t \in Nat /\ t <= stamp
          BY <1>0, <4>1 DEF D!Stamps
        <5> QED BY <1>0, <2>3, <5>1
      <4> QED BY <2>3, <4>1
    <3>2. {t \in all : t > s} = {}
      BY <3>1
    <3>3. D!Cardinality({}) = 0
      BY FS_EmptySet DEF D!Cardinality, Cardinality
    <3>4. 0 < Keep
      BY SchemaFacts
    <3> HIDE DEF all
    <3>5. s \in all
      BY DEF all
    <3> QED BY <3>2, <3>3, <3>4, <3>5 DEF D!Kept
  <2>7. begin \in D!Start /\ begin.at = "init" /\ begin.backup = (IF none THEN 0 ELSE s)
        /\ begin.before = D!AtPath
    BY <2>3, <2>5, SchemaFacts DEF D!Start
  <2> HIDE DEF begin
  <2>8. /\ DOMAIN proc' = Processes /\ proc' = [q \in Processes |-> proc'[q]] /\ proc'[p] = begin
        /\ \A q \in Processes \ {p} :
              proc'[q] = IF ~none /\ gone(q) THEN [proc[q] EXCEPT !.clean = FALSE] ELSE proc[q]
    BY <2>4
  <2>9. ASSUME NEW q \in Processes \ {p}
        PROVE  Alike(q) /\ proc'[q] \in ProcStates /\ (~none /\ gone(q) => ~proc'[q].clean)
    <3>1. CASE ~none /\ gone(q)
      <4>1. proc[q] \in D!Start /\ D!Starting(q)
        BY <1>0, <3>1, ProcFacts DEF D!Starting
      <4>2. proc'[q] = [proc[q] EXCEPT !.clean = FALSE]
        BY <2>8, <3>1
      <4>3. /\ proc'[q] \in D!Start /\ proc'[q].at = proc[q].at /\ proc'[q].backup = proc[q].backup
            /\ proc'[q].before = proc[q].before /\ ~proc'[q].clean /\ proc'[q].conn = proc[q].conn
            /\ proc'[q].todo = proc[q].todo
        BY <4>1, <4>2 DEF D!Start
      <4> QED BY <4>3, ProcFacts DEF Alike
    <3>2. CASE ~(~none /\ gone(q))
      <4>1. proc'[q] = proc[q]
        BY <2>8, <3>2
      <4> QED BY <1>0, <3>2, <4>1 DEF Alike
    <3> QED BY <3>1, <3>2
  <2>10. proc' \in [Processes -> ProcStates]
    BY <2>7, <2>8, <2>9, ProcFacts
  \* What becomes of a backup.
  <2>11. ASSUME NEW t \in D!Stamps
         PROVE  /\ backups'[t] \in {D!Down, D!AtPath, backups[t]}
                /\ backups'[t] = D!AtPath \/ backups'[t] \in {D!Down, backups[t]}
                /\ ~none => backups'[s] = D!AtPath
                /\ ~none /\ t \in D!Kept(all) /\ t # s => backups'[t] = backups[t]
                /\ none => backups'[t] = backups[t]
                /\ backups'[t] # D!Down /\ t # s => backups[t] # D!Down
    BY <2>3, <2>4, <2>6
  <2>12. SchemaTypes'
    <3>1. ASSUME NEW q \in Processes
          PROVE  /\ proc'[q].at \in {"baseline", "script", "record"} => proc'[q].conn \in D!Files
                 /\ proc'[q].at = "record" => proc'[q].todo # {}
      <4>1. CASE q = p
        BY <2>7, <2>8, <4>1
      <4>2. CASE q # p
        BY <1>0, <2>9, <4>2 DEF Alike, D!Starting
      <4> QED BY <4>1, <4>2
    <3>2. backups' \in [D!Stamps -> D!Contents \cup {D!Down}]
      <4>1. CASE none
        BY <1>0, <2>4, <4>1
      <4>2. CASE ~none
        BY <1>0, <2>4, <2>5, <4>2
      <4> QED BY <4>1, <4>2
    <3>3. ASSUME NEW t \in D!Stamps, backups'[t] # D!Down PROVE t <= stamp'
      <4>0. t \in Nat
        BY DEF D!Stamps
      <4>1. CASE none
        BY <1>0, <2>4, <3>3, <4>1
      <4>2. CASE ~none /\ t = s
        BY <2>3, <2>4, <4>2
      <4>3. CASE ~none /\ t # s
        <5>1. t <= stamp /\ stamp' = s
          BY <1>0, <2>4, <2>11, <3>3, <4>3
        <5> QED BY <1>0, <2>3, <4>0, <5>1
      <4> QED BY <4>1, <4>2, <4>3
    <3>4. stamp' \in Nat /\ stamp' <= starts' /\ starts' \in 0 .. MaxStarts
      BY <1>0, <2>2, <2>3, <2>4, SchemaFacts
    <3> QED BY <1>0, <2>2, <2>10, <3>1, <3>2, <3>3, <3>4 DEF SchemaTypes
  <2>13. BackedUp'
    <3> SUFFICES ASSUME NEW q \in Processes, D!Starting(q)', proc'[q].clean
                 PROVE  /\ proc'[q].backup = 0 => proc'[q].before = D!Empty
                        /\ proc'[q].backup # 0 => backups'[proc'[q].backup] = proc'[q].before
      BY DEF BackedUp
    <3>1. CASE q = p
      BY <2>3, <2>7, <2>8, <2>11, <3>1, SchemaFacts
    <3>2. CASE q # p
      <4>1. /\ D!Starting(q) /\ proc[q].clean /\ (none \/ ~gone(q))
            /\ proc'[q].backup = proc[q].backup /\ proc'[q].before = proc[q].before
        BY <2>9, <3>2 DEF Alike, D!Starting
      <4>2. /\ proc[q].backup = 0 => proc[q].before = D!Empty
            /\ proc[q].backup # 0 => backups[proc[q].backup] = proc[q].before
        BY <4>1 DEF BackedUp
      <4>3. proc[q].backup \in D!Stamps \cup {0} /\ proc[q].before \in D!Contents
        <5>1. proc[q] \in D!Start
          BY <1>0, <4>1, ProcFacts DEF D!Starting
        <5> QED BY <5>1, StartFacts
      <4>4. ASSUME proc[q].backup # 0 PROVE backups'[proc[q].backup] = backups[proc[q].backup]
        <5>1. backups[proc[q].backup] # D!Down
          BY <4>2, <4>3, <4>4, SchemaFacts
        <5>2. proc[q].backup \in all /\ proc[q].backup \in D!Stamps
          BY <4>3, <4>4, <5>1
        <5> QED BY <2>11, <4>1, <5>2
      <4> QED BY <4>1, <4>2, <4>4
    <3> QED BY <3>1, <3>2
  <2>14. ASSUME RecordedWhole PROVE RecordedWhole'
    <3>1. Whole(D!AtPath)
      BY <1>0, <2>14, SchemaFacts DEF RecordedWhole, D!AtPath
    <3>2. \A t \in D!Stamps : backups'[t] # D!Down => Whole(backups'[t])
      BY <2>11, <2>14, <3>1 DEF RecordedWhole
    <3>3. ASSUME NEW q \in Processes, proc'[q].at = "record"
          PROVE  D!Version(q)' \in file'[proc'[q].conn].tables
      <4>1. q # p
        BY <2>7, <2>8, <3>3
      <4>2. proc[q].at = "record" /\ proc'[q].conn = proc[q].conn /\ proc'[q].todo = proc[q].todo
        BY <2>9, <3>3, <4>1 DEF Alike, D!Starting
      <4> QED BY <2>2, <2>14, <4>2 DEF RecordedWhole, D!Version
    <3>4. \A f \in D!Files : Whole(file'[f])
      BY <2>2, <2>14 DEF RecordedWhole
    <3> QED BY <3>2, <3>3, <3>4 DEF RecordedWhole
  <2> QED BY <2>12, <2>13, <2>14
<1>9. ASSUME NEW p \in Processes, D!CreateTables(p) PROVE Goal
  <2>1. /\ D!Starting(p) /\ D!Open /\ UNCHANGED <<backups, stamp, starts, rows, schemaFaults>>
        /\ file' = [file EXCEPT ![D!Opened].tables = @ \cup {D!Baseline}]
        /\ proc' = D!Goto(p, "read") \/ proc' = D!Touched(p, D!Goto(p, "read"))
    BY <1>9 DEF D!CreateTables, D!At, D!Starting
  <2>2. path' \in D!Files /\ made' \in D!Files \cup {0} /\ D!Opened \in D!Files
    BY <1>0, <2>1, OpenFacts
  <2> DEFINE base == file[D!Opened]
  <2> DEFINE c == [base EXCEPT !.tables = base.tables \cup {D!Baseline}]
  <2>3. /\ c \in D!Contents /\ c.tables = base.tables \cup {D!Baseline} /\ c.recorded = base.recorded
    <3>1. base \in D!Contents /\ D!Baseline \in Migrations
      BY <1>0, <2>2, SchemaFacts
    <3> HIDE DEF base
    <3> QED BY <3>1 DEF D!Contents
  <2>4. file' = [file EXCEPT ![D!Opened] = c]
    BY <1>0, <2>1, <2>2
  <2> HIDE DEF c
  <2>5. RecordedWhole => Whole(c)
    BY <2>2, <2>3 DEF RecordedWhole, Whole
  <2>6. /\ proc' \in [Processes -> ProcStates] /\ \A q \in Processes \ {p} : Alike(q)
        /\ proc'[p].at = "read" /\ proc'[p].backup = proc[p].backup
        /\ proc'[p].before = proc[p].before /\ proc'[p].clean = proc[p].clean
    BY <1>6, <2>1
  <2>7. /\ path' \in D!Files \cup {0} /\ rows' \in 0 .. MaxRows /\ base.tables \subseteq c.tables
        /\ proc'[p].at \notin {"baseline", "script", "record"}
    BY <1>0, <2>1, <2>2, <2>3, <2>6
  <2> QED BY <1>5, <2>1, <2>2, <2>3, <2>4, <2>5, <2>6, <2>7
<1>10. ASSUME NEW p \in Processes, D!ReadRecorded(p) PROVE Goal
  <2>1. /\ D!Starting(p) /\ D!Open /\ UNCHANGED <<file, backups, stamp, starts, rows, schemaFaults>>
        /\ proc' = [proc EXCEPT ![p].at = IF file[D!Opened].recorded = {} THEN "baseline" ELSE "script",
                                ![p].conn = D!Opened,
                                ![p].todo = Migrations \ (file[D!Opened].recorded \cup {D!Baseline})]
    BY <1>10 DEF D!ReadRecorded, D!At, D!Starting
  <2>2. path' \in D!Files /\ made' \in D!Files \cup {0} /\ D!Opened \in D!Files
    BY <1>0, <2>1, OpenFacts
  <2>3. proc[p] \in D!Start
    BY <1>0, <2>1, ProcFacts DEF D!Starting
  <2>4. /\ proc'[p] \in D!Start /\ proc'[p].at \in {"baseline", "script"} /\ proc'[p].conn = D!Opened
        /\ proc'[p].backup = proc[p].backup /\ proc'[p].before = proc[p].before
        /\ proc'[p].clean = proc[p].clean
    BY <1>0, <2>1, <2>2, <2>3 DEF D!Start
  <2>5. proc' \in [Processes -> ProcStates] /\ \A q \in Processes \ {p} : proc'[q] = proc[q]
    BY <1>0, <2>1, <2>4, ProcFacts
  <2>6. \A q \in Processes \ {p} : Alike(q)
    BY <1>0, <2>5, OneMoves
  <2>7. /\ path' \in D!Files \cup {0} /\ schemaFaults' \in 0 .. MaxSchemaFaults
        /\ proc'[p].at # "record"
    BY <1>0, <2>1, <2>2, <2>4
  <2> QED BY <1>4, <2>1, <2>2, <2>4, <2>5, <2>6, <2>7
<1>11. ASSUME NEW p \in Processes, D!RecordBaseline(p) PROVE Goal
  <2>1. /\ D!Starting(p) /\ proc[p].conn \in D!Files
        /\ UNCHANGED <<path, made, backups, stamp, starts, rows, schemaFaults>>
    BY <1>0, <1>11 DEF D!RecordBaseline, D!At, D!Starting
  <2>2. CASE D!Baseline \in D!Mine(p).recorded
    <3>1. proc' = D!Goto(p, "restore") /\ file' = file
      BY <1>11, <2>2 DEF D!RecordBaseline
    <3>2. /\ proc' \in [Processes -> ProcStates] /\ \A q \in Processes \ {p} : Alike(q)
          /\ proc'[p].at = "restore" /\ proc'[p].backup = proc[p].backup
          /\ proc'[p].before = proc[p].before /\ proc'[p].clean = proc[p].clean
      BY <1>6, <2>1, <3>1
    <3> QED BY <1>0, <1>4, <2>1, <3>1, <3>2
  <2>3. CASE D!Baseline \notin D!Mine(p).recorded
    <3>1. /\ file' = [file EXCEPT ![proc[p].conn].recorded = @ \cup {D!Baseline}]
          /\ proc' = D!Touched(p, D!Goto(p, "script"))
      BY <1>11, <2>3 DEF D!RecordBaseline
    <3> DEFINE base == file[proc[p].conn]
    <3> DEFINE c == [base EXCEPT !.recorded = base.recorded \cup {D!Baseline}]
    <3>2. c \in D!Contents /\ c.tables = base.tables /\ c.recorded = base.recorded \cup {D!Baseline}
      <4>1. base \in D!Contents /\ D!Baseline \in Migrations
        BY <1>0, <2>1, SchemaFacts
      <4> HIDE DEF base
      <4> QED BY <4>1 DEF D!Contents
    <3>3. file' = [file EXCEPT ![proc[p].conn] = c]
      BY <1>0, <2>1, <3>1
    <3> HIDE DEF c
    <3>4. RecordedWhole => Whole(c)
      BY <2>1, <3>2 DEF RecordedWhole, Whole
    <3>5. /\ proc' \in [Processes -> ProcStates] /\ \A q \in Processes \ {p} : Alike(q)
          /\ proc'[p].at = "script" /\ proc'[p].backup = proc[p].backup
          /\ proc'[p].before = proc[p].before /\ proc'[p].clean = proc[p].clean
          /\ proc'[p].conn = proc[p].conn
      BY <1>6, <2>1, <3>1
    <3> QED BY <1>0, <1>5, <2>1, <3>2, <3>3, <3>4, <3>5
  <2> QED BY <2>2, <2>3
<1>12. ASSUME NEW p \in Processes, D!RunScript(p) PROVE Goal
  <2>1. /\ D!Starting(p) /\ proc[p].conn \in D!Files /\ proc[p].todo # {}
        /\ UNCHANGED <<path, made, backups, stamp, starts, rows, schemaFaults>>
        /\ file' = [file EXCEPT ![proc[p].conn].tables = @ \cup {D!Version(p)}]
        /\ proc' = D!Touched(p, D!Goto(p, "record"))
    BY <1>0, <1>12 DEF D!RunScript, D!At, D!Starting
  <2>2. D!Version(p) \in Migrations
    <3>1. proc[p] \in D!Start
      BY <1>0, <2>1, ProcFacts DEF D!Starting
    <3> QED BY <2>1, <3>1, StartFacts, SchemaFacts DEF D!Version
  <2> DEFINE o == proc[p].conn
  <2> DEFINE base == file[o]
  <2> DEFINE c == [base EXCEPT !.tables = base.tables \cup {D!Version(p)}]
  <2>3. c \in D!Contents /\ c.tables = base.tables \cup {D!Version(p)} /\ c.recorded = base.recorded
    <3>1. base \in D!Contents /\ D!Version(p) \in Migrations
      BY <1>0, <2>1, <2>2
    <3> HIDE DEF base, o
    <3> QED BY <3>1 DEF D!Contents
  <2>4. file' = [file EXCEPT ![o] = c]
    BY <1>0, <2>1
  <2> HIDE DEF c
  <2>5. /\ file' \in [D!Files -> D!Contents] /\ file'[o] = c
        /\ \A f \in D!Files \ {o} : file'[f] = file[f]
    BY <1>0, <2>1, <2>3, <2>4, PutFacts
  <2>6. /\ proc' \in [Processes -> ProcStates] /\ \A q \in Processes \ {p} : Alike(q)
        /\ proc'[p].at = "record" /\ proc'[p].backup = proc[p].backup
        /\ proc'[p].before = proc[p].before /\ proc'[p].clean = proc[p].clean
        /\ proc'[p].conn = proc[p].conn /\ proc'[p].todo = proc[p].todo
    BY <1>6, <2>1
  <2>7. SchemaTypes'
    BY <1>0, <1>1, <2>1, <2>5, <2>6
  <2>8. BackedUp'
    BY <1>2, <2>1, <2>6
  <2>9. ASSUME RecordedWhole PROVE RecordedWhole'
    <3>1. \A f \in D!Files : Whole(file'[f]) /\ file[f].tables \subseteq file'[f].tables
      BY <2>1, <2>3, <2>5, <2>9 DEF RecordedWhole, Whole
    <3>2. \A t \in D!Stamps : backups'[t] # D!Down => Whole(backups'[t])
      BY <2>1, <2>9 DEF RecordedWhole
    <3>3. ASSUME NEW q \in Processes, proc'[q].at = "record"
          PROVE  D!Version(q)' \in file'[proc'[q].conn].tables
      <4>1. CASE q = p
        <5>1. D!Version(p)' = D!Version(p)
          BY <2>6 DEF D!Version
        <5> QED BY <2>3, <2>5, <2>6, <4>1, <5>1
      <4>2. CASE q # p
        <5>1. proc[q].at = "record" /\ proc'[q].conn = proc[q].conn /\ proc'[q].todo = proc[q].todo
          BY <2>6, <3>3, <4>2 DEF Alike, D!Starting
        <5>2. D!Version(q)' = D!Version(q) /\ proc[q].conn \in D!Files
          BY <1>0, <5>1 DEF D!Version
        <5> QED BY <2>9, <3>1, <5>1, <5>2 DEF RecordedWhole
      <4> QED BY <4>1, <4>2
    <3> QED BY <3>1, <3>2, <3>3 DEF RecordedWhole
  <2> QED BY <2>7, <2>8, <2>9
<1>13. ASSUME NEW p \in Processes, D!Record(p) PROVE Goal
  <2>1. /\ D!Starting(p) /\ proc[p].at = "record" /\ proc[p].conn \in D!Files /\ proc[p].todo # {}
        /\ UNCHANGED <<path, made, backups, stamp, starts, rows, schemaFaults>>
    BY <1>0, <1>13 DEF D!Record, D!At, D!Starting
  <2>2. proc[p] \in D!Start
    BY <1>0, <2>1, ProcFacts DEF D!Starting
  <2>3. CASE D!Version(p) \in D!Mine(p).recorded
    <3>1. proc' = D!Goto(p, "restore") /\ file' = file
      BY <1>13, <2>3 DEF D!Record
    <3>2. /\ proc' \in [Processes -> ProcStates] /\ \A q \in Processes \ {p} : Alike(q)
          /\ proc'[p].at = "restore" /\ proc'[p].backup = proc[p].backup
          /\ proc'[p].before = proc[p].before /\ proc'[p].clean = proc[p].clean
      BY <1>6, <2>1, <3>1
    <3> QED BY <1>0, <1>4, <2>1, <3>1, <3>2
  <2>4. CASE D!Version(p) \notin D!Mine(p).recorded
    <3> DEFINE next == [proc EXCEPT ![p].at = "script", ![p].todo = @ \ {D!Version(p)}]
    <3> DEFINE base == file[proc[p].conn]
    <3> DEFINE c == [base EXCEPT !.recorded = base.recorded \cup {D!Version(p)}]
    <3> DEFINE s == [proc[p] EXCEPT !.at = "script", !.todo = proc[p].todo \ {D!Version(p)}]
    <3>1. /\ file' = [file EXCEPT ![proc[p].conn].recorded = @ \cup {D!Version(p)}]
          /\ proc' = D!Touched(p, next)
      BY <1>13, <2>4 DEF D!Record
    <3>2. D!Version(p) \in Migrations
      BY <2>1, <2>2, StartFacts, SchemaFacts DEF D!Version
    <3>3. c \in D!Contents /\ c.tables = base.tables /\ c.recorded = base.recorded \cup {D!Version(p)}
      <4>1. base \in D!Contents /\ D!Version(p) \in Migrations
        BY <1>0, <2>1, <3>2
      <4> HIDE DEF base
      <4> QED BY <4>1 DEF D!Contents
    <3>4. file' = [file EXCEPT ![proc[p].conn] = c]
      BY <1>0, <2>1, <3>1
    <3> HIDE DEF c
    <3>5. RecordedWhole => Whole(c)
      BY <2>1, <3>3 DEF RecordedWhole, Whole
    <3>6. /\ s \in D!Start /\ s.at = "script" /\ s.backup = proc[p].backup
          /\ s.before = proc[p].before /\ s.clean = proc[p].clean /\ s.conn = proc[p].conn
      BY <2>2 DEF D!Start
    <3>7. next = [proc EXCEPT ![p] = s]
      BY <1>0
    <3> HIDE DEF s, next
    <3>8. next \in [Processes -> ProcStates] /\ next[p] = s /\ \A q \in Processes \ {p} : next[q] = proc[q]
      BY <1>0, <3>6, <3>7, ProcFacts
    <3>9. proc' \in [Processes -> ProcStates] /\ proc'[p] = s /\ \A q \in Processes \ {p} : Alike(q)
      BY <1>0, <3>1, <3>8, OneMoves
    <3> QED BY <1>0, <1>5, <2>1, <3>3, <3>4, <3>5, <3>6, <3>9
  <2> QED BY <2>3, <2>4
<1>14. ASSUME NEW p \in Processes, D!Migrated(p) \/ D!Checked(p) \/ D!Raise(p) PROVE Goal
  <2>1. PICK step \in {"check", "late", "restore"} : proc' = D!Goto(p, step)
    BY <1>14 DEF D!Migrated, D!Checked, D!Raise
  <2>2. /\ D!Starting(p) /\ UNCHANGED <<path, made, file, backups, stamp, starts, rows>>
        /\ schemaFaults' \in 0 .. MaxSchemaFaults
    BY <1>0, <1>14, SchemaFacts DEF D!Migrated, D!Checked, D!Raise, D!At, D!Starting
  <2>3. /\ proc' \in [Processes -> ProcStates] /\ \A q \in Processes \ {p} : Alike(q)
        /\ proc'[p].at = step /\ proc'[p].backup = proc[p].backup
        /\ proc'[p].before = proc[p].before /\ proc'[p].clean = proc[p].clean
    BY <1>6, <2>1, <2>2
  <2> QED BY <1>0, <1>4, <2>2, <2>3
<1>15. ASSUME NEW p \in Processes, D!Restore(p) PROVE Goal
  <2>1. /\ D!Starting(p) /\ proc[p].at = "restore" /\ UNCHANGED <<backups, stamp, starts, rows, schemaFaults>>
        /\ proc' = D!Touched(p, [proc EXCEPT ![p] = D!Down])
    BY <1>15 DEF D!Restore, D!At, D!Starting
  <2>2. /\ proc' \in [Processes -> ProcStates] /\ \A q \in Processes \ {p} : Alike(q)
        /\ proc'[p].at \in {"down", "up"} /\ ~D!Starting(p)'
    BY <1>7, <2>1
  <2>3. proc[p].backup \in D!Stamps \cup {0}
    <3>1. proc[p] \in D!Start
      BY <1>0, <2>1, ProcFacts DEF D!Starting
    <3> QED BY <3>1, StartFacts
  \* The backup is put at the path, or the file is removed.
  <2>4. /\ path' \in D!Files \cup {0} /\ made' \in D!Files \cup {0} /\ file' \in [D!Files -> D!Contents]
        /\ RecordedWhole => \A f \in D!Files : Whole(file'[f])
    <3>1. CASE proc[p].backup = 0 \/ backups[proc[p].backup] = D!Down
      <4>1. path' = 0 /\ made' = made /\ file' = file
        BY <1>15, <3>1 DEF D!Restore
      <4> QED BY <1>0, <4>1 DEF RecordedWhole
    <3>2. CASE ~(proc[p].backup = 0 \/ backups[proc[p].backup] = D!Down)
      <4> DEFINE c == backups[proc[p].backup]
      <4>1. D!Open /\ file' = [file EXCEPT ![D!Opened] = c]
        BY <1>15, <3>2 DEF D!Restore
      <4>2. c \in D!Contents /\ (RecordedWhole => Whole(c))
        BY <1>0, <2>3, <3>2 DEF RecordedWhole
      <4> HIDE DEF c
      <4>3. path' \in D!Files /\ made' \in D!Files \cup {0} /\ D!Opened \in D!Files
        BY <1>0, <4>1, OpenFacts
      <4>4. /\ file' \in [D!Files -> D!Contents] /\ file'[D!Opened] = c
            /\ \A f \in D!Files \ {D!Opened} : file'[f] = file[f]
        BY <1>0, <4>1, <4>2, <4>3, PutFacts
      <4> QED BY <4>2, <4>3, <4>4 DEF RecordedWhole
    <3> QED BY <3>1, <3>2
  <2>5. SchemaTypes'
    BY <1>0, <1>1, <2>1, <2>2, <2>4
  <2>6. BackedUp'
    BY <1>2, <2>1, <2>2
  \* Nobody else is starting, so nobody is about to record.
  <2>7. ASSUME RecordedWhole, D!RestoresAlone PROVE RecordedWhole'
    <3>1. ASSUME NEW q \in Processes PROVE proc'[q].at # "record"
      <4>1. CASE q = p
        BY <2>2, <4>1
      <4>2. CASE q # p
        <5>1. ~D!Starting(q)
          BY <2>1, <2>7, <4>2 DEF D!RestoresAlone, D!At
        <5> QED BY <2>2, <4>2, <5>1 DEF Alike, D!Starting
      <4> QED BY <4>1, <4>2
    <3>2. \A t \in D!Stamps : backups'[t] # D!Down => Whole(backups'[t])
      BY <2>1, <2>7 DEF RecordedWhole
    <3> QED BY <2>4, <2>7, <3>1, <3>2 DEF RecordedWhole
  <2> QED BY <2>5, <2>6, <2>7
<1>16. ASSUME NEW p \in Processes, D!LateTables(p) PROVE Goal
  <2> DEFINE late == D!Max(Migrations)
  <2> DEFINE base == file[D!Opened]
  <2> DEFINE c == [base EXCEPT !.tables = @ \cup {late},
                               !.recorded = IF @ = {} THEN @ ELSE @ \cup {late}]
  <2> DEFINE next == [proc EXCEPT ![p] = [at |-> "up"]]
  <2>1. /\ D!Open /\ UNCHANGED <<backups, stamp, starts, rows, schemaFaults>>
        /\ file' = [file EXCEPT ![D!Opened] = c]
        /\ proc' = next \/ proc' = D!Touched(p, next)
    BY <1>16 DEF D!LateTables
  <2>2. /\ proc' \in [Processes -> ProcStates] /\ \A q \in Processes \ {p} : Alike(q)
        /\ proc'[p].at \in {"down", "up"} /\ ~D!Starting(p)'
    BY <1>7, <2>1
  <2>3. path' \in D!Files /\ made' \in D!Files \cup {0} /\ D!Opened \in D!Files
    BY <1>0, <2>1, OpenFacts
  <2>4. /\ c \in D!Contents /\ c.tables = base.tables \cup {late}
        /\ c.recorded \subseteq base.recorded \cup {late}
    <3>1. base \in D!Contents /\ late \in Migrations
      BY <1>0, <2>3, SchemaFacts
    <3> HIDE DEF late, base
    <3> QED BY <3>1 DEF D!Contents
  <2> HIDE DEF c, next
  <2>5. RecordedWhole => Whole(c)
    BY <2>3, <2>4 DEF RecordedWhole, Whole
  <2> QED BY <1>0, <1>5, <2>1, <2>2, <2>3, <2>4, <2>5
<1>17. ASSUME NEW p \in Processes, D!Write(p) PROVE Goal
  <2>1. /\ path \in D!Files /\ rows < MaxRows /\ rows' = rows + 1 /\ proc[p].at = "up"
        /\ UNCHANGED <<path, made, backups, stamp, starts, schemaFaults>>
        /\ file' = [file EXCEPT ![path].rows = @ \cup {rows + 1}]
        /\ proc' = D!Touched(p, proc)
    BY <1>0, <1>17 DEF D!Write, D!At
  <2> DEFINE base == file[path]
  <2> DEFINE c == [base EXCEPT !.rows = base.rows \cup {rows + 1}]
  <2>2. rows' \in 0 .. MaxRows /\ rows + 1 \in D!Rows
    BY <1>0, <2>1, SchemaFacts DEF D!Rows
  <2>3. c \in D!Contents /\ c.tables = base.tables /\ c.recorded = base.recorded
    <3>1. base \in D!Contents /\ rows + 1 \in D!Rows
      BY <1>0, <2>1, <2>2
    <3> HIDE DEF base
    <3> QED BY <3>1 DEF D!Contents
  <2>4. file' = [file EXCEPT ![path] = c]
    BY <1>0, <2>1
  <2> HIDE DEF c
  <2>5. RecordedWhole => Whole(c)
    BY <2>1, <2>3 DEF RecordedWhole, Whole
  <2>6. proc' \in [Processes -> ProcStates] /\ proc'[p] = proc[p] /\ \A q \in Processes \ {p} : Alike(q)
    BY <1>0, <2>1, OneMoves
  <2>7. ~D!Starting(p)'
    BY <2>1, <2>6 DEF D!Starting
  <2> QED BY <1>0, <1>5, <2>1, <2>2, <2>3, <2>4, <2>5, <2>6, <2>7
<1>18. ASSUME NEW p \in Processes, D!Exit(p) \/ D!Crash(p) PROVE Goal
  <2>1. /\ UNCHANGED <<path, made, file, backups, stamp, starts, rows>>
        /\ schemaFaults' \in 0 .. MaxSchemaFaults
        /\ proc' = [proc EXCEPT ![p] = D!Down]
    BY <1>0, <1>18, SchemaFacts DEF D!Exit, D!Crash
  <2>2. /\ proc' \in [Processes -> ProcStates] /\ \A q \in Processes \ {p} : Alike(q)
        /\ proc'[p].at \in {"down", "up"} /\ ~D!Starting(p)'
    BY <1>7, <2>1
  <2> QED BY <1>0, <1>4, <2>1, <2>2
<1>19. ASSUME UNCHANGED D!vars PROVE Goal
  <2>1. UNCHANGED <<path, made, file, backups, stamp, proc, starts, rows, schemaFaults>>
    BY <1>19 DEF D!vars
  <2>2. SchemaTypes'
    BY <2>1 DEF SchemaTypes
  <2>3. BackedUp'
    BY <2>1 DEF BackedUp, D!Starting
  <2>4. RecordedWhole => RecordedWhole'
    BY <2>1 DEF RecordedWhole, D!Version
  <2> QED BY <2>2, <2>3, <2>4
<1> QED BY <1>8, <1>9, <1>10, <1>11, <1>12, <1>13, <1>14, <1>15, <1>16, <1>17, <1>18, <1>19 DEF D!Next

\* A failed start that was alone puts back what it found.
LEMMA RestoreStep ==
    ASSUME SchemaTypes, BackedUp, [D!Next]_(D!vars)
    PROVE  [\A p \in Processes :
               D!At(p, "restore") /\ proc[p].clean /\ proc'[p] = D!Down /\ schemaFaults' = schemaFaults
                   => D!AtPath' = proc[p].before]_(D!vars)
<1> SUFFICES ASSUME NEW p \in Processes, proc[p].at = "restore", proc[p].clean,
                    proc'[p] = D!Down, schemaFaults' = schemaFaults, D!Next
             PROVE  D!AtPath' = proc[p].before
  BY DEF D!At
<1>0. /\ path \in D!Files \cup {0} /\ made \in D!Files \cup {0}
      /\ file \in [D!Files -> D!Contents]
      /\ backups \in [D!Stamps -> D!Contents \cup {D!Down}]
      /\ proc \in [Processes -> ProcStates] /\ schemaFaults \in 0 .. MaxSchemaFaults
  BY DEF SchemaTypes
<1>1. D!Starting(p) /\ proc[p] \in D!Start /\ proc[p].backup \in D!Stamps \cup {0}
      /\ proc[p].before \in D!Contents
  BY <1>0, ProcFacts, StartFacts DEF D!Starting
<1>2. proc'[p].at = "down"
  BY ProcFacts
\* The one that moves is p.
<1>3. ASSUME NEW q \in Processes \ {p}, NEW next, next[p] = proc[p],
             proc' = next \/ proc' = D!Touched(q, next)
      PROVE  FALSE
  <2>1. proc'[p] = proc[p] \/ proc'[p] = [proc[p] EXCEPT !.clean = FALSE]
    BY <1>3 DEF D!Touched
  <2>2. [proc[p] EXCEPT !.clean = FALSE].at = proc[p].at
    BY <1>1 DEF D!Start
  <2> QED BY <1>2, <2>1, <2>2
<1>4. ASSUME NEW q \in Processes \ {p},
             \/ D!Backup(q) \/ D!CreateTables(q) \/ D!ReadRecorded(q) \/ D!RecordBaseline(q)
             \/ D!RunScript(q) \/ D!Record(q) \/ D!Migrated(q) \/ D!Checked(q) \/ D!Raise(q)
             \/ D!Restore(q) \/ D!LateTables(q) \/ D!Write(q) \/ D!Exit(q) \/ D!Crash(q)
      PROVE  FALSE
  <2>1. ASSUME D!Backup(q) PROVE FALSE
    <3>1. proc'[p] = proc[p] \/ proc'[p] = [proc[p] EXCEPT !.clean = FALSE]
      BY <2>1 DEF D!Backup
    <3>2. [proc[p] EXCEPT !.clean = FALSE].at = proc[p].at
      BY <1>1 DEF D!Start
    <3> QED BY <1>2, <3>1, <3>2
  <2>2. ASSUME NEW step, proc' = D!Goto(q, step) \/ proc' = D!Touched(q, D!Goto(q, step)) PROVE FALSE
    <3>1. D!Goto(q, step)[p] = proc[p]
      BY <1>0 DEF D!Goto
    <3> QED BY <1>3, <2>2, <3>1
  <2>3. ASSUME D!CreateTables(q) \/ D!RecordBaseline(q) \/ D!RunScript(q) PROVE FALSE
    BY <2>2, <2>3 DEF D!CreateTables, D!RecordBaseline, D!RunScript
  <2>4. ASSUME D!Migrated(q) \/ D!Checked(q) \/ D!Raise(q) PROVE FALSE
    BY <2>2, <2>4 DEF D!Migrated, D!Checked, D!Raise
  <2>5. ASSUME D!ReadRecorded(q) PROVE FALSE
    <3>1. proc'[p] = proc[p]
      BY <1>0, <2>5 DEF D!ReadRecorded
    <3> QED BY <1>2, <3>1
  <2>6. ASSUME D!Record(q) PROVE FALSE
    <3> DEFINE next == [proc EXCEPT ![q].at = "script", ![q].todo = @ \ {D!Version(q)}]
    <3>1. next[p] = proc[p]
      BY <1>0
    <3>2. proc' = D!Goto(q, "restore") \/ proc' = D!Touched(q, next)
      BY <2>6 DEF D!Record
    <3> HIDE DEF next
    <3> QED BY <1>3, <2>2, <3>1, <3>2
  <2>7. ASSUME NEW s, proc' = [proc EXCEPT ![q] = s] \/ proc' = D!Touched(q, [proc EXCEPT ![q] = s])
        PROVE  FALSE
    <3>1. [proc EXCEPT ![q] = s][p] = proc[p]
      BY <1>0
    <3> QED BY <1>3, <2>7, <3>1
  <2>8. ASSUME D!Restore(q) \/ D!LateTables(q) \/ D!Exit(q) \/ D!Crash(q) PROVE FALSE
    BY <2>7, <2>8 DEF D!Restore, D!LateTables, D!Exit, D!Crash
  <2>9. ASSUME D!Write(q) PROVE FALSE
    BY <1>3, <2>9 DEF D!Write
  <2> QED BY <1>4, <2>1, <2>3, <2>4, <2>5, <2>6, <2>8, <2>9
<1>5. D!Restore(p)
  <2>1. ~D!Crash(p) /\ ~D!Raise(p)
    BY <1>0 DEF D!Crash, D!Raise
  <2>2. ~D!Backup(p)
    BY DEF D!Backup, D!At
  <2>3. ~D!CreateTables(p) /\ ~D!ReadRecorded(p)
    BY DEF D!CreateTables, D!ReadRecorded, D!At
  <2>4. ~D!RecordBaseline(p) /\ ~D!RunScript(p)
    BY DEF D!RecordBaseline, D!RunScript, D!At
  <2>5. ~D!Record(p) /\ ~D!Migrated(p)
    BY DEF D!Record, D!Migrated, D!At
  <2>6. ~D!Checked(p) /\ ~D!LateTables(p)
    BY DEF D!Checked, D!LateTables, D!At
  <2>7. ~D!Write(p) /\ ~D!Exit(p)
    BY DEF D!Write, D!Exit, D!At
  <2>8. PICK q \in Processes :
            \/ D!Backup(q) \/ D!CreateTables(q) \/ D!ReadRecorded(q) \/ D!RecordBaseline(q)
            \/ D!RunScript(q) \/ D!Record(q) \/ D!Migrated(q) \/ D!Checked(q) \/ D!Raise(q)
            \/ D!Restore(q) \/ D!LateTables(q) \/ D!Write(q) \/ D!Exit(q) \/ D!Crash(q)
    BY DEF D!Next
  <2>9. q = p
    BY <1>4, <2>8
  <2> QED BY <2>1, <2>2, <2>3, <2>4, <2>5, <2>6, <2>7, <2>8, <2>9
<1>6. /\ proc[p].backup = 0 => proc[p].before = D!Empty
      /\ proc[p].backup # 0 => backups[proc[p].backup] = proc[p].before
  BY <1>1 DEF BackedUp
<1>7. CASE proc[p].backup = 0
  <2>1. path' = 0
    BY <1>5, <1>7 DEF D!Restore
  <2> QED BY <1>6, <1>7, <2>1 DEF D!AtPath
<1>8. CASE proc[p].backup # 0
  <2>1. backups[proc[p].backup] # D!Down
    BY <1>1, <1>6, <1>8, SchemaFacts
  <2>2. D!Open /\ file' = [file EXCEPT ![D!Opened] = proc[p].before]
    BY <1>5, <1>6, <1>8, <2>1 DEF D!Restore
  <2>3. path' = D!Opened /\ D!Opened \in D!Files
    BY <1>0, <2>2, OpenFacts
  <2>4. file'[path'] = proc[p].before /\ path' # 0
    BY <1>0, <2>2, <2>3, SchemaFacts
  <2> QED BY <2>4 DEF D!AtPath
<1> QED BY <1>7, <1>8

\* The database: recorded migrations were made while no start fails beside
\* another; and a start that fails alone puts back what it found.
THEOREM DatabaseStarts == D!Init /\ [][D!Next]_(D!vars) => D!StartHolds
<1> DEFINE Inv == SchemaTypes /\ BackedUp
<1> DEFINE Puts == \A p \in Processes :
                      D!At(p, "restore") /\ proc[p].clean /\ proc'[p] = D!Down
                        /\ schemaFaults' = schemaFaults
                          => D!AtPath' = proc[p].before
<1>1. D!Init => Inv /\ RecordedWhole
  BY SchemaInit
<1>2. Inv /\ [D!Next]_(D!vars) => Inv'
  BY SchemaStepInv
<1>3. Inv /\ RecordedWhole /\ D!RestoresAlone /\ [D!Next]_(D!vars) => RecordedWhole'
  BY SchemaStepInv
<1>4. Inv /\ [D!Next]_(D!vars) => [Puts]_(D!vars)
  BY RestoreStep
<1>5. Inv /\ RecordedWhole => D!RecordedIsMigrated
  <2> SUFFICES ASSUME Inv, RecordedWhole PROVE D!RecordedIsMigrated
    OBVIOUS
  <2>1. D!Empty.recorded = {}
    BY DEF D!Empty
  <2>2. path \in D!Files => Whole(file[path])
    BY DEF RecordedWhole
  <2>3. path \in D!Files \cup {0}
    BY DEF SchemaTypes
  <2> QED BY <2>1, <2>2, <2>3 DEF D!RecordedIsMigrated, D!AtPath, Whole
<1> HIDE DEF Inv, Puts
<1>6. D!Init /\ [][D!Next]_(D!vars) => []Inv
  BY <1>1, <1>2, PTL
<1>7. D!Init /\ [][D!Next]_(D!vars) => ([]D!RestoresAlone => []D!RecordedIsMigrated)
  BY <1>1, <1>3, <1>5, <1>6, PTL
<1>8. D!Init /\ [][D!Next]_(D!vars) => [][Puts]_(D!vars)
  BY <1>4, <1>6, PTL
<1> QED BY <1>7, <1>8 DEF D!StartHolds, D!MigratedUnlessOverlap, D!FailedStartRestores, Puts

-----------------------------------------------------------------------------
(* The whole: one part takes steps, the others stand still *)

\* A step of the program is a step, or none, of each of its parts.
LEMMA StartupSteps ==
    [Next]_vars => /\ [L!Next]_(L!commandVars) /\ [D!Next]_(D!vars)
                   /\ [M!Next]_(M!vars) /\ [S!Next]_(S!vars)
<1> SUFFICES ASSUME [Next]_vars
             PROVE  /\ [L!Next]_(L!commandVars) /\ [D!Next]_(D!vars)
                    /\ [M!Next]_(M!vars) /\ [S!Next]_(S!vars)
  OBVIOUS
<1>1. ASSUME UNCHANGED command PROVE UNCHANGED L!commandVars
  BY <1>1 DEF command, L!commandVars
<1>2. ASSUME UNCHANGED database PROVE UNCHANGED D!vars
  BY <1>2 DEF database, D!vars
<1>3. ASSUME UNCHANGED managed PROVE UNCHANGED M!vars
  BY <1>3 DEF managed, M!vars, M!site
<1>4. ASSUME UNCHANGED secure PROVE UNCHANGED S!vars
  BY <1>4 DEF secure, S!vars, S!trees
<1>5. CASE CommandStep
  <2>1. L!Next /\ UNCHANGED database /\ UNCHANGED managed /\ UNCHANGED secure
    BY <1>5 DEF CommandStep
  <2> QED BY <1>2, <1>3, <1>4, <2>1
<1>6. CASE DatabaseStep
  <2>1. D!Next /\ UNCHANGED command /\ UNCHANGED managed /\ UNCHANGED secure
    BY <1>6 DEF DatabaseStep
  <2> QED BY <1>1, <1>3, <1>4, <2>1
<1>7. CASE ManagedStep
  <2>1. M!Next /\ UNCHANGED command /\ UNCHANGED database /\ UNCHANGED secure
    BY <1>7 DEF ManagedStep
  <2> QED BY <1>1, <1>2, <1>4, <2>1
<1>8. CASE SecureStep
  <2>1. S!Next /\ UNCHANGED command /\ UNCHANGED database /\ UNCHANGED managed
    BY <1>8 DEF SecureStep
  <2> QED BY <1>1, <1>2, <1>3, <2>1
<1>9. CASE UNCHANGED vars
  <2>1. UNCHANGED command /\ UNCHANGED database /\ UNCHANGED managed /\ UNCHANGED secure
    BY <1>9 DEF vars
  <2> QED BY <1>1, <1>2, <1>3, <1>4, <2>1
<1> QED BY <1>5, <1>6, <1>7, <1>8, <1>9 DEF Next

LEMMA PartsRun ==
    Spec => /\ L!Init /\ [][L!Next]_(L!commandVars)
            /\ D!Init /\ [][D!Next]_(D!vars)
            /\ M!Init /\ [][M!Next]_(M!vars)
            /\ S!Init /\ [][S!Next]_(S!vars)
<1>1. Init => L!Init /\ D!Init /\ M!Init /\ S!Init
  BY DEF Init
<1> QED BY <1>1, StartupSteps, PTL DEF Spec

\* The command line keeps its types: what argparse returns is a subcommand, or
\* nothing.
LEMMA CommandTypes == L!Init /\ [][L!Next]_(L!commandVars) => []L!TypeOK
<1>0. MaxOptions \in Nat /\ MaxArguments \in Nat
  BY StartupAssumption DEF L!CommandAssumption
<1>1. /\ L!Nothing.options \in L!UpTo(L!Options, MaxOptions) /\ L!Nothing.verb = "none"
      /\ L!Nothing.arguments \in L!UpTo(Words, MaxArguments)
  <2>1. ASSUME NEW X PROVE << >> \in [1 .. 0 -> X]
    OBVIOUS
  <2> QED BY <1>0, <2>1 DEF L!Nothing, L!UpTo
<1>2. L!Init => L!TypeOK
  BY <1>1 DEF L!Init, L!TypeOK
<1>3. L!TypeOK /\ [L!Next]_(L!commandVars) => L!TypeOK'
  <2> SUFFICES ASSUME L!TypeOK, [L!Next]_(L!commandVars) PROVE L!TypeOK'
    OBVIOUS
  <2>1. ASSUME NEW l \in L!Lines, L!Type(l) PROVE L!TypeOK'
    BY <2>1 DEF L!Type, L!TypeOK, L!Lines
  <2>2. CASE L!Translate
    BY <2>2 DEF L!Translate, L!TypeOK
  <2>3. CASE L!Parse
    <3>1. parsed' = L!Parsed(argv) /\ at' = "parsed" /\ line' = line
      BY <2>3 DEF L!Parse
    <3>2. L!Parsed(argv).verb \in {"none"} \cup Commands
      BY <1>1 DEF L!Parsed
    <3> QED BY <3>1, <3>2 DEF L!TypeOK
  <2>4. CASE L!Prompt
    BY <1>1, <2>4 DEF L!Prompt, L!TypeOK
  <2>5. CASE UNCHANGED L!commandVars
    BY <2>5 DEF L!commandVars, L!TypeOK
  <2> QED BY <2>1, <2>2, <2>3, <2>4, <2>5 DEF L!Next
<1> QED BY <1>2, <1>3, PTL

\* Every variable of every part keeps its type.
THEOREM StartupTypeCorrect == Spec => []TypeOK
<1>1. SchemaTypes => D!TypeOK
  <2> SUFFICES ASSUME SchemaTypes PROVE D!TypeOK
    OBVIOUS
  <2>1. stamp \in D!Stamps \cup {0}
    <3>1. stamp \in Nat /\ stamp <= starts /\ starts \in 0 .. MaxStarts
      BY DEF SchemaTypes
    <3> QED BY <3>1, SchemaFacts DEF D!Stamps
  <2> QED BY <2>1 DEF SchemaTypes, D!TypeOK, ProcStates
<1>2. ManagedTypes => M!TypeOK
  <2> SUFFICES ASSUME ManagedTypes PROVE M!TypeOK
    OBVIOUS
  <2>1. /\ managedFaults \in Seq(ManagedFaults) /\ Len(managedFaults) <= MaxManagedFaults
        /\ Len(managedFaults) \in Nat
    BY DEF ManagedTypes
  <2>2. managedFaults \in [1 .. Len(managedFaults) -> ManagedFaults]
        /\ Len(managedFaults) \in 0 .. MaxManagedFaults
    BY <2>1, ManagedFacts
  <2>3. managedFaults \in UNION {[1 .. n -> ManagedFaults] : n \in 0 .. MaxManagedFaults}
    BY <2>2
  <2> QED BY <2>3 DEF ManagedTypes, M!TypeOK, RunStates, Backups, Dists
<1>3. SecureTypes => S!TypeOK
  BY DEF SecureTypes, S!TypeOK, Sane, SecureOps, SecureFailures
<1>4. M!Init /\ [][M!Next]_(M!vars) => []M!TypeOK
  <2>1. ManagedInv => M!TypeOK
    BY <1>2 DEF ManagedInv
  <2> QED BY <2>1, ManagedInitInv, ManagedStepInv, PTL
<1>5. S!Init /\ [][S!Next]_(S!vars) => []S!TypeOK
  <2>1. SecureInv => S!TypeOK
    BY <1>3 DEF SecureInv
  <2> QED BY <2>1, SecureInitInv, SecureStepInv, PTL
<1>6. D!Init /\ [][D!Next]_(D!vars) => []D!TypeOK
  <2> DEFINE Inv == SchemaTypes /\ BackedUp
  <2>1. D!Init => Inv
    BY SchemaInit
  <2>2. Inv /\ [D!Next]_(D!vars) => Inv'
    BY SchemaStepInv
  <2>3. Inv => D!TypeOK
    BY <1>1
  <2> HIDE DEF Inv
  <2> QED BY <2>1, <2>2, <2>3, PTL
<1>7. L!TypeOK /\ D!TypeOK /\ M!TypeOK /\ S!TypeOK => TypeOK
  BY DEF TypeOK
<1> QED BY <1>4, <1>5, <1>6, <1>7, CommandTypes, PartsRun, PTL

\* Whatever the managed update meets, what it leaves can be recovered, is whole
\* while only smoke tests and copies fail, and is what was there if one does.
THEOREM UpdatesAlwaysRecover == Spec => []UpdateRecovers
BY UpdatesRecover, PartsRun, PTL DEF UpdateRecovers

\* The archive updater keeps a whole tree in place and loses nothing installed.
THEOREM ReplacedOrKeptAlways == Spec => ReplacedOrKept
BY TreesAreKept, PartsRun, PTL DEF ReplacedOrKept

\* A start migrates what it records, or restores what it found.
THEOREM StartAlwaysHolds == Spec => StartHolds
BY DatabaseStarts, PartsRun, PTL DEF StartHolds

-----------------------------------------------------------------------------
(* The translation of a command line. *)

\* What holds of 0 and of the next of each holds up to n.
LEMMA Climbs ==
    ASSUME NEW n \in Nat, NEW X, 0 \in X, \A k \in 0 .. n - 1 : k \in X => k + 1 \in X
    PROVE  \A k \in 0 .. n : k \in X
<1> DEFINE Left == {k \in Nat : k <= n /\ k \notin X}
<1>1. SUFFICES ASSUME Left # {} PROVE FALSE
  OBVIOUS
<1>2. PICK k \in Left : \A m \in Left : k <= m
  <2>1. Left \in SUBSET Nat
    OBVIOUS
  <2> HIDE DEF Left
  <2> QED BY <1>1, <2>1, LeastNatural
<1>3. k \in Nat /\ k <= n /\ k \notin X /\ k # 0
  BY <1>2
<1>4. k - 1 \in 0 .. n - 1 /\ k - 1 \notin Left
  BY <1>2, <1>3
<1>5. k - 1 \in X
  BY <1>4
<1>6. k \in X
  BY <1>3, <1>4, <1>5
<1> QED BY <1>3, <1>6

\* What the scan asks of each place, the answers being f.
ScanStep(f, i, tokens, alone) ==
    IF i > Len(tokens) THEN 0
    ELSE IF tokens[i] \in ValueOptions THEN f[i + 2]
    ELSE IF tokens[i] \in alone THEN f[i + 1]
    ELSE i
IsScan(f, tokens, alone) == f = [i \in 1 .. Len(tokens) + 2 |-> ScanStep(f, i, tokens, alone)]

\* The scan is defined: from the end backwards, each place needs later ones only.
LEMMA ScanDefined ==
    ASSUME NEW tokens, Len(tokens) \in Nat, NEW alone
    PROVE  \E f : IsScan(f, tokens, alone)
<1> DEFINE n == Len(tokens)
           At(f, i) == ScanStep(f, i, tokens, alone)
           Defined == {m \in 0 .. n + 1 : \E f : f = [i \in n + 2 - m .. n + 2 |-> At(f, i)]}
<1>1. 0 \in Defined
  <2> DEFINE f == [i \in n + 2 .. n + 2 |-> 0]
  <2>1. \A i \in n + 2 .. n + 2 : At(f, i) = 0
    BY DEF ScanStep
  <2>2. f = [i \in n + 2 - 0 .. n + 2 |-> At(f, i)]
    BY <2>1
  <2>3. \E h : h = [i \in n + 2 - 0 .. n + 2 |-> At(h, i)]
    <3> HIDE DEF f, At
    <3> QED BY <2>2
  <2>4. 0 \in 0 .. n + 1
    OBVIOUS
  <2> HIDE DEF At
  <2> QED BY <2>3, <2>4
<1>2. ASSUME NEW m \in 0 .. n, m \in Defined PROVE m + 1 \in Defined
  <2> DEFINE k == n + 2 - (m + 1)
  <2>1. PICK f : f = [i \in k + 1 .. n + 2 |-> At(f, i)]
    <3>1. k + 1 = n + 2 - m
      OBVIOUS
    <3> QED BY <1>2, <3>1
  <2> DEFINE g == [i \in k .. n + 2 |-> IF i = k THEN At(f, k) ELSE f[i]]
  <2>2. k \in 1 .. n + 1
    OBVIOUS
  <2> HIDE DEF k
  <2>3. ASSUME NEW i \in k .. n + 2 PROVE At(f, i) = At(g, i)
    <3>1. CASE i > n
      BY <3>1 DEF ScanStep
    <3>2. CASE i <= n
      <4>1. i + 1 \in k .. n + 2 /\ i + 2 \in k .. n + 2 /\ i + 1 # k /\ i + 2 # k
        BY <2>2, <3>2
      <4>2. g[i + 1] = f[i + 1] /\ g[i + 2] = f[i + 2]
        BY <4>1
      <4> HIDE DEF g
      <4> QED BY <4>2 DEF ScanStep
    <3> QED BY <2>2, <3>1, <3>2
  <2>4. ASSUME NEW i \in k .. n + 2 PROVE g[i] = At(f, i)
    <3>1. CASE i = k
      BY <3>1
    <3>2. CASE i # k
      <4>1. i \in k + 1 .. n + 2
        BY <2>2, <3>2
      <4> HIDE DEF At
      <4>2. f[i] = At(f, i)
        BY <2>1, <4>1
      <4> QED BY <3>2, <4>2
    <3> QED BY <3>1, <3>2
  <2>5. g = [i \in k .. n + 2 |-> At(g, i)]
    <3>1. \A i \in k .. n + 2 : g[i] = At(g, i)
      BY <2>3, <2>4
    <3>2. g = [i \in k .. n + 2 |-> g[i]]
      OBVIOUS
    <3> HIDE DEF g, At
    <3> QED BY <3>1, <3>2
  <2>6. \E h : h = [i \in k .. n + 2 |-> At(h, i)]
    <3> HIDE DEF g, At
    <3> QED BY <2>5
  <2> HIDE DEF At
  <2> QED BY <2>6 DEF k
<1>3. n + 1 \in Defined
  <2>1. n + 1 \in Nat /\ \A m \in 0 .. (n + 1) - 1 : m \in Defined => m + 1 \in Defined
    <3> HIDE DEF Defined
    <3> QED BY <1>2
  <2>2. n + 1 \in 0 .. n + 1
    OBVIOUS
  <2> HIDE DEF Defined, n
  <2> QED BY <1>1, <2>1, <2>2, Climbs
<1>4. n + 2 - (n + 1) = 1
  OBVIOUS
<1>5. \E f : f = [i \in 1 .. n + 2 |-> At(f, i)]
  <2> HIDE DEF At
  <2> QED BY <1>3, <1>4
<1> QED BY <1>5 DEF IsScan

\* The places p lead from the first token over options and their values to place n.
Leads(p, n, tokens, alone) ==
    /\ p[0] = 1 /\ \A k \in 0 .. n : p[k] \in 1 .. Len(tokens)
    /\ \A k \in 0 .. n - 1 :
          IF tokens[p[k]] \in ValueOptions THEN p[k + 1] = p[k] + 2
          ELSE tokens[p[k]] \in alone /\ p[k + 1] = p[k] + 1
    /\ tokens[p[n]] \notin ValueOptions \cup alone

\* A scan that can go from place to place arrives at the last of them.
LEMMA ScanArrives ==
    ASSUME NEW tokens, Len(tokens) \in Nat, NEW alone, NEW n \in Nat, NEW p,
           Leads(p, n, tokens, alone)
    PROVE  L!Scan(tokens, alone) = p[n]
<1> DEFINE At(f, i) == ScanStep(f, i, tokens, alone)
           from == CHOOSE f : IsScan(f, tokens, alone)
<1>1. L!Scan(tokens, alone) = from[1]
  BY DEF L!Scan, IsScan, ScanStep
<1>2. from = [i \in 1 .. Len(tokens) + 2 |-> At(from, i)]
  <2>1. IsScan(from, tokens, alone)
    BY ScanDefined
  <2> HIDE DEF from
  <2> QED BY <2>1 DEF IsScan
<1> HIDE DEF from
<1>3. \A i \in 1 .. Len(tokens) : from[i] = At(from, i)
  <2> HIDE DEF At
  <2>1. \A i \in 1 .. Len(tokens) : i \in 1 .. Len(tokens) + 2
    OBVIOUS
  <2> QED BY <1>2, <2>1
<1> DEFINE Same == {k \in 0 .. n : from[p[k]] = from[1]}
<1>4. 0 \in Same
  BY DEF Leads
<1>5. ASSUME NEW k \in 0 .. n - 1, k \in Same PROVE k + 1 \in Same
  <2>1. from[p[k]] = At(from, p[k]) /\ p[k] \in 1 .. Len(tokens) /\ k + 1 \in 0 .. n
    BY <1>3 DEF Leads
  <2>2. from[p[k + 1]] = from[p[k]]
    BY <2>1 DEF Leads, ScanStep
  <2> QED BY <1>5, <2>1, <2>2
<1>6. n \in Same
  <2>1. n \in 0 .. n
    OBVIOUS
  <2>2. \A k \in 0 .. n - 1 : k \in Same => k + 1 \in Same
    BY <1>5
  <2> HIDE DEF Same
  <2> QED BY <1>4, <2>1, <2>2, Climbs
<1>7. from[p[n]] = p[n]
  <2>1. p[n] \in 1 .. Len(tokens) /\ from[p[n]] = At(from, p[n])
    BY <1>3 DEF Leads
  <2> QED BY <2>1 DEF Leads, ScanStep
<1> QED BY <1>1, <1>6, <1>7

\* What h has after each of the n sequences of s.
Grows(h, n, s) == h[0] = << >> /\ \A k \in 0 .. n - 1 : h[k + 1] = h[k] \o s[k + 1]

\* A flattened sequence grows by one of its sequences at a time.
LEMMA FlattenGrows ==
    ASSUME NEW T, NEW n \in Nat, NEW s \in [1 .. n -> Seq(T)]
    PROVE  \E h \in [0 .. n -> Seq(T)] : Grows(h, n, s) /\ h[n] = L!FlattenSeq(s)
<1> DEFINE Grown == {m \in 0 .. n : \E h \in [0 .. m -> Seq(T)] : Grows(h, m, s)}
<1>1. 0 \in Grown
  <2> DEFINE g == [k \in 0 .. 0 |-> << >>]
  <2>1. g \in [0 .. 0 -> Seq(T)] /\ Grows(g, 0, s) /\ 0 \in 0 .. n
    BY DEF Grows
  <2> HIDE DEF g
  <2> QED BY <2>1
<1>2. ASSUME NEW m \in 0 .. n - 1, m \in Grown PROVE m + 1 \in Grown
  <2>1. PICK h \in [0 .. m -> Seq(T)] : Grows(h, m, s)
    <3> QED BY <1>2
  <2> DEFINE longer == h[m] \o s[m + 1]
             g == [k \in 0 .. m + 1 |-> IF k = m + 1 THEN longer ELSE h[k]]
  <2>2. longer \in Seq(T)
    <3>1. h[m] \in Seq(T) /\ s[m + 1] \in Seq(T)
      OBVIOUS
    <3> QED BY <3>1
  <2> HIDE DEF longer
  <2>3. g \in [0 .. m + 1 -> Seq(T)]
    <3>1. ASSUME NEW k \in 0 .. m + 1, k # m + 1 PROVE h[k] \in Seq(T)
      <4>1. k \in 0 .. m
        BY <3>1
      <4> QED BY <4>1
    <3> QED BY <2>2, <3>1
  <2>4. Grows(g, m + 1, s)
    <3>1. g[0] = << >>
      BY <2>1 DEF Grows
    <3>2. ASSUME NEW k \in 0 .. (m + 1) - 1 PROVE g[k + 1] = g[k] \o s[k + 1]
      <4>1. CASE k = m
        <5>1. g[m + 1] = longer /\ g[m] = h[m]
          OBVIOUS
        <5> HIDE DEF g
        <5> QED BY <4>1, <5>1 DEF longer
      <4>2. CASE k # m
        <5>1. k \in 0 .. m - 1
          BY <4>2
        <5>2. g[k + 1] = h[k + 1] /\ g[k] = h[k]
          BY <5>1
        <5> HIDE DEF g
        <5> QED BY <2>1, <5>1, <5>2 DEF Grows
      <4> QED BY <4>1, <4>2
    <3> HIDE DEF g
    <3> QED BY <3>1, <3>2 DEF Grows
  <2> HIDE DEF g
  <2> QED BY <2>3, <2>4
<1>3. \E h \in [0 .. n -> Seq(T)] : Grows(h, n, s)
  <2>1. \A m \in 0 .. n - 1 : m \in Grown => m + 1 \in Grown
    BY <1>2
  <2>2. n \in 0 .. n
    OBVIOUS
  <2>3. n \in Grown
    <3> HIDE DEF Grown
    <3> QED BY <1>1, <2>1, <2>2, Climbs
  <2> QED BY <2>3
<1>4. PICK h \in [0 .. n -> Seq(T)] : Grows(h, n, s)
  <2> QED BY <1>3
<1>5. Len(s) = n
  OBVIOUS
<1>6. h[n] = L!FlattenSeq(s)
  <2>1. CASE n = 0
    <3>1. L!FlattenSeq(s) = s
      BY <1>5, <2>1 DEF L!FlattenSeq
    <3>2. s = << >>
      BY <2>1
    <3> QED BY <1>4, <2>1, <3>1, <3>2 DEF Grows
  <2>2. CASE n # 0
    <3> DEFINE At(f, i) == IF i = 1 THEN s[i] ELSE f[i - 1] \o s[i]
               flatten == CHOOSE f : f = [i \in 1 .. n |-> At(f, i)]
               start == [i \in 1 .. n |-> h[i]]
    <3>1. L!FlattenSeq(s) = flatten[n]
      BY <1>5, <2>2 DEF L!FlattenSeq
    <3>2. ASSUME NEW i \in 1 .. n PROVE h[i] = At(start, i)
      <4>1. i - 1 \in 0 .. n - 1 /\ (i - 1) + 1 = i
        OBVIOUS
      <4>2. h[i] = h[i - 1] \o s[i]
        BY <1>4, <4>1 DEF Grows
      <4>3. CASE i = 1
        <5>1. s[1] \in Seq(T) /\ h[0] = << >>
          BY <1>4, <4>3 DEF Grows
        <5>2. h[1] = << >> \o s[1]
          <6>1. i - 1 = 0
            BY <4>3
          <6> QED BY <4>2, <4>3, <5>1, <6>1
        <5> QED BY <4>3, <5>1, <5>2
      <4>4. CASE i # 1
        <5>1. start[i - 1] = h[i - 1]
          BY <4>4
        <5> HIDE DEF start
        <5> QED BY <4>2, <4>4, <5>1
      <4> QED BY <4>3, <4>4
    <3>3. start = [i \in 1 .. n |-> At(start, i)]
      <4>1. \A i \in 1 .. n : h[i] = At(start, i)
        BY <3>2
      <4>2. start = [i \in 1 .. n |-> h[i]]
        OBVIOUS
      <4> HIDE DEF start, At
      <4> QED BY <4>1, <4>2
    <3>4. flatten = [i \in 1 .. n |-> At(flatten, i)]
      <4> HIDE DEF At, start
      <4> QED BY <3>3
    <3> HIDE DEF flatten
    <3>5. \A i \in 1 .. n : flatten[i] = At(flatten, i)
      <4> HIDE DEF At
      <4> QED BY <3>4
    <3> DEFINE Same == {k \in 0 .. n : k = 0 \/ flatten[k] = h[k]}
    <3>6. 0 \in Same
      OBVIOUS
    <3>7. ASSUME NEW k \in 0 .. n - 1, k \in Same PROVE k + 1 \in Same
      <4>1. h[k + 1] = At(start, k + 1) /\ flatten[k + 1] = At(flatten, k + 1)
        <5>1. k + 1 \in 1 .. n
          OBVIOUS
        <5> HIDE DEF At, start
        <5> QED BY <3>2, <3>5, <5>1
      <4>2. At(start, k + 1) = At(flatten, k + 1)
        <5>1. CASE k = 0
          BY <5>1
        <5>2. CASE k # 0
          <6>1. start[k] = flatten[k] /\ (k + 1) - 1 = k
            BY <3>7, <5>2
          <6> HIDE DEF start
          <6> QED BY <6>1
        <5> QED BY <5>1, <5>2
      <4>3. flatten[k + 1] = h[k + 1] /\ k + 1 \in 0 .. n
        <5> HIDE DEF At, start
        <5> QED BY <4>1, <4>2
      <4> QED BY <4>3
    <3>8. n \in Same
      <4>1. \A k \in 0 .. n - 1 : k \in Same => k + 1 \in Same
        BY <3>7
      <4>2. n \in 0 .. n
        OBVIOUS
      <4> HIDE DEF Same
      <4> QED BY <3>6, <4>1, <4>2, Climbs
    <3> QED BY <2>2, <3>1, <3>8
  <2> QED BY <2>1, <2>2
<1> QED BY <1>4, <1>6

\* What is within b at its start.
Within(a, b) == Len(a) <= Len(b) /\ \A i \in 1 .. Len(a) : b[i] = a[i]

\* What has grown to some place stays as it is.
LEMMA GrownStays ==
    ASSUME NEW T, NEW n \in Nat, NEW s \in [1 .. n -> Seq(T)], NEW h \in [0 .. n -> Seq(T)],
           Grows(h, n, s), NEW k \in 0 .. n
    PROVE  Within(h[k], h[n])
<1> DEFINE Stays == {m \in 0 .. n : m < k \/ Within(h[k], h[m])}
<1>1. 0 \in Stays
  BY DEF Within
<1>2. ASSUME NEW m \in 0 .. n - 1, m \in Stays PROVE m + 1 \in Stays
  <2>1. h[k] \in Seq(T) /\ h[m] \in Seq(T) /\ s[m + 1] \in Seq(T) /\ m + 1 \in 0 .. n
    OBVIOUS
  <2>2. h[m + 1] = h[m] \o s[m + 1]
    BY DEF Grows
  <2>3. CASE m + 1 < k
    BY <2>1, <2>3
  <2>4. CASE m + 1 = k
    BY <2>1, <2>4 DEF Within
  <2>5. CASE m >= k
    <3>1. Within(h[k], h[m])
      BY <1>2, <2>5
    <3>2. Within(h[m], h[m] \o s[m + 1])
      <4> DEFINE a == h[m]
                 b == s[m + 1]
      <4>1. a \in Seq(T) /\ b \in Seq(T)
        BY <2>1
      <4> HIDE DEF a, b
      <4>2. Len(a) \in Nat /\ Len(b) \in Nat
        BY <4>1
      <4>3. Len(a \o b) = Len(a) + Len(b) /\ \A i \in 1 .. Len(a) : (a \o b)[i] = a[i]
        BY <4>1
      <4>4. Within(a, a \o b)
        BY <4>2, <4>3 DEF Within
      <4> QED BY <4>4 DEF a, b
    <3>3. Within(h[k], h[m + 1])
      <4>1. Len(h[k]) \in Nat /\ Len(h[m]) \in Nat /\ Len(h[m + 1]) \in Nat
        BY <2>1
      <4>2. Len(h[k]) <= Len(h[m]) /\ Len(h[m]) <= Len(h[m + 1])
        BY <2>2, <3>1, <3>2 DEF Within
      <4>3. ASSUME NEW i \in 1 .. Len(h[k]) PROVE h[m + 1][i] = h[k][i]
        <5>1. i \in 1 .. Len(h[m])
          BY <4>1, <4>2
        <5> QED BY <2>2, <3>1, <3>2, <5>1 DEF Within
      <4> QED BY <4>1, <4>2, <4>3 DEF Within
    <3> QED BY <2>1, <3>3
  <2> QED BY <2>3, <2>4, <2>5
<1>3. n \in Stays
  <2>1. \A m \in 0 .. n - 1 : m \in Stays => m + 1 \in Stays
    BY <1>2
  <2>2. n \in 0 .. n
    OBVIOUS
  <2> HIDE DEF Stays
  <2> QED BY <1>1, <2>1, <2>2, Climbs
<1> QED BY <1>3

\* The pieces of a sequence put together: its length, what stands where, and the
\* pieces again.
LEMMA Pieces ==
    ASSUME NEW U, NEW F \in Seq(U), NEW c \in U, NEW rest \in Seq(U)
    PROVE  LET t == F \o <<c>> \o rest IN
           /\ t \in Seq(U) /\ Len(t) = Len(F) + 1 + Len(rest) /\ t[Len(F) + 1] = c
           /\ \A i \in 1 .. Len(F) : t[i] = F[i]
           /\ \A i \in 1 .. Len(rest) : t[Len(F) + 1 + i] = rest[i]
           /\ SubSeq(t, 1, Len(F)) = F
           /\ SubSeq(t, Len(F) + 2, Len(t)) = rest
<1> DEFINE t == F \o <<c>> \o rest
<1>0. Len(F) \in Nat /\ Len(rest) \in Nat /\ <<c>> \in Seq(U) /\ Len(<<c>>) = 1 /\ <<c>>[1] = c
  OBVIOUS
<1>1. /\ F \o <<c>> \in Seq(U) /\ Len(F \o <<c>>) = Len(F) + 1
      /\ (F \o <<c>>)[Len(F) + 1] = c /\ \A i \in 1 .. Len(F) : (F \o <<c>>)[i] = F[i]
  BY <1>0, ConcatProperties
<1>2. t \in Seq(U) /\ Len(t) = Len(F) + 1 + Len(rest)
  BY <1>0, <1>1, ConcatProperties
<1>3. \A i \in 1 .. Len(F) + 1 : t[i] = (F \o <<c>>)[i]
  BY <1>0, <1>1, ConcatProperties
<1>4. ASSUME NEW i \in 1 .. Len(rest) PROVE t[Len(F) + 1 + i] = rest[i]
  BY <1>0, <1>1, ConcatProperties
<1>5. t[Len(F) + 1] = c /\ \A i \in 1 .. Len(F) : t[i] = F[i]
  BY <1>0, <1>1, <1>3
<1> HIDE DEF t
<1>6. SubSeq(t, 1, Len(F)) = F
  <2>1. 1 .. Len(F) \subseteq 1 .. Len(t)
    BY <1>0, <1>2
  <2>2. /\ SubSeq(t, 1, Len(F)) \in Seq(U) /\ Len(SubSeq(t, 1, Len(F))) = Len(F)
        /\ \A i \in 1 .. Len(F) : SubSeq(t, 1, Len(F))[i] = t[i]
    BY <1>0, <1>2
  <2> QED BY <1>5, <2>2, SeqEqual
<1>7. SubSeq(t, Len(F) + 2, Len(t)) = rest
  <2> DEFINE r == SubSeq(t, Len(F) + 2, Len(t))
  <2>1. /\ r \in Seq(U) /\ Len(r) = Len(rest)
        /\ \A i \in 1 .. Len(rest) : r[i] = t[Len(F) + 1 + i]
    BY <1>0, <1>2
  <2> HIDE DEF r
  <2>2. r = rest
    BY <1>4, <2>1, SeqEqual
  <2> QED BY <2>2 DEF r
<1> QED BY <1>2, <1>4, <1>5, <1>6, <1>7 DEF t

\* The provers take an equation of two concatenations apart into their elements:
\* under a name they do not.
Joined(a, b) == a \o b

LEMMA JoinedAssociates ==
    ASSUME NEW U, NEW a \in Seq(U), NEW b \in Seq(U), NEW c \in Seq(U)
    PROVE  Joined(Joined(a, b), c) = Joined(a, Joined(b, c))
<1>0. Len(a) \in Nat /\ Len(b) \in Nat /\ Len(c) \in Nat
  OBVIOUS
<1>1. /\ Joined(a, b) \in Seq(U) /\ Len(Joined(a, b)) = Len(a) + Len(b)
      /\ \A i \in 1 .. Len(a) : Joined(a, b)[i] = a[i]
      /\ \A i \in 1 .. Len(b) : Joined(a, b)[Len(a) + i] = b[i]
  BY DEF Joined
<1>2. /\ Joined(b, c) \in Seq(U) /\ Len(Joined(b, c)) = Len(b) + Len(c)
      /\ \A i \in 1 .. Len(b) : Joined(b, c)[i] = b[i]
      /\ \A i \in 1 .. Len(c) : Joined(b, c)[Len(b) + i] = c[i]
  BY DEF Joined
<1> DEFINE ab == Joined(a, b)
           bc == Joined(b, c)
           l == Joined(ab, c)
           r == Joined(a, bc)
<1>3. ab \in Seq(U) /\ bc \in Seq(U)
  BY <1>1, <1>2
<1> HIDE DEF ab, bc
<1>4. /\ l \in Seq(U) /\ Len(l) = Len(ab) + Len(c)
      /\ \A i \in 1 .. Len(ab) : l[i] = ab[i]
      /\ \A i \in 1 .. Len(c) : l[Len(ab) + i] = c[i]
  BY <1>3 DEF Joined
<1>5. /\ r \in Seq(U) /\ Len(r) = Len(a) + Len(bc)
      /\ \A i \in 1 .. Len(a) : r[i] = a[i]
      /\ \A i \in 1 .. Len(bc) : r[Len(a) + i] = bc[i]
  BY <1>3 DEF Joined
<1> HIDE DEF l, r
<1>6. Len(ab) = Len(a) + Len(b) /\ Len(bc) = Len(b) + Len(c)
  BY <1>1, <1>2 DEF ab, bc
<1>7. Len(l) = Len(r) /\ Len(l) = Len(a) + Len(b) + Len(c)
  BY <1>0, <1>4, <1>5, <1>6
<1>8. ASSUME NEW i \in 1 .. Len(l) PROVE l[i] = r[i]
  <2>1. CASE i <= Len(a)
    <3>1. i \in 1 .. Len(a) /\ i \in 1 .. Len(ab)
      BY <1>0, <1>6, <2>1
    <3> QED BY <1>1, <1>4, <1>5, <3>1 DEF ab
  <2>2. CASE i > Len(a) /\ i <= Len(a) + Len(b)
    <3> DEFINE k == i - Len(a)
    <3>1. k \in 1 .. Len(b) /\ k \in 1 .. Len(bc) /\ i = Len(a) + k /\ i \in 1 .. Len(ab)
      BY <1>0, <1>6, <2>2
    <3> HIDE DEF k
    <3>2. l[i] = b[k]
      BY <1>1, <1>4, <3>1 DEF ab
    <3>3. r[i] = b[k]
      BY <1>2, <1>5, <3>1 DEF bc
    <3> QED BY <3>2, <3>3
  <2>3. CASE i > Len(a) + Len(b)
    <3> DEFINE k == i - (Len(a) + Len(b))
    <3>1. /\ k \in 1 .. Len(c) /\ i = Len(ab) + k
          /\ Len(b) + k \in 1 .. Len(bc) /\ i = Len(a) + (Len(b) + k)
      BY <1>0, <1>6, <1>7, <2>3
    <3> HIDE DEF k
    <3>2. l[i] = c[k]
      BY <1>4, <3>1
    <3>3. r[i] = c[k]
      BY <1>2, <1>5, <3>1 DEF bc
    <3> QED BY <3>2, <3>3
  <2> QED BY <1>0, <2>1, <2>2, <2>3
<1>9. l = r
  BY <1>4, <1>5, <1>7, <1>8, SeqEqual
<1> QED BY <1>9 DEF l, r, ab, bc

LEMMA Reassociate ==
    ASSUME NEW U, NEW a \in Seq(U), NEW b \in Seq(U), NEW c \in Seq(U), NEW d \in Seq(U)
    PROVE  Joined(Joined(a, Joined(b, c)), d) = Joined(Joined(a, b), Joined(c, d))
<1>1. Joined(Joined(a, b), c) = Joined(a, Joined(b, c))
  BY JoinedAssociates
<1>2. Joined(a, b) \in Seq(U)
  BY DEF Joined
<1>3. Joined(Joined(Joined(a, b), c), d) = Joined(Joined(a, b), Joined(c, d))
  BY <1>2, JoinedAssociates
<1> QED BY <1>1, <1>3

\* What an option of the program is made of.
OptionTokens == ValueOptions \cup Flags \cup Words

\* Everything a line may hold, before it is translated and after.
Vocabulary == OptionTokens \cup Known \cup Commands \cup DOMAIN MCCanonicalOf \cup DOMAIN MCLegacyOf

\* The tokens of a line whose verb has become c, and rest what is behind it.
LineOf(o, c, rest) == L!FlattenSeq(o) \o <<c>> \o rest

\* Behind the options of a line the scan stops at its verb.
LEMMA ScanOfLine ==
    ASSUME NEW o \in L!UpTo(L!Options, MaxOptions), NEW c \in Vocabulary,
           NEW rest \in Seq(Vocabulary), NEW alone, Flags \subseteq alone,
           c \notin ValueOptions \cup alone
    PROVE  /\ L!FlattenSeq(o) \in Seq(OptionTokens)
           /\ L!Scan(LineOf(o, c, rest), alone) = Len(L!FlattenSeq(o)) + 1
<1>0. ValueOptions \cap Flags = {} /\ MaxOptions \in Nat
  BY StartupAssumption DEF L!CommandAssumption
<1>1. PICK n \in Nat : o \in [1 .. n -> L!Options]
  BY <1>0 DEF L!UpTo
<1>2. ASSUME NEW x \in L!Options
      PROVE  /\ x \in Seq(OptionTokens) /\ Len(x) \in Nat \ {0}
             /\ IF x[1] \in ValueOptions THEN Len(x) = 2 ELSE x[1] \in Flags /\ Len(x) = 1
  <2>1. CASE x \in {<<flag>> : flag \in Flags}
    <3>1. PICK flag \in Flags : x = <<flag>>
      BY <2>1
    <3>2. flag \in OptionTokens /\ flag \notin ValueOptions
      BY <1>0 DEF OptionTokens
    <3> QED BY <3>1, <3>2
  <2>2. CASE x \in ValueOptions \X Words
    <3>1. PICK v \in ValueOptions, w \in Words : x = <<v, w>>
      BY <2>2
    <3>2. v \in OptionTokens /\ w \in OptionTokens
      BY DEF OptionTokens
    <3> QED BY <3>1, <3>2
  <2> QED BY <2>1, <2>2 DEF L!Options
<1>3. o \in [1 .. n -> Seq(OptionTokens)]
  BY <1>1, <1>2
<1>4. PICK h \in [0 .. n -> Seq(OptionTokens)] : Grows(h, n, o) /\ h[n] = L!FlattenSeq(o)
  BY <1>3, FlattenGrows, Zenon
<1> DEFINE F == h[n]
           t == F \o <<c>> \o rest
           p == [k \in 0 .. n |-> Len(h[k]) + 1]
<1>5. F \in Seq(OptionTokens) /\ F \in Seq(Vocabulary)
  <2>1. F \in Seq(OptionTokens)
    OBVIOUS
  <2> QED BY <2>1 DEF Vocabulary
<1>6. /\ t \in Seq(Vocabulary) /\ Len(t) = Len(F) + 1 + Len(rest) /\ t[Len(F) + 1] = c
      /\ \A i \in 1 .. Len(F) : t[i] = F[i]
  BY <1>5, Pieces
<1>7. Len(F) \in Nat /\ Len(rest) \in Nat /\ Len(t) \in Nat
  BY <1>5, <1>6
<1> HIDE DEF t
<1>8. \A k \in 0 .. n : Len(h[k]) <= Len(F) /\ (\A i \in 1 .. Len(h[k]) : F[i] = h[k][i]) /\ Len(h[k]) \in Nat
  <2> SUFFICES ASSUME NEW k \in 0 .. n
               PROVE  Len(h[k]) <= Len(F) /\ (\A i \in 1 .. Len(h[k]) : F[i] = h[k][i]) /\ Len(h[k]) \in Nat
    OBVIOUS
  <2>1. Grows(h, n, o)
    BY <1>4
  <2>2. Within(h[k], F)
    BY <1>3, <2>1, GrownStays, Zenon
  <2>3. Len(h[k]) \in Nat
    <3>1. h[k] \in Seq(OptionTokens)
      OBVIOUS
    <3> QED BY <3>1
  <2> QED BY <2>2, <2>3 DEF Within
<1>9. p[0] = 1 /\ p[n] = Len(F) + 1
  BY <1>4 DEF Grows
<1>10. \A k \in 0 .. n : p[k] \in 1 .. Len(t)
  BY <1>6, <1>7, <1>8
<1>11. ASSUME NEW k \in 0 .. n - 1
       PROVE  IF t[p[k]] \in ValueOptions THEN p[k + 1] = p[k] + 2
              ELSE t[p[k]] \in alone /\ p[k + 1] = p[k] + 1
  <2> DEFINE x == o[k + 1]
  <2>1. k \in 0 .. n /\ k + 1 \in 0 .. n /\ k + 1 \in 1 .. n
    OBVIOUS
  <2>2. x \in L!Options /\ h[k] \in Seq(OptionTokens) /\ h[k + 1] = h[k] \o x
    BY <1>1, <1>4, <2>1 DEF Grows
  <2>3. /\ x \in Seq(OptionTokens) /\ Len(x) \in Nat \ {0}
        /\ IF x[1] \in ValueOptions THEN Len(x) = 2 ELSE x[1] \in Flags /\ Len(x) = 1
    BY <1>2, <2>2
  <2> HIDE DEF x
  <2>4. Len(h[k + 1]) = Len(h[k]) + Len(x) /\ h[k + 1][Len(h[k]) + 1] = x[1]
    BY <2>2, <2>3
  <2>5. Len(h[k]) \in Nat /\ Len(h[k + 1]) <= Len(F) /\ Len(h[k]) + 1 \in 1 .. Len(h[k + 1])
    BY <1>8, <2>1, <2>3, <2>4
  <2>6. F[Len(h[k]) + 1] = x[1]
    <3>1. \A i \in 1 .. Len(h[k + 1]) : F[i] = h[k + 1][i]
      BY <1>8, <2>1
    <3> QED BY <2>4, <2>5, <3>1
  <2>7. t[Len(h[k]) + 1] = x[1]
    <3>1. Len(h[k]) + 1 \in 1 .. Len(F)
      BY <1>7, <2>3, <2>4, <2>5
    <3> QED BY <1>6, <2>6, <3>1
  <2>8. p[k] = Len(h[k]) + 1 /\ p[k + 1] = Len(h[k]) + Len(x) + 1
    BY <2>1, <2>4
  <2> HIDE DEF p
  <2>9. t[p[k]] = x[1]
    BY <2>7, <2>8
  <2>10. CASE x[1] \in ValueOptions
    <3>1. Len(x) = 2
      BY <2>3, <2>10
    <3>2. p[k + 1] = p[k] + 2
      BY <2>5, <2>8, <3>1
    <3> QED BY <2>9, <2>10, <3>2
  <2>11. CASE x[1] \notin ValueOptions
    <3>1. p[k + 1] = p[k] + 1
      BY <2>3, <2>5, <2>8, <2>11
    <3> QED BY <2>3, <2>9, <2>11, <3>1
  <2> QED BY <2>10, <2>11
<1>12. t[p[n]] \notin ValueOptions \cup alone
  BY <1>6, <1>9
<1>13. L!Scan(t, alone) = p[n]
  <2> HIDE DEF p
  <2>1. \A k \in 0 .. n - 1 : IF t[p[k]] \in ValueOptions THEN p[k + 1] = p[k] + 2
                               ELSE t[p[k]] \in alone /\ p[k + 1] = p[k] + 1
    BY <1>11
  <2>2. Leads(p, n, t, alone)
    BY <1>9, <1>10, <1>12, <2>1, Zenon DEF Leads
  <2> QED BY <1>7, <2>2, ScanArrives
<1>14. LineOf(o, c, rest) = t
  BY <1>4 DEF t, LineOf
<1> QED BY <1>4, <1>5, <1>9, <1>13, <1>14

\* A line without flags of version 2 is left alone.
LEMMA LegacyLeavesAlone ==
    ASSUME NEW tokens, \A i \in DOMAIN tokens : tokens[i] \notin DOMAIN MCLegacyOf
    PROVE  L!LegacyArgs(tokens) = tokens
BY DEF L!LegacyArgs

\* What stands where in a line: no flag of version 2 except as its verb.
LEMMA LineTokens ==
    ASSUME NEW U, OptionTokens \subseteq U,
           NEW F \in Seq(OptionTokens), NEW c \in U, NEW rest \in Seq(U),
           \A i \in 1 .. Len(rest) : rest[i] \notin DOMAIN MCLegacyOf
    PROVE  \A i \in DOMAIN (F \o <<c>> \o rest) :
              i # Len(F) + 1 => (F \o <<c>> \o rest)[i] \notin DOMAIN MCLegacyOf
<1> DEFINE t == F \o <<c>> \o rest
<1>1. OptionTokens \cap DOMAIN MCLegacyOf = {}
  BY StartupAssumption DEF L!CommandAssumption, OptionTokens
<1>2. F \in Seq(U) /\ Len(F) \in Nat /\ Len(rest) \in Nat
  OBVIOUS
<1>3. /\ t \in Seq(U) /\ Len(t) = Len(F) + 1 + Len(rest)
      /\ \A i \in 1 .. Len(F) : t[i] = F[i]
      /\ \A i \in 1 .. Len(rest) : t[Len(F) + 1 + i] = rest[i]
  BY <1>2, Pieces
<1>4. DOMAIN t = 1 .. Len(t)
  BY <1>3
<1> HIDE DEF t
<1>5. ASSUME NEW i \in DOMAIN t, i # Len(F) + 1 PROVE t[i] \notin DOMAIN MCLegacyOf
  <2>1. i \in 1 .. Len(F) + 1 + Len(rest)
    BY <1>3, <1>4
  <2>2. CASE i <= Len(F)
    <3>1. i \in 1 .. Len(F) /\ F[i] \in OptionTokens
      BY <1>2, <2>1, <2>2
    <3> QED BY <1>1, <1>3, <3>1
  <2>3. CASE i > Len(F)
    <3>1. i - (Len(F) + 1) \in 1 .. Len(rest) /\ Len(F) + 1 + (i - (Len(F) + 1)) = i
      BY <1>2, <1>5, <2>1, <2>3
    <3>2. t[i] = rest[i - (Len(F) + 1)]
      BY <1>3, <3>1
    <3> QED BY <3>1, <3>2
  <2> QED BY <1>2, <2>1, <2>2, <2>3
<1> QED BY <1>5 DEF t

\* Behind its options a line has a command or an alias, and after it no flag of
\* version 2: it becomes the options, the canonical command and the arguments,
\* which argparse takes apart again, and which translate to themselves.
LEMMA CommandRuns ==
    ASSUME NEW o \in L!UpTo(L!Options, MaxOptions), NEW c \in Commands \cup DOMAIN MCCanonicalOf,
           NEW rest \in Seq(Words)
    PROVE  LET F == L!FlattenSeq(o)
               tk == IF c \in DOMAIN MCCanonicalOf THEN MCCanonicalOf[c] ELSE <<c>>
               t == L!CanonicalArgs(F \o <<c>> \o rest)
           IN /\ F \in Seq(OptionTokens)
              /\ \A i \in DOMAIN (F \o <<c>> \o rest) : (F \o <<c>> \o rest)[i] \notin DOMAIN MCLegacyOf
              /\ L!Parsed(t) = [options |-> F, verb |-> tk[1], arguments |-> Tail(tk) \o rest]
              /\ L!CanonicalArgs(L!LegacyArgs(t)) = t
<1> DEFINE F == L!FlattenSeq(o)
           tk == IF c \in DOMAIN MCCanonicalOf THEN MCCanonicalOf[c] ELSE <<c>>
           a == F \o <<c>> \o rest
           more == Tail(tk) \o rest
           t == F \o <<tk[1]>> \o more
           Apart == ValueOptions \cup Flags \cup DOMAIN MCLegacyOf
<1>1. /\ OptionTokens \subseteq Vocabulary /\ Words \subseteq Vocabulary
      /\ Commands \cup DOMAIN MCCanonicalOf \subseteq Vocabulary
  BY DEF Vocabulary, OptionTokens
<1>2. /\ (Commands \cup DOMAIN MCCanonicalOf) \cap Apart = {}
      /\ Commands \cap DOMAIN MCCanonicalOf = {} /\ Words \cap DOMAIN MCLegacyOf = {}
      /\ DOMAIN MCLegacyOf \cap ValueOptions = {}
  BY StartupAssumption DEF L!CommandAssumption
<1>3. tk \in Seq(Commands \cup DOMAIN MCCanonicalOf) /\ tk # << >> /\ tk[1] \in Commands
  <2>1. CASE c \in DOMAIN MCCanonicalOf
    <3>1. /\ MCCanonicalOf[c] \in Seq(Commands \cup DOMAIN MCCanonicalOf) /\ MCCanonicalOf[c] # << >>
          /\ MCCanonicalOf[c][1] \in Commands
      BY <2>1, StartupAssumption, Zenon DEF L!CommandAssumption
    <3> QED BY <2>1, <3>1, Zenon
  <2>2. CASE c \notin DOMAIN MCCanonicalOf
    <3>1. tk = <<c>> /\ c \in Commands
      BY <2>2
    <3> HIDE DEF tk
    <3> QED BY <3>1
  <2> QED BY <2>1, <2>2
<1> HIDE DEF tk
<1>4. /\ Tail(tk) \in Seq(Commands \cup DOMAIN MCCanonicalOf)
      /\ tk = <<tk[1]>> \o Tail(tk)
  <2> DEFINE C == Commands \cup DOMAIN MCCanonicalOf
  <2>1. tk \in Seq(C) /\ tk # << >>
    BY <1>3
  <2> HIDE DEF C
  <2>2. /\ Tail(tk) \in Seq(C) /\ Len(Tail(tk)) = Len(tk) - 1 /\ Len(tk) \in Nat \ {0}
        /\ \A i \in 1 .. Len(Tail(tk)) : Tail(tk)[i] = tk[i + 1]
    BY <2>1
  <2>3. tk[1] \in C /\ <<tk[1]>> \in Seq(C) /\ Len(<<tk[1]>>) = 1 /\ <<tk[1]>>[1] = tk[1]
    BY <2>1, <2>2
  <2>4. /\ <<tk[1]>> \o Tail(tk) \in Seq(C) /\ Len(<<tk[1]>> \o Tail(tk)) = Len(tk)
        /\ \A i \in 1 .. Len(tk) : (<<tk[1]>> \o Tail(tk))[i] = tk[i]
    BY <2>2, <2>3
  <2>5. tk = <<tk[1]>> \o Tail(tk)
    BY <2>1, <2>4, SeqEqual
  <2> QED BY <2>2, <2>5 DEF C
<1>5. /\ c \in Vocabulary /\ tk[1] \in Vocabulary /\ rest \in Seq(Vocabulary)
      /\ Tail(tk) \in Seq(Vocabulary) /\ more \in Seq(Vocabulary)
  <2>1. c \in Vocabulary /\ tk[1] \in Vocabulary /\ rest \in Seq(Vocabulary)
    BY <1>1, <1>3
  <2>2. Tail(tk) \in Seq(Vocabulary)
    BY <1>1, <1>4
  <2> QED BY <2>1, <2>2
<1>6. \A i \in 1 .. Len(more) : more[i] \notin DOMAIN MCLegacyOf
  <2> DEFINE W == Commands \cup DOMAIN MCCanonicalOf \cup Words
  <2>1. Tail(tk) \in Seq(W) /\ rest \in Seq(W)
    BY <1>4
  <2>2. more \in Seq(W)
    BY <2>1
  <2>3. W \cap DOMAIN MCLegacyOf = {}
    BY <1>2
  <2> HIDE DEF more, W
  <2> QED BY <2>2, <2>3
<1>7. \A i \in 1 .. Len(rest) : rest[i] \notin DOMAIN MCLegacyOf
  BY <1>2
<1> HIDE DEF tk, more
<1>8. /\ F \in Seq(OptionTokens)
      /\ L!Scan(a, Flags \cup DOMAIN MCLegacyOf) = Len(F) + 1
  <2>1. c \notin ValueOptions \cup (Flags \cup DOMAIN MCLegacyOf)
    BY <1>2
  <2>2. Flags \subseteq Flags \cup DOMAIN MCLegacyOf
    OBVIOUS
  <2>3. LineOf(o, c, rest) = a
    BY DEF LineOf
  <2>4. F \in Seq(OptionTokens) /\ L!Scan(LineOf(o, c, rest), Flags \cup DOMAIN MCLegacyOf) = Len(F) + 1
    <3> HIDE DEF a, t
    <3> QED BY <1>5, <2>1, <2>2, ScanOfLine
  <2> QED BY <2>3, <2>4
<1>9. L!Scan(t, Flags \cup DOMAIN MCLegacyOf) = Len(F) + 1 /\ L!Scan(t, Flags) = Len(F) + 1
  <2>1. tk[1] \notin ValueOptions \cup (Flags \cup DOMAIN MCLegacyOf) /\ tk[1] \notin ValueOptions \cup Flags
    BY <1>2, <1>3
  <2>2. Flags \subseteq Flags \cup DOMAIN MCLegacyOf /\ Flags \subseteq Flags
    OBVIOUS
  <2> DEFINE d == tk[1]
  <2>3. LineOf(o, d, more) = t
    BY DEF LineOf
  <2>4. d \in Vocabulary /\ d \notin ValueOptions \cup (Flags \cup DOMAIN MCLegacyOf)
        /\ d \notin ValueOptions \cup Flags
    BY <1>5, <2>1
  <2> HIDE DEF d, t, a
  <2>5. L!Scan(LineOf(o, d, more), Flags \cup DOMAIN MCLegacyOf) = Len(F) + 1
    BY <1>5, <2>2, <2>4, ScanOfLine
  <2>6. L!Scan(LineOf(o, d, more), Flags) = Len(F) + 1
    BY <1>5, <2>2, <2>4, ScanOfLine
  <2> QED BY <2>3, <2>5, <2>6
<1> HIDE DEF F
<1>10. F \in Seq(Vocabulary) /\ Len(F) \in Nat
  BY <1>1, <1>8
<1>11. /\ Len(a) = Len(F) + 1 + Len(rest) /\ a[Len(F) + 1] = c
       /\ SubSeq(a, 1, Len(F)) = F /\ SubSeq(a, Len(F) + 2, Len(a)) = rest
       /\ a \in Seq(Vocabulary)
  BY <1>5, <1>10, Pieces
<1>12. /\ t[Len(F) + 1] = tk[1]
       /\ SubSeq(t, 1, Len(F)) = F /\ SubSeq(t, Len(F) + 2, Len(t)) = more
       /\ t \in Seq(Vocabulary)
  <2> DEFINE d == tk[1]
  <2>1. d \in Vocabulary
    BY <1>5
  <2> HIDE DEF d
  <2>2. LET u == F \o <<d>> \o more IN
        /\ u[Len(F) + 1] = d
        /\ SubSeq(u, 1, Len(F)) = F /\ SubSeq(u, Len(F) + 2, Len(u)) = more
        /\ u \in Seq(Vocabulary)
    BY <1>5, <1>10, <2>1, Pieces
  <2> QED BY <2>2 DEF d
<1>13. (Len(F) + 1) - 1 = Len(F) /\ (Len(F) + 1) + 1 = Len(F) + 2 /\ Len(F) + 1 # 0
  BY <1>10
<1>14. F \o tk \o rest = t
  <2>1. /\ <<tk[1]>> \in Seq(Vocabulary) /\ tk = <<tk[1]>> \o Tail(tk)
        /\ Tail(tk) \in Seq(Vocabulary) /\ F \in Seq(Vocabulary) /\ rest \in Seq(Vocabulary)
    BY <1>4, <1>5, <1>10
  <2> DEFINE one == <<tk[1]>>
             others == Tail(tk)
  <2>2. /\ one \in Seq(Vocabulary) /\ tk = one \o others
        /\ others \in Seq(Vocabulary) /\ F \in Seq(Vocabulary) /\ rest \in Seq(Vocabulary)
    BY <2>1
  <2>3. t = (F \o one) \o (others \o rest)
    BY DEF more
  <2> HIDE DEF one, others, t
  <2>4. Joined(Joined(F, Joined(one, others)), rest) = Joined(Joined(F, one), Joined(others, rest))
    BY <2>2, Reassociate
  <2> QED BY <2>2, <2>3, <2>4, Zenon DEF Joined
<1>15. L!CanonicalArgs(a) = t
  <2>1. L!CommandIndex(a) = Len(F) + 1
    BY <1>8 DEF L!CommandIndex
  <2>2. CASE c \in DOMAIN MCCanonicalOf
    <3>1. tk = MCCanonicalOf[c]
      BY <2>2 DEF tk
    <3>2. L!CanonicalArgs(a) = SubSeq(a, 1, Len(F)) \o MCCanonicalOf[c] \o SubSeq(a, Len(F) + 2, Len(a))
      <4> HIDE DEF a, t
      <4> QED BY <1>11, <1>13, <2>1, <2>2 DEF L!CanonicalArgs
    <3> HIDE DEF a, t
    <3> QED BY <1>11, <1>14, <3>1, <3>2
  <2>3. CASE c \notin DOMAIN MCCanonicalOf
    <3>1. tk = <<c>>
      BY <2>3 DEF tk
    <3>2. L!CanonicalArgs(a) = a
      <4> HIDE DEF a, t
      <4> QED BY <1>11, <2>1, <2>3 DEF L!CanonicalArgs
    <3>3. F \o tk \o rest = a
      BY <3>1
    <3> HIDE DEF a, t
    <3> QED BY <1>14, <3>2, <3>3
  <2> QED BY <2>2, <2>3
<1>16. L!Parsed(t) = [options |-> F, verb |-> tk[1], arguments |-> more]
  <2> HIDE DEF t
  <2> QED BY <1>3, <1>9, <1>12, <1>13 DEF L!Parsed
<1>17. L!LegacyArgs(t) = t
  <2>1. \A i \in DOMAIN t : i # Len(F) + 1 => t[i] \notin DOMAIN MCLegacyOf
    BY <1>1, <1>5, <1>6, <1>8, LineTokens DEF F
  <2>2. t[Len(F) + 1] \notin DOMAIN MCLegacyOf
    BY <1>2, <1>3, <1>12
  <2> HIDE DEF t
  <2> QED BY <2>1, <2>2, LegacyLeavesAlone
<1>18. L!CanonicalArgs(t) = t
  <2>1. t[L!CommandIndex(t)] \notin DOMAIN MCCanonicalOf
    <3> HIDE DEF t
    <3> QED BY <1>2, <1>3, <1>9, <1>12 DEF L!CommandIndex
  <2> HIDE DEF t
  <2> QED BY <2>1 DEF L!CanonicalArgs
<1>19. \A i \in DOMAIN a : a[i] \notin DOMAIN MCLegacyOf
  <2>1. \A i \in DOMAIN a : i # Len(F) + 1 => a[i] \notin DOMAIN MCLegacyOf
    BY <1>1, <1>5, <1>7, <1>8, LineTokens DEF F
  <2>2. a[Len(F) + 1] \notin DOMAIN MCLegacyOf
    BY <1>2, <1>11
  <2> HIDE DEF a
  <2> QED BY <2>1, <2>2
<1>20. L!CanonicalArgs(L!LegacyArgs(t)) = t
  <2> HIDE DEF t
  <2> QED BY <1>17, <1>18
<1>21. /\ F \in Seq(OptionTokens) /\ \A i \in DOMAIN a : a[i] \notin DOMAIN MCLegacyOf
       /\ L!Parsed(L!CanonicalArgs(a)) = [options |-> F, verb |-> tk[1], arguments |-> more]
       /\ L!CanonicalArgs(L!LegacyArgs(L!CanonicalArgs(a))) = L!CanonicalArgs(a)
  <2> HIDE DEF a, t
  <2> QED BY <1>8, <1>15, <1>16, <1>19, <1>20 DEF F
<1> QED BY <1>21, Zenon DEF F, tk, a, more

\* A flag of version 2 becomes its command, on a line that is not ambiguous.
LEMMA FlagBecomesCommand ==
    ASSUME NEW F \in Seq(OptionTokens), NEW v \in DOMAIN MCLegacyOf, NEW rest \in Seq(Words),
           \A i \in DOMAIN (F \o <<v>> \o rest) : (F \o <<v>> \o rest)[i] \notin Known
    PROVE  L!LegacyArgs(F \o <<v>> \o rest) = F \o <<MCLegacyOf[v]>> \o rest
<1> DEFINE b == F \o <<v>> \o rest
           c == MCLegacyOf[v]
           a == F \o <<c>> \o rest
           g == Len(F) + 1
<1>1. /\ OptionTokens \subseteq Vocabulary /\ Words \subseteq Vocabulary
      /\ v \in Vocabulary /\ F \in Seq(Vocabulary) /\ rest \in Seq(Vocabulary)
  BY DEF Vocabulary, OptionTokens
<1>2. c \in Vocabulary /\ Words \cap DOMAIN MCLegacyOf = {}
  BY StartupAssumption DEF L!CommandAssumption, Vocabulary
<1>3. /\ b \in Seq(Vocabulary) /\ Len(b) = Len(F) + 1 + Len(rest) /\ b[g] = v
      /\ \A i \in 1 .. Len(F) : b[i] = F[i]
      /\ \A i \in 1 .. Len(rest) : b[Len(F) + 1 + i] = rest[i]
  BY <1>1, Pieces
<1> HIDE DEF c
<1>4. /\ a \in Seq(Vocabulary) /\ Len(a) = Len(F) + 1 + Len(rest) /\ a[g] = c
      /\ \A i \in 1 .. Len(F) : a[i] = F[i]
      /\ \A i \in 1 .. Len(rest) : a[Len(F) + 1 + i] = rest[i]
  BY <1>1, <1>2, Pieces
<1>5. \A i \in DOMAIN b : i # g => b[i] \notin DOMAIN MCLegacyOf
  <2>1. \A i \in 1 .. Len(rest) : rest[i] \notin DOMAIN MCLegacyOf
    BY <1>2
  <2> QED BY <1>1, <2>1, LineTokens
<1>6. \A i \in DOMAIN b : b[i] \notin Known
  OBVIOUS
<1>7. Len(F) \in Nat /\ Len(rest) \in Nat
  BY <1>1
<1> HIDE DEF a, b
<1>8. DOMAIN b = 1 .. Len(b) /\ DOMAIN a = 1 .. Len(a) /\ g \in DOMAIN b
  BY <1>3, <1>4, <1>7
<1>9. {i \in DOMAIN b : b[i] \in DOMAIN MCLegacyOf} = {g}
  <2> HIDE DEF g
  <2> QED BY <1>3, <1>5, <1>8
<1>10. L!Least({g}) = g
  BY <1>7 DEF L!Least
<1>11. L!LegacyArgs(b) = [b EXCEPT ![g] = c]
  <2> HIDE DEF g
  <2> QED BY <1>3, <1>6, <1>9, <1>10 DEF L!LegacyArgs, c
<1>12. [b EXCEPT ![g] = c] = a
  <2> DEFINE e == [b EXCEPT ![g] = c]
  <2>1. e \in Seq(Vocabulary) /\ Len(e) = Len(b)
    BY <1>2, <1>3 DEF c
  <2>2. ASSUME NEW i \in 1 .. Len(e) PROVE e[i] = a[i]
    <3>1. i \in DOMAIN b /\ e[i] = IF i = g THEN c ELSE b[i]
      BY <1>8, <2>1, <2>2
    <3>2. i \in 1 .. Len(F) + 1 + Len(rest)
      BY <1>3, <2>1
    <3> HIDE DEF e
    <3>3. CASE i = g
      BY <1>4, <3>1, <3>3
    <3>4. CASE i <= Len(F)
      <4>1. i \in 1 .. Len(F) /\ i # g
        BY <1>7, <3>2, <3>4
      <4> QED BY <1>3, <1>4, <3>1, <4>1
    <3>5. CASE i > g
      <4>1. i - g \in 1 .. Len(rest) /\ Len(F) + 1 + (i - g) = i /\ i # g
        BY <1>7, <3>2, <3>5
      <4> QED BY <1>3, <1>4, <3>1, <4>1
    <3> QED BY <1>7, <3>2, <3>3, <3>4, <3>5
  <2> HIDE DEF e
  <2>3. e = a
    BY <1>3, <1>4, <2>1, <2>2, SeqEqual
  <2> QED BY <2>3 DEF e
<1> QED BY <1>11, <1>12 DEF a, b, c

\* What a line that is not ambiguous becomes: what it means.
LEMMA LineRuns ==
    ASSUME NEW l \in L!Lines, ~L!Ambiguous(l)
    PROVE  LET t == L!CanonicalArgs(L!LegacyArgs(L!Tokens(l)))
           IN L!Parsed(t) = L!Meant(l) /\ L!CanonicalArgs(L!LegacyArgs(t)) = t
<1> DEFINE o == l.options
           rest == l.arguments
           F == L!FlattenSeq(o)
           c == L!Command(l.verb)
           a == F \o <<c>> \o rest
<1>1. /\ o \in L!UpTo(L!Options, MaxOptions) /\ rest \in L!UpTo(Words, MaxArguments)
      /\ l.verb \in Commands \cup DOMAIN MCCanonicalOf \cup DOMAIN MCLegacyOf
  BY DEF L!Lines
<1>2. rest \in Seq(Words)
  <2>1. MaxArguments \in Nat
    BY StartupAssumption DEF L!CommandAssumption
  <2> HIDE DEF rest
  <2> QED BY <1>1, <2>1 DEF L!UpTo
<1>3. c \in Commands \cup DOMAIN MCCanonicalOf
  BY <1>1, StartupAssumption DEF L!CommandAssumption, L!Command
<1> HIDE DEF c
<1>4. /\ F \in Seq(OptionTokens)
      /\ \A i \in DOMAIN a : a[i] \notin DOMAIN MCLegacyOf
      /\ L!Parsed(L!CanonicalArgs(a)) =
            LET tk == IF c \in DOMAIN MCCanonicalOf THEN MCCanonicalOf[c] ELSE <<c>>
            IN [options |-> F, verb |-> tk[1], arguments |-> Tail(tk) \o rest]
      /\ L!CanonicalArgs(L!LegacyArgs(L!CanonicalArgs(a))) = L!CanonicalArgs(a)
  <2> HIDE DEF o, rest
  <2> QED BY <1>1, <1>2, <1>3, CommandRuns, Zenon
<1>5. L!Tokens(l) = F \o <<l.verb>> \o rest
  BY DEF L!Tokens
<1>6. L!LegacyArgs(L!Tokens(l)) = a
  <2>1. CASE l.verb \in DOMAIN MCLegacyOf
    <3>1. \A i \in DOMAIN L!Tokens(l) : L!Tokens(l)[i] \notin Known
      BY <2>1 DEF L!Ambiguous
    <3>2. c = MCLegacyOf[l.verb]
      BY <2>1 DEF c, L!Command
    <3>3. \A i \in DOMAIN (F \o <<l.verb>> \o rest) : (F \o <<l.verb>> \o rest)[i] \notin Known
      BY <1>5, <3>1, Zenon
    <3>4. F \in Seq(OptionTokens)
      BY <1>4
    <3> HIDE DEF F, rest
    <3>5. L!LegacyArgs(F \o <<l.verb>> \o rest) = F \o <<MCLegacyOf[l.verb]>> \o rest
      BY <1>2, <2>1, <3>3, <3>4, FlagBecomesCommand, Zenon
    <3> QED BY <1>5, <3>2, <3>5, Zenon
  <2>2. CASE l.verb \notin DOMAIN MCLegacyOf
    <3>1. L!Tokens(l) = a
      BY <1>5, <2>2 DEF c, L!Command
    <3> HIDE DEF a
    <3> QED BY <1>4, <3>1, LegacyLeavesAlone
  <2> QED BY <2>1, <2>2
<1>7. L!Parsed(L!CanonicalArgs(a)) = L!Meant(l)
  <2> HIDE DEF a, F
  <2> QED BY <1>4 DEF L!Meant, F, c
<1> HIDE DEF a
<1> QED BY <1>4, <1>6, <1>7

\* Where a line is on its way, its tokens are those of that line.
CommandInv ==
    /\ at \in {"prompt", "typed", "translated", "parsed"}
    /\ at # "prompt" => line \in L!Lines
    /\ at = "typed" => argv = L!Tokens(line)
    /\ at \in {"translated", "parsed"} => argv = L!CanonicalArgs(L!LegacyArgs(L!Tokens(line)))
    /\ at = "parsed" => parsed = L!Parsed(argv)

LEMMA CommandStepInv == CommandInv /\ [L!Next]_(L!commandVars) => CommandInv'
<1> SUFFICES ASSUME CommandInv, [L!Next]_(L!commandVars) PROVE CommandInv'
  OBVIOUS
<1>1. ASSUME NEW l \in L!Lines, L!Type(l) PROVE CommandInv'
  BY <1>1 DEF L!Type, CommandInv
<1>2. CASE L!Translate
  BY <1>2 DEF L!Translate, CommandInv
<1>3. CASE L!Parse
  BY <1>3 DEF L!Parse, CommandInv
<1>4. CASE L!Prompt
  BY <1>4 DEF L!Prompt, CommandInv
<1>5. CASE UNCHANGED L!commandVars
  BY <1>5 DEF L!commandVars, CommandInv
<1> QED BY <1>1, <1>2, <1>3, <1>4, <1>5 DEF L!Next

\* Whatever line is typed, argparse is given the canonical command of its verb
\* with the options and arguments as typed, and a second translation changes
\* nothing; a flag of version 2 beside a command's name is the exception
\* (cli.normalize_legacy_args and commandcleanup360 around it).
THEOREM TypedIsRun == Spec => []RunsWhatWasTyped
<1>1. L!Init => CommandInv
  BY DEF L!Init, CommandInv
<1>2. CommandInv => L!RunsWhatWasTyped
  <2> SUFFICES ASSUME CommandInv, ~L!Ambiguous(line), at \in {"translated", "parsed"}
               PROVE  /\ at = "parsed" => parsed = L!Meant(line)
                      /\ L!CanonicalArgs(L!LegacyArgs(argv)) = argv
    BY DEF L!RunsWhatWasTyped
  <2>1. /\ line \in L!Lines /\ argv = L!CanonicalArgs(L!LegacyArgs(L!Tokens(line)))
        /\ at = "parsed" => parsed = L!Parsed(argv)
    BY DEF CommandInv
  <2>2. L!Parsed(argv) = L!Meant(line) /\ L!CanonicalArgs(L!LegacyArgs(argv)) = argv
    BY <2>1, LineRuns
  <2> QED BY <2>1, <2>2
<1>3. L!RunsWhatWasTyped => RunsWhatWasTyped
  BY DEF RunsWhatWasTyped
<1> QED BY <1>1, <1>2, <1>3, CommandStepInv, PartsRun, PTL
=============================================================================
