---------------------------- MODULE AccessProofs ----------------------------
(***************************************************************************)
(* Proofs about AuthStore, for any users, workspaces, sessions, web server *)
(* and command line processes, password resets and kills; about the parts  *)
(* of MCAccess that share no state with it; and about the specification    *)
(* that runs them all:                                                     *)
(*   TypeCorrect         Spec => []TypeOK                                  *)
(*   AccountsAreSound    Spec => []AccountsSound                           *)
(*   ChangesAreHeld      Spec => ChangesHold                               *)
(*   ServersAlwaysAgree  AccessSpec => []ServersAgree                      *)
(*   KeysStayOwn         AccessSpec => KeysAreOwn                          *)
(*   PresetsAlwaysHold   AccessSpec => PresetsHold                         *)
(*   GateAlwaysHolds     AccessSpec => GateHolds                           *)
(*   AccessTypeCorrect   AccessSpec => []AccessTypeOK                      *)
(*   AccountsHold        AccessSpec => []AccountsSound /\ ChangesHold      *)
(*                                                                         *)
(* Each part has its invariant.  IInv, of AuthStore, says which of the     *)
(* facts an operation has read are still true when it writes: all of them  *)
(* where it holds SQLite's write lock (CreateInv), and where it does not,  *)
(* that a user exists (UserInv) and, until another account is disabled,    *)
(* that another administrator is enabled (CountInv).  SecretInv and TlsInv *)
(* follow the files that servers create at once, one step after the other; *)
(* TrustInv says whose key is in the file two verifications may share;     *)
(* EnrollInv says, of each place nobody hurt, that its key is its          *)
(* certificate's or its one writer's, and that all certificates are the    *)
(* authority's; PresetInv says that the table holds no more rows of a      *)
(* scope than the list shows; GateInv says where the failures of a         *)
(* client's last minute are: in the list its waiting attempt holds, which  *)
(* has room for one more, or else in the stored one.                       *)
(***************************************************************************)
EXTENDS MCAccess, TLAPS, FiniteSetTheorems

-----------------------------------------------------------------------------
(* The identity database. *)


\* What a process holds tells where it is.
LEMMA ProcShape ==
    ASSUME TypeOK, NEW p \in Procs
    PROVE  /\ At(p, "idle") => proc[p] = Idle
           /\ At(p, "insert") => proc[p] \in NewUsers \cup NewSpaces
           /\ At(p, "disable") => proc[p] \in Disablings
           /\ At(p, "login") \/ At(p, "token") => proc[p] \in SignIns
           /\ \/ At(p, "idle") \/ At(p, "insert") \/ At(p, "disable")
              \/ At(p, "login") \/ At(p, "token")
BY DEF TypeOK, At, Idle, NewUsers, NewSpaces, Disablings, SignIns

\* The rows that exist are well-formed.
LEMMA RowShape ==
    ASSUME TypeOK
    PROVE  /\ \A u \in Known : user[u] \in Accounts
           /\ \A u \in Users : u \notin Known => user[u] = NoUser
           /\ \A w \in Workspaces : workspace[w] # NoWorkspace => workspace[w] \in Spaces
           /\ \A s \in Sessions : session[s] # NoSession => session[s] \in Tickets
BY DEF TypeOK, Known

\* The empty database is typed.
LEMMA InitTyped == Init => TypeOK
BY AuthStoreAssumption DEF Init, TypeOK, Idle, NoUser, NoWorkspace, NoSession

\* Taking the write lock for a creation keeps the types.
LEMMA LockTyped ==
    ASSUME TypeOK, NEW p \in Procs, NEW w \in Workspaces,
           NEW state \in NewUsers \cup NewSpaces, Lock(p, state, w)
    PROVE  TypeOK'
BY DEF TypeOK, Lock, Goto

\* So does every step.
LEMMA StepTyped == TypeOK /\ [Next]_vars => TypeOK'
<1> SUFFICES ASSUME TypeOK, [Next]_vars PROVE TypeOK'
  OBVIOUS
<1>1. ASSUME NEW p \in Procs, NEW u \in Users, NEW w \in Workspaces, BeginSetup(p, u, w)
      PROVE  TypeOK'
  <2> DEFINE state == [at |-> "insert", what |-> "admin", user |-> u,
                       role |-> "administrator", workspace |-> w]
  <2>1. state \in NewUsers
    BY DEF NewUsers
  <2> HIDE DEF state
  <2> QED BY <1>1, <2>1, LockTyped DEF BeginSetup, state
<1>2. ASSUME NEW p \in Procs, NEW u \in Users, NEW w \in Workspaces,
             NEW role \in {"user", "administrator"}, BeginUser(p, u, role, w)
      PROVE  TypeOK'
  <2> DEFINE state == [at |-> "insert", what |-> "user", user |-> u, role |-> role,
                       workspace |-> w]
  <2>1. state \in NewUsers
    BY DEF NewUsers
  <2> HIDE DEF state
  <2> QED BY <1>2, <2>1, LockTyped DEF BeginUser, state
<1>3. ASSUME NEW p \in Procs, NEW u \in Users, NEW w \in Workspaces, NEW name \in Names,
             BeginWorkspace(p, u, name, w)
      PROVE  TypeOK'
  <2> DEFINE state == [at |-> "insert", what |-> "workspace", user |-> u, workspace |-> w,
                       name |-> name]
  <2>1. state \in NewSpaces
    BY DEF NewSpaces
  <2> HIDE DEF state
  <2> QED BY <1>3, <2>1, LockTyped DEF BeginWorkspace, state
<1>4. ASSUME NEW p \in Procs, Commit(p) PROVE TypeOK'
  <2>1. proc[p] \in NewUsers \cup NewSpaces
    BY <1>4, ProcShape DEF Commit
  <2>2. proc[p].what # "workspace" => [role |-> proc[p].role, disabled |-> FALSE,
                                       password |-> 0] \in Accounts
    BY <2>1, AuthStoreAssumption DEF NewUsers, NewSpaces, Accounts
  <2>3. [owner |-> proc[p].user, name |-> IF proc[p].what = "workspace" THEN proc[p].name
                                          ELSE Default] \in Spaces
    BY <2>1, AuthStoreAssumption DEF NewUsers, NewSpaces, Spaces
  <2>4. proc[p].user \in Users /\ proc[p].workspace \in Workspaces
    BY <2>1 DEF NewUsers, NewSpaces
  <2> QED BY <1>4, <2>2, <2>3, <2>4 DEF TypeOK, Commit, Goto
<1>5. ASSUME NEW p \in Procs, Rollback(p) PROVE TypeOK'
  BY <1>5 DEF TypeOK, Rollback, Goto
<1>6. ASSUME NEW p \in Procs, Crash(p) PROVE TypeOK'
  BY <1>6, AuthStoreAssumption DEF TypeOK, Crash, Goto
<1>7. ASSUME NEW p \in Procs, NEW u \in Users, DisableRead(p, u) PROVE TypeOK'
  BY <1>7 DEF TypeOK, DisableRead, Goto, Disablings
<1>8. ASSUME NEW p \in Procs, DisableWrite(p) PROVE TypeOK'
  <2>1. proc[p] \in Disablings
    BY <1>8, ProcShape DEF DisableWrite
  <2>2. \A q \in Procs : At(q, "disable") => [proc[q] EXCEPT !.stale = TRUE] \in Disablings
    BY ProcShape DEF Disablings
  <2>3. \A u \in Users : [user[u] EXCEPT !.disabled = TRUE] \in {NoUser} \cup Accounts
    BY RowShape DEF Accounts, NoUser
  <2> QED BY <1>8, <2>1, <2>2, <2>3 DEF TypeOK, DisableWrite, WithoutSessionsOf, Disablings
<1>9. ASSUME NEW p \in Procs, NEW u \in Users, Enable(p, u) PROVE TypeOK'
  <2>1. [user[u] EXCEPT !.disabled = FALSE] \in Accounts
    BY <1>9, RowShape DEF Accounts, Enable
  <2> QED BY <1>9, <2>1 DEF TypeOK, Enable
<1>10. ASSUME NEW p \in Procs, NEW u \in Users, ResetPassword(p, u) PROVE TypeOK'
  <2>1. [user[u] EXCEPT !.password = @ + 1] \in Accounts
    BY <1>10, RowShape, AuthStoreAssumption DEF Accounts, ResetPassword
  <2> QED BY <1>10, <2>1 DEF TypeOK, ResetPassword, WithoutSessionsOf
<1>11. ASSUME NEW p \in Procs, NEW u \in Users, Authenticate(p, u) PROVE TypeOK'
  <2>1. user[u] \in Accounts
    BY <1>11, RowShape DEF Authenticate
  <2>2. [at |-> "login", user |-> u, password |-> user[u].password] \in SignIns
    BY <2>1 DEF SignIns, Accounts
  <2> QED BY <1>11, <2>2 DEF TypeOK, Authenticate, Goto
<1>12. ASSUME NEW p \in Procs, SessionRead(p) PROVE TypeOK'
  <2>1. [proc[p] EXCEPT !.at = "token"] \in SignIns
    BY <1>12, ProcShape DEF SessionRead, SignIns
  <2> QED BY <1>12, <2>1 DEF TypeOK, SessionRead, Goto
<1>13. ASSUME NEW p \in Procs, NEW s \in Sessions, SessionInsert(p, s) PROVE TypeOK'
  <2>1. proc[p] \in SignIns
    BY <1>13, ProcShape DEF SessionInsert
  <2>2. \A w \in Workspaces : [user |-> proc[p].user, workspace |-> w,
             password |-> proc[p].password, expired |-> FALSE] \in Tickets
    BY <2>1 DEF SignIns, Tickets
  <2> QED BY <1>13, <2>2 DEF TypeOK, SessionInsert, Goto, Owned
<1>14. ASSUME NEW p \in Procs, NEW s \in Sessions, DropSession(p, s) PROVE TypeOK'
  BY <1>14 DEF TypeOK, DropSession
<1>15. ASSUME NEW p \in Procs, NEW s \in Sessions, NEW w \in Workspaces,
              SelectWorkspace(p, s, w)
       PROVE  TypeOK'
  <2>1. [session[s] EXCEPT !.workspace = w] \in Tickets
    BY <1>15, RowShape DEF SelectWorkspace, Resolves, Tickets
  <2> QED BY <1>15, <2>1 DEF TypeOK, SelectWorkspace
<1>16. ASSUME NEW s \in Sessions, Expire(s) PROVE TypeOK'
  <2>1. [session[s] EXCEPT !.expired = TRUE] \in Tickets
    BY <1>16, RowShape DEF Expire, Tickets
  <2> QED BY <1>16, <2>1 DEF TypeOK, Expire
<1>17. CASE UNCHANGED vars
  BY <1>17 DEF TypeOK, vars
<1> QED
  BY <1>1, <1>2, <1>3, <1>4, <1>5, <1>6, <1>7, <1>8, <1>9, <1>10, <1>11, <1>12, <1>13,
     <1>14, <1>15, <1>16, <1>17 DEF Next, Create, Administer, UseSessions

\* Every reachable state is typed: in particular create_session inserts no session
\* without a workspace, and no row is changed that is not there.
THEOREM TypeCorrect == Spec => []TypeOK
BY InitTyped, StepTyped, PTL DEF Spec

-----------------------------------------------------------------------------

\* Creation holds SQLite's write lock from its checks to its commit.
LockInv == \A p \in Procs : At(p, "insert") => writer = p

\* So what it checked is still so when it commits: its directory is its own and
\* has no row, its user does not exist, and the first user is an administrator,
\* whether first-run set-up or create_user creates it.
CreateInv == \A p \in Procs : At(p, "insert") =>
    /\ proc[p].workspace \in dirs /\ workspace[proc[p].workspace] = NoWorkspace
    /\ proc[p].what # "workspace" =>
          /\ proc[p].user \notin Known
          /\ Known = {} => proc[p].role = "administrator"
    /\ proc[p].what = "admin" => Known = {}

\* A user is never deleted, so the one an operation has read is still there.
UserInv == \A p \in Procs :
    At(p, "disable") \/ At(p, "login") \/ At(p, "token") => proc[p].user \in Known

\* create_initial_admin has made at most one user.
SetupInv == setups \subseteq Known /\ \A u, v \in setups : u = v

\* The first user is an administrator, and roles do not change.
AdminInv == Known # {} => \E u \in Known : user[u].role = "administrator"

\* Every process that was killed has left one directory at most.
OrphanInv == IsFiniteSet(dirs) /\ OrphansOnlyFromCrashes

\* A count of administrators that nothing has overtaken still holds.
CountInv == \A p \in Procs : At(p, "disable") /\ ~proc[p].stale
    /\ user[proc[p].user].role = "administrator" => EnabledAdmins \ {proc[p].user} # {}

\* What relates the rows to the operations under way.
RowInv == /\ LockInv /\ CreateInv /\ UserInv /\ SetupInv /\ AdminInv
          /\ SessionOwnsWorkspace /\ CountInv

\* The inductive invariant.
IInv == TypeOK /\ RowInv /\ OrphanInv

\* An empty database satisfies the invariant.
LEMMA InitInv == Init => IInv
<1> SUFFICES ASSUME Init PROVE IInv
  OBVIOUS
<1>1. Known = {} /\ \A p \in Procs : proc[p] = Idle
  BY DEF Init, Known
<1>2. OrphanInv
  <2>1. Orphans = {}
    BY DEF Init, Orphans
  <2> QED BY <2>1, FS_EmptySet, AuthStoreAssumption DEF OrphanInv, OrphansOnlyFromCrashes, Init
<1> QED
  BY <1>1, <1>2, InitTyped DEF IInv, RowInv, Init, LockInv, CreateInv, UserInv, SetupInv, AdminInv,
     SessionOwnsWorkspace, CountInv, At, Idle

-----------------------------------------------------------------------------
(* What the steps of several kinds share. *)

\* The directories nobody accounts for become no more.
LEMMA FewerOrphans ==
    ASSUME TypeOK, TypeOK', OrphanInv, Orphans' \subseteq Orphans, IsFiniteSet(dirs'),
           crashes' = crashes
    PROVE  OrphanInv'
<1>1. IsFiniteSet(Orphans)
  BY FS_Subset DEF OrphanInv, Orphans
<1>2. Cardinality(Orphans') <= Cardinality(Orphans) /\ Cardinality(Orphans) \in Nat
      /\ Cardinality(Orphans') \in Nat
  BY <1>1, FS_Subset, FS_CardinalityType
<1> QED BY <1>2, AuthStoreAssumption DEF OrphanInv, OrphansOnlyFromCrashes, TypeOK

\* A creation that takes the lock after its checks.
LEMMA LockKeeps ==
    ASSUME IInv, TypeOK', NEW p \in Procs, NEW w \in Workspaces, NEW state, Lock(p, state, w),
           state.at = "insert", state.workspace = w,
           state.what # "workspace" => /\ state.user \notin Known
                                       /\ Known = {} => state.role = "administrator",
           state.what = "admin" => Known = {}
    PROVE  IInv'
<1> USE DEF IInv, RowInv, Lock
<1>1. proc'[p] = state /\ \A q \in Procs \ {p} : proc'[q] = proc[q]
  BY DEF Goto, TypeOK
<1>2. \A q \in Procs : ~At(q, "insert")
  BY AuthStoreAssumption DEF Writable, LockInv
<1>3. Known' = Known /\ EnabledAdmins' = EnabledAdmins
  BY DEF Known, EnabledAdmins
<1>4. LockInv' /\ CreateInv'
  BY <1>1, <1>2, <1>3 DEF LockInv, CreateInv, At
<1>5. UserInv' /\ CountInv'
  BY <1>1, <1>3 DEF UserInv, CountInv, At
<1>6. SetupInv' /\ AdminInv' /\ SessionOwnsWorkspace'
  BY <1>3 DEF SetupInv, AdminInv, SessionOwnsWorkspace, Owned
<1>7. OrphanInv'
  <2>1. Orphans' \subseteq Orphans
    BY <1>1, <1>2 DEF Orphans, At
  <2>2. IsFiniteSet(dirs')
    BY FS_AddElement DEF OrphanInv
  <2> QED BY <2>1, <2>2, FewerOrphans
<1> QED BY <1>4, <1>5, <1>6, <1>7

\* A process that ends its operation without a row: an exception or a kill.
LEMMA DropKeeps ==
    ASSUME IInv, TypeOK', NEW p \in Procs, Goto(p, Idle),
           writer' = IF writer = p THEN None ELSE writer,
           dirs' \in {dirs, dirs \ {proc[p].workspace}}, At(p, "insert") \/ dirs' = dirs,
           UNCHANGED <<user, workspace, session, setups>>
    PROVE  RowInv'
<1> USE DEF IInv, RowInv
<1>1. proc'[p] = Idle /\ \A q \in Procs \ {p} : proc'[q] = proc[q]
  BY DEF Goto, TypeOK
<1>2. Known' = Known /\ EnabledAdmins' = EnabledAdmins
  BY DEF Known, EnabledAdmins
<1>3. LockInv'
  BY <1>1 DEF LockInv, At, Idle
<1>4. CreateInv'
  <2> SUFFICES ASSUME NEW q \in Procs, At(q, "insert")' PROVE At(q, "insert") /\ dirs' = dirs
                                                              /\ q # p
    BY <1>1, <1>2 DEF CreateInv
  <2> QED BY <1>1 DEF At, Idle, LockInv
<1>5. UserInv' /\ CountInv'
  BY <1>1, <1>2 DEF UserInv, CountInv, At, Idle
<1>6. SetupInv' /\ AdminInv' /\ SessionOwnsWorkspace'
  BY <1>2 DEF SetupInv, AdminInv, SessionOwnsWorkspace, Owned
<1> QED BY <1>3, <1>4, <1>5, <1>6

\* A step that neither creates anything nor ends a creation.
LEMMA QuietKeeps ==
    ASSUME IInv, TypeOK', UNCHANGED <<workspace, dirs, writer, setups, crashes>>,
           \A u \in Users : (u \in Known' <=> u \in Known) /\ user'[u].role = user[u].role,
           \A q \in Procs : \/ At(q, "insert") /\ proc'[q] = proc[q]
                            \/ ~At(q, "insert") /\ ~At(q, "insert")'
    PROVE  LockInv' /\ CreateInv' /\ SetupInv' /\ AdminInv' /\ OrphanInv'
<1> USE DEF IInv, RowInv
<1>1. Known' = Known /\ Known \subseteq Users
  BY DEF Known
<1>2. LockInv' /\ CreateInv'
  BY <1>1 DEF LockInv, CreateInv
<1>3. SetupInv' /\ AdminInv'
  BY <1>1 DEF SetupInv, AdminInv
<1>4. OrphanInv'
  <2>1. Orphans' \subseteq Orphans
    BY DEF Orphans, At
  <2> QED BY <2>1, FewerOrphans DEF OrphanInv
<1> QED BY <1>2, <1>3, <1>4

-----------------------------------------------------------------------------

\* Every step keeps the invariant, whatever the other processes have read.
LEMMA StepInv == IInv /\ [Next]_vars => IInv'
<1> SUFFICES ASSUME IInv, [Next]_vars PROVE IInv'
  OBVIOUS
<1>0. TypeOK /\ TypeOK'
  BY StepTyped DEF IInv
<1>1. ASSUME NEW p \in Procs, NEW u \in Users, NEW w \in Workspaces, BeginSetup(p, u, w)
      PROVE  IInv'
  BY <1>0, <1>1, LockKeeps DEF BeginSetup
<1>2. ASSUME NEW p \in Procs, NEW u \in Users, NEW w \in Workspaces,
             NEW role \in {"user", "administrator"}, BeginUser(p, u, role, w)
      PROVE  IInv'
  <2>1. Known = {} => role = "administrator"
    BY <1>2 DEF BeginUser, EnabledAdmins, Procs
  <2> QED BY <1>0, <1>2, <2>1, LockKeeps DEF BeginUser
<1>3. ASSUME NEW p \in Procs, NEW u \in Users, NEW w \in Workspaces, NEW name \in Names,
             BeginWorkspace(p, u, name, w)
      PROVE  IInv'
  BY <1>0, <1>3, LockKeeps DEF BeginWorkspace
<1>4. ASSUME NEW p \in Procs, Commit(p) PROVE IInv'
  <2> DEFINE new == proc[p]
  <2>1. proc'[p] = Idle /\ \A q \in Procs \ {p} : proc'[q] = proc[q]
    BY <1>0, <1>4 DEF Commit, Goto, TypeOK
  <2>2. \A q \in Procs : At(q, "insert") => q = p
    BY <1>4 DEF IInv, RowInv, LockInv, Commit
  <2>3. new \in NewUsers \cup NewSpaces
    BY <1>0, <1>4, ProcShape DEF Commit
  <2>4. new.user \in Users /\ new.workspace \in Workspaces
        /\ (new.what # "workspace" => new.role \in {"user", "administrator"})
    BY <2>3 DEF NewUsers, NewSpaces
  <2>5. \A u \in Known : user'[u] = user[u] /\ u \in Known'
    <3>1. new.what # "workspace" => new.user \notin Known
      BY <1>4 DEF IInv, RowInv, CreateInv, Commit
    <3> QED BY <1>0, <1>4, <2>4, <3>1 DEF Commit, Known, TypeOK
  <2>6. Known' = IF new.what = "workspace" THEN Known ELSE Known \cup {new.user}
    BY <1>0, <1>4, <2>4, <2>5 DEF Commit, Known, TypeOK, NoUser
  <2>7. LockInv' /\ CreateInv'
    BY <2>1, <2>2 DEF LockInv, CreateInv, At, Idle
  <2>8. UserInv'
    BY <2>1, <2>5 DEF UserInv, At, Idle, IInv, RowInv
  <2>9. SetupInv'
    <3>1. new.what = "admin" => setups = {}
      BY <1>4 DEF IInv, RowInv, SetupInv, CreateInv, Commit
    <3> QED BY <1>4, <2>5, <2>6, <3>1 DEF IInv, RowInv, SetupInv, Commit
  <2>10. AdminInv'
    <3>1. new.what # "workspace" => user'[new.user].role = new.role
      BY <1>0, <1>4, <2>4 DEF Commit, TypeOK
    <3>2. new.what # "workspace" /\ Known = {} => new.role = "administrator"
      BY <1>4 DEF IInv, RowInv, CreateInv, Commit
    <3> QED BY <2>5, <2>6, <3>1, <3>2 DEF IInv, RowInv, AdminInv
  <2>11. SessionOwnsWorkspace'
    <3>1. \A w \in Workspaces : workspace[w] # NoWorkspace => workspace'[w] = workspace[w]
      BY <1>0, <1>4, <2>4 DEF IInv, RowInv, CreateInv, Commit, TypeOK
    <3>2. \A u \in Users : \A w \in Owned(u) : w \in Owned(u)'
      BY <3>1, AuthStoreAssumption DEF Owned, NoWorkspace
    <3>3. session' = session
      BY <1>4 DEF Commit
    <3> QED BY <2>5, <3>2, <3>3 DEF IInv, RowInv, SessionOwnsWorkspace, Known
  <2>12. CountInv'
    <3>1. EnabledAdmins \subseteq EnabledAdmins'
      BY <2>5 DEF EnabledAdmins
    <3> QED BY <2>1, <2>5, <3>1 DEF IInv, RowInv, CountInv, UserInv, At, Idle
  <2>13. OrphanInv'
    <3>1. Orphans' \subseteq Orphans
      <4>1. workspace'[new.workspace] # NoWorkspace
        BY <1>0, <1>4, <2>4 DEF Commit, TypeOK, NoWorkspace
      <4>2. \A w \in Workspaces \ {new.workspace} : workspace'[w] = workspace[w]
        BY <1>0, <1>4, <2>4 DEF Commit, TypeOK
      <4> QED BY <1>0, <1>4, <2>1, <2>2, <4>1, <4>2 DEF Orphans, At, Idle, Commit, TypeOK
    <3> QED BY <1>0, <1>4, <3>1, FewerOrphans DEF Commit, IInv, OrphanInv
  <2> QED BY <1>0, <2>7, <2>8, <2>9, <2>10, <2>11, <2>12, <2>13 DEF IInv, RowInv
<1>5. ASSUME NEW p \in Procs, Rollback(p) PROVE IInv'
  <2>1. writer = p /\ Goto(p, Idle)
    BY <1>5 DEF Rollback, IInv, RowInv, LockInv
  <2>2. RowInv'
    BY <1>0, <1>5, <2>1, DropKeeps DEF Rollback
  <2>3. OrphanInv'
    <3>1. Orphans' \subseteq Orphans
      BY <1>0, <1>5, <2>1 DEF Orphans, Rollback, Goto, TypeOK, At, Idle, IInv, RowInv, LockInv
    <3>2. IsFiniteSet(dirs')
      BY <1>5, FS_RemoveElement DEF Rollback, IInv, OrphanInv
    <3> QED BY <1>0, <1>5, <3>1, <3>2, FewerOrphans DEF Rollback, IInv
  <2> QED BY <1>0, <2>2, <2>3 DEF IInv
<1>6. ASSUME NEW p \in Procs, Crash(p) PROVE IInv'
  <2>1. RowInv'
    BY <1>0, <1>6, DropKeeps DEF Crash
  <2>2. OrphanInv'
    <3>1. Orphans' \subseteq Orphans \cup {proc[p].workspace}
      BY <1>0, <1>6 DEF Orphans, Crash, Goto, TypeOK, At, Idle
    <3>2. IsFiniteSet(Orphans)
      BY FS_Subset DEF IInv, OrphanInv, Orphans
    <3>3. IsFiniteSet(Orphans \cup {proc[p].workspace})
          /\ Cardinality(Orphans \cup {proc[p].workspace}) <= Cardinality(Orphans) + 1
      <4>1. \A x : IsFiniteSet(Orphans \cup {x})
                   /\ Cardinality(Orphans \cup {x}) <= Cardinality(Orphans) + 1
        BY <3>2, FS_AddElement, FS_CardinalityType
      <4> QED BY <4>1, Zenon
    <3>4. Cardinality(Orphans') <= Cardinality(Orphans \cup {proc[p].workspace})
      BY <3>1, <3>3, FS_Subset
    <3>5. Cardinality(Orphans) \in Nat /\ Cardinality(Orphans') \in Nat
          /\ Cardinality(Orphans \cup {proc[p].workspace}) \in Nat
      BY <3>1, <3>2, <3>3, FS_Subset, FS_CardinalityType
    <3> QED BY <1>0, <1>6, <3>3, <3>4, <3>5, AuthStoreAssumption
            DEF Crash, IInv, OrphanInv, OrphansOnlyFromCrashes, TypeOK
  <2> QED BY <1>0, <2>1, <2>2 DEF IInv
<1>7. ASSUME NEW p \in Procs, NEW u \in Users, DisableRead(p, u) PROVE IInv'
  <2>1. proc'[p] = [at |-> "disable", user |-> u, stale |-> FALSE]
        /\ \A q \in Procs \ {p} : proc'[q] = proc[q]
    BY <1>0, <1>7 DEF DisableRead, Goto, TypeOK
  <2>2. Known' = Known /\ EnabledAdmins' = EnabledAdmins
    BY <1>7 DEF DisableRead, Known, EnabledAdmins
  <2>3. LockInv' /\ CreateInv' /\ SetupInv' /\ AdminInv' /\ OrphanInv'
    BY <1>0, <1>7, <2>1, <2>2, QuietKeeps DEF DisableRead, At
  <2>4. UserInv' /\ SessionOwnsWorkspace'
    BY <1>7, <2>1, <2>2 DEF DisableRead, IInv, RowInv, UserInv, SessionOwnsWorkspace, Owned, At
  <2>5. user[u].role = "administrator" => EnabledAdmins \ {u} # {}
    <3> SUFFICES ASSUME Cardinality(EnabledAdmins) > 1 PROVE EnabledAdmins \ {u} # {}
      BY <1>7 DEF DisableRead
    <3>1. Cardinality({u}) = 1 /\ Cardinality({}) = 0
      BY FS_Singleton, FS_EmptySet
    <3>2. EnabledAdmins # {} /\ EnabledAdmins # {u}
      BY <3>1
    <3> QED BY <3>2
  <2>6. CountInv'
    BY <1>7, <2>1, <2>2, <2>5 DEF DisableRead, IInv, RowInv, CountInv, At
  <2> QED BY <1>0, <2>3, <2>4, <2>6 DEF IInv, RowInv
<1>8. ASSUME NEW p \in Procs, DisableWrite(p) PROVE IInv'
  <2> DEFINE u == proc[p].user
  <2>1. u \in Known
    BY <1>8 DEF DisableWrite, IInv, RowInv, UserInv
  <2>2. \A v \in Users : (v \in Known' <=> v \in Known) /\ user'[v].role = user[v].role
    <3>1. user[u] \in Accounts /\ u \in Users
      BY <1>0, <2>1, RowShape DEF Known
    <3>2. [user[u] EXCEPT !.disabled = TRUE].role = user[u].role
          /\ [user[u] EXCEPT !.disabled = TRUE] # NoUser
      BY <3>1 DEF Accounts, NoUser
    <3> QED BY <1>0, <1>8, <2>1, <3>1, <3>2 DEF DisableWrite, Known, TypeOK
  <2>3. \A q \in Procs : \/ At(q, "insert") /\ proc'[q] = proc[q]
                         \/ ~At(q, "insert") /\ ~At(q, "insert")'
    <3>1. \A q \in Procs : At(q, "disable") => [proc[q] EXCEPT !.stale = TRUE].at = "disable"
      BY <1>0, ProcShape DEF Disablings
    <3>2. \A q \in Procs : /\ ~At(q, "disable") /\ q # p => proc'[q] = proc[q]
                           /\ At(q, "disable") => proc'[q].at \in {"idle", "disable"}
      BY <1>8, <3>1 DEF DisableWrite, Idle
    <3> QED BY <1>8, <3>2 DEF DisableWrite, At
  <2>4. LockInv' /\ CreateInv' /\ SetupInv' /\ AdminInv' /\ OrphanInv'
    BY <1>0, <1>8, <2>2, <2>3, QuietKeeps DEF DisableWrite
  <2>5. \A q \in Procs : At(q, "disable") => /\ [proc[q] EXCEPT !.stale = TRUE].user = proc[q].user
                                             /\ [proc[q] EXCEPT !.stale = TRUE].stale
    BY <1>0, ProcShape DEF Disablings
  <2>6. UserInv' /\ CountInv'
    BY <1>0, <1>8, <2>2, <2>5
       DEF DisableWrite, IInv, RowInv, UserInv, CountInv, At, Idle, Known
  <2>7. SessionOwnsWorkspace'
    BY <1>0, <1>8, <2>2 DEF DisableWrite, WithoutSessionsOf, IInv, RowInv, SessionOwnsWorkspace,
       Owned, Known
  <2> QED BY <1>0, <2>4, <2>6, <2>7 DEF IInv, RowInv
<1>9. ASSUME NEW p \in Procs, NEW u \in Users, Enable(p, u) PROVE IInv'
  <2>1. \A v \in Users : (v \in Known' <=> v \in Known) /\ user'[v].role = user[v].role
    <3>1. user[u] \in Accounts
      BY <1>0, <1>9, RowShape DEF Enable
    <3>2. [user[u] EXCEPT !.disabled = FALSE].role = user[u].role
          /\ [user[u] EXCEPT !.disabled = FALSE] # NoUser
      BY <3>1 DEF Accounts, NoUser
    <3> QED BY <1>0, <1>9, <3>2 DEF Enable, Known, TypeOK
  <2>2. LockInv' /\ CreateInv' /\ SetupInv' /\ AdminInv' /\ OrphanInv'
    BY <1>0, <1>9, <2>1, QuietKeeps DEF Enable, At
  <2>3. EnabledAdmins \subseteq EnabledAdmins'
    BY <1>0, <1>9, <2>1, RowShape DEF Enable, EnabledAdmins, Known, Accounts, TypeOK
  <2>4. UserInv' /\ CountInv'
    BY <1>0, <1>9, <2>1, <2>3 DEF Enable, IInv, RowInv, UserInv, CountInv, At, Known
  <2>5. SessionOwnsWorkspace'
    BY <1>9, <2>1 DEF Enable, IInv, RowInv, SessionOwnsWorkspace, Owned, Known
  <2> QED BY <1>0, <2>2, <2>4, <2>5 DEF IInv, RowInv
<1>10. ASSUME NEW p \in Procs, NEW u \in Users, ResetPassword(p, u) PROVE IInv'
  <2>1. \A v \in Users : /\ (v \in Known' <=> v \in Known) /\ user'[v].role = user[v].role
                         /\ user'[v].disabled = user[v].disabled
    <3>1. user[u] \in Accounts
      BY <1>0, <1>10, RowShape DEF ResetPassword
    <3>2. /\ [user[u] EXCEPT !.password = @ + 1].role = user[u].role
          /\ [user[u] EXCEPT !.password = @ + 1].disabled = user[u].disabled
          /\ [user[u] EXCEPT !.password = @ + 1] # NoUser
      BY <3>1 DEF Accounts, NoUser
    <3> QED BY <1>0, <1>10, <3>2 DEF ResetPassword, Known, TypeOK
  <2>2. LockInv' /\ CreateInv' /\ SetupInv' /\ AdminInv' /\ OrphanInv'
    BY <1>0, <1>10, <2>1, QuietKeeps DEF ResetPassword, At
  <2>3. EnabledAdmins' = EnabledAdmins
    BY <2>1 DEF EnabledAdmins, Known
  <2>4. UserInv' /\ CountInv'
    BY <1>0, <1>10, <2>1, <2>3 DEF ResetPassword, IInv, RowInv, UserInv, CountInv, At, Known
  <2>5. SessionOwnsWorkspace'
    BY <1>0, <1>10, <2>1 DEF ResetPassword, WithoutSessionsOf, IInv, RowInv,
       SessionOwnsWorkspace, Owned, Known
  <2> QED BY <1>0, <2>2, <2>4, <2>5 DEF IInv, RowInv
<1>11. ASSUME NEW p \in Procs, NEW u \in Users, Authenticate(p, u) PROVE IInv'
  <2>1. proc'[p].at = "login" /\ proc'[p].user = u /\ \A q \in Procs \ {p} : proc'[q] = proc[q]
    BY <1>0, <1>11 DEF Authenticate, Goto, TypeOK
  <2>2. Known' = Known /\ EnabledAdmins' = EnabledAdmins /\ user' = user
    BY <1>11 DEF Authenticate, Known, EnabledAdmins
  <2>3. LockInv' /\ CreateInv' /\ SetupInv' /\ AdminInv' /\ OrphanInv'
    BY <1>0, <1>11, <2>1, <2>2, QuietKeeps DEF Authenticate, At
  <2>4. UserInv' /\ CountInv' /\ SessionOwnsWorkspace'
    BY <1>11, <2>1, <2>2 DEF Authenticate, IInv, RowInv, UserInv, CountInv, At,
       SessionOwnsWorkspace, Owned
  <2> QED BY <1>0, <2>3, <2>4 DEF IInv, RowInv
<1>12. ASSUME NEW p \in Procs, SessionRead(p) PROVE IInv'
  <2>1. /\ proc'[p] = Idle \/ (proc'[p].at = "token" /\ proc'[p].user = proc[p].user)
        /\ \A q \in Procs \ {p} : proc'[q] = proc[q]
    <3> DEFINE read == [proc[p] EXCEPT !.at = "token"]
    <3>1. read.at = "token" /\ read.user = proc[p].user
      BY <1>0, <1>12, ProcShape DEF SessionRead, SignIns
    <3>2. proc'[p] \in {Idle, read} /\ \A q \in Procs \ {p} : proc'[q] = proc[q]
      BY <1>0, <1>12 DEF SessionRead, Goto, TypeOK
    <3> HIDE DEF read
    <3> QED BY <3>1, <3>2
  <2>2. Known' = Known /\ EnabledAdmins' = EnabledAdmins /\ user' = user
    BY <1>12 DEF SessionRead, Known, EnabledAdmins
  <2>3. LockInv' /\ CreateInv' /\ SetupInv' /\ AdminInv' /\ OrphanInv'
    BY <1>0, <1>12, <2>1, <2>2, QuietKeeps DEF SessionRead, At, Idle
  <2>4. UserInv' /\ CountInv' /\ SessionOwnsWorkspace'
    BY <1>12, <2>1, <2>2 DEF SessionRead, IInv, RowInv, UserInv, CountInv, At, Idle,
       SessionOwnsWorkspace, Owned
  <2> QED BY <1>0, <2>3, <2>4 DEF IInv, RowInv
<1>13. ASSUME NEW p \in Procs, NEW s \in Sessions, SessionInsert(p, s) PROVE IInv'
  <2>1. proc'[p] = Idle /\ \A q \in Procs \ {p} : proc'[q] = proc[q]
    BY <1>0, <1>13 DEF SessionInsert, Goto, TypeOK
  <2>2. Known' = Known /\ EnabledAdmins' = EnabledAdmins /\ user' = user
    BY <1>13 DEF SessionInsert, Known, EnabledAdmins
  <2>3. LockInv' /\ CreateInv' /\ SetupInv' /\ AdminInv' /\ OrphanInv'
    BY <1>0, <1>13, <2>1, <2>2, QuietKeeps DEF SessionInsert, At, Idle
  <2>4. UserInv' /\ CountInv'
    BY <1>13, <2>1, <2>2 DEF SessionInsert, IInv, RowInv, UserInv, CountInv, At, Idle
  <2>5. SessionOwnsWorkspace'
    <3>1. proc[p].user \in Known
      BY <1>13 DEF SessionInsert, IInv, RowInv, UserInv
    <3> QED BY <1>0, <1>13, <2>2, <3>1 DEF SessionInsert, IInv, RowInv, SessionOwnsWorkspace,
               Owned, TypeOK
  <2> QED BY <1>0, <2>3, <2>4, <2>5 DEF IInv, RowInv
<1>14. ASSUME \/ \E p \in Procs, s \in Sessions : DropSession(p, s)
              \/ \E p \in Procs, s \in Sessions, w \in Workspaces : SelectWorkspace(p, s, w)
              \/ \E s \in Sessions : Expire(s)
              \/ UNCHANGED vars
       PROVE  IInv'
  <2>1. UNCHANGED <<user, workspace, dirs, writer, proc, setups, crashes>>
    BY <1>14 DEF DropSession, SelectWorkspace, Expire, vars
  <2>2. Known' = Known /\ EnabledAdmins' = EnabledAdmins
    BY <2>1 DEF Known, EnabledAdmins
  <2>3. LockInv' /\ CreateInv' /\ SetupInv' /\ AdminInv' /\ OrphanInv'
    BY <1>0, <2>1, <2>2, QuietKeeps DEF At
  <2>4. UserInv' /\ CountInv'
    BY <2>1, <2>2 DEF IInv, RowInv, UserInv, CountInv, At
  <2>5. \A t \in Sessions : session'[t] # NoSession =>
           /\ session[t] # NoSession /\ session'[t].user = session[t].user
           /\ \/ session'[t].workspace = session[t].workspace
              \/ session'[t].workspace \in Owned(session[t].user)
    <3>1. CASE \E p \in Procs, s \in Sessions : DropSession(p, s)
      BY <1>0, <3>1 DEF DropSession, TypeOK
    <3>2. CASE \E p \in Procs, s \in Sessions, w \in Workspaces : SelectWorkspace(p, s, w)
      <4> PICK p \in Procs, s \in Sessions, w \in Workspaces : SelectWorkspace(p, s, w)
        BY <3>2
      <4>1. session[s] \in Tickets
        BY <1>0, RowShape DEF SelectWorkspace, Resolves
      <4>2. [session[s] EXCEPT !.workspace = w].user = session[s].user
            /\ [session[s] EXCEPT !.workspace = w].workspace = w
        BY <4>1 DEF Tickets
      <4> QED BY <1>0, <4>2 DEF SelectWorkspace, Resolves, TypeOK
    <3>3. CASE \E s \in Sessions : Expire(s)
      <4> PICK s \in Sessions : Expire(s)
        BY <3>3
      <4>1. session[s] \in Tickets
        BY <1>0, RowShape DEF Expire
      <4>2. [session[s] EXCEPT !.expired = TRUE].user = session[s].user
            /\ [session[s] EXCEPT !.expired = TRUE].workspace = session[s].workspace
        BY <4>1 DEF Tickets
      <4> QED BY <1>0, <4>2 DEF Expire, TypeOK
    <3>4. CASE UNCHANGED vars
      BY <3>4 DEF vars
    <3> QED BY <1>14, <3>1, <3>2, <3>3, <3>4
  <2>6. SessionOwnsWorkspace'
    BY <2>1, <2>2, <2>5 DEF IInv, RowInv, SessionOwnsWorkspace, Owned
  <2> QED BY <1>0, <2>3, <2>4, <2>6 DEF IInv, RowInv
<1> QED
  BY <1>1, <1>2, <1>3, <1>4, <1>5, <1>6, <1>7, <1>8, <1>9, <1>10, <1>11, <1>12, <1>13, <1>14
     DEF Next, Create, Administer, UseSessions

\* The invariant holds in every reachable state.
LEMMA Invariance == Spec => []IInv
BY InitInv, StepInv, PTL DEF Spec

\* First-run set-up makes one administrator (create_initial_admin), a session's
\* workspace is its user's (create_session, select_workspace), and only killed
\* processes leave directories without a row (create_user, create_workspace).
THEOREM AccountsAreSound == Spec => []AccountsSound
<1>1. IInv => AccountsSound
  <2> SUFFICES ASSUME IInv PROVE AccountsSound
    OBVIOUS
  <2>1. Cardinality(setups) <= 1
    <3>1. setups = {} \/ \E u \in setups : setups = {u}
      BY DEF IInv, RowInv, SetupInv
    <3> QED BY <3>1, FS_EmptySet, FS_Singleton
  <2> QED BY <2>1 DEF IInv, RowInv, AccountsSound, OneSetup, AdminInv, OrphanInv
<1> QED BY <1>1, Invariance, PTL

-----------------------------------------------------------------------------

\* A session's user and password version never change while it is there.
LEMMA SessionStep ==
    ASSUME TypeOK, [Next]_vars, NEW s \in Sessions,
           session[s] # NoSession, session'[s] # NoSession
    PROVE  session'[s].user = session[s].user /\ session'[s].password = session[s].password
<1>1. session[s] \in Tickets
  BY RowShape
<1>3. \A w : /\ [session[s] EXCEPT !.workspace = w].user = session[s].user
             /\ [session[s] EXCEPT !.workspace = w].password = session[s].password
  BY <1>1 DEF Tickets
<1>4. /\ [session[s] EXCEPT !.expired = TRUE].user = session[s].user
      /\ [session[s] EXCEPT !.expired = TRUE].password = session[s].password
  BY <1>1 DEF Tickets
<1>5. ASSUME NEW p \in Procs, NEW t \in Sessions, NEW w \in Workspaces, SelectWorkspace(p, t, w)
      PROVE  session'[s].user = session[s].user /\ session'[s].password = session[s].password
  BY <1>3, <1>5 DEF SelectWorkspace, TypeOK
<1>6. ASSUME NEW t \in Sessions, Expire(t)
      PROVE  session'[s].user = session[s].user /\ session'[s].password = session[s].password
  BY <1>4, <1>6 DEF Expire, TypeOK
<1>7. ASSUME NEW p \in Procs, NEW t \in Sessions, SessionInsert(p, t) \/ DropSession(p, t)
      PROVE  session'[s] = session[s]
  BY <1>7 DEF SessionInsert, DropSession, TypeOK
<1>8. ASSUME NEW p \in Procs, Administer(p) PROVE session'[s] = session[s]
  BY <1>8 DEF Administer, DisableRead, DisableWrite, Enable, ResetPassword, WithoutSessionsOf,
              TypeOK
<1>9. ASSUME NEW p \in Procs, Create(p) PROVE session' = session
  BY <1>9 DEF Create, BeginSetup, BeginUser, BeginWorkspace, Lock, Commit, Rollback, Crash
<1>10. ASSUME NEW p \in Procs, SessionRead(p) \/ \E u \in Users : Authenticate(p, u)
       PROVE  session' = session
  BY <1>10 DEF Authenticate, SessionRead
<1>11. ASSUME NEW p \in Procs, UseSessions(p)
       PROVE  session'[s].user = session[s].user /\ session'[s].password = session[s].password
  BY <1>5, <1>7, <1>10, <1>11 DEF UseSessions
<1>12. CASE UNCHANGED vars
  BY <1>12 DEF vars
<1> QED BY <1>6, <1>8, <1>9, <1>11, <1>12 DEF Next

\* The operations that write auth_users.
LEMMA UserWriters ==
    ASSUME [Next]_vars, user' # user
    PROVE  \/ \E p \in Procs : Commit(p) \/ DisableWrite(p)
           \/ \E p \in Procs, u \in Users : Enable(p, u) \/ ResetPassword(p, u)
<1>1. ASSUME NEW p \in Procs, Create(p) PROVE Commit(p)
  BY <1>1 DEF Create, BeginSetup, BeginUser, BeginWorkspace, Lock, Rollback, Crash
<1>2. ASSUME NEW p \in Procs, Administer(p)
      PROVE  DisableWrite(p) \/ \E u \in Users : Enable(p, u) \/ ResetPassword(p, u)
  BY <1>2 DEF Administer, DisableRead
<1>3. ASSUME NEW p \in Procs, UseSessions(p) PROVE FALSE
  BY <1>3 DEF UseSessions, Authenticate, SessionRead, SessionInsert, DropSession, SelectWorkspace
<1>4. ASSUME NEW s \in Sessions, Expire(s) PROVE FALSE
  BY <1>4 DEF Expire
<1>5. ASSUME UNCHANGED vars PROVE FALSE
  BY <1>5 DEF vars
<1> QED BY <1>1, <1>2, <1>3, <1>4, <1>5 DEF Next

\* What a step does to a user that exists: its role stays, and rights are taken
\* from it only by the two operations that delete its sessions.
LEMMA UserStep ==
    ASSUME IInv, [Next]_vars, NEW u \in Known
    PROVE  /\ user'[u].role = user[u].role
           /\ \/ user'[u].password = user[u].password /\ (user'[u].disabled => user[u].disabled)
              \/ \A s \in Sessions : session'[s].user # u
<1> PICK v \in Users : v = u
  BY DEF Known
<1>0. TypeOK /\ user[u] \in Accounts /\ u # None /\ u \in Users
  BY RowShape, AuthStoreAssumption DEF IInv, Known
<1>1. ASSUME NEW p \in Procs, Commit(p) PROVE user'[u] = user[u]
  BY <1>0, <1>1 DEF Commit, IInv, RowInv, CreateInv, TypeOK
<1>2. ASSUME NEW p \in Procs, DisableWrite(p)
      PROVE  /\ user'[u].role = user[u].role /\ user'[u].password = user[u].password
             /\ user'[u].disabled # user[u].disabled => \A s \in Sessions : session'[s].user # u
  <2>1. /\ [user[u] EXCEPT !.disabled = TRUE].role = user[u].role
        /\ [user[u] EXCEPT !.disabled = TRUE].password = user[u].password
    BY <1>0 DEF Accounts
  <2>2. user'[u] = IF u = proc[p].user THEN [user[u] EXCEPT !.disabled = TRUE] ELSE user[u]
    BY <1>0, <1>2 DEF DisableWrite, TypeOK
  <2>3. u = proc[p].user => \A s \in Sessions : session'[s].user # u
    BY <1>0, <1>2 DEF DisableWrite, WithoutSessionsOf, NoSession
  <2> QED BY <2>1, <2>2, <2>3
<1>3. ASSUME NEW p \in Procs, NEW x \in Users, Enable(p, x)
      PROVE  /\ user'[u].role = user[u].role /\ user'[u].password = user[u].password
             /\ user'[u].disabled => user[u].disabled
  <2>1. /\ [user[u] EXCEPT !.disabled = FALSE].role = user[u].role
        /\ [user[u] EXCEPT !.disabled = FALSE].password = user[u].password
        /\ [user[u] EXCEPT !.disabled = FALSE].disabled = FALSE
    BY <1>0 DEF Accounts
  <2>2. user'[u] = IF u = x THEN [user[u] EXCEPT !.disabled = FALSE] ELSE user[u]
    BY <1>0, <1>3 DEF Enable, TypeOK
  <2> QED BY <2>1, <2>2
<1>4. ASSUME NEW p \in Procs, NEW x \in Users, ResetPassword(p, x)
      PROVE  /\ user'[u].role = user[u].role /\ user'[u].disabled = user[u].disabled
             /\ user'[u].password # user[u].password => \A s \in Sessions : session'[s].user # u
  <2>1. /\ [user[u] EXCEPT !.password = @ + 1].role = user[u].role
        /\ [user[u] EXCEPT !.password = @ + 1].disabled = user[u].disabled
    BY <1>0 DEF Accounts
  <2>2. user'[u] = IF u = x THEN [user[u] EXCEPT !.password = @ + 1] ELSE user[u]
    BY <1>0, <1>4 DEF ResetPassword, TypeOK
  <2>3. u = x => \A s \in Sessions : session'[s].user # u
    BY <1>0, <1>4 DEF ResetPassword, WithoutSessionsOf, NoSession
  <2> QED BY <2>1, <2>2, <2>3
<1> QED BY <1>1, <1>2, <1>3, <1>4, UserWriters

\* No step makes a session stale without deleting it.
LEMMA RevokedStep ==
    ASSUME IInv, [Next]_vars, NEW s \in Sessions, session[s] # NoSession, ~Stale(s)
    PROVE  ~Stale(s)'
<1> SUFFICES ASSUME session'[s] # NoSession PROVE ~Stale(s)'
  BY DEF Stale
<1>1. session'[s].user = session[s].user /\ session'[s].password = session[s].password
  BY SessionStep DEF IInv
<1>2. session[s].user \in Known
  BY DEF IInv, RowInv, SessionOwnsWorkspace
<1>3. user'[session[s].user].password = user[session[s].user].password
      /\ (user'[session[s].user].disabled => user[session[s].user].disabled)
  BY <1>1, <1>2, UserStep
<1> QED BY <1>1, <1>3 DEF Stale

\* Only a disabling that counted before another one can take the last administrator.
LEMMA LastAdminStep ==
    ASSUME IInv, [Next]_vars, SomeAdminEnabled, ~SomeAdminEnabled'
    PROVE  \E p \in Procs : At(p, "disable") /\ proc[p].stale
<1>0. TypeOK /\ TypeOK' /\ EnabledAdmins' = {} /\ Known' # {} /\ user' # user
  BY StepTyped DEF IInv, SomeAdminEnabled, EnabledAdmins, Known
<1>1. ASSUME NEW p \in Procs, Commit(p) PROVE FALSE
  <2>1. CASE Known # {}
    <3> PICK a \in EnabledAdmins : TRUE
      BY <2>1 DEF SomeAdminEnabled
    <3>1. a \in Users /\ a \in Known
      BY DEF EnabledAdmins, Known
    <3>2. user'[a] = user[a]
      BY <1>0, <1>1, <3>1 DEF Commit, IInv, RowInv, CreateInv, TypeOK
    <3> QED BY <1>0, <3>1, <3>2 DEF EnabledAdmins, Known
  <2>2. CASE Known = {}
    <3>1. proc[p].what # "workspace" => proc[p].role = "administrator" /\ proc[p].user \in Users
      BY <1>0, <1>1, <2>2, ProcShape DEF Commit, IInv, RowInv, CreateInv, NewUsers, NewSpaces
    <3>2. proc[p].what # "workspace" => proc[p].user \in EnabledAdmins'
      BY <1>0, <1>1, <3>1 DEF Commit, EnabledAdmins, Known, TypeOK, NoUser
    <3>3. proc[p].what = "workspace" => user' = user
      BY <1>1 DEF Commit
    <3> QED BY <1>0, <3>2, <3>3
  <2> QED BY <2>1, <2>2
<1>2. ASSUME NEW p \in Procs, NEW u \in Users, Enable(p, u) \/ ResetPassword(p, u) PROVE FALSE
  <2> PICK a \in EnabledAdmins : TRUE
    BY <1>2 DEF SomeAdminEnabled, Enable, ResetPassword
  <2>1. a \in Known /\ a \in Users /\ user[a] \in Accounts
    BY <1>0, RowShape DEF EnabledAdmins, Known
  <2>2. /\ [user[a] EXCEPT !.disabled = FALSE].role = user[a].role
        /\ [user[a] EXCEPT !.disabled = FALSE].disabled = FALSE
        /\ [user[a] EXCEPT !.password = @ + 1].role = user[a].role
        /\ [user[a] EXCEPT !.password = @ + 1].disabled = user[a].disabled
    BY <2>1 DEF Accounts
  <2>3. user'[a].role = "administrator" /\ ~user'[a].disabled
    BY <1>0, <1>2, <2>1, <2>2 DEF Enable, ResetPassword, EnabledAdmins, TypeOK
  <2> QED BY <1>0, <2>1, <2>3 DEF EnabledAdmins, Known, NoUser, None
<1>3. ASSUME NEW p \in Procs, DisableWrite(p), ~proc[p].stale PROVE FALSE
  <2>1. proc[p].user \in Known
    BY <1>3 DEF DisableWrite, IInv, RowInv, UserInv
  <2>2. PICK a \in EnabledAdmins : a # proc[p].user
    BY <1>3, <2>1 DEF DisableWrite, IInv, RowInv, CountInv, SomeAdminEnabled, EnabledAdmins
  <2>3. a \in Users /\ user'[a] = user[a]
    BY <1>0, <1>3, <2>2 DEF DisableWrite, EnabledAdmins, Known, TypeOK
  <2> QED BY <1>0, <2>3 DEF EnabledAdmins, Known
<1> QED BY <1>0, <1>1, <1>2, <1>3, UserWriters DEF DisableWrite

\* Disabling a user and resetting a password leave no session behind that the
\* change makes stale, and set_user_disabled takes the last administrator only when
\* another process disabled an account between its count and its write.
THEOREM ChangesAreHeld == Spec => ChangesHold
<1>1. IInv /\ [Next]_vars
        => [SomeAdminEnabled /\ ~SomeAdminEnabled'
               => \E p \in Procs : At(p, "disable") /\ proc[p].stale]_vars
  BY LastAdminStep
<1>2. IInv /\ [Next]_vars
        => [\A s \in Sessions : session[s] # NoSession /\ ~Stale(s) => ~Stale(s)']_vars
  BY RevokedStep
<1> QED BY <1>1, <1>2, Invariance, PTL DEF Spec, ChangesHold, SomeAdminUnlessRace, RevokedOnChange


-----------------------------------------------------------------------------
(* The secret of the servers. *)

LEMMA SecretFacts ==
    Retries \in Nat /\ Retries # 0 /\ MaxSlips \in Nat /\ "absent" \notin Users /\ "short" \notin Users
BY AccessAssumption DEF K!SecretAssumption

\* A server that has not failed has turns left.
SecretTypes == K!TypeOK /\ \A s \in Users :
                              secretServer[s].at # "failed" => secretServer[s].turn < Retries

LEMMA SecretInitTypes == K!Init => SecretTypes
<1> SUFFICES ASSUME K!Init PROVE SecretTypes
  OBVIOUS
<1>1. slips \in 0 .. MaxSlips /\ secretKey \in K!Keys
  BY SecretFacts DEF K!Init, K!Keys
<1>2. broken \in BOOLEAN
  BY Zenon DEF K!Init
<1>3. K!Fresh \in K!States /\ K!Fresh.turn < Retries
  BY SecretFacts DEF K!Fresh, K!States
<1>4. secretServer = [s \in Users |-> K!Fresh]
  BY DEF K!Init
<1> QED BY <1>1, <1>2, <1>3, <1>4 DEF K!TypeOK, SecretTypes

\* A server goes on, takes another turn, or has its secret.
LEMMA SecretRecords ==
    ASSUME SecretTypes, NEW s \in Users, secretServer[s].at # "failed"
    PROVE  /\ \A step \in {"read", "create", "write", "sync", "failed"} :
                 /\ K!Goto(s, step) \in [Users -> K!States]
                 /\ K!Goto(s, step)[s].at = step /\ K!Goto(s, step)[s].turn < Retries
           /\ \A k \in Users :
                 /\ K!Loaded(s, k) \in [Users -> K!States]
                 /\ K!Loaded(s, k)[s].at = "loaded" /\ K!Loaded(s, k)[s].turn < Retries
                 /\ K!Loaded(s, k)[s].secret = k
           /\ /\ K!Again(s) \in [Users -> K!States]
              /\ K!Again(s)[s].at \in {"read", "failed"}
              /\ K!Again(s)[s].at # "failed" => K!Again(s)[s].turn < Retries
<1> DEFINE was == secretServer[s]
           on(step) == [was EXCEPT !.at = step]
           with(k) == [was EXCEPT !.at = "loaded", !.secret = k]
           again(step) == [was EXCEPT !.at = step, !.turn = @ + 1]
<1>1. /\ was \in K!States /\ was.turn \in Nat /\ was.turn < Retries
      /\ Retries \in Nat /\ was.turn + 1 \in 0 .. Retries
      /\ was.turn < Retries - 1 => was.turn + 1 < Retries
      /\ secretServer \in [Users -> K!States]
  BY SecretFacts DEF SecretTypes, K!TypeOK, K!States
<1> HIDE DEF was
<1>2. ASSUME NEW step \in {"read", "create", "write", "sync", "failed"}
      PROVE  on(step) \in K!States /\ on(step).at = step /\ on(step).turn < Retries
  BY <1>1 DEF K!States
<1>3. ASSUME NEW k \in Users
      PROVE  with(k) \in K!States /\ with(k).at = "loaded" /\ with(k).turn < Retries
             /\ with(k).secret = k
  BY <1>1 DEF K!States
<1>4. ASSUME NEW step \in {"read", "failed"}
      PROVE  again(step) \in K!States /\ again(step).at = step
             /\ again(step).turn = was.turn + 1
  BY <1>1 DEF K!States
<1>5. ASSUME NEW step PROVE K!Goto(s, step) = [secretServer EXCEPT ![s] = on(step)]
  BY DEF K!Goto, was
<1>6. ASSUME NEW k PROVE K!Loaded(s, k) = [secretServer EXCEPT ![s] = with(k)]
  BY DEF K!Loaded, was
<1>7. K!Again(s) = [secretServer EXCEPT
                      ![s] = again(IF was.turn < Retries - 1 THEN "read" ELSE "failed")]
  BY DEF K!Again, was
<1> HIDE DEF on, with, again
<1>8. ASSUME NEW step \in {"read", "create", "write", "sync", "failed"}
      PROVE  /\ K!Goto(s, step) \in [Users -> K!States]
             /\ K!Goto(s, step)[s].at = step /\ K!Goto(s, step)[s].turn < Retries
  BY <1>1, <1>2, <1>5
<1>9. ASSUME NEW k \in Users
      PROVE  /\ K!Loaded(s, k) \in [Users -> K!States]
             /\ K!Loaded(s, k)[s].at = "loaded" /\ K!Loaded(s, k)[s].turn < Retries
             /\ K!Loaded(s, k)[s].secret = k
  BY <1>1, <1>3, <1>6
<1>10. /\ K!Again(s) \in [Users -> K!States]
       /\ K!Again(s)[s].at \in {"read", "failed"}
       /\ K!Again(s)[s].at # "failed" => K!Again(s)[s].turn < Retries
  BY <1>1, <1>4, <1>7
<1> QED BY <1>8, <1>9, <1>10

\* While no write has failed late, one server at most is between creating the file and
\* having synced it, and every server that loaded a secret has the one there.
SecretShared ==
    /\ \A s \in Users :
          /\ secretServer[s].at = "write" => secretKey = "short"
          /\ secretServer[s].at = "sync" => secretKey = s
          /\ secretServer[s].at = "loaded" =>
                secretKey \in Users /\ secretServer[s].secret = secretKey
    /\ \A s, t \in Users :
          secretServer[s].at \in {"write", "sync"} /\ secretServer[t].at \in {"write", "sync"}
             => s = t

SecretInv == SecretTypes /\ (broken \/ SecretShared)

LEMMA SecretInitInv == K!Init => SecretInv
BY SecretInitTypes DEF K!Init, K!Fresh, SecretShared, SecretInv

LEMMA SecretStepInv == SecretInv /\ [K!Next]_(K!vars) => SecretInv'
<1> SUFFICES ASSUME SecretInv, [K!Next]_(K!vars) PROVE SecretInv'
  OBVIOUS
<1> USE DEF K!At
<1>0. /\ secretKey \in K!Keys /\ secretServer \in [Users -> K!States]
      /\ slips \in 0 .. MaxSlips /\ broken \in BOOLEAN /\ SecretTypes
      /\ (\A s \in Users : secretServer[s].at # "failed" => secretServer[s].turn < Retries)
      /\ broken \/ SecretShared
  BY DEF SecretInv, SecretTypes, K!TypeOK
\* Types and secrets are kept where the one server that moves keeps them.
<1>1. ASSUME NEW s \in Users, secretServer' \in [Users -> K!States],
             \A t \in Users \ {s} : secretServer'[t] = secretServer[t],
             secretServer'[s].at # "failed" => secretServer'[s].turn < Retries,
             secretKey' \in K!Keys, slips' \in 0 .. MaxSlips, broken' \in BOOLEAN,
             broken' \/ SecretShared'
      PROVE  SecretInv'
  BY <1>0, <1>1 DEF SecretInv, SecretTypes, K!TypeOK
<1>2. ASSUME NEW s \in Users, K!Begin(s) PROVE SecretInv'
  <2>1. secretServer' = K!Goto(s, "read") /\ UNCHANGED <<secretKey, slips, broken>>
        /\ secretServer[s].at # "failed"
    BY <1>2 DEF K!Begin
  <2>2. \A t \in Users \ {s} : secretServer'[t] = secretServer[t]
    BY <1>0, <2>1 DEF K!Goto
  <2>3. /\ secretServer' \in [Users -> K!States]
        /\ secretServer'[s].at = "read" /\ secretServer'[s].turn < Retries
    BY <1>0, <2>1, SecretRecords
  <2>4. broken' \/ SecretShared'
    BY <1>0, <2>1, <2>2, <2>3 DEF SecretShared
  <2> QED BY <1>0, <1>1, <2>1, <2>2, <2>3, <2>4
<1>3. ASSUME NEW s \in Users, K!Read(s) PROVE SecretInv'
  <2>1. UNCHANGED <<secretKey, slips, broken>> /\ secretServer[s].at # "failed"
    BY <1>3 DEF K!Read
  <2>2. \A t \in Users \ {s} : secretServer'[t] = secretServer[t]
    BY <1>0, <1>3 DEF K!Read, K!Goto, K!Loaded, K!Again
  <2>3. /\ secretServer' \in [Users -> K!States]
        /\ secretServer'[s].at # "failed" => secretServer'[s].turn < Retries
        /\ \/ secretServer'[s].at \in {"create", "read", "failed"}
           \/ /\ secretServer'[s].at = "loaded" /\ secretKey \in Users
              /\ secretServer'[s].secret = secretKey
    BY <1>0, <1>3, SecretRecords DEF K!Read, K!LongEnough
  <2>4. broken' \/ SecretShared'
    BY <1>0, <2>1, <2>2, <2>3 DEF SecretShared
  <2> QED BY <1>0, <1>1, <2>1, <2>2, <2>3, <2>4
<1>4. ASSUME NEW s \in Users, K!Create(s) PROVE SecretInv'
  <2>1. UNCHANGED <<slips, broken>> /\ secretServer[s].at # "failed"
    BY <1>4 DEF K!Create
  <2>2. \A t \in Users \ {s} : secretServer'[t] = secretServer[t]
    BY <1>0, <1>4 DEF K!Create, K!Goto, K!Again
  <2>3. /\ secretServer' \in [Users -> K!States]
        /\ secretServer'[s].at # "failed" => secretServer'[s].turn < Retries
        /\ \/ secretServer'[s].at \in {"read", "failed"} /\ secretKey' = secretKey
           \/ secretServer'[s].at = "write" /\ secretKey = "absent" /\ secretKey' = "short"
    BY <1>0, <1>4, SecretRecords DEF K!Create
  <2>4. broken' \/ SecretShared'
    BY <1>0, <2>1, <2>2, <2>3, SecretFacts DEF SecretShared
  <2> QED BY <1>0, <1>1, <2>1, <2>2, <2>3, <2>4 DEF K!Keys
<1>5. ASSUME NEW s \in Users, K!Write(s) \/ K!Sync(s) PROVE SecretInv'
  <2>1. UNCHANGED <<slips, broken>> /\ secretServer[s].at # "failed"
    BY <1>5 DEF K!Write, K!Sync
  <2>2. \A t \in Users \ {s} : secretServer'[t] = secretServer[t]
    BY <1>0, <1>5 DEF K!Write, K!Sync, K!Goto, K!Loaded
  <2>3. /\ secretServer' \in [Users -> K!States] /\ secretServer'[s].turn < Retries
        /\ \/ /\ secretServer[s].at = "write" /\ secretServer'[s].at = "sync"
              /\ secretKey' = s
           \/ /\ secretServer[s].at = "sync" /\ secretServer'[s].at = "loaded"
              /\ secretServer'[s].secret = s /\ secretKey' = secretKey
    BY <1>0, <1>5, SecretRecords DEF K!Write, K!Sync
  <2>4. broken' \/ SecretShared'
    BY <1>0, <2>1, <2>2, <2>3, SecretFacts DEF SecretShared
  <2> QED BY <1>0, <1>1, <2>1, <2>2, <2>3, <2>4 DEF K!Keys
<1>6. ASSUME NEW s \in Users, K!WriteFails(s) PROVE SecretInv'
  <2>1. secretKey' = "absent" /\ slips < MaxSlips /\ slips' = slips + 1
        /\ secretServer[s].at \in {"write", "sync"} /\ secretServer' = K!Goto(s, "failed")
    BY <1>6 DEF K!WriteFails
  <2>2. \A t \in Users \ {s} : secretServer'[t] = secretServer[t]
    BY <1>0, <2>1 DEF K!Goto
  <2>3. secretServer' \in [Users -> K!States] /\ secretServer'[s].at = "failed"
    BY <1>0, <2>1, SecretRecords
  <2>4. slips' \in 0 .. MaxSlips
    BY <1>0, <2>1, SecretFacts
  <2>5. broken' \in BOOLEAN /\ (~broken' => ~broken /\ secretServer[s].at = "write")
    BY <1>0, <1>6 DEF K!WriteFails
  <2>6. broken' \/ SecretShared'
    BY <1>0, <2>1, <2>2, <2>3, <2>5, SecretFacts DEF SecretShared
  <2> QED BY <1>1, <2>1, <2>2, <2>3, <2>4, <2>5, <2>6 DEF K!Keys
<1>7. ASSUME NEW s \in Users, K!Killed(s) \/ K!Exit(s) PROVE SecretInv'
  <2>1. secretServer' = [secretServer EXCEPT ![s] = K!Fresh] /\ UNCHANGED <<secretKey, broken>>
        /\ (slips' = slips \/ (slips < MaxSlips /\ slips' = slips + 1))
    BY <1>7 DEF K!Killed, K!Exit
  <2>2. K!Fresh \in K!States /\ K!Fresh.turn < Retries /\ K!Fresh.at = "down"
    BY SecretFacts DEF K!Fresh, K!States
  <2>3. slips' \in 0 .. MaxSlips
    BY <1>0, <2>1, SecretFacts
  <2>4. /\ secretServer' \in [Users -> K!States] /\ secretServer'[s] = K!Fresh
        /\ \A t \in Users \ {s} : secretServer'[t] = secretServer[t]
    BY <1>0, <2>1, <2>2
  <2>5. broken' \/ SecretShared'
    BY <1>0, <2>1, <2>2, <2>4 DEF SecretShared
  <2> QED BY <1>0, <1>1, <2>1, <2>2, <2>3, <2>4, <2>5
<1>8. CASE UNCHANGED K!vars
  BY <1>0, <1>8 DEF K!vars, SecretInv, SecretTypes, K!TypeOK, SecretShared
<1> QED BY <1>2, <1>3, <1>4, <1>5, <1>6, <1>7, <1>8 DEF K!Next, K!Load

\* Servers of one root sign with one secret, unless a creator failed after its bytes
\* were there to be read.
THEOREM SecretIsOne == K!Spec => [](K!TypeOK /\ K!OneSecret)
<1>1. SecretInv => K!TypeOK /\ K!OneSecret
  BY DEF SecretInv, SecretTypes, SecretShared, K!OneSecret, K!At
<1> QED BY <1>1, SecretInitInv, SecretStepInv, PTL DEF K!Spec

-----------------------------------------------------------------------------
(* The TLS material. *)

LEMMA TlsFacts == MaxPairs \in Nat /\ MaxStarts \in Nat
BY AccessAssumption DEF T!TlsStoreAssumption

\* What a server has to show for itself at each step, when no other started meanwhile.
HasPair(s, n) == n \in 1 .. MaxPairs /\ tlsServer[s].hosts \subseteq tlsPair[n].hosts

Announced(s) ==
    tlsServer[s].serves = "managed" /\ ~tlsServer[s].overlapped =>
       /\ ~T!At(s, "failed")
       /\ T!At(s, "check_key") => tlsServer[s].chosen = tlsCert /\ tlsCert # 0
       /\ T!At(s, "write_key") => HasPair(s, tlsServer[s].chosen)
       /\ T!At(s, "write_cert") =>
             HasPair(s, tlsServer[s].chosen) /\ tlsKey = tlsServer[s].chosen
       /\ T!At(s, "listen") =>
             /\ HasPair(s, tlsServer[s].shown)
             /\ tlsKey = tlsServer[s].shown /\ tlsCert = tlsServer[s].shown
       /\ T!At(s, "load_key") =>
             /\ HasPair(s, tlsServer[s].shown) /\ tlsServer[s].loaded = tlsServer[s].shown
             /\ tlsKey = tlsServer[s].shown
       /\ T!At(s, "running") =>
             HasPair(s, tlsServer[s].shown) /\ tlsServer[s].loaded = tlsServer[s].shown

TlsInv ==
    /\ T!TypeOK
    /\ \A s \in Users : tlsServer[s].at \in T!Steps => tlsServer[s].serves = "managed"
    /\ \A s, t \in T!Starting : s # t => tlsServer[s].overlapped
    /\ \A s \in Users : Announced(s)

LEMMA TlsInitInv == T!Init => TlsInv
<1> SUFFICES ASSUME T!Init PROVE TlsInv
  OBVIOUS
<1>1. T!Stopped \in T!States /\ T!Stopped.at = "stopped"
  BY TlsFacts DEF T!Stopped, T!States
<1>2. tlsServer = [s \in Users |-> T!Stopped]
  BY DEF T!Init
<1>3. T!TypeOK
  BY <1>1, <1>2, TlsFacts DEF T!Init, T!TypeOK
<1>4. T!Starting = {} /\ \A s \in Users : Announced(s)
  BY <1>1, <1>2 DEF T!Starting, T!Steps, Announced, T!At
<1> QED BY <1>1, <1>2, <1>3, <1>4 DEF TlsInv, T!Steps

\* One server moves: the others lose nothing by it, as those that start at the same time
\* have been overtaken.
LEMMA OneMoves ==
    ASSUME TlsInv, NEW s \in Users, NEW next \in T!States,
           tlsServer' = [tlsServer EXCEPT ![s] = next],
           next.serves = tlsServer[s].serves, next.overlapped = tlsServer[s].overlapped,
           next.at \in T!Steps => tlsServer[s].at \in T!Steps,
           tlsPair' \in [1 .. MaxPairs -> {T!NoPair} \cup T!Pairs],
           \A n \in 1 .. MaxPairs : tlsPair[n].hosts \subseteq tlsPair'[n].hosts,
           {tlsKey', tlsCert'} \subseteq 0 .. MaxPairs, UNCHANGED starts,
           tlsServer[s].at \in T!Steps \/ UNCHANGED <<tlsKey, tlsCert>>,
           Announced(s)'
    PROVE  TlsInv'
<1>1. T!TypeOK'
  BY DEF TlsInv, T!TypeOK
<1>2. tlsServer'[s] = next /\ \A t \in Users \ {s} : tlsServer'[t] = tlsServer[t]
  BY DEF TlsInv, T!TypeOK
<1>3. /\ \A t \in Users : tlsServer'[t].at \in T!Steps => tlsServer'[t].serves = "managed"
      /\ \A t, u \in T!Starting' : t # u => tlsServer'[t].overlapped
  BY <1>2 DEF TlsInv, T!Starting
<1>4. ASSUME NEW t \in Users \ {s} PROVE Announced(t)'
  <2>1. Announced(t) /\ tlsServer'[t] = tlsServer[t]
    BY <1>2 DEF TlsInv
  <2>2. t \in T!Starting /\ s \in T!Starting => tlsServer[t].overlapped
    BY DEF TlsInv
  <2>3. \A n : HasPair(t, n) => HasPair(t, n)'
    BY <2>1 DEF HasPair
  <2>4. tlsServer[t].at \in T!Steps /\ ~tlsServer[t].overlapped
           => UNCHANGED <<tlsKey, tlsCert>>
    BY <2>2 DEF TlsInv, T!Starting
  <2> QED BY <2>1, <2>3, <2>4 DEF Announced, T!At, T!Steps
<1> QED BY <1>1, <1>3, <1>4 DEF TlsInv

LEMMA TlsStepInv == TlsInv /\ [T!Next]_(T!tlsVars) => TlsInv'
<1> SUFFICES ASSUME TlsInv, [T!Next]_(T!tlsVars) PROVE TlsInv'
  OBVIOUS
<1>0. /\ tlsKey \in 0 .. MaxPairs /\ tlsCert \in 0 .. MaxPairs
      /\ tlsPair \in [1 .. MaxPairs -> {T!NoPair} \cup T!Pairs]
      /\ tlsServer \in [Users -> T!States] /\ starts \in 0 .. MaxStarts
      /\ \A s \in Users : Announced(s)
  BY DEF TlsInv, T!TypeOK
<1>1. ASSUME NEW s \in Users, T!Check(s) PROVE TlsInv'
  <2> DEFINE on == [tlsServer[s] EXCEPT !.at = "make"]
             found == [tlsServer[s] EXCEPT !.at = "check_key", !.chosen = tlsCert]
  <2>1. /\ on \in T!States /\ on.at = "make" /\ on.serves = tlsServer[s].serves
        /\ on.overlapped = tlsServer[s].overlapped
    BY <1>0 DEF T!States, T!Steps
  <2>2. /\ found \in T!States /\ found.at = "check_key" /\ found.serves = tlsServer[s].serves
        /\ found.overlapped = tlsServer[s].overlapped /\ found.chosen = tlsCert
    BY <1>0 DEF T!States, T!Steps
  <2>3. /\ UNCHANGED <<tlsKey, tlsCert, tlsPair, starts>> /\ tlsServer[s].at = "check"
        /\ \/ tlsServer' = [tlsServer EXCEPT ![s] = on]
           \/ tlsServer' = [tlsServer EXCEPT ![s] = found] /\ tlsCert # 0
    BY <1>1 DEF T!Check, T!At, T!Goto
  <2> HIDE DEF on, found
  <2>4. Announced(s)'
    BY <1>0, <2>1, <2>2, <2>3 DEF Announced, T!At
  <2> QED BY <1>0, <2>1, <2>2, <2>3, <2>4, OneMoves DEF T!Steps
<1>2. ASSUME NEW s \in Users, T!CheckKey(s) PROVE TlsInv'
  <2> DEFINE n == tlsServer[s].chosen
             on == [tlsServer[s] EXCEPT !.at = "make"]
             found == [tlsServer[s] EXCEPT !.at = "listen", !.shown = n]
  <2>0. n \in 0 .. MaxPairs
    BY <1>0 DEF T!States
  <2>1. /\ on \in T!States /\ on.at = "make" /\ on.serves = tlsServer[s].serves
        /\ on.overlapped = tlsServer[s].overlapped
    BY <1>0 DEF T!States, T!Steps
  <2>2. /\ found \in T!States /\ found.at = "listen" /\ found.serves = tlsServer[s].serves
        /\ found.overlapped = tlsServer[s].overlapped /\ found.shown = n
        /\ found.hosts = tlsServer[s].hosts
    BY <1>0, <2>0 DEF T!States, T!Steps
  <2>3. /\ UNCHANGED <<tlsKey, tlsCert, tlsPair, starts>> /\ tlsServer[s].at = "check_key"
        /\ \/ tlsServer' = [tlsServer EXCEPT ![s] = on]
           \/ /\ tlsServer' = [tlsServer EXCEPT ![s] = found]
              /\ n = tlsKey /\ tlsServer[s].hosts \subseteq tlsPair[n].hosts
    BY <1>2 DEF T!CheckKey, T!At, T!Goto, T!Fits
  <2> HIDE DEF on, found, n
  <2>4. Announced(s)'
    <3>1. CASE tlsServer' = [tlsServer EXCEPT ![s] = on]
      BY <1>0, <2>1, <3>1 DEF Announced, T!At
    <3>2. CASE tlsServer' = [tlsServer EXCEPT ![s] = found]
               /\ n = tlsKey /\ tlsServer[s].hosts \subseteq tlsPair[n].hosts
      <4>1. tlsServer[s].serves = "managed" /\ ~tlsServer[s].overlapped
               => n = tlsCert /\ n \in 1 .. MaxPairs
        BY <1>0, <2>0, <2>3 DEF Announced, T!At, n
      <4>2. tlsServer'[s] = found
        BY <1>0, <3>2
      <4> QED BY <2>2, <2>3, <3>2, <4>1, <4>2 DEF Announced, T!At, HasPair
    <3> QED BY <2>3, <3>1, <3>2
  <2> QED BY <1>0, <2>1, <2>2, <2>3, <2>4, OneMoves DEF T!Steps
<1>3. ASSUME NEW s \in Users, NEW n \in 1 .. MaxPairs, T!Make(s, n) PROVE TlsInv'
  <2> DEFINE on == [tlsServer[s] EXCEPT !.at = "write_key", !.chosen = n]
             new == [hosts |-> tlsServer[s].hosts, age |-> "fresh"]
  <2>0. tlsServer[s] \in T!States /\ n \in 0 .. MaxPairs
    BY <1>0, TlsFacts
  <2>1. /\ on \in T!States /\ on.at = "write_key" /\ on.serves = tlsServer[s].serves
        /\ on.overlapped = tlsServer[s].overlapped /\ on.chosen = n
        /\ on.hosts = tlsServer[s].hosts
    BY <2>0 DEF T!States, T!Steps
  <2>2. new \in T!Pairs /\ new.hosts = tlsServer[s].hosts
    BY <1>0 DEF T!States, T!Pairs
  <2>3. /\ UNCHANGED <<tlsKey, tlsCert, starts>> /\ tlsServer[s].at = "make"
        /\ tlsServer' = [tlsServer EXCEPT ![s] = on]
        /\ tlsPair[n] = T!NoPair /\ tlsPair' = [tlsPair EXCEPT ![n] = new]
    BY <1>3 DEF T!Make, T!At
  <2> HIDE DEF on, new
  <2>4. \A m \in 1 .. MaxPairs : tlsPair[m].hosts \subseteq tlsPair'[m].hosts
    BY <1>0, <2>3 DEF T!NoPair
  <2>5. Announced(s)'
    BY <1>0, <2>1, <2>2, <2>3 DEF Announced, T!At, HasPair
  <2> QED BY <1>0, <2>1, <2>2, <2>3, <2>4, <2>5, OneMoves DEF T!Steps
<1>4. ASSUME NEW s \in Users, T!WriteKey(s) \/ T!WriteCert(s) \/ T!WriteFails(s) PROVE TlsInv'
  <2> DEFINE was == tlsServer[s]
             on == [was EXCEPT !.at = "write_cert"]
             over == [was EXCEPT !.at = "listen", !.shown = was.chosen]
             out == [was EXCEPT !.at = "refused"]
  <2>0. was \in T!States /\ was.chosen \in 0 .. MaxPairs
    BY <1>0 DEF T!States
  <2>1. /\ on \in T!States /\ on.at = "write_cert" /\ on.serves = was.serves
        /\ on.overlapped = was.overlapped /\ on.chosen = was.chosen /\ on.hosts = was.hosts
    BY <2>0 DEF T!States, T!Steps
  <2>2. /\ over \in T!States /\ over.at = "listen" /\ over.serves = was.serves
        /\ over.overlapped = was.overlapped /\ over.shown = was.chosen /\ over.hosts = was.hosts
    BY <2>0 DEF T!States, T!Steps
  <2>3. /\ out \in T!States /\ out.at = "refused" /\ out.serves = was.serves
        /\ out.overlapped = was.overlapped
    BY <2>0 DEF T!States, T!Steps
  <2>4. /\ UNCHANGED <<tlsPair, starts>> /\ was.at \in T!Steps
        /\ \/ /\ was.at = "write_key" /\ tlsServer' = [tlsServer EXCEPT ![s] = on]
              /\ tlsKey' = was.chosen /\ tlsCert' = tlsCert
           \/ /\ was.at = "write_cert" /\ tlsServer' = [tlsServer EXCEPT ![s] = over]
              /\ tlsCert' = was.chosen /\ tlsKey' = tlsKey
           \/ tlsServer' = [tlsServer EXCEPT ![s] = out] /\ UNCHANGED <<tlsKey, tlsCert>>
    BY <1>4 DEF T!WriteKey, T!WriteCert, T!WriteFails, T!At, T!Goto, T!Steps
  <2>5. Announced(s)
    BY <1>0
  <2> HIDE DEF on, over, out
  <2>6. Announced(s)'
    BY <1>0, <2>1, <2>2, <2>3, <2>4, <2>5 DEF Announced, T!At, HasPair
  <2> QED BY <1>0, <2>0, <2>1, <2>2, <2>3, <2>4, <2>6, OneMoves DEF T!Steps
<1>5. ASSUME NEW s \in Users, T!Load(s) \/ T!LoadKey(s) PROVE TlsInv'
  <2> DEFINE was == tlsServer[s]
             on == [was EXCEPT !.at = "load_key", !.loaded = tlsCert]
             up == [was EXCEPT !.at = "running"]
             out == [was EXCEPT !.at = "failed"]
  <2>0. was \in T!States
    BY <1>0
  <2>1. /\ on \in T!States /\ on.at = "load_key" /\ on.serves = was.serves
        /\ on.overlapped = was.overlapped /\ on.loaded = tlsCert /\ on.shown = was.shown
        /\ on.hosts = was.hosts
    BY <1>0, <2>0 DEF T!States, T!Steps
  <2>2. /\ up \in T!States /\ up.at = "running" /\ up.serves = was.serves
        /\ up.overlapped = was.overlapped /\ up.loaded = was.loaded /\ up.shown = was.shown
        /\ up.hosts = was.hosts
    BY <2>0 DEF T!States, T!Steps
  <2>3. /\ out \in T!States /\ out.at = "failed" /\ out.serves = was.serves
        /\ out.overlapped = was.overlapped
    BY <2>0 DEF T!States, T!Steps
  <2>4. /\ UNCHANGED <<tlsKey, tlsCert, tlsPair, starts>> /\ was.at \in T!Steps
        /\ \/ was.at = "listen" /\ tlsServer' = [tlsServer EXCEPT ![s] = on]
           \/ was.at = "load_key" /\ tlsServer' = [tlsServer EXCEPT ![s] = up]
           \/ /\ was.at = "load_key" /\ tlsServer' = [tlsServer EXCEPT ![s] = out]
              /\ tlsKey # was.loaded
    BY <1>5 DEF T!Load, T!LoadKey, T!At, T!Goto, T!Steps
  <2>5. Announced(s)
    BY <1>0
  <2> HIDE DEF on, up, out
  <2>6. Announced(s)'
    BY <1>0, <2>1, <2>2, <2>3, <2>4, <2>5 DEF Announced, T!At, HasPair
  <2> QED BY <1>0, <2>1, <2>2, <2>3, <2>4, <2>6, OneMoves DEF T!Steps
<1>6. ASSUME NEW s \in Users, T!Stop(s) PROVE TlsInv'
  <2>1. /\ T!Stopped \in T!States /\ T!Stopped.at = "stopped" /\ T!Stopped.serves = "none"
        /\ ~T!Stopped.overlapped
    BY TlsFacts DEF T!Stopped, T!States
  <2>2. tlsServer' = [tlsServer EXCEPT ![s] = T!Stopped]
        /\ UNCHANGED <<tlsKey, tlsCert, tlsPair, starts>>
    BY <1>6 DEF T!Stop
  <2>3. T!TypeOK'
    BY <1>0, <2>1, <2>2 DEF T!TypeOK
  <2>4. T!Starting' \subseteq T!Starting /\ s \notin T!Starting'
        /\ \A t \in Users \ {s} : tlsServer'[t] = tlsServer[t]
    BY <1>0, <2>1, <2>2 DEF T!Starting, T!Steps
  <2>5. \A t \in Users : tlsServer'[t].at \in T!Steps => tlsServer'[t].serves = "managed"
    BY <1>0, <2>1, <2>2 DEF TlsInv, T!Steps
  <2>6. \A t \in Users : Announced(t)'
    BY <1>0, <2>1, <2>2 DEF Announced, T!At, HasPair
  <2> QED BY <2>3, <2>4, <2>5, <2>6 DEF TlsInv, T!Starting
<1>7. ASSUME NEW n \in 1 .. MaxPairs, T!Age(n) PROVE TlsInv'
  <2> DEFINE older(a) == [tlsPair[n] EXCEPT !.age = a]
  <2>1. tlsPair[n] \in T!Pairs
    BY <1>0, <1>7 DEF T!Age, T!NoPair
  <2>2. \A a \in {"old", "expired"} : older(a) \in T!Pairs /\ older(a).hosts = tlsPair[n].hosts
    BY <2>1 DEF T!Pairs
  <2>3. (\E a \in {"old", "expired"} : tlsPair' = [tlsPair EXCEPT ![n] = older(a)])
        /\ UNCHANGED <<tlsKey, tlsCert, tlsServer, starts>>
    BY <1>7 DEF T!Age
  <2> HIDE DEF older
  <2>4. \A m \in 1 .. MaxPairs : tlsPair'[m].hosts = tlsPair[m].hosts
    BY <1>0, <2>2, <2>3
  <2>5. T!TypeOK'
    BY <1>0, <2>2, <2>3 DEF T!TypeOK
  <2>6. \A t \in Users : Announced(t)'
    BY <1>0, <2>3, <2>4 DEF Announced, T!At, HasPair
  <2> QED BY <2>3, <2>5, <2>6 DEF TlsInv, T!Starting
<1>8. ASSUME NEW s \in Users, NEW state \in T!States, T!Begin(s, state),
             \/ state.at \notin T!Steps /\ state.at # "failed" /\ state.serves # "managed"
             \/ state.at = "check" /\ state.serves = "managed"
                /\ (state.overlapped <=> T!Starting # {})
      PROVE  TlsInv'
  <2> DEFINE late(t) == [tlsServer[t] EXCEPT !.overlapped = TRUE]
  <2>1. \A t \in Users :
           /\ late(t) \in T!States /\ late(t).at = tlsServer[t].at
           /\ late(t).serves = tlsServer[t].serves /\ late(t).overlapped
    BY <1>0 DEF T!States
  <2>2. /\ UNCHANGED <<tlsKey, tlsCert, tlsPair>> /\ starts' \in 0 .. MaxStarts
        /\ tlsServer[s].at \in {"stopped", "refused", "failed"}
        /\ tlsServer' = [t \in Users |->
              IF t = s THEN state
              ELSE IF state.serves = "managed" /\ t \in T!Starting
                   THEN late(t) ELSE tlsServer[t]]
    <3>1. starts < MaxStarts /\ starts' = starts + 1
      BY <1>8 DEF T!Begin
    <3>2. starts' \in 0 .. MaxStarts
      BY <1>0, <3>1, TlsFacts
    <3> QED BY <1>8, <3>2 DEF T!Begin
  <2> HIDE DEF late
  <2>3. T!TypeOK'
    BY <1>0, <2>1, <2>2 DEF T!TypeOK
  <2>4. /\ tlsServer'[s] = state
        /\ \A t \in Users \ {s} :
              /\ tlsServer'[t] \in {tlsServer[t], late(t)}
              /\ state.serves = "managed" /\ t \in T!Starting => tlsServer'[t] = late(t)
    BY <2>2
  <2>5. s \notin T!Starting
        /\ T!Starting' \subseteq T!Starting \cup {s}
        /\ (state.serves # "managed" => s \notin T!Starting')
    BY <2>1, <2>2, <2>4 DEF T!Starting, T!Steps
  <2>6. \A t \in Users : tlsServer'[t].at \in T!Steps => tlsServer'[t].serves = "managed"
    BY <1>8, <2>1, <2>4 DEF TlsInv
  <2>7. ASSUME NEW t \in T!Starting', NEW u \in T!Starting', t # u
        PROVE  tlsServer'[t].overlapped
    <3>1. t \in Users /\ u \in Users
      BY DEF T!Starting
    <3>2. CASE t = s
      BY <1>8, <2>4, <2>5, <2>7, <3>2
    <3>3. CASE t # s /\ u = s
      BY <1>8, <2>1, <2>4, <2>5, <3>1, <3>3
    <3>4. CASE t # s /\ u # s
      <4>1. tlsServer[t].overlapped
        BY <2>5, <2>7, <3>4 DEF TlsInv
      <4> QED BY <2>1, <2>4, <3>1, <3>4, <4>1
    <3> QED BY <3>2, <3>3, <3>4
  <2>8. ASSUME NEW t \in Users PROVE Announced(t)'
    <3>1. CASE t = s
      BY <1>8, <2>4, <3>1 DEF Announced, T!At, T!Steps
    <3>2. CASE t # s
      <4>1. CASE tlsServer'[t] = tlsServer[t]
        BY <1>0, <2>2, <4>1 DEF Announced, T!At, HasPair
      <4>2. CASE tlsServer'[t] = late(t)
        BY <2>1, <4>2 DEF Announced
      <4> QED BY <2>4, <3>2, <4>1, <4>2
    <3> QED BY <3>1, <3>2
  <2> QED BY <2>3, <2>6, <2>7, <2>8 DEF TlsInv
<1>9. T!Stopped \in T!States /\ T!Stopped.serves = "none"
  BY TlsFacts DEF T!Stopped, T!States
<1>10. ASSUME NEW s \in Users,
              \/ T!ServePlain(s) \/ T!ServeRefused(s)
              \/ \E good \in BOOLEAN : T!ServeGiven(s, good)
       PROVE  TlsInv'
  <2> DEFINE plain == [T!Stopped EXCEPT !.at = "running", !.serves = "http"]
             none == [T!Stopped EXCEPT !.at = "refused"]
             given(at) == [T!Stopped EXCEPT !.at = at, !.serves = "given"]
  <2>1. /\ plain \in T!States /\ plain.at = "running" /\ plain.serves = "http"
        /\ none \in T!States /\ none.at = "refused" /\ none.serves = "none"
        /\ \A at \in {"running", "refused"} :
              given(at) \in T!States /\ given(at).at = at /\ given(at).serves = "given"
    BY <1>9 DEF T!States
  <2>2. \/ T!Begin(s, plain) \/ T!Begin(s, none)
        \/ \E at \in {"running", "refused"} : T!Begin(s, given(at))
    BY <1>10 DEF T!ServePlain, T!ServeRefused, T!ServeGiven
  <2> HIDE DEF plain, none, given
  <2> QED BY <1>8, <2>1, <2>2 DEF T!Steps
<1>11. ASSUME NEW s \in Users, NEW hosts \in SUBSET Labels, T!ServeManaged(s, hosts)
       PROVE  TlsInv'
  <2> DEFINE late == T!Starting # {}
             own == [T!Stopped EXCEPT !.at = "check", !.hosts = hosts, !.serves = "managed",
                                      !.overlapped = late]
  <2>1. late \in BOOLEAN
    OBVIOUS
  <2>2. T!Begin(s, own)
    BY <1>11 DEF T!ServeManaged
  <2> HIDE DEF late
  <2>3. /\ own \in T!States /\ own.at = "check" /\ own.serves = "managed"
        /\ own.overlapped = late
    BY <1>9, <2>1 DEF T!States, T!Steps
  <2> HIDE DEF own
  <2> QED BY <1>8, <2>2, <2>3 DEF late
<1>12. CASE UNCHANGED T!tlsVars
  <2>1. UNCHANGED <<tlsKey, tlsCert, tlsPair, tlsServer, starts>>
    BY <1>12 DEF T!tlsVars
  <2>2. \A t \in Users : Announced(t)'
    BY <1>0, <2>1 DEF Announced, T!At, HasPair
  <2> QED BY <2>1, <2>2 DEF TlsInv, T!TypeOK, T!Starting
<1> QED BY <1>1, <1>2, <1>3, <1>4, <1>5, <1>6, <1>7, <1>10, <1>11, <1>12 DEF T!Next, T!Serve

\* A server that no other overtook while it started serves the certificate whose
\* fingerprint it printed, for all the names it must answer to, whatever a start that was
\* cut off left in the directory.
THEOREM TlsAsAnnounced == T!Init /\ [][T!Next]_(T!tlsVars) => [](T!TypeOK /\ T!StartsAsAnnounced)
<1>1. TlsInv => T!TypeOK /\ T!StartsAsAnnounced
  BY DEF TlsInv, Announced, HasPair, T!StartsAsAnnounced, T!At
<1> QED BY <1>1, TlsInitInv, TlsStepInv, PTL

-----------------------------------------------------------------------------
(* The publishers' keys. *)

LEMMA TrustFacts == MaxKeys \in Nat /\ MaxKeys # 0 /\ MaxChanges \in Nat
BY AccessAssumption DEF B!TrustAssumption

\* A verification that shares its file with no other finds its own key there.
Alone(c) ==
    ~call[c].shared =>
       /\ call[c].verdict # "raised"
       /\ call[c].verdict \in {"trusted", "untrusted"} => call[c].loaded = call[c].key
       /\ call[c].at \in B!UseFile => call[c].key # 0
       /\ call[c].at = "write" => temp = B!Empty
       /\ call[c].at = "load" => temp = call[c].key

TrustInv ==
    /\ B!TypeOK
    /\ \A c, d \in Users :
          c # d /\ call[c].at \in B!UseFile /\ call[d].at \in B!UseFile => call[c].shared
    /\ \A c \in Users : Alone(c)

LEMMA TrustInitInv == B!Init => TrustInv
<1> SUFFICES ASSUME B!Init PROVE TrustInv
  OBVIOUS
<1>1. /\ B!Idle \in B!Verifications /\ B!Idle.at = "idle" /\ B!Idle.verdict = "none"
  BY TrustFacts DEF B!Idle, B!Verifications, B!Key
<1>2. call = [c \in Users |-> B!Idle]
  BY DEF B!Init
<1>3. 0 \in B!Key
  BY TrustFacts DEF B!Key
<1>4. pair \in [private : B!Key, public : B!Key, last : B!Key]
  BY <1>3 DEF B!Init
<1>5. bundle \in [signer : B!Key, content : Labels] /\ publisher \in [key : B!Key, revoked : BOOLEAN]
  BY <1>3 DEF B!Init
<1>6. temp \in {B!Absent} \cup B!Key /\ changes \in 0 .. MaxChanges /\ plugin \in Labels
  BY TrustFacts DEF B!Init
<1> QED BY <1>1, <1>2, <1>4, <1>5, <1>6 DEF TrustInv, B!TypeOK, Alone, B!UseFile

\* What is done between two verifications touches neither the file nor them.
LEMMA TrustElsewhere ==
    ASSUME TrustInv, UNCHANGED <<temp, call>>,
           pair' \in [private : B!Key, public : B!Key, last : B!Key], plugin' \in Labels,
           bundle' \in [signer : B!Key, content : Labels],
           publisher' \in [key : B!Key, revoked : BOOLEAN], changes' \in 0 .. MaxChanges
    PROVE  TrustInv'
<1>1. B!TypeOK'
  BY DEF TrustInv, B!TypeOK
<1>2. \A c \in Users : Alone(c)'
  BY DEF TrustInv, Alone
<1> QED BY <1>1, <1>2 DEF TrustInv

\* One verification moves, and shares its file with the others as before.
LEMMA OneVerifies ==
    ASSUME TrustInv, NEW c \in Users, NEW next \in B!Verifications,
           call' = [call EXCEPT ![c] = next], next.shared = call[c].shared,
           call[c].at \in B!UseFile,
           temp' \in {B!Absent} \cup B!Key,
           UNCHANGED <<pair, plugin, bundle, publisher, changes>>,
           Alone(c)'
    PROVE  TrustInv'
<1>1. B!TypeOK'
  BY DEF TrustInv, B!TypeOK
<1>2. call'[c] = next /\ \A d \in Users \ {c} : call'[d] = call[d]
  BY DEF TrustInv, B!TypeOK
<1>3. ASSUME NEW d \in Users \ {c} PROVE Alone(d)'
  <2>1. call[d].at \in B!UseFile => call[d].shared
    BY DEF TrustInv
  <2>2. Alone(d)
    BY DEF TrustInv
  <2> QED BY <1>2, <2>1, <2>2 DEF Alone, B!UseFile
<1>4. \A d, e \in Users :
         d # e /\ call'[d].at \in B!UseFile /\ call'[e].at \in B!UseFile => call'[d].shared
  BY <1>2 DEF TrustInv
<1> QED BY <1>1, <1>3, <1>4 DEF TrustInv

LEMMA TrustStepInv == TrustInv /\ [B!Next]_(B!trustVars) => TrustInv'
<1> SUFFICES ASSUME TrustInv, [B!Next]_(B!trustVars) PROVE TrustInv'
  OBVIOUS
<1>0. /\ pair \in [private : B!Key, public : B!Key, last : B!Key] /\ plugin \in Labels
      /\ bundle \in [signer : B!Key, content : Labels]
      /\ publisher \in [key : B!Key, revoked : BOOLEAN] /\ changes \in 0 .. MaxChanges
      /\ temp \in {B!Absent} \cup B!Key /\ call \in [Users -> B!Verifications]
      /\ \A c \in Users : Alone(c)
      /\ 0 \in B!Key
  BY TrustFacts DEF TrustInv, B!TypeOK, B!Key
<1>1. CASE B!WritePrivate
  <2> DEFINE made == [pair EXCEPT !.last = @ + 1, !.private = pair.last + 1]
  <2>1. pair.last \in Nat /\ pair.last < MaxKeys
    BY <1>0, <1>1, TrustFacts DEF B!WritePrivate, B!Key
  <2>2. pair.last + 1 \in B!Key
    BY <2>1, TrustFacts DEF B!Key
  <2>3. made \in [private : B!Key, public : B!Key, last : B!Key]
    BY <1>0, <2>2
  <2>4. pair' = made /\ UNCHANGED <<plugin, bundle, publisher, temp, call, changes>>
    BY <1>1 DEF B!WritePrivate
  <2> QED BY <1>0, <2>3, <2>4, TrustElsewhere
<1>2. CASE B!WritePublic
  <2>1. [pair EXCEPT !.public = pair.private] \in [private : B!Key, public : B!Key, last : B!Key]
    BY <1>0
  <2> QED BY <1>0, <1>2, <2>1, TrustElsewhere DEF B!WritePublic
<1>3. B!Changed => changes' \in 0 .. MaxChanges
  <2>1. B!Changed => changes < MaxChanges /\ changes' = changes + 1
    BY DEF B!Changed
  <2> QED BY <1>0, <2>1, TrustFacts
<1>4. CASE B!Sign
  <2>1. /\ bundle' = [signer |-> pair.private, content |-> plugin] /\ changes' \in 0 .. MaxChanges
        /\ UNCHANGED <<pair, plugin, publisher, temp, call>>
    BY <1>3, <1>4 DEF B!Sign
  <2> QED BY <1>0, <2>1, TrustElsewhere
<1>5. CASE B!AddPublisher
  <2>1. /\ publisher' = [key |-> pair.public, revoked |-> FALSE] /\ changes' \in 0 .. MaxChanges
        /\ UNCHANGED <<pair, plugin, bundle, temp, call>>
    BY <1>3, <1>5 DEF B!AddPublisher
  <2> QED BY <1>0, <2>1, TrustElsewhere
<1>6. CASE B!Revoke
  <2>1. /\ publisher' = [publisher EXCEPT !.revoked = TRUE] /\ changes' \in 0 .. MaxChanges
        /\ UNCHANGED <<pair, plugin, bundle, temp, call>>
    BY <1>3, <1>6 DEF B!Revoke
  <2>2. [publisher EXCEPT !.revoked = TRUE] \in [key : B!Key, revoked : BOOLEAN]
    BY <1>0
  <2> QED BY <1>0, <2>1, <2>2, TrustElsewhere
<1>7. ASSUME NEW content \in Labels, B!Edit(content) PROVE TrustInv'
  <2>1. /\ plugin' = content /\ changes' \in 0 .. MaxChanges
        /\ UNCHANGED <<pair, bundle, publisher, temp, call>>
    BY <1>3, <1>7 DEF B!Edit
  <2> QED BY <1>0, <2>1, TrustElsewhere
<1>8. B!Idle \in B!Verifications /\ B!Idle.at = "idle" /\ B!Idle.verdict = "none"
      /\ ~B!Idle.shared
  BY <1>0 DEF B!Idle, B!Verifications
<1>9. ASSUME NEW c \in Users, B!ReadRecord(c) PROVE TrustInv'
  <2> DEFINE no == [B!Idle EXCEPT !.verdict = "refused"]
             busy == B!Others(c) # {}
             own == [B!Idle EXCEPT !.at = "open", !.key = publisher.key, !.shared = busy]
             hit(d) == [call[d] EXCEPT !.shared = TRUE]
  <2>1. /\ no \in B!Verifications /\ no.at = "idle" /\ no.verdict = "refused"
    BY <1>8 DEF B!Verifications
  <2>2. /\ own \in B!Verifications /\ own.at = "open" /\ own.verdict = "none"
        /\ own.key = publisher.key /\ (own.shared <=> busy)
    <3>1. busy \in BOOLEAN /\ publisher.key \in B!Key
      BY <1>0
    <3> HIDE DEF busy
    <3> QED BY <1>8, <3>1 DEF B!Verifications, B!UseFile
  <2>3. \A d \in Users : hit(d) \in B!Verifications /\ hit(d).shared /\ hit(d).at = call[d].at
    BY <1>0 DEF B!Verifications
  <2>4. /\ call[c].at = "idle" /\ publisher.key # 0
        /\ \/ call' = [call EXCEPT ![c] = no]
           \/ call' = [d \in Users |->
                         CASE d = c -> own [] d \in B!Others(c) -> hit(d) [] OTHER -> call[d]]
        /\ UNCHANGED <<pair, plugin, bundle, publisher, temp, changes>>
    BY <1>9 DEF B!ReadRecord
  <2> HIDE DEF no, busy, own, hit
  <2>5. CASE call' = [call EXCEPT ![c] = no]
    <3>1. B!TypeOK'
      BY <1>0, <2>1, <2>4, <2>5 DEF B!TypeOK
    <3>2. call'[c] = no /\ \A d \in Users \ {c} : call'[d] = call[d]
      BY <1>0, <2>5
    <3>3. \A d \in Users : Alone(d)'
      BY <1>0, <2>1, <2>4, <3>2 DEF Alone, B!UseFile
    <3> QED BY <2>1, <3>1, <3>2, <3>3 DEF TrustInv, B!UseFile
  <2>6. CASE call' = [d \in Users |->
                 CASE d = c -> own [] d \in B!Others(c) -> hit(d) [] OTHER -> call[d]]
    <3>1. c \notin B!Others(c) /\ B!Others(c) \subseteq Users
      BY DEF B!Others
    <3>2. /\ call'[c] = own
          /\ \A d \in B!Others(c) : call'[d] = hit(d)
          /\ \A d \in Users \ {c} : d \notin B!Others(c) => call'[d] = call[d]
      BY <2>6, <3>1
    <3>3. call' \in [Users -> B!Verifications]
      <4>1. \A d \in Users : call'[d] \in B!Verifications
        BY <1>0, <2>2, <2>3, <3>1, <3>2
      <4> QED BY <2>6, <4>1
    <3>4. B!TypeOK'
      BY <1>0, <2>4, <3>3 DEF B!TypeOK
    <3>5. \A d \in Users \ {c} : d \notin B!Others(c) => call[d].at \notin B!UseFile
      BY DEF B!Others
    <3>6. \A d \in Users \ {c} : call'[d].at \in B!UseFile => d \in B!Others(c) /\ call'[d].shared
      BY <2>3, <3>1, <3>2, <3>5
    <3>7. \A d \in Users : Alone(d)'
      <4>1. Alone(c)'
        BY <2>2, <2>4, <3>2 DEF Alone
      <4>2. ASSUME NEW d \in B!Others(c) PROVE Alone(d)'
        BY <2>3, <3>1, <3>2, <4>2 DEF Alone
      <4>3. ASSUME NEW d \in Users \ {c}, d \notin B!Others(c) PROVE Alone(d)'
        BY <1>0, <2>4, <3>2, <4>3 DEF Alone
      <4> QED BY <4>1, <4>2, <4>3
    <3>8. ASSUME NEW d \in Users, NEW e \in Users, d # e,
                 call'[d].at \in B!UseFile, call'[e].at \in B!UseFile
          PROVE  call'[d].shared
      <4>1. CASE d # c
        BY <3>6, <3>8, <4>1
      <4>2. CASE d = c
        <5>1. e \in B!Others(c)
          BY <3>6, <3>8, <4>2
        <5> QED BY <2>2, <3>2, <4>2, <5>1 DEF busy
      <4> QED BY <4>1, <4>2
    <3> QED BY <3>4, <3>7, <3>8 DEF TrustInv
  <2> QED BY <2>4, <2>5, <2>6
<1>10. ASSUME NEW c \in Users, B!OpenTemp(c) PROVE TrustInv'
  <2> DEFINE on == [call[c] EXCEPT !.at = "write"]
  <2>1. on \in B!Verifications /\ on.at = "write" /\ on.shared = call[c].shared
        /\ on.verdict = call[c].verdict /\ on.loaded = call[c].loaded /\ on.key = call[c].key
    BY <1>0 DEF B!Verifications, B!UseFile
  <2>2. /\ call[c].at = "open" /\ temp' = B!Empty /\ call' = [call EXCEPT ![c] = on]
        /\ UNCHANGED <<pair, plugin, bundle, publisher, changes>>
    BY <1>10 DEF B!OpenTemp
  <2> HIDE DEF on
  <2>3. call'[c] = on /\ temp' \in {B!Absent} \cup B!Key
    BY <1>0, <2>2 DEF B!Empty
  <2>4. Alone(c)'
    BY <1>0, <2>1, <2>2, <2>3 DEF Alone, B!UseFile
  <2> QED BY <2>1, <2>2, <2>3, <2>4, OneVerifies DEF B!UseFile
<1>11. ASSUME NEW c \in Users, B!WriteTemp(c) PROVE TrustInv'
  <2> DEFINE on == [call[c] EXCEPT !.at = "load"]
  <2>1. on \in B!Verifications /\ on.at = "load" /\ on.shared = call[c].shared
        /\ on.verdict = call[c].verdict /\ on.loaded = call[c].loaded /\ on.key = call[c].key
        /\ call[c].key \in B!Key
    BY <1>0 DEF B!Verifications, B!UseFile
  <2>2. /\ call[c].at = "write" /\ call' = [call EXCEPT ![c] = on]
        /\ \/ temp' = call[c].key
           \/ call[c].shared /\ temp' = temp
        /\ UNCHANGED <<pair, plugin, bundle, publisher, changes>>
    BY <1>11 DEF B!WriteTemp
  <2> HIDE DEF on
  <2>3. call'[c] = on /\ temp' \in {B!Absent} \cup B!Key
    BY <1>0, <2>1, <2>2
  <2>4. Alone(c)'
    BY <1>0, <2>1, <2>2, <2>3 DEF Alone, B!UseFile
  <2> QED BY <2>1, <2>2, <2>3, <2>4, OneVerifies DEF B!UseFile
<1>12. ASSUME NEW c \in Users, B!BadBundle(c) PROVE TrustInv'
  <2> DEFINE on == [call[c] EXCEPT !.at = "idle", !.verdict = "unread"]
  <2>1. on \in B!Verifications /\ on.at = "idle" /\ on.shared = call[c].shared
        /\ on.verdict = "unread"
    BY <1>0 DEF B!Verifications
  <2>2. /\ call[c].at = "load" /\ call' = [call EXCEPT ![c] = on]
        /\ UNCHANGED <<pair, plugin, bundle, publisher, temp, changes>>
    BY <1>12 DEF B!BadBundle
  <2> HIDE DEF on
  <2>3. call'[c] = on
    BY <1>0, <2>2
  <2>4. Alone(c)'
    BY <2>1, <2>3 DEF Alone, B!UseFile
  <2> QED BY <1>0, <2>1, <2>2, <2>4, OneVerifies DEF B!UseFile
<1>13. ASSUME NEW c \in Users, B!Verify(c) PROVE TrustInv'
  <2> DEFINE out == [call[c] EXCEPT !.at = "idle", !.verdict = "raised"]
             on(v) == [call[c] EXCEPT !.at = "unlink", !.loaded = temp, !.verdict = v]
  <2>1. out \in B!Verifications /\ out.at = "idle" /\ out.shared = call[c].shared
    BY <1>0 DEF B!Verifications
  <2>2. temp \notin {B!Absent, B!Empty} => \A v \in {"trusted", "untrusted"} :
          /\ on(v) \in B!Verifications /\ on(v).at = "unlink" /\ on(v).shared = call[c].shared
          /\ on(v).verdict = v /\ on(v).loaded = temp /\ on(v).key = call[c].key
    BY <1>0 DEF B!Verifications, B!UseFile
  <2>3. /\ call[c].at = "load"
        /\ \/ temp \in {B!Absent, B!Empty} /\ call' = [call EXCEPT ![c] = out]
           \/ /\ temp \notin {B!Absent, B!Empty}
              /\ \E v \in {"trusted", "untrusted"} : call' = [call EXCEPT ![c] = on(v)]
        /\ UNCHANGED <<pair, plugin, bundle, publisher, temp, changes>>
    BY <1>13 DEF B!Verify, B!Raise
  <2> HIDE DEF out, on
  <2>4. ~call[c].shared => temp = call[c].key /\ call[c].key \in B!Key /\ call[c].key # 0
    BY <1>0, <2>3 DEF Alone, B!UseFile, B!Verifications
  <2>5. ~call[c].shared => temp \notin {B!Absent, B!Empty}
    BY <2>4, TrustFacts DEF B!Absent, B!Empty, B!Key
  <2>6. CASE temp \in {B!Absent, B!Empty} /\ call' = [call EXCEPT ![c] = out]
    <3>1. call'[c] = out /\ call[c].shared
      BY <1>0, <2>5, <2>6
    <3>2. Alone(c)'
      BY <2>1, <3>1 DEF Alone
    <3> QED BY <1>0, <2>1, <2>3, <2>6, <3>2, OneVerifies DEF B!UseFile
  <2>7. ASSUME NEW v \in {"trusted", "untrusted"}, temp \notin {B!Absent, B!Empty},
               call' = [call EXCEPT ![c] = on(v)]
        PROVE  TrustInv'
    <3>1. call'[c] = on(v)
      BY <1>0, <2>7
    <3>2. Alone(c)'
      BY <2>2, <2>4, <2>7, <3>1 DEF Alone
    <3> QED BY <1>0, <2>2, <2>3, <2>7, <3>2, OneVerifies DEF B!UseFile
  <2> QED BY <2>3, <2>6, <2>7
<1>14. ASSUME NEW c \in Users, B!Unlink(c) PROVE TrustInv'
  <2> DEFINE on == [call[c] EXCEPT !.at = "idle"]
  <2>1. on \in B!Verifications /\ on.at = "idle" /\ on.shared = call[c].shared
        /\ on.verdict = call[c].verdict /\ on.loaded = call[c].loaded /\ on.key = call[c].key
    BY <1>0 DEF B!Verifications
  <2>2. /\ call[c].at = "unlink" /\ temp' = B!Absent /\ call' = [call EXCEPT ![c] = on]
        /\ UNCHANGED <<pair, plugin, bundle, publisher, changes>>
    BY <1>14 DEF B!Unlink
  <2> HIDE DEF on
  <2>3. call'[c] = on
    BY <1>0, <2>2
  <2>4. Alone(c)'
    BY <1>0, <2>1, <2>3 DEF Alone, B!UseFile
  <2> QED BY <1>0, <2>1, <2>2, <2>4, OneVerifies DEF B!UseFile
<1>15. CASE UNCHANGED B!trustVars
  BY <1>0, <1>15, TrustElsewhere DEF B!trustVars
<1> QED BY <1>1, <1>2, <1>4, <1>5, <1>6, <1>7, <1>9, <1>10, <1>11, <1>12, <1>13, <1>14,
           <1>15 DEF B!Next

\* A verdict on a plugin is reported with the fingerprint of the key that was used, and
\* given whenever the bundle can be read, unless two verifications overlapped.
THEOREM VerdictsAreOwn == B!Init /\ [][B!Next]_(B!trustVars) => [](B!TypeOK /\ B!VerdictIsOwn)
<1>1. TrustInv => B!TypeOK /\ B!VerdictIsOwn
  BY DEF TrustInv, Alone, B!VerdictIsOwn
<1> QED BY <1>1, TrustInitInv, TrustStepInv, PTL

-----------------------------------------------------------------------------
(* The authority of the lab and the agents it enrols. *)

LEMMA EnrollFacts ==
    /\ MaxPlaces \in Nat /\ MaxPlaces # 0 /\ Nobody \notin Labels \cup {Controller}
    /\ Authority \in E!Places
    /\ \A n \in Labels \cup {Controller} : MCFileOf[n] \in E!Places \ {Authority}
BY AccessAssumption DEF E!EnrollAssumption, E!Places

\* A pair is a number from 1 on; 0 stands for a file that is not there.
Blank == <<0, 0>>
PairNumbers == 0 .. MaxPlaces
FilePairs == [key : PairNumbers, cert : PairNumbers \X PairNumbers]
Enrolments ==
    [at : {"idle", "read", "key", "cert", "insert", "config"},
     name : {Nobody, Controller} \cup Labels, pair : PairNumbers, signer : PairNumbers]

\* A call that has yet to finish the pair of a place; one whose key is there already.
Writing(c, p) == labCall[c].at \in {"key", "cert"} /\ E!Place(c) = p
Closing(c, p) == labCall[c].at = "cert" /\ E!Place(c) = p

CallSound(c) ==
    /\ labCall[c].at # "idle" => labCall[c].signer # 0
    /\ labCall[c].at \in {"key", "cert", "insert", "config"} => labCall[c].pair # 0
    /\ labCall[c].at = "read" => labCall[c].name # Nobody
    /\ labCall[c].at \in {"insert", "config"} =>
          labCall[c].name \in Labels /\ files[MCFileOf[labCall[c].name]].cert # Blank
    /\ labCall[c].at = "config" => agents[labCall[c].name] = labCall[c].pair

\* The key of a place that is not hurt is its certificate's, or that of the one call
\* that is about to write the certificate.
PairSound(p) ==
    /\ \A c \in Users : Closing(c, p) => files[p].key = labCall[c].pair
    /\ \A c, d \in Users : Closing(c, p) /\ Closing(d, p) => c = d
    /\ (\A c \in Users : ~Closing(c, p)) => files[p].key = files[p].cert[1]

PlaceSound(p) ==
    /\ files[p].cert = Blank \/ (files[p].cert[1] # 0 /\ files[p].cert[2] # 0)
    /\ p \in hurt \/ PairSound(p)

RowSound(n) ==
    config[n] # 0 => config[n] = agents[n] /\ files[MCFileOf[n]].cert # Blank

\* One call makes the authority; all that is signed, and the server, is by its key.
AuthoritySound ==
    /\ \A c, d \in Users : Writing(c, Authority) /\ Writing(d, Authority) => c = d
    /\ \A c \in Users : Writing(c, Authority) =>
          /\ files[Authority].cert = Blank
          /\ labCall[c].at = "key" => files[Authority].key = 0
    /\ \A c \in Users :
          labCall[c].at \in {"read", "key", "cert"} /\ labCall[c].name # Nobody =>
             labCall[c].signer = files[Authority].key
    /\ \A p \in E!Places \ {Authority} :
          files[p].cert = Blank \/ files[p].cert[2] = files[Authority].key
    /\ labServer # Nobody =>
          /\ files[Authority].cert # Blank
          /\ labServer.trusts = files[Authority].cert[1]
          /\ labServer.signer = files[Authority].key

EnrollInv ==
    /\ E!TypeOK
    /\ \A c \in Users : CallSound(c)
    /\ \A p \in E!Places : PlaceSound(p)
    /\ \A n \in Labels : RowSound(n)
    /\ Authority \in hurt \/ AuthoritySound

LEMMA EnrollTypes ==
    E!TypeOK <=> /\ files \in [E!Places -> FilePairs]
                 /\ config \in [Labels -> PairNumbers] /\ agents \in [Labels -> PairNumbers]
                 /\ labServer \in {Nobody} \cup [signer : 1 .. MaxPlaces, trusts : 1 .. MaxPlaces]
                 /\ labCall \in [Users -> Enrolments]
                 /\ labKeys \in PairNumbers /\ hurt \subseteq E!Places
BY DEF E!TypeOK, Enrolments, FilePairs, PairNumbers

LEMMA EnrollInitInv == E!Init => EnrollInv
<1> SUFFICES ASSUME E!Init PROVE EnrollInv
  OBVIOUS
<1>1. /\ files = [p \in E!Places |-> E!Missing] /\ config = [n \in Labels |-> 0]
      /\ agents = [n \in Labels |-> 0] /\ labServer = Nobody
      /\ labCall = [c \in Users |-> E!Idle] /\ labKeys = 0 /\ hurt = {}
  BY DEF E!Init
<1>2. /\ E!Missing \in FilePairs /\ E!Missing.key = 0 /\ E!Missing.cert = Blank
      /\ E!Idle \in Enrolments /\ E!Idle.at = "idle" /\ 0 \in PairNumbers
  BY EnrollFacts DEF E!Missing, E!Idle, FilePairs, Enrolments, PairNumbers, Blank
<1>3. E!TypeOK
  BY <1>1, <1>2, EnrollTypes
<1>4. \A p \in E!Places : files[p] = E!Missing
  BY <1>1
<1>5. \A c \in Users : labCall[c].at = "idle"
  BY <1>1, <1>2
<1>6. (\A c \in Users : CallSound(c)) /\ (\A n \in Labels : RowSound(n))
  BY <1>1, <1>5 DEF CallSound, RowSound
<1>7. \A p \in E!Places : PlaceSound(p)
  BY <1>2, <1>4, <1>5 DEF PlaceSound, PairSound, Closing, Blank
<1>8. AuthoritySound
  BY <1>1, <1>2, <1>4, <1>5 DEF AuthoritySound, Writing
<1> QED BY <1>3, <1>6, <1>7, <1>8 DEF EnrollInv

\* One call moves.
LEMMA CallMoves ==
    ASSUME labCall \in [Users -> Enrolments], NEW c \in Users, NEW to \in Enrolments,
           labCall' = [labCall EXCEPT ![c] = to]
    PROVE  /\ labCall' \in [Users -> Enrolments] /\ labCall'[c] = to
           /\ \A d \in Users \ {c} :
                 /\ labCall'[d] = labCall[d] /\ E!Place(d)' = E!Place(d)
                 /\ \A p : (Closing(d, p)' <=> Closing(d, p)) /\ (Writing(d, p)' <=> Writing(d, p))
           /\ to.name = labCall[c].name => E!Place(c)' = E!Place(c)
           /\ to.name = Nobody => E!Place(c)' = Authority
           /\ to.name # Nobody => E!Place(c)' = MCFileOf[to.name]
<1>1. labCall'[c] = to /\ \A d \in Users \ {c} : labCall'[d] = labCall[d]
  OBVIOUS
<1> QED BY <1>1 DEF E!Place, Closing, Writing

\* A step of a call that writes neither file of a place.
LEMMA FilesKept ==
    ASSUME EnrollInv, NEW c \in Users, NEW to \in Enrolments,
           labCall' = [labCall EXCEPT ![c] = to], UNCHANGED <<files, labServer>>,
           config' \in [Labels -> PairNumbers], agents' \in [Labels -> PairNumbers], labKeys' \in PairNumbers,
           hurt \subseteq hurt', hurt' \subseteq E!Places,
           to.at # "cert", labCall[c].at = "cert" => E!Place(c) \in hurt',
           \A n \in Labels : agents'[n] = agents[n] \/ agents[n] = 0,
           CallSound(c)', \A n \in Labels : RowSound(n)',
           to.at = "key" /\ to.name = Nobody /\ Authority \notin hurt' =>
              /\ files[Authority].key = 0 /\ files[Authority].cert = Blank
              /\ \A d \in Users : ~Writing(d, Authority),
           to.at \in {"read", "key"} /\ to.name # Nobody /\ Authority \notin hurt' =>
              to.signer = files[Authority].key
    PROVE  EnrollInv'
<1>0. labCall \in [Users -> Enrolments] /\ E!TypeOK
  BY EnrollTypes DEF EnrollInv
<1>1. /\ labCall' \in [Users -> Enrolments] /\ labCall'[c] = to
      /\ \A d \in Users \ {c} :
            /\ labCall'[d] = labCall[d] /\ E!Place(d)' = E!Place(d)
            /\ \A p : (Closing(d, p)' <=> Closing(d, p)) /\ (Writing(d, p)' <=> Writing(d, p))
      /\ to.name = Nobody => E!Place(c)' = Authority
      /\ to.name # Nobody => E!Place(c)' = MCFileOf[to.name]
  BY <1>0, CallMoves
<1>2. E!TypeOK'
  BY <1>0, <1>1 DEF E!TypeOK, Enrolments, PairNumbers
<1>3. ASSUME NEW d \in Users PROVE CallSound(d)'
  <2>1. CASE d = c
    BY <2>1
  <2>2. CASE d # c
    <3>1. CallSound(d) /\ labCall'[d] = labCall[d] /\ labCall[d] \in Enrolments
      BY <1>0, <1>1, <2>2 DEF EnrollInv
    <3>2. labCall[d].at = "config" =>
             labCall[d].name \in Labels /\ agents[labCall[d].name] # 0
      BY <3>1 DEF CallSound
    <3> QED BY <3>1, <3>2 DEF CallSound
  <2> QED BY <2>1, <2>2
<1>4. ~\E p : Closing(c, p)'
  BY <1>1 DEF Closing
<1>5. ASSUME NEW p \in E!Places PROVE PlaceSound(p)'
  <2>1. PlaceSound(p)
    BY DEF EnrollInv
  <2>2. CASE p \in hurt'
    BY <2>1, <2>2 DEF PlaceSound
  <2>3. CASE p \notin hurt'
    <3>1. PairSound(p) /\ ~Closing(c, p)
      BY <2>1, <2>3 DEF PlaceSound, Closing
    <3>2. \A d \in Users : Closing(d, p)' <=> Closing(d, p)
      BY <1>1, <1>4, <3>1
    <3>3. \A d \in Users : Closing(d, p) => labCall'[d] = labCall[d]
      BY <1>1, <3>1
    <3>4. PairSound(p)'
      BY <3>1, <3>2, <3>3 DEF PairSound
    <3> QED BY <2>1, <3>4 DEF PlaceSound
  <2> QED BY <2>2, <2>3
<1>6. CASE Authority \in hurt'
  BY <1>2, <1>3, <1>5, <1>6 DEF EnrollInv
<1>7. CASE Authority \notin hurt'
  <2>1. AuthoritySound
    BY <1>7 DEF EnrollInv
  <2>2. to.name # Nobody => ~Writing(c, Authority)'
    <3>1. to.name # Nobody => to.name \in Labels \cup {Controller}
      BY DEF Enrolments
    <3> QED BY <1>1, <3>1, EnrollFacts DEF Writing
  <2>3. Writing(c, Authority)' => to.at = "key" /\ to.name = Nobody
    BY <1>1, <2>2 DEF Writing
  <2>4. ASSUME NEW d \in Users, NEW e \in Users,
               Writing(d, Authority)', Writing(e, Authority)'
        PROVE  d = e
    <3>1. CASE d # c /\ e # c
      BY <1>1, <2>1, <2>4, <3>1 DEF AuthoritySound
    <3>2. CASE d = c \/ e = c
      BY <1>1, <1>7, <2>3, <2>4, <3>2
    <3> QED BY <3>1, <3>2
  <2>5. ASSUME NEW d \in Users, Writing(d, Authority)'
        PROVE  files[Authority].cert = Blank /\ (labCall'[d].at = "key" => files[Authority].key = 0)
    <3>1. CASE d = c
      BY <1>7, <2>3, <2>5, <3>1
    <3>2. CASE d # c
      BY <1>1, <2>1, <2>5, <3>2 DEF AuthoritySound
    <3> QED BY <3>1, <3>2
  <2>6. ASSUME NEW d \in Users, labCall'[d].at \in {"read", "key", "cert"},
               labCall'[d].name # Nobody
        PROVE  labCall'[d].signer = files[Authority].key
    <3>1. CASE d = c
      BY <1>1, <1>7, <2>6, <3>1
    <3>2. CASE d # c
      BY <1>1, <2>1, <2>6, <3>2 DEF AuthoritySound
    <3> QED BY <3>1, <3>2
  <2>7. AuthoritySound'
    BY <2>1, <2>4, <2>5, <2>6 DEF AuthoritySound
  <2> QED BY <1>2, <1>3, <1>5, <2>7 DEF EnrollInv
<1> QED BY <1>6, <1>7

\* What the authority's directory keeps while only rows and the server change.
LEMMA ServerMoves ==
    ASSUME EnrollInv, UNCHANGED <<files, config, agents, labCall, labKeys, hurt>>,
           labServer' \in {Nobody} \cup [signer : 1 .. MaxPlaces, trusts : 1 .. MaxPlaces],
           labServer' # Nobody /\ Authority \notin hurt =>
              /\ files[Authority].cert # Blank
              /\ labServer'.trusts = files[Authority].cert[1]
              /\ labServer'.signer = files[Authority].key
    PROVE  EnrollInv'
<1>1. E!TypeOK'
  BY DEF EnrollInv, E!TypeOK
<1>2. \A c \in Users : E!Place(c)' = E!Place(c)
  BY DEF E!Place
<1>3. /\ \A c \in Users : CallSound(c)'
      /\ \A n \in Labels : RowSound(n)'
  BY DEF EnrollInv, CallSound, RowSound
<1>4. \A p \in E!Places : PlaceSound(p)'
  BY <1>2 DEF EnrollInv, PlaceSound, PairSound, Closing
<1>5. Authority \notin hurt => AuthoritySound'
  BY <1>2 DEF EnrollInv, AuthoritySound, Writing
<1> QED BY <1>1, <1>3, <1>4, <1>5 DEF EnrollInv

\* A step that writes one file of one place, by the call that is to.
LEMMA KeyWritten == ASSUME EnrollInv, NEW c \in Users, E!WriteKey(c) PROVE EnrollInv'
<1> DEFINE q == E!Place(c)
           to == [labCall[c] EXCEPT !.at = "cert"]
           new == [files[q] EXCEPT !.key = labCall[c].pair]
<1>0. /\ files \in [E!Places -> FilePairs] /\ labCall \in [Users -> Enrolments]
      /\ hurt \subseteq E!Places /\ labCall[c] \in Enrolments /\ CallSound(c)
  BY EnrollTypes DEF EnrollInv
<1>1. q \in E!Places /\ (labCall[c].name # Nobody => q # Authority)
      /\ (labCall[c].name = Nobody => q = Authority)
  BY <1>0, EnrollFacts DEF E!Place, Enrolments
<1>2. /\ to \in Enrolments /\ to.at = "cert" /\ to.name = labCall[c].name
      /\ to.pair = labCall[c].pair /\ to.signer = labCall[c].signer
  BY <1>0 DEF Enrolments
<1>3. files[q] \in FilePairs /\ labCall[c].pair \in PairNumbers
  BY <1>0, <1>1 DEF Enrolments
<1>4. new \in FilePairs /\ new.key = labCall[c].pair /\ new.cert = files[q].cert
  BY <1>3 DEF FilePairs
<1>5. /\ labCall[c].at = "key" /\ files' = [files EXCEPT ![q] = new]
      /\ labCall' = [labCall EXCEPT ![c] = to]
      /\ hurt' = IF E!Writers(q) = {c} THEN hurt ELSE hurt \cup {q}
      /\ UNCHANGED <<config, agents, labServer, labKeys>>
  BY DEF E!WriteKey
<1> HIDE DEF q, to, new
<1>6. /\ labCall' \in [Users -> Enrolments] /\ labCall'[c] = to /\ E!Place(c)' = q
      /\ \A d \in Users \ {c} :
            /\ labCall'[d] = labCall[d] /\ E!Place(d)' = E!Place(d)
            /\ \A p : (Closing(d, p)' <=> Closing(d, p)) /\ (Writing(d, p)' <=> Writing(d, p))
  BY <1>0, <1>2, <1>5, CallMoves DEF q
<1>7. /\ files' \in [E!Places -> FilePairs] /\ files'[q] = new
      /\ \A p \in E!Places : files'[p].cert = files[p].cert
      /\ \A p \in E!Places \ {q} : files'[p] = files[p]
  BY <1>0, <1>1, <1>4, <1>5
<1>8. E!TypeOK'
  BY <1>1, <1>5, <1>6, <1>7 DEF EnrollInv, E!TypeOK, Enrolments, FilePairs, PairNumbers
<1>9. \A n \in Labels \cup {Controller} : files'[MCFileOf[n]].cert = files[MCFileOf[n]].cert
  BY <1>7, EnrollFacts
<1>10. ASSUME NEW d \in Users PROVE CallSound(d)'
  <2>1. CASE d = c
    BY <1>0, <1>2, <1>5, <1>6, <2>1 DEF CallSound
  <2>2. CASE d # c
    <3>1. CallSound(d) /\ labCall'[d] = labCall[d] /\ UNCHANGED agents
      BY <1>5, <1>6, <2>2 DEF EnrollInv
    <3> QED BY <1>9, <3>1 DEF CallSound
  <2> QED BY <2>1, <2>2
<1>11. ASSUME NEW n \in Labels PROVE RowSound(n)'
  BY <1>5, <1>9 DEF EnrollInv, RowSound
<1>12. q \notin hurt' => hurt' = hurt /\ \A d \in Users : Writing(d, q) => d = c
  <2>1. q \notin hurt' => hurt' = hurt /\ E!Writers(q) = {c}
    BY <1>5
  <2> QED BY <2>1 DEF E!Writers, Writing
<1>13. hurt \subseteq hurt' /\ \A p \in E!Places \ {q} : p \in hurt' => p \in hurt
  BY <1>5
<1>14. ASSUME NEW p \in E!Places PROVE PlaceSound(p)'
  <2>1. PlaceSound(p)
    BY DEF EnrollInv
  <2>2. CASE p \in hurt'
    BY <1>7, <2>1, <2>2 DEF PlaceSound
  <2>3. CASE p \notin hurt' /\ p = q
    <3>1. \A d \in Users : Closing(d, p) => d = c
      BY <1>12, <2>3 DEF Closing, Writing
    <3>2. Closing(c, p)' /\ \A d \in Users : Closing(d, p)' => d = c
      BY <1>2, <1>6, <2>3, <3>1 DEF Closing
    <3>3. files'[p].key = labCall'[c].pair
      BY <1>2, <1>4, <1>6, <1>7, <2>3
    <3>4. PairSound(p)'
      BY <3>2, <3>3 DEF PairSound
    <3> QED BY <1>7, <2>1, <3>4 DEF PlaceSound
  <2>4. CASE p \notin hurt' /\ p # q
    <3>1. PairSound(p) /\ files'[p] = files[p]
      BY <1>7, <1>13, <2>1, <2>4 DEF PlaceSound
    <3>2. ~Closing(c, p)' /\ ~Closing(c, p)
      BY <1>5, <1>6, <2>4 DEF Closing
    <3>3. \A d \in Users : (Closing(d, p)' <=> Closing(d, p))
             /\ (Closing(d, p) => labCall'[d] = labCall[d])
      BY <1>6, <3>2
    <3>4. PairSound(p)'
      BY <3>1, <3>3 DEF PairSound
    <3> QED BY <2>1, <3>1, <3>4 DEF PlaceSound
  <2> QED BY <2>2, <2>3, <2>4
<1>15. ASSUME Authority \notin hurt' PROVE AuthoritySound'
  <2>1. AuthoritySound /\ Authority \in E!Places
    BY <1>13, <1>15, EnrollFacts DEF EnrollInv
  <2>2. CASE q # Authority
    <3>1. files'[Authority] = files[Authority] /\ labCall[c].name # Nobody
      BY <1>1, <1>7, <2>1, <2>2
    <3>2. ~Writing(c, Authority) /\ ~Writing(c, Authority)'
      BY <1>6, <2>2 DEF Writing, q
    <3>3. \A d \in Users : (Writing(d, Authority)' <=> Writing(d, Authority))
             /\ (Writing(d, Authority) => labCall'[d] = labCall[d])
      BY <1>6, <3>2
    <3>4. \A d, e \in Users : Writing(d, Authority)' /\ Writing(e, Authority)' => d = e
      BY <2>1, <3>3 DEF AuthoritySound
    <3>5. \A d \in Users : Writing(d, Authority)' =>
             /\ files'[Authority].cert = Blank
             /\ labCall'[d].at = "key" => files'[Authority].key = 0
      BY <2>1, <3>1, <3>3 DEF AuthoritySound
    <3>6. ASSUME NEW d \in Users, labCall'[d].at \in {"read", "key", "cert"},
                 labCall'[d].name # Nobody
          PROVE  labCall'[d].signer = files'[Authority].key
      <4>1. labCall[d].at \in {"read", "key", "cert"} /\ labCall[d].name = labCall'[d].name
            /\ labCall[d].signer = labCall'[d].signer
        BY <1>2, <1>5, <1>6, <3>6
      <4> QED BY <2>1, <3>1, <3>6, <4>1 DEF AuthoritySound
    <3> QED BY <1>5, <1>7, <2>1, <3>1, <3>4, <3>5, <3>6 DEF AuthoritySound
  <2>3. CASE q = Authority
    <3>1. /\ Writing(c, Authority) /\ files[Authority].cert = Blank
          /\ files[Authority].key = 0 /\ labCall[c].name = Nobody
      <4>1. Writing(c, Authority)
        BY <1>5, <2>3 DEF Writing, q
      <4> QED BY <1>1, <1>5, <2>1, <2>3, <4>1 DEF AuthoritySound
    <3>2. labServer' = Nobody
      BY <1>5, <2>1, <3>1 DEF AuthoritySound
    <3>3. \A d \in Users : Writing(d, Authority)' => d = c
      BY <1>6, <2>1, <3>1 DEF AuthoritySound
    <3>4. labCall'[c].at = "cert" /\ files'[Authority].cert = Blank
      BY <1>2, <1>6, <1>7, <2>1, <3>1
    <3>5. ASSUME NEW d \in Users, labCall'[d].at \in {"read", "key", "cert"},
                 labCall'[d].name # Nobody
          PROVE  FALSE
      <4>1. d # c
        BY <1>2, <1>6, <3>1, <3>5
      <4>2. labCall[d].signer = 0 /\ labCall[d].at # "idle"
        BY <1>6, <2>1, <3>1, <3>5, <4>1 DEF AuthoritySound
      <4>3. CallSound(d)
        BY DEF EnrollInv
      <4> QED BY <4>2, <4>3 DEF CallSound
    <3>6. ASSUME NEW p \in E!Places \ {Authority} PROVE files[p].cert = Blank
      <4>1. PlaceSound(p) /\ (files[p].cert = Blank \/ files[p].cert[2] = 0)
        BY <2>1, <3>1 DEF AuthoritySound, EnrollInv
      <4> QED BY <4>1 DEF PlaceSound
    <3>7. \A p \in E!Places \ {Authority} : files'[p].cert = Blank
      BY <1>7, <3>6
    <3> QED BY <3>2, <3>3, <3>4, <3>5, <3>7 DEF AuthoritySound
  <2> QED BY <2>2, <2>3
<1> QED BY <1>8, <1>10, <1>11, <1>14, <1>15 DEF EnrollInv

LEMMA CertWritten == ASSUME EnrollInv, NEW c \in Users, E!WriteCert(c) PROVE EnrollInv'
<1> DEFINE q == E!Place(c)
           to == IF labCall[c].name \in Labels
                 THEN [labCall[c] EXCEPT !.at = "insert"] ELSE E!Idle
           own == <<labCall[c].pair, labCall[c].signer>>
           new == [files[q] EXCEPT !.cert = own]
<1>0. /\ files \in [E!Places -> FilePairs] /\ labCall \in [Users -> Enrolments]
      /\ hurt \subseteq E!Places /\ labCall[c] \in Enrolments /\ CallSound(c)
  BY EnrollTypes DEF EnrollInv
<1>1. /\ q \in E!Places /\ (labCall[c].name # Nobody => q # Authority)
      /\ (labCall[c].name = Nobody => q = Authority)
      /\ (labCall[c].name \in Labels => q = MCFileOf[labCall[c].name])
  BY <1>0, EnrollFacts DEF E!Place, Enrolments
<1>2. /\ labCall[c].at = "cert" /\ files' = [files EXCEPT ![q] = new]
      /\ labCall' = [labCall EXCEPT ![c] = to]
      /\ UNCHANGED <<config, agents, labServer, labKeys, hurt>>
  BY DEF E!WriteCert
<1>3. /\ to \in Enrolments /\ to.at \in {"idle", "insert"}
      /\ to.at = "insert" => /\ labCall[c].name \in Labels /\ to.name = labCall[c].name
                             /\ to.pair = labCall[c].pair /\ to.signer = labCall[c].signer
  <2>1. E!Idle \in Enrolments /\ E!Idle.at = "idle"
    BY EnrollFacts DEF E!Idle, Enrolments, PairNumbers
  <2> QED BY <1>0, <2>1 DEF Enrolments
<1>4. /\ labCall[c].pair \in PairNumbers \ {0} /\ labCall[c].signer \in PairNumbers \ {0}
      /\ files[q] \in FilePairs
  BY <1>0, <1>1, <1>2 DEF Enrolments, CallSound
<1>5. /\ own \in PairNumbers \X PairNumbers /\ own # Blank /\ own[1] = labCall[c].pair
      /\ own[1] # 0 /\ own[2] # 0 /\ own[2] = labCall[c].signer
  BY <1>4 DEF Blank
<1> HIDE DEF own
<1>6. new \in FilePairs /\ new.cert = own /\ new.key = files[q].key
  BY <1>4, <1>5 DEF FilePairs
<1> HIDE DEF q, to, new
<1>7. /\ labCall' \in [Users -> Enrolments] /\ labCall'[c] = to
      /\ \A d \in Users \ {c} :
            /\ labCall'[d] = labCall[d] /\ E!Place(d)' = E!Place(d)
            /\ \A p : (Closing(d, p)' <=> Closing(d, p)) /\ (Writing(d, p)' <=> Writing(d, p))
  BY <1>0, <1>2, <1>3, CallMoves
<1>8. /\ files' \in [E!Places -> FilePairs] /\ files'[q] = new
      /\ \A p \in E!Places : files'[p].key = files[p].key
      /\ \A p \in E!Places \ {q} : files'[p] = files[p]
      /\ \A p \in E!Places : files[p].cert # Blank => files'[p].cert # Blank
  BY <1>0, <1>1, <1>2, <1>5, <1>6
<1>9. E!TypeOK'
  BY <1>2, <1>7, <1>8 DEF EnrollInv, E!TypeOK, Enrolments, FilePairs, PairNumbers
<1>10. \A n \in Labels : files[MCFileOf[n]].cert # Blank => files'[MCFileOf[n]].cert # Blank
  BY <1>8, EnrollFacts
<1>11. ASSUME NEW d \in Users PROVE CallSound(d)'
  <2>1. CASE d = c
    <3>1. to.at = "insert" => files'[MCFileOf[to.name]].cert # Blank
      BY <1>1, <1>3, <1>5, <1>6, <1>8
    <3> QED BY <1>0, <1>2, <1>3, <1>7, <2>1, <3>1 DEF CallSound
  <2>2. CASE d # c
    <3>1. CallSound(d) /\ labCall'[d] = labCall[d] /\ UNCHANGED agents
      BY <1>2, <1>7, <2>2 DEF EnrollInv
    <3> QED BY <1>10, <3>1 DEF CallSound
  <2> QED BY <2>1, <2>2
<1>12. ASSUME NEW n \in Labels PROVE RowSound(n)'
  BY <1>2, <1>10 DEF EnrollInv, RowSound
<1>13. ~\E p : Closing(c, p)' \/ Writing(c, p)'
  BY <1>3, <1>7 DEF Closing, Writing
<1>14. ASSUME NEW p \in E!Places PROVE PlaceSound(p)'
  <2>1. PlaceSound(p)
    BY DEF EnrollInv
  <2>2. files'[p].cert = Blank \/ (files'[p].cert[1] # 0 /\ files'[p].cert[2] # 0)
    BY <1>5, <1>6, <1>8, <2>1 DEF PlaceSound
  <2>3. CASE p \in hurt'
    BY <2>2, <2>3 DEF PlaceSound
  <2>4. CASE p \notin hurt' /\ p = q
    <3>1. PairSound(p) /\ Closing(c, p)
      BY <1>2, <2>1, <2>4 DEF PlaceSound, Closing, q
    <3>2. (\A d \in Users : Closing(d, p) => d = c) /\ files[p].key = labCall[c].pair
      BY <3>1 DEF PairSound
    <3>3. \A d \in Users : ~Closing(d, p)'
      BY <1>7, <1>13, <3>2
    <3>4. files'[p].key = files'[p].cert[1]
      BY <1>5, <1>6, <1>8, <2>4, <3>2
    <3> QED BY <2>2, <3>3, <3>4 DEF PlaceSound, PairSound
  <2>5. CASE p \notin hurt' /\ p # q
    <3>1. PairSound(p) /\ files'[p] = files[p]
      BY <1>2, <1>8, <2>1, <2>5 DEF PlaceSound
    <3>2. ~Closing(c, p)' /\ ~Closing(c, p)
      BY <1>13, <2>5 DEF Closing, q
    <3>3. \A d \in Users : (Closing(d, p)' <=> Closing(d, p))
             /\ (Closing(d, p) => labCall'[d] = labCall[d])
      BY <1>7, <3>2
    <3>4. PairSound(p)'
      BY <3>1, <3>3 DEF PairSound
    <3> QED BY <2>2, <3>4 DEF PlaceSound
  <2> QED BY <2>3, <2>4, <2>5
<1>15. ASSUME Authority \notin hurt' PROVE AuthoritySound'
  <2>1. AuthoritySound /\ Authority \in E!Places
    BY <1>2, <1>15, EnrollFacts DEF EnrollInv
  <2>2. \A d \in Users : (Writing(d, Authority)' => Writing(d, Authority) /\ d # c)
    BY <1>7, <1>13
  <2>3. \A d, e \in Users : Writing(d, Authority)' /\ Writing(e, Authority)' => d = e
    BY <2>1, <2>2 DEF AuthoritySound
  <2>4. ASSUME NEW d \in Users, labCall'[d].at \in {"read", "key", "cert"},
               labCall'[d].name # Nobody
        PROVE  labCall'[d].signer = files'[Authority].key
    <3>1. d # c
      BY <1>3, <1>7, <2>4
    <3>2. labCall'[d] = labCall[d] /\ files'[Authority].key = files[Authority].key
      BY <1>7, <1>8, <2>1, <3>1
    <3> QED BY <2>1, <2>4, <3>2 DEF AuthoritySound
  <2>5. CASE q # Authority
    <3>1. files'[Authority] = files[Authority] /\ labCall[c].name # Nobody
      BY <1>1, <1>8, <2>1, <2>5
    <3>2. \A d \in Users : Writing(d, Authority)' =>
             /\ files'[Authority].cert = Blank
             /\ labCall'[d].at = "key" => files'[Authority].key = 0
      BY <1>7, <2>1, <2>2, <3>1 DEF AuthoritySound
    <3>3. own[2] = files[Authority].key
      BY <1>2, <1>5, <2>1, <3>1 DEF AuthoritySound
    <3>4. \A p \in E!Places \ {Authority} :
             files'[p].cert = Blank \/ files'[p].cert[2] = files'[Authority].key
      BY <1>6, <1>8, <2>1, <3>1, <3>3 DEF AuthoritySound
    <3> QED BY <1>2, <2>1, <2>3, <2>4, <3>1, <3>2, <3>4 DEF AuthoritySound
  <2>6. CASE q = Authority
    <3>1. Writing(c, Authority)
      BY <1>2, <2>6 DEF Writing, q
    <3>2. files[Authority].cert = Blank /\ \A d \in Users : ~Writing(d, Authority)'
      BY <2>1, <2>2, <3>1 DEF AuthoritySound
    <3>3. labServer' = Nobody
      BY <1>2, <2>1, <3>2 DEF AuthoritySound
    <3>4. \A p \in E!Places \ {Authority} :
             files'[p].cert = Blank \/ files'[p].cert[2] = files'[Authority].key
      BY <1>8, <2>1, <2>6 DEF AuthoritySound
    <3> QED BY <2>3, <2>4, <3>2, <3>3, <3>4 DEF AuthoritySound
  <2> QED BY <2>5, <2>6
<1> QED BY <1>9, <1>11, <1>12, <1>14, <1>15 DEF EnrollInv

LEMMA EnrollStepInv == EnrollInv /\ [E!Next]_(E!enrollVars) => EnrollInv'
<1> SUFFICES ASSUME EnrollInv, [E!Next]_(E!enrollVars) PROVE EnrollInv'
  OBVIOUS
<1>0. /\ files \in [E!Places -> FilePairs] /\ labCall \in [Users -> Enrolments]
      /\ config \in [Labels -> PairNumbers] /\ agents \in [Labels -> PairNumbers]
      /\ labKeys \in PairNumbers /\ hurt \subseteq E!Places
      /\ labServer \in {Nobody} \cup [signer : 1 .. MaxPlaces, trusts : 1 .. MaxPlaces]
  BY EnrollTypes DEF EnrollInv
<1>1. /\ \A c \in Users : CallSound(c)
      /\ \A n \in Labels : RowSound(n)
      /\ Authority \notin hurt => AuthoritySound
  BY DEF EnrollInv
<1>2. E!Idle \in Enrolments /\ E!Idle.at = "idle"
  BY EnrollFacts DEF E!Idle, Enrolments, PairNumbers
<1>3. labKeys < MaxPlaces => labKeys + 1 \in PairNumbers \ {0}
  BY <1>0, EnrollFacts DEF PairNumbers
<1>4. ASSUME NEW c \in Users, E!BeginInit(c) PROVE EnrollInv'
  <2> DEFINE to == [at |-> "key", name |-> Nobody, pair |-> labKeys + 1, signer |-> labKeys + 1]
  <2>1. /\ labCall[c].at = "idle" /\ files[Authority] = E!Missing
        /\ labKeys + 1 \in PairNumbers \ {0} /\ labKeys' = labKeys + 1
        /\ labCall' = [labCall EXCEPT ![c] = to]
        /\ hurt' = IF E!Writers(Authority) = {} THEN hurt ELSE hurt \cup {Authority}
        /\ UNCHANGED <<files, config, agents, labServer>>
    BY <1>3, <1>4 DEF E!BeginInit, E!NoAuthority
  <2>2. /\ to \in Enrolments /\ to.at = "key" /\ to.name = Nobody
        /\ to.pair # 0 /\ to.signer # 0
    BY <2>1 DEF Enrolments
  <2> HIDE DEF to
  <2>3. CallSound(c)'
    BY <1>0, <2>1, <2>2 DEF CallSound
  <2>4. \A n \in Labels : RowSound(n)'
    BY <1>1, <2>1 DEF RowSound
  <2>5. files[Authority].key = 0 /\ files[Authority].cert = Blank
    BY <2>1 DEF E!Missing, Blank
  <2>6. Authority \notin hurt' => \A d \in Users : ~Writing(d, Authority)
    <3>1. Authority \notin hurt' => E!Writers(Authority) = {}
      BY <2>1
    <3> QED BY <3>1 DEF E!Writers, Writing
  <2>7. hurt \subseteq hurt' /\ hurt' \subseteq E!Places
    BY <1>0, <2>1, EnrollFacts
  <2> QED BY <1>0, <2>1, <2>2, <2>3, <2>4, <2>5, <2>6, <2>7, FilesKept
<1>5. ASSUME NEW c \in Users, NEW n \in Labels \cup {Controller}, E!BeginIssue(c, n)
      PROVE  EnrollInv'
  <2> DEFINE to == [at |-> "read", name |-> n, pair |-> 0, signer |-> files[Authority].key]
  <2>1. /\ labCall[c].at = "idle" /\ files[Authority].key # 0
        /\ labCall' = [labCall EXCEPT ![c] = to]
        /\ UNCHANGED <<files, config, agents, labServer, labKeys, hurt>>
    BY <1>5 DEF E!BeginIssue
  <2>2. /\ to \in Enrolments /\ to.at = "read" /\ to.name # Nobody
        /\ to.signer = files[Authority].key
    <3>1. files[Authority].key \in PairNumbers /\ 0 \in PairNumbers
      BY <1>0, EnrollFacts DEF FilePairs, PairNumbers
    <3> QED BY <3>1, EnrollFacts DEF Enrolments
  <2> HIDE DEF to
  <2>3. CallSound(c)'
    BY <1>0, <2>1, <2>2 DEF CallSound
  <2>4. \A m \in Labels : RowSound(m)'
    BY <1>1, <2>1 DEF RowSound
  <2> QED BY <1>0, <2>1, <2>2, <2>3, <2>4, FilesKept
<1>6. ASSUME NEW c \in Users, UNCHANGED <<files, config, agents, labServer>>,
             labKeys' \in PairNumbers, labCall' = [labCall EXCEPT ![c] = E!Idle],
             hurt \subseteq hurt', hurt' \subseteq E!Places,
             labCall[c].at = "cert" => E!Place(c) \in hurt'
      PROVE  EnrollInv'
  <2>1. CallSound(c)'
    BY <1>0, <1>2, <1>6 DEF CallSound
  <2>2. \A n \in Labels : RowSound(n)'
    BY <1>1, <1>6 DEF RowSound
  <2> QED BY <1>0, <1>2, <1>6, <2>1, <2>2, FilesKept
<1>7. ASSUME NEW c \in Users, E!ReadAuthority(c) PROVE EnrollInv'
  <2> DEFINE to == [labCall[c] EXCEPT !.at = "key", !.pair = labKeys + 1]
  <2>1. CASE labCall' = [labCall EXCEPT ![c] = E!Idle] /\ UNCHANGED labKeys
    BY <1>0, <1>6, <1>7, <2>1 DEF E!ReadAuthority
  <2>2. CASE /\ labKeys < MaxPlaces /\ labKeys' = labKeys + 1
             /\ labCall' = [labCall EXCEPT ![c].at = "key", ![c].pair = labKeys']
    <3>1. /\ labCall[c].at = "read" /\ labCall[c].signer # 0 /\ labCall[c].name # Nobody
          /\ UNCHANGED <<files, config, agents, labServer, hurt>>
      BY <1>1, <1>7 DEF E!ReadAuthority, CallSound
    <3>2. labCall' = [labCall EXCEPT ![c] = to]
      BY <1>0, <2>2
    <3>3. /\ to \in Enrolments /\ to.at = "key" /\ to.name = labCall[c].name
          /\ to.pair # 0 /\ to.signer = labCall[c].signer
      BY <1>0, <1>3, <2>2 DEF Enrolments
    <3> HIDE DEF to
    <3>4. CallSound(c)'
      BY <1>0, <3>1, <3>2, <3>3 DEF CallSound
    <3>5. \A n \in Labels : RowSound(n)'
      BY <1>1, <3>1 DEF RowSound
    <3>6. Authority \notin hurt' => to.signer = files[Authority].key
      BY <1>1, <3>1, <3>3 DEF AuthoritySound
    <3>7. labKeys' \in PairNumbers
      BY <1>3, <2>2
    <3> QED BY <1>0, <3>1, <3>2, <3>3, <3>4, <3>5, <3>6, <3>7, FilesKept
  <2> QED BY <1>7, <2>1, <2>2 DEF E!ReadAuthority
<1>8. ASSUME NEW c \in Users, E!Insert(c) PROVE EnrollInv'
  <2> DEFINE n == labCall[c].name
             to == [labCall[c] EXCEPT !.at = "config"]
  <2>1. CASE agents[n] # 0
    BY <1>0, <1>6, <1>8, <2>1 DEF E!Insert
  <2>2. CASE agents[n] = 0
    <3>1. /\ labCall[c].at = "insert" /\ n \in Labels /\ labCall[c].pair # 0
          /\ files[MCFileOf[n]].cert # Blank /\ labCall[c].signer # 0
          /\ UNCHANGED <<files, config, labServer, labKeys, hurt>>
      BY <1>1, <1>8 DEF E!Insert, CallSound
    <3>2. /\ agents' = [agents EXCEPT ![n] = labCall[c].pair]
          /\ labCall' = [labCall EXCEPT ![c] = to]
      BY <1>8, <2>2 DEF E!Insert
    <3>3. /\ to \in Enrolments /\ to.at = "config" /\ to.name = n
          /\ to.pair = labCall[c].pair /\ to.signer = labCall[c].signer
          /\ labCall[c].pair \in PairNumbers
      BY <1>0 DEF Enrolments
    <3> HIDE DEF to, n
    <3>4. /\ agents' \in [Labels -> PairNumbers] /\ agents'[n] = labCall[c].pair
          /\ \A m \in Labels : agents'[m] = agents[m] \/ agents[m] = 0
      BY <1>0, <2>2, <3>1, <3>2, <3>3
    <3>5. CallSound(c)'
      BY <1>0, <3>1, <3>2, <3>3, <3>4 DEF CallSound
    <3>6. ASSUME NEW m \in Labels PROVE RowSound(m)'
      BY <1>1, <3>1, <3>4 DEF RowSound
    <3> QED BY <1>0, <3>1, <3>2, <3>3, <3>4, <3>5, <3>6, FilesKept
  <2> QED BY <2>1, <2>2
<1>9. ASSUME NEW c \in Users, E!WriteConfig(c) PROVE EnrollInv'
  <2> DEFINE n == labCall[c].name
  <2>1. /\ labCall[c].at = "config" /\ n \in Labels /\ agents[n] = labCall[c].pair
        /\ files[MCFileOf[n]].cert # Blank /\ labCall[c].pair \in PairNumbers
        /\ config' = [config EXCEPT ![n] = labCall[c].pair]
        /\ labCall' = [labCall EXCEPT ![c] = E!Idle]
        /\ UNCHANGED <<files, agents, labServer, labKeys, hurt>>
    BY <1>0, <1>1, <1>9 DEF E!WriteConfig, CallSound, Enrolments
  <2> HIDE DEF n
  <2>2. /\ config' \in [Labels -> PairNumbers] /\ config'[n] = agents[n]
        /\ \A m \in Labels \ {n} : config'[m] = config[m]
    BY <1>0, <2>1
  <2>3. CallSound(c)'
    BY <1>0, <1>2, <2>1 DEF CallSound
  <2>4. ASSUME NEW m \in Labels PROVE RowSound(m)'
    BY <1>1, <2>1, <2>2 DEF RowSound
  <2> QED BY <1>0, <1>2, <2>1, <2>2, <2>3, <2>4, FilesKept
<1>10. ASSUME NEW c \in Users, E!Fail(c) PROVE EnrollInv'
  <2>1. E!Place(c) \in E!Places
    BY <1>0, EnrollFacts DEF E!Place, Enrolments
  <2> QED BY <1>0, <1>6, <1>10, <2>1 DEF E!Fail
<1>11. CASE E!Serve
  <2> DEFINE own == files[MCFileOf[Controller]]
  <2>1. /\ own.cert # E!Missing.cert /\ files[Authority].cert # E!Missing.cert
        /\ labServer' = [signer |-> own.cert[2], trusts |-> files[Authority].cert[1]]
        /\ UNCHANGED <<files, config, agents, labCall, labKeys, hurt>>
    BY <1>11 DEF E!Serve
  <2>2. own.cert # Blank /\ files[Authority].cert # Blank
    BY <2>1 DEF E!Missing, Blank
  <2>3. MCFileOf[Controller] \in E!Places \ {Authority} /\ Authority \in E!Places
    BY EnrollFacts
  <2>4. own.cert[2] \in 1 .. MaxPlaces /\ files[Authority].cert[1] \in 1 .. MaxPlaces
    <3>1. PlaceSound(MCFileOf[Controller]) /\ PlaceSound(Authority)
      BY <2>3 DEF EnrollInv
    <3>2. own \in FilePairs /\ files[Authority] \in FilePairs
      BY <1>0, <2>3
    <3>3. own.cert[2] # 0 /\ files[Authority].cert[1] # 0
      BY <2>2, <3>1 DEF PlaceSound
    <3> QED BY <3>2, <3>3, EnrollFacts DEF FilePairs, PairNumbers
  <2>5. Authority \notin hurt => own.cert[2] = files[Authority].key
    BY <1>1, <2>2, <2>3 DEF AuthoritySound
  <2>6. /\ labServer'.signer = own.cert[2] /\ labServer'.trusts = files[Authority].cert[1]
        /\ labServer' \in [signer : 1 .. MaxPlaces, trusts : 1 .. MaxPlaces]
    BY <2>1, <2>4
  <2> HIDE DEF own
  <2> QED BY <2>1, <2>2, <2>5, <2>6, ServerMoves
<1>12. CASE E!Stop
  BY <1>12, ServerMoves DEF E!Stop
<1>13. CASE UNCHANGED E!enrollVars
  <2>1. UNCHANGED <<files, config, agents, labServer, labCall, labKeys, hurt>>
    BY <1>13 DEF E!enrollVars
  <2> QED BY <1>0, <1>1, <2>1, ServerMoves DEF AuthoritySound
<1> QED BY <1>4, <1>5, <1>7, <1>8, <1>9, <1>10, <1>11, <1>12, <1>13, KeyWritten, CertWritten
        DEF E!Next

\* An agent whose configuration was written finds a controller that trusts it and that it
\* trusts, and the token the row keeps.
LEMMA EnrolledConnect == EnrollInv => E!EnrolledConnects
<1> SUFFICES ASSUME EnrollInv, NEW n \in Labels, config[n] # 0, labServer # Nobody,
                    MCFileOf[n] \notin hurt, Authority \notin hurt,
                    E!Writers(MCFileOf[n]) = {}
             PROVE  E!Connects(n)
  BY Zenon DEF E!EnrolledConnects
<1>1. /\ MCFileOf[n] \in E!Places \ {Authority} /\ Authority \in E!Places
  BY EnrollFacts
<1>2. AuthoritySound /\ RowSound(n) /\ PlaceSound(MCFileOf[n]) /\ PlaceSound(Authority)
  BY <1>1 DEF EnrollInv
<1>3. files[MCFileOf[n]].cert # Blank /\ config[n] = agents[n]
  BY <1>2 DEF RowSound
<1>4. files[MCFileOf[n]].key = files[MCFileOf[n]].cert[1]
  <2>1. \A c \in Users : ~Closing(c, MCFileOf[n])
    BY DEF E!Writers, Closing
  <2> QED BY <1>2, <2>1 DEF PlaceSound, PairSound
<1>5. files[Authority].key = files[Authority].cert[1]
  <2>1. \A c \in Users : ~Closing(c, Authority)
    BY <1>2 DEF AuthoritySound, Closing, Writing
  <2> QED BY <1>2, <2>1 DEF PlaceSound, PairSound
<1>6. files[MCFileOf[n]].cert[2] = files[Authority].key
  BY <1>1, <1>2, <1>3 DEF AuthoritySound
<1>7. labServer.trusts = files[Authority].cert[1] /\ labServer.signer = files[Authority].key
  BY <1>2 DEF AuthoritySound
<1> QED BY <1>3, <1>4, <1>5, <1>6, <1>7 DEF E!Connects

\* No call writes a file of an authority whose two files are there.
LEMMA AuthorityStays ==
    EnrollInv /\ [E!Next]_(E!enrollVars) =>
       [ \/ E!Missing.key = files[Authority].key
         \/ E!Missing.cert = files[Authority].cert
         \/ Authority \in hurt
         \/ files'[Authority] = files[Authority] ]_(E!enrollVars)
<1> SUFFICES ASSUME EnrollInv, E!Next, files[Authority].key # 0, files[Authority].cert # Blank,
                    Authority \notin hurt
             PROVE  files'[Authority] = files[Authority]
  BY DEF E!Missing, Blank
<1>1. AuthoritySound /\ files \in [E!Places -> FilePairs] /\ Authority \in E!Places
  BY EnrollTypes, EnrollFacts DEF EnrollInv
<1>2. \A c \in Users : labCall[c].at \in {"key", "cert"} => E!Place(c) # Authority
  BY <1>1 DEF AuthoritySound, Writing
<1>3. ASSUME NEW c \in Users, E!WriteKey(c) \/ E!WriteCert(c)
      PROVE  files'[Authority] = files[Authority]
  <2>1. E!Place(c) # Authority
    BY <1>2, <1>3 DEF E!WriteKey, E!WriteCert
  <2> QED BY <1>1, <1>3, <2>1 DEF E!WriteKey, E!WriteCert
<1>4. ASSUME NEW c \in Users,
             \/ E!BeginInit(c) \/ E!ReadAuthority(c) \/ E!Insert(c) \/ E!WriteConfig(c)
             \/ E!Fail(c) \/ \E n \in Labels \cup {Controller} : E!BeginIssue(c, n)
      PROVE  UNCHANGED files
  BY <1>4 DEF E!BeginInit, E!ReadAuthority, E!Insert, E!WriteConfig, E!Fail, E!BeginIssue
<1>5. E!Serve \/ E!Stop => UNCHANGED files
  BY DEF E!Serve, E!Stop
<1> QED BY <1>3, <1>4, <1>5 DEF E!Next

\* Enrolled agents connect, and an authority is for ever, as long as the files in question
\* were not written by two calls at once or left half done.
THEOREM EnrolmentHolds ==
    E!Init /\ [][E!Next]_(E!enrollVars) => [](E!TypeOK /\ E!EnrolledConnects) /\ E!AuthorityKept
<1>1. EnrollInv => E!TypeOK /\ E!EnrolledConnects
  BY EnrolledConnect DEF EnrollInv
<1> QED BY <1>1, EnrollInitInv, EnrollStepInv, AuthorityStays, PTL DEF E!AuthorityKept

-----------------------------------------------------------------------------
(* Presets. *)

LEMMA PresetFacts ==
    /\ Secret \subseteq Fields /\ PresetLimit \in Nat /\ PresetLimit # 0 /\ MaxStamp \in Nat
    /\ "none" \notin Scopes /\ "none" \notin Workspaces
BY AccessAssumption DEF P!PresetsAssumption

PresetRows ==
    [scope : Scopes, name : Labels, payload : SUBSET Fields, stamp : 0 .. MaxStamp]
Requests ==
    [at : {"idle", "read"}, id : Workspaces \cup {"none"}, scope : Scopes \cup {"none"},
     touched : BOOLEAN, answer : {"none", "saved", "deleted", "422", "404", "500"}]

\* A server that reads back has its row among those of the scope, unless another server
\* wrote it since.
AtRow(s) ==
    request[s].at = "read" =>
       /\ request[s].scope \in Scopes /\ request[s].id \in Workspaces
       /\ ~request[s].touched => request[s].id \in P!In(request[s].scope)

PresetInv ==
    /\ preset \in [Workspaces -> {P!NoPreset} \cup PresetRows]
    /\ request \in [Users -> Requests]
    /\ P!NoSecretStored
    /\ \A scope \in Scopes :
          IsFiniteSet(P!In(scope)) /\ Cardinality(P!In(scope)) <= PresetLimit
    /\ \A s \in Users : AtRow(s)

LEMMA PresetInitInv == P!Init => PresetInv
<1> SUFFICES ASSUME P!Init PROVE PresetInv
  OBVIOUS
<1>1. /\ preset = [i \in Workspaces |-> P!NoPreset] /\ request = [s \in Users |-> P!NoRequest]
      /\ P!NoRequest \in Requests /\ P!NoRequest.at = "idle"
  BY DEF P!Init, P!NoRequest, Requests
<1>2. ASSUME NEW scope \in Scopes PROVE P!In(scope) = {}
  <2>1. P!NoPreset.scope = "none" /\ scope # "none"
    BY PresetFacts DEF P!NoPreset
  <2> QED BY <1>1, <2>1 DEF P!In
<1>3. IsFiniteSet({}) /\ Cardinality({}) <= PresetLimit
  BY FS_EmptySet, PresetFacts
<1> QED BY <1>1, <1>2, <1>3 DEF PresetInv, P!NoSecretStored, AtRow

LEMMA PresetElsewhere ==
    /\ P!NoPreset \notin PresetRows /\ P!NoPreset.scope \notin Scopes
    /\ \A S : P!Cardinality(S) = Cardinality(S)
<1>1. P!NoPreset.scope = "none"
  BY DEF P!NoPreset
<1>2. P!NoPreset.scope \notin Scopes
  BY <1>1, PresetFacts
<1>3. ASSUME NEW S PROVE P!Cardinality(S) = Cardinality(S)
  BY DEF P!Cardinality, Cardinality
<1> QED BY <1>2, <1>3 DEF PresetRows

\* A row is written or deleted by one server, and those about to read it back are touched.
LEMMA PresetWritten ==
    ASSUME PresetInv, NEW s \in Users, NEW i \in Workspaces, NEW own \in Requests,
           NEW row \in {P!NoPreset} \cup PresetRows,
           preset' = [preset EXCEPT ![i] = row], P!Touch(s, i, own),
           row # P!NoPreset => row.payload \cap Secret = {},
           row # P!NoPreset =>
              row.scope = preset[i].scope \/ Cardinality(P!In(row.scope)) < PresetLimit,
           own.at = "read" =>
              own.scope \in Scopes /\ own.id = i /\ row.scope = own.scope
    PROVE  PresetInv'
<1> DEFINE hit(t) == [request[t] EXCEPT !.touched = TRUE]
<1>0. /\ preset \in [Workspaces -> {P!NoPreset} \cup PresetRows]
      /\ request \in [Users -> Requests]
  BY DEF PresetInv
<1>1. /\ preset' \in [Workspaces -> {P!NoPreset} \cup PresetRows] /\ preset'[i] = row
      /\ \A j \in Workspaces \ {i} : preset'[j] = preset[j]
  BY <1>0
<1>2. \A t \in Users : hit(t) \in Requests /\ hit(t).at = request[t].at /\ hit(t).touched
         /\ hit(t).scope = request[t].scope /\ hit(t).id = request[t].id
  BY <1>0 DEF Requests
<1>3. request' = [t \in Users |->
                    IF t = s THEN own
                    ELSE IF request[t].at = "read" /\ request[t].id = i
                         THEN hit(t) ELSE request[t]]
  BY DEF P!Touch
<1> HIDE DEF hit
<1>4. /\ request' \in [Users -> Requests] /\ request'[s] = own
      /\ \A t \in Users \ {s} :
            IF request[t].at = "read" /\ request[t].id = i
            THEN request'[t] = hit(t) ELSE request'[t] = request[t]
  BY <1>0, <1>2, <1>3
<1>5. P!NoSecretStored'
  BY <1>1 DEF PresetInv, P!NoSecretStored
<1>6. ASSUME NEW scope \in Scopes
      PROVE  IsFiniteSet(P!In(scope)') /\ Cardinality(P!In(scope)') <= PresetLimit
  <2>1. IsFiniteSet(P!In(scope)) /\ Cardinality(P!In(scope)) <= PresetLimit
    BY DEF PresetInv
  <2>2. CASE row.scope = scope /\ preset[i].scope # scope
    <3>1. row.scope \in Scopes /\ row # P!NoPreset
      BY <2>2, PresetElsewhere
    <3>2. P!In(scope)' = P!In(scope) \cup {i} /\ i \notin P!In(scope)
      BY <1>1, <2>2 DEF P!In
    <3>3. Cardinality(P!In(scope)) < PresetLimit
      BY <2>2, <3>1
    <3>4. /\ IsFiniteSet(P!In(scope) \cup {i})
          /\ Cardinality(P!In(scope) \cup {i}) = Cardinality(P!In(scope)) + 1
      BY <2>1, <3>2, FS_AddElement
    <3>5. Cardinality(P!In(scope)) \in Nat
      BY <2>1, FS_CardinalityType
    <3> QED BY <3>2, <3>3, <3>4, <3>5, PresetFacts
  <2>3. CASE row.scope # scope \/ preset[i].scope = scope
    <3>1. P!In(scope)' \subseteq P!In(scope)
      BY <1>1, <2>3 DEF P!In
    <3>2. /\ IsFiniteSet(P!In(scope)')
          /\ Cardinality(P!In(scope)') <= Cardinality(P!In(scope))
      BY <2>1, <3>1, FS_Subset
    <3>3. Cardinality(P!In(scope)) \in Nat /\ Cardinality(P!In(scope)') \in Nat
      BY <2>1, <3>2, FS_CardinalityType
    <3> QED BY <2>1, <3>2, <3>3, PresetFacts
  <2> QED BY <2>2, <2>3
<1>7. ASSUME NEW t \in Users PROVE AtRow(t)'
  <2>1. CASE t = s
    BY <1>1, <1>4, <2>1 DEF AtRow, P!In
  <2>2. CASE t # s /\ request[t].at = "read" /\ request[t].id = i
    <3>1. AtRow(t) /\ request'[t] = hit(t)
      BY <1>4, <2>2 DEF PresetInv
    <3> QED BY <1>2, <3>1 DEF AtRow
  <2>3. CASE t # s /\ ~(request[t].at = "read" /\ request[t].id = i)
    <3>1. AtRow(t) /\ request'[t] = request[t]
      BY <1>4, <2>3 DEF PresetInv
    <3>2. \A scope : request[t].at = "read" /\ request[t].id \in P!In(scope)
                        => request[t].id \in P!In(scope)'
      BY <1>1, <2>3 DEF P!In
    <3> QED BY <3>1, <3>2 DEF AtRow, P!In
  <2> QED BY <2>1, <2>2, <2>3
<1> QED BY <1>1, <1>4, <1>5, <1>6, <1>7 DEF PresetInv

\* A server answers, and the table is as it was.
LEMMA PresetAnswered ==
    ASSUME PresetInv, NEW s \in Users,
           NEW a \in {"none", "saved", "deleted", "422", "404", "500"},
           P!Answer(s, a), UNCHANGED preset
    PROVE  PresetInv'
<1>1. /\ [P!NoRequest EXCEPT !.answer = a] \in Requests
      /\ [P!NoRequest EXCEPT !.answer = a].at = "idle"
  BY DEF P!NoRequest, Requests
<1>2. /\ request' \in [Users -> Requests] /\ request'[s].at = "idle"
      /\ \A t \in Users \ {s} : request'[t] = request[t]
  BY <1>1 DEF PresetInv, P!Answer
<1>3. \A scope : P!In(scope)' = P!In(scope)
  BY DEF P!In
<1>4. ASSUME NEW t \in Users PROVE AtRow(t)'
  <2>1. CASE t = s
    BY <1>2, <2>1 DEF AtRow
  <2>2. CASE t # s
    BY <1>2, <2>2 DEF PresetInv, AtRow, P!In
  <2> QED BY <2>1, <2>2
<1> QED BY <1>2, <1>3, <1>4 DEF PresetInv, P!NoSecretStored

LEMMA PresetStepInv == PresetInv /\ [P!Next]_(P!presetVars) => PresetInv'
<1> SUFFICES ASSUME PresetInv, [P!Next]_(P!presetVars) PROVE PresetInv'
  OBVIOUS
<1>0. /\ preset \in [Workspaces -> {P!NoPreset} \cup PresetRows]
      /\ request \in [Users -> Requests]
  BY DEF PresetInv
<1>1. ASSUME NEW s \in Users, NEW scope \in Scopes, NEW name \in Labels, NEW sent,
             P!Refused(s, scope, name, sent)
      PROVE  PresetInv'
  BY <1>1, PresetAnswered DEF P!Refused
<1>2. ASSUME NEW s \in Users, NEW scope \in Scopes, NEW name \in Labels,
             NEW sent \in P!Sendable, NEW i \in Workspaces, NEW stamp \in 0 .. MaxStamp,
             P!Upsert(s, scope, name, sent, i, stamp)
      PROVE  PresetInv'
  <2> DEFINE row == P!Row(scope, name, P!Sanitized(sent), stamp)
             own == [P!NoRequest EXCEPT !.at = "read", !.id = i, !.scope = scope]
  <2>1. /\ i \in P!Target(scope, name) /\ P!Room(scope, i)
        /\ preset' = [preset EXCEPT ![i] = row] /\ P!Touch(s, i, own)
    BY <1>2 DEF P!Upsert
  <2>2. row \in PresetRows /\ row.scope = scope /\ row.payload \cap Secret = {}
    BY DEF P!Row, P!Sanitized, PresetRows
  <2>3. own \in Requests /\ own.scope = scope /\ own.id = i
    BY DEF P!NoRequest, Requests
  <2> HIDE DEF row, own
  <2>4. preset[i].scope = scope \/ Cardinality(P!In(scope)) < PresetLimit
    BY <2>1, PresetElsewhere DEF P!Room, P!In
  <2> QED BY <2>1, <2>2, <2>3, <2>4, PresetWritten
<1>3. ASSUME NEW s \in Users, P!ReadBack(s) PROVE PresetInv'
  <2>1. UNCHANGED preset /\ \E a \in {"saved", "500"} : P!Answer(s, a)
    BY <1>3 DEF P!ReadBack
  <2> QED BY <2>1, PresetAnswered
<1>4. ASSUME NEW s \in Users, NEW scope \in Scopes, NEW i \in Workspaces,
             P!Delete(s, scope, i)
      PROVE  PresetInv'
  <2>1. CASE i \in P!In(scope)
    <3> DEFINE own == [P!NoRequest EXCEPT !.answer = "deleted"]
    <3>1. preset' = [preset EXCEPT ![i] = P!NoPreset] /\ P!Touch(s, i, own)
      BY <1>4, <2>1 DEF P!Delete
    <3>2. own \in Requests /\ own.at = "idle"
      BY DEF P!NoRequest, Requests
    <3> HIDE DEF own
    <3> QED BY <3>1, <3>2, PresetWritten
  <2>2. CASE i \notin P!In(scope)
    BY <1>4, <2>2, PresetAnswered DEF P!Delete
  <2> QED BY <2>1, <2>2
<1>5. CASE UNCHANGED P!presetVars
  BY <1>5 DEF P!presetVars, PresetInv, AtRow, P!In, P!NoSecretStored
<1> QED BY <1>1, <1>2, <1>3, <1>4, <1>5 DEF P!Next, P!Serve

\* The limit of the list hides no row, as the table holds no more rows of a scope.
LEMMA ListedIsAll ==
    ASSUME PresetInv, NEW scope \in Scopes, NEW S \in P!Listed(scope) PROVE S = P!In(scope)
<1>1. /\ S \subseteq P!In(scope)
      /\ S = P!In(scope) \/ Cardinality(S) = PresetLimit
      /\ IsFiniteSet(P!In(scope)) /\ Cardinality(P!In(scope)) <= PresetLimit
  BY PresetElsewhere DEF P!Listed, PresetInv
<1>2. CASE Cardinality(S) = PresetLimit /\ S # P!In(scope)
  <2>1. Cardinality(S) < Cardinality(P!In(scope))
    BY <1>1, <1>2, FS_Subset, FS_CardinalityType
  <2>2. Cardinality(S) \in Nat /\ Cardinality(P!In(scope)) \in Nat
    BY <1>1, FS_Subset, FS_CardinalityType
  <2> QED BY <1>1, <1>2, <2>1, <2>2, PresetFacts
<1> QED BY <1>1, <1>2

LEMMA SaveFinds ==
    PresetInv /\ [P!Next]_(P!presetVars) =>
       [\A s \in Users :
          request[s].at = "read" /\ request'[s].at = "idle" /\ ~request[s].touched
             => request'[s].answer = "saved"]_(P!presetVars)
<1> SUFFICES ASSUME PresetInv, P!Next, NEW s \in Users, request[s].at = "read",
                    request'[s].at = "idle", ~request[s].touched
             PROVE  request'[s].answer = "saved"
  OBVIOUS
<1>0. request \in [Users -> Requests] /\ AtRow(s)
  BY DEF PresetInv
<1>1. PICK t \in Users : P!Serve(t)
  BY DEF P!Next
<1>2. CASE t # s
  <2>1. \A a : P!Answer(t, a) => request'[s] = request[s]
    BY <1>0, <1>2 DEF P!Answer
  <2>2. \A i, own : P!Touch(t, i, own) => request'[s].at = request[s].at
    <3>1. [request[s] EXCEPT !.touched = TRUE].at = request[s].at
      BY <1>0 DEF Requests
    <3> QED BY <1>2, <3>1 DEF P!Touch
  <2>3. (\E a : P!Answer(t, a)) \/ (\E i, own : P!Touch(t, i, own))
    BY <1>1 DEF P!Serve, P!Refused, P!Upsert, P!ReadBack, P!Delete
  <2> QED BY <2>1, <2>2, <2>3
<1>3. CASE t = s
  <2>1. P!ReadBack(s)
    BY <1>1, <1>3 DEF P!Serve, P!Refused, P!Upsert, P!Delete
  <2>2. PICK listed \in P!Listed(request[s].scope) :
           P!Answer(s, IF request[s].id \in listed THEN "saved" ELSE "500")
    BY <2>1 DEF P!ReadBack
  <2>3. request[s].id \in listed
    BY <1>0, <2>2, ListedIsAll DEF AtRow
  <2>4. P!Answer(s, "saved")
    BY <2>2, <2>3
  <2>5. [P!NoRequest EXCEPT !.answer = "saved"].answer = "saved"
    BY DEF P!NoRequest
  <2> QED BY <1>0, <2>4, <2>5 DEF P!Answer
<1> QED BY <1>2, <1>3

\* A preset that was saved is found again by the request that saved it, unless another
\* server wrote its row, and no secret is ever stored.
THEOREM PresetsAreHeld ==
    P!Init /\ [][P!Next]_(P!presetVars) => []P!TypeOK /\ P!SaveFindsItsRow /\ []P!NoSecretStored
<1>1. PresetInv => P!TypeOK /\ P!NoSecretStored
  BY DEF PresetInv, P!TypeOK, PresetRows, Requests
<1> QED BY <1>1, PresetInitInv, PresetStepInv, SaveFinds, PTL DEF P!SaveFindsItsRow

-----------------------------------------------------------------------------
(* The limit on failed log-ins and set-ups. *)

LEMMA GateFacts ==
    /\ Limit \in Nat /\ Limit # 0 /\ Window \in Nat /\ Window # 0 /\ MaxTime \in Nat
    /\ \A S : G!Cardinality(S) = Cardinality(S)
<1>1. ASSUME NEW S PROVE G!Cardinality(S) = Cardinality(S)
  BY DEF G!Cardinality, Cardinality
<1> QED BY <1>1, AccessAssumption DEF G!LoginGateAssumption

Dated == (0 .. MaxTime) \X Nat
Forms == [at : {"form"}, list : G!Lists, read : SUBSET Dated, began : 0 .. MaxTime]

GateTypes ==
    /\ now \in 0 .. MaxTime /\ remote \in BOOLEAN /\ users \in BOOLEAN
    /\ stamps \in [G!Lists -> SUBSET Dated] /\ failed \in [G!Lists -> SUBSET Dated]
    /\ since \in [G!Lists -> SUBSET Dated]
    /\ attempt \in [Users -> {G!Answered, G!Refused} \cup Forms]
    /\ crowded \in SUBSET G!Lists

\* A list of failures numbers them, and the stored list and the history are part of it.
ListSound(l) ==
    /\ IsFiniteSet(failed[l])
    /\ \A f \in failed[l] : f[1] <= now /\ f[2] < Cardinality(failed[l])
    /\ stamps[l] \subseteq failed[l] /\ since[l] \subseteq failed[l]

\* An attempt that waits for its form holds a list with room for one more failure.
FormSound(a) ==
    attempt[a].at = "form" =>
       /\ attempt[a].read \subseteq failed[attempt[a].list] /\ attempt[a].began <= now
       /\ G!Guarded(attempt[a].list[1]) => Cardinality(attempt[a].read) < Limit

\* A client with one form at a time: the failures of the last minute are in the list that
\* the form's attempt holds, or else in the stored one, which has at most Limit.
TurnSound(l) ==
    G!Guarded(l[1]) /\ l \notin crowded =>
       /\ \A a, b \in G!Waiting(l) : a = b
       /\ \A a \in G!Waiting(l) : G!LastMinute(since[l]) \subseteq attempt[a].read
       /\ G!Waiting(l) = {} =>
             /\ G!LastMinute(since[l]) \subseteq stamps[l]
             /\ Cardinality(G!LastMinute(since[l])) <= Limit

GateInv ==
    /\ GateTypes /\ \A l \in G!Lists : ListSound(l) /\ TurnSound(l)
    /\ \A a \in Users : FormSound(a)

LEMMA GateShape ==
    ASSUME GateTypes, NEW a \in Users
    PROVE  IF attempt[a].at = "form"
           THEN /\ attempt[a] \in Forms /\ attempt[a].list \in G!Lists
                /\ attempt[a].read \subseteq Dated /\ attempt[a].began \in 0 .. MaxTime
           ELSE attempt[a] \in {G!Answered, G!Refused}
<1>1. attempt[a] \in {G!Answered, G!Refused} \cup Forms
  BY DEF GateTypes
<1>2. G!Answered.at # "form" /\ G!Refused.at # "form"
  BY DEF G!Answered, G!Refused
<1> QED BY <1>1, <1>2 DEF Forms

LEMMA GateInitInv == G!Init => GateInv
<1> SUFFICES ASSUME G!Init PROVE GateInv
  OBVIOUS
<1>1. /\ now = 0 /\ remote \in BOOLEAN /\ users \in BOOLEAN /\ crowded = {}
      /\ stamps = [l \in G!Lists |-> {}] /\ failed = [l \in G!Lists |-> {}]
      /\ since = [l \in G!Lists |-> {}] /\ attempt = [a \in Users |-> G!Answered]
  BY DEF G!Init
<1>2. G!Answered.at # "form"
  BY DEF G!Answered
<1>3. IsFiniteSet({}) /\ Cardinality({}) = 0
  BY FS_EmptySet
<1>4. GateTypes
  BY <1>1, GateFacts DEF GateTypes
<1>5. ASSUME NEW l \in G!Lists PROVE ListSound(l) /\ TurnSound(l)
  <2>1. G!Waiting(l) = {} /\ G!LastMinute(since[l]) = {}
    BY <1>1, <1>2 DEF G!Waiting, G!LastMinute
  <2>2. ListSound(l)
    BY <1>1, <1>3 DEF ListSound
  <2> QED BY <2>1, <2>2, <1>3, GateFacts DEF TurnSound
<1> QED BY <1>1, <1>2, <1>4, <1>5 DEF GateInv, FormSound

\* A request is answered or begins to wait, and the lists are as they were.
LEMMA GateRefused ==
    ASSUME GateInv, NEW a \in Users, NEW l \in G!Lists, G!Refuse(a, l)
    PROVE  GateInv'
<1>1. /\ attempt[a].at # "form" /\ attempt' = [attempt EXCEPT ![a] = G!Refused]
      /\ UNCHANGED <<now, remote, users, stamps, failed, since, crowded>>
  BY DEF G!Refuse, G!Admitted
<1>2. GateTypes /\ G!Refused.at # "form"
  BY DEF GateInv, G!Refused
<1>3. /\ attempt' \in [Users -> {G!Answered, G!Refused} \cup Forms]
      /\ attempt'[a].at # "form" /\ \A b \in Users \ {a} : attempt'[b] = attempt[b]
  BY <1>1, <1>2 DEF GateTypes
<1>4. GateTypes'
  BY <1>1, <1>2, <1>3 DEF GateTypes
<1>5. ASSUME NEW m \in G!Lists PROVE (ListSound(m) /\ TurnSound(m))'
  <2>1. G!Waiting(m)' = G!Waiting(m) /\ G!LastMinute(since[m])' = G!LastMinute(since[m])
    BY <1>1, <1>3 DEF G!Waiting, G!LastMinute
  <2>2. \A b \in G!Waiting(m) : attempt'[b] = attempt[b]
    BY <1>1, <1>3 DEF G!Waiting
  <2>3. ListSound(m) /\ TurnSound(m)
    BY DEF GateInv
  <2> QED BY <1>1, <2>1, <2>2, <2>3 DEF ListSound, TurnSound, G!Guarded
<1>6. ASSUME NEW b \in Users PROVE FormSound(b)'
  BY <1>1, <1>3 DEF GateInv, FormSound, G!Guarded
<1> QED BY <1>4, <1>5, <1>6 DEF GateInv

LEMMA GateBegun ==
    ASSUME GateInv, NEW a \in Users, NEW l \in G!Lists, G!Begin(a, l)
    PROVE  GateInv'
<1> DEFINE form == [at |-> "form", list |-> l, read |-> G!Fresh(stamps[l]), began |-> now]
<1>1. /\ attempt[a].at # "form" /\ attempt' = [attempt EXCEPT ![a] = form]
      /\ crowded' = IF G!Waiting(l) = {} THEN crowded ELSE crowded \cup {l}
      /\ UNCHANGED <<now, remote, users, stamps, failed, since>>
  BY DEF G!Begin, G!Admitted
<1>2. GateTypes /\ ListSound(l) /\ TurnSound(l)
  BY DEF GateInv
<1>3. G!Fresh(stamps[l]) \subseteq stamps[l] /\ stamps[l] \subseteq Dated /\ now \in 0 .. MaxTime
  BY <1>2 DEF G!Fresh, GateTypes
<1>4. /\ form \in Forms /\ form.at = "form" /\ form.list = l /\ form.began = now
      /\ form.read = G!Fresh(stamps[l])
  BY <1>3 DEF Forms
<1> HIDE DEF form
<1>5. /\ attempt' \in [Users -> {G!Answered, G!Refused} \cup Forms]
      /\ attempt'[a] = form /\ \A b \in Users \ {a} : attempt'[b] = attempt[b]
  BY <1>1, <1>2, <1>4 DEF GateTypes
<1>6. GateTypes'
  BY <1>1, <1>2, <1>5 DEF GateTypes
<1>7. FormSound(a)'
  <2>1. form.read \subseteq failed[l]
    BY <1>2, <1>3, <1>4 DEF ListSound
  <2>2. ASSUME G!Guarded(l[1]) PROVE Cardinality(form.read) < Limit
    <3>1. ~(Cardinality(G!Fresh(stamps[l])) >= Limit)
      BY <2>2, GateFacts DEF G!Begin, G!Full
    <3>2. IsFiniteSet(form.read)
      BY <1>2, <2>1, FS_Subset DEF ListSound
    <3>3. Cardinality(form.read) \in Nat
      BY <3>2, FS_CardinalityType
    <3> QED BY <1>4, <3>1, <3>3, GateFacts
  <2>3. now <= now
    BY <1>3
  <2> QED BY <1>1, <1>4, <1>5, <2>1, <2>2, <2>3 DEF FormSound, G!Guarded
<1>8. ASSUME NEW b \in Users \ {a} PROVE FormSound(b)'
  BY <1>1, <1>5 DEF GateInv, FormSound, G!Guarded
<1>9. ASSUME NEW m \in G!Lists PROVE ListSound(m)'
  BY <1>1 DEF GateInv, ListSound
<1>10. ASSUME NEW m \in G!Lists \ {l} PROVE TurnSound(m)'
  <2>1. G!Waiting(m)' = G!Waiting(m) /\ G!LastMinute(since[m])' = G!LastMinute(since[m])
    BY <1>1, <1>4, <1>5 DEF G!Waiting, G!LastMinute
  <2>2. \A b \in G!Waiting(m) : attempt'[b] = attempt[b]
    BY <1>1, <1>5 DEF G!Waiting
  <2>3. TurnSound(m) /\ (m \in crowded' <=> m \in crowded)
    BY <1>1 DEF GateInv
  <2> QED BY <1>1, <2>1, <2>2, <2>3 DEF TurnSound, G!Guarded
<1>11. TurnSound(l)'
  <2> SUFFICES ASSUME G!Guarded(l[1])', l \notin crowded' PROVE
           /\ \A b, c \in G!Waiting(l)' : b = c
           /\ \A b \in G!Waiting(l)' : G!LastMinute(since[l])' \subseteq attempt'[b].read
           /\ G!Waiting(l)' # {}
    BY DEF TurnSound
  <2>1. G!Waiting(l) = {} /\ l \notin crowded /\ G!Guarded(l[1])
    BY <1>1 DEF G!Guarded
  <2>2. G!Waiting(l)' = {a}
    BY <1>4, <1>5, <2>1 DEF G!Waiting
  <2>3. G!LastMinute(since[l]) \subseteq stamps[l]
    BY <1>2, <2>1 DEF TurnSound
  <2>4. ASSUME NEW s \in G!LastMinute(since[l]) PROVE s \in G!Fresh(stamps[l])
    <3>1. s \in stamps[l] /\ s[1] + Window > now
      BY <2>3 DEF G!LastMinute
    <3>2. s[1] \in Nat /\ now \in Nat
      BY <1>3, <3>1, GateFacts DEF Dated
    <3>3. now - s[1] < Window
      BY <3>1, <3>2, GateFacts
    <3> QED BY <3>1, <3>3 DEF G!Fresh
  <2>5. G!LastMinute(since[l])' = G!LastMinute(since[l])
    BY <1>1 DEF G!LastMinute
  <2> QED BY <1>4, <1>5, <2>2, <2>4, <2>5
<1> QED BY <1>6, <1>7, <1>8, <1>9, <1>10, <1>11 DEF GateInv

\* One attempt is answered: the others' lists and forms are as they were.
LEMMA GateElsewhere ==
    ASSUME GateInv, NEW a \in Users, NEW l \in G!Lists,
           attempt[a].at = "form", attempt[a].list = l,
           attempt' = [attempt EXCEPT ![a] = G!Answered], UNCHANGED <<now, remote, crowded>>,
           \A m \in G!Lists \ {l} :
              stamps'[m] = stamps[m] /\ failed'[m] = failed[m] /\ since'[m] = since[m],
           failed[l] \subseteq failed'[l]
    PROVE  /\ attempt' \in [Users -> {G!Answered, G!Refused} \cup Forms]
           /\ \A b \in Users : FormSound(b)'
           /\ \A m \in G!Lists \ {l} : ListSound(m)' /\ TurnSound(m)'
           /\ G!Waiting(l)' = G!Waiting(l) \ {a}
<1>1. GateTypes /\ G!Answered.at # "form"
  BY DEF GateInv, G!Answered
<1>2. /\ attempt' \in [Users -> {G!Answered, G!Refused} \cup Forms]
      /\ attempt'[a].at # "form" /\ \A b \in Users \ {a} : attempt'[b] = attempt[b]
  BY <1>1 DEF GateTypes
<1>3. \A m \in G!Lists : failed[m] \subseteq failed'[m]
  OBVIOUS
<1>4. ASSUME NEW b \in Users PROVE FormSound(b)'
  <2>1. CASE b = a
    BY <1>2, <2>1 DEF FormSound
  <2>2. CASE b # a /\ attempt[b].at = "form"
    <3>1. attempt'[b] = attempt[b] /\ attempt[b].list \in G!Lists /\ FormSound(b)
      BY <1>1, <1>2, <2>2, GateShape DEF GateInv
    <3>2. failed[attempt[b].list] \subseteq failed'[attempt[b].list]
      BY <1>3, <3>1
    <3> QED BY <3>1, <3>2 DEF FormSound, G!Guarded
  <2>3. CASE b # a /\ attempt[b].at # "form"
    BY <1>2, <2>3 DEF FormSound
  <2> QED BY <2>1, <2>2, <2>3
<1>5. ASSUME NEW m \in G!Lists \ {l} PROVE ListSound(m)' /\ TurnSound(m)'
  <2>1. G!Waiting(m)' = G!Waiting(m) /\ G!LastMinute(since[m])' = G!LastMinute(since[m])
    BY <1>2 DEF G!Waiting, G!LastMinute
  <2>2. \A b \in G!Waiting(m) : attempt'[b] = attempt[b]
    BY <1>2 DEF G!Waiting
  <2>3. ListSound(m) /\ TurnSound(m) /\ stamps'[m] = stamps[m] /\ failed'[m] = failed[m]
        /\ since'[m] = since[m]
    BY DEF GateInv
  <2> QED BY <2>1, <2>2, <2>3 DEF ListSound, TurnSound, G!Guarded
<1>6. G!Waiting(l)' = G!Waiting(l) \ {a}
  BY <1>2 DEF G!Waiting
<1> QED BY <1>2, <1>4, <1>5, <1>6

LEMMA GateFailed == ASSUME GateInv, NEW a \in Users, G!Fail(a) PROVE GateInv'
<1>0. GateTypes /\ FormSound(a) /\ attempt[a].at = "form"
  BY DEF GateInv, G!Fail
<1>01. PICK l \in G!Lists : l = attempt[a].list
  BY <1>0, GateShape
<1>02. PICK stamp : stamp = G!Stamp(a)
  OBVIOUS
<1>1. /\ attempt[a].at = "form" /\ G!Guarded(l[1])
      /\ stamps' = [stamps EXCEPT ![l] = attempt[a].read \cup {stamp}]
      /\ failed' = [failed EXCEPT ![l] = @ \cup {stamp}]
      /\ since' = [since EXCEPT ![l] = @ \cup {stamp}]
      /\ attempt' = [attempt EXCEPT ![a] = G!Answered]
      /\ UNCHANGED <<now, remote, users, crowded>>
  BY <1>01, <1>02 DEF G!Fail
<1>2. GateTypes /\ FormSound(a)
  BY <1>0
<1>3. l \in G!Lists /\ attempt[a].read \subseteq Dated /\ attempt[a].began \in 0 .. MaxTime
  BY <1>1, <1>2, GateShape
<1>4. /\ attempt[a].read \subseteq failed[l] /\ attempt[a].began <= now
      /\ Cardinality(attempt[a].read) < Limit
  BY <1>01, <1>1, <1>2 DEF FormSound
<1>5. ListSound(l) /\ TurnSound(l)
  BY <1>3 DEF GateInv
<1>6. IsFiniteSet(failed[l]) /\ Cardinality(failed[l]) \in Nat
  BY <1>5, FS_CardinalityType DEF ListSound
<1>7. /\ stamp = <<attempt[a].began, Cardinality(failed[l])>>
      /\ stamp[1] = attempt[a].began /\ stamp[2] = Cardinality(failed[l]) /\ stamp \in Dated
  BY <1>01, <1>02, <1>3, <1>6, GateFacts DEF G!Stamp, Dated
<1>8. stamp \notin failed[l]
  BY <1>5, <1>6, <1>7 DEF ListSound
<1>9. /\ stamps' \in [G!Lists -> SUBSET Dated] /\ stamps'[l] = attempt[a].read \cup {stamp}
      /\ failed' \in [G!Lists -> SUBSET Dated] /\ failed'[l] = failed[l] \cup {stamp}
      /\ since' \in [G!Lists -> SUBSET Dated] /\ since'[l] = since[l] \cup {stamp}
  BY <1>1, <1>2, <1>3, <1>7 DEF GateTypes
<1>10. \A m \in G!Lists \ {l} :
          stamps'[m] = stamps[m] /\ failed'[m] = failed[m] /\ since'[m] = since[m]
  BY <1>1, <1>2, <1>3 DEF GateTypes
<1>11. /\ attempt' \in [Users -> {G!Answered, G!Refused} \cup Forms]
       /\ \A b \in Users : FormSound(b)'
       /\ \A m \in G!Lists \ {l} : ListSound(m)' /\ TurnSound(m)'
       /\ G!Waiting(l)' = G!Waiting(l) \ {a}
  BY <1>01, <1>1, <1>9, <1>10, GateElsewhere
<1>12. GateTypes'
  BY <1>1, <1>2, <1>9, <1>11 DEF GateTypes
<1>13. ListSound(l)'
  <2>1. IsFiniteSet(failed'[l]) /\ Cardinality(failed'[l]) = Cardinality(failed[l]) + 1
    <3>1. /\ IsFiniteSet(failed[l] \cup {stamp})
          /\ Cardinality(failed[l] \cup {stamp}) = Cardinality(failed[l]) + 1
      BY <1>6, <1>8, FS_AddElement
    <3> QED BY <1>9, <3>1
  <2>2. ASSUME NEW f \in failed'[l] PROVE f[1] <= now' /\ f[2] < Cardinality(failed'[l])
    <3>1. CASE f = stamp
      BY <1>1, <1>4, <1>6, <1>7, <2>1, <3>1
    <3>2. CASE f \in failed[l]
      <4>1. f[1] <= now /\ f[2] < Cardinality(failed[l]) /\ f[2] \in Nat
        BY <1>2, <1>3, <1>5, <3>2 DEF ListSound, GateTypes, Dated
      <4> QED BY <1>1, <1>6, <2>1, <4>1
    <3> QED BY <1>9, <3>1, <3>2
  <2>3. stamps'[l] \subseteq failed'[l] /\ since'[l] \subseteq failed'[l]
    BY <1>4, <1>5, <1>9 DEF ListSound
  <2> QED BY <2>1, <2>2, <2>3 DEF ListSound
<1>14. TurnSound(l)'
  <2> SUFFICES ASSUME l \notin crowded'
               PROVE  /\ G!Waiting(l)' = {}
                      /\ G!LastMinute(since[l])' \subseteq stamps'[l]
                      /\ Cardinality(G!LastMinute(since[l])') <= Limit
    BY DEF TurnSound
  <2>1. a \in G!Waiting(l) /\ l \notin crowded
    BY <1>01, <1>1 DEF G!Waiting
  <2>2. G!Waiting(l)' = {} /\ G!LastMinute(since[l]) \subseteq attempt[a].read
    BY <1>1, <1>5, <1>11, <2>1 DEF TurnSound
  <2>3. G!LastMinute(since[l])' \subseteq attempt[a].read \cup {stamp}
    BY <1>1, <1>9, <2>2 DEF G!LastMinute
  <2>4. IsFiniteSet(attempt[a].read) /\ stamp \notin attempt[a].read
    BY <1>4, <1>6, <1>8, FS_Subset
  <2>5. /\ IsFiniteSet(attempt[a].read \cup {stamp})
        /\ Cardinality(attempt[a].read \cup {stamp}) = Cardinality(attempt[a].read) + 1
    BY <2>4, FS_AddElement
  <2>6. /\ IsFiniteSet(G!LastMinute(since[l])')
        /\ Cardinality(G!LastMinute(since[l])') <= Cardinality(attempt[a].read \cup {stamp})
    BY <2>3, <2>5, FS_Subset
  <2>7. Cardinality(attempt[a].read) \in Nat /\ Cardinality(G!LastMinute(since[l])') \in Nat
    BY <2>4, <2>6, FS_CardinalityType
  <2>8. Cardinality(G!LastMinute(since[l])') <= Limit
    BY <1>4, <2>5, <2>6, <2>7, GateFacts
  <2> QED BY <1>9, <2>2, <2>3, <2>8
<1> QED BY <1>11, <1>12, <1>13, <1>14 DEF GateInv

LEMMA GateSucceeds == ASSUME GateInv, NEW a \in Users, G!Succeed(a) PROVE GateInv'
<1>0. GateTypes /\ attempt[a].at = "form"
  BY DEF GateInv, G!Succeed
<1>01. PICK l \in G!Lists : l = attempt[a].list
  BY <1>0, GateShape
<1>1. /\ attempt[a].at = "form" /\ attempt' = [attempt EXCEPT ![a] = G!Answered]
      /\ stamps' = IF G!Guarded(l[1]) THEN [stamps EXCEPT ![l] = {}] ELSE stamps
      /\ since' = IF G!Guarded(l[1]) THEN [since EXCEPT ![l] = {}] ELSE since
      /\ users' \in BOOLEAN /\ UNCHANGED <<now, remote, failed, crowded>>
  BY <1>01 DEF G!Succeed
<1>2. GateTypes
  BY <1>0
<1>3. l \in G!Lists
  OBVIOUS
<1>4. ListSound(l)
  BY <1>3 DEF GateInv
<1>5. /\ stamps' \in [G!Lists -> SUBSET Dated] /\ since' \in [G!Lists -> SUBSET Dated]
      /\ stamps'[l] \subseteq stamps[l] /\ since'[l] \subseteq since[l]
      /\ G!Guarded(l[1]) => since'[l] = {}
  BY <1>1, <1>2, <1>3 DEF GateTypes
<1>6. \A m \in G!Lists \ {l} :
          stamps'[m] = stamps[m] /\ failed'[m] = failed[m] /\ since'[m] = since[m]
  BY <1>1, <1>2, <1>3 DEF GateTypes
<1>7. /\ attempt' \in [Users -> {G!Answered, G!Refused} \cup Forms]
      /\ \A b \in Users : FormSound(b)'
      /\ \A m \in G!Lists \ {l} : ListSound(m)' /\ TurnSound(m)'
  BY <1>01, <1>1, <1>6, GateElsewhere
<1>8. GateTypes'
  BY <1>1, <1>2, <1>5, <1>7 DEF GateTypes
<1>9. ListSound(l)'
  BY <1>1, <1>4, <1>5 DEF ListSound
<1>10. TurnSound(l)'
  <2>1. G!Guarded(l[1])' => G!LastMinute(since[l])' = {}
    BY <1>1, <1>5 DEF G!Guarded, G!LastMinute
  <2>2. G!Guarded(l[1])' /\ l \notin crowded' => \A b, c \in G!Waiting(l)' : b = c
    <3>1. G!Guarded(l[1])' /\ l \notin crowded' => \A b, c \in G!Waiting(l) : b = c
      BY <1>1, <1>3 DEF GateInv, TurnSound, G!Guarded
    <3>2. G!Waiting(l)' \subseteq G!Waiting(l)
      BY <1>01, <1>1, <1>6, GateElsewhere
    <3> QED BY <3>1, <3>2
  <2>3. Cardinality({}) <= Limit
    BY FS_EmptySet, GateFacts
  <2> QED BY <2>1, <2>2, <2>3 DEF TurnSound
<1> QED BY <1>7, <1>8, <1>9, <1>10 DEF GateInv

LEMMA GateTicks == ASSUME GateInv, G!Tick PROVE GateInv'
<1>1. /\ now < MaxTime /\ now' = now + 1
      /\ UNCHANGED <<remote, users, stamps, attempt, failed, since, crowded>>
  BY DEF G!Tick
<1>2. GateTypes /\ now \in Nat /\ now' \in 0 .. MaxTime /\ now <= now'
  BY <1>1, GateFacts DEF GateInv, GateTypes
<1>3. GateTypes'
  BY <1>1, <1>2 DEF GateTypes
<1>4. ASSUME NEW b \in Users PROVE FormSound(b)'
  <2>1. attempt[b].at = "form" => attempt[b].began \in Nat
    BY <1>2, GateShape
  <2> QED BY <1>1, <1>2, <2>1 DEF GateInv, FormSound, G!Guarded
<1>5. ASSUME NEW l \in G!Lists PROVE ListSound(l)' /\ TurnSound(l)'
  <2>1. ListSound(l) /\ TurnSound(l) /\ failed[l] \subseteq Dated /\ since[l] \subseteq Dated
    BY <1>2 DEF GateInv, GateTypes
  <2>2. ASSUME NEW f \in failed[l] PROVE f[1] <= now'
    BY <1>1, <1>2, <2>1 DEF ListSound, Dated
  <2>3. ListSound(l)'
    BY <1>1, <2>1, <2>2 DEF ListSound
  <2>4. ASSUME NEW s \in G!LastMinute(since[l])' PROVE s \in G!LastMinute(since[l])
    <3>1. s \in since[l] /\ s[1] + Window > now' /\ s[1] \in Nat
      BY <1>1, <2>1 DEF G!LastMinute, Dated
    <3>2. s[1] + Window > now
      BY <1>1, <1>2, <3>1, GateFacts
    <3> QED BY <3>1, <3>2 DEF G!LastMinute
  <2>5. IsFiniteSet(G!LastMinute(since[l]))
    <3>1. G!LastMinute(since[l]) \subseteq failed[l] /\ IsFiniteSet(failed[l])
      BY <2>1 DEF ListSound, G!LastMinute
    <3> QED BY <3>1, FS_Subset
  <2>6. /\ IsFiniteSet(G!LastMinute(since[l])')
        /\ Cardinality(G!LastMinute(since[l])') <= Cardinality(G!LastMinute(since[l]))
    BY <2>4, <2>5, FS_Subset
  <2>7. /\ Cardinality(G!LastMinute(since[l])') \in Nat
        /\ Cardinality(G!LastMinute(since[l])) \in Nat
    BY <2>5, <2>6, FS_CardinalityType
  <2>8. Cardinality(G!LastMinute(since[l])) <= Limit => Cardinality(G!LastMinute(since[l])') <= Limit
    BY <2>6, <2>7, GateFacts
  <2>9. G!Waiting(l)' = G!Waiting(l) /\ (G!Guarded(l[1])' <=> G!Guarded(l[1]))
    BY <1>1 DEF G!Waiting, G!Guarded
  <2>10. TurnSound(l)'
    BY <1>1, <2>1, <2>4, <2>8, <2>9 DEF TurnSound
  <2> QED BY <2>3, <2>10
<1> QED BY <1>3, <1>4, <1>5 DEF GateInv

LEMMA GateStepInv == GateInv /\ [G!Next]_(G!loginVars) => GateInv'
<1> SUFFICES ASSUME GateInv, [G!Next]_(G!loginVars) PROVE GateInv'
  OBVIOUS
<1>1. CASE UNCHANGED G!loginVars
  <2>1. UNCHANGED <<now, remote, users, stamps, attempt, failed, since, crowded>>
    BY <1>1 DEF G!loginVars
  <2>2. GateTypes'
    BY <2>1 DEF GateInv, GateTypes
  <2>3. ASSUME NEW l \in G!Lists PROVE ListSound(l)' /\ TurnSound(l)'
    <3>1. /\ G!Waiting(l)' = G!Waiting(l) /\ (G!Guarded(l[1])' <=> G!Guarded(l[1]))
          /\ G!LastMinute(since[l])' = G!LastMinute(since[l])
      BY <2>1 DEF G!Guarded, G!Waiting, G!LastMinute
    <3>2. ListSound(l)'
      BY <2>1 DEF GateInv, ListSound
    <3>3. TurnSound(l)'
      BY <2>1, <3>1 DEF GateInv, TurnSound
    <3> QED BY <3>2, <3>3
  <2>4. ASSUME NEW a \in Users PROVE FormSound(a)'
    BY <2>1 DEF GateInv, FormSound, G!Guarded
  <2> QED BY <2>2, <2>3, <2>4 DEF GateInv
<1> QED BY <1>1, GateTicks, GateFailed, GateSucceeds, GateBegun, GateRefused DEF G!Next

LEMMA GateSays == GateInv => G!TypeOK /\ G!LimitUnlessTogether
<1> SUFFICES ASSUME GateInv PROVE G!TypeOK /\ G!LimitUnlessTogether
  OBVIOUS
<1>1. GateTypes
  BY DEF GateInv
<1>2. ASSUME NEW l \in G!Lists
      PROVE  /\ failed[l] \subseteq G!Stamps(now, G!Cardinality(failed[l]))
             /\ stamps[l] \subseteq failed[l] /\ since[l] \subseteq failed[l]
  <2>1. ListSound(l) /\ failed[l] \subseteq Dated
    BY <1>1 DEF GateInv, GateTypes
  <2>2. Cardinality(failed[l]) \in Nat
    BY <2>1, FS_CardinalityType DEF ListSound
  <2>3. ASSUME NEW f \in failed[l] PROVE f \in (0 .. now) \X (0 .. Cardinality(failed[l]) - 1)
    <3>1. f \in (0 .. MaxTime) \X Nat /\ f[1] <= now /\ f[2] < Cardinality(failed[l])
      BY <2>1 DEF ListSound, Dated
    <3>2. f[1] \in 0 .. now /\ f[2] \in 0 .. Cardinality(failed[l]) - 1
      BY <1>1, <2>2, <3>1, GateFacts DEF GateTypes
    <3> QED BY <3>1, <3>2
  <2> QED BY <2>1, <2>3, GateFacts DEF ListSound, G!Stamps
<1>3. ASSUME NEW a \in Users
      PROVE  \/ attempt[a] \in {G!Answered, G!Refused}
             \/ /\ attempt[a].at = "form" /\ attempt[a].list \in G!Lists
                /\ attempt[a].read \subseteq failed[attempt[a].list]
                /\ attempt[a].began \in 0 .. now
  <2>1. CASE attempt[a].at # "form"
    BY <1>1, <2>1, GateShape
  <2>2. CASE attempt[a].at = "form"
    <3>1. FormSound(a) /\ attempt[a].list \in G!Lists /\ attempt[a].began \in 0 .. MaxTime
      BY <1>1, <2>2, GateShape DEF GateInv
    <3>2. attempt[a].began \in 0 .. now
      BY <1>1, <2>2, <3>1, GateFacts DEF FormSound, GateTypes
    <3> QED BY <2>2, <3>1, <3>2 DEF FormSound
  <2> QED BY <2>1, <2>2
<1>4. ASSUME NEW l \in G!Lists, G!Guarded(l[1]), l \notin crowded
      PROVE  G!Cardinality(G!LastMinute(since[l])) + G!Cardinality(G!Waiting(l)) <= Limit
  <2>1. TurnSound(l) /\ ListSound(l)
    BY DEF GateInv
  <2>2. IsFiniteSet(G!LastMinute(since[l])) /\ Cardinality(G!LastMinute(since[l])) \in Nat
    <3>1. G!LastMinute(since[l]) \subseteq failed[l] /\ IsFiniteSet(failed[l])
      BY <2>1 DEF ListSound, G!LastMinute
    <3> QED BY <3>1, FS_Subset, FS_CardinalityType
  <2>3. CASE G!Waiting(l) = {}
    BY <1>4, <2>1, <2>2, <2>3, FS_EmptySet, GateFacts DEF TurnSound
  <2>4. ASSUME NEW a \in G!Waiting(l)
        PROVE  Cardinality(G!LastMinute(since[l])) + Cardinality(G!Waiting(l)) <= Limit
    <3>1. a \in Users /\ attempt[a].at = "form" /\ attempt[a].list = l
      BY DEF G!Waiting
    <3>2. /\ attempt[a].read \subseteq failed[l] /\ Cardinality(attempt[a].read) < Limit
          /\ G!LastMinute(since[l]) \subseteq attempt[a].read
      BY <1>4, <2>1, <3>1 DEF GateInv, FormSound, TurnSound
    <3>3. IsFiniteSet(attempt[a].read)
      BY <2>1, <3>2, FS_Subset DEF ListSound
    <3>4. /\ Cardinality(attempt[a].read) \in Nat
          /\ Cardinality(G!LastMinute(since[l])) <= Cardinality(attempt[a].read)
      BY <3>2, <3>3, FS_Subset, FS_CardinalityType
    <3>5. G!Waiting(l) = {a}
      BY <1>4, <2>1 DEF TurnSound
    <3>6. Cardinality(G!Waiting(l)) = 1
      BY <3>5, FS_Singleton
    <3> QED BY <2>2, <3>2, <3>4, <3>6, GateFacts
  <2> QED BY <2>3, <2>4, GateFacts
<1>5. G!TypeOK
  BY <1>1, <1>2, <1>3 DEF G!TypeOK, GateTypes, Dated
<1> QED BY <1>4, <1>5 DEF G!LimitUnlessTogether

LEMMA GateRefuses ==
    GateInv /\ [G!Next]_(G!loginVars) =>
       [\A a \in Users, l \in G!Lists :
           G!Refuse(a, l) => G!Cardinality(G!LastMinute(failed[l])) >= Limit]_(G!loginVars)
<1> SUFFICES ASSUME GateInv, NEW a \in Users, NEW l \in G!Lists, G!Refuse(a, l)
             PROVE  Cardinality(G!LastMinute(failed[l])) >= Limit
  BY GateFacts
<1>1. Cardinality(G!Fresh(stamps[l])) >= Limit
  BY GateFacts DEF G!Refuse, G!Full
<1>2. ListSound(l) /\ GateTypes
  BY DEF GateInv
<1>3. ASSUME NEW s \in G!Fresh(stamps[l]) PROVE s \in G!LastMinute(failed[l])
  <2>1. s \in failed[l] /\ now - s[1] < Window
    BY <1>2 DEF G!Fresh, ListSound
  <2>2. s[1] \in Nat /\ now \in Nat
    BY <1>2, <2>1, GateFacts DEF GateTypes, Dated
  <2>3. s[1] + Window > now
    BY <2>1, <2>2, GateFacts
  <2> QED BY <2>1, <2>3 DEF G!LastMinute
<1>4. IsFiniteSet(G!LastMinute(failed[l]))
  <2>1. G!LastMinute(failed[l]) \subseteq failed[l] /\ IsFiniteSet(failed[l])
    BY <1>2 DEF ListSound, G!LastMinute
  <2> QED BY <2>1, FS_Subset
<1>5. /\ IsFiniteSet(G!Fresh(stamps[l]))
      /\ Cardinality(G!Fresh(stamps[l])) <= Cardinality(G!LastMinute(failed[l]))
  BY <1>3, <1>4, FS_Subset
<1>6. Cardinality(G!Fresh(stamps[l])) \in Nat /\ Cardinality(G!LastMinute(failed[l])) \in Nat
  BY <1>4, <1>5, FS_CardinalityType
<1> QED BY <1>1, <1>5, <1>6, GateFacts

\* A client has at most Limit failures within one window, one form at a time, and nobody is
\* refused for attempts older than that.
THEOREM GateIsKept ==
    G!Init /\ [][G!Next]_(G!loginVars) => [](G!TypeOK /\ G!LimitUnlessTogether) /\ G!RefusedForCause
BY GateInitInv, GateStepInv, GateSays, GateRefuses, PTL DEF G!RefusedForCause

-----------------------------------------------------------------------------
(* The specification that is model-checked runs each part. *)

LEMMA AccessParts ==
    AccessSpec => /\ Spec
                  /\ G!Init /\ [][G!Next]_(G!loginVars)
                  /\ P!Init /\ [][P!Next]_(P!presetVars)
                  /\ K!Spec
                  /\ T!Init /\ [][T!Next]_(T!tlsVars)
                  /\ E!Init /\ [][E!Next]_(E!enrollVars)
                  /\ B!Init /\ [][B!Next]_(B!trustVars)
<1>1. AccessInit => Init /\ G!Init /\ P!Init /\ K!Init /\ T!Init /\ E!Init /\ B!Init
  BY DEF AccessInit
<1>2. [AccessNext]_accessVars =>
         /\ [Next]_vars /\ [G!Next]_(G!loginVars) /\ [P!Next]_(P!presetVars) /\ [K!Next]_(K!vars)
         /\ [T!Next]_(T!tlsVars) /\ [E!Next]_(E!enrollVars) /\ [B!Next]_(B!trustVars)
  <2> USE DEF gate, presets, secret, tls, enroll, trust,
              G!loginVars, P!presetVars, K!vars, T!tlsVars, E!enrollVars, B!trustVars
  <2>1. CASE AccountsStep
    BY <2>1 DEF AccountsStep
  <2>2. CASE GateStep
    BY <2>2 DEF GateStep
  <2>3. CASE PresetsStep
    BY <2>3 DEF PresetsStep
  <2>4. CASE SecretStep
    BY <2>4 DEF SecretStep
  <2>5. CASE TlsStep
    BY <2>5 DEF TlsStep
  <2>6. CASE EnrollStep
    BY <2>6 DEF EnrollStep
  <2>7. CASE TrustStep
    BY <2>7 DEF TrustStep
  <2>8. CASE UNCHANGED accessVars
    BY <2>8 DEF accessVars
  <2> QED BY <2>1, <2>2, <2>3, <2>4, <2>5, <2>6, <2>7, <2>8 DEF AccessNext
<1> QED BY <1>1, <1>2, PTL DEF AccessSpec, Spec, K!Spec

\* Servers of one root sign with one secret and serve the certificate they announce.
THEOREM ServersAlwaysAgree == AccessSpec => []ServersAgree
BY AccessParts, SecretIsOne, TlsAsAnnounced, PTL DEF ServersAgree

\* An enrolled agent connects, an authority is for ever, and a verdict is by the key it is
\* reported with.
THEOREM KeysStayOwn == AccessSpec => KeysAreOwn
BY AccessParts, EnrolmentHolds, VerdictsAreOwn, PTL DEF KeysAreOwn

\* A preset that was saved is found again, and no secret is stored with one.
THEOREM PresetsAlwaysHold == AccessSpec => PresetsHold
BY AccessParts, PresetsAreHeld, PTL DEF PresetsHold

\* The limit on log-ins is kept, and nobody is refused without cause.
THEOREM GateAlwaysHolds == AccessSpec => GateHolds
BY AccessParts, GateIsKept, PTL DEF GateHolds

\* Every variable of every part always has its type.
THEOREM AccessTypeCorrect == AccessSpec => []AccessTypeOK
BY AccessParts, TypeCorrect, GateIsKept, PresetsAreHeld, SecretIsOne, TlsAsAnnounced,
   EnrolmentHolds, VerdictsAreOwn, PTL DEF AccessTypeOK

\* The accounts of the specification that is model-checked are AuthStore's.
THEOREM AccountsHold == AccessSpec => []AccountsSound /\ ChangesHold
BY AccessParts, AccountsAreSound, ChangesAreHeld, PTL

=============================================================================
