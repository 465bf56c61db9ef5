----------------------------- MODULE AuthStore ------------------------------
(***************************************************************************)
(* Users, workspaces and browser sessions of the web server: the SQLite    *)
(* store of core/auth370.py with the replacements of authatomic370.py      *)
(* (creation) and sessionguard370.py (workspace selection), used by the    *)
(* web server (webapp370.py) and by the command line (cli370.py), which    *)
(* are different processes on one database.                                *)
(*                                                                         *)
(* SQLite lets one connection write at a time.  Creation takes the write   *)
(* lock before it reads (BEGIN IMMEDIATE); the other operations read       *)
(* first, and only their statements that write form a transaction, so what *)
(* they read may be stale by then.                                         *)
(***************************************************************************)
EXTENDS Naturals, FiniteSets

CONSTANTS Users,        \* usernames
          Workspaces,   \* workspace ids
          Names,        \* workspace names
          Default,      \* the name of a user's first workspace
          Sessions,     \* session tokens
          Web,          \* web server processes
          Cli,          \* command line processes
          MaxResets,    \* bound: password resets of one user
          MaxCrashes    \* bound: processes killed while they write

Procs == Web \cup Cli
None == "none"

ASSUME AuthStoreAssumption == /\ Default \in Names
                              /\ None \notin Users /\ None \notin Procs
                              /\ MaxResets \in Nat /\ MaxCrashes \in Nat

VARIABLES user,       \* auth_users, with the password as a version number
          workspace,  \* auth_workspaces
          dirs,       \* workspace directories on disk
          session,    \* auth_sessions
          writer,     \* the process that holds the write lock across steps
          proc,       \* the operation each process is in
          setups,     \* users created by create_initial_admin
          crashes

vars == <<user, workspace, dirs, session, writer, proc, setups, crashes>>

Idle == [at |-> "idle"]

NoUser == [role |-> None]
NoWorkspace == [owner |-> None]
NoSession == [user |-> None]

\* The rows, and what a process knows in the middle of an operation.
Accounts == [role : {"user", "administrator"}, disabled : BOOLEAN, password : 0 .. MaxResets]
Spaces == [owner : Users, name : Names]
Tickets == [user : Users, workspace : Workspaces, password : 0 .. MaxResets, expired : BOOLEAN]
NewUsers == [at : {"insert"}, what : {"user", "admin"}, user : Users,
             role : {"user", "administrator"}, workspace : Workspaces]
NewSpaces == [at : {"insert"}, what : {"workspace"}, user : Users, workspace : Workspaces,
              name : Names]
Disablings == [at : {"disable"}, user : Users, stale : BOOLEAN]
SignIns == [at : {"login", "token"}, user : Users, password : 0 .. MaxResets]

TypeOK ==
    /\ user \in [Users -> {NoUser} \cup Accounts]
    /\ workspace \in [Workspaces -> {NoWorkspace} \cup Spaces]
    /\ dirs \subseteq Workspaces
    /\ session \in [Sessions -> {NoSession} \cup Tickets]
    /\ writer \in Procs \cup {None}
    /\ proc \in [Procs -> {Idle} \cup NewUsers \cup NewSpaces \cup Disablings \cup SignIns]
    /\ setups \subseteq Users
    /\ crashes \in 0 .. MaxCrashes

Init ==
    /\ user = [u \in Users |-> NoUser]
    /\ workspace = [w \in Workspaces |-> NoWorkspace]
    /\ dirs = {}
    /\ session = [s \in Sessions |-> NoSession]
    /\ writer = None
    /\ proc = [p \in Procs |-> Idle]
    /\ setups = {}
    /\ crashes = 0

Known == {u \in Users : user[u] # NoUser}
EnabledAdmins == {u \in Known : user[u].role = "administrator" /\ ~user[u].disabled}
Owned(u) == {w \in Workspaces : workspace[w].owner = u}

\* A statement that writes waits for the write lock.
Writable == writer = None

At(p, where) == proc[p].at = where
Goto(p, state) == proc' = [proc EXCEPT ![p] = state]

-----------------------------------------------------------------------------
(* Creation: BEGIN IMMEDIATE, the checks and the new directory in one step *)
(* under the write lock; the inserts and their commit in another.          *)

Lock(p, state, w) ==
    /\ Writable
    /\ At(p, "idle")
    /\ w \notin dirs /\ workspace[w] = NoWorkspace
    /\ writer' = p
    /\ dirs' = dirs \cup {w}
    /\ Goto(p, state)
    /\ UNCHANGED <<user, workspace, session, setups, crashes>>

\* Faulty: refuses only the name that exists.
BeginSetupByName(p, u, w) ==
    /\ p \in Web
    /\ u \notin Known
    /\ Lock(p, [at |-> "insert", what |-> "admin", user |-> u, role |-> "administrator",
                workspace |-> w], w)

\* create_initial_admin: auth_users is empty under the lock.
BeginSetup(p, u, w) ==
    /\ p \in Web
    /\ Known = {}
    /\ Lock(p, [at |-> "insert", what |-> "admin", user |-> u, role |-> "administrator",
                workspace |-> w], w)

\* create_user, by an administrator in the browser or from the command line;
\* the command line makes nothing but an administrator of the first user.
BeginUser(p, u, role, w) ==
    /\ u \notin Known
    /\ p \in Web => EnabledAdmins # {}
    /\ p \in Cli => Known # {} \/ role = "administrator"
    /\ Lock(p, [at |-> "insert", what |-> "user", user |-> u, role |-> role,
                workspace |-> w], w)

BeginWorkspace(p, u, name, w) ==
    /\ u \in Known /\ ~user[u].disabled
    /\ name \notin {workspace[x].name : x \in Owned(u)}
    /\ Lock(p, [at |-> "insert", what |-> "workspace", user |-> u, workspace |-> w,
                name |-> name], w)

Commit(p) ==
    /\ At(p, "insert")
    /\ LET new == proc[p] IN
         /\ workspace' = [workspace EXCEPT ![new.workspace] =
               [owner |-> new.user, name |-> IF new.what = "workspace" THEN new.name ELSE Default]]
         /\ user' = IF new.what = "workspace" THEN user
                    ELSE [user EXCEPT ![new.user] =
                            [role |-> new.role, disabled |-> FALSE, password |-> 0]]
         /\ setups' = IF new.what = "admin" THEN setups \cup {new.user} ELSE setups
    /\ writer' = None
    /\ Goto(p, Idle)
    /\ UNCHANGED <<dirs, session, crashes>>

\* An exception after the directory was made: rollback, and rmtree.
Rollback(p) ==
    /\ At(p, "insert")
    /\ dirs' = dirs \ {proc[p].workspace}
    /\ writer' = None
    /\ Goto(p, Idle)
    /\ UNCHANGED <<user, workspace, session, setups, crashes>>

\* The process is killed: SQLite rolls back, the directory stays.
Crash(p) ==
    /\ ~At(p, "idle")
    /\ crashes < MaxCrashes
    /\ crashes' = crashes + 1
    /\ writer' = IF writer = p THEN None ELSE writer
    /\ Goto(p, Idle)
    /\ UNCHANGED <<user, workspace, dirs, session, setups>>

-----------------------------------------------------------------------------
(* Administration. *)

WithoutSessionsOf(u) == [s \in Sessions |-> IF session[s].user = u THEN NoSession ELSE session[s]]

\* Faulty: an off-by-one in the number of administrators.
DisableReadOffByOne(p, u) ==
    /\ At(p, "idle")
    /\ u \in Known
    /\ user[u].role = "administrator" => Cardinality(EnabledAdmins) > 0
    /\ Goto(p, [at |-> "disable", user |-> u, stale |-> FALSE])
    /\ UNCHANGED <<user, workspace, dirs, session, writer, setups, crashes>>

\* set_user_disabled(u, True): the role and the number of enabled
\* administrators are read before the transaction.  The web route refuses the
\* caller's own account, so another administrator is calling.
DisableRead(p, u) ==
    /\ At(p, "idle")
    /\ u \in Known
    /\ p \in Web => EnabledAdmins \ {u} # {}
    /\ user[u].role = "administrator" => Cardinality(EnabledAdmins) > 1
    /\ Goto(p, [at |-> "disable", user |-> u, stale |-> FALSE])
    /\ UNCHANGED <<user, workspace, dirs, session, writer, setups, crashes>>

\* The write, in a transaction of its own.  What others have counted is stale now.
DisableWrite(p) ==
    /\ At(p, "disable")
    /\ Writable
    /\ user' = [user EXCEPT ![proc[p].user].disabled = TRUE]
    /\ session' = WithoutSessionsOf(proc[p].user)
    /\ proc' = [q \in Procs |-> IF q = p THEN Idle
                               ELSE IF At(q, "disable") THEN [proc[q] EXCEPT !.stale = TRUE]
                               ELSE proc[q]]
    /\ UNCHANGED <<workspace, dirs, writer, setups, crashes>>

Enable(p, u) ==
    /\ At(p, "idle")
    /\ Writable
    /\ u \in Known
    /\ p \in Web => EnabledAdmins # {}
    /\ user' = [user EXCEPT ![u].disabled = FALSE]
    /\ UNCHANGED <<workspace, dirs, session, writer, proc, setups, crashes>>

\* reset_password: one transaction that also deletes the sessions.
ResetPassword(p, u) ==
    /\ At(p, "idle")
    /\ Writable
    /\ u \in Known /\ user[u].password < MaxResets
    /\ p \in Web => EnabledAdmins # {}
    /\ user' = [user EXCEPT ![u].password = @ + 1]
    /\ session' = WithoutSessionsOf(u)
    /\ UNCHANGED <<workspace, dirs, writer, proc, setups, crashes>>

-----------------------------------------------------------------------------
(* Sessions, all in the web server. *)

\* authenticate: the right password of an enabled user.
Authenticate(p, u) ==
    /\ p \in Web /\ At(p, "idle")
    /\ u \in Known /\ ~user[u].disabled
    /\ Goto(p, [at |-> "login", user |-> u, password |-> user[u].password])
    /\ UNCHANGED <<user, workspace, dirs, session, writer, setups, crashes>>

\* create_session reads the user again, then the default workspace ...
SessionRead(p) ==
    /\ At(p, "login")
    /\ Goto(p, IF user[proc[p].user].disabled THEN Idle ELSE [proc[p] EXCEPT !.at = "token"])
    /\ UNCHANGED <<user, workspace, dirs, session, writer, setups, crashes>>

\* Faulty: a user whose default workspace is missing gets a session without one.
SessionInsertBare(p, s) ==
    /\ At(p, "token")
    /\ Writable
    /\ session[s] = NoSession
    /\ session' = [session EXCEPT ![s] =
          [user |-> proc[p].user, workspace |-> None, password |-> proc[p].password,
           expired |-> FALSE]]
    /\ Goto(p, Idle)
    /\ UNCHANGED <<user, workspace, dirs, writer, setups, crashes>>

\* ... and inserts the row.
SessionInsert(p, s) ==
    /\ At(p, "token")
    /\ Writable
    /\ session[s] = NoSession
    /\ \E w \in Owned(proc[p].user) :
         /\ workspace[w].name = Default
         /\ session' = [session EXCEPT ![s] =
               [user |-> proc[p].user, workspace |-> w, password |-> proc[p].password,
                expired |-> FALSE]]
    /\ Goto(p, Idle)
    /\ UNCHANGED <<user, workspace, dirs, writer, setups, crashes>>

\* Time passes: expires_at of session s is reached.
Expire(s) ==
    /\ session[s] # NoSession /\ ~session[s].expired
    /\ session' = [session EXCEPT ![s].expired = TRUE]
    /\ UNCHANGED <<user, workspace, dirs, writer, proc, setups, crashes>>

\* A session that requests are served for.
Resolves(s) ==
    session[s] # NoSession /\ ~session[s].expired /\ ~user[session[s].user].disabled

\* resolve_session and select_workspace delete a session that does not
\* resolve, cleanup_sessions an expired one; signing out deletes any.
DropSession(p, s) ==
    /\ p \in Web /\ At(p, "idle") /\ Writable
    /\ session[s] # NoSession
    /\ session' = [session EXCEPT ![s] = NoSession]
    /\ UNCHANGED <<user, workspace, dirs, writer, proc, setups, crashes>>

\* select_workspace: the session and the ownership are checked under the lock.
SelectWorkspace(p, s, w) ==
    /\ p \in Web /\ At(p, "idle") /\ Writable
    /\ Resolves(s)
    /\ w \in Owned(session[s].user)
    /\ session' = [session EXCEPT ![s].workspace = w]
    /\ UNCHANGED <<user, workspace, dirs, writer, proc, setups, crashes>>

-----------------------------------------------------------------------------

Create(p) ==
    \/ \E u \in Users, w \in Workspaces :
         \/ BeginSetup(p, u, w)
         \/ \E role \in {"user", "administrator"} : BeginUser(p, u, role, w)
         \/ \E name \in Names : BeginWorkspace(p, u, name, w)
    \/ Commit(p) \/ Rollback(p) \/ Crash(p)

Administer(p) ==
    \/ \E u \in Users : DisableRead(p, u) \/ Enable(p, u) \/ ResetPassword(p, u)
    \/ DisableWrite(p)

UseSessions(p) ==
    \/ \E u \in Users : Authenticate(p, u)
    \/ SessionRead(p)
    \/ \E s \in Sessions : \/ SessionInsert(p, s) \/ DropSession(p, s)
                           \/ \E w \in Workspaces : SelectWorkspace(p, s, w)

Next == \/ \E p \in Procs : Create(p) \/ Administer(p) \/ UseSessions(p)
        \/ \E s \in Sessions : Expire(s)

Spec == Init /\ [][Next]_vars

-----------------------------------------------------------------------------

\* "Concurrent first-run setup attempts cannot create multiple initial
\* administrators", and whoever came first is an administrator.
OneSetup ==
    /\ Cardinality(setups) <= 1
    /\ Known # {} => \E u \in Known : user[u].role = "administrator"

\* A session's workspace always belongs to the session's user, through
\* creation, selection and revocation by several processes.
SessionOwnsWorkspace ==
    \A s \in Sessions : session[s] # NoSession =>
        session[s].user \in Known /\ session[s].workspace \in Owned(session[s].user)

\* "Do not leave orphan workspace directories": a directory without a row is
\* one that is being created, or was left by a killed process.
Orphans == {w \in dirs : workspace[w] = NoWorkspace}
             \ {proc[p].workspace : p \in {q \in Procs : At(q, "insert")}}
OrphansOnlyFromCrashes == Cardinality(Orphans) <= crashes

\* "The final enabled administrator cannot be disabled."  The code breaks this:
\* two processes that count before either writes disable the last two.
SomeAdminEnabled == Known # {} => EnabledAdmins # {}

\* The last administrator is disabled only by a process that counted before
\* another one disabled an account.
SomeAdminUnlessRace ==
    [][SomeAdminEnabled /\ ~SomeAdminEnabled'
         => \E p \in Procs : At(p, "disable") /\ proc[p].stale]_vars

\* A session of a disabled user, or opened with a password since replaced.
Stale(s) == session[s] # NoSession /\
    (user[session[s].user].disabled \/ session[s].password # user[session[s].user].password)

\* "Disabling a user revokes every existing session ... Password resets revoke
\* existing sessions": whatever the processes do, no step leaves a session that
\* it made stale.  One that is stale when it is inserted, its log-in having read
\* the password before the change, is another matter.
RevokedOnChange ==
    [][\A s \in Sessions : session[s] # NoSession /\ ~Stale(s) => ~Stale(s)']_vars

\* What several processes may never bring about, whatever they interleave.
AccountsSound == OneSetup /\ SessionOwnsWorkspace /\ OrphansOnlyFromCrashes

\* What the steps that take rights away may never leave behind.
ChangesHold == SomeAdminUnlessRace /\ RevokedOnChange
=============================================================================
