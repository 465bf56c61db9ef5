------------------------------ MODULE WebWork ------------------------------
(***************************************************************************)
(* What an authenticated web client may set in motion: requests of the     *)
(* event loop, the operations they hand to asyncio's thread pool, the jobs *)
(* they submit to their workspace's manager, and the sockets that follow   *)
(* one session until it expires.                                           *)
(*                                                                         *)
(*   webapp370.py            middleware, tenant services, jobs, sockets    *)
(*   webauthz370.py          administrator's operations                    *)
(*   websocketexpiry370.py   the deadline of a socket                      *)
(*   webapp.py, webapp340.py the endpoints of the sockets                  *)
(*                                                                         *)
(* A request keeps the session it resolved when it came in; the body is    *)
(* awaited, and a session can select another workspace, expire or be       *)
(* revoked before the handler goes on.  A socket's read is a call in the   *)
(* thread pool; cancelling the socket does not end that call: it ends when *)
(* the device writes a line, for the log (webapp.py:360), or after twenty  *)
(* seconds, for the wireless events (webapp340.py:123).                    *)
(***************************************************************************)
EXTENDS Naturals, FiniteSets

CONSTANTS
    Users, Admins, Workspaces, Owner,  \* Owner[w]: the user a workspace belongs to
    Tokens, Requests, Sockets, Jobs,
    Threads,                           \* size of asyncio's thread pool
    Lifetime, MaxTime,                 \* a session's life; bound: time explored
    MaxLogins                          \* bound: sessions ever created

WebWorkAssumption ==
    /\ Admins \subseteq Users
    /\ Owner \in [Workspaces -> Users]
    /\ \A u \in Users : \E w \in Workspaces : Owner[w] = u
    /\ Threads \in Nat \ {0} /\ Lifetime \in Nat \ {0} /\ MaxTime \in Nat /\ MaxLogins \in Nat

VARIABLES
    now,
    logins,      \* sessions created
    session,     \* rows of auth_sessions
    request,     \* requests between their first and last step
    job,         \* the rows of every workspace's jobs table
    socket,
    effect       \* history: what the last step did, for whom, in which workspace

workVars == <<now, logins, session, request, job, socket, effect>>

NoSession == [user |-> "none"]
Over == [at |-> "over"]
NoJob == [is |-> "none"]
NoEffect == [user |-> "none"]
Closed == [at |-> "closed", kind |-> "none"]

Sessions == [user : Users, workspace : Workspaces, until : 1 .. MaxTime + Lifetime]
Kinds == {"operation", "job", "cancel"}

TypeOK ==
    /\ now \in 0 .. MaxTime /\ logins \in 0 .. MaxLogins
    /\ \A t \in Tokens : session[t] \in {NoSession} \cup Sessions
    /\ \A r \in Requests :
         \/ request[r] = Over
         \/ /\ request[r].at \in {"body", "queued", "running"}
            /\ request[r].token \in Tokens /\ request[r].session \in Sessions
    /\ \A j \in Jobs :
         \/ job[j] = NoJob
         \/ job[j].is \in {"queued", "done", "cancelled"} /\ job[j].home \in Workspaces
    /\ \A s \in Sockets :
         \/ socket[s] = Closed
         \/ /\ socket[s].at \in {"open", "queued", "reading", "left"}
            /\ socket[s].session \in Sessions /\ socket[s].token \in Tokens
    /\ effect = NoEffect \/
         effect \in [user : Users, chosen : Workspaces, home : Workspaces, admin : BOOLEAN]
----------------------------------------------------------------------------
Init ==
    /\ now = 0 /\ logins = 0
    /\ session = [t \in Tokens |-> NoSession]
    /\ request = [r \in Requests |-> Over]
    /\ job = [j \in Jobs |-> NoJob]
    /\ socket = [s \in Sockets |-> Closed]
    /\ effect = NoEffect

Live(t) == session[t] # NoSession /\ session[t].until > now

\* Asyncio's pool: the operations that run and the reads that have not ended,
\* those of sockets that were cancelled included.
Held == {r \in Requests : request[r].at = "running"}
        \cup {s \in Sockets : socket[s].at \in {"reading", "left"}}
Free == Cardinality(Held) < Threads

Quiet == effect' = NoEffect

Effect(who, home, admin) ==
    effect' = [user |-> who.user, chosen |-> who.workspace, home |-> home, admin |-> admin]
----------------------------------------------------------------------------
(* Sessions: another request logs in, selects a workspace, or revokes.     *)

Login(t, w) ==
    /\ session[t] = NoSession /\ logins < MaxLogins
    /\ logins' = logins + 1
    /\ session' = [session EXCEPT ![t] =
          [user |-> Owner[w], workspace |-> w, until |-> now + Lifetime]]
    /\ Quiet /\ UNCHANGED <<now, request, job, socket>>

Select(t, w) ==
    /\ Live(t) /\ Owner[w] = session[t].user
    /\ session' = [session EXCEPT ![t].workspace = w]
    /\ Quiet /\ UNCHANGED <<now, logins, request, job, socket>>

\* Signing out, a password reset, a disabled user.
Revoke(t) ==
    /\ session[t] # NoSession
    /\ session' = [session EXCEPT ![t] = NoSession]
    /\ Quiet /\ UNCHANGED <<now, logins, request, job, socket>>
----------------------------------------------------------------------------
(* Requests *)

\* auth_context_370: the session is resolved once (a dead row goes), then the
\* endpoint's body is awaited.
Arrive(r, t, kind) ==
    /\ request[r] = Over
    /\ IF Live(t)
       THEN /\ request' = [request EXCEPT ![r] =
                 [at |-> "body", token |-> t, session |-> session[t], kind |-> kind, admin |-> FALSE]]
            /\ UNCHANGED session
       ELSE /\ session[t] # NoSession
            /\ session' = [session EXCEPT ![t] = NoSession]
            /\ UNCHANGED request
    /\ Quiet /\ UNCHANGED <<now, logins, job, socket>>

\* The operations of ADMIN_ONLY_ACTIONS, and Lab authority, need the role.
May(r, admin) == admin => request[r].session.user \in Admins

\* /api/execute: checked, then queued for the thread pool with the request's
\* context, which holds the session.
Execute(r, admin) ==
    /\ request[r].at = "body" /\ request[r].kind = "operation" /\ May(r, admin)
    /\ request' = [request EXCEPT ![r].at = "queued", ![r].admin = admin]
    /\ Quiet /\ UNCHANGED <<now, logins, session, job, socket>>

Refuse(r) ==
    /\ request[r].at = "body"
    /\ request' = [request EXCEPT ![r] = Over]
    /\ Quiet /\ UNCHANGED <<now, logins, session, job, socket>>

TakeThread(r) ==
    /\ request[r].at = "queued" /\ Free
    /\ request' = [request EXCEPT ![r].at = "running"]
    /\ Quiet /\ UNCHANGED <<now, logins, session, job, socket>>

\* TenantServiceProxy.current: the service of the session's workspace.
Current(who) == who.workspace

Perform(r) ==
    /\ request[r].at = "running"
    /\ Effect(request[r].session, Current(request[r].session), request[r].admin)
    /\ request' = [request EXCEPT ![r] = Over]
    /\ UNCHANGED <<now, logins, session, job, socket>>

\* jobs_create_370: the row goes to the store of the request's workspace, and
\* the job keeps that workspace's service.
Submit(r, j, admin) ==
    /\ request[r].at = "body" /\ request[r].kind = "job" /\ May(r, admin)
    /\ job[j] = NoJob
    /\ job' = [job EXCEPT ![j] =
          [is |-> "queued", admin |-> admin, by |-> request[r].session,
           home |-> Current(request[r].session)]]
    /\ request' = [request EXCEPT ![r] = Over]
    /\ Quiet /\ UNCHANGED <<now, logins, session, socket>>

\* A thread of the manager's own pool runs the job.
Work(j) ==
    /\ job[j].is = "queued"
    /\ job' = [job EXCEPT ![j] = [is |-> "done", home |-> @.home]]
    /\ Effect(job[j].by, job[j].home, job[j].admin)
    /\ UNCHANGED <<now, logins, session, request, socket>>

\* jobs_cancel_370: the manager of the request's workspace knows its own rows.
Finds(r, j) == job[j] # NoJob /\ job[j].home = request[r].session.workspace

Cancel(r, j) ==
    /\ request[r].at = "body" /\ request[r].kind = "cancel" /\ Finds(r, j)
    /\ IF job[j].is = "queued"
       THEN /\ job' = [job EXCEPT ![j] = [is |-> "cancelled", home |-> @.home]]
            /\ Effect(request[r].session, job[j].home, FALSE)
       ELSE UNCHANGED job /\ Quiet
    /\ request' = [request EXCEPT ![r] = Over]
    /\ UNCHANGED <<now, logins, session, socket>>
----------------------------------------------------------------------------
(* Sockets *)

\* The session is resolved (a dead row goes), its remaining life is the
\* socket's, and the endpoint is accepted with the session as its context.
Open(s, t, kind) ==
    /\ socket[s] = Closed
    /\ IF Live(t)
       THEN /\ socket' = [socket EXCEPT ![s] = [at |-> "open", kind |-> kind, token |-> t,
                                                session |-> session[t]]]
            /\ UNCHANGED session
       ELSE /\ session[t] # NoSession
            /\ session' = [session EXCEPT ![t] = NoSession]
            /\ UNCHANGED socket
    /\ Quiet /\ UNCHANGED <<now, logins, request, job>>

InTime(s) == now < socket[s].session.until

\* The endpoint asks for the next line or event in the thread pool.
Ask(s) ==
    /\ socket[s].at = "open" /\ InTime(s)
    /\ socket' = [socket EXCEPT ![s].at = "queued"]
    /\ Quiet /\ UNCHANGED <<now, logins, session, request, job>>

TakeRead(s) ==
    /\ socket[s].at = "queued" /\ Free
    /\ socket' = [socket EXCEPT ![s].at = "reading"]
    /\ Quiet /\ UNCHANGED <<now, logins, session, request, job>>

\* Faulty: the session's end is looked at before the read only.
FrameLate(s) ==
    /\ socket[s].at = "reading"
    /\ socket' = [socket EXCEPT ![s].at = "open"]
    /\ Quiet /\ UNCHANGED <<now, logins, session, request, job>>

\* The read ends and its answer is sent.  The timer of wait_for is due before
\* a task that is woken later.
Frame(s) ==
    /\ socket[s].at = "reading" /\ InTime(s)
    /\ socket' = [socket EXCEPT ![s].at = "open"]
    /\ Quiet /\ UNCHANGED <<now, logins, session, request, job>>

\* The browser has gone (noticed by the send that follows a read), the log has
\* ended, or the event is terminal.
Leave(s) ==
    /\ socket[s].at = "reading"
    /\ socket' = [socket EXCEPT ![s] = Closed]
    /\ Quiet /\ UNCHANGED <<now, logins, session, request, job>>

\* wait_for cancels the endpoint; a read that has begun keeps its thread.
Expire(s) ==
    /\ socket[s].at \in {"open", "queued", "reading"} /\ ~InTime(s)
    /\ socket' = [socket EXCEPT ![s] = IF @.at = "reading" THEN [@ EXCEPT !.at = "left"] ELSE Closed]
    /\ Quiet /\ UNCHANGED <<now, logins, session, request, job>>

\* The abandoned read ends at last.
Abandoned(s) ==
    /\ socket[s].at = "left"
    /\ socket' = [socket EXCEPT ![s] = Closed]
    /\ Quiet /\ UNCHANGED <<now, logins, session, request, job>>

Tick == now < MaxTime /\ now' = now + 1 /\ Quiet /\ UNCHANGED <<logins, session, request, job, socket>>

ReadEnds(s) == Frame(s) \/ Leave(s) \/ Abandoned(s)

\* A read of the wireless events ends by itself; one of the log needs a line.
EventRead(s) == socket[s].kind = "wireless" /\ ReadEnds(s)

SessionStep == \E t \in Tokens : Revoke(t) \/ \E w \in Workspaces : Login(t, w) \/ Select(t, w)
RequestStep(r) ==
    \/ \E t \in Tokens, kind \in Kinds : Arrive(r, t, kind)
    \/ \E admin \in BOOLEAN : Execute(r, admin) \/ \E j \in Jobs : Submit(r, j, admin)
    \/ \E j \in Jobs : Cancel(r, j)
    \/ Refuse(r) \/ TakeThread(r) \/ Perform(r)
SocketStep(s) ==
    \/ \E t \in Tokens, kind \in {"log", "wireless"} : Open(s, t, kind)
    \/ Ask(s) \/ TakeRead(s) \/ ReadEnds(s) \/ Expire(s)

Next == \/ Tick \/ SessionStep
        \/ \E r \in Requests : RequestStep(r)
        \/ \E s \in Sockets : SocketStep(s)
        \/ \E j \in Jobs : Work(j)
----------------------------------------------------------------------------
(* Properties *)

\* Whatever a session selects or loses meanwhile, an operation or a job is done
\* in the workspace that was active when its request came in, that workspace is
\* the user's own, and an administrator's operation was an administrator's
\* (webapp370.py:64-68, 373-418; webauthz370.py:33-36).
EffectsAtHome ==
    effect # NoEffect =>
        /\ effect.home = effect.chosen /\ Owner[effect.home] = effect.user
        /\ effect.admin => effect.user \in Admins

\* No frame is sent on a socket whose session has expired
\* (websocketexpiry370.py:50-63).
NoFrameAfterExpiry ==
    [][\A s \in Sockets : socket[s].at = "reading" /\ socket'[s].at = "open"
         => now < socket[s].session.until]_workVars

LogReads == {s \in Sockets : socket[s].at \in {"reading", "left"} /\ socket[s].kind = "log"}

\* An operation that was accepted gets its thread and is performed, unless every
\* thread of the pool is held for ever by reads of logs that say nothing
\* (webapp.py:206, 360).
PerformedUnlessSilent ==
    \A r \in Requests :
        request[r].at = "queued" ~> (request[r].at = "over" \/ [](Cardinality(LogReads) = Threads))
============================================================================
