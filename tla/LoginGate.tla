----------------------------- MODULE LoginGate -----------------------------
(***************************************************************************)
(* The two forms of the web server that need no session: signing in        *)
(* (webapp370.py auth_login) and creating the first administrator          *)
(* (auth_setup, behind the startup token in remote mode, remotesetup370).  *)
(* Both read a client's list of failed attempts BEFORE they await the form *)
(* and write the list back after it: the event loop runs other requests in *)
(* between.                                                                *)
(*                                                                         *)
(* Time is counted in units; a list keeps stamps for Window units.  Only   *)
(* its length counts, so it is a set, and a stamp is when its attempt      *)
(* began and which failure of the list it is: equal times count apart.     *)
(* failed, since and crowded are history: the stamps of the attempts that  *)
(* were answered as failed, those of them after the client's last right    *)
(* answer, and the lists that two attempts of a client held at once.       *)
(***************************************************************************)
EXTENDS Naturals, FiniteSets

CONSTANTS
    Attempts,    \* requests in flight or answered
    Clients,     \* addresses they come from
    Limit,       \* failures admitted within the window (5 in the code)
    Window,      \* length of the window (60 seconds in the code)
    MaxTime,     \* bound: units of time explored
    MaxFailures  \* bound: forms sent to one door by one client that fail

LoginGateAssumption == Limit \in Nat \ {0} /\ Window \in Nat \ {0} /\ MaxTime \in Nat

VARIABLES now, remote, users, stamps, attempt, failed, since, crowded

loginVars == <<now, remote, users, stamps, attempt, failed, since, crowded>>

Doors == {"login", "setup"}
Lists == Doors \X Clients

Answered == [at |-> "answered"]
Refused == [at |-> "refused"]      \* "Too many attempts. Try again in one minute."

Stamps(time, number) == (0 .. time) \X (0 .. number - 1)

\* Every failure has its own stamp, and the lists hold failures only.
TypeOK ==
    /\ now \in 0 .. MaxTime
    /\ remote \in BOOLEAN /\ users \in BOOLEAN
    /\ failed \in [Lists -> SUBSET ((0 .. MaxTime) \X Nat)]
    /\ \A l \in Lists :
          /\ failed[l] \subseteq Stamps(now, Cardinality(failed[l]))
          /\ stamps[l] \subseteq failed[l] /\ since[l] \subseteq failed[l]
    /\ \A a \in Attempts :
          \/ attempt[a] \in {Answered, Refused}
          \/ /\ attempt[a].at = "form" /\ attempt[a].list \in Lists
             /\ attempt[a].read \subseteq failed[attempt[a].list]
             /\ attempt[a].began \in 0 .. now
    /\ crowded \subseteq Lists
----------------------------------------------------------------------------
Init ==
    /\ now = 0
    /\ remote \in BOOLEAN
    /\ users \in BOOLEAN
    /\ stamps = [l \in Lists |-> {}]
    /\ attempt = [a \in Attempts |-> Answered]
    /\ failed = [l \in Lists |-> {}]
    /\ since = [l \in Lists |-> {}]
    /\ crowded = {}

\* Faulty: attempts are never forgotten.
FreshEver(list) == list

\* The stamps of a list that are younger than the window.
Fresh(list) == {stamp \in list : now - stamp[1] < Window}

Guarded(door) == door = "login" \/ remote

Waiting(l) == {a \in Attempts : attempt[a].at = "form" /\ attempt[a].list = l}

Full(l) == Guarded(l[1]) /\ Cardinality(Fresh(stamps[l])) >= Limit

\* The door is open: signing in needs a user, setting up needs that there is
\* none.  (Otherwise the request is redirected and nothing changes.)
Admitted(a, door) ==
    /\ attempt[a].at # "form"
    /\ users = (door = "login")

Refuse(a, l) ==
    /\ Admitted(a, l[1]) /\ Full(l)
    /\ attempt' = [attempt EXCEPT ![a] = Refused]
    /\ UNCHANGED <<now, remote, users, stamps, failed, since, crowded>>

\* The request goes on to wait for its form, holding the list it read.
Begin(a, l) ==
    /\ Admitted(a, l[1]) /\ ~Full(l)
    /\ Cardinality(failed[l]) + Cardinality(Waiting(l)) < MaxFailures
    /\ attempt' = [attempt EXCEPT ![a] =
          [at |-> "form", list |-> l, read |-> Fresh(stamps[l]), began |-> now]]
    /\ crowded' = IF Waiting(l) = {} THEN crowded ELSE crowded \cup {l}
    /\ UNCHANGED <<now, remote, users, stamps, failed, since>>

Stamp(a) == <<attempt[a].began, Cardinality(failed[attempt[a].list])>>

\* The password or the startup token is wrong: the list that was read, with
\* this attempt's stamp, replaces the client's list.
Fail(a) ==
    /\ attempt[a].at = "form" /\ Guarded(attempt[a].list[1])
    /\ stamps' = [stamps EXCEPT ![attempt[a].list] = attempt[a].read \cup {Stamp(a)}]
    /\ failed' = [failed EXCEPT ![attempt[a].list] = @ \cup {Stamp(a)}]
    /\ since' = [since EXCEPT ![attempt[a].list] = @ \cup {Stamp(a)}]
    /\ attempt' = [attempt EXCEPT ![a] = Answered]
    /\ UNCHANGED <<now, remote, users, crowded>>

\* The secret is right: the client's list goes.  A set-up then makes the
\* administrator, unless there is one by now or the form's values are refused.
Succeed(a) ==
    LET l == attempt[a].list IN
    /\ attempt[a].at = "form"
    /\ stamps' = IF Guarded(l[1]) THEN [stamps EXCEPT ![l] = {}] ELSE stamps
    /\ since' = IF Guarded(l[1]) THEN [since EXCEPT ![l] = {}] ELSE since
    /\ attempt' = [attempt EXCEPT ![a] = Answered]
    /\ users' \in IF users THEN {TRUE} ELSE BOOLEAN
    /\ UNCHANGED <<now, remote, failed, crowded>>

Tick == now < MaxTime /\ now' = now + 1 /\ UNCHANGED <<remote, users, stamps, attempt, failed, since, crowded>>

Next == \/ Tick
        \/ \E a \in Attempts : \/ Fail(a) \/ Succeed(a)
                               \/ \E l \in Lists : Begin(a, l) \/ Refuse(a, l)
----------------------------------------------------------------------------
(* Properties *)

\* The failures of the last minute, as the message to the client counts them.
LastMinute(list) == {stamp \in list : stamp[1] + Window > now}

\* A client gets at most Limit wrong answers within one window, between two
\* right ones, unless it had two forms under way at once: those overwrite each
\* other's list (webapp370.py:255-262, remotesetup370.py:90-104).
LimitUnlessTogether ==
    \A l \in Lists : Guarded(l[1]) /\ l \notin crowded =>
        Cardinality(LastMinute(since[l])) + Cardinality(Waiting(l)) <= Limit

\* Nobody is refused for attempts that are older than the window: whoever is
\* told "too many" did fail Limit times within it (webapp370.py:255-257).
RefusedForCause ==
    [][\A a \in Attempts, l \in Lists : Refuse(a, l) => Cardinality(LastMinute(failed[l])) >= Limit]_loginVars
============================================================================
