------------------------------ MODULE QrPairing ------------------------------
(***************************************************************************)
(* modules/wireless/qr.py: the sessions of QrPairingCoordinator, each with *)
(* a worker thread and callers of cancel(), and the row the device         *)
(* registry keeps (runtimefix360.py, manager340.py) of the one device that *)
(* the sessions and a peer (the event broker, auto-connect) discover.      *)
(*                                                                         *)
(* Time is not counted: a deadline may pass before any turn of the loop it *)
(* ends.  What adb answers is chosen.                                      *)
(***************************************************************************)
EXTENDS Naturals

CONSTANTS Sessions,   \* names of sessions; one is used again once pruned
          Peer        \* the other thread that discovers and auto-connects

\* Assumed by the modules that give the constants values.
QrPairingAssumption == Peer \notin Sessions

VARIABLES status,     \* session.state; "none": not in _sessions
          event,      \* session.cancel_event
          secret,     \* session.secret is not empty
          auto,       \* the auto_connect it was created with
          worker,     \* where the thread running _run is
          canceller,  \* where the caller of cancel is
          paired,     \* adb pair accepted the secret
          row,        \* state of the device's row in wireless_devices
          copy        \* the row's state as a discovery read it

vars == <<status, event, secret, auto, worker, canceller, paired, row, copy>>

Terminal == {"connected", "completed", "failed", "expired", "cancelled"}
Statuses == Terminal \cup {"none", "created", "waiting-for-scan", "service-discovered",
                           "pairing", "paired", "connecting"}
Trusted  == {"paired", "connected", "disconnected"}
RowStates == Trusted \cup {"none", "discovered", "pairing-failed", "connection-failed"}
Actors   == Sessions \cup {Peer}

\* The points of _run between which another thread can be seen.
Points == {"none", "start", "loop", "discover", "save", "missed", "found", "pairing",
           "secret", "adb pair", "accepted", "rejected", "paired", "connecting",
           "locate", "locate save", "connect", "check ok", "check", "online", "offline", "done"}

TypeOK ==
    /\ status \in [Sessions -> Statuses]
    /\ event \in [Sessions -> BOOLEAN]
    /\ secret \in [Sessions -> BOOLEAN]
    /\ auto \in [Sessions -> BOOLEAN]
    /\ worker \in [Actors -> Points]
    /\ canceller \in [Sessions -> {"none", "set", "live", "clear", "done"}]
    /\ paired \in [Sessions -> BOOLEAN]
    /\ row \in RowStates
    /\ copy \in [Actors -> RowStates]

Init ==
    /\ status = [s \in Sessions |-> "none"]
    /\ event = [s \in Sessions |-> FALSE]
    /\ secret = [s \in Sessions |-> FALSE]
    /\ auto = [s \in Sessions |-> FALSE]
    /\ worker = [a \in Actors |-> "none"]
    /\ canceller = [s \in Sessions |-> "none"]
    /\ paired = [s \in Sessions |-> FALSE]
    /\ row = "none"
    /\ copy = [a \in Actors |-> "none"]

session == <<event, auto, canceller>>
device  == <<row, copy>>

-----------------------------------------------------------------------------
(* _save_service: the state read and the row written in two transactions.  *)

\* A discovery that sees the device reads its row.
ReadRow(a, next) ==
    /\ copy' = [copy EXCEPT ![a] = row]
    /\ worker' = [worker EXCEPT ![a] = next]
    /\ UNCHANGED row

\* A trusted state is kept, as it was read.
Selected(a) == IF copy[a] \in Trusted THEN copy[a] ELSE "discovered"

SaveRow(a, next) ==
    /\ row' = Selected(a)
    /\ copy' = [copy EXCEPT ![a] = "none"]
    /\ worker' = [worker EXCEPT ![a] = next]

-----------------------------------------------------------------------------
(* create, _prune, cancel *)

Create(s) ==
    /\ status[s] = "none"
    /\ \E b \in BOOLEAN : auto' = [auto EXCEPT ![s] = b]
    /\ status' = [status EXCEPT ![s] = "created"]
    /\ secret' = [secret EXCEPT ![s] = TRUE]
    /\ worker' = [worker EXCEPT ![s] = "start"]
    /\ UNCHANGED <<event, canceller, paired, device>>

\* Five minutes after its deadline; by then every call of its worker and of
\* its canceller has returned.
Prune(s) ==
    /\ status[s] \in Terminal
    /\ worker[s] = "done" /\ canceller[s] \in {"none", "done"}
    /\ status' = [status EXCEPT ![s] = "none"]
    /\ secret' = [secret EXCEPT ![s] = FALSE]
    /\ event' = [event EXCEPT ![s] = FALSE]
    /\ paired' = [paired EXCEPT ![s] = FALSE]
    /\ worker' = [worker EXCEPT ![s] = "none"]
    /\ canceller' = [canceller EXCEPT ![s] = "none"]
    /\ auto' = [auto EXCEPT ![s] = FALSE]
    /\ UNCHANGED device

CancelSet(s) ==
    /\ status[s] # "none"
    /\ canceller[s] \in {"none", "done"}
    /\ event' = [event EXCEPT ![s] = TRUE]
    /\ canceller' = [canceller EXCEPT ![s] = "set"]
    /\ UNCHANGED <<status, secret, auto, worker, paired, device>>

CancelLook(s) ==
    /\ canceller[s] = "set"
    /\ canceller' = [canceller EXCEPT ![s] = IF status[s] \in Terminal THEN "clear" ELSE "live"]
    /\ UNCHANGED <<status, event, secret, auto, worker, paired, device>>

CancelUpdate(s) ==
    /\ canceller[s] = "live"
    /\ status' = [status EXCEPT ![s] = "cancelled"]
    /\ canceller' = [canceller EXCEPT ![s] = "clear"]
    /\ UNCHANGED <<event, secret, auto, worker, paired, device>>

CancelClear(s) ==
    /\ canceller[s] = "clear"
    /\ secret' = [secret EXCEPT ![s] = FALSE]
    /\ canceller' = [canceller EXCEPT ![s] = "done"]
    /\ UNCHANGED <<status, event, auto, worker, paired, device>>

-----------------------------------------------------------------------------
(* _run *)

\* _update between two points of _run.
Report(s, from, state, to) ==
    /\ worker[s] = from
    /\ status' = [status EXCEPT ![s] = state]
    /\ worker' = [worker EXCEPT ![s] = to]
    /\ UNCHANGED <<secret, paired, session, device>>

\* _update with the status the session ends in, and the finally clause.
Finish(s, from, state) ==
    /\ worker[s] = from
    /\ status' = [status EXCEPT ![s] = state]
    /\ worker' = [worker EXCEPT ![s] = "done"]
    /\ secret' = [secret EXCEPT ![s] = FALSE]
    /\ UNCHANGED <<paired, session, device>>

Move(s, from, to) ==
    /\ worker[s] = from
    /\ worker' = [worker EXCEPT ![s] = to]
    /\ UNCHANGED <<status, secret, paired, session, device>>

Start(s) == Report(s, "start", "waiting-for-scan", "loop")

Expire(s) == Finish(s, "loop", "expired")

CancelSeen(s) == event[s] /\ Finish(s, "loop", "cancelled")

Look(s) == ~event[s] /\ Move(s, "loop", "discover")

\* discover: nothing seen, or the device is; an error of adb ends the session.
Discover(s, from, to, none) ==
    /\ worker[s] = from
    /\ \/ ReadRow(s, to)
       \/ worker' = [worker EXCEPT ![s] = none] /\ UNCHANGED device
    /\ UNCHANGED <<status, secret, paired, session>>

DiscoverPairing(s) == Discover(s, "discover", "save", "loop")

\* The advertised instance is the session's, or another's.
SavePairing(s) ==
    /\ worker[s] = "save"
    /\ \E next \in {"found", "loop"} : SaveRow(s, next)
    /\ UNCHANGED <<status, secret, paired, session>>

Found(s)   == Report(s, "found", "service-discovered", "pairing")
Pairing(s) == Report(s, "pairing", "pairing", "secret")

\* Faulty: whatever is in session.secret goes to adb.
PairAnyway(s) == Move(s, "secret", "adb pair")

\* session.secret is read and pair_secret refuses an empty one.
PairSecret(s) == secret[s] /\ Move(s, "secret", "adb pair")

NoSecret(s) == ~secret[s] /\ Finish(s, "secret", "failed")

\* adb pair, and the row written with its outcome.
AdbPair(s) ==
    /\ worker[s] = "adb pair"
    /\ \E ok \in BOOLEAN :
          /\ paired' = [paired EXCEPT ![s] = ok]
          /\ row' = IF ok THEN "paired" ELSE "pairing-failed"
          /\ worker' = [worker EXCEPT ![s] = IF ok THEN "accepted" ELSE "rejected"]
    /\ UNCHANGED <<status, secret, session, copy>>

Rejected(s) == Finish(s, "rejected", "failed")

Accepted(s) == Report(s, "accepted", "paired", "paired")

PairedOnly(s) == ~auto[s] /\ Finish(s, "paired", "completed")
Connecting(s) == auto[s] /\ Report(s, "paired", "connecting", "connecting")

\* The head of the second loop: the deadline, or the event, ends it.
LocateLate(s)    == Move(s, "connecting", "check")
LocateSeen(s)    == event[s] /\ Move(s, "connecting", "check")
Locate(s)        == ~event[s] /\ Move(s, "connecting", "locate")
DiscoverConnect(s) == Discover(s, "locate", "locate save", "connecting")

SaveConnect(s) ==
    /\ worker[s] = "locate save"
    /\ \E next \in {"connect", "connecting"} : SaveRow(s, next)
    /\ UNCHANGED <<status, secret, paired, session>>

\* The candidates are tried in turn until adb accepts one.
Connect(s) ==
    /\ worker[s] = "connect"
    /\ \/ row' = "connected" /\ worker' = [worker EXCEPT ![s] = "check ok"]
       \/ row' = "connection-failed" /\ worker' = [worker EXCEPT ![s] = "connecting"]
    /\ UNCHANGED <<status, secret, paired, session, copy>>

\* The event is read again after the loop, then the outcome reported.
CancelledLate(s) ==
    \E from \in {"check ok", "check"} : event[s] /\ Finish(s, from, "cancelled")
CheckedOk(s)   == ~event[s] /\ Move(s, "check ok", "online")
Checked(s)     == ~event[s] /\ Move(s, "check", "offline")
Connected(s)   == Finish(s, "online", "connected")
Unconnected(s) == Finish(s, "offline", "completed")

Calls == {"discover", "adb pair", "locate", "connect"}

\* Any call of adb may raise; the handler reports it whatever came before.
Raise(s) == \E from \in Calls : Finish(s, from, "failed")

Run(s) ==
    \/ Start(s) \/ Expire(s) \/ CancelSeen(s) \/ Look(s)
    \/ DiscoverPairing(s) \/ SavePairing(s) \/ Found(s) \/ Pairing(s)
    \/ PairSecret(s) \/ NoSecret(s) \/ AdbPair(s) \/ Rejected(s) \/ Accepted(s)
    \/ PairedOnly(s) \/ Connecting(s) \/ LocateLate(s) \/ LocateSeen(s) \/ Locate(s)
    \/ DiscoverConnect(s) \/ SaveConnect(s) \/ Connect(s)
    \/ CancelledLate(s) \/ CheckedOk(s) \/ Checked(s) \/ Connected(s) \/ Unconnected(s) \/ Raise(s)

-----------------------------------------------------------------------------
(* The peer: the broker's discoveries, and auto_connect's of trusted rows.   *)

Others == <<status, secret, paired, session>>

PeerDiscover ==
    /\ worker[Peer] = "none"
    /\ ReadRow(Peer, "save")
    /\ UNCHANGED Others

\* The broker is finished; auto_connect goes on with a list of trusted rows.
PeerSave ==
    /\ worker[Peer] = "save"
    /\ SaveRow(Peer, IF Selected(Peer) \in Trusted THEN "connect" ELSE "none")
    /\ UNCHANGED Others

PeerConnect ==
    /\ worker[Peer] = "connect"
    /\ worker' = [worker EXCEPT ![Peer] = "none"]
    /\ row' \in {row, "connected", "connection-failed"}
    /\ UNCHANGED <<Others, copy>>

\* forget_wireless_device.
Forget ==
    /\ row # "none"
    /\ row' = "none"
    /\ UNCHANGED <<Others, worker, copy>>

-----------------------------------------------------------------------------

Cancel(s) == CancelLook(s) \/ CancelUpdate(s) \/ CancelClear(s)

Next ==
    \/ \E s \in Sessions : Create(s) \/ Prune(s) \/ CancelSet(s) \/ Cancel(s) \/ Run(s)
    \/ PeerDiscover \/ PeerSave \/ PeerConnect \/ Forget

(***************************************************************************)
(* Threads go on; the deadlines of the two loops pass in the end, however  *)
(* the turns fall (time.monotonic() only grows).  Nobody has to create or  *)
(* cancel anything.                                                        *)
(***************************************************************************)
Fairness ==
    \A s \in Sessions : /\ WF_vars(Run(s)) /\ WF_vars(Cancel(s))
                        /\ SF_vars(Expire(s)) /\ SF_vars(LocateLate(s))

Spec == Init /\ [][Next]_vars /\ Fairness

-----------------------------------------------------------------------------
(* Properties *)

\* A terminal session is not revived, for a browser stops listening at the first
\* terminal status it is sent.  Three things change it: it is pruned; a caller of
\* cancel had looked before it ended; or it was cancelled, and the worker goes on
\* to report what became of the device.
FinalUnlessCancelled ==
    [][\A s \in Sessions : status[s] \in Terminal /\ status'[s] # status[s] =>
          \/ status'[s] = "none"
          \/ canceller[s] = "live" /\ status'[s] = "cancelled"
          \/ status[s] = "cancelled" /\ event[s] /\ worker[s] \notin {"none", "done"}]_vars

\* However the cancels fall among its reports, a session says that the device is
\* paired only if adb accepted its secret.
PairedIsTrue ==
    \A s \in Sessions :
        status[s] \in {"paired", "connecting", "connected", "completed"} => paired[s]

\* Once cancel has returned, or the worker, the secret is gone for good: no worker
\* reads it any more.  A worker that had read it before (qr.py:213) and stands at
\* "adb pair" still pairs the device; nothing calls it back.
SecretGoneOnceCancelled ==
    /\ [](\A s \in Sessions : canceller[s] = "done" \/ worker[s] = "done" => ~secret[s])
    /\ [][\A s \in Sessions : ~secret[s] /\ status[s] # "none" =>
             /\ ~secret'[s]
             /\ worker'[s] = "adb pair" => worker[s] = "adb pair"]_vars

\* A discovery that reads the row of a trusted device leaves it trusted.  One
\* that had read it before the device was trusted takes the trust from it: the
\* window between the read and the upsert, which discoveries and pairings at once
\* do hit, is the only one.
TrustKept ==
    [][(row \in Trusted /\ row' = "discovered") =>
          \E a \in Actors : /\ worker[a] \in {"save", "locate save"} \ {worker'[a]}
                            /\ copy[a] \notin Trusted]_vars

\* A session ends: its thread returns and its status is terminal.
SessionEnds ==
    \A s \in Sessions : status[s] = "created" ~> status[s] \in Terminal /\ worker[s] = "done"
=============================================================================
