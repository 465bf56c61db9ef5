-------------------------------- MODULE MCWork -------------------------------
(* Instances for TLC of what runs beside a request: a session that pairs a    *)
(* device (QrPairing), the processes of adb (AsyncProc, AdbCommand) and what  *)
(* a web client sets in motion (WebWork).  They share no variable (what adb   *)
(* answers is chosen), so one run explores one after the other: `part` is     *)
(* chosen at the start.                                                       *)
EXTENDS Integers

CONSTANTS Pairings, Peer,
          Processes, MaxConcurrency, QueueSize, PipeSize, OutputLimit, MaxWritten,
          MaxCommands, MaxSlices, MaxLines,
          Users, Admins, Tokens, Requests, Sockets, Jobs, PoolSize, Lifetime,
          MaxTime, MaxLogins

VARIABLES part,
          status, event, secret, auto, worker, canceller, paired, row, copy,
          call, child, pump, queue, kept,
          command, process, cancelEvent, count,
          now, logins, session, request, job, socket, effect

\* Each user has a workspace, and an administrator two.
Workspaces == Users \X {1} \cup Admins \X {2}
OwnerOf == [w \in Workspaces |-> w[1]]

Q == INSTANCE QrPairing WITH Sessions <- Pairings
P == INSTANCE AsyncProc WITH Calls <- Processes, MaxLines <- MaxWritten
C == INSTANCE AdbCommand WITH event <- cancelEvent
W == INSTANCE WebWork WITH Owner <- OwnerOf, Threads <- PoolSize

ASSUME WirelessAssumption ==
    /\ Q!QrPairingAssumption /\ P!AsyncProcAssumption
    /\ C!AdbCommandAssumption /\ W!WebWorkAssumption

pairing    == <<status, event, secret, auto, worker, canceller, paired, row, copy>>
processes  == <<call, child, pump, queue, kept>>
commanding == <<command, process, cancelEvent, count>>
working    == <<now, logins, session, request, job, socket, effect>>
vars       == <<part, pairing, processes, commanding, working>>

Init ==
    /\ part \in {"pairing", "processes", "commanding", "working"}
    /\ Q!Init /\ P!Init /\ C!Init /\ W!Init
    \* what a part that does not run starts from is no matter
    /\ part # "commanding" => cancelEvent = "absent"

\* A step of one part leaves the others alone.
Pairing(A) == part = "pairing" /\ A /\ UNCHANGED <<part, processes, commanding, working>>
Process(A) == part = "processes" /\ A /\ UNCHANGED <<part, pairing, commanding, working>>
Command(A) == part = "commanding" /\ A /\ UNCHANGED <<part, pairing, processes, working>>
Working(A) == part = "working" /\ A /\ UNCHANGED <<part, pairing, processes, commanding>>

Next == Pairing(Q!Next) \/ Process(P!Next) \/ Command(C!Next) \/ Working(W!Next)

\* A worker and the callers of cancel go on; a deadline passes.
PairingFairness ==
    \A s \in Pairings :
       /\ WF_vars(Pairing(Q!Run(s))) /\ WF_vars(Pairing(Q!Cancel(s)))
       /\ SF_vars(Pairing(Q!Expire(s))) /\ SF_vars(Pairing(Q!LocateLate(s)))

\* The event loop turns for every call, one that waits for the semaphore too, and
\* a client's thread goes on.
ProcessFairness ==
    /\ \A c \in Processes : WF_vars(Process(P!Loop(c)))
    /\ WF_vars(Command(C!Client))

\* The pool is first come, first served; a read of the wireless events ends within
\* its twenty seconds.
WorkFairness ==
    /\ \A r \in Requests : SF_vars(Working(W!TakeThread(r))) /\ WF_vars(Working(W!Perform(r)))
    /\ \A s \in Sockets : WF_vars(Working(W!EventRead(s)))

Spec == Init /\ [][Next]_vars /\ PairingFairness /\ ProcessFairness /\ WorkFairness

\* Every variable of every part has its type.
TypeOK == Q!TypeOK /\ P!TypeOK /\ C!TypeOK /\ W!TypeOK

\* A result is true of the process it comes from, and none is left behind.
AnswersAreTrue == P!OnlySupervisedRun /\ P!OkIsWhole /\ C!NoneLeftBehind /\ C!OkWasDone

\* A pairing ends once, what it says of the device is true, its secret is not read
\* after a cancel, and no discovery that reads a trusted row takes the trust.
PairingStands ==
    /\ Q!FinalUnlessCancelled /\ []Q!PairedIsTrue
    /\ Q!SecretGoneOnceCancelled /\ Q!TrustKept

\* What a client sets in motion is done where it was asked, and no frame comes late.
EffectsAtHome == []W!EffectsAtHome /\ W!NoFrameAfterExpiry

\* Whatever was begun ends: a pairing session, a call, a command, an operation,
\* with the exceptions each module states.
WorkEnds ==
    /\ Q!SessionEnds /\ P!EndsWithItsProcess
    /\ C!EndsUnlessSilent /\ W!PerformedUnlessSilent

=============================================================================
