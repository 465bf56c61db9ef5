----------------------------- MODULE WorkProofs -----------------------------
(***************************************************************************)
(* What MCWork checks of the parts that run beside a request, for any      *)
(* sets of sessions, calls, users, requests and sockets and every bound:   *)
(* the ADB client, QR pairing, the process supervisor and the work of web  *)
(* clients; and the same of the specification that runs them all.          *)
(*   WorkTypeCorrect       Spec => []TypeOK                                *)
(*   AnswersAreAlwaysTrue  Spec => []AnswersAreTrue                        *)
(*   PairingAlwaysStands   Spec => PairingStands                           *)
(*   EffectsAreAtHome      Spec => EffectsAtHome                           *)
(***************************************************************************)
EXTENDS MCWork, Sequences, TLAPS

-----------------------------------------------------------------------------
(* The commands of one thread *)

CommandStates ==
    [call : C!Calls, check : BOOLEAN, slices : 0 .. MaxSlices, late : BOOLEAN, blind : BOOLEAN,
     at : {"start", "look", "wait", "stop", "read", "yield", "close", "ended"},
     end : {"none", "ok", "not ok", "raised 124", "raised 126", "raised", "OSError", "no more lines"}]
ChildStates ==
    [is : {"none", "running", "ended"}, code : {0, 1, 143}, failing : BOOLEAN,
     line : BOOLEAN, lines : 0 .. MaxLines]

CommandTypes ==
    /\ command \in CommandStates /\ process \in ChildStates
    /\ cancelEvent \in {"absent", "clear", "set"} /\ count \in 0 .. MaxCommands

\* Where a command is tells what is known of its process and of the event; the
\* event of a call that was not blind is set.
CommandKnows ==
    /\ ~C!At("ended") => command.end = "none"
    /\ C!At("start") => process.is = "none"
    /\ C!At("ended") => process.is \in {"none", "ended"}
    /\ C!At("wait") /\ C!Polls => command.slices > 0
    /\ C!At("wait") => command.blind \/ command.call = "run_binary"
    /\ ~command.blind => cancelEvent = "set"
    /\ command.late => command.blind

\* An ok is that of a process that will not change any more.
OkIsOver == command.end = "ok" => process.is = "ended"

CommandInv == CommandTypes /\ CommandKnows /\ OkIsOver /\ C!OkWasDone

LEMMA CommandFacts ==
    /\ MaxCommands \in Nat /\ MaxSlices \in Nat /\ MaxSlices > 0 /\ MaxLines \in Nat
    /\ C!NoCommand \in CommandStates /\ C!NoProcess \in ChildStates
    /\ C!NoCommand.at = "ended" /\ C!NoCommand.end = "none" /\ C!NoCommand.blind
    /\ ~C!NoCommand.late /\ C!NoProcess.is = "none"
<1>1. MaxCommands \in Nat /\ MaxSlices \in Nat /\ MaxSlices > 0 /\ MaxLines \in Nat
  BY WirelessAssumption DEF C!AdbCommandAssumption
<1>2. C!NoCommand \in CommandStates
  BY <1>1 DEF C!NoCommand, CommandStates, C!Calls
<1>3. C!NoProcess \in ChildStates
  BY <1>1 DEF C!NoProcess, ChildStates
<1> QED BY <1>1, <1>2, <1>3 DEF C!NoCommand, C!NoProcess

LEMMA CommandInitInv == C!Init => CommandInv
BY CommandFacts DEF C!Init, CommandInv, CommandTypes, CommandKnows, OkIsOver, C!OkWasDone, C!At

\* What becomes of the command when it moves, and when it ends.
LEMMA CommandMoves ==
    ASSUME command \in CommandStates
    PROVE  /\ \A step \in {"start", "look", "wait", "stop", "read", "yield", "close"} : C!Goto(step) =>
                /\ command' \in CommandStates /\ command'.at = step
                /\ command'.call = command.call /\ command'.slices = command.slices
                /\ command'.blind = command.blind /\ command'.late = command.late
                /\ command'.end = command.end
           /\ \A e \in {"ok", "not ok", "raised 124", "raised 126", "raised", "OSError", "no more lines"} :
                C!End(e) =>
                  /\ command' \in CommandStates /\ command'.at = "ended" /\ command'.end = e
                  /\ command'.call = command.call
                  /\ command'.blind = command.blind /\ command'.late = command.late
BY DEF CommandStates, C!Goto, C!End

LEMMA CommandStepInv == CommandInv /\ [C!Next]_(C!vars) => CommandInv'
<1> SUFFICES ASSUME CommandInv, [C!Next]_(C!vars) PROVE CommandInv'
  OBVIOUS
<1> USE CommandFacts DEF C!At
<1>0. /\ command \in CommandStates /\ process \in ChildStates
      /\ cancelEvent \in {"absent", "clear", "set"} /\ count \in 0 .. MaxCommands
  BY DEF CommandInv, CommandTypes
<1>01. /\ command.call \in C!Calls /\ command.slices \in 0 .. MaxSlices
       /\ command.blind \in BOOLEAN /\ command.late \in BOOLEAN /\ command.check \in BOOLEAN
  BY <1>0 DEF CommandStates
<1>02. /\ process.is \in {"none", "running", "ended"} /\ process.code \in {0, 1, 143}
       /\ process.failing \in BOOLEAN /\ process.lines \in 0 .. MaxLines /\ process.line \in BOOLEAN
  BY <1>0 DEF ChildStates
<1>1. ASSUME NEW kind \in C!Calls, NEW check \in BOOLEAN, C!Begin(kind, check)
      PROVE  CommandInv'
  <2>1. PICK slices \in 1 .. MaxSlices :
          command' = [C!NoCommand EXCEPT !.call = kind, !.check = check, !.at = "start",
                                         !.slices = slices, !.blind = cancelEvent # "set"]
    BY <1>1 DEF C!Begin
  <2>2. \A b \in BOOLEAN :
          LET c == [C!NoCommand EXCEPT !.call = kind, !.check = check, !.at = "start",
                                       !.slices = slices, !.blind = b]
          IN  c \in CommandStates /\ c.at = "start" /\ c.end = "none" /\ c.blind = b /\ ~c.late
    <3>1. slices \in 0 .. MaxSlices
      OBVIOUS
    <3> QED BY <3>1 DEF CommandStates
  <2>4. (cancelEvent # "set") \in BOOLEAN
    OBVIOUS
  <2>5. /\ command' \in CommandStates /\ command'.at = "start" /\ command'.end = "none"
        /\ command'.blind = (cancelEvent # "set") /\ ~command'.late
    BY <2>1, <2>2, <2>4, Zenon
  <2>3. count' \in 0 .. MaxCommands /\ process' = C!NoProcess /\ cancelEvent' = cancelEvent
    BY <1>0, <1>1 DEF C!Begin
  <2> QED BY <1>0, <2>3, <2>5
            DEF CommandInv, CommandTypes, CommandKnows, OkIsOver, C!OkWasDone
<1>2. CASE C!Start
  <2>1. PICK step \in {"read", "look", "wait"} :
          /\ C!Goto(step) /\ (step = "wait" => ~C!Polls /\ command.call # "stream")
          /\ command.end = "none"
    BY <1>2 DEF C!Start, CommandInv, CommandKnows
  <2>2. /\ command' \in CommandStates /\ command'.at = step /\ command'.end = "none"
        /\ command'.call = command.call /\ command'.blind = command.blind
        /\ command'.late = command.late
    BY <1>0, <2>1, CommandMoves
  <2>3. process' \in ChildStates /\ cancelEvent' = cancelEvent /\ count' = count
    <3>1. [C!NoProcess EXCEPT !.is = "running"] \in ChildStates
      BY DEF ChildStates
    <3> QED BY <1>2, <3>1 DEF C!Start
  <2>4. step = "wait" => ~C!Polls' /\ (command.blind \/ command.call = "run_binary")
    BY <1>01, <2>1, <2>2, <2>3 DEF C!Polls, C!Calls, CommandInv, CommandKnows
  <2> QED BY <1>0, <2>2, <2>3, <2>4
            DEF CommandInv, CommandTypes, CommandKnows, OkIsOver, C!OkWasDone
<1>3. CASE C!StartFails
  <2>1. PICK e \in {"raised 126", "OSError"} : C!End(e)
    BY <1>3 DEF C!StartFails
  <2>2. /\ command' \in CommandStates /\ command'.at = "ended" /\ command'.end = e
        /\ command'.blind = command.blind /\ command'.late = command.late
    BY <1>0, <2>1, CommandMoves
  <2> QED BY <1>0, <1>3, <2>2
            DEF C!StartFails, CommandInv, CommandTypes, CommandKnows, OkIsOver, C!OkWasDone
<1>4. CASE C!Look
  <2>0. process' = process /\ cancelEvent' = cancelEvent /\ count' = count /\ command.end = "none"
    BY <1>4 DEF C!Look, CommandInv, CommandKnows
  <2>1. CASE cancelEvent = "set" \/ command.slices = 0
    <3>1. command' = [command EXCEPT !.at = "stop", !.late = cancelEvent # "set"]
      BY <1>4, <2>1 DEF C!Look, C!Stopping
    <3>3. \A b \in BOOLEAN :
            LET c == [command EXCEPT !.at = "stop", !.late = b]
            IN  /\ c \in CommandStates /\ c.at = "stop" /\ c.end = "none"
                /\ c.late = b /\ c.blind = command.blind
      BY <1>0, <2>0 DEF CommandStates
    <3>4. (cancelEvent # "set") \in BOOLEAN
      OBVIOUS
    <3>2. /\ command' \in CommandStates /\ command'.at = "stop" /\ command'.end = "none"
          /\ command'.late = (cancelEvent # "set") /\ command'.blind = command.blind
      BY <3>1, <3>3, <3>4, Zenon
    <3> QED BY <1>0, <2>0, <3>2
              DEF CommandInv, CommandTypes, CommandKnows, OkIsOver, C!OkWasDone
  <2>2. CASE cancelEvent # "set" /\ command.slices # 0
    <3>1. C!Goto("wait")
      BY <1>4, <2>2 DEF C!Look
    <3>3. command.slices > 0
      BY <1>01, <2>2
    <3>2. /\ command' \in CommandStates /\ command'.at = "wait" /\ command'.end = "none"
          /\ command'.slices = command.slices
          /\ command'.blind = command.blind /\ command'.late = command.late
      BY <1>0, <2>0, <3>1, CommandMoves
    <3> QED BY <1>0, <1>01, <2>0, <2>2, <3>2, <3>3
              DEF CommandInv, CommandTypes, CommandKnows, OkIsOver, C!OkWasDone
  <2> QED BY <2>1, <2>2
<1>5. CASE C!Return
  <2>1. PICK e \in {"ok", "raised", "not ok"} :
          C!End(e) /\ (e = "ok" => process.code = 0 /\ ~process.failing)
    BY <1>5 DEF C!Return, C!Concluded, C!SemanticOk
  <2>2. /\ command' \in CommandStates /\ command'.at = "ended" /\ command'.end = e
        /\ command'.call = command.call
        /\ command'.blind = command.blind /\ command'.late = command.late
    BY <1>0, <2>1, CommandMoves
  <2>3. /\ process' = process /\ process.is = "ended" /\ cancelEvent' = cancelEvent /\ count' = count
        /\ command.blind \/ command.call = "run_binary"
    BY <1>5 DEF C!Return, CommandInv, CommandKnows
  <2> QED BY <1>0, <2>1, <2>2, <2>3
            DEF CommandInv, CommandTypes, CommandKnows, OkIsOver, C!OkWasDone
<1>6. CASE C!WaitMore
  <2>0. cancelEvent' = cancelEvent /\ count' = count /\ command.end = "none" /\ process.is = "running"
    BY <1>6 DEF C!WaitMore, CommandInv, CommandKnows
  <2>1. CASE C!Polls
    <3>1. /\ command' = [command EXCEPT !.at = "look", !.slices = @ - 1]
          /\ process' = process /\ command.slices > 0
      BY <1>6, <2>1 DEF C!WaitMore, CommandInv, CommandKnows
    <3>2. command.slices - 1 \in 0 .. MaxSlices
      BY <1>01, <3>1
    <3>3. /\ command' \in CommandStates /\ command'.at = "look" /\ command'.end = "none"
          /\ command'.blind = command.blind /\ command'.late = command.late
      BY <1>0, <2>0, <3>1, <3>2 DEF CommandStates
    <3> QED BY <1>0, <2>0, <3>1, <3>3
              DEF CommandInv, CommandTypes, CommandKnows, OkIsOver, C!OkWasDone
  <2>2. CASE ~C!Polls
    <3>1. /\ C!End("raised 124")
          /\ process' = [process EXCEPT !.is = "ended", !.code = 143]
      BY <1>6, <2>2 DEF C!WaitMore
    <3>2. /\ command' \in CommandStates /\ command'.at = "ended" /\ command'.end = "raised 124"
          /\ command'.blind = command.blind /\ command'.late = command.late
      BY <1>0, <3>1, CommandMoves
    <3>3. process' \in ChildStates /\ process'.is = "ended"
      BY <1>0, <3>1 DEF ChildStates
    <3> QED BY <1>0, <2>0, <3>2, <3>3
              DEF CommandInv, CommandTypes, CommandKnows, OkIsOver, C!OkWasDone
  <2> QED BY <2>1, <2>2
<1>7. CASE C!Stop
  <2>1. PICK e \in {"ok", "raised", "not ok", "raised 124"} :
          C!End(e) /\ (e = "ok" => command.late /\ command.call = "run_bounded" /\ ~process.failing)
    <3>1. CASE ~command.late
      <4>1. C!Concluded(C!SemanticOk(130))
        BY <1>7, <3>1 DEF C!Stop, C!Stopped
      <4>2. ~C!SemanticOk(130)
        BY DEF C!SemanticOk
      <4> QED BY <4>1, <4>2 DEF C!Concluded
    <3>2. CASE command.late /\ command.call = "run_bounded"
      <4>1. C!Concluded(~process.failing)
        BY <1>7, <3>2 DEF C!Stop, C!Stopped
      <4> QED BY <3>2, <4>1 DEF C!Concluded
    <3>3. CASE command.late /\ command.call # "run_bounded"
      BY <1>7, <3>3 DEF C!Stop, C!Stopped
    <3> QED BY <1>01, <3>1, <3>2, <3>3
  <2>2. /\ command' \in CommandStates /\ command'.at = "ended" /\ command'.end = e
        /\ command'.call = command.call
        /\ command'.blind = command.blind /\ command'.late = command.late
    BY <1>0, <2>1, CommandMoves
  <2>3. /\ process' \in ChildStates /\ process'.is = "ended" /\ process'.failing = process.failing
        /\ cancelEvent' = cancelEvent /\ count' = count
    BY <1>0, <1>7 DEF C!Stop, ChildStates
  <2> QED BY <1>0, <2>1, <2>2, <2>3
            DEF CommandInv, CommandTypes, CommandKnows, OkIsOver, C!OkWasDone
<1>8. CASE C!Read
  <2>0. cancelEvent' = cancelEvent /\ count' = count /\ command.end = "none"
    BY <1>8 DEF C!Read, CommandInv, CommandKnows
  <2>1. CASE process.is = "ended" /\ process' = process /\ C!End("no more lines")
    <3>2. /\ command' \in CommandStates /\ command'.at = "ended" /\ command'.end = "no more lines"
          /\ command'.blind = command.blind /\ command'.late = command.late
      BY <1>0, <2>1, CommandMoves
    <3> QED BY <1>0, <2>0, <2>1, <3>2
              DEF CommandInv, CommandTypes, CommandKnows, OkIsOver, C!OkWasDone
  <2>2. ASSUME NEW step \in {"close", "yield"}, C!Goto(step),
               process' = [process EXCEPT !.line = FALSE]
        PROVE  CommandInv'
    <3>2. /\ command' \in CommandStates /\ command'.at = step /\ command'.end = "none"
          /\ command'.blind = command.blind /\ command'.late = command.late
      BY <1>0, <2>0, <2>2, CommandMoves
    <3>3. process' \in ChildStates
      BY <1>0, <2>2 DEF ChildStates
    <3> QED BY <1>0, <2>0, <3>2, <3>3
              DEF CommandInv, CommandTypes, CommandKnows, OkIsOver, C!OkWasDone
  <2> QED BY <1>8, <2>1, <2>2 DEF C!Read
<1>9. CASE C!Resume
  <2>1. PICK step \in {"read", "close"} : C!Goto(step)
    BY <1>9 DEF C!Resume
  <2>2. /\ command' \in CommandStates /\ command'.at = step /\ command'.end = command.end
        /\ command'.blind = command.blind /\ command'.late = command.late
    BY <1>0, <2>1, CommandMoves
  <2> QED BY <1>0, <1>9, <2>2
            DEF C!Resume, CommandInv, CommandTypes, CommandKnows, OkIsOver, C!OkWasDone
<1>10. CASE C!Close
  <2>1. /\ command' \in CommandStates /\ command'.at = "ended" /\ command'.end = "no more lines"
        /\ command'.blind = command.blind /\ command'.late = command.late
    BY <1>0, <1>10, CommandMoves DEF C!Close
  <2>2. process' \in ChildStates /\ process'.is = "ended"
    BY <1>0, <1>10 DEF C!Close, ChildStates
  <2> QED BY <1>0, <1>10, <2>1, <2>2
            DEF C!Close, CommandInv, CommandTypes, CommandKnows, OkIsOver, C!OkWasDone
\* Only the process, which runs: the command is under way.
<1>11. ASSUME process.is = "running", process' \in ChildStates, process'.is # "none",
              UNCHANGED <<command, cancelEvent, count>>
       PROVE  CommandInv'
  <2>1. ~C!At("ended") /\ ~C!At("start") /\ command.end = "none"
    BY <1>11 DEF CommandInv, CommandKnows
  <2> QED BY <1>0, <1>11, <2>1
            DEF CommandInv, CommandTypes, CommandKnows, OkIsOver, C!OkWasDone, C!Polls
<1>12. CASE C!ProcessWrites
  <2>1. process.lines + 1 \in 0 .. MaxLines /\ process.is = "running"
    BY <1>02, <1>12 DEF C!ProcessWrites
  <2>2. process' \in ChildStates /\ process'.is = "running"
    BY <1>0, <1>12, <2>1 DEF C!ProcessWrites, ChildStates
  <2> QED BY <1>11, <1>12, <2>1, <2>2 DEF C!ProcessWrites
<1>13. CASE C!ProcessComplains
  <2>1. process' \in ChildStates /\ process'.is = "running"
    BY <1>0, <1>13 DEF C!ProcessComplains, ChildStates
  <2> QED BY <1>11, <1>13, <2>1 DEF C!ProcessComplains
<1>14. CASE C!ProcessEnds
  <2>1. process' \in ChildStates /\ process'.is = "ended"
    BY <1>0, <1>14 DEF C!ProcessEnds, ChildStates
  <2> QED BY <1>11, <1>14, <2>1 DEF C!ProcessEnds
<1>15. CASE C!Cancel
  <2>1. cancelEvent = "clear" /\ cancelEvent' = "set" /\ UNCHANGED <<command, process, count>>
    BY <1>15 DEF C!Cancel
  <2> QED BY <1>0, <2>1
            DEF CommandInv, CommandTypes, CommandKnows, OkIsOver, C!OkWasDone, C!Polls
<1>16. CASE UNCHANGED C!vars
  BY <1>16 DEF C!vars, CommandInv, CommandTypes, CommandKnows, OkIsOver, C!OkWasDone, C!Polls
<1> QED BY <1>1, <1>2, <1>3, <1>4, <1>5, <1>6, <1>7, <1>8, <1>9, <1>10, <1>12, <1>13, <1>14,
           <1>15, <1>16 DEF C!Next, C!Client

\* However a command ends, its process has ended; and ok is said of one that
\* was not stopped for a cancelled job.
THEOREM CommandsAreTrue ==
    C!Init /\ [][C!Next]_(C!vars) => [](C!TypeOK /\ C!NoneLeftBehind /\ C!OkWasDone)
<1>1. CommandInv => C!TypeOK /\ C!NoneLeftBehind /\ C!OkWasDone
  BY DEF CommandInv, CommandTypes, CommandStates, ChildStates, CommandKnows, C!TypeOK, C!NoneLeftBehind, C!At
<1> QED BY <1>1, CommandInitInv, CommandStepInv, PTL
-----------------------------------------------------------------------------
(* Pairing sessions *)

LEMMA PeerApart == Peer \notin Pairings
BY WirelessAssumption DEF Q!QrPairingAssumption

PairingTypes ==
    /\ status \in [Pairings -> Q!Statuses] /\ event \in [Pairings -> BOOLEAN]
    /\ secret \in [Pairings -> BOOLEAN] /\ auto \in [Pairings -> BOOLEAN]
    /\ worker \in [Q!Actors -> Q!Points]
    /\ canceller \in [Pairings -> {"none", "set", "live", "clear", "done"}]
    /\ paired \in [Pairings -> BOOLEAN]
    /\ row \in Q!RowStates /\ copy \in [Q!Actors -> Q!RowStates]

\* The points of a worker before adb accepted the secret and after.
Before == {"start", "loop", "discover", "save", "missed", "found", "pairing", "secret",
           "adb pair", "rejected"}
After  == {"accepted", "paired", "connecting", "locate", "locate save", "connect", "check ok",
           "check", "online", "offline"}
Reported == {"paired", "connecting", "connected", "completed"}

\* A worker that goes on has a session that has not ended, unless somebody asked
\* to cancel it; it says paired once the device is; whoever is cancelling has set
\* the event; and the secret is gone once the worker or the canceller is done.
Told(s) ==
    /\ worker[s] \notin {"none", "done"} /\ status[s] \in Q!Terminal =>
          event[s] /\ status[s] = "cancelled"
    /\ worker[s] \in Before => status[s] \notin Reported
    /\ worker[s] \in After \/ status[s] \in Reported => paired[s]
    /\ worker[s] = "none" => status[s] = "none"
    /\ canceller[s] \in {"set", "live", "clear"} => event[s]
    /\ canceller[s] # "none" => status[s] # "none"
    /\ canceller[s] = "done" \/ worker[s] = "done" => ~secret[s]

PairingInv == PairingTypes /\ \A s \in Pairings : Told(s)

\* What a step may do to a session, and to the trusted row.
SessionStep(s) ==
    /\ status[s] \in Q!Terminal /\ status'[s] # status[s] =>
          \/ status'[s] = "none"
          \/ canceller[s] = "live" /\ status'[s] = "cancelled"
          \/ status[s] = "cancelled" /\ event[s] /\ worker[s] \notin {"none", "done"}
    /\ ~secret[s] /\ status[s] # "none" =>
          ~secret'[s] /\ (worker'[s] = "adb pair" => worker[s] = "adb pair")
TrustStep ==
    row \in Q!Trusted /\ row' = "discovered" =>
        \E a \in Q!Actors : /\ worker[a] \in {"save", "locate save"} \ {worker'[a]}
                            /\ copy[a] \notin Q!Trusted
PairingStep == (\A s \in Pairings : SessionStep(s)) /\ TrustStep

LEMMA PairingInitInv == Q!Init => PairingInv
BY PeerApart DEF Q!Init, PairingInv, PairingTypes, Told, Before, After, Reported, Q!Statuses, Q!Actors, Q!Points, Q!RowStates, Q!Terminal

\* A step of one session leaves what is known of the others.
LEMMA OneSession ==
    ASSUME PairingInv, NEW s \in Pairings, PairingTypes',
           \A q \in Pairings \ {s} :
              /\ status'[q] = status[q] /\ event'[q] = event[q] /\ secret'[q] = secret[q]
              /\ worker'[q] = worker[q] /\ canceller'[q] = canceller[q] /\ paired'[q] = paired[q],
           Told(s)', SessionStep(s)
    PROVE  PairingInv' /\ \A q \in Pairings : SessionStep(q)
<1>1. ASSUME NEW q \in Pairings \ {s}
      PROVE  Told(q)' /\ SessionStep(q)
  BY <1>1 DEF PairingInv, Told, SessionStep
<1> QED BY <1>1 DEF PairingInv

\* The three ways a worker reports what it did.
LEMMA WorkerReports ==
    ASSUME PairingInv, NEW s \in Pairings, NEW from \in Q!Points \ {"none", "done"},
           NEW state \in Q!Statuses \ (Q!Terminal \cup {"none"}),
           NEW to \in Q!Points \ {"none", "done", "adb pair"}, Q!Report(s, from, state, to),
           from \in Before => to \in Before /\ state \notin Reported,
           from \in After => to \in After
    PROVE  PairingInv' /\ PairingStep
<1>1. /\ worker[s] = from /\ status' = [status EXCEPT ![s] = state]
      /\ worker' = [worker EXCEPT ![s] = to]
      /\ UNCHANGED <<secret, paired, event, auto, canceller, row, copy>>
  BY DEF Q!Report, Q!session, Q!device
<1>2. PairingTypes /\ Told(s) /\ s \in Q!Actors
  BY DEF PairingInv, Q!Actors
<1>3. status'[s] = state /\ worker'[s] = to
  BY <1>1, <1>2 DEF PairingTypes
<1>8. from \in Before \/ from \in After
  BY DEF Before, After, Q!Points
<1>9. to \in Before => to \notin After /\ state \notin Reported
  BY <1>8 DEF Before, After
<1>10. to \in After \/ state \in Reported => paired[s]
  BY <1>1, <1>2, <1>8, <1>9 DEF Told
<1>4. PairingTypes'
  BY <1>1, <1>2 DEF PairingTypes
<1>5. Told(s)' /\ SessionStep(s)
  BY <1>1, <1>2, <1>3, <1>9, <1>10 DEF Told, SessionStep
<1>6. \A q \in Pairings \ {s} : status'[q] = status[q] /\ worker'[q] = worker[q]
  BY <1>1, <1>2 DEF PairingTypes, Q!Actors
<1>7. TrustStep
  BY <1>1 DEF TrustStep, Q!Trusted
<1> QED BY <1>1, <1>4, <1>5, <1>6, <1>7, OneSession DEF PairingStep

LEMMA WorkerFinishes ==
    ASSUME PairingInv, NEW s \in Pairings, NEW from \in Q!Points \ {"none", "done"},
           NEW state \in Q!Terminal, Q!Finish(s, from, state),
           state \in Reported => from \in After
    PROVE  PairingInv' /\ PairingStep
<1>1. /\ worker[s] = from /\ status' = [status EXCEPT ![s] = state]
      /\ worker' = [worker EXCEPT ![s] = "done"] /\ secret' = [secret EXCEPT ![s] = FALSE]
      /\ UNCHANGED <<paired, event, auto, canceller, row, copy>>
  BY DEF Q!Finish, Q!session, Q!device
<1>2. PairingTypes /\ Told(s) /\ s \in Q!Actors
  BY DEF PairingInv, Q!Actors
<1>3. status'[s] = state /\ worker'[s] = "done" /\ ~secret'[s]
  BY <1>1, <1>2 DEF PairingTypes
<1>4. PairingTypes'
  BY <1>1, <1>2 DEF PairingTypes, Q!Statuses, Q!Points
<1>8. state \in Reported => paired[s]
  BY <1>1, <1>2 DEF Told
<1>5. Told(s)' /\ SessionStep(s)
  BY <1>1, <1>2, <1>3, <1>8 DEF Told, SessionStep, Q!Terminal, Before, After
<1>6. \A q \in Pairings \ {s} :
        status'[q] = status[q] /\ worker'[q] = worker[q] /\ secret'[q] = secret[q]
  BY <1>1, <1>2 DEF PairingTypes, Q!Actors
<1>7. TrustStep
  BY <1>1 DEF TrustStep, Q!Trusted
<1> QED BY <1>1, <1>4, <1>5, <1>6, <1>7, OneSession DEF PairingStep

\* The worker goes on, whatever becomes of the row; the secret is there if it is
\* about to be used.
LEMMA WorkerGoesOn ==
    ASSUME PairingInv, NEW s \in Pairings, worker[s] \notin {"none", "done"},
           NEW to \in Q!Points \ {"none", "done"}, worker' = [worker EXCEPT ![s] = to],
           to = "adb pair" => secret[s], to \in Before => worker[s] \in Before,
           worker[s] \in After => to \in After, to \in After => paired'[s],
           \A q \in Pairings \ {s} : paired'[q] = paired[q],
           UNCHANGED <<status, secret, event, auto, canceller>>,
           paired' \in [Pairings -> BOOLEAN], row' \in Q!RowStates,
           copy' \in [Q!Actors -> Q!RowStates]
    PROVE  PairingInv' /\ \A q \in Pairings : SessionStep(q)
<1>2. PairingTypes /\ Told(s) /\ s \in Q!Actors
  BY DEF PairingInv, Q!Actors
<1>3. worker'[s] = to
  BY <1>2 DEF PairingTypes
<1>4. PairingTypes'
  BY <1>2 DEF PairingTypes
<1>7. worker[s] \in Before \/ worker[s] \in After
  BY <1>2 DEF PairingTypes, Before, After, Q!Points
<1>8. /\ to \in Before => status[s] \notin Reported
      /\ to \in After \/ status[s] \in Reported => paired'[s]
  BY <1>2, <1>7 DEF Told
<1>5. Told(s)' /\ SessionStep(s)
  BY <1>2, <1>3, <1>8 DEF Told, SessionStep
<1>6. \A q \in Pairings \ {s} : worker'[q] = worker[q]
  BY <1>2 DEF PairingTypes, Q!Actors
<1> QED BY <1>4, <1>5, <1>6, OneSession

\* The worker, or the peer, reads the row or writes what it had read.
LEMMA RowRead ==
    ASSUME PairingTypes, NEW a \in Q!Actors, NEW next, Q!ReadRow(a, next)
    PROVE  /\ worker' = [worker EXCEPT ![a] = next] /\ row' \in Q!RowStates
           /\ copy' \in [Q!Actors -> Q!RowStates] /\ TrustStep
BY DEF PairingTypes, Q!ReadRow, TrustStep, Q!Trusted

LEMMA RowSaved ==
    ASSUME PairingTypes, NEW a \in Q!Actors, NEW next, Q!SaveRow(a, next),
           worker[a] \in {"save", "locate save"}, next \notin {"save", "locate save"}
    PROVE  /\ worker' = [worker EXCEPT ![a] = next] /\ row' \in Q!RowStates
           /\ copy' \in [Q!Actors -> Q!RowStates] /\ TrustStep
<1>1. /\ row' = Q!Selected(a) /\ copy' = [copy EXCEPT ![a] = "none"]
      /\ worker' = [worker EXCEPT ![a] = next]
  BY DEF Q!SaveRow
<1>2. worker'[a] = next
  BY <1>1 DEF PairingTypes
<1>3. row' \in Q!RowStates
  BY <1>1 DEF PairingTypes, Q!Selected, Q!RowStates
<1>4. copy' \in [Q!Actors -> Q!RowStates]
  BY <1>1 DEF PairingTypes, Q!RowStates
<1>5. row' = "discovered" => copy[a] \notin Q!Trusted
  BY <1>1 DEF Q!Selected, Q!Trusted
<1>6. TrustStep
  BY <1>2, <1>5 DEF TrustStep
<1> QED BY <1>1, <1>3, <1>4, <1>6

LEMMA WorkerStep ==
    ASSUME PairingInv, NEW s \in Pairings, Q!Run(s)
    PROVE  PairingInv' /\ PairingStep
<1> USE DEF Q!Points, Before, After
<1>0. PairingTypes /\ s \in Q!Actors /\ (worker[s] \in After => paired[s])
  BY DEF PairingInv, Q!Actors, Told
<1>1. ASSUME NEW from \in Q!Points \ {"none", "done"},
             NEW to \in Q!Points \ {"none", "done", "adb pair"}, Q!Move(s, from, to),
             from \in Before <=> to \in Before
      PROVE  PairingInv' /\ PairingStep
  <2>1. /\ worker[s] = from /\ worker' = [worker EXCEPT ![s] = to]
        /\ UNCHANGED <<status, secret, paired, event, auto, canceller, row, copy>>
    BY <1>1 DEF Q!Move, Q!session, Q!device
  <2>3. /\ to \in Before => worker[s] \in Before
        /\ worker[s] \in After => to \in After
        /\ to \in After => paired'[s]
    BY <1>0, <1>1, <2>1
  <2>4. /\ paired' \in [Pairings -> BOOLEAN] /\ row' \in Q!RowStates
        /\ copy' \in [Q!Actors -> Q!RowStates] /\ \A q \in Pairings \ {s} : paired'[q] = paired[q]
    BY <1>0, <2>1 DEF PairingTypes
  <2>2. PairingInv' /\ \A q \in Pairings : SessionStep(q)
    BY <1>1, <2>1, <2>3, <2>4, WorkerGoesOn
  <2> QED BY <2>1, <2>2 DEF PairingStep, TrustStep, Q!Trusted
<1>2. ASSUME NEW from \in Q!Points \ {"none", "done"},
             NEW to \in Q!Points \ {"none", "done", "adb pair"},
             NEW none \in Q!Points \ {"none", "done", "adb pair"},
             Q!Discover(s, from, to, none),
             from \in Before <=> to \in Before, from \in Before <=> none \in Before
      PROVE  PairingInv' /\ PairingStep
  <2>1. worker[s] = from /\ UNCHANGED <<status, secret, paired, event, auto, canceller>>
    BY <1>2 DEF Q!Discover, Q!session
  <2>2. PICK next \in {to, none} :
          /\ worker' = [worker EXCEPT ![s] = next] /\ row' \in Q!RowStates
          /\ copy' \in [Q!Actors -> Q!RowStates] /\ TrustStep
    <3>1. CASE Q!ReadRow(s, to)
      BY <1>0, <3>1, RowRead
    <3>2. CASE worker' = [worker EXCEPT ![s] = none] /\ UNCHANGED <<row, copy>>
      BY <1>0, <3>2 DEF PairingTypes, TrustStep, Q!Trusted
    <3> QED BY <1>2, <3>1, <3>2 DEF Q!Discover, Q!device
  <2>4. /\ next \in Q!Points \ {"none", "done"} /\ next # "adb pair"
        /\ next \in Before => worker[s] \in Before
        /\ worker[s] \in After => next \in After
        /\ next \in After => paired'[s]
    BY <1>0, <1>2, <2>1
  <2>5. paired' \in [Pairings -> BOOLEAN] /\ \A q \in Pairings \ {s} : paired'[q] = paired[q]
    BY <1>0, <2>1 DEF PairingTypes
  <2>3. PairingInv' /\ \A q \in Pairings : SessionStep(q)
    BY <1>2, <2>1, <2>2, <2>4, <2>5, WorkerGoesOn
  <2> QED BY <2>2, <2>3 DEF PairingStep
<1>3. ASSUME worker[s] \in {"save", "locate save"},
             NEW next \in {"found", "loop", "connect", "connecting"}, Q!SaveRow(s, next),
             worker[s] \in Before <=> next \in Before,
             UNCHANGED <<status, secret, paired, Q!session>>
      PROVE  PairingInv' /\ PairingStep
  <2>1. /\ worker' = [worker EXCEPT ![s] = next] /\ row' \in Q!RowStates
        /\ copy' \in [Q!Actors -> Q!RowStates] /\ TrustStep
    BY <1>0, <1>3, RowSaved
  <2>2. PairingInv' /\ \A q \in Pairings : SessionStep(q)
    BY <1>0, <1>3, <2>1, WorkerGoesOn DEF PairingTypes, Q!session
  <2> QED BY <2>1, <2>2 DEF PairingStep
<1>4. CASE Q!Start(s)
  BY <1>4, WorkerReports DEF Q!Start, Q!Statuses, Q!Terminal, Reported
<1>5. CASE Q!Expire(s)
  BY <1>5, WorkerFinishes DEF Q!Expire, Q!Terminal, Reported
<1>6. CASE Q!CancelSeen(s)
  BY <1>6, WorkerFinishes DEF Q!CancelSeen, Q!Terminal, Reported
<1>7. CASE Q!Look(s)
  BY <1>1, <1>7 DEF Q!Look
<1>8. CASE Q!DiscoverPairing(s)
  BY <1>2, <1>8 DEF Q!DiscoverPairing
<1>9. CASE Q!SavePairing(s)
  BY <1>3, <1>9 DEF Q!SavePairing
<1>10. CASE Q!Found(s)
  BY <1>10, WorkerReports DEF Q!Found, Q!Statuses, Q!Terminal, Reported
<1>11. CASE Q!Pairing(s)
  BY <1>11, WorkerReports DEF Q!Pairing, Q!Statuses, Q!Terminal, Reported
<1>12. CASE Q!PairSecret(s)
  <2>1. /\ secret[s] /\ worker[s] = "secret" /\ worker' = [worker EXCEPT ![s] = "adb pair"]
        /\ UNCHANGED <<status, secret, paired, event, auto, canceller, row, copy>>
    BY <1>12 DEF Q!PairSecret, Q!Move, Q!session, Q!device
  <2>2. PairingInv' /\ \A q \in Pairings : SessionStep(q)
    BY <1>0, <2>1, WorkerGoesOn DEF PairingTypes
  <2> QED BY <2>1, <2>2 DEF PairingStep, TrustStep, Q!Trusted
<1>13. CASE Q!NoSecret(s)
  BY <1>13, WorkerFinishes DEF Q!NoSecret, Q!Terminal, Reported
<1>14. CASE Q!AdbPair(s)
  <2>1. PICK ok \in BOOLEAN :
          /\ paired' = [paired EXCEPT ![s] = ok]
          /\ row' = IF ok THEN "paired" ELSE "pairing-failed"
          /\ worker' = [worker EXCEPT ![s] = IF ok THEN "accepted" ELSE "rejected"]
    BY <1>14 DEF Q!AdbPair
  <2>2. PICK next \in {"accepted", "rejected"} :
          worker' = [worker EXCEPT ![s] = next] /\ (next = "accepted" => paired'[s])
    BY <1>0, <2>1 DEF PairingTypes
  <2>3. worker[s] = "adb pair" /\ UNCHANGED <<status, secret, event, auto, canceller, copy>>
    BY <1>14 DEF Q!AdbPair, Q!session
  <2>4. /\ row' \in Q!RowStates /\ row' # "discovered" /\ paired' \in [Pairings -> BOOLEAN]
        /\ \A q \in Pairings \ {s} : paired'[q] = paired[q]
    BY <1>0, <2>1 DEF PairingTypes, Q!RowStates, Q!Trusted
  <2>5. PairingInv' /\ \A q \in Pairings : SessionStep(q)
    BY <1>0, <2>2, <2>3, <2>4, WorkerGoesOn DEF PairingTypes
  <2> QED BY <2>4, <2>5 DEF PairingStep, TrustStep
<1>15. CASE Q!Rejected(s)
  BY <1>15, WorkerFinishes DEF Q!Rejected, Q!Terminal, Reported
<1>16. CASE Q!Accepted(s)
  BY <1>16, WorkerReports DEF Q!Accepted, Q!Statuses, Q!Terminal, Reported
<1>17. CASE Q!PairedOnly(s)
  BY <1>17, WorkerFinishes DEF Q!PairedOnly, Q!Terminal, Reported
<1>18. CASE Q!Connecting(s)
  BY <1>18, WorkerReports DEF Q!Connecting, Q!Statuses, Q!Terminal, Reported
<1>19. CASE Q!LocateLate(s) \/ Q!LocateSeen(s) \/ Q!Locate(s)
  BY <1>1, <1>19 DEF Q!LocateLate, Q!LocateSeen, Q!Locate
<1>20. CASE Q!DiscoverConnect(s)
  BY <1>2, <1>20 DEF Q!DiscoverConnect
<1>21. CASE Q!SaveConnect(s)
  BY <1>3, <1>21 DEF Q!SaveConnect
<1>22. CASE Q!Connect(s)
  <2>1. PICK next \in {"check ok", "connecting"} : worker' = [worker EXCEPT ![s] = next]
    BY <1>22 DEF Q!Connect
  <2>2. /\ worker[s] = "connect" /\ UNCHANGED <<status, secret, paired, event, auto, canceller, copy>>
        /\ row' \in {"connected", "connection-failed"}
    BY <1>22 DEF Q!Connect, Q!session
  <2>3. row' \in Q!RowStates /\ row' # "discovered"
    BY <2>2 DEF Q!RowStates, Q!Trusted
  <2>4. PairingInv' /\ \A q \in Pairings : SessionStep(q)
    BY <1>0, <2>1, <2>2, <2>3, WorkerGoesOn DEF PairingTypes
  <2> QED BY <2>3, <2>4 DEF PairingStep, TrustStep
<1>23. CASE Q!CancelledLate(s)
  BY <1>23, WorkerFinishes DEF Q!CancelledLate, Q!Terminal, Reported
<1>24. CASE Q!CheckedOk(s) \/ Q!Checked(s)
  BY <1>1, <1>24 DEF Q!CheckedOk, Q!Checked
<1>25. CASE Q!Connected(s) \/ Q!Unconnected(s)
  BY <1>25, WorkerFinishes DEF Q!Connected, Q!Unconnected, Q!Terminal, Reported
<1>26. CASE Q!Raise(s)
  BY <1>26, WorkerFinishes DEF Q!Raise, Q!Calls, Q!Terminal, Reported
<1> QED BY <1>4, <1>5, <1>6, <1>7, <1>8, <1>9, <1>10, <1>11, <1>12, <1>13, <1>14, <1>15, <1>16,
           <1>17, <1>18, <1>19, <1>20, <1>21, <1>22, <1>23, <1>24, <1>25, <1>26 DEF Q!Run

\* create, _prune and cancel.
LEMMA SessionChanges ==
    ASSUME PairingInv, NEW s \in Pairings,
           Q!Create(s) \/ Q!Prune(s) \/ Q!CancelSet(s) \/ Q!Cancel(s)
    PROVE  PairingInv' /\ PairingStep
<1>0. PairingTypes /\ Told(s) /\ s \in Q!Actors
  BY DEF PairingInv, Q!Actors
<1>1. ASSUME PairingTypes',
             \A q \in Pairings \ {s} :
                /\ status'[q] = status[q] /\ event'[q] = event[q] /\ secret'[q] = secret[q]
                /\ worker'[q] = worker[q] /\ canceller'[q] = canceller[q] /\ paired'[q] = paired[q],
             Told(s)', SessionStep(s), row' = row
      PROVE  PairingInv' /\ PairingStep
  BY <1>1, OneSession DEF PairingStep, TrustStep, Q!Trusted
<1>2. CASE Q!Create(s)
  <2>1. PICK b \in BOOLEAN : auto' = [auto EXCEPT ![s] = b]
    BY <1>2 DEF Q!Create
  <2>2. /\ status[s] = "none" /\ status' = [status EXCEPT ![s] = "created"]
        /\ secret' = [secret EXCEPT ![s] = TRUE] /\ worker' = [worker EXCEPT ![s] = "start"]
        /\ UNCHANGED <<event, canceller, paired, row, copy>>
    BY <1>2 DEF Q!Create, Q!device
  <2>3. PairingTypes'
    BY <1>0, <2>1, <2>2 DEF PairingTypes, Q!Statuses, Q!Points
  <2>4. status'[s] = "created" /\ worker'[s] = "start"
    BY <1>0, <2>2 DEF PairingTypes
  <2>5. Told(s)' /\ SessionStep(s)
    BY <1>0, <2>2, <2>4 DEF Told, SessionStep, Q!Terminal, Before, After, Reported
  <2> QED BY <1>0, <1>1, <2>2, <2>3, <2>5 DEF PairingTypes
<1>3. CASE Q!Prune(s)
  <2>1. /\ worker[s] = "done" /\ canceller[s] \in {"none", "done"}
        /\ status' = [status EXCEPT ![s] = "none"] /\ secret' = [secret EXCEPT ![s] = FALSE]
        /\ event' = [event EXCEPT ![s] = FALSE] /\ paired' = [paired EXCEPT ![s] = FALSE]
        /\ worker' = [worker EXCEPT ![s] = "none"] /\ auto' = [auto EXCEPT ![s] = FALSE]
        /\ canceller' = [canceller EXCEPT ![s] = "none"] /\ UNCHANGED <<row, copy>>
    BY <1>3 DEF Q!Prune, Q!device
  <2>2. PairingTypes'
    BY <1>0, <2>1 DEF PairingTypes, Q!Statuses, Q!Points
  <2>3. /\ status'[s] = "none" /\ worker'[s] = "none" /\ canceller'[s] = "none"
        /\ ~secret'[s] /\ ~event'[s]
    BY <1>0, <2>1 DEF PairingTypes
  <2>4. Told(s)' /\ SessionStep(s)
    BY <2>3 DEF Told, SessionStep, Q!Terminal, Before, After, Reported
  <2> QED BY <1>0, <1>1, <2>1, <2>2, <2>4 DEF PairingTypes
<1>4. CASE Q!CancelSet(s)
  <2>1. /\ status[s] # "none" /\ event' = [event EXCEPT ![s] = TRUE]
        /\ canceller' = [canceller EXCEPT ![s] = "set"]
        /\ UNCHANGED <<status, secret, auto, worker, paired, row, copy>>
    BY <1>4 DEF Q!CancelSet, Q!device
  <2>2. PairingTypes'
    BY <1>0, <2>1 DEF PairingTypes
  <2>3. canceller'[s] = "set" /\ event'[s]
    BY <1>0, <2>1 DEF PairingTypes
  <2>4. Told(s)' /\ SessionStep(s)
    BY <1>0, <2>1, <2>3 DEF Told, SessionStep
  <2> QED BY <1>0, <1>1, <2>1, <2>2, <2>4 DEF PairingTypes
<1>5. CASE Q!CancelLook(s)
  <2>1. PICK next \in {"clear", "live"} : canceller' = [canceller EXCEPT ![s] = next]
    BY <1>5 DEF Q!CancelLook
  <2>2. canceller[s] = "set" /\ UNCHANGED <<status, event, secret, auto, worker, paired, row, copy>>
    BY <1>5 DEF Q!CancelLook, Q!device
  <2>3. PairingTypes' /\ canceller'[s] = next
    BY <1>0, <2>1, <2>2 DEF PairingTypes
  <2>4. Told(s)' /\ SessionStep(s)
    BY <1>0, <2>2, <2>3 DEF Told, SessionStep
  <2> QED BY <1>0, <1>1, <2>1, <2>2, <2>3, <2>4 DEF PairingTypes
<1>6. CASE Q!CancelUpdate(s)
  <2>1. /\ canceller[s] = "live" /\ status' = [status EXCEPT ![s] = "cancelled"]
        /\ canceller' = [canceller EXCEPT ![s] = "clear"]
        /\ UNCHANGED <<event, secret, auto, worker, paired, row, copy>>
    BY <1>6 DEF Q!CancelUpdate, Q!device
  <2>2. PairingTypes'
    BY <1>0, <2>1 DEF PairingTypes, Q!Statuses, Q!Terminal
  <2>3. status'[s] = "cancelled" /\ canceller'[s] = "clear"
    BY <1>0, <2>1 DEF PairingTypes
  <2>4. Told(s)' /\ SessionStep(s)
    BY <1>0, <2>1, <2>3 DEF Told, SessionStep, Reported
  <2> QED BY <1>0, <1>1, <2>1, <2>2, <2>4 DEF PairingTypes
<1>7. CASE Q!CancelClear(s)
  <2>1. /\ canceller[s] = "clear" /\ secret' = [secret EXCEPT ![s] = FALSE]
        /\ canceller' = [canceller EXCEPT ![s] = "done"]
        /\ UNCHANGED <<status, event, auto, worker, paired, row, copy>>
    BY <1>7 DEF Q!CancelClear, Q!device
  <2>2. PairingTypes'
    BY <1>0, <2>1 DEF PairingTypes
  <2>3. ~secret'[s] /\ canceller'[s] = "done"
    BY <1>0, <2>1 DEF PairingTypes
  <2>4. Told(s)' /\ SessionStep(s)
    BY <1>0, <2>1, <2>3 DEF Told, SessionStep
  <2> QED BY <1>0, <1>1, <2>1, <2>2, <2>4 DEF PairingTypes
<1> QED BY <1>2, <1>3, <1>4, <1>5, <1>6, <1>7 DEF Q!Cancel

\* The peer, and a user who forgets the device.
LEMMA PeerChanges ==
    ASSUME PairingInv,
           Q!PeerDiscover \/ Q!PeerSave \/ Q!PeerConnect \/ Q!Forget
    PROVE  PairingInv' /\ PairingStep
<1>0. PairingTypes /\ Peer \in Q!Actors
  BY DEF PairingInv, Q!Actors
<1>1. ASSUME NEW next \in Q!Points, worker' = [worker EXCEPT ![Peer] = next],
             row' \in Q!RowStates, copy' \in [Q!Actors -> Q!RowStates], TrustStep,
             UNCHANGED Q!Others
      PROVE  PairingInv' /\ PairingStep
  <2>1. UNCHANGED <<status, secret, paired, event, auto, canceller>>
    BY <1>1 DEF Q!Others, Q!session
  <2>2. PairingTypes'
    BY <1>0, <1>1, <2>1 DEF PairingTypes
  <2>3. \A q \in Pairings : worker'[q] = worker[q]
    BY <1>0, <1>1, PeerApart DEF PairingTypes, Q!Actors
  <2>4. \A q \in Pairings : Told(q)' /\ SessionStep(q)
    BY <2>1, <2>3 DEF PairingInv, Told, SessionStep
  <2> QED BY <1>1, <2>2, <2>4 DEF PairingInv, PairingStep
<1>2. CASE Q!PeerDiscover
  <2>1. Q!ReadRow(Peer, "save") /\ UNCHANGED Q!Others
    BY <1>2 DEF Q!PeerDiscover
  <2> QED BY <1>0, <1>1, <2>1, RowRead DEF Q!Points
<1>3. CASE Q!PeerSave
  <2>1. PICK next \in {"connect", "none"} :
          Q!SaveRow(Peer, next) /\ worker[Peer] = "save" /\ UNCHANGED Q!Others
    BY <1>3 DEF Q!PeerSave
  <2>2. /\ worker' = [worker EXCEPT ![Peer] = next] /\ row' \in Q!RowStates
        /\ copy' \in [Q!Actors -> Q!RowStates] /\ TrustStep
    BY <1>0, <2>1, RowSaved
  <2>3. next \in Q!Points
    BY DEF Q!Points
  <2> QED BY <1>1, <2>1, <2>2, <2>3
<1>4. CASE Q!PeerConnect
  <2>1. /\ worker' = [worker EXCEPT ![Peer] = "none"] /\ UNCHANGED <<Q!Others, copy>>
        /\ row' \in {row, "connected", "connection-failed"}
    BY <1>4 DEF Q!PeerConnect
  <2>2. row' \in Q!RowStates /\ copy' \in [Q!Actors -> Q!RowStates]
    BY <1>0, <2>1 DEF PairingTypes, Q!RowStates, Q!Trusted
  <2>3. TrustStep
    BY <2>1 DEF TrustStep, Q!Trusted
  <2> QED BY <1>1, <2>1, <2>2, <2>3 DEF Q!Points
<1>5. CASE Q!Forget
  <2>1. /\ row' = "none" /\ worker' = worker /\ copy' = copy
        /\ UNCHANGED <<status, secret, paired, event, auto, canceller>>
    BY <1>5 DEF Q!Forget, Q!Others, Q!session
  <2>2. PairingTypes'
    BY <1>0, <2>1 DEF PairingTypes, Q!RowStates
  <2>3. \A q \in Pairings : Told(q)' /\ SessionStep(q)
    BY <2>1 DEF PairingInv, Told, SessionStep
  <2> QED BY <2>1, <2>2, <2>3 DEF PairingInv, PairingStep, TrustStep
<1> QED BY <1>2, <1>3, <1>4, <1>5

LEMMA PairingStepInv == PairingInv /\ [Q!Next]_(Q!vars) => PairingInv' /\ (PairingStep \/ UNCHANGED Q!vars)
<1>1. ASSUME PairingInv, UNCHANGED Q!vars PROVE PairingInv'
  BY <1>1 DEF Q!vars, PairingInv, PairingTypes, Told
<1> QED BY <1>1, WorkerStep, SessionChanges, PeerChanges DEF Q!Next

\* A terminal session changes only by a prune, by a cancel that had looked before,
\* or, if it was cancelled, by its worker; what it says of the device is true; no
\* worker reads the secret once cancel has returned, and only one that had read it
\* before still pairs; and a device loses its trust only to a discovery that had
\* read its row before (qr.py _run and cancel, _save_service).
THEOREM PairingsStand == Q!Init /\ [][Q!Next]_(Q!vars) =>
    /\ []Q!TypeOK /\ Q!FinalUnlessCancelled /\ []Q!PairedIsTrue
    /\ Q!SecretGoneOnceCancelled /\ Q!TrustKept
<1>1. PairingInv =>
        /\ Q!TypeOK /\ Q!PairedIsTrue
        /\ \A s \in Pairings : canceller[s] = "done" \/ worker[s] = "done" => ~secret[s]
  BY DEF PairingInv, PairingTypes, Told, Reported, Q!TypeOK, Q!PairedIsTrue
<1>2. PairingInv /\ [Q!Next]_(Q!vars) =>
        [\A s \in Pairings : status[s] \in Q!Terminal /\ status'[s] # status[s] =>
           \/ status'[s] = "none"
           \/ canceller[s] = "live" /\ status'[s] = "cancelled"
           \/ status[s] = "cancelled" /\ event[s] /\ worker[s] \notin {"none", "done"}]_(Q!vars)
  BY PairingStepInv DEF PairingStep, SessionStep
<1>3. PairingInv /\ [Q!Next]_(Q!vars) =>
        [\A s \in Pairings : ~secret[s] /\ status[s] # "none" =>
           /\ ~secret'[s]
           /\ worker'[s] = "adb pair" => worker[s] = "adb pair"]_(Q!vars)
  BY PairingStepInv DEF PairingStep, SessionStep
<1>4. PairingInv /\ [Q!Next]_(Q!vars) =>
        [(row \in Q!Trusted /\ row' = "discovered") =>
            \E a \in Q!Actors : /\ worker[a] \in {"save", "locate save"} \ {worker'[a]}
                                /\ copy[a] \notin Q!Trusted]_(Q!vars)
  BY PairingStepInv DEF PairingStep, TrustStep
<1>5. PairingInv /\ [Q!Next]_(Q!vars) => PairingInv'
  BY PairingStepInv
<1> QED BY <1>1, <1>2, <1>3, <1>4, <1>5, PairingInitInv, PTL
          DEF Q!FinalUnlessCancelled, Q!SecretGoneOnceCancelled, Q!TrustKept
-----------------------------------------------------------------------------
(* The process supervisor *)

CallStates ==
    [at : {"idle", "queued", "start", "consume", "gather", "exit", "terminate", "grace", "done"},
     cause : {"none", "timeout", "cancel"}, ends : 0 .. 2, over : BOOLEAN,
     result : {"none", "ok", "failed", "timed_out", "raised"}]
AsyncChildren ==
    [is : {"none", "running", "ended"}, code : 0 .. 1, open : BOOLEAN, term : BOOLEAN,
     pipe : [P!Streams -> 0 .. PipeSize], written : [P!Streams -> Nat], long : SUBSET P!Streams]
Keeps == [P!Streams -> 0 .. OutputLimit]
Pumps == [P!Streams -> {"none", "read", "put", "end", "done"}]

ProcessTypes ==
    /\ call \in [Processes -> CallStates] /\ child \in [Processes -> AsyncChildren]
    /\ pump \in [Processes -> Pumps]
    /\ queue \in [Processes -> Seq({"line", "end"})]
    /\ \A c \in Processes : Len(queue[c]) <= QueueSize
    /\ kept \in [Processes -> Keeps]
    /\ \A c \in Processes : P!Kept(c) <= OutputLimit

\* The end marks of the pumps: as many are counted or queued as pumps are done.
NoEnd(q) == \A i \in 1 .. Len(q) : q[i] # "end"
OneEnd(q) == \A i, j \in 1 .. Len(q) : q[i] = "end" /\ q[j] = "end" => i = j
EndsMatch(c) ==
    /\ (\A s \in P!Streams : pump[c][s] # "done") => call[c].ends = 0 /\ NoEnd(queue[c])
    /\ (\E s \in P!Streams : pump[c][s] # "done") =>
          /\ call[c].ends <= 1 /\ OneEnd(queue[c])
          /\ call[c].ends = 1 => NoEnd(queue[c])

\* A pump that has seen the end has read all there will ever be, unless a line
\* was over the limit or, on its stream, too long.
ReadAll(c) ==
    \A s \in P!Streams : pump[c][s] \in {"end", "done"} =>
        call[c].over \/ s \in child[c].long \/ (child[c].pipe[s] = 0 /\ ~child[c].open)

\* The lines of a stream are kept or in its pipe, with the same exceptions.
AllKept(c) ==
    \A s \in P!Streams :
        call[c].over \/ s \in child[c].long \/ child[c].written[s] = kept[c][s] + child[c].pipe[s]

\* What holds at each point of a call.
Busy == {"consume", "gather", "exit", "terminate", "grace"}
CallKnows(c) ==
    /\ call[c].at \in {"idle", "queued", "start"} =>
          /\ child[c] = P!NoChild /\ kept[c] = P!NoLines /\ pump[c] = P!NoPumps
          /\ queue[c] = <<>> /\ call[c].ends = 0 /\ ~call[c].over /\ call[c].cause = "none"
    /\ call[c].at # "done" => call[c].result = "none"
    /\ call[c].at \in {"consume", "exit"} => ~child[c].term /\ child[c].is # "none"
    /\ call[c].at = "consume" => call[c].ends < 2
    /\ call[c].at = "exit" => call[c].ends = 2
    /\ call[c].at = "done" =>
          pump[c] = P!NoPumps /\ (P!Alive(c) => call[c].result = "raised" /\ call[c].cause = "none")
    /\ call[c].at \in Busy => EndsMatch(c)
    /\ call[c].at \in {"consume", "exit"} => ReadAll(c) /\ AllKept(c)

WholeIfOk(c) == call[c].result = "ok" =>
    /\ child[c].is = "ended" /\ child[c].code = 0 /\ ~child[c].term
    /\ \A s \in P!Streams :
          kept[c][s] = child[c].written[s] \/ call[c].over \/ s \in child[c].long

ProcessInv == ProcessTypes /\ \A c \in Processes : CallKnows(c) /\ WholeIfOk(c)

LEMMA ProcessFacts ==
    /\ MaxConcurrency \in Nat /\ QueueSize \in Nat /\ QueueSize > 0 /\ PipeSize \in Nat
    /\ OutputLimit \in Nat /\ MaxWritten \in Nat
    /\ P!NewCall \in CallStates /\ P!NoChild \in AsyncChildren /\ P!NoPumps \in Pumps
    /\ P!NewCall.at = "idle" /\ P!NewCall.ends = 0 /\ ~P!NewCall.over
    /\ P!NewCall.result = "none" /\ P!NewCall.cause = "none" /\ P!NoChild.is = "none"
    /\ \A s \in P!Streams : P!NoPumps[s] = "none"
    /\ <<>> \in Seq({"line", "end"}) /\ Len(<<>>) <= QueueSize
    /\ P!NoLines \in Keeps /\ P!NoLines["stdout"] + P!NoLines["stderr"] <= OutputLimit
    /\ P!NoLines \in [P!Streams -> 0 .. PipeSize] /\ P!NoLines \in [P!Streams -> Nat]
    /\ \A s \in P!Streams : P!NoLines[s] = 0
<1>1. /\ MaxConcurrency \in Nat /\ QueueSize \in Nat /\ QueueSize > 0 /\ PipeSize \in Nat
      /\ OutputLimit \in Nat /\ MaxWritten \in Nat
  BY WirelessAssumption DEF P!AsyncProcAssumption
<1>2. P!NewCall \in CallStates
  BY DEF P!NewCall, CallStates
<1>3. /\ P!NoLines \in Keeps /\ P!NoLines["stdout"] + P!NoLines["stderr"] <= OutputLimit
      /\ P!NoLines \in [P!Streams -> 0 .. PipeSize] /\ P!NoLines \in [P!Streams -> Nat]
      /\ \A s \in P!Streams : P!NoLines[s] = 0
  BY <1>1 DEF P!NoLines, Keeps, P!Streams
<1>4. P!NoChild \in AsyncChildren
  BY <1>3 DEF P!NoChild, AsyncChildren
<1>5. P!NoPumps \in Pumps /\ \A s \in P!Streams : P!NoPumps[s] = "none"
  BY DEF P!NoPumps, Pumps
<1>6. Len(<<>>) <= QueueSize
  BY <1>1
<1> QED BY <1>1, <1>2, <1>3, <1>4, <1>5, <1>6 DEF P!NewCall, P!NoChild

LEMMA ProcessInitInv == P!Init => ProcessInv
<1> SUFFICES ASSUME P!Init PROVE ProcessInv
  OBVIOUS
<1>1. /\ call = [c \in Processes |-> P!NewCall] /\ child = [c \in Processes |-> P!NoChild]
      /\ pump = [c \in Processes |-> P!NoPumps] /\ queue = [c \in Processes |-> <<>>]
      /\ kept = [c \in Processes |-> P!NoLines]
  BY DEF P!Init
<1>2. ProcessTypes
  BY <1>1, ProcessFacts DEF ProcessTypes, P!Kept
<1>3. \A c \in Processes : CallKnows(c) /\ WholeIfOk(c)
  BY <1>1, ProcessFacts DEF CallKnows, WholeIfOk, Busy
<1> QED BY <1>2, <1>3 DEF ProcessInv

\* A step of one call leaves the others.
LEMMA OneCall ==
    ASSUME ProcessInv, NEW c \in Processes, ProcessTypes',
           \A d \in Processes \ {c} :
              /\ call'[d] = call[d] /\ child'[d] = child[d] /\ pump'[d] = pump[d]
              /\ queue'[d] = queue[d] /\ kept'[d] = kept[d],
           CallKnows(c)', WholeIfOk(c)'
    PROVE  ProcessInv'
<1>1. ASSUME NEW d \in Processes \ {c}
      PROVE  CallKnows(d)' /\ WholeIfOk(d)'
  BY <1>1 DEF ProcessInv, CallKnows, WholeIfOk, EndsMatch, ReadAll, AllKept, P!Alive
<1> QED BY <1>1 DEF ProcessInv

\* The fields of what belongs to one call.
LEMMA CallTyped ==
    ASSUME ProcessTypes, NEW c \in Processes
    PROVE  /\ call[c] \in CallStates /\ child[c] \in AsyncChildren /\ pump[c] \in Pumps
           /\ queue[c] \in Seq({"line", "end"}) /\ Len(queue[c]) <= QueueSize
           /\ kept[c] \in Keeps /\ P!Kept(c) <= OutputLimit
           /\ call[c].ends \in 0 .. 2 /\ call[c].over \in BOOLEAN
           /\ child[c].is \in {"none", "running", "ended"} /\ child[c].code \in 0 .. 1
           /\ child[c].open \in BOOLEAN /\ child[c].term \in BOOLEAN
           /\ child[c].pipe \in [P!Streams -> 0 .. PipeSize]
           /\ child[c].written \in [P!Streams -> Nat] /\ child[c].long \in SUBSET P!Streams
           /\ \A s \in P!Streams : /\ child[c].pipe[s] \in 0 .. PipeSize /\ child[c].pipe[s] \in Nat
                                   /\ child[c].written[s] \in Nat /\ kept[c][s] \in Nat
<1>1. /\ call[c] \in CallStates /\ child[c] \in AsyncChildren /\ pump[c] \in Pumps
      /\ queue[c] \in Seq({"line", "end"}) /\ Len(queue[c]) <= QueueSize
      /\ kept[c] \in Keeps /\ P!Kept(c) <= OutputLimit
  BY DEF ProcessTypes
<1>2. /\ call[c].ends \in 0 .. 2 /\ call[c].over \in BOOLEAN
      /\ child[c].is \in {"none", "running", "ended"} /\ child[c].code \in 0 .. 1
      /\ child[c].open \in BOOLEAN /\ child[c].term \in BOOLEAN
      /\ child[c].pipe \in [P!Streams -> 0 .. PipeSize]
      /\ child[c].written \in [P!Streams -> Nat] /\ child[c].long \in SUBSET P!Streams
  BY <1>1 DEF CallStates, AsyncChildren
<1>3. \A s \in P!Streams : /\ child[c].pipe[s] \in 0 .. PipeSize /\ child[c].pipe[s] \in Nat
                            /\ child[c].written[s] \in Nat /\ kept[c][s] \in Nat
  BY <1>1, <1>2, ProcessFacts DEF Keeps
<1> QED BY <1>1, <1>2, <1>3

\* One field of a call changes.
LEMMA CallField ==
    ASSUME NEW old \in CallStates
    PROVE  /\ \A step \in {"queued", "start", "consume", "gather", "exit", "terminate", "grace", "done"} :
                LET new == [old EXCEPT !.at = step]
                IN  /\ new \in CallStates /\ new.at = step /\ new.cause = old.cause
                    /\ new.ends = old.ends /\ new.over = old.over /\ new.result = old.result
           /\ \A why \in {"none", "timeout", "cancel"} :
                LET new == [old EXCEPT !.cause = why]
                IN  /\ new \in CallStates /\ new.at = old.at /\ new.cause = why
                    /\ new.ends = old.ends /\ new.over = old.over /\ new.result = old.result
           /\ \A n \in 0 .. 2 :
                LET new == [old EXCEPT !.ends = n]
                IN  /\ new \in CallStates /\ new.at = old.at /\ new.cause = old.cause
                    /\ new.ends = n /\ new.over = old.over /\ new.result = old.result
           /\ \A b \in BOOLEAN :
                LET new == [old EXCEPT !.over = b]
                IN  /\ new \in CallStates /\ new.at = old.at /\ new.cause = old.cause
                    /\ new.ends = old.ends /\ new.over = b /\ new.result = old.result
           /\ \A answer \in {"none", "ok", "failed", "timed_out", "raised"} :
                LET new == [old EXCEPT !.result = answer]
                IN  /\ new \in CallStates /\ new.at = old.at /\ new.cause = old.cause
                    /\ new.ends = old.ends /\ new.over = old.over /\ new.result = answer
BY DEF CallStates

LEMMA CallReturned ==
    ASSUME NEW old \in CallStates,
           NEW result \in {"none", "ok", "failed", "timed_out", "raised"}
    PROVE  LET new == [old EXCEPT !.at = "done", !.result = result, !.ends = 0]
           IN  /\ new \in CallStates /\ new.at = "done" /\ new.result = result
               /\ new.cause = old.cause /\ new.over = old.over
<1> DEFINE gone == [old EXCEPT !.at = "done"]
           told == [gone EXCEPT !.result = result]
           new  == [told EXCEPT !.ends = 0]
<1>0. 0 \in 0 .. 2
  OBVIOUS
<1>1. gone \in CallStates /\ gone.at = "done" /\ gone.cause = old.cause /\ gone.over = old.over
  BY CallField
<1> HIDE DEF gone
<1>2. /\ told \in CallStates /\ told.at = "done" /\ told.result = result
      /\ told.cause = old.cause /\ told.over = old.over
  BY <1>1 DEF CallStates
<1> HIDE DEF told
<1>3. /\ new \in CallStates /\ new.at = "done" /\ new.result = result
      /\ new.cause = old.cause /\ new.over = old.over
  BY <1>0, <1>2 DEF CallStates
<1> QED BY <1>3, Zenon DEF told, gone

\* What a call may answer, given what becomes of its process.
Answers(c, result) ==
    /\ P!Alive(c)' => result = "raised" /\ call[c].cause = "none"
    /\ result = "ok" => /\ child'[c].is = "ended" /\ child'[c].code = 0 /\ ~child'[c].term
                        /\ \A s \in P!Streams : \/ kept[c][s] = child'[c].written[s]
                                                \/ call[c].over \/ s \in child'[c].long

LEMMA CallReturns ==
    ASSUME ProcessInv, NEW c \in Processes,
           NEW result \in {"none", "ok", "failed", "timed_out", "raised"}, P!Return(c, result),
           child' \in [Processes -> AsyncChildren], \A d \in Processes \ {c} : child'[d] = child[d],
           kept' = kept, Answers(c, result)
    PROVE  ProcessInv'
<1>0. ProcessTypes
  BY DEF ProcessInv
<1>1. /\ call' = [call EXCEPT ![c].at = "done", ![c].result = result, ![c].ends = 0]
      /\ pump' = [pump EXCEPT ![c] = P!NoPumps] /\ queue' = [queue EXCEPT ![c] = <<>>]
  BY DEF P!Return
<1>2. PICK r \in CallStates :
        /\ call' = [call EXCEPT ![c] = r]
        /\ r.at = "done" /\ r.result = result /\ r.cause = call[c].cause /\ r.over = call[c].over
  <2> DEFINE new == [call[c] EXCEPT !.at = "done", !.result = result, !.ends = 0]
  <2>1. call[c] \in CallStates
    BY <1>0, CallTyped
  <2>2. call' = [call EXCEPT ![c] = new]
    BY <1>1, Zenon
  <2>3. /\ new \in CallStates /\ new.at = "done" /\ new.result = result
        /\ new.cause = call[c].cause /\ new.over = call[c].over
    BY <2>1, CallReturned, Zenon
  <2> QED BY <2>2, <2>3, Zenon
<1>4. /\ call'[c] = r /\ pump'[c] = P!NoPumps /\ queue'[c] = <<>>
      /\ \A d \in Processes \ {c} : call'[d] = call[d] /\ pump'[d] = pump[d] /\ queue'[d] = queue[d]
  BY <1>0, <1>1, <1>2 DEF ProcessTypes
<1>5. ProcessTypes'
  <2>1. call' \in [Processes -> CallStates] /\ pump' \in [Processes -> Pumps]
    <3>1. P!NoPumps \in Pumps
      BY ProcessFacts
    <3>2. call' \in [Processes -> CallStates]
      BY <1>0, <1>2 DEF ProcessTypes
    <3>3. pump' \in [Processes -> Pumps]
      BY <1>0, <1>1, <3>1 DEF ProcessTypes
    <3> QED BY <3>2, <3>3
  <2>2. queue' \in [Processes -> Seq({"line", "end"})]
    BY <1>0, <1>1, ProcessFacts DEF ProcessTypes
  <2>3. \A d \in Processes : Len(queue'[d]) <= QueueSize
    BY <1>0, <1>4, ProcessFacts DEF ProcessTypes
  <2> QED BY <1>0, <2>1, <2>2, <2>3 DEF ProcessTypes, P!Kept
<1>6. CallKnows(c)'
  BY <1>2, <1>4 DEF CallKnows, Busy, Answers
<1>7. WholeIfOk(c)'
  BY <1>2, <1>4 DEF WholeIfOk, Answers
<1> QED BY <1>4, <1>5, <1>6, <1>7, OneCall

\* A call goes on to a step.
Steps == {"queued", "start", "consume", "gather", "exit", "terminate", "grace", "done"}
LEMMA CallGoes ==
    ASSUME ProcessTypes, NEW c \in Processes, NEW step \in Steps, P!Goto(c, step)
    PROVE  /\ call' \in [Processes -> CallStates]
           /\ call'[c].at = step /\ call'[c].cause = call[c].cause /\ call'[c].ends = call[c].ends
           /\ call'[c].over = call[c].over /\ call'[c].result = call[c].result
           /\ \A d \in Processes \ {c} : call'[d] = call[d]
<1> DEFINE new == [call[c] EXCEPT !.at = step]
<1>1. call \in [Processes -> CallStates] /\ call[c] \in CallStates
  BY DEF ProcessTypes
<1>2. /\ new \in CallStates /\ new.at = step /\ new.cause = call[c].cause
      /\ new.ends = call[c].ends /\ new.over = call[c].over /\ new.result = call[c].result
  BY <1>1 DEF CallStates, Steps
<1>3. call' = [call EXCEPT ![c] = new]
  BY Zenon DEF P!Goto
<1> HIDE DEF new
<1> QED BY <1>1, <1>2, <1>3

\* End marks of a queue that loses its head or gets an item.
LEMMA TailEnds ==
    ASSUME NEW q \in Seq({"line", "end"}), q # <<>>
    PROVE  /\ Tail(q) \in Seq({"line", "end"}) /\ Len(Tail(q)) = Len(q) - 1 /\ Len(q) >= 1
           /\ Head(q) = q[1] /\ Head(q) \in {"line", "end"}
           /\ NoEnd(q) => NoEnd(Tail(q)) /\ Head(q) # "end"
           /\ OneEnd(q) => OneEnd(Tail(q))
           /\ OneEnd(q) /\ Head(q) = "end" => NoEnd(Tail(q))
<1>1. /\ Tail(q) \in Seq({"line", "end"}) /\ Len(Tail(q)) = Len(q) - 1 /\ Len(q) >= 1
      /\ Head(q) = q[1] /\ Len(q) \in Nat /\ \A i \in 1 .. Len(q) - 1 : Tail(q)[i] = q[i + 1]
  OBVIOUS
<1>2. 1 \in 1 .. Len(q) /\ \A i \in 1 .. Len(q) - 1 : i + 1 \in 1 .. Len(q) /\ i + 1 # 1
  BY <1>1
<1>3. Head(q) \in {"line", "end"}
  BY <1>1, <1>2
<1>4. NoEnd(q) => NoEnd(Tail(q)) /\ Head(q) # "end"
  BY <1>1, <1>2 DEF NoEnd
<1>5. OneEnd(q) => OneEnd(Tail(q))
  <2> SUFFICES ASSUME OneEnd(q), NEW i \in 1 .. Len(Tail(q)), NEW j \in 1 .. Len(Tail(q)),
                      Tail(q)[i] = "end", Tail(q)[j] = "end"
               PROVE  i = j
    BY DEF OneEnd
  <2>1. i + 1 = j + 1
    BY <1>1, <1>2 DEF OneEnd
  <2> QED BY <1>1, <2>1
<1>6. OneEnd(q) /\ Head(q) = "end" => NoEnd(Tail(q))
  BY <1>1, <1>2 DEF OneEnd, NoEnd
<1> QED BY <1>1, <1>3, <1>4, <1>5, <1>6

LEMMA AppendEnds ==
    ASSUME NEW q \in Seq({"line", "end"}), NEW item \in {"line", "end"}
    PROVE  /\ Append(q, item) \in Seq({"line", "end"}) /\ Len(Append(q, item)) = Len(q) + 1
           /\ item = "line" /\ NoEnd(q) => NoEnd(Append(q, item))
           /\ item = "line" /\ OneEnd(q) => OneEnd(Append(q, item))
           /\ NoEnd(q) => OneEnd(Append(q, item))
<1>1. /\ Append(q, item) \in Seq({"line", "end"}) /\ Len(Append(q, item)) = Len(q) + 1
      /\ Len(q) \in Nat
  OBVIOUS
<1>2. \A i \in 1 .. Len(q) + 1 :
        /\ i \in 1 .. Len(q) => Append(q, item)[i] = q[i]
        /\ i \notin 1 .. Len(q) => i = Len(q) + 1 /\ Append(q, item)[i] = item
  BY <1>1
<1>3. item = "line" /\ NoEnd(q) => NoEnd(Append(q, item))
  BY <1>1, <1>2 DEF NoEnd
<1>4. item = "line" /\ OneEnd(q) => OneEnd(Append(q, item))
  BY <1>1, <1>2 DEF OneEnd
<1>5. NoEnd(q) => OneEnd(Append(q, item))
  BY <1>1, <1>2 DEF NoEnd, OneEnd
<1> QED BY <1>1, <1>3, <1>4, <1>5

\* What is known of one call.
LEMMA CallIs ==
    ASSUME ProcessInv, NEW c \in Processes
    PROVE  ProcessTypes /\ CallKnows(c) /\ WholeIfOk(c)
BY DEF ProcessInv

\* A call that only goes on to another step keeps its types.
LEMMA GoesAlone ==
    ASSUME ProcessInv, NEW c \in Processes, NEW step \in Steps, P!Goto(c, step),
           UNCHANGED <<child, pump, queue, kept>>, CallKnows(c)'
    PROVE  ProcessInv'
<1>0. ProcessTypes /\ WholeIfOk(c)
  BY CallIs
<1>1. /\ call' \in [Processes -> CallStates]
      /\ call'[c].over = call[c].over /\ call'[c].result = call[c].result
      /\ \A d \in Processes \ {c} : call'[d] = call[d]
  BY <1>0, CallGoes
<1>2. ProcessTypes'
  BY <1>0, <1>1 DEF ProcessTypes, P!Kept
<1>3. WholeIfOk(c)'
  BY <1>0, <1>1 DEF WholeIfOk
<1> QED BY <1>1, <1>2, <1>3, OneCall

LEMMA RequestStep ==
    ASSUME ProcessInv, NEW c \in Processes, P!Request(c)
    PROVE  ProcessInv'
<1>0. /\ ProcessTypes /\ CallKnows(c) /\ call[c].at = "idle" /\ P!Goto(c, "queued")
      /\ UNCHANGED <<child, pump, queue, kept>> /\ "queued" \in Steps
  BY CallIs DEF P!Request, P!At, Steps
<1>1. /\ call'[c].at = "queued" /\ call'[c].cause = call[c].cause /\ call'[c].ends = call[c].ends
      /\ call'[c].over = call[c].over /\ call'[c].result = call[c].result
  BY <1>0, CallGoes
<1>2. CallKnows(c)'
  BY <1>0, <1>1 DEF CallKnows, Busy
<1> QED BY <1>0, <1>2, GoesAlone

LEMMA AcquireStep ==
    ASSUME ProcessInv, NEW c \in Processes, P!Acquire(c)
    PROVE  ProcessInv'
<1>0. /\ ProcessTypes /\ CallKnows(c) /\ call[c].at = "queued" /\ P!Goto(c, "start")
      /\ UNCHANGED <<child, pump, queue, kept>> /\ "start" \in Steps
  BY CallIs DEF P!Acquire, P!At, Steps
<1>1. /\ call'[c].at = "start" /\ call'[c].cause = call[c].cause /\ call'[c].ends = call[c].ends
      /\ call'[c].over = call[c].over /\ call'[c].result = call[c].result
  BY <1>0, CallGoes
<1>2. CallKnows(c)'
  BY <1>0, <1>1 DEF CallKnows, Busy
<1> QED BY <1>0, <1>2, GoesAlone

LEMMA GatherStep ==
    ASSUME ProcessInv, NEW c \in Processes, P!Gather(c)
    PROVE  ProcessInv'
<1>0. /\ ProcessTypes /\ CallKnows(c) /\ call[c].at = "gather" /\ P!Goto(c, "terminate")
      /\ UNCHANGED <<child, pump, queue, kept>> /\ "terminate" \in Steps
  BY CallIs DEF P!Gather, P!At, Steps
<1>1. /\ call'[c].at = "terminate" /\ call'[c].cause = call[c].cause /\ call'[c].ends = call[c].ends
      /\ call'[c].over = call[c].over /\ call'[c].result = call[c].result
  BY <1>0, CallGoes
<1>2. EndsMatch(c)'
  BY <1>0, <1>1 DEF CallKnows, Busy, EndsMatch
<1>3. CallKnows(c)'
  BY <1>0, <1>1, <1>2 DEF CallKnows, Busy
<1> QED BY <1>0, <1>3, GoesAlone

\* The process starts with empty pipes and two pumps.
LEMMA StartStep ==
    ASSUME ProcessInv, NEW c \in Processes, P!Start(c)
    PROVE  ProcessInv'
<1> DEFINE born == [P!NoChild EXCEPT !.is = "running", !.open = TRUE]
           both == [s \in P!Streams |-> "read"]
<1>0. /\ ProcessTypes /\ CallKnows(c) /\ call[c].at = "start" /\ P!Goto(c, "consume")
      /\ child' = [child EXCEPT ![c] = born] /\ pump' = [pump EXCEPT ![c] = both]
      /\ queue' = queue /\ kept' = kept /\ "consume" \in Steps
  BY CallIs DEF P!Start, P!At, Steps
<1>1. /\ call' \in [Processes -> CallStates]
      /\ call'[c].at = "consume" /\ call'[c].cause = call[c].cause /\ call'[c].ends = call[c].ends
      /\ call'[c].over = call[c].over /\ call'[c].result = call[c].result
      /\ \A d \in Processes \ {c} : call'[d] = call[d]
  BY <1>0, CallGoes
<1>3. /\ born \in AsyncChildren /\ born.is = "running" /\ ~born.term /\ born.written = P!NoLines
      /\ born.pipe = P!NoLines
  <2>1. /\ P!NoChild \in AsyncChildren /\ ~P!NoChild.term /\ P!NoChild.written = P!NoLines
        /\ P!NoChild.pipe = P!NoLines
    BY ProcessFacts DEF P!NoChild
  <2> QED BY <2>1 DEF AsyncChildren
<1>4. both \in Pumps /\ \A s \in P!Streams : both[s] = "read"
  BY DEF Pumps
<1>5. \A s \in P!Streams : born.pipe[s] = 0 /\ born.written[s] = 0 /\ P!NoLines[s] = 0
  BY <1>3, ProcessFacts
<1> HIDE DEF born, both
<1>6. child' \in [Processes -> AsyncChildren] /\ pump' \in [Processes -> Pumps]
  BY <1>0, <1>3, <1>4 DEF ProcessTypes
<1>7. /\ child'[c] = born /\ pump'[c] = both
      /\ \A d \in Processes \ {c} : child'[d] = child[d] /\ pump'[d] = pump[d]
  BY <1>0 DEF ProcessTypes
<1>8. ProcessTypes'
  BY <1>0, <1>1, <1>6 DEF ProcessTypes, P!Kept
<1>9. /\ queue'[c] = <<>> /\ kept'[c] = P!NoLines /\ call'[c].ends = 0 /\ ~call'[c].over
      /\ call'[c].result = "none"
  BY <1>0, <1>1 DEF CallKnows
<1>10. EndsMatch(c)'
  BY <1>4, <1>7, <1>9 DEF EndsMatch, NoEnd, OneEnd
<1>11. ReadAll(c)'
  BY <1>4, <1>7 DEF ReadAll
<1>12. AllKept(c)'
  BY <1>5, <1>7, <1>9 DEF AllKept
<1>13. CallKnows(c)'
  BY <1>1, <1>3, <1>7, <1>9, <1>10, <1>11, <1>12 DEF CallKnows, Busy
<1>14. WholeIfOk(c)'
  BY <1>9 DEF WholeIfOk
<1> QED BY <1>0, <1>1, <1>7, <1>8, <1>13, <1>14, OneCall

LEMMA StartRaisesStep ==
    ASSUME ProcessInv, NEW c \in Processes, P!StartRaises(c)
    PROVE  ProcessInv'
<1> DEFINE lost == [P!NoChild EXCEPT !.is = "running"]
<1>0. /\ ProcessTypes /\ CallKnows(c) /\ call[c].at = "start" /\ P!Return(c, "raised")
      /\ kept' = kept /\ (child' = child \/ child' = [child EXCEPT ![c] = lost])
  BY CallIs DEF P!StartRaises, P!At
<1>3. lost \in AsyncChildren
  <2>1. P!NoChild \in AsyncChildren
    BY ProcessFacts
  <2> QED BY <2>1 DEF AsyncChildren
<1> HIDE DEF lost
<1>4. child' \in [Processes -> AsyncChildren] /\ \A d \in Processes \ {c} : child'[d] = child[d]
  BY <1>0, <1>3 DEF ProcessTypes
<1>5. Answers(c, "raised")
  BY <1>0 DEF Answers, CallKnows
<1> QED BY <1>0, <1>4, <1>5, CallReturns

\* process.wait returns: the pumps are done, so that nothing is left in the pipes.
LEMMA FinishStep ==
    ASSUME ProcessInv, NEW c \in Processes, P!Finish(c)
    PROVE  ProcessInv'
<1> DEFINE result == IF child[c].code = 0 THEN "ok" ELSE "failed"
<1>0. /\ ProcessTypes /\ CallKnows(c) /\ call[c].at = "exit" /\ ~P!Alive(c)
      /\ P!Return(c, result) /\ child' = child /\ kept' = kept
  BY CallIs DEF P!Finish, P!At
<1>1. /\ child[c].is = "ended" /\ ~child[c].term /\ call[c].ends = 2
      /\ EndsMatch(c) /\ ReadAll(c) /\ AllKept(c)
  <2>1. child[c].is \in {"none", "running", "ended"}
    BY <1>0, CallTyped
  <2> QED BY <1>0, <2>1 DEF CallKnows, Busy, P!Alive
<1>2. \A s \in P!Streams : pump[c][s] = "done"
  BY <1>1 DEF EndsMatch
<1>3. \A s \in P!Streams : call[c].over \/ s \in child[c].long \/ child[c].pipe[s] = 0
  BY <1>1, <1>2 DEF ReadAll
<1>4. \A s \in P!Streams : kept[c][s] \in Nat /\ child[c].written[s] \in Nat
  BY <1>0, CallTyped
<1>5. \A s \in P!Streams : kept[c][s] = child[c].written[s] \/ call[c].over \/ s \in child[c].long
  BY <1>1, <1>3, <1>4 DEF AllKept
<1>6. Answers(c, result)
  BY <1>0, <1>1, <1>5 DEF Answers, P!Alive
<1>7. result \in {"none", "ok", "failed", "timed_out", "raised"}
  OBVIOUS
<1>8. child' \in [Processes -> AsyncChildren] /\ \A d \in Processes \ {c} : child'[d] = child[d]
  BY <1>0 DEF ProcessTypes
<1> HIDE DEF result
<1> QED BY <1>0, <1>6, <1>7, <1>8, CallReturns

\* What an interrupted call answers.
LEMMA InterruptedAnswers ==
    ASSUME ProcessInv, NEW c \in Processes, P!Interrupted(c),
           child' \in [Processes -> AsyncChildren], \A d \in Processes \ {c} : child'[d] = child[d],
           kept' = kept, ~P!Alive(c)'
    PROVE  ProcessInv'
<1> DEFINE result == IF call[c].cause = "timeout" THEN "timed_out" ELSE "raised"
<1>1. P!Return(c, result)
  BY DEF P!Interrupted
<1>2. result \in {"none", "ok", "failed", "timed_out", "raised"} /\ result # "ok"
  OBVIOUS
<1> HIDE DEF result
<1>3. Answers(c, result)
  BY <1>2 DEF Answers
<1> QED BY <1>1, <1>2, <1>3, CallReturns

LEMMA TerminateStep ==
    ASSUME ProcessInv, NEW c \in Processes, P!Terminate(c)
    PROVE  ProcessInv'
<1>0. /\ ProcessTypes /\ CallKnows(c) /\ call[c].at = "terminate" /\ kept' = kept
      /\ "grace" \in Steps /\ child[c] \in AsyncChildren
  BY CallIs, CallTyped DEF P!Terminate, P!At, Steps
<1>1. CASE P!Alive(c)
  <2> DEFINE told == [child[c] EXCEPT !.term = TRUE]
  <2>1. /\ child' = [child EXCEPT ![c].term = TRUE] /\ P!Goto(c, "grace")
        /\ pump' = pump /\ queue' = queue
    BY <1>1 DEF P!Terminate
  <2>2. told \in AsyncChildren
    BY <1>0 DEF AsyncChildren
  <2>3. child' = [child EXCEPT ![c] = told]
    BY <2>1, Zenon
  <2> HIDE DEF told
  <2>4. child' \in [Processes -> AsyncChildren] /\ \A d \in Processes \ {c} : child'[d] = child[d]
    BY <1>0, <2>2, <2>3 DEF ProcessTypes
  <2>5. /\ call' \in [Processes -> CallStates]
        /\ call'[c].at = "grace" /\ call'[c].ends = call[c].ends
        /\ call'[c].over = call[c].over /\ call'[c].result = call[c].result
        /\ \A d \in Processes \ {c} : call'[d] = call[d]
    BY <1>0, <2>1, CallGoes
  <2>6. ProcessTypes'
    BY <1>0, <2>1, <2>4, <2>5 DEF ProcessTypes, P!Kept
  <2>7. EndsMatch(c)'
    BY <1>0, <2>1, <2>5 DEF CallKnows, Busy, EndsMatch
  <2>8. CallKnows(c)'
    BY <1>0, <2>5, <2>7 DEF CallKnows, Busy
  <2>9. WholeIfOk(c)'
    BY <1>0, <2>5 DEF CallKnows, WholeIfOk
  <2> QED BY <1>0, <2>1, <2>4, <2>5, <2>6, <2>8, <2>9, OneCall
<1>2. CASE ~P!Alive(c)
  <2>1. P!Interrupted(c) /\ child' = child
    BY <1>2 DEF P!Terminate
  <2>2. ~P!Alive(c)' /\ child' \in [Processes -> AsyncChildren]
    BY <1>0, <1>2, <2>1 DEF P!Alive, ProcessTypes
  <2> QED BY <1>0, <2>1, <2>2, InterruptedAnswers
<1> QED BY <1>1, <1>2

LEMMA GraceStep ==
    ASSUME ProcessInv, NEW c \in Processes, P!Grace(c)
    PROVE  ProcessInv'
<1> DEFINE code == IF P!Alive(c) THEN 1 ELSE child[c].code
           dead == [child[c] EXCEPT !.is = "ended", !.code = code, !.open = FALSE, !.pipe = P!NoLines]
<1>0. /\ ProcessTypes /\ kept' = kept /\ P!Interrupted(c)
      /\ child[c] \in AsyncChildren /\ child[c].code \in 0 .. 1
  BY CallIs, CallTyped DEF P!Grace
<1>1. child' = [child EXCEPT ![c] = dead]
  BY Zenon DEF P!Grace
<1>2. code \in 0 .. 1
  BY <1>0
<1>3. P!NoLines \in [P!Streams -> 0 .. PipeSize]
  BY ProcessFacts
<1> HIDE DEF code
<1>4. dead \in AsyncChildren /\ dead.is = "ended"
  BY <1>0, <1>2, <1>3 DEF AsyncChildren
<1> HIDE DEF dead
<1>5. /\ child' \in [Processes -> AsyncChildren] /\ child'[c] = dead
      /\ \A d \in Processes \ {c} : child'[d] = child[d]
  BY <1>0, <1>1, <1>4 DEF ProcessTypes
<1>6. ~P!Alive(c)'
  BY <1>4, <1>5 DEF P!Alive
<1> QED BY <1>0, <1>5, <1>6, InterruptedAnswers

\* The consumer takes an item; with the second end mark both pumps are done.
LEMMA ConsumeStep ==
    ASSUME ProcessInv, NEW c \in Processes, P!Consume(c)
    PROVE  ProcessInv'
<1>0. /\ ProcessTypes /\ CallKnows(c) /\ WholeIfOk(c) /\ call[c].at = "consume" /\ queue[c] # <<>>
      /\ queue' = [queue EXCEPT ![c] = Tail(queue[c])]
      /\ child' = child /\ pump' = pump /\ kept' = kept
  BY CallIs DEF P!Consume, P!At
<1>1. /\ queue[c] \in Seq({"line", "end"}) /\ Len(queue[c]) <= QueueSize
      /\ call[c] \in CallStates /\ call[c].ends \in 0 .. 2 /\ call[c].ends < 2
      /\ EndsMatch(c) /\ ReadAll(c) /\ AllKept(c)
      /\ call[c].result = "none" /\ ~child[c].term /\ child[c].is # "none"
  BY <1>0, CallTyped DEF CallKnows, Busy
<1>2. /\ Tail(queue[c]) \in Seq({"line", "end"}) /\ Len(Tail(queue[c])) = Len(queue[c]) - 1
      /\ Len(queue[c]) \in Nat /\ Head(queue[c]) \in {"line", "end"}
      /\ NoEnd(queue[c]) => NoEnd(Tail(queue[c])) /\ Head(queue[c]) # "end"
      /\ OneEnd(queue[c]) => OneEnd(Tail(queue[c]))
      /\ OneEnd(queue[c]) /\ Head(queue[c]) = "end" => NoEnd(Tail(queue[c]))
  BY <1>0, <1>1, TailEnds
<1>3. /\ queue' \in [Processes -> Seq({"line", "end"})] /\ queue'[c] = Tail(queue[c])
      /\ \A d \in Processes \ {c} : queue'[d] = queue[d]
  BY <1>0, <1>2 DEF ProcessTypes
<1>4. \A d \in Processes : Len(queue'[d]) <= QueueSize
  BY <1>0, <1>1, <1>2, <1>3, ProcessFacts DEF ProcessTypes
<1>5. PICK r \in CallStates :
        /\ call' = [call EXCEPT ![c] = r]
        /\ r.over = call[c].over /\ r.result = "none" /\ r.cause = call[c].cause
        /\ Head(queue[c]) = "line" => r.ends = call[c].ends /\ r.at = "consume"
        /\ Head(queue[c]) # "line" /\ call[c].ends = 0 => r.ends = 1 /\ r.at = "consume"
        /\ Head(queue[c]) # "line" /\ call[c].ends # 0 => call[c].ends = 1 /\ r.ends = 2 /\ r.at = "exit"
  <2>1. CASE Head(queue[c]) = "line"
    <3>1. call' = call
      BY <2>1 DEF P!Consume
    <3>2. call' = [call EXCEPT ![c] = call[c]]
      BY <1>0, <3>1 DEF ProcessTypes
    <3> QED BY <1>0, <1>1, <2>1, <3>2
  <2>2. CASE Head(queue[c]) # "line"
    <3> DEFINE n == call[c].ends + 1
               next == IF call[c].ends = 1 THEN "exit" ELSE call[c].at
               r == [call[c] EXCEPT !.ends = n, !.at = next]
    <3>1. call' = [call EXCEPT ![c].ends = @ + 1, ![c].at = IF call[c].ends = 1 THEN "exit" ELSE @]
      BY <2>2 DEF P!Consume
    <3>2. call' = [call EXCEPT ![c] = r]
      BY <1>0, <1>1, <3>1 DEF ProcessTypes, CallStates
    <3>3. call[c].ends = 0 \/ call[c].ends = 1
      BY <1>1
    <3>4. /\ call[c].ends = 0 => n = 1 /\ next = "consume"
          /\ call[c].ends = 1 => n = 2 /\ next = "exit"
      BY <1>0
    <3>5. n \in 0 .. 2 /\ next \in {"consume", "exit"}
      BY <3>3, <3>4
    <3> HIDE DEF n, next
    <3>6. /\ r \in CallStates /\ r.ends = n /\ r.at = next /\ r.over = call[c].over
          /\ r.result = call[c].result /\ r.cause = call[c].cause
      BY <1>1, <3>5 DEF CallStates
    <3> HIDE DEF r
    <3>7. /\ Head(queue[c]) # "line" /\ call[c].ends = 0 => r.ends = 1 /\ r.at = "consume"
          /\ Head(queue[c]) # "line" /\ call[c].ends # 0 =>
                call[c].ends = 1 /\ r.ends = 2 /\ r.at = "exit"
      BY <3>3, <3>4, <3>6
    <3> QED BY <1>1, <2>2, <3>2, <3>6, <3>7
  <2> QED BY <2>1, <2>2
<1>6. /\ call' \in [Processes -> CallStates] /\ call'[c] = r
      /\ \A d \in Processes \ {c} : call'[d] = call[d]
  BY <1>0, <1>5 DEF ProcessTypes
<1>7. ProcessTypes'
  BY <1>0, <1>3, <1>4, <1>6 DEF ProcessTypes, P!Kept
<1>8. EndsMatch(c)'
  <2>1. CASE Head(queue[c]) = "line"
    BY <1>0, <1>1, <1>2, <1>3, <1>5, <1>6, <2>1 DEF EndsMatch
  <2>2. CASE Head(queue[c]) # "line"
    <3>1. Head(queue[c]) = "end" /\ ~NoEnd(queue[c])
      BY <1>2, <2>2
    <3>2. ~ \A s \in P!Streams : pump[c][s] # "done"
      BY <1>1, <3>1 DEF EndsMatch
    <3>3. (\E s \in P!Streams : pump[c][s] # "done") => call[c].ends = 0 /\ NoEnd(Tail(queue[c]))
                                                        /\ OneEnd(Tail(queue[c]))
      BY <1>1, <1>2, <3>1 DEF EndsMatch
    <3> QED BY <1>0, <1>3, <1>5, <1>6, <2>2, <3>2, <3>3 DEF EndsMatch
  <2> QED BY <2>1, <2>2
<1>9. ReadAll(c)' /\ AllKept(c)'
  BY <1>0, <1>1, <1>5, <1>6 DEF ReadAll, AllKept, P!Alive
<1>10. (r.at = "consume" /\ r.ends < 2) \/ (r.at = "exit" /\ r.ends = 2)
  <2>1. call[c].ends < 2 /\ (Head(queue[c]) = "line" \/ Head(queue[c]) # "line")
    BY <1>1
  <2>2. CASE Head(queue[c]) = "line"
    BY <1>5, <2>1, <2>2
  <2>3. CASE Head(queue[c]) # "line" /\ call[c].ends = 0
    BY <1>5, <2>3
  <2>4. CASE Head(queue[c]) # "line" /\ call[c].ends # 0
    BY <1>5, <2>4
  <2> QED BY <2>1, <2>2, <2>3, <2>4
<1>11. CallKnows(c)'
  BY <1>0, <1>1, <1>5, <1>6, <1>8, <1>9, <1>10 DEF CallKnows, Busy
<1>12. WholeIfOk(c)'
  BY <1>5, <1>6 DEF WholeIfOk
<1> QED BY <1>0, <1>3, <1>6, <1>7, <1>11, <1>12, OneCall

LEMMA InterruptStep ==
    ASSUME ProcessInv, NEW c \in Processes, NEW cause \in {"timeout", "cancel"}, P!Interrupt(c, cause)
    PROVE  ProcessInv'
<1> DEFINE next == IF call[c].at = "consume" THEN "gather" ELSE "terminate"
           r == [call[c] EXCEPT !.cause = cause, !.at = next]
<1>0. /\ ProcessTypes /\ CallKnows(c) /\ WholeIfOk(c) /\ call[c].at \in {"consume", "exit"}
      /\ call' = [call EXCEPT ![c].cause = cause,
                              ![c].at = IF @ = "consume" THEN "gather" ELSE "terminate"]
      /\ child' = child /\ pump' = pump /\ queue' = queue /\ kept' = kept
  BY CallIs DEF P!Interrupt
<1>1. call[c] \in CallStates
  BY <1>0, CallTyped
<1>2. next \in {"gather", "terminate"}
  OBVIOUS
<1>3. call' = [call EXCEPT ![c] = r]
  BY <1>0, <1>1 DEF ProcessTypes, CallStates
<1> HIDE DEF next
<1>4. /\ r \in CallStates /\ r.at = next /\ r.ends = call[c].ends
      /\ r.over = call[c].over /\ r.result = call[c].result
  BY <1>1, <1>2 DEF CallStates
<1> HIDE DEF r
<1>5. /\ call' \in [Processes -> CallStates] /\ call'[c] = r
      /\ \A d \in Processes \ {c} : call'[d] = call[d]
  BY <1>0, <1>3, <1>4 DEF ProcessTypes
<1>6. ProcessTypes'
  BY <1>0, <1>5 DEF ProcessTypes, P!Kept
<1>7. EndsMatch(c)'
  BY <1>0, <1>4, <1>5 DEF CallKnows, Busy, EndsMatch
<1>8. CallKnows(c)'
  BY <1>0, <1>2, <1>4, <1>5, <1>7 DEF CallKnows, Busy
<1>9. WholeIfOk(c)'
  BY <1>0, <1>4, <1>5 DEF CallKnows, WholeIfOk
<1> QED BY <1>0, <1>5, <1>6, <1>8, <1>9, OneCall

LEMMA GiveUpStep ==
    ASSUME ProcessInv, NEW c \in Processes, P!GiveUp(c)
    PROVE  ProcessInv'
<1> DEFINE r == [call[c] EXCEPT !.at = "done", !.cause = "cancel", !.result = "raised"]
<1>0. /\ ProcessTypes /\ CallKnows(c) /\ call[c].at = "queued"
      /\ child' = child /\ pump' = pump /\ queue' = queue /\ kept' = kept
  BY CallIs DEF P!GiveUp, P!At
<1>1. call[c] \in CallStates
  BY <1>0, CallTyped
<1>2. call' = [call EXCEPT ![c] = r]
  BY Zenon DEF P!GiveUp
<1>3. r \in CallStates /\ r.at = "done" /\ r.result = "raised"
  BY <1>1 DEF CallStates
<1> HIDE DEF r
<1>4. /\ call' \in [Processes -> CallStates] /\ call'[c] = r
      /\ \A d \in Processes \ {c} : call'[d] = call[d]
  BY <1>0, <1>2, <1>3 DEF ProcessTypes
<1>5. ProcessTypes'
  BY <1>0, <1>4 DEF ProcessTypes, P!Kept
<1>6. ~P!Alive(c) /\ pump[c] = P!NoPumps
  BY <1>0, ProcessFacts DEF CallKnows, P!Alive
<1>7. CallKnows(c)'
  BY <1>0, <1>3, <1>4, <1>6 DEF CallKnows, Busy, P!Alive
<1>8. WholeIfOk(c)'
  BY <1>3, <1>4 DEF WholeIfOk
<1> QED BY <1>0, <1>4, <1>5, <1>7, <1>8, OneCall

\* A pump runs for a call that is busy.
LEMMA PumpIsBusy ==
    ASSUME ProcessInv, NEW c \in Processes, NEW s \in P!Streams, pump[c][s] # "none"
    PROVE  call[c].at \in Busy /\ call[c].result = "none" /\ EndsMatch(c)
<1>1. ProcessTypes /\ CallKnows(c)
  BY CallIs
<1>2. pump[c] # P!NoPumps
  BY ProcessFacts
<1>3. call[c].at \in {"idle", "queued", "start", "consume", "gather", "exit", "terminate", "grace", "done"}
  BY <1>1 DEF ProcessTypes, CallStates
<1> QED BY <1>1, <1>2, <1>3 DEF CallKnows, Busy

\* What one pump does to the state of its call.
LEMMA PumpMoves ==
    ASSUME ProcessTypes, NEW c \in Processes, NEW s \in P!Streams,
           NEW to \in {"none", "read", "put", "end", "done"}, pump' = [pump EXCEPT ![c][s] = to]
    PROVE  /\ pump' \in [Processes -> Pumps] /\ pump'[c][s] = to
           /\ \A t \in P!Streams \ {s} : pump'[c][t] = pump[c][t]
           /\ \A d \in Processes \ {c} : pump'[d] = pump[d]
<1> DEFINE new == [pump[c] EXCEPT ![s] = to]
<1>1. pump \in [Processes -> Pumps] /\ pump[c] \in Pumps
  BY DEF ProcessTypes
<1>2. pump' = [pump EXCEPT ![c] = new]
  BY Zenon
<1>3. new \in Pumps /\ new[s] = to /\ \A t \in P!Streams \ {s} : new[t] = pump[c][t]
  BY <1>1 DEF Pumps
<1> HIDE DEF new
<1> QED BY <1>1, <1>2, <1>3

\* A pump that only reads or meets the end: the queue is as it was.
LEMMA PumpKeepsEnds ==
    ASSUME NEW c \in Processes, NEW s \in P!Streams, EndsMatch(c),
           pump[c][s] # "done", pump'[c][s] # "done",
           \A t \in P!Streams \ {s} : pump'[c][t] = pump[c][t],
           queue'[c] = queue[c], call'[c].ends = call[c].ends
    PROVE  EndsMatch(c)'
<1>1. \A t \in P!Streams : pump'[c][t] # "done" <=> pump[c][t] # "done"
  OBVIOUS
<1> QED BY <1>1 DEF EndsMatch

LEMMA PumpEofStep ==
    ASSUME ProcessInv, NEW c \in Processes, NEW s \in P!Streams, P!PumpEof(c, s)
    PROVE  ProcessInv'
<1>0. /\ ProcessTypes /\ CallKnows(c) /\ WholeIfOk(c) /\ pump[c][s] = "read" /\ P!AtEof(c, s)
      /\ pump' = [pump EXCEPT ![c][s] = "end"]
      /\ call' = call /\ child' = child /\ queue' = queue /\ kept' = kept
  BY CallIs DEF P!PumpEof
<1>1. call[c].at \in Busy /\ EndsMatch(c)
  BY <1>0, PumpIsBusy
<1>2. /\ pump' \in [Processes -> Pumps] /\ pump'[c][s] = "end"
      /\ \A t \in P!Streams \ {s} : pump'[c][t] = pump[c][t]
      /\ \A d \in Processes \ {c} : pump'[d] = pump[d]
  BY <1>0, PumpMoves
<1>3. ProcessTypes'
  BY <1>0, <1>2 DEF ProcessTypes, P!Kept
<1>4. EndsMatch(c)'
  BY <1>0, <1>1, <1>2, PumpKeepsEnds
<1>5. ReadAll(c) => ReadAll(c)'
  BY <1>0, <1>2 DEF ReadAll, P!AtEof
<1>6. AllKept(c) => AllKept(c)'
  BY <1>0 DEF AllKept
<1>7. CallKnows(c)'
  BY <1>0, <1>1, <1>4, <1>5, <1>6 DEF CallKnows, Busy
<1>8. WholeIfOk(c)'
  BY <1>0 DEF WholeIfOk
<1> QED BY <1>0, <1>2, <1>3, <1>7, <1>8, OneCall

LEMMA PumpPutStep ==
    ASSUME ProcessInv, NEW c \in Processes, NEW s \in P!Streams, P!PumpPut(c, s)
    PROVE  ProcessInv'
<1> DEFINE item == IF pump[c][s] = "put" THEN "line" ELSE "end"
           to   == IF pump[c][s] = "put" THEN "read" ELSE "done"
<1>0. /\ ProcessTypes /\ CallKnows(c) /\ WholeIfOk(c) /\ pump[c][s] \in {"put", "end"}
      /\ Len(queue[c]) < QueueSize /\ queue' = [queue EXCEPT ![c] = Append(queue[c], item)]
      /\ pump' = [pump EXCEPT ![c][s] = IF @ = "put" THEN "read" ELSE "done"]
      /\ call' = call /\ child' = child /\ kept' = kept
  BY CallIs DEF P!PumpPut
<1>1. call[c].at \in Busy /\ EndsMatch(c)
  BY <1>0, PumpIsBusy
<1>2. pump' = [pump EXCEPT ![c][s] = to]
  BY <1>0, Zenon
<1>3. to \in {"none", "read", "put", "end", "done"} /\ item \in {"line", "end"}
  OBVIOUS
<1>4. /\ pump[c][s] = "put" => item = "line" /\ to = "read"
      /\ pump[c][s] = "end" => item = "end" /\ to = "done"
  OBVIOUS
<1> HIDE DEF item, to
<1>5. /\ pump' \in [Processes -> Pumps] /\ pump'[c][s] = to
      /\ \A t \in P!Streams \ {s} : pump'[c][t] = pump[c][t]
      /\ \A d \in Processes \ {c} : pump'[d] = pump[d]
  <2>1. ProcessTypes
    BY <1>0
  <2> QED BY <1>2, <1>3, <2>1, PumpMoves, Zenon
<1>6. queue[c] \in Seq({"line", "end"}) /\ Len(queue[c]) \in Nat /\ call[c].ends \in 0 .. 2
  BY <1>0, CallTyped
<1>7. /\ Append(queue[c], item) \in Seq({"line", "end"}) /\ Len(Append(queue[c], item)) = Len(queue[c]) + 1
      /\ item = "line" /\ NoEnd(queue[c]) => NoEnd(Append(queue[c], item))
      /\ item = "line" /\ OneEnd(queue[c]) => OneEnd(Append(queue[c], item))
      /\ NoEnd(queue[c]) => OneEnd(Append(queue[c], item))
  BY <1>3, <1>6, AppendEnds
<1>8. /\ queue' \in [Processes -> Seq({"line", "end"})] /\ queue'[c] = Append(queue[c], item)
      /\ \A d \in Processes \ {c} : queue'[d] = queue[d]
  BY <1>0, <1>7 DEF ProcessTypes
<1>9. \A d \in Processes : Len(queue'[d]) <= QueueSize
  BY <1>0, <1>6, <1>7, <1>8, ProcessFacts DEF ProcessTypes
<1>10. ProcessTypes'
  BY <1>0, <1>5, <1>8, <1>9 DEF ProcessTypes, P!Kept
<1>11. EndsMatch(c)'
  <2>1. CASE pump[c][s] = "put"
    <3>1. \A t \in P!Streams : pump'[c][t] # "done" <=> pump[c][t] # "done"
      BY <1>4, <1>5, <2>1
    <3> QED BY <1>0, <1>1, <1>4, <1>7, <1>8, <2>1, <3>1 DEF EndsMatch
  <2>2. CASE pump[c][s] = "end"
    <3>1. ~ \A t \in P!Streams : pump'[c][t] # "done"
      BY <1>4, <1>5, <2>2
    <3>2. (\E t \in P!Streams : pump'[c][t] # "done") => \A t \in P!Streams : pump[c][t] # "done"
      BY <1>4, <1>5, <2>2 DEF P!Streams
    <3>3. (\E t \in P!Streams : pump'[c][t] # "done") => call[c].ends = 0 /\ OneEnd(queue'[c])
      BY <1>1, <1>7, <1>8, <3>2 DEF EndsMatch
    <3> QED BY <1>0, <3>1, <3>3 DEF EndsMatch
  <2> QED BY <1>0, <2>1, <2>2
<1>12. ReadAll(c) => ReadAll(c)'
  BY <1>0, <1>4, <1>5 DEF ReadAll, P!Alive
<1>13. AllKept(c) => AllKept(c)'
  BY <1>0 DEF AllKept
<1>14. CallKnows(c)'
  BY <1>0, <1>1, <1>11, <1>12, <1>13 DEF CallKnows, Busy
<1>15. WholeIfOk(c)'
  BY <1>0 DEF WholeIfOk
<1> QED BY <1>0, <1>5, <1>8, <1>10, <1>14, <1>15, OneCall

LEMMA PumpReadStep ==
    ASSUME ProcessInv, NEW c \in Processes, NEW s \in P!Streams, P!PumpRead(c, s)
    PROVE  ProcessInv'
<1> DEFINE fits == P!Kept(c) < OutputLimit /\ ~call[c].over
           left == [child[c].pipe EXCEPT ![s] = child[c].pipe[s] - 1]
           k == [child[c] EXCEPT !.pipe = left]
           more == [kept[c] EXCEPT ![s] = kept[c][s] + 1]
           r == [call[c] EXCEPT !.over = TRUE]
<1>0. /\ ProcessTypes /\ CallKnows(c) /\ WholeIfOk(c) /\ pump[c][s] = "read"
      /\ child[c].pipe[s] > 0 /\ queue' = queue
      /\ fits => /\ kept' = [kept EXCEPT ![c][s] = @ + 1]
                 /\ pump' = [pump EXCEPT ![c][s] = "put"] /\ call' = call
      /\ ~fits => /\ call' = [call EXCEPT ![c].over = TRUE]
                  /\ pump' = [pump EXCEPT ![c][s] = "end"] /\ kept' = kept
  BY CallIs DEF P!PumpRead
<1>1. call[c].at \in Busy /\ call[c].result = "none" /\ EndsMatch(c)
  BY <1>0, PumpIsBusy
<1>2. /\ call[c] \in CallStates /\ child[c] \in AsyncChildren /\ kept[c] \in Keeps
      /\ P!Kept(c) <= OutputLimit /\ child[c].pipe \in [P!Streams -> 0 .. PipeSize]
      /\ \A t \in P!Streams : /\ child[c].pipe[t] \in 0 .. PipeSize /\ child[c].pipe[t] \in Nat
                              /\ child[c].written[t] \in Nat /\ kept[c][t] \in Nat
  BY <1>0, CallTyped
<1>3. child' = [child EXCEPT ![c] = k]
  BY Zenon DEF P!PumpRead
<1>4. child[c].pipe[s] - 1 \in 0 .. PipeSize
  BY <1>0, <1>2, ProcessFacts
<1>5. /\ left \in [P!Streams -> 0 .. PipeSize] /\ left[s] = child[c].pipe[s] - 1
      /\ \A t \in P!Streams \ {s} : left[t] = child[c].pipe[t]
  BY <1>2, <1>4
<1> HIDE DEF left
<1>6. /\ k \in AsyncChildren /\ k.is = child[c].is /\ k.open = child[c].open
      /\ k.term = child[c].term /\ k.pipe = left /\ k.written = child[c].written
      /\ k.long = child[c].long
  BY <1>2, <1>5 DEF AsyncChildren
<1> HIDE DEF k
<1>7. /\ child' \in [Processes -> AsyncChildren] /\ child'[c] = k
      /\ \A d \in Processes \ {c} : child'[d] = child[d]
  BY <1>0, <1>3, <1>6 DEF ProcessTypes
<1>8. CASE fits
  <2>1. /\ pump' \in [Processes -> Pumps] /\ pump'[c][s] = "put"
        /\ \A t \in P!Streams \ {s} : pump'[c][t] = pump[c][t]
        /\ \A d \in Processes \ {c} : pump'[d] = pump[d]
    <3>1. ProcessTypes /\ pump' = [pump EXCEPT ![c][s] = "put"]
      BY <1>0, <1>8
    <3> QED BY <3>1, PumpMoves
  <2>2. /\ more \in Keeps /\ more["stdout"] + more["stderr"] <= OutputLimit
        /\ more[s] = kept[c][s] + 1 /\ \A t \in P!Streams \ {s} : more[t] = kept[c][t]
    <3>1. /\ kept[c]["stdout"] + kept[c]["stderr"] < OutputLimit
          /\ kept[c]["stdout"] \in Nat /\ kept[c]["stderr"] \in Nat /\ OutputLimit \in Nat
      BY <1>2, <1>8, ProcessFacts DEF P!Kept, P!Streams
    <3>2. /\ more[s] = kept[c][s] + 1 /\ \A t \in P!Streams \ {s} : more[t] = kept[c][t]
          /\ more \in [P!Streams -> Nat]
      BY <1>2 DEF Keeps
    <3>3. \/ more["stdout"] = kept[c]["stdout"] + 1 /\ more["stderr"] = kept[c]["stderr"]
          \/ more["stderr"] = kept[c]["stderr"] + 1 /\ more["stdout"] = kept[c]["stdout"]
      BY <3>2 DEF P!Streams
    <3>4. more["stdout"] + more["stderr"] <= OutputLimit
      BY <3>1, <3>3
    <3>5. more["stdout"] \in 0 .. OutputLimit /\ more["stderr"] \in 0 .. OutputLimit
      BY <3>1, <3>3
    <3>6. more \in Keeps
      BY <3>2, <3>5 DEF Keeps, P!Streams
    <3> QED BY <3>2, <3>4, <3>6
  <2>3. /\ kept' \in [Processes -> Keeps] /\ kept'[c] = more
        /\ \A d \in Processes \ {c} : kept'[d] = kept[d]
    <3>1. kept' = [kept EXCEPT ![c] = more]
      BY <1>0, <1>8, Zenon
    <3> HIDE DEF more
    <3> QED BY <1>0, <2>2, <3>1 DEF ProcessTypes
  <2> HIDE DEF more
  <2>4. call' = call
    BY <1>0, <1>8
  <2>5. ProcessTypes'
    BY <1>0, <1>7, <2>1, <2>2, <2>3, <2>4 DEF ProcessTypes, P!Kept
  <2>6. EndsMatch(c)'
    <3>1. queue'[c] = queue[c] /\ call'[c].ends = call[c].ends /\ pump[c][s] # "done" /\ pump'[c][s] # "done"
      BY <1>0, <2>1, <2>4
    <3> QED BY <1>1, <2>1, <3>1, PumpKeepsEnds
  <2>7. ReadAll(c) => ReadAll(c)'
    BY <1>0, <1>5, <1>6, <1>7, <2>1, <2>4 DEF ReadAll
  <2>8. AllKept(c) => AllKept(c)'
    <3>1. \A t \in P!Streams : child[c].written[t] = kept[c][t] + child[c].pipe[t]
                              => child[c].written[t] = more[t] + left[t]
      <4>1. ASSUME NEW t \in P!Streams, child[c].written[t] = kept[c][t] + child[c].pipe[t]
            PROVE  child[c].written[t] = more[t] + left[t]
        <5>1. child[c].pipe[t] \in Nat /\ kept[c][t] \in Nat
          BY <1>2
        <5>2. CASE t = s
          BY <1>5, <2>2, <4>1, <5>1, <5>2
        <5>3. CASE t # s
          BY <1>5, <2>2, <4>1, <5>3
        <5> QED BY <5>2, <5>3
      <4> QED BY <4>1
    <3> QED BY <1>6, <1>7, <2>3, <2>4, <3>1 DEF AllKept
  <2>9. CallKnows(c)'
    BY <1>0, <1>1, <1>6, <1>7, <2>4, <2>6, <2>7, <2>8 DEF CallKnows, Busy
  <2>10. WholeIfOk(c)'
    BY <1>1, <2>4 DEF WholeIfOk
  <2> QED BY <1>0, <1>7, <2>1, <2>3, <2>4, <2>5, <2>9, <2>10, OneCall
<1>9. CASE ~fits
  <2>1. /\ pump' \in [Processes -> Pumps] /\ pump'[c][s] = "end"
        /\ \A t \in P!Streams \ {s} : pump'[c][t] = pump[c][t]
        /\ \A d \in Processes \ {c} : pump'[d] = pump[d]
    <3>1. ProcessTypes /\ pump' = [pump EXCEPT ![c][s] = "end"]
      BY <1>0, <1>9
    <3> QED BY <3>1, PumpMoves
  <2>2. kept' = kept /\ call' = [call EXCEPT ![c] = r]
    <3>1. kept' = kept /\ call' = [call EXCEPT ![c].over = TRUE]
      BY <1>0, <1>9
    <3> QED BY <3>1, Zenon
  <2>3. /\ r \in CallStates /\ r.at = call[c].at /\ r.cause = call[c].cause
        /\ r.ends = call[c].ends /\ r.over /\ r.result = call[c].result
    BY <1>2 DEF CallStates
  <2> HIDE DEF r
  <2>4. /\ call' \in [Processes -> CallStates] /\ call'[c] = r
        /\ \A d \in Processes \ {c} : call'[d] = call[d]
    BY <1>0, <2>2, <2>3 DEF ProcessTypes
  <2>5. ProcessTypes'
    BY <1>0, <1>7, <2>1, <2>2, <2>4 DEF ProcessTypes, P!Kept
  <2>6. EndsMatch(c)'
    <3>1. queue'[c] = queue[c] /\ call'[c].ends = call[c].ends /\ pump[c][s] # "done" /\ pump'[c][s] # "done"
      BY <1>0, <2>1, <2>3, <2>4
    <3> QED BY <1>1, <2>1, <3>1, PumpKeepsEnds
  <2>7. ReadAll(c)' /\ AllKept(c)'
    BY <2>3, <2>4 DEF ReadAll, AllKept
  <2>8. CallKnows(c)'
    BY <1>0, <1>1, <1>6, <1>7, <2>3, <2>4, <2>6, <2>7 DEF CallKnows, Busy
  <2>9. WholeIfOk(c)'
    BY <1>1, <2>3, <2>4 DEF WholeIfOk
  <2> QED BY <1>0, <1>7, <2>1, <2>2, <2>4, <2>5, <2>8, <2>9, OneCall
<1> HIDE DEF fits
<1> QED BY <1>8, <1>9

\* A line too long: its stream is marked, and with it goes nothing but the line.
LEMMA PumpBreaksStep ==
    ASSUME ProcessInv, NEW c \in Processes, NEW s \in P!Streams, P!PumpBreaks(c, s)
    PROVE  ProcessInv'
<1> DEFINE left == [child[c].pipe EXCEPT ![s] = child[c].pipe[s] - 1]
           marked == child[c].long \cup {s}
           k == [child[c] EXCEPT !.pipe = left, !.long = marked]
<1>0. /\ ProcessTypes /\ CallKnows(c) /\ WholeIfOk(c) /\ pump[c][s] = "read"
      /\ child[c].pipe[s] > 0 /\ pump' = [pump EXCEPT ![c][s] = "end"]
      /\ child' = [child EXCEPT ![c].pipe[s] = @ - 1, ![c].long = @ \cup {s}]
      /\ call' = call /\ queue' = queue /\ kept' = kept
  BY CallIs DEF P!PumpBreaks
<1>1. call[c].at \in Busy /\ call[c].result = "none" /\ EndsMatch(c)
  BY <1>0, PumpIsBusy
<1>2. /\ child[c] \in AsyncChildren /\ child[c].pipe \in [P!Streams -> 0 .. PipeSize]
      /\ child[c].long \in SUBSET P!Streams
      /\ \A t \in P!Streams : child[c].pipe[t] \in 0 .. PipeSize /\ child[c].pipe[t] \in Nat
  BY <1>0, CallTyped
<1>3. child' = [child EXCEPT ![c] = k]
  BY <1>0, <1>2 DEF ProcessTypes, AsyncChildren
<1>4. child[c].pipe[s] - 1 \in 0 .. PipeSize
  BY <1>0, <1>2, ProcessFacts
<1>5. /\ left \in [P!Streams -> 0 .. PipeSize]
      /\ \A t \in P!Streams \ {s} : left[t] = child[c].pipe[t]
  BY <1>2, <1>4
<1>6. marked \in SUBSET P!Streams /\ s \in marked /\ child[c].long \subseteq marked
  BY <1>2
<1> HIDE DEF left, marked
<1>7. /\ k \in AsyncChildren /\ k.is = child[c].is /\ k.open = child[c].open
      /\ k.term = child[c].term /\ k.pipe = left /\ k.written = child[c].written /\ k.long = marked
  BY <1>2, <1>5, <1>6 DEF AsyncChildren
<1> HIDE DEF k
<1>8. /\ child' \in [Processes -> AsyncChildren] /\ child'[c] = k
      /\ \A d \in Processes \ {c} : child'[d] = child[d]
  BY <1>0, <1>3, <1>7 DEF ProcessTypes
<1>9. /\ pump' \in [Processes -> Pumps] /\ pump'[c][s] = "end"
      /\ \A t \in P!Streams \ {s} : pump'[c][t] = pump[c][t]
      /\ \A d \in Processes \ {c} : pump'[d] = pump[d]
  BY <1>0, PumpMoves
<1>10. ProcessTypes'
  BY <1>0, <1>8, <1>9 DEF ProcessTypes, P!Kept
<1>11. EndsMatch(c)'
  BY <1>0, <1>1, <1>9, PumpKeepsEnds
<1>12. ReadAll(c) => ReadAll(c)'
  BY <1>0, <1>5, <1>6, <1>7, <1>8, <1>9 DEF ReadAll
<1>13. AllKept(c) => AllKept(c)'
  BY <1>0, <1>5, <1>6, <1>7, <1>8 DEF AllKept
<1>14. CallKnows(c)'
  BY <1>0, <1>1, <1>7, <1>8, <1>11, <1>12, <1>13 DEF CallKnows, Busy
<1>15. WholeIfOk(c)'
  BY <1>0, <1>1 DEF WholeIfOk
<1> QED BY <1>0, <1>8, <1>9, <1>10, <1>14, <1>15, OneCall

\* A running process changes by itself.
LEMMA ChildMoves ==
    ASSUME ProcessInv, NEW c \in Processes, P!Alive(c), NEW k \in AsyncChildren,
           child' = [child EXCEPT ![c] = k], UNCHANGED <<call, pump, queue, kept>>,
           k.is \in {"running", "ended"}, k.term = child[c].term,
           ReadAll(c) => ReadAll(c)', AllKept(c) => AllKept(c)'
    PROVE  ProcessInv'
<1>0. /\ ProcessTypes /\ CallKnows(c) /\ WholeIfOk(c) /\ child[c].is = "running"
      /\ call' = call /\ pump' = pump /\ queue' = queue /\ kept' = kept
  BY CallIs DEF P!Alive
<1>1. /\ child' \in [Processes -> AsyncChildren] /\ child'[c] = k
      /\ \A d \in Processes \ {c} : child'[d] = child[d]
  BY <1>0 DEF ProcessTypes
<1>2. ProcessTypes'
  BY <1>0, <1>1 DEF ProcessTypes, P!Kept
<1>3. EndsMatch(c) => EndsMatch(c)'
  BY <1>0 DEF EndsMatch
<1>4. call[c].at \notin {"idle", "queued", "start"}
  BY <1>0, ProcessFacts DEF CallKnows
<1>5. CallKnows(c)'
  BY <1>0, <1>1, <1>3, <1>4 DEF CallKnows, Busy, P!Alive
<1>6. WholeIfOk(c)'
  BY <1>0 DEF WholeIfOk
<1> QED BY <1>0, <1>1, <1>2, <1>5, <1>6, OneCall

LEMMA ChildStep ==
    ASSUME ProcessInv, NEW c \in Processes, P!Child(c)
    PROVE  ProcessInv'
<1>0. ProcessTypes /\ child[c] \in AsyncChildren
  BY CallIs, CallTyped
<1>1. CASE P!ChildEnds(c)
  <2>1. PICK code \in 0 .. 1 :
           child' = [child EXCEPT ![c].is = "ended", ![c].code = code, ![c].open = FALSE]
    BY <1>1 DEF P!ChildEnds
  <2> DEFINE k == [child[c] EXCEPT !.is = "ended", !.code = code, !.open = FALSE]
  <2>2. P!Alive(c) /\ call' = call /\ pump' = pump /\ queue' = queue /\ kept' = kept
    BY <1>1 DEF P!ChildEnds
  <2>3. child' = [child EXCEPT ![c] = k]
    BY <1>0, <2>1 DEF ProcessTypes, AsyncChildren
  <2>4. /\ k \in AsyncChildren /\ k.is = "ended" /\ ~k.open /\ k.long = child[c].long
        /\ k.term = child[c].term /\ k.pipe = child[c].pipe /\ k.written = child[c].written
    BY <1>0 DEF AsyncChildren
  <2> HIDE DEF k
  <2>5. child'[c] = k
    BY <1>0, <2>3 DEF ProcessTypes
  <2>6. (ReadAll(c) => ReadAll(c)') /\ (AllKept(c) => AllKept(c)')
    BY <2>2, <2>4, <2>5 DEF ReadAll, AllKept
  <2> QED BY <2>2, <2>3, <2>4, <2>6, ChildMoves
<1>2. CASE P!ChildCloses(c)
  <2> DEFINE k == [child[c] EXCEPT !.open = FALSE]
  <2>2. P!Alive(c) /\ call' = call /\ pump' = pump /\ queue' = queue /\ kept' = kept
    BY <1>2 DEF P!ChildCloses
  <2>3. child' = [child EXCEPT ![c] = k]
    BY <1>2, Zenon DEF P!ChildCloses
  <2>4. /\ k \in AsyncChildren /\ k.is = child[c].is /\ ~k.open /\ k.long = child[c].long
        /\ k.term = child[c].term /\ k.pipe = child[c].pipe /\ k.written = child[c].written
    BY <1>0 DEF AsyncChildren
  <2> HIDE DEF k
  <2>5. child'[c] = k
    BY <1>0, <2>3 DEF ProcessTypes
  <2>6. (ReadAll(c) => ReadAll(c)') /\ (AllKept(c) => AllKept(c)')
    BY <2>2, <2>4, <2>5 DEF ReadAll, AllKept
  <2>7. k.is = "running"
    BY <2>2, <2>4 DEF P!Alive
  <2> QED BY <2>2, <2>3, <2>4, <2>6, <2>7, ChildMoves
<1>3. ASSUME NEW s \in P!Streams, P!ChildWrites(c, s)
      PROVE  ProcessInv'
  <2> DEFINE more == [child[c].pipe EXCEPT ![s] = child[c].pipe[s] + 1]
             wrote == [child[c].written EXCEPT ![s] = child[c].written[s] + 1]
             k == [child[c] EXCEPT !.pipe = more, !.written = wrote]
  <2>1. /\ P!Alive(c) /\ child[c].open /\ child[c].pipe[s] < PipeSize
        /\ child' = [child EXCEPT ![c].pipe[s] = @ + 1, ![c].written[s] = @ + 1]
        /\ call' = call /\ pump' = pump /\ queue' = queue /\ kept' = kept
    BY <1>3 DEF P!ChildWrites
  <2>2. /\ child[c].pipe \in [P!Streams -> 0 .. PipeSize]
        /\ child[c].written \in [P!Streams -> Nat]
        /\ \A t \in P!Streams : /\ child[c].pipe[t] \in 0 .. PipeSize /\ child[c].pipe[t] \in Nat
                                /\ child[c].written[t] \in Nat /\ kept[c][t] \in Nat
    BY <1>0, CallTyped
  <2>3. child' = [child EXCEPT ![c] = k]
    BY <1>0, <2>1, <2>2 DEF ProcessTypes, AsyncChildren
  <2>4. child[c].pipe[s] + 1 \in 0 .. PipeSize /\ child[c].written[s] + 1 \in Nat
    BY <2>1, <2>2, ProcessFacts
  <2>5. /\ more \in [P!Streams -> 0 .. PipeSize] /\ more[s] = child[c].pipe[s] + 1
        /\ \A t \in P!Streams \ {s} : more[t] = child[c].pipe[t]
    BY <2>2, <2>4
  <2>6. /\ wrote \in [P!Streams -> Nat] /\ wrote[s] = child[c].written[s] + 1
        /\ \A t \in P!Streams \ {s} : wrote[t] = child[c].written[t]
    BY <2>2, <2>4
  <2> HIDE DEF more, wrote
  <2>7. /\ k \in AsyncChildren /\ k.is = child[c].is /\ k.open = child[c].open
        /\ k.term = child[c].term /\ k.pipe = more /\ k.written = wrote /\ k.long = child[c].long
    BY <1>0, <2>5, <2>6 DEF AsyncChildren
  <2> HIDE DEF k
  <2>8. child'[c] = k
    BY <1>0, <2>3 DEF ProcessTypes
  <2>9. ReadAll(c) => ReadAll(c)'
    BY <2>1, <2>7, <2>8 DEF ReadAll
  <2>10. AllKept(c) => AllKept(c)'
    <3>1. \A t \in P!Streams : child[c].written[t] = kept[c][t] + child[c].pipe[t]
                              => wrote[t] = kept[c][t] + more[t]
      <4>1. ASSUME NEW t \in P!Streams, child[c].written[t] = kept[c][t] + child[c].pipe[t]
            PROVE  wrote[t] = kept[c][t] + more[t]
        <5>1. child[c].pipe[t] \in Nat /\ kept[c][t] \in Nat
          BY <2>2
        <5>2. CASE t = s
          BY <2>5, <2>6, <4>1, <5>1, <5>2
        <5>3. CASE t # s
          BY <2>5, <2>6, <4>1, <5>3
        <5> QED BY <5>2, <5>3
      <4> QED BY <4>1
    <3> QED BY <2>1, <2>7, <2>8, <3>1 DEF AllKept
  <2>11. k.is = "running"
    BY <2>1, <2>7 DEF P!Alive
  <2> QED BY <2>1, <2>3, <2>7, <2>9, <2>10, <2>11, ChildMoves
<1> QED BY <1>1, <1>2, <1>3 DEF P!Child

LEMMA ProcessNextInv ==
    ASSUME ProcessInv, [P!Next]_(P!vars)
    PROVE  ProcessInv'
<1>1. CASE UNCHANGED P!vars
  BY <1>1 DEF P!vars, ProcessInv, ProcessTypes, CallKnows, WholeIfOk, EndsMatch, ReadAll, AllKept, P!Alive, P!Kept
<1>2. ASSUME P!Next PROVE ProcessInv'
  <2>1. PICK c \in Processes :
           \/ P!Request(c) \/ P!StartRaises(c) \/ P!GiveUp(c)
           \/ P!Interrupt(c, "timeout") \/ P!Interrupt(c, "cancel")
           \/ P!Loop(c) \/ P!Child(c)
    BY <1>2 DEF P!Next
  <2>2. P!Loop(c) => \/ P!Acquire(c) \/ P!Start(c) \/ P!Consume(c) \/ P!Finish(c)
                     \/ P!Gather(c) \/ P!Terminate(c) \/ P!Grace(c)
                     \/ \E s \in P!Streams : \/ P!PumpRead(c, s) \/ P!PumpBreaks(c, s)
                                             \/ P!PumpEof(c, s) \/ P!PumpPut(c, s)
    BY DEF P!Loop, P!Pump
  <2>3. \A s \in P!Streams :
           P!PumpRead(c, s) \/ P!PumpBreaks(c, s) \/ P!PumpEof(c, s) \/ P!PumpPut(c, s) => ProcessInv'
    BY PumpReadStep, PumpBreaksStep, PumpEofStep, PumpPutStep
  <2>4. P!Request(c) \/ P!StartRaises(c) \/ P!GiveUp(c) \/ P!Child(c) => ProcessInv'
    BY RequestStep, StartRaisesStep, GiveUpStep, ChildStep
  <2>5. P!Interrupt(c, "timeout") \/ P!Interrupt(c, "cancel") => ProcessInv'
    BY InterruptStep
  <2>6. P!Acquire(c) \/ P!Start(c) \/ P!Consume(c) \/ P!Finish(c) \/ P!Gather(c) => ProcessInv'
    BY AcquireStep, StartStep, ConsumeStep, FinishStep, GatherStep
  <2>7. P!Terminate(c) \/ P!Grace(c) => ProcessInv'
    BY TerminateStep, GraceStep
  <2> QED BY <2>1, <2>2, <2>3, <2>4, <2>5, <2>6, <2>7
<1> QED BY <1>1, <1>2

\* What the invariant says of a call that is over or not.
LEMMA ProcessInvSays == ProcessInv => P!TypeOK /\ P!OnlySupervisedRun /\ P!OkIsWhole
<1> SUFFICES ASSUME ProcessInv PROVE P!TypeOK /\ P!OnlySupervisedRun /\ P!OkIsWhole
  OBVIOUS
<1>1. P!TypeOK
  BY DEF ProcessInv, ProcessTypes, P!TypeOK, CallStates, AsyncChildren, Pumps, Keeps
<1>2. ASSUME NEW c \in Processes, P!Alive(c)
      PROVE  P!Holding(c) \/ (call[c].result = "raised" /\ call[c].cause = "none")
  <2>1. CallKnows(c) /\ call[c] \in CallStates
    BY CallIs, CallTyped
  <2>2. call[c].at \notin {"idle", "queued", "start"}
    BY <1>2, <2>1, ProcessFacts DEF CallKnows, P!Alive
  <2>3. call[c].at \in {"consume", "gather", "exit", "terminate", "grace", "done"}
    BY <2>1, <2>2 DEF CallStates
  <2> QED BY <1>2, <2>1, <2>3 DEF CallKnows, P!Holding
<1>3. P!OkIsWhole
  BY DEF ProcessInv, WholeIfOk, P!OkIsWhole
<1> QED BY <1>1, <1>2, <1>3 DEF P!OnlySupervisedRun

\* A process runs only while its call holds a slot, and an answer "ok" is that
\* of a process that ended by itself with code 0 and carries all it wrote on each
\* stream, unless the output limit was passed or that stream had a line longer than
\* readline takes (core/asyncproc.py run, _consume, stream; the pumps and the
\* bounded queue).
THEOREM ProcessesAreSupervised ==
    P!Init /\ [][P!Next]_(P!vars) => [](P!TypeOK /\ P!OnlySupervisedRun /\ P!OkIsWhole)
<1>1. ProcessInv /\ [P!Next]_(P!vars) => ProcessInv'
  BY ProcessNextInv
<1> QED BY <1>1, ProcessInitInv, ProcessInvSays, PTL
-----------------------------------------------------------------------------
(* The work of web clients *)

\* A session is in a workspace of its user's; what it may ask for depends on him.
OwnSessions == {s \in W!Sessions : OwnerOf[s.workspace] = s.user}
OpenRequests ==
    {q \in [at : {"body", "queued", "running"}, token : Tokens, session : OwnSessions,
            kind : W!Kinds, admin : BOOLEAN] :
        q.admin => q.session.user \in Admins}
QueuedJobs ==
    {j \in [is : {"queued"}, admin : BOOLEAN, by : OwnSessions, home : Workspaces] :
        j.home = j.by.workspace /\ (j.admin => j.by.user \in Admins)}
EndedJobs == [is : {"done", "cancelled"}, home : Workspaces]
OpenSockets ==
    [at : {"open", "queued", "reading", "left"}, kind : {"log", "wireless"}, token : Tokens,
     session : OwnSessions]
RightEffects ==
    {e \in [user : Users, chosen : Workspaces, home : Workspaces, admin : BOOLEAN] :
        /\ e.home = e.chosen /\ OwnerOf[e.home] = e.user
        /\ e.admin => e.user \in Admins}

WorkInv ==
    /\ now \in 0 .. MaxTime /\ logins \in 0 .. MaxLogins
    /\ session \in [Tokens -> {W!NoSession} \cup OwnSessions]
    /\ request \in [Requests -> {W!Over} \cup OpenRequests]
    /\ job \in [Jobs -> {W!NoJob} \cup QueuedJobs \cup EndedJobs]
    /\ socket \in [Sockets -> {W!Closed} \cup OpenSockets]
    /\ effect \in {W!NoEffect} \cup RightEffects

LEMMA WorkFacts ==
    /\ OwnerOf \in [Workspaces -> Users] /\ Lifetime \in Nat /\ Lifetime > 0 /\ MaxTime \in Nat
    /\ MaxLogins \in Nat
BY WirelessAssumption DEF W!WebWorkAssumption

\* Fields of what is there.
LEMMA SessionFields ==
    ASSUME NEW s \in OwnSessions
    PROVE  /\ s.user \in Users /\ s.workspace \in Workspaces /\ s.until \in 1 .. MaxTime + Lifetime
           /\ OwnerOf[s.workspace] = s.user
BY DEF OwnSessions, W!Sessions

LEMMA RequestFields ==
    ASSUME NEW q \in OpenRequests
    PROVE  /\ q.at \in {"body", "queued", "running"} /\ q.token \in Tokens
           /\ q.session \in OwnSessions /\ q.kind \in W!Kinds /\ q.admin \in BOOLEAN
           /\ q.admin => q.session.user \in Admins
BY DEF OpenRequests

LEMMA SocketFields ==
    ASSUME NEW q \in OpenSockets
    PROVE  /\ q.at \in {"open", "queued", "reading", "left"} /\ q.token \in Tokens
           /\ q.session \in OwnSessions /\ q.kind \in {"log", "wireless"}
BY DEF OpenSockets

LEMMA NothingThere ==
    /\ W!Over.at = "over" /\ W!NoJob.is = "none" /\ W!Closed.at = "closed"
BY DEF W!Over, W!NoJob, W!Closed

LEMMA WorkInitInv == W!Init => WorkInv
<1> SUFFICES ASSUME W!Init PROVE WorkInv
  OBVIOUS
<1>1. 0 \in 0 .. MaxTime /\ 0 \in 0 .. MaxLogins
  BY WorkFacts
<1> QED BY <1>1 DEF W!Init, WorkInv

\* What belongs to one request goes on or is over.
LEMMA RequestMoves ==
    ASSUME WorkInv, NEW r \in Requests, NEW q \in {W!Over} \cup OpenRequests,
           request' = [request EXCEPT ![r] = q]
    PROVE  request' \in [Requests -> {W!Over} \cup OpenRequests]
BY DEF WorkInv

LEMMA SocketMoves ==
    ASSUME WorkInv, NEW s \in Sockets, NEW q \in {W!Closed} \cup OpenSockets,
           socket' = [socket EXCEPT ![s] = q]
    PROVE  socket' \in [Sockets -> {W!Closed} \cup OpenSockets]
BY DEF WorkInv

LEMMA RequestAt ==
    ASSUME WorkInv, NEW r \in Requests, request[r].at \in {"body", "queued", "running"}
    PROVE  request[r] \in OpenRequests
<1>1. request[r] \in {W!Over} \cup OpenRequests
  BY DEF WorkInv
<1> QED BY <1>1, NothingThere

LEMMA SocketAt ==
    ASSUME WorkInv, NEW s \in Sockets, socket[s].at \in {"open", "queued", "reading", "left"}
    PROVE  socket[s] \in OpenSockets
<1>1. socket[s] \in {W!Closed} \cup OpenSockets
  BY DEF WorkInv
<1> QED BY <1>1, NothingThere

\* An effect is had by a session, in the workspace it works in.
LEMMA EffectIsRight ==
    ASSUME NEW who \in OwnSessions, NEW home \in Workspaces, NEW admin \in BOOLEAN,
           W!Effect(who, home, admin), home = who.workspace, admin => who.user \in Admins
    PROVE  effect' \in RightEffects
<1>1. who.user \in Users /\ who.workspace \in Workspaces /\ OwnerOf[who.workspace] = who.user
  BY SessionFields
<1> QED BY <1>1 DEF W!Effect, RightEffects

LEMMA SessionStepInv ==
    ASSUME WorkInv, W!SessionStep
    PROVE  WorkInv'
<1>1. PICK t \in Tokens : W!Revoke(t) \/ \E w \in Workspaces : W!Login(t, w) \/ W!Select(t, w)
  BY DEF W!SessionStep
<1>2. CASE W!Revoke(t)
  BY <1>2 DEF W!Revoke, W!Quiet, WorkInv
<1>3. ASSUME NEW w \in Workspaces, W!Login(t, w)
      PROVE  WorkInv'
  <2> DEFINE new == [user |-> OwnerOf[w], workspace |-> w, until |-> now + Lifetime]
  <2>1. now \in 0 .. MaxTime /\ logins \in 0 .. MaxLogins /\ logins < MaxLogins
    BY <1>3 DEF WorkInv, W!Login
  <2>2. now + Lifetime \in 1 .. MaxTime + Lifetime /\ logins + 1 \in 0 .. MaxLogins
    BY <2>1, WorkFacts
  <2>3. new \in OwnSessions
    BY <2>2, WorkFacts DEF OwnSessions, W!Sessions
  <2>4. /\ session' = [session EXCEPT ![t] = new] /\ logins' = logins + 1
        /\ effect' = W!NoEffect /\ UNCHANGED <<now, request, job, socket>>
    BY <1>3 DEF W!Login, W!Quiet
  <2> HIDE DEF new
  <2> QED BY <2>2, <2>3, <2>4 DEF WorkInv
<1>4. ASSUME NEW w \in Workspaces, W!Select(t, w)
      PROVE  WorkInv'
  <2> DEFINE new == [session[t] EXCEPT !.workspace = w]
  <2>1. session[t] \in OwnSessions /\ OwnerOf[w] = session[t].user
    BY <1>4 DEF WorkInv, W!Select, W!Live
  <2>2. new \in OwnSessions
    BY <2>1 DEF OwnSessions, W!Sessions
  <2>3. /\ session' = [session EXCEPT ![t] = new]
        /\ effect' = W!NoEffect /\ UNCHANGED <<now, logins, request, job, socket>>
    BY <1>4, Zenon DEF W!Select, W!Quiet
  <2> HIDE DEF new
  <2> QED BY <2>2, <2>3 DEF WorkInv
<1> QED BY <1>1, <1>2, <1>3, <1>4

LEMMA ArriveInv ==
    ASSUME WorkInv, NEW r \in Requests, NEW t \in Tokens, NEW kind \in W!Kinds, W!Arrive(r, t, kind)
    PROVE  WorkInv'
<1>1. CASE W!Live(t)
  <2> DEFINE new == [at |-> "body", token |-> t, session |-> session[t], kind |-> kind, admin |-> FALSE]
  <2>1. session[t] \in OwnSessions
    BY <1>1 DEF WorkInv, W!Live
  <2>2. new \in OpenRequests
    BY <2>1 DEF OpenRequests
  <2>3. /\ request' = [request EXCEPT ![r] = new]
        /\ effect' = W!NoEffect /\ UNCHANGED <<now, logins, session, job, socket>>
    BY <1>1 DEF W!Arrive, W!Quiet
  <2> HIDE DEF new
  <2> QED BY <2>2, <2>3, RequestMoves DEF WorkInv
<1>2. CASE ~W!Live(t)
  BY <1>2 DEF W!Arrive, W!Quiet, WorkInv
<1> QED BY <1>1, <1>2

\* Execute, TakeThread: the request goes on, with its session.
LEMMA ExecuteInv ==
    ASSUME WorkInv, NEW r \in Requests, NEW admin \in BOOLEAN, W!Execute(r, admin)
    PROVE  WorkInv'
<1> DEFINE new == [request[r] EXCEPT !.at = "queued", !.admin = admin]
<1>1. request[r] \in OpenRequests /\ (admin => request[r].session.user \in Admins)
  BY RequestAt DEF W!Execute, W!May
<1>2. new \in OpenRequests
  BY <1>1 DEF OpenRequests
<1>3. request' = [request EXCEPT ![r] = new]
  BY Zenon DEF W!Execute
<1>4. effect' = W!NoEffect /\ UNCHANGED <<now, logins, session, job, socket>>
  BY DEF W!Execute, W!Quiet
<1> HIDE DEF new
<1> QED BY <1>2, <1>3, <1>4, RequestMoves DEF WorkInv

LEMMA TakeThreadInv ==
    ASSUME WorkInv, NEW r \in Requests, W!TakeThread(r)
    PROVE  WorkInv'
<1> DEFINE new == [request[r] EXCEPT !.at = "running"]
<1>1. request[r] \in OpenRequests
  BY RequestAt DEF W!TakeThread
<1>2. new \in OpenRequests
  BY <1>1 DEF OpenRequests
<1>3. request' = [request EXCEPT ![r] = new]
  BY Zenon DEF W!TakeThread
<1>4. effect' = W!NoEffect /\ UNCHANGED <<now, logins, session, job, socket>>
  BY DEF W!TakeThread, W!Quiet
<1> HIDE DEF new
<1> QED BY <1>2, <1>3, <1>4, RequestMoves DEF WorkInv

LEMMA PerformInv ==
    ASSUME WorkInv, NEW r \in Requests, W!Perform(r)
    PROVE  WorkInv'
<1>1. request[r] \in OpenRequests
  BY RequestAt DEF W!Perform
<1>2. /\ request[r].session \in OwnSessions /\ request[r].admin \in BOOLEAN
      /\ request[r].admin => request[r].session.user \in Admins
      /\ request[r].session.workspace \in Workspaces
  BY <1>1, RequestFields, SessionFields
<1>3. W!Effect(request[r].session, request[r].session.workspace, request[r].admin)
  BY DEF W!Perform, W!Current
<1>4. effect' \in RightEffects
  BY <1>2, <1>3, EffectIsRight
<1>5. request' = [request EXCEPT ![r] = W!Over] /\ UNCHANGED <<now, logins, session, job, socket>>
  BY DEF W!Perform
<1> QED BY <1>4, <1>5 DEF WorkInv

\* A job keeps the session that asked for it and that session's workspace.
LEMMA SubmitInv ==
    ASSUME WorkInv, NEW r \in Requests, NEW j \in Jobs, NEW admin \in BOOLEAN, W!Submit(r, j, admin)
    PROVE  WorkInv'
<1> DEFINE new == [is |-> "queued", admin |-> admin, by |-> request[r].session,
                   home |-> request[r].session.workspace]
<1>1. request[r] \in OpenRequests /\ (admin => request[r].session.user \in Admins)
  BY RequestAt DEF W!Submit, W!May
<1>2. request[r].session \in OwnSessions /\ request[r].session.workspace \in Workspaces
  BY <1>1, RequestFields, SessionFields
<1>3. new \in QueuedJobs
  BY <1>1, <1>2 DEF QueuedJobs
<1>4. /\ job' = [job EXCEPT ![j] = new] /\ request' = [request EXCEPT ![r] = W!Over]
      /\ effect' = W!NoEffect /\ UNCHANGED <<now, logins, session, socket>>
  BY DEF W!Submit, W!Current, W!Quiet
<1> HIDE DEF new
<1> QED BY <1>3, <1>4 DEF WorkInv

LEMMA JobIs ==
    ASSUME WorkInv, NEW j \in Jobs, job[j].is = "queued"
    PROVE  /\ job[j].by \in OwnSessions /\ job[j].home \in Workspaces /\ job[j].admin \in BOOLEAN
           /\ job[j].home = job[j].by.workspace
           /\ job[j].admin => job[j].by.user \in Admins
<1>1. job[j] \in {W!NoJob} \cup QueuedJobs \cup EndedJobs
  BY DEF WorkInv
<1>2. job[j] \in QueuedJobs
  BY <1>1, NothingThere DEF EndedJobs
<1> QED BY <1>2 DEF QueuedJobs

LEMMA JobEnds ==
    ASSUME WorkInv, NEW j \in Jobs, NEW end \in EndedJobs, job' = [job EXCEPT ![j] = end]
    PROVE  job' \in [Jobs -> {W!NoJob} \cup QueuedJobs \cup EndedJobs]
BY DEF WorkInv

LEMMA WorkStepInv ==
    ASSUME WorkInv, NEW j \in Jobs, W!Work(j)
    PROVE  WorkInv'
<1> DEFINE end == [is |-> "done", home |-> job[j].home]
<1>1. /\ job[j].by \in OwnSessions /\ job[j].home \in Workspaces /\ job[j].admin \in BOOLEAN
      /\ job[j].home = job[j].by.workspace
      /\ job[j].admin => job[j].by.user \in Admins
  BY JobIs DEF W!Work
<1>2. effect' \in RightEffects
  BY <1>1, EffectIsRight DEF W!Work
<1>3. end \in EndedJobs
  BY <1>1 DEF EndedJobs
<1>4. job' = [job EXCEPT ![j] = end] /\ UNCHANGED <<now, logins, session, request, socket>>
  BY Zenon DEF W!Work
<1> HIDE DEF end
<1>5. job' \in [Jobs -> {W!NoJob} \cup QueuedJobs \cup EndedJobs]
  BY <1>3, <1>4, JobEnds
<1> QED BY <1>2, <1>4, <1>5 DEF WorkInv

LEMMA CancelInv ==
    ASSUME WorkInv, NEW r \in Requests, NEW j \in Jobs, W!Cancel(r, j)
    PROVE  WorkInv'
<1>1. request[r] \in OpenRequests
  BY RequestAt DEF W!Cancel
<1>2. request[r].session \in OwnSessions
  BY <1>1, RequestFields
<1>3. /\ request' = [request EXCEPT ![r] = W!Over] /\ UNCHANGED <<now, logins, session, socket>>
      /\ job[j].home = request[r].session.workspace
  BY DEF W!Cancel, W!Finds
<1>4. CASE job[j].is = "queued"
  <2> DEFINE end == [is |-> "cancelled", home |-> job[j].home]
  <2>1. job[j].home \in Workspaces
    BY <1>4, JobIs
  <2>2. W!Effect(request[r].session, job[j].home, FALSE)
    BY <1>4 DEF W!Cancel
  <2>3. effect' \in RightEffects
    BY <1>2, <1>3, <2>1, <2>2, EffectIsRight
  <2>4. end \in EndedJobs
    BY <2>1 DEF EndedJobs
  <2>5. job' = [job EXCEPT ![j] = end]
    BY <1>4, Zenon DEF W!Cancel
  <2> HIDE DEF end
  <2>6. job' \in [Jobs -> {W!NoJob} \cup QueuedJobs \cup EndedJobs]
    BY <2>4, <2>5, JobEnds
  <2> QED BY <1>3, <2>3, <2>6 DEF WorkInv
<1>5. CASE job[j].is # "queued"
  <2>1. job' = job /\ effect' = W!NoEffect
    BY <1>5 DEF W!Cancel, W!Quiet
  <2> QED BY <1>3, <2>1 DEF WorkInv
<1> QED BY <1>4, <1>5

LEMMA RequestStepInv ==
    ASSUME WorkInv, NEW r \in Requests, W!RequestStep(r)
    PROVE  WorkInv'
<1>1. CASE W!Refuse(r)
  BY <1>1 DEF W!Refuse, W!Quiet, WorkInv
<1> QED BY <1>1, ArriveInv, ExecuteInv, SubmitInv, CancelInv, TakeThreadInv, PerformInv DEF W!RequestStep

\* No frame is sent on a socket once its session has expired.
FramesInTime ==
    \A s \in Sockets : socket[s].at = "reading" /\ socket'[s].at = "open"
        => now < socket[s].session.until

LEMMA SocketBecomes ==
    ASSUME WorkInv, NEW s \in Sockets, NEW q \in {W!Closed} \cup OpenSockets,
           socket' = [socket EXCEPT ![s] = q],
           q.at = "open" /\ socket[s].at = "reading" => now < socket[s].session.until,
           session' = session, effect' = W!NoEffect, UNCHANGED <<now, logins, request, job>>
    PROVE  WorkInv' /\ FramesInTime
<1>1. socket' \in [Sockets -> {W!Closed} \cup OpenSockets]
  BY SocketMoves
<1>2. WorkInv'
  BY <1>1 DEF WorkInv
<1>3. socket'[s] = q /\ \A u \in Sockets \ {s} : socket'[u] = socket[u]
  BY DEF WorkInv
<1>4. ASSUME NEW u \in Sockets, socket[u].at = "reading", socket'[u].at = "open"
      PROVE  now < socket[u].session.until
  <2>1. u # s => socket'[u].at = "reading"
    BY <1>3, <1>4
  <2>2. u = s
    BY <1>4, <2>1
  <2> QED BY <1>3, <1>4, <2>2
<1> QED BY <1>2, <1>4 DEF FramesInTime

\* A socket that goes on keeps its session and its kind.
LEMMA SocketGoes ==
    ASSUME NEW old \in OpenSockets, NEW step \in {"open", "queued", "reading", "left"}
    PROVE  [old EXCEPT !.at = step] \in OpenSockets /\ [old EXCEPT !.at = step].at = step
BY DEF OpenSockets

LEMMA SocketsKept == socket' = socket => FramesInTime
<1>1. ASSUME socket' = socket, NEW s \in Sockets, socket[s].at = "reading", socket'[s].at = "open"
      PROVE  FALSE
  <2>1. socket[s].at = "open"
    BY <1>1
  <2> QED BY <1>1, <2>1
<1> QED BY <1>1 DEF FramesInTime

LEMMA OpenInv ==
    ASSUME WorkInv, NEW s \in Sockets, NEW t \in Tokens, NEW kind \in {"log", "wireless"},
           W!Open(s, t, kind)
    PROVE  WorkInv' /\ FramesInTime
<1>1. CASE W!Live(t)
  <2> DEFINE new == [at |-> "open", kind |-> kind, token |-> t, session |-> session[t]]
  <2>1. session[t] \in OwnSessions
    BY <1>1 DEF WorkInv, W!Live
  <2>2. new \in OpenSockets
    BY <2>1 DEF OpenSockets
  <2>3. /\ socket' = [socket EXCEPT ![s] = new] /\ socket[s] = W!Closed /\ session' = session
        /\ effect' = W!NoEffect /\ UNCHANGED <<now, logins, request, job>>
    BY <1>1 DEF W!Open, W!Quiet
  <2>4. socket[s].at = "closed"
    BY <2>3, NothingThere
  <2> HIDE DEF new
  <2> QED BY <2>2, <2>3, <2>4, SocketBecomes
<1>2. CASE ~W!Live(t)
  <2>1. WorkInv' /\ socket' = socket
    BY <1>2 DEF W!Open, W!Quiet, WorkInv
  <2> QED BY <2>1, SocketsKept
<1> QED BY <1>1, <1>2

LEMMA SocketGoesOn ==
    ASSUME WorkInv, NEW s \in Sockets, NEW step \in {"open", "queued", "reading", "left"},
           socket[s].at \in {"open", "queued", "reading", "left"},
           socket' = [socket EXCEPT ![s].at = step],
           step = "open" => now < socket[s].session.until,
           W!Quiet, UNCHANGED <<now, logins, session, request, job>>
    PROVE  WorkInv' /\ FramesInTime
<1> DEFINE new == [socket[s] EXCEPT !.at = step]
<1>1. socket[s] \in OpenSockets
  BY SocketAt
<1>2. new \in OpenSockets /\ new.at = step
  BY <1>1, SocketGoes
<1>3. socket' = [socket EXCEPT ![s] = new]
  BY Zenon
<1>4. effect' = W!NoEffect /\ session' = session /\ UNCHANGED <<now, logins, request, job>>
  BY DEF W!Quiet
<1> HIDE DEF new
<1> QED BY <1>2, <1>3, <1>4, SocketBecomes

LEMMA SocketCloses ==
    ASSUME WorkInv, NEW s \in Sockets, socket' = [socket EXCEPT ![s] = W!Closed],
           W!Quiet, UNCHANGED <<now, logins, session, request, job>>
    PROVE  WorkInv' /\ FramesInTime
<1>1. W!Closed.at # "open"
  BY NothingThere
<1>2. effect' = W!NoEffect /\ session' = session /\ UNCHANGED <<now, logins, request, job>>
  BY DEF W!Quiet
<1> QED BY <1>1, <1>2, SocketBecomes

LEMMA SocketStepInv ==
    ASSUME WorkInv, NEW s \in Sockets, W!SocketStep(s)
    PROVE  WorkInv' /\ FramesInTime
<1>1. W!Ask(s) => WorkInv' /\ FramesInTime
  BY SocketGoesOn DEF W!Ask
<1>2. W!TakeRead(s) => WorkInv' /\ FramesInTime
  BY SocketGoesOn DEF W!TakeRead
<1>3. W!Frame(s) => WorkInv' /\ FramesInTime
  BY SocketGoesOn DEF W!Frame, W!InTime
<1>4. W!Leave(s) \/ W!Abandoned(s) => WorkInv' /\ FramesInTime
  BY SocketCloses DEF W!Leave, W!Abandoned
<1>5. ASSUME W!Expire(s) PROVE WorkInv' /\ FramesInTime
  <2>1. /\ socket[s].at \in {"open", "queued", "reading"} /\ W!Quiet
        /\ UNCHANGED <<now, logins, session, request, job>>
    BY <1>5 DEF W!Expire
  <2>2. CASE socket[s].at = "reading"
    <3>1. socket' = [socket EXCEPT ![s].at = "left"]
      BY <1>5, <2>2 DEF W!Expire
    <3> QED BY <2>1, <3>1, SocketGoesOn
  <2>3. CASE socket[s].at # "reading"
    <3>1. socket' = [socket EXCEPT ![s] = W!Closed]
      BY <1>5, <2>3 DEF W!Expire
    <3> QED BY <2>1, <3>1, SocketCloses
  <2> QED BY <2>2, <2>3
<1> QED BY <1>1, <1>2, <1>3, <1>4, <1>5, OpenInv DEF W!SocketStep, W!ReadEnds

LEMMA WorkNextInv ==
    ASSUME WorkInv, [W!Next]_(W!workVars)
    PROVE  WorkInv' /\ FramesInTime
<1>1. CASE UNCHANGED W!workVars
  BY <1>1, SocketsKept DEF W!workVars, WorkInv
<1>2. CASE W!Tick
  <2>1. now' \in 0 .. MaxTime
    BY <1>2, WorkFacts DEF W!Tick, WorkInv
  <2>2. /\ effect' = W!NoEffect /\ logins' = logins /\ session' = session /\ request' = request
        /\ job' = job /\ socket' = socket
    BY <1>2 DEF W!Tick, W!Quiet
  <2> QED BY <2>1, <2>2, SocketsKept DEF WorkInv
<1>3. CASE W!SessionStep
  <2>1. socket' = socket
    BY <1>3 DEF W!SessionStep, W!Revoke, W!Login, W!Select
  <2> QED BY <1>3, <2>1, SessionStepInv, SocketsKept
<1>4. ASSUME NEW r \in Requests, W!RequestStep(r)
      PROVE  WorkInv' /\ FramesInTime
  <2>1. socket' = socket
    BY <1>4 DEF W!RequestStep, W!Arrive, W!Execute, W!Submit, W!Cancel, W!Refuse, W!TakeThread, W!Perform
  <2> QED BY <1>4, <2>1, RequestStepInv, SocketsKept
<1>5. ASSUME NEW s \in Sockets, W!SocketStep(s)
      PROVE  WorkInv' /\ FramesInTime
  BY <1>5, SocketStepInv
<1>6. ASSUME NEW j \in Jobs, W!Work(j)
      PROVE  WorkInv' /\ FramesInTime
  <2>1. socket' = socket
    BY <1>6 DEF W!Work
  <2> QED BY <1>6, <2>1, WorkStepInv, SocketsKept
<1> QED BY <1>1, <1>2, <1>3, <1>4, <1>5, <1>6 DEF W!Next

LEMMA WorkInvSays == WorkInv => W!TypeOK /\ W!EffectsAtHome
<1> SUFFICES ASSUME WorkInv PROVE W!TypeOK /\ W!EffectsAtHome
  OBVIOUS
<1>1. \A t \in Tokens : session[t] \in {W!NoSession} \cup W!Sessions
  BY DEF WorkInv, OwnSessions
<1>2. \A r \in Requests :
         \/ request[r] = W!Over
         \/ /\ request[r].at \in {"body", "queued", "running"}
            /\ request[r].token \in Tokens /\ request[r].session \in W!Sessions
  BY DEF WorkInv, OpenRequests, OwnSessions
<1>3. \A j \in Jobs :
         \/ job[j] = W!NoJob
         \/ job[j].is \in {"queued", "done", "cancelled"} /\ job[j].home \in Workspaces
  <2> SUFFICES ASSUME NEW j \in Jobs
               PROVE  \/ job[j] = W!NoJob
                      \/ job[j].is \in {"queued", "done", "cancelled"} /\ job[j].home \in Workspaces
    OBVIOUS
  <2>1. job[j] \in {W!NoJob} \cup QueuedJobs \cup EndedJobs
    BY DEF WorkInv
  <2> QED BY <2>1 DEF QueuedJobs, EndedJobs
<1>4. \A s \in Sockets :
         \/ socket[s] = W!Closed
         \/ /\ socket[s].at \in {"open", "queued", "reading", "left"}
            /\ socket[s].session \in W!Sessions /\ socket[s].token \in Tokens
  BY DEF WorkInv, OpenSockets, OwnSessions
<1>5. effect = W!NoEffect \/
        effect \in [user : Users, chosen : Workspaces, home : Workspaces, admin : BOOLEAN]
  BY DEF WorkInv, RightEffects
<1>6. W!TypeOK
  BY <1>1, <1>2, <1>3, <1>4, <1>5 DEF WorkInv, W!TypeOK
<1>7. W!EffectsAtHome
  BY DEF WorkInv, W!EffectsAtHome, RightEffects
<1> QED BY <1>6, <1>7

\* Whatever is set in motion is done in the workspace that was active when its
\* request came in, the user's own; and no frame is sent on a socket whose
\* session has expired (webapp370.py, webauthz370.py, websocketexpiry370.py).
THEOREM WorkIsDoneAtHome ==
    W!Init /\ [][W!Next]_(W!workVars) => []W!TypeOK /\ []W!EffectsAtHome /\ W!NoFrameAfterExpiry
<1>1. WorkInv /\ [W!Next]_(W!workVars) => WorkInv'
  BY WorkNextInv
<1>2. WorkInv /\ [W!Next]_(W!workVars) =>
        [\A s \in Sockets : socket[s].at = "reading" /\ socket'[s].at = "open"
           => now < socket[s].session.until]_(W!workVars)
  BY WorkNextInv DEF FramesInTime
<1> QED BY <1>1, <1>2, WorkInitInv, WorkInvSays, PTL DEF W!NoFrameAfterExpiry
-----------------------------------------------------------------------------
(* The parts of one run *)

\* A step of the run is a step of each part, or leaves it alone.
LEMMA PartsStart == Init => Q!Init /\ P!Init /\ C!Init /\ W!Init
BY DEF Init

LEMMA PartsStep ==
    [Next]_vars => /\ [Q!Next]_(Q!vars) /\ [P!Next]_(P!vars)
                   /\ [C!Next]_(C!vars) /\ [W!Next]_(W!workVars)
<1>1. ASSUME Pairing(Q!Next)
      PROVE  [Q!Next]_(Q!vars) /\ [P!Next]_(P!vars) /\ [C!Next]_(C!vars) /\ [W!Next]_(W!workVars)
  BY <1>1 DEF Pairing, processes, commanding, working, P!vars, C!vars, W!workVars
<1>2. ASSUME Process(P!Next)
      PROVE  [Q!Next]_(Q!vars) /\ [P!Next]_(P!vars) /\ [C!Next]_(C!vars) /\ [W!Next]_(W!workVars)
  BY <1>2 DEF Process, pairing, commanding, working, Q!vars, C!vars, W!workVars
<1>3. ASSUME Command(C!Next)
      PROVE  [Q!Next]_(Q!vars) /\ [P!Next]_(P!vars) /\ [C!Next]_(C!vars) /\ [W!Next]_(W!workVars)
  BY <1>3 DEF Command, pairing, processes, working, Q!vars, P!vars, W!workVars
<1>4. ASSUME Working(W!Next)
      PROVE  [Q!Next]_(Q!vars) /\ [P!Next]_(P!vars) /\ [C!Next]_(C!vars) /\ [W!Next]_(W!workVars)
  BY <1>4 DEF Working, pairing, processes, commanding, Q!vars, P!vars, C!vars
<1>5. ASSUME UNCHANGED vars
      PROVE  [Q!Next]_(Q!vars) /\ [P!Next]_(P!vars) /\ [C!Next]_(C!vars) /\ [W!Next]_(W!workVars)
  BY <1>5 DEF vars, pairing, processes, commanding, working, Q!vars, P!vars, C!vars, W!workVars
<1> QED BY <1>1, <1>2, <1>3, <1>4, <1>5 DEF Next

\* Each part behaves as its own module says.
LEMMA PartsBehave ==
    Spec => /\ Q!Init /\ [][Q!Next]_(Q!vars) /\ P!Init /\ [][P!Next]_(P!vars)
            /\ C!Init /\ [][C!Next]_(C!vars) /\ W!Init /\ [][W!Next]_(W!workVars)
BY PartsStart, PartsStep, PTL DEF Spec

\* Every variable of what runs beside a request has its type.
THEOREM WorkTypeCorrect == Spec => []TypeOK
<1>1. Q!TypeOK /\ P!TypeOK /\ C!TypeOK /\ W!TypeOK => TypeOK
  BY DEF TypeOK
<1> QED BY <1>1, PartsBehave, PairingsStand, ProcessesAreSupervised, CommandsAreTrue,
           WorkIsDoneAtHome, PTL

\* A result of the supervisor or of the ADB client is true of the process it
\* comes from, but for what it does not tell of lines that were too many or too
\* long, and none is left behind (core/asyncproc.py, adb.py).
THEOREM AnswersAreAlwaysTrue == Spec => []AnswersAreTrue
<1>1. P!OnlySupervisedRun /\ P!OkIsWhole /\ C!NoneLeftBehind /\ C!OkWasDone => AnswersAreTrue
  BY DEF AnswersAreTrue
<1> QED BY <1>1, PartsBehave, ProcessesAreSupervised, CommandsAreTrue, PTL

\* A terminal session changes in three ways only, what it says of the device is
\* true, a secret that is gone is read no more, and a device once trusted stays so
\* but for a discovery that had read its row before (wireless qr.py, manager.py).
THEOREM PairingAlwaysStands == Spec => PairingStands
BY PartsBehave, PairingsStand, PTL DEF PairingStands

\* What a client sets in motion is done where it was asked, and no frame comes
\* late (webapp370.py, webauthz370.py, websocketexpiry370.py).
THEOREM EffectsAreAtHome == Spec => EffectsAtHome
BY PartsBehave, WorkIsDoneAtHome, PTL DEF EffectsAtHome
=============================================================================
