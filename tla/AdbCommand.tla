----------------------------- MODULE AdbCommand -----------------------------
(***************************************************************************)
(* The ADB client as runtimefix360.py and adbguard372.py leave it: run,    *)
(* run_interactive, run_binary, run_bounded and stream of one thread, the  *)
(* process each starts, the time-out and the cancellation event that       *)
(* adb330.cancellation puts in the thread.                                 *)
(*                                                                         *)
(* _popen_text looks at the event and at the clock between waits of at     *)
(* most 0.25 s; subprocess.run looks at the clock only, and stream at the  *)
(* event only, when a line has come.                                       *)
(***************************************************************************)
EXTENDS Naturals

CONSTANTS MaxCommands,  \* bound: commands one after the other
          MaxSlices,    \* bound: waits that fit into a time-out
          MaxLines      \* bound: lines of one stream

\* Assumed by the modules that give the constants values.
AdbCommandAssumption ==
    MaxCommands \in Nat /\ MaxSlices \in Nat \ {0} /\ MaxLines \in Nat

VARIABLES command,   \* the command under way, or the last one
          process,   \* its process
          event,     \* the thread's cancel_event: "absent", "clear", "set"
          count

vars == <<command, process, event, count>>

Calls == {"run", "run_interactive", "run_binary", "run_bounded", "stream"}
NoProcess == [is |-> "none", code |-> 0, failing |-> FALSE, line |-> FALSE,
              lines |-> 0]
\* slices is what is left of the time-out; late, that it has run out; blind,
\* that the event was not set yet when the call began.
NoCommand == [call |-> "run", check |-> FALSE, slices |-> 0, at |-> "ended",
              late |-> FALSE, blind |-> TRUE, end |-> "none"]

TypeOK ==
    /\ command \in [call : Calls, check : BOOLEAN, slices : 0 .. MaxSlices,
                    late : BOOLEAN, blind : BOOLEAN,
                    at : {"start", "look", "wait", "stop", "read", "yield", "close", "ended"},
                    end : {"none", "ok", "not ok", "raised 124", "raised 126", "raised",
                           "OSError", "no more lines"}]
    /\ process \in [is : {"none", "running", "ended"}, code : {0, 1, 143},
                    failing : BOOLEAN, line : BOOLEAN, lines : 0 .. MaxLines]
    /\ event \in {"absent", "clear", "set"}
    /\ count \in 0 .. MaxCommands

Init ==
    /\ command = NoCommand
    /\ process = NoProcess
    /\ event \in {"absent", "clear"}
    /\ count = 0

At(step) == command.at = step
Goto(step) == command' = [command EXCEPT !.at = step]
End(e) == command' = [command EXCEPT !.at = "ended", !.end = e]

\* Whether the loop of _popen_text waits for the process, or communicate does.
Polls == command.call = "run_bounded"
         \/ (command.call \in {"run", "run_interactive"} /\ event # "absent")

-----------------------------------------------------------------------------

Begin(call, check) ==
    /\ At("ended") /\ count < MaxCommands
    /\ \E slices \in 1 .. MaxSlices :
          command' = [NoCommand EXCEPT !.call = call, !.check = check, !.at = "start",
                                       !.slices = slices, !.blind = event # "set"]
    /\ process' = NoProcess
    /\ count' = count + 1
    /\ UNCHANGED event

\* Popen.
Start ==
    /\ At("start")
    /\ process' = [NoProcess EXCEPT !.is = "running"]
    /\ Goto(IF command.call = "stream" THEN "read" ELSE IF Polls THEN "look" ELSE "wait")
    /\ UNCHANGED <<event, count>>

\* The program cannot be started.  adbguard372 converts the error of run,
\* run_binary and stream.
StartFails ==
    /\ At("start")
    /\ End(IF command.call \in {"run", "run_binary", "stream"} THEN "raised 126" ELSE "OSError")
    /\ UNCHANGED <<process, event, count>>

Stopping == command' = [command EXCEPT !.at = "stop", !.late = event # "set"]

\* The top of the loop: the event first, the clock second.
Look ==
    /\ At("look")
    /\ IF event = "set" \/ command.slices = 0 THEN Stopping ELSE Goto("wait")
    /\ UNCHANGED <<process, event, count>>

\* _semantic_ok: a code other than 0, or output that says it failed.
SemanticOk(code) == code = 0 /\ ~process.failing

\* The outcome of a command whose code is known: with check an exception.
Concluded(ok) == End(IF ok THEN "ok" ELSE IF command.check THEN "raised" ELSE "not ok")

\* communicate returns.
Return ==
    /\ At("wait") /\ process.is = "ended"
    /\ Concluded(SemanticOk(process.code))
    /\ UNCHANGED <<process, event, count>>

\* Faulty: every turn begins the time-out afresh.
WaitAgain ==
    /\ At("wait") /\ process.is = "running"
    /\ Goto("look")
    /\ UNCHANGED <<process, event, count>>

\* communicate gives up after its slice; the time-out of subprocess.run kills.
WaitMore ==
    /\ At("wait") /\ process.is = "running"
    /\ IF Polls
       THEN /\ command' = [command EXCEPT !.at = "look", !.slices = @ - 1]
            /\ UNCHANGED process
       ELSE /\ End("raised 124")
            /\ process' = [process EXCEPT !.is = "ended", !.code = 143]
    /\ UNCHANGED <<event, count>>

\* What a stopped command comes to: 130 for a cancelled one; the time-out, but
\* for a bounded capture, whose output alone is judged.
Stopped ==
    IF ~command.late THEN Concluded(SemanticOk(130))
    ELSE IF command.call = "run_bounded" THEN Concluded(~process.failing)
    ELSE End("raised 124")

\* terminate, three seconds, kill.
Stop ==
    /\ At("stop")
    /\ process' = IF process.is = "ended" THEN process
                  ELSE [process EXCEPT !.is = "ended", !.code = 143]
    /\ Stopped
    /\ UNCHANGED <<event, count>>

-----------------------------------------------------------------------------
(* stream, a generator *)

\* readline returns the end of the output; or a line, which is dropped when the
\* event is set.
Read ==
    /\ At("read")
    /\ \/ /\ ~process.line /\ process.is = "ended"
          /\ End("no more lines") /\ UNCHANGED process
       \/ /\ process.line
          /\ process' = [process EXCEPT !.line = FALSE]
          /\ Goto(IF event = "set" THEN "close" ELSE "yield")
    /\ UNCHANGED <<event, count>>

\* The caller asks for the next line, or drops the generator.
Resume ==
    /\ At("yield")
    /\ \/ Goto("read") \/ Goto("close")
    /\ UNCHANGED <<process, event, count>>

\* The finally clause: terminate, three seconds, kill.
Close ==
    /\ At("close")
    /\ process' = IF process.is = "ended" THEN process
                  ELSE [process EXCEPT !.is = "ended", !.code = 143]
    /\ End("no more lines")
    /\ UNCHANGED <<event, count>>

-----------------------------------------------------------------------------
(* The process, which may never end, and the operator *)

ProcessWrites ==
    /\ process.is = "running" /\ command.call = "stream"
    /\ ~process.line /\ process.lines < MaxLines
    /\ process' = [process EXCEPT !.line = TRUE, !.lines = @ + 1]
    /\ UNCHANGED <<command, event, count>>

ProcessComplains ==
    /\ process.is = "running" /\ command.call # "stream" /\ ~process.failing
    /\ process' = [process EXCEPT !.failing = TRUE]
    /\ UNCHANGED <<command, event, count>>

ProcessEnds ==
    /\ process.is = "running"
    /\ \E code \in {0, 1} : process' = [process EXCEPT !.is = "ended", !.code = code]
    /\ UNCHANGED <<command, event, count>>

Cancel ==
    /\ event = "clear"
    /\ event' = "set"
    /\ UNCHANGED <<command, process, count>>

Client ==
    Start \/ Look \/ Return \/ WaitMore \/ Stop \/ Read \/ Resume \/ Close

Next ==
    \/ \E call \in Calls, check \in BOOLEAN : Begin(call, check)
    \/ StartFails \/ Client
    \/ ProcessWrites \/ ProcessComplains \/ ProcessEnds \/ Cancel

Spec == Init /\ [][Next]_vars

-----------------------------------------------------------------------------
(* Properties *)

\* No call leaves its process behind, however it ends.
NoneLeftBehind == At("ended") => process.is \in {"none", "ended"}

\* ok is said of a process that ended by itself with code 0 and without an
\* error in its output, or of a bounded capture whose time was up: never of a
\* command that was stopped because the job was cancelled.
OkWasDone ==
    command.end = "ok" =>
        /\ ~process.failing
        /\ process.code = 0 \/ (command.call = "run_bounded" /\ command.late)
        /\ command.blind \/ command.call = "run_binary"

\* Every command ends: by its process, its time-out or the event; but for a
\* stream whose process neither ends nor ever writes a line again, which is
\* waited for without end, cancelled or not (adb.py, stream).
EndsUnlessSilent ==
    ~At("ended") ~>
        (At("ended") \/ [](At("read") /\ process.is = "running" /\ ~process.line))
=============================================================================
