------------------------------ MODULE FridaRuns ------------------------------
(* Frida runs of a project (service.py, frida): a record that says running,   *)
(* the tool for at most 180 seconds, its two logs, and the record again.      *)

CONSTANT Fridas

VARIABLES
    frida,     \* the status of each Frida record
    logs,      \* the log files of a Frida run
    fridaRun

fridaVars == <<frida, logs, fridaRun>>

Init ==
    /\ frida = [f \in Fridas |-> "none"]
    /\ logs = [f \in Fridas |-> {}]
    /\ fridaRun = [f \in Fridas |-> [at |-> "new", status |-> "none"]]

FridaGoto(f, step, status) == fridaRun' = [fridaRun EXCEPT ![f] = [at |-> step, status |-> status]]

FridaBegin(f) ==
    /\ fridaRun[f].at = "new"
    /\ frida' = [frida EXCEPT ![f] = "running"]
    /\ FridaGoto(f, "run", "none")
    /\ UNCHANGED logs

\* The tool ends, or its 180 seconds do.
FridaEnds(f) ==
    /\ fridaRun[f].at = "run"
    /\ \E status \in {"completed", "failed", "timeout"} : FridaGoto(f, "stdout", status)
    /\ UNCHANGED <<frida, logs>>

\* The two logs, redacted.
FridaLog(f) ==
    /\ fridaRun[f].at \in {"stdout", "stderr"}
    /\ logs' = [logs EXCEPT ![f] = @ \cup {fridaRun[f].at}]
    /\ FridaGoto(f, IF fridaRun[f].at = "stdout" THEN "stderr" ELSE "complete",
                 fridaRun[f].status)
    /\ UNCHANGED frida

FridaComplete(f) ==
    /\ fridaRun[f].at = "complete"
    /\ frida' = [frida EXCEPT ![f] = fridaRun[f].status]
    /\ FridaGoto(f, "ended", fridaRun[f].status)
    /\ UNCHANGED logs

\* Killed; or the tool cannot be started or a log not be written, which nothing
\* catches.
FridaCutOff(f) ==
    /\ fridaRun[f].at \notin {"new", "ended", "cut off"}
    /\ FridaGoto(f, "cut off", fridaRun[f].status)
    /\ UNCHANGED <<frida, logs>>

Trace(f) == FridaBegin(f) \/ FridaEnds(f) \/ FridaLog(f) \/ FridaComplete(f) \/ FridaCutOff(f)

Next == \E f \in Fridas : Trace(f)

-----------------------------------------------------------------------------

TypeOK ==
    /\ frida \in [Fridas -> {"none", "running", "completed", "failed", "timeout"}]
    /\ logs \in [Fridas -> SUBSET {"stdout", "stderr"}]
    /\ fridaRun \in [Fridas ->
          [at : {"new", "run", "stdout", "stderr", "complete", "ended", "cut off"},
           status : {"none", "completed", "failed", "timeout"}]]

\* A record says "running" only while its run goes on, or after that was cut
\* off; and it names an outcome only when both logs are there.
RecordedWithLogs ==
    \A f \in Fridas : /\ frida[f] = "running" => fridaRun[f].at # "ended"
                      /\ frida[f] \notin {"none", "running"} => logs[f] = {"stdout", "stderr"}
=============================================================================
