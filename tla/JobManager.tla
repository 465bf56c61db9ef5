----------------------------- MODULE JobManager -----------------------------
(***************************************************************************)
(* Background jobs of the web server: core/jobs.py (JobManager) running    *)
(* the function that webapp370.py (execute_job) submits.                   *)
(*                                                                         *)
(* A job's row lives in the project database and is read and rewritten     *)
(* WHOLE (get_job; ...; save_job) by several threads: the thread of the    *)
(* pool that runs the job and the threads that serve submit and cancel.    *)
(* A single get_job or save_job is atomic (one transaction under the       *)
(* store's lock); a read-modify-write pair is not.  Each such pair is      *)
(* therefore two actions here, with the row that was read kept in a local. *)
(* Either call may raise (the database is locked or full, a result has no  *)
(* JSON form), and what then becomes of the job depends on where it does.  *)
(***************************************************************************)
EXTENDS Naturals, FiniteSets

CONSTANTS Jobs,         \* the jobs ever submitted
          Clients,      \* threads that call submit and cancel
          MaxWorkers,   \* ThreadPoolExecutor(max_workers=...)
          MaxMishaps    \* bound: how often the server process is killed, or a
                        \* call that reads, saves or converts a row raises

ASSUME JobManagerAssumption == /\ MaxWorkers \in Nat \ {0}
                               /\ MaxMishaps \in Nat

VARIABLES row,       \* the persisted jobs table
          event,     \* event[j]: the cancel event of j is set
          future,    \* the future of j in the pool; "none": not registered
          pc,        \* where the pool thread that runs j is
          current,   \* the runner's local copy of the row
          call,      \* what happened to the submitted operation of j
          client,    \* the submit or cancel call each client thread is in
          caught,    \* whose exception the runner of j is recording
          lost,      \* jobs of which a call ended by an exception nobody records
          mishaps

vars == <<row, event, future, pc, current, call, client, caught, lost, mishaps>>

Absent == [status |-> "absent", progress |-> 0, result |-> "none", error |-> "none"]
Fresh  == [Absent EXCEPT !.status = "queued"]
Idle   == [at |-> "idle"]

Live     == {"queued", "running", "cancelling"}
Terminal == {"completed", "failed", "cancelled"}

\* Nothing, the operation's own exception, or one of a call that reads, saves
\* or converts a row or a result: error is the text of the one that was caught.
Causes == {"none", "operation", "recording"}

Rows == [status   : {"absent"} \cup Live \cup Terminal,
         progress : {0, 1, 10, 90, 100},
         result   : {"none", "data"},
         error    : Causes]

\* The runner, in program order.  p10 and p90 are execute_job's two calls of
\* progress(); "active" is the operation itself (service.dispatch).
RunnerPCs == {"idle", "get", "save", "enter", "get10", "save10", "active",
              "get90", "save90", "getEnd", "decide", "saveEnd",
              "getFail", "saveFail", "done", "killed"}

\* The program points at which the operation may still start or is running.
Executing == {"get10", "save10", "active"}

Registered(j) == future[j] # "none"
Busy == {j \in Jobs : future[j] = "running"}

TypeOK ==
    /\ row \in [Jobs -> Rows]
    /\ event \in [Jobs -> BOOLEAN]
    /\ future \in [Jobs -> {"none", "pending", "running", "finished", "cancelled"}]
    /\ pc \in [Jobs -> RunnerPCs]
    /\ current \in [Jobs -> Rows]
    /\ call \in [Jobs -> {"none", "active", "returned", "raised", "skipped", "killed"}]
    /\ client \in [Clients -> {Idle}
                     \cup [at : {"register", "future", "read"}, job : Jobs]
                     \cup [at : {"save"}, job : Jobs, row : Rows]]
    /\ caught \in [Jobs -> Causes]
    /\ lost \subseteq Jobs
    /\ mishaps \in 0 .. MaxMishaps

Init ==
    /\ row = [j \in Jobs |-> Absent]
    /\ event = [j \in Jobs |-> FALSE]
    /\ future = [j \in Jobs |-> "none"]
    /\ pc = [j \in Jobs |-> "idle"]
    /\ current = [j \in Jobs |-> Absent]
    /\ call = [j \in Jobs |-> "none"]
    /\ client = [c \in Clients |-> Idle]
    /\ caught = [j \in Jobs |-> "none"]
    /\ lost = {}
    /\ mishaps = 0

-----------------------------------------------------------------------------
(* submit: the row is saved first; the event and the future are entered    *)
(* together, under the manager's lock, afterwards.                         *)

SubmitSave(c, j) ==
    /\ client[c] = Idle
    /\ row[j] = Absent
    /\ row' = [row EXCEPT ![j] = Fresh]
    /\ client' = [client EXCEPT ![c] = [at |-> "register", job |-> j]]
    /\ UNCHANGED <<event, future, pc, current, call, caught, lost, mishaps>>

SubmitRegister(c) ==
    /\ client[c].at = "register"
    /\ future' = [future EXCEPT ![client[c].job] = "pending"]
    /\ client' = [client EXCEPT ![c] = Idle]
    /\ UNCHANGED <<row, event, pc, current, call, caught, lost, mishaps>>

(* cancel: look the job up, set its event, cancel its future, then read    *)
(* the row and, by what was read, save it.  An unregistered job is only    *)
(* read, so the call is a stutter and has no action.                       *)

\* Faulty: forgets to set the event.
CancelSignalSilent(c, j) ==
    /\ client[c] = Idle
    /\ Registered(j)
    /\ client' = [client EXCEPT ![c] = [at |-> "future", job |-> j]]
    /\ UNCHANGED <<row, event, future, pc, current, call, caught, lost, mishaps>>

CancelSignal(c, j) ==
    /\ client[c] = Idle
    /\ Registered(j)
    /\ event' = [event EXCEPT ![j] = TRUE]
    /\ client' = [client EXCEPT ![c] = [at |-> "future", job |-> j]]
    /\ UNCHANGED <<row, future, pc, current, call, caught, lost, mishaps>>

CancelFuture(c) ==
    /\ client[c].at = "future"
    /\ future' = [future EXCEPT ![client[c].job] = IF @ = "pending" THEN "cancelled" ELSE @]
    /\ client' = [client EXCEPT ![c].at = "read"]
    /\ UNCHANGED <<row, event, pc, current, call, caught, lost, mishaps>>

\* Faulty: reports a job cancelled whether or not it had begun.
CancelMarkAlways(r) == [r EXCEPT !.status = "cancelled"]

CancelMark(r) ==
    [r EXCEPT !.status = IF @ = "queued" THEN "cancelled" ELSE "cancelling"]

CancelRead(c) ==
    /\ client[c].at = "read"
    /\ LET j == client[c].job IN
         client' = [client EXCEPT ![c] =
            IF row[j].status \in {"queued", "running"}
            THEN [at |-> "save", job |-> j, row |-> CancelMark(row[j])]
            ELSE Idle]
    /\ UNCHANGED <<row, event, future, pc, current, call, caught, lost, mishaps>>

CancelSave(c) ==
    /\ client[c].at = "save"
    /\ row' = [row EXCEPT ![client[c].job] = client[c].row]
    /\ client' = [client EXCEPT ![c] = Idle]
    /\ UNCHANGED <<event, future, pc, current, call, caught, lost, mishaps>>

-----------------------------------------------------------------------------
(* The pool thread.  A cancelled future is never started.                  *)

Start(j) ==
    /\ future[j] = "pending"
    /\ Cardinality(Busy) < MaxWorkers
    /\ future' = [future EXCEPT ![j] = "running"]
    /\ pc' = [pc EXCEPT ![j] = "get"]
    /\ UNCHANGED <<row, event, current, call, client, caught, lost, mishaps>>

\* current = store.get_job(job_id), then `change` applied to the copy.
ReadRow(j, from, to, change(_)) ==
    /\ pc[j] = from
    /\ current' = [current EXCEPT ![j] = change(row[j])]
    /\ pc' = [pc EXCEPT ![j] = to]
    /\ UNCHANGED <<row, event, future, call, client, caught, lost, mishaps>>

\* store.save_job(current); the next read binds `current` anew, so the copy
\* ends here.
SaveRow(j, from, to) ==
    /\ pc[j] = from
    /\ row' = [row EXCEPT ![j] = current[j]]
    /\ current' = [current EXCEPT ![j] = Absent]
    /\ pc' = [pc EXCEPT ![j] = to]
    /\ UNCHANGED <<event, client, lost, mishaps>>

\* Faulty: adds to the progress instead of setting it.
MarkProgressAdds(r, value) == [r EXCEPT !.progress = @ + value]

MarkRunning(r) == [r EXCEPT !.status = "running", !.progress = 1]
MarkProgress(r, value) == [r EXCEPT !.progress = value]
MarkFailed(r, cause) == [r EXCEPT !.status = "failed", !.error = cause, !.result = "none"]

\* Faulty: does not look at the event.
MarkEndUnchecked(r, cancelled) ==
    [r EXCEPT !.status = "completed", !.progress = 100, !.result = "data"]

MarkEnd(r, cancelled) ==
    IF cancelled THEN [r EXCEPT !.status = "cancelled"]
    ELSE [r EXCEPT !.status = "completed", !.progress = 100, !.result = "data"]

BeginRead(j) == ReadRow(j, "get", "save", MarkRunning)
BeginSave(j) == SaveRow(j, "save", "enter") /\ UNCHANGED <<future, call, caught>>

\* execute_job: an operation cancelled before it begins is not dispatched.
Enter(j) ==
    /\ pc[j] = "enter"
    /\ IF event[j]
       THEN /\ call' = [call EXCEPT ![j] = "skipped"]
            /\ pc' = [pc EXCEPT ![j] = "getEnd"]
       ELSE /\ pc' = [pc EXCEPT ![j] = "get10"]
            /\ UNCHANGED call
    /\ UNCHANGED <<row, event, future, current, client, caught, lost, mishaps>>

Progress10Read(j) == ReadRow(j, "get10", "save10", LAMBDA r : MarkProgress(r, 10))

\* progress(10) returns and dispatch begins.
Progress10Save(j) ==
    /\ SaveRow(j, "save10", "active")
    /\ call' = [call EXCEPT ![j] = "active"]
    /\ UNCHANGED <<future, caught>>

\* The operation returns, or raises: an ADB error, a time-out, or the
\* cancellation it notices at one of its own boundaries.  After it returned,
\* its result has still to be recorded, inside the same try.
DispatchReturns(j) ==
    /\ pc[j] = "active"
    /\ call' = [call EXCEPT ![j] = "returned"]
    /\ pc' = [pc EXCEPT ![j] = "get90"]
    /\ UNCHANGED <<row, event, future, current, client, caught, lost, mishaps>>

\* Faulty: the exception ends the pool's call without being recorded.
DispatchRaisesUncaught(j) ==
    /\ pc[j] = "active"
    /\ call' = [call EXCEPT ![j] = "raised"]
    /\ pc' = [pc EXCEPT ![j] = "done"]
    /\ future' = [future EXCEPT ![j] = "finished"]
    /\ UNCHANGED <<row, event, current, client, caught, lost, mishaps>>

DispatchRaises(j) ==
    /\ pc[j] = "active"
    /\ call' = [call EXCEPT ![j] = "raised"]
    /\ pc' = [pc EXCEPT ![j] = "getFail"]
    /\ caught' = [caught EXCEPT ![j] = "operation"]
    /\ UNCHANGED <<row, event, future, current, client, lost, mishaps>>

Progress90Read(j) == ReadRow(j, "get90", "save90", LAMBDA r : MarkProgress(r, 90))
Progress90Save(j) == SaveRow(j, "save90", "getEnd") /\ UNCHANGED <<future, call, caught>>

EndRead(j) == ReadRow(j, "getEnd", "decide", LAMBDA r : r)

\* cancel_event.is_set() is looked at after the row was read.
EndDecide(j) ==
    /\ pc[j] = "decide"
    /\ current' = [current EXCEPT ![j] = MarkEnd(@, event[j])]
    /\ pc' = [pc EXCEPT ![j] = "saveEnd"]
    /\ UNCHANGED <<row, event, future, call, client, caught, lost, mishaps>>

EndSave(j) ==
    /\ SaveRow(j, "saveEnd", "done")
    /\ future' = [future EXCEPT ![j] = "finished"]
    /\ UNCHANGED <<call, caught>>

FailRead(j) == ReadRow(j, "getFail", "saveFail", LAMBDA r : MarkFailed(r, caught[j]))

FailSave(j) ==
    /\ SaveRow(j, "saveFail", "done")
    /\ future' = [future EXCEPT ![j] = "finished"]
    /\ caught' = [caught EXCEPT ![j] = "none"]
    /\ UNCHANGED call

-----------------------------------------------------------------------------
(* What else may raise: progress, the conversion of the result, get_job and *)
(* save_job.  The call that raises has changed nothing (a transaction that  *)
(* is not committed).                                                       *)

\* Inside the try and outside the operation: the handler takes it for a
\* failure of the job, although the operation may have returned, or not begun.
Guarded == {"get10", "save10", "get90", "save90", "getEnd", "saveEnd"}

RecordingRaises(j) ==
    /\ pc[j] \in Guarded
    /\ mishaps < MaxMishaps
    /\ mishaps' = mishaps + 1
    /\ caught' = [caught EXCEPT ![j] = "recording"]
    /\ pc' = [pc EXCEPT ![j] = "getFail"]
    /\ current' = [current EXCEPT ![j] = Absent]
    /\ UNCHANGED <<row, event, future, call, client, lost>>

\* Before the try, or in its handler: the exception stays in the future, at
\* which nobody looks, and the row as it is.
Unguarded == {"get", "save", "getFail", "saveFail"}

RunnerRaises(j) ==
    /\ pc[j] \in Unguarded
    /\ mishaps < MaxMishaps
    /\ mishaps' = mishaps + 1
    /\ lost' = lost \cup {j}
    /\ pc' = [pc EXCEPT ![j] = "done"]
    /\ future' = [future EXCEPT ![j] = "finished"]
    /\ current' = [current EXCEPT ![j] = Absent]
    /\ caught' = [caught EXCEPT ![j] = "none"]
    /\ UNCHANGED <<row, event, call, client>>

\* cancel raises after it has set the event and cancelled the future.
CancelRaises(c) ==
    /\ client[c].at \in {"read", "save"}
    /\ mishaps < MaxMishaps
    /\ mishaps' = mishaps + 1
    /\ lost' = lost \cup {client[c].job}
    /\ client' = [client EXCEPT ![c] = Idle]
    /\ UNCHANGED <<row, event, future, pc, current, call, caught>>

-----------------------------------------------------------------------------
(* The server process is killed and started again: a new JobManager has    *)
(* empty tables, and nothing reconciles the rows it finds.                 *)

Restart ==
    /\ mishaps < MaxMishaps
    /\ mishaps' = mishaps + 1
    /\ event' = [j \in Jobs |-> FALSE]
    /\ future' = [j \in Jobs |-> "none"]
    /\ pc' = [j \in Jobs |-> IF row[j].status = "absent" THEN "idle" ELSE "killed"]
    /\ call' = [j \in Jobs |-> IF call[j] = "active" THEN "killed" ELSE call[j]]
    /\ client' = [c \in Clients |-> Idle]
    /\ current' = [j \in Jobs |-> Absent]
    /\ caught' = [j \in Jobs |-> "none"]
    /\ UNCHANGED <<row, lost>>

Runner(j) ==
    \/ Start(j) \/ BeginRead(j) \/ BeginSave(j) \/ Enter(j)
    \/ Progress10Read(j) \/ Progress10Save(j)
    \/ DispatchReturns(j) \/ DispatchRaises(j)
    \/ Progress90Read(j) \/ Progress90Save(j)
    \/ EndRead(j) \/ EndDecide(j) \/ EndSave(j)
    \/ FailRead(j) \/ FailSave(j)

\* The rest of a call a client has begun.
Serve(c) ==
    SubmitRegister(c) \/ CancelFuture(c) \/ CancelRead(c) \/ CancelSave(c)

Next ==
    \/ \E c \in Clients, j \in Jobs : SubmitSave(c, j) \/ CancelSignal(c, j)
    \/ \E c \in Clients : Serve(c)
    \/ \E j \in Jobs : Runner(j) \/ RecordingRaises(j) \/ RunnerRaises(j)
    \/ \E c \in Clients : CancelRaises(c)
    \/ Restart

Spec == Init /\ [][Next]_vars

\* A thread that can take a step takes it: the pool runs what it was given,
\* an operation ends (every ADB command has a time-out), and a call that was
\* begun is carried out.  Nobody has to submit or cancel anything, and nothing
\* has to raise.
Fairness == /\ \A j \in Jobs : WF_vars(Runner(j))
            /\ \A c \in Clients : WF_vars(Serve(c))

FairSpec == Spec /\ Fairness

-----------------------------------------------------------------------------
(* What a job row promises to whoever polls it. *)

\* "Prevents queued work": while a row says cancelled, the operation is not
\* running and cannot start, however cancel and the runner interleave, and
\* although the runner may still rewrite the row.
CancelledNotExecuting ==
    \A j \in Jobs : row[j].status = "cancelled" => pc[j] \notin Executing

\* A terminal row tells what happened to the operation: a result only of an
\* operation that returned, the operation's exception only of one that raised.
\* A row may say failed although the operation returned, was left out or never
\* began, but then its error is that of a call that records, and an operation
\* that raised is never said to have failed of such a call.
TerminalTruth ==
    \A j \in Jobs :
        /\ row[j].status = "completed" =>
              /\ call[j] = "returned"
              /\ row[j].result = "data" /\ row[j].error = "none"
              /\ row[j].progress = 100
        /\ row[j].status = "failed" =>
              /\ row[j].result = "none"
              /\ \/ row[j].error = "operation" /\ call[j] = "raised"
                 \/ /\ row[j].error = "recording"
                    /\ call[j] \in {"none", "skipped", "returned"}
        /\ row[j].status = "cancelled" =>
              row[j].result = "none" /\ row[j].error = "none"

\* A terminal row is rewritten only for a job whose cancellation was asked
\* for in this process.
FinalUnlessCancelled ==
    [][\A j \in Jobs : row[j].status \in Terminal /\ ~event[j] => row'[j] = row[j]]_vars

\* "Background job failure: persist failed state and error details."  The code
\* breaks this: a cancel that read `running` saves its copy, marked
\* cancelling, after the runner saved the failure, and nothing writes the row
\* again.
FailurePersisted ==
    \A j \in Jobs : pc[j] = "done" /\ call[j] = "raised" =>
        row[j].status = "failed" /\ row[j].error = "operation"

\* A registered job that nobody cancels reaches a terminal row, whatever the
\* other jobs and the cancellations of them do, and although a call that records
\* raises; unless the handler's own calls raise too, or those before the try, or
\* its process is killed.
UncancelledEnds ==
    \A j \in Jobs : Registered(j) ~>
        (event[j] \/ row[j].status \in Terminal \/ j \in lost \/ pc[j] = "killed")

\* A cancellation is carried out: the job's future leaves the pool, and a job
\* that was still queued gets a cancelled row, unless the cancel itself raised
\* on the way; or the process is killed.
CancelSettles ==
    \A j \in Jobs :
        /\ event[j] ~> future[j] \in {"finished", "cancelled"} \/ pc[j] = "killed"
        /\ future[j] = "cancelled" ~>
              row[j].status = "cancelled" \/ j \in lost \/ pc[j] = "killed"

\* Whatever was registered comes to an end, by its own or as it was told to.
JobsSettle == UncancelledEnds /\ CancelSettles
=============================================================================
