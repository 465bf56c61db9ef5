----------------------------- MODULE AsyncProc ------------------------------
(***************************************************************************)
(* core/asyncproc.py with the start and _terminate_tree that               *)
(* runtimefix360.py puts in its place: AsyncProcessSupervisor.run, its two *)
(* pumps, the bounded queue between them and the consumer, and the child   *)
(* process at the other end of the pipes.                                  *)
(*                                                                         *)
(* A line is counted, not read; the output limit is a number of lines.  A  *)
(* call is cancelled at most once, by its time-out or by its caller.       *)
(***************************************************************************)
EXTENDS Naturals, Sequences, FiniteSets

LOCAL INSTANCE Folds

CONSTANTS Calls,           \* calls of run
          MaxConcurrency,  \* slots of the semaphore
          QueueSize,       \* asyncio.Queue(maxsize)
          PipeSize,        \* lines a pipe of the operating system holds
          OutputLimit,     \* lines before _append raises
          MaxLines         \* bound: lines the processes write in all

\* Assumed by the modules that give the constants values.
AsyncProcAssumption ==
    /\ MaxConcurrency \in Nat \ {0} /\ QueueSize \in Nat \ {0}
    /\ PipeSize \in Nat \ {0} /\ OutputLimit \in Nat /\ MaxLines \in Nat

VARIABLES call,    \* where each call of run is, why it was cancelled, its result
          child,   \* its process
          pump,    \* its pump of each stream
          queue,   \* its queue: lines and the pumps' end marks
          kept     \* lines in stdout_chunks and in stderr_chunks

vars == <<call, child, pump, queue, kept>>

Streams == {"stdout", "stderr"}
NoPumps == [s \in Streams |-> "none"]
NoLines == [s \in Streams |-> 0]
\* long: the streams on which a line longer than readline takes was met.
NoChild == [is |-> "none", code |-> 0, open |-> FALSE, term |-> FALSE,
            pipe |-> NoLines, written |-> NoLines, long |-> {}]
NewCall == [at |-> "idle", cause |-> "none", ends |-> 0, over |-> FALSE, result |-> "none"]

\* Inside `async with self._semaphore`.
Holding(c) == call[c].at \in {"start", "consume", "gather", "exit", "terminate", "grace"}

\* What _append has counted and kept.
Kept(c) == kept[c]["stdout"] + kept[c]["stderr"]

TypeOK ==
    /\ call \in [Calls ->
          [at : {"idle", "queued", "start", "consume", "gather", "exit", "terminate",
                 "grace", "done"},
           cause : {"none", "timeout", "cancel"}, ends : 0 .. 2, over : BOOLEAN,
           result : {"none", "ok", "failed", "timed_out", "raised"}]]
    /\ child \in [Calls ->
          [is : {"none", "running", "ended"}, code : 0 .. 1, open : BOOLEAN,
           term : BOOLEAN, pipe : [Streams -> 0 .. PipeSize], written : [Streams -> Nat],
           long : SUBSET Streams]]
    /\ pump \in [Calls -> [Streams -> {"none", "read", "put", "end", "done"}]]
    /\ \A c \in Calls : queue[c] \in Seq({"line", "end"}) /\ Len(queue[c]) <= QueueSize
    /\ kept \in [Calls -> [Streams -> 0 .. OutputLimit]]
    /\ \A c \in Calls : Kept(c) <= OutputLimit

Init ==
    /\ call = [c \in Calls |-> NewCall]
    /\ child = [c \in Calls |-> NoChild]
    /\ pump = [c \in Calls |-> NoPumps]
    /\ queue = [c \in Calls |-> <<>>]
    /\ kept = [c \in Calls |-> NoLines]

At(c, step) == call[c].at = step
Goto(c, step) == call' = [call EXCEPT ![c].at = step]
\* What the caller gets; the queue and the pumps are garbage.
Return(c, result) ==
    /\ call' = [call EXCEPT ![c].at = "done", ![c].result = result, ![c].ends = 0]
    /\ pump' = [pump EXCEPT ![c] = NoPumps]
    /\ queue' = [queue EXCEPT ![c] = <<>>]
Alive(c) == child[c].is = "running"

-----------------------------------------------------------------------------
(* The call: run, _consume, stream *)

Request(c) ==
    /\ At(c, "idle")
    /\ Goto(c, "queued")
    /\ UNCHANGED <<child, pump, queue, kept>>

Acquire(c) ==
    /\ At(c, "queued")
    /\ Cardinality({d \in Calls : Holding(d)}) < MaxConcurrency
    /\ Goto(c, "start")
    /\ UNCHANGED <<child, pump, queue, kept>>

\* start: the process and, at the first step of the generator, the pumps.
Start(c) ==
    /\ At(c, "start")
    /\ child' = [child EXCEPT ![c] = [NoChild EXCEPT !.is = "running", !.open = TRUE]]
    /\ pump' = [pump EXCEPT ![c] = [s \in Streams |-> "read"]]
    /\ Goto(c, "consume")
    /\ UNCHANGED <<queue, kept>>

\* The program is not there; or drain raises because the child closed its
\* standard input, and then nobody looks after the child.
StartRaises(c) ==
    /\ At(c, "start")
    /\ \/ UNCHANGED child
       \/ child' = [child EXCEPT ![c] = [NoChild EXCEPT !.is = "running"]]
    /\ Return(c, "raised")
    /\ UNCHANGED kept

\* queue.get: after the second end mark the pumps have ended too.
Consume(c) ==
    /\ At(c, "consume") /\ queue[c] # <<>>
    /\ queue' = [queue EXCEPT ![c] = Tail(@)]
    /\ IF Head(queue[c]) = "line" THEN UNCHANGED call
       ELSE call' = [call EXCEPT ![c].ends = @ + 1,
                                 ![c].at = IF call[c].ends = 1 THEN "exit" ELSE @]
    /\ UNCHANGED <<child, pump, kept>>

\* process.wait returns.
Finish(c) ==
    /\ At(c, "exit") /\ ~Alive(c)
    /\ Return(c, IF child[c].code = 0 THEN "ok" ELSE "failed")
    /\ UNCHANGED <<child, kept>>

\* The time-out or the caller cancels _consume: in queue.get, whose finally
\* clause then gathers the pumps, or in process.wait.
Interrupt(c, cause) ==
    /\ call[c].at \in {"consume", "exit"}
    /\ call' = [call EXCEPT ![c].cause = cause,
                            ![c].at = IF @ = "consume" THEN "gather" ELSE "terminate"]
    /\ UNCHANGED <<child, pump, queue, kept>>

\* The caller cancels a call that waits for a slot.
GiveUp(c) ==
    /\ At(c, "queued")
    /\ call' = [call EXCEPT ![c].at = "done", ![c].cause = "cancel", ![c].result = "raised"]
    /\ UNCHANGED <<child, pump, queue, kept>>

Gather(c) ==
    /\ At(c, "gather") /\ \A s \in Streams : pump[c][s] = "done"
    /\ Goto(c, "terminate")
    /\ UNCHANGED <<child, pump, queue, kept>>

\* What run returns, or raises, when it was interrupted.
Interrupted(c) == Return(c, IF call[c].cause = "timeout" THEN "timed_out" ELSE "raised")

\* _terminate_tree: nothing to do, or SIGTERM to the group.
Terminate(c) ==
    /\ At(c, "terminate")
    /\ IF Alive(c)
       THEN /\ child' = [child EXCEPT ![c].term = TRUE]
            /\ Goto(c, "grace")
            /\ UNCHANGED <<pump, queue>>
       ELSE Interrupted(c) /\ UNCHANGED child
    /\ UNCHANGED kept

\* The child ended in time, or SIGKILL ends it.
Grace(c) ==
    /\ At(c, "grace")
    /\ child' = [child EXCEPT ![c].is = "ended", ![c].code = IF Alive(c) THEN 1 ELSE @,
                              ![c].open = FALSE, ![c].pipe = NoLines]
    /\ Interrupted(c)
    /\ UNCHANGED kept

-----------------------------------------------------------------------------
(* The pumps *)

\* Faulty: _append keeps a line before it counts it.
PumpReadKeeps(c, s) ==
    /\ pump[c][s] = "read" /\ child[c].pipe[s] > 0
    /\ child' = [child EXCEPT ![c].pipe[s] = @ - 1]
    /\ kept' = [kept EXCEPT ![c][s] = @ + 1]
    /\ call' = [call EXCEPT ![c].over = Kept(c) >= OutputLimit]
    /\ pump' = [pump EXCEPT ![c][s] = IF Kept(c) < OutputLimit THEN "put" ELSE "end"]
    /\ UNCHANGED queue

\* A line: _append counts it before it keeps it, and the pump of a line over
\* the limit ends with an exception that gather drops.
PumpRead(c, s) ==
    /\ pump[c][s] = "read" /\ child[c].pipe[s] > 0
    /\ child' = [child EXCEPT ![c].pipe[s] = @ - 1]
    /\ IF Kept(c) < OutputLimit /\ ~call[c].over
       THEN /\ kept' = [kept EXCEPT ![c][s] = @ + 1]
            /\ pump' = [pump EXCEPT ![c][s] = "put"]
            /\ UNCHANGED call
       ELSE /\ call' = [call EXCEPT ![c].over = TRUE]
            /\ pump' = [pump EXCEPT ![c][s] = "end"]
            /\ UNCHANGED kept
    /\ UNCHANGED queue

\* A line longer than readline takes: readline drops it and raises, the pump
\* ends, and gather drops the exception.  Nobody reads the stream any more.
PumpBreaks(c, s) ==
    /\ pump[c][s] = "read" /\ child[c].pipe[s] > 0
    /\ child' = [child EXCEPT ![c].pipe[s] = @ - 1, ![c].long = @ \cup {s}]
    /\ pump' = [pump EXCEPT ![c][s] = "end"]
    /\ UNCHANGED <<call, queue, kept>>

\* Faulty: a pump ends with the process.
AtEofEarly(c, s) == ~Alive(c)

\* Everything was read and nobody holds the other end.
AtEof(c, s) == child[c].pipe[s] = 0 /\ ~child[c].open

PumpEof(c, s) ==
    /\ pump[c][s] = "read" /\ AtEof(c, s)
    /\ pump' = [pump EXCEPT ![c][s] = "end"]
    /\ UNCHANGED <<call, child, queue, kept>>

\* queue.put waits for room.
PumpPut(c, s) ==
    /\ pump[c][s] \in {"put", "end"} /\ Len(queue[c]) < QueueSize
    /\ queue' = [queue EXCEPT ![c] = Append(@, IF pump[c][s] = "put" THEN "line" ELSE "end")]
    /\ pump' = [pump EXCEPT ![c][s] = IF @ = "put" THEN "read" ELSE "done"]
    /\ UNCHANGED <<call, child, kept>>

Pump(c) == \E s \in Streams :
    PumpRead(c, s) \/ PumpBreaks(c, s) \/ PumpEof(c, s) \/ PumpPut(c, s)

-----------------------------------------------------------------------------
(* The child process: writes, closes its output, ends, or never does *)

LOCAL Add(x, y) == x + y
Written == MapThenFoldSet(Add, 0, LAMBDA p : child[p[1]].written[p[2]],
                          LAMBDA S : CHOOSE p \in S : TRUE, Calls \X Streams)

ChildWrites(c, s) ==
    /\ Alive(c) /\ child[c].open
    /\ child[c].pipe[s] < PipeSize /\ Written < MaxLines
    /\ child' = [child EXCEPT ![c].pipe[s] = @ + 1, ![c].written[s] = @ + 1]
    /\ UNCHANGED <<call, pump, queue, kept>>

ChildCloses(c) ==
    /\ Alive(c) /\ child[c].open
    /\ child' = [child EXCEPT ![c].open = FALSE]
    /\ UNCHANGED <<call, pump, queue, kept>>

\* By itself, or by SIGTERM, which it may ignore; its output closes with it.
ChildEnds(c) ==
    /\ Alive(c)
    /\ \E code \in 0 .. 1 :
          /\ child[c].term => code = 1
          /\ child' = [child EXCEPT ![c].is = "ended", ![c].code = code, ![c].open = FALSE]
    /\ UNCHANGED <<call, pump, queue, kept>>

Child(c) == ChildEnds(c) \/ ChildCloses(c) \/ \E s \in Streams : ChildWrites(c, s)

-----------------------------------------------------------------------------

\* What the event loop runs by itself.
Loop(c) ==
    \/ Acquire(c) \/ Start(c) \/ Consume(c) \/ Finish(c)
    \/ Gather(c) \/ Terminate(c) \/ Grace(c) \/ Pump(c)

Next == \E c \in Calls :
    \/ Request(c) \/ StartRaises(c) \/ GiveUp(c)
    \/ Interrupt(c, "timeout") \/ Interrupt(c, "cancel")
    \/ Loop(c) \/ Child(c)

Spec == Init /\ [][Next]_vars

-----------------------------------------------------------------------------
(* Properties *)

\* A process runs only while its call holds a slot, so that no more than
\* MaxConcurrency of them do; the ones start lost are the exception.
OnlySupervisedRun ==
    \A c \in Calls : Alive(c) => Holding(c) \/ (call[c].result = "raised" /\ call[c].cause = "none")

\* A result that says ok is that of a process that ended by itself with code 0,
\* and carries all that it wrote on each stream, unless the output limit was
\* passed or that stream had a line longer than readline takes; such a line costs
\* the other stream nothing.  Of neither does the result tell.
OkIsWhole ==
    \A c \in Calls : call[c].result = "ok" =>
        /\ child[c].is = "ended" /\ child[c].code = 0 /\ ~child[c].term
        /\ \A s \in Streams :
              kept[c][s] = child[c].written[s] \/ call[c].over \/ s \in child[c].long

\* However full the queue, the call of a process that has ended returns, if it
\* is not interrupted; whatever was written, on whichever stream.
EndsWithItsProcess ==
    \A c \in Calls :
        child[c].is = "ended" /\ call[c].cause = "none" ~> At(c, "done") \/ call[c].cause # "none"

\* A call that timed out ends its process and returns (CHANGELOG: "cancellation,
\* timeout, output backpressure, and process-tree cleanup").
TimedOutReturns ==
    \A c \in Calls : call[c].cause = "timeout" ~> At(c, "done")
=============================================================================
