------------------------------- MODULE JobsProofs -------------------------------
(***************************************************************************)
(* What MCJobs checks of the web server's jobs and of the submissions to a *)
(* pool, for any number of jobs, clients, pool threads, restarts and       *)
(* exceptions, members and submissions.  (LabJobsProofs has the lab jobs.) *)
(*   TypeCorrect             Spec => []TypeOK                              *)
(*   CancelledNeverExecutes  Spec => []CancelledNotExecuting               *)
(*   RowsTellTheTruth        Spec => []TerminalTruth                       *)
(*   TerminalRowsStay        Spec => FinalUnlessCancelled                  *)
(*   PoolsAreAccountedFor    MCSpec => []JobsAccountedFor                  *)
(***************************************************************************)
EXTENDS MCJobs, FiniteSetTheorems, WellFoundedInduction, TLAPS

-----------------------------------------------------------------------------
(* A row never says cancelled while its operation runs or can still start. *)

\* The program points before execute_job looks at the event.
NotEntered == {"idle", "get", "save", "enter"}

\* A job about to be registered is known to one client only.
RegisterInv ==
    /\ \A c \in Clients : client[c].at = "register" =>
          /\ row[client[c].job].status # "absent"
          /\ future[client[c].job] = "none"
          /\ pc[client[c].job] = "idle"
    /\ \A c, d \in Clients :
          /\ client[c].at = "register" /\ client[d].at = "register"
          /\ client[c].job = client[d].job
          => c = d

\* Rows, futures and program points go together.
PoolInv ==
    \A j \in Jobs :
        /\ row[j].status = "absent" => future[j] = "none" /\ pc[j] = "idle"
        /\ future[j] = "pending" => pc[j] = "idle"

\* Only a row the runner has not yet rewritten says queued.
QueuedInv ==
    \A j \in Jobs :
        /\ row[j].status = "queued" => pc[j] \in {"idle", "get", "save", "done", "killed"}
        /\ pc[j] \in {"save", "save10", "save90", "decide", "saveEnd", "saveFail"}
             => current[j].status \notin {"absent", "queued"}
        /\ pc[j] = "save" => current[j].status = "running"
        /\ pc[j] = "save10" => current[j].status # "cancelled"

\* A row, or a cancel's copy of one, that says cancelled was marked after the
\* event was set and before the runner entered, or by the runner at its end.
CancelInv ==
    /\ \A c \in Clients : client[c].at \in {"future", "read", "save"} =>
          event[client[c].job] /\ future[client[c].job] # "none"
    /\ \A c \in Clients : client[c].at = "save" =>
          client[c].row.status \in {"cancelled", "cancelling"}
    /\ \A c \in Clients : client[c].at = "save" /\ client[c].row.status = "cancelled" =>
          pc[client[c].job] \notin Executing
    /\ \A j \in Jobs : row[j].status = "cancelled" =>
          /\ pc[j] \notin Executing
          /\ pc[j] \in NotEntered => event[j]

IInv == TypeOK /\ RegisterInv /\ PoolInv /\ QueuedInv /\ CancelInv

-----------------------------------------------------------------------------

\* The rows the marks make of a row are rows.
LEMMA MarksAreRows ==
    ASSUME NEW r \in Rows
    PROVE  /\ CancelMark(r) \in Rows
           /\ MarkRunning(r) \in Rows
           /\ MarkProgress(r, 10) \in Rows
           /\ MarkProgress(r, 90) \in Rows
           /\ \A cause \in Causes : MarkFailed(r, cause) \in Rows
           /\ \A b \in BOOLEAN : MarkEnd(r, b) \in Rows
<1> USE DEF Rows, Live, Terminal
<1>1. CancelMark(r) \in Rows
  <2>1. CASE r.status = "queued"
    BY <2>1 DEF CancelMark
  <2>2. CASE r.status # "queued"
    BY <2>2 DEF CancelMark
  <2>3. QED
    BY <2>1, <2>2
<1>2. MarkRunning(r) \in Rows
    BY DEF MarkRunning
<1>2a. ASSUME NEW cause \in Causes PROVE MarkFailed(r, cause) \in Rows
    BY <1>2a DEF MarkFailed
<1>3. MarkProgress(r, 10) \in Rows /\ MarkProgress(r, 90) \in Rows
    BY DEF MarkProgress
<1>4. ASSUME NEW b \in BOOLEAN PROVE MarkEnd(r, b) \in Rows
  <2>1. CASE b = TRUE
    BY <2>1 DEF MarkEnd
  <2>2. CASE b = FALSE
    BY <2>2 DEF MarkEnd
  <2>3. QED
    BY <2>1, <2>2
<1>5. QED
    BY <1>1, <1>2, <1>2a, <1>3, <1>4

\* The type invariant holds initially and every step keeps it.
LEMMA TypeInit == Init => TypeOK
<1> SUFFICES ASSUME Init PROVE TypeOK
    OBVIOUS
<1>1. Absent \in Rows /\ "none" \in Causes
    BY DEF Absent, Rows, Live, Terminal, Causes
<1>2. mishaps \in 0 .. MaxMishaps
    BY JobManagerAssumption DEF Init
<1>3. QED
    BY <1>1, <1>2 DEF Init, TypeOK, RunnerPCs

\* Every step of a client, of the pool and of a restart keeps the types.
LEMMA TypeNext == TypeOK /\ [Next]_vars => TypeOK'
<1> SUFFICES ASSUME TypeOK, [Next]_vars PROVE TypeOK'
    OBVIOUS
<1> USE DEF TypeOK
<1>0. Absent \in Rows /\ {"none", "operation", "recording"} \subseteq Causes
    BY DEF Absent, Rows, Live, Terminal, Causes
<1>1. ASSUME NEW c \in Clients, NEW j \in Jobs, SubmitSave(c, j) PROVE TypeOK'
  <2>1. Fresh \in Rows
    BY DEF Fresh, Absent, Rows, Live, Terminal, Causes
  <2>2. QED
    BY <1>1, <2>1 DEF SubmitSave
<1>2. ASSUME NEW c \in Clients, NEW j \in Jobs, CancelSignal(c, j) PROVE TypeOK'
    BY <1>2 DEF CancelSignal
<1>3. ASSUME NEW c \in Clients, SubmitRegister(c) PROVE TypeOK'
    BY <1>3 DEF SubmitRegister
<1>4. ASSUME NEW c \in Clients, CancelFuture(c) PROVE TypeOK'
  <2>1. client[c] \in [at : {"register", "future", "read"}, job : Jobs]
    BY <1>4 DEF CancelFuture, Idle
  <2>2. [client[c] EXCEPT !.at = "read"] \in [at : {"register", "future", "read"}, job : Jobs]
    BY <2>1
  <2>3. client' = [client EXCEPT ![c] = [client[c] EXCEPT !.at = "read"]]
    BY <1>4 DEF CancelFuture
  <2>4. future' = [future EXCEPT ![client[c].job] = "cancelled"] \/ future' = future
    BY <1>4 DEF CancelFuture
  <2>5. QED
    BY <1>4, <2>2, <2>3, <2>4 DEF CancelFuture
<1>5. ASSUME NEW c \in Clients, CancelRead(c) PROVE TypeOK'
    BY <1>5, MarksAreRows DEF CancelRead, Idle
<1>6. ASSUME NEW c \in Clients, CancelSave(c) PROVE TypeOK'
    BY <1>6 DEF CancelSave, Idle
<1>7. ASSUME NEW j \in Jobs, Runner(j) PROVE TypeOK'
  <2>1. CASE Start(j)
    BY <2>1 DEF Start, RunnerPCs
  <2>2. CASE BeginRead(j)
    BY <2>2, MarksAreRows DEF BeginRead, ReadRow, RunnerPCs
  <2>3. CASE BeginSave(j)
    BY <1>0, <2>3 DEF BeginSave, SaveRow, RunnerPCs
  <2>4. CASE Enter(j)
    BY <2>4 DEF Enter, RunnerPCs
  <2>5. CASE Progress10Read(j)
    BY <2>5, MarksAreRows DEF Progress10Read, ReadRow, RunnerPCs
  <2>6. CASE Progress10Save(j)
    BY <1>0, <2>6 DEF Progress10Save, SaveRow, RunnerPCs
  <2>7. CASE DispatchReturns(j)
    BY <2>7 DEF DispatchReturns, RunnerPCs
  <2>8. CASE DispatchRaises(j)
    BY <1>0, <2>8 DEF DispatchRaises, RunnerPCs
  <2>9. CASE Progress90Read(j)
    BY <2>9, MarksAreRows DEF Progress90Read, ReadRow, RunnerPCs
  <2>10. CASE Progress90Save(j)
    BY <1>0, <2>10 DEF Progress90Save, SaveRow, RunnerPCs
  <2>11. CASE EndRead(j)
    BY <2>11 DEF EndRead, ReadRow, RunnerPCs
  <2>12. CASE EndDecide(j)
    BY <2>12, MarksAreRows DEF EndDecide, RunnerPCs
  <2>13. CASE EndSave(j)
    BY <1>0, <2>13 DEF EndSave, SaveRow, RunnerPCs
  <2>14. CASE FailRead(j)
    BY <2>14, MarksAreRows DEF FailRead, ReadRow, RunnerPCs
  <2>15. CASE FailSave(j)
    BY <1>0, <2>15 DEF FailSave, SaveRow, RunnerPCs
  <2>16. QED
    BY <1>7, <2>1, <2>2, <2>3, <2>4, <2>5, <2>6, <2>7, <2>8, <2>9, <2>10, <2>11, <2>12, <2>13,
       <2>14, <2>15
       DEF Runner
<1>8. CASE Restart
    BY <1>0, <1>8, JobManagerAssumption DEF Restart, RunnerPCs
<1>9. ASSUME NEW j \in Jobs, RecordingRaises(j) PROVE TypeOK'
    BY <1>0, <1>9, JobManagerAssumption DEF RecordingRaises, RunnerPCs
<1>10. ASSUME NEW j \in Jobs, RunnerRaises(j) PROVE TypeOK'
    BY <1>0, <1>10, JobManagerAssumption DEF RunnerRaises, RunnerPCs
<1>11. ASSUME NEW c \in Clients, CancelRaises(c) PROVE TypeOK'
    BY <1>11, JobManagerAssumption DEF CancelRaises, Idle
<1>12. CASE UNCHANGED vars
    BY <1>12 DEF vars
<1>13. QED
    BY <1>1, <1>2, <1>3, <1>4, <1>5, <1>6, <1>7, <1>8, <1>9, <1>10, <1>11, <1>12 DEF Next, Serve

\* Every variable of the job manager keeps its type.
THEOREM TypeCorrect == Spec => []TypeOK
    BY TypeInit, TypeNext, PTL DEF Spec

-----------------------------------------------------------------------------

\* What relates a row to its event, its future and its runner: the
\* strengthening that makes CancelledNotExecuting inductive.
StateInv == RegisterInv /\ PoolInv /\ QueuedInv /\ CancelInv

\* The strengthening holds in the initial state.
LEMMA StateInit == Init => StateInv
    BY
       DEF Init, StateInv, RegisterInv, PoolInv, QueuedInv, CancelInv, Absent, Idle, Executing, NotEntered

\* Every step keeps the strengthening: a cancel that read `queued` saves
\* `cancelled` with the event set, so a runner that has not entered skips.
LEMMA StateNext == TypeOK /\ StateInv /\ [Next]_vars => StateInv'
<1> SUFFICES ASSUME TypeOK, StateInv, [Next]_vars PROVE StateInv'
    OBVIOUS
<1> USE DEF TypeOK, StateInv
<1>1. ASSUME NEW c \in Clients, NEW j \in Jobs, SubmitSave(c, j) PROVE StateInv'
  <2>1. RegisterInv'
    BY <1>1 DEF SubmitSave, Fresh, Absent, RegisterInv, PoolInv
  <2>2. PoolInv'
    BY <1>1 DEF SubmitSave, Absent, PoolInv
  <2>3. QueuedInv'
    BY <1>1 DEF SubmitSave, Absent, QueuedInv, PoolInv
  <2>4. CancelInv'
    BY <1>1 DEF SubmitSave, Fresh, CancelInv
  <2>5. QED
    BY <2>1, <2>2, <2>3, <2>4
<1>2. ASSUME NEW c \in Clients, NEW j \in Jobs, CancelSignal(c, j) PROVE StateInv'
  <2>1. RegisterInv'
    BY <1>2 DEF CancelSignal, Registered, RegisterInv
  <2>2. PoolInv'
    BY <1>2 DEF CancelSignal, Registered, PoolInv
  <2>3. QueuedInv'
    BY <1>2 DEF CancelSignal, Registered, QueuedInv
  <2>4. CancelInv'
    BY <1>2 DEF CancelSignal, Registered, CancelInv
  <2>5. QED
    BY <2>1, <2>2, <2>3, <2>4
<1>3. ASSUME NEW c \in Clients, SubmitRegister(c) PROVE StateInv'
  <2>1. RegisterInv'
    BY <1>3 DEF SubmitRegister, Idle, RegisterInv
  <2>2. PoolInv'
    BY <1>3 DEF SubmitRegister, PoolInv, RegisterInv
  <2>3. QueuedInv'
    BY <1>3 DEF SubmitRegister, QueuedInv
  <2>4. CancelInv'
    BY <1>3 DEF SubmitRegister, Idle, CancelInv
  <2>5. QED
    BY <2>1, <2>2, <2>3, <2>4
<1>4. ASSUME NEW c \in Clients, CancelFuture(c) PROVE StateInv'
  <2>1. RegisterInv'
    BY <1>4 DEF CancelFuture, RegisterInv
  <2>2. PoolInv'
    BY <1>4 DEF CancelFuture, PoolInv
  <2>3. QueuedInv'
    BY <1>4 DEF CancelFuture, QueuedInv
  <2>4. CancelInv'
    BY <1>4 DEF CancelFuture, CancelInv
  <2>5. QED
    BY <2>1, <2>2, <2>3, <2>4
<1>5. ASSUME NEW c \in Clients, CancelRead(c) PROVE StateInv'
  <2>1. RegisterInv'
    BY <1>5 DEF CancelRead, CancelMark, Idle, RegisterInv
  <2>2. PoolInv'
    BY <1>5 DEF CancelRead, CancelMark, PoolInv
  <2>3. QueuedInv'
    BY <1>5 DEF CancelRead, CancelMark, QueuedInv
  <2>4. CancelInv'
    BY <1>5 DEF CancelRead, CancelMark, Idle, Executing, CancelInv, QueuedInv
  <2>5. QED
    BY <2>1, <2>2, <2>3, <2>4
<1>6. ASSUME NEW c \in Clients, CancelSave(c) PROVE StateInv'
  <2>1. RegisterInv'
    BY <1>6 DEF CancelSave, Idle, RegisterInv, CancelInv
  <2>2. PoolInv'
    BY <1>6 DEF CancelSave, PoolInv, CancelInv
  <2>3. QueuedInv'
    BY <1>6 DEF CancelSave, QueuedInv, CancelInv
  <2>4. CancelInv'
    BY <1>6 DEF CancelSave, Idle, CancelInv
  <2>5. QED
    BY <2>1, <2>2, <2>3, <2>4
<1>7. ASSUME NEW j \in Jobs, Start(j) PROVE StateInv'
  <2>1. RegisterInv'
    BY <1>7 DEF Start, RegisterInv
  <2>2. PoolInv'
    BY <1>7 DEF Start, PoolInv
  <2>3. QueuedInv'
    BY <1>7 DEF Start, QueuedInv
  <2>4. CancelInv'
    BY <1>7 DEF Start, Executing, NotEntered, CancelInv, PoolInv
  <2>5. QED
    BY <2>1, <2>2, <2>3, <2>4
<1>8. ASSUME NEW j \in Jobs, BeginRead(j) PROVE StateInv'
  <2>1. RegisterInv'
    BY <1>8 DEF BeginRead, ReadRow, MarkRunning, RegisterInv
  <2>2. PoolInv'
    BY <1>8 DEF BeginRead, ReadRow, MarkRunning, PoolInv
  <2>3. QueuedInv'
    BY <1>8 DEF BeginRead, ReadRow, MarkRunning, QueuedInv
  <2>4. CancelInv'
    BY <1>8 DEF BeginRead, ReadRow, MarkRunning, Executing, NotEntered, CancelInv
  <2>5. QED
    BY <2>1, <2>2, <2>3, <2>4
<1>9. ASSUME NEW j \in Jobs, BeginSave(j) PROVE StateInv'
  <2>1. RegisterInv'
    BY <1>9 DEF BeginSave, SaveRow, RegisterInv
  <2>2. PoolInv'
    BY <1>9 DEF BeginSave, SaveRow, PoolInv, QueuedInv
  <2>3. QueuedInv'
    BY <1>9 DEF BeginSave, SaveRow, QueuedInv
  <2>4. CancelInv'
    BY <1>9 DEF BeginSave, SaveRow, Executing, CancelInv, QueuedInv
  <2>5. QED
    BY <2>1, <2>2, <2>3, <2>4
<1>10. ASSUME NEW j \in Jobs, Enter(j) PROVE StateInv'
  <2>1. RegisterInv'
    BY <1>10 DEF Enter, Idle, RegisterInv
  <2>2. PoolInv'
    BY <1>10 DEF Enter, PoolInv
  <2>3. QueuedInv'
    BY <1>10 DEF Enter, QueuedInv
  <2>4. CancelInv'
    BY <1>10 DEF Enter, Idle, Executing, NotEntered, CancelInv
  <2>5. QED
    BY <2>1, <2>2, <2>3, <2>4
<1>11. ASSUME NEW j \in Jobs, Progress10Read(j) PROVE StateInv'
  <2>1. RegisterInv'
    BY <1>11 DEF Progress10Read, ReadRow, RegisterInv
  <2>2. PoolInv'
    BY <1>11 DEF Progress10Read, ReadRow, PoolInv
  <2>3. QueuedInv'
    BY <1>11 DEF Progress10Read, ReadRow, MarkProgress, Executing, QueuedInv, PoolInv, CancelInv
  <2>4. CancelInv'
    BY <1>11 DEF Progress10Read, ReadRow, Executing, CancelInv
  <2>5. QED
    BY <2>1, <2>2, <2>3, <2>4
<1>12. ASSUME NEW j \in Jobs, Progress10Save(j) PROVE StateInv'
  <2>1. RegisterInv'
    BY <1>12 DEF Progress10Save, SaveRow, RegisterInv
  <2>2. PoolInv'
    BY <1>12 DEF Progress10Save, SaveRow, PoolInv, QueuedInv
  <2>3. QueuedInv'
    BY <1>12 DEF Progress10Save, SaveRow, QueuedInv
  <2>4. CancelInv'
    BY <1>12 DEF Progress10Save, SaveRow, Executing, CancelInv, QueuedInv
  <2>5. QED
    BY <2>1, <2>2, <2>3, <2>4
<1>13. ASSUME NEW j \in Jobs, DispatchReturns(j) PROVE StateInv'
  <2>1. RegisterInv'
    BY <1>13 DEF DispatchReturns, RegisterInv
  <2>2. PoolInv'
    BY <1>13 DEF DispatchReturns, PoolInv
  <2>3. QueuedInv'
    BY <1>13 DEF DispatchReturns, QueuedInv
  <2>4. CancelInv'
    BY <1>13 DEF DispatchReturns, Executing, CancelInv
  <2>5. QED
    BY <2>1, <2>2, <2>3, <2>4
<1>14. ASSUME NEW j \in Jobs, DispatchRaises(j) PROVE StateInv'
  <2>1. RegisterInv'
    BY <1>14 DEF DispatchRaises, RegisterInv
  <2>2. PoolInv'
    BY <1>14 DEF DispatchRaises, PoolInv
  <2>3. QueuedInv'
    BY <1>14 DEF DispatchRaises, QueuedInv
  <2>4. CancelInv'
    BY <1>14 DEF DispatchRaises, Executing, CancelInv
  <2>5. QED
    BY <2>1, <2>2, <2>3, <2>4
<1>15. ASSUME NEW j \in Jobs, Progress90Read(j) PROVE StateInv'
  <2>1. RegisterInv'
    BY <1>15 DEF Progress90Read, ReadRow, RegisterInv
  <2>2. PoolInv'
    BY <1>15 DEF Progress90Read, ReadRow, PoolInv
  <2>3. QueuedInv'
    BY <1>15 DEF Progress90Read, ReadRow, MarkProgress, QueuedInv, PoolInv
  <2>4. CancelInv'
    BY <1>15 DEF Progress90Read, ReadRow, Executing, NotEntered, CancelInv
  <2>5. QED
    BY <2>1, <2>2, <2>3, <2>4
<1>16. ASSUME NEW j \in Jobs, Progress90Save(j) PROVE StateInv'
  <2>1. RegisterInv'
    BY <1>16 DEF Progress90Save, SaveRow, RegisterInv
  <2>2. PoolInv'
    BY <1>16 DEF Progress90Save, SaveRow, PoolInv, QueuedInv
  <2>3. QueuedInv'
    BY <1>16 DEF Progress90Save, SaveRow, QueuedInv
  <2>4. CancelInv'
    BY <1>16 DEF Progress90Save, SaveRow, Executing, NotEntered, CancelInv
  <2>5. QED
    BY <2>1, <2>2, <2>3, <2>4
<1>17. ASSUME NEW j \in Jobs, EndRead(j) PROVE StateInv'
  <2>1. RegisterInv'
    BY <1>17 DEF EndRead, ReadRow, RegisterInv
  <2>2. PoolInv'
    BY <1>17 DEF EndRead, ReadRow, PoolInv
  <2>3. QueuedInv'
    BY <1>17 DEF EndRead, ReadRow, QueuedInv, PoolInv
  <2>4. CancelInv'
    BY <1>17 DEF EndRead, ReadRow, Executing, NotEntered, CancelInv
  <2>5. QED
    BY <2>1, <2>2, <2>3, <2>4
<1>18. ASSUME NEW j \in Jobs, EndDecide(j) PROVE StateInv'
  <2>1. RegisterInv'
    BY <1>18 DEF EndDecide, MarkEnd, RegisterInv
  <2>2. PoolInv'
    BY <1>18 DEF EndDecide, MarkEnd, PoolInv
  <2>3. QueuedInv'
    BY <1>18 DEF EndDecide, MarkEnd, QueuedInv
  <2>4. CancelInv'
    BY <1>18 DEF EndDecide, MarkEnd, Executing, NotEntered, CancelInv
  <2>5. QED
    BY <2>1, <2>2, <2>3, <2>4
<1>19. ASSUME NEW j \in Jobs, EndSave(j) PROVE StateInv'
  <2>1. RegisterInv'
    BY <1>19 DEF EndSave, SaveRow, RegisterInv
  <2>2. PoolInv'
    BY <1>19 DEF EndSave, SaveRow, PoolInv, QueuedInv
  <2>3. QueuedInv'
    BY <1>19 DEF EndSave, SaveRow, QueuedInv
  <2>4. CancelInv'
    BY <1>19 DEF EndSave, SaveRow, Executing, NotEntered, CancelInv
  <2>5. QED
    BY <2>1, <2>2, <2>3, <2>4
<1>20. ASSUME NEW j \in Jobs, FailRead(j) PROVE StateInv'
  <2>1. RegisterInv'
    BY <1>20 DEF FailRead, ReadRow, MarkFailed, RegisterInv
  <2>2. PoolInv'
    BY <1>20 DEF FailRead, ReadRow, MarkFailed, PoolInv
  <2>3. QueuedInv'
    BY <1>20 DEF FailRead, ReadRow, MarkFailed, QueuedInv
  <2>4. CancelInv'
    BY <1>20 DEF FailRead, ReadRow, MarkFailed, Executing, NotEntered, CancelInv
  <2>5. QED
    BY <2>1, <2>2, <2>3, <2>4
<1>21. ASSUME NEW j \in Jobs, FailSave(j) PROVE StateInv'
  <2>1. RegisterInv'
    BY <1>21 DEF FailSave, SaveRow, RegisterInv
  <2>2. PoolInv'
    BY <1>21 DEF FailSave, SaveRow, PoolInv, QueuedInv
  <2>3. QueuedInv'
    BY <1>21 DEF FailSave, SaveRow, QueuedInv
  <2>4. CancelInv'
    BY <1>21 DEF FailSave, SaveRow, Executing, NotEntered, CancelInv
  <2>5. QED
    BY <2>1, <2>2, <2>3, <2>4
<1>22. CASE Restart
  <2>1. RegisterInv'
    BY <1>22 DEF Restart, Idle, RegisterInv
  <2>2. PoolInv'
    BY <1>22 DEF Restart, PoolInv
  <2>3. QueuedInv'
    BY <1>22 DEF Restart, QueuedInv
  <2>4. CancelInv'
    BY <1>22 DEF Restart, Idle, Executing, NotEntered, CancelInv
  <2>5. QED
    BY <2>1, <2>2, <2>3, <2>4
<1>23. ASSUME NEW j \in Jobs, RecordingRaises(j) PROVE StateInv'
  <2>1. RegisterInv'
    BY <1>23 DEF RecordingRaises, Guarded, RegisterInv
  <2>2. PoolInv'
    BY <1>23 DEF RecordingRaises, Guarded, PoolInv
  <2>3. QueuedInv'
    BY <1>23 DEF RecordingRaises, Guarded, QueuedInv
  <2>4. CancelInv'
    BY <1>23 DEF RecordingRaises, Executing, NotEntered, CancelInv
  <2>5. QED
    BY <2>1, <2>2, <2>3, <2>4
<1>24. ASSUME NEW j \in Jobs, RunnerRaises(j) PROVE StateInv'
  <2>1. RegisterInv'
    BY <1>24 DEF RunnerRaises, Unguarded, RegisterInv
  <2>2. PoolInv'
    BY <1>24 DEF RunnerRaises, Unguarded, PoolInv
  <2>3. QueuedInv'
    BY <1>24 DEF RunnerRaises, QueuedInv
  <2>4. CancelInv'
    BY <1>24 DEF RunnerRaises, Executing, NotEntered, CancelInv
  <2>5. QED
    BY <2>1, <2>2, <2>3, <2>4
<1>25. ASSUME NEW c \in Clients, CancelRaises(c) PROVE StateInv'
    BY <1>25 DEF CancelRaises, Idle, RegisterInv, PoolInv, QueuedInv, CancelInv
<1>26. CASE UNCHANGED vars
    BY <1>26 DEF vars, RegisterInv, PoolInv, QueuedInv, CancelInv
<1>27. QED
    BY <1>1, <1>2, <1>3, <1>4, <1>5, <1>6, <1>7, <1>8, <1>9, <1>10, <1>11, <1>12, <1>13, <1>14,
       <1>15, <1>16, <1>17, <1>18, <1>19, <1>20, <1>21, <1>22, <1>23, <1>24, <1>25, <1>26
       DEF Next, Serve, Runner

\* While a row says cancelled, its operation is not executing and cannot start,
\* for any number of jobs, callers, workers and restarts.
THEOREM CancelledNeverExecutes == Spec => []CancelledNotExecuting
<1>1. TypeOK /\ StateInv => CancelledNotExecuting
    BY DEF StateInv, CancelInv, CancelledNotExecuting
<1>2. QED
    BY <1>1, TypeInit, TypeNext, StateInit, StateNext, PTL DEF Spec

-----------------------------------------------------------------------------
(* A terminal row tells what happened to the operation, and is rewritten   *)
(* only for a job that somebody cancelled.                                 *)

\* A row that tells no outcome, one that tells a success, one a failure.
Open(r)      == r.status \notin {"completed", "failed"} /\ r.result = "none" /\ r.error = "none"
Completed(r) == r.status = "completed" /\ r.progress = 100
                /\ r.result = "data" /\ r.error = "none"
Failed(r, cause) == r.status = "failed" /\ r.result = "none" /\ r.error = cause

\* What the handler caught fits what became of the operation.
Cause(cause, outcome) ==
    \/ cause = "operation" /\ outcome = "raised"
    \/ cause = "recording" /\ outcome \in {"none", "skipped", "returned"}

\* What a row says of an operation that ended as `outcome` says.
Truthful(r, outcome) ==
    \/ Open(r)
    \/ Completed(r) /\ outcome = "returned"
    \/ \E cause \in Causes : Failed(r, cause) /\ Cause(cause, outcome)

\* Rows tell the truth; until the runner's last save they tell no outcome, and
\* neither do the copies of them that cancels and the runner hold.
RowInv ==
    /\ \A c \in Clients : client[c].at = "save" => Open(client[c].row)
    /\ \A j \in Jobs :
          /\ Truthful(row[j], call[j])
          /\ pc[j] \notin {"done", "killed"} => Open(row[j])
          /\ pc[j] \in {"save", "save10", "save90", "decide"} => Open(current[j])
          /\ pc[j] \in {"saveEnd", "saveFail"} => Truthful(current[j], call[j])

\* What became of the operation at each program point after it: it was left
\* out only for a job whose event was set.
CallInv ==
    \A j \in Jobs :
        /\ pc[j] \in {"idle", "get", "save", "enter", "get10", "save10"} => call[j] = "none"
        /\ pc[j] \in {"get90", "save90"} => call[j] = "returned"
        /\ pc[j] \in {"getEnd", "decide"} =>
              call[j] = "returned" \/ (call[j] = "skipped" /\ event[j])
        /\ pc[j] = "saveEnd" => call[j] \in {"returned", "skipped"}
        /\ pc[j] \in {"getFail", "saveFail"} => Cause(caught[j], call[j])

\* While the runner has not ended, a row that says cancelled, and its copy of
\* one, are those of a job whose event is set.
EventInv ==
    \A j \in Jobs :
        /\ row[j].status = "cancelled" /\ pc[j] \notin {"done", "killed"} => event[j]
        /\ pc[j] = "save90" /\ current[j].status = "cancelled" => event[j]

OutcomeInv == RowInv /\ CallInv /\ EventInv

-----------------------------------------------------------------------------

\* The marks before the end leave a row open; the marks of the end make it
\* tell the outcome, or leave it open when the event was set.
LEMMA MarksOfOpen ==
    ASSUME NEW r \in Rows, Open(r)
    PROVE  /\ r.status \in {"queued", "running"} => Open(CancelMark(r))
           /\ Open(MarkRunning(r))
           /\ Open(MarkProgress(r, 10)) /\ MarkProgress(r, 10).status = r.status
           /\ Open(MarkProgress(r, 90)) /\ MarkProgress(r, 90).status = r.status
           /\ \A cause \in Causes : Failed(MarkFailed(r, cause), cause)
           /\ Open(MarkEnd(r, TRUE))
           /\ Completed(MarkEnd(r, FALSE))
<1> USE DEF Rows, Live, Terminal, Open
<1>1. r.status \in {"queued", "running"} => Open(CancelMark(r))
    BY DEF CancelMark
<1>2. Open(MarkRunning(r)) /\ \A cause \in Causes : Failed(MarkFailed(r, cause), cause)
    BY DEF MarkRunning, MarkFailed, Failed
<1>3. /\ Open(MarkProgress(r, 10)) /\ MarkProgress(r, 10).status = r.status
      /\ Open(MarkProgress(r, 90)) /\ MarkProgress(r, 90).status = r.status
    BY DEF MarkProgress
<1>4. Open(MarkEnd(r, TRUE)) /\ Completed(MarkEnd(r, FALSE))
    BY DEF MarkEnd, Completed
<1>5. QED
    BY <1>1, <1>2, <1>3, <1>4

\* A row that is neither completed nor failed, and tells the truth, is open.
LEMMA TruthfulOpen ==
    ASSUME NEW r, NEW outcome, Truthful(r, outcome),
           r.status \notin {"completed", "failed"}
    PROVE  Open(r)
BY DEF Truthful, Completed, Failed

\* The strengthening holds in the initial state.
LEMMA OutcomeInit == Init => OutcomeInv
    BY DEF Init, OutcomeInv, RowInv, CallInv, EventInv, Truthful, Open, Absent, Idle

\* Every step keeps the strengthening.
LEMMA OutcomeNext ==
    TypeOK /\ StateInv /\ OutcomeInv /\ [Next]_vars => OutcomeInv'
<1> SUFFICES ASSUME TypeOK, StateInv, OutcomeInv, [Next]_vars PROVE OutcomeInv'
    OBVIOUS
<1> USE DEF TypeOK, OutcomeInv
<1>1. ASSUME NEW c \in Clients, NEW j \in Jobs, SubmitSave(c, j) PROVE OutcomeInv'
  <2>1. RowInv'
    BY <1>1 DEF SubmitSave, RowInv, Truthful, Fresh, Absent, Open, StateInv, PoolInv
  <2>2. CallInv'
    BY <1>1 DEF SubmitSave, CallInv
  <2>3. EventInv'
    BY <1>1 DEF SubmitSave, EventInv, Fresh, Absent
  <2>4. QED
    BY <2>1, <2>2, <2>3
<1>2. ASSUME NEW c \in Clients, NEW j \in Jobs, CancelSignal(c, j) PROVE OutcomeInv'
  <2>1. RowInv'
    BY <1>2 DEF CancelSignal, RowInv
  <2>2. CallInv'
    BY <1>2 DEF CancelSignal, CallInv
  <2>3. EventInv'
    BY <1>2 DEF CancelSignal, EventInv
  <2>4. QED
    BY <2>1, <2>2, <2>3
<1>3. ASSUME NEW c \in Clients, SubmitRegister(c) PROVE OutcomeInv'
  <2>1. RowInv'
    BY <1>3 DEF SubmitRegister, Idle, RowInv
  <2>2. CallInv'
    BY <1>3 DEF SubmitRegister, CallInv
  <2>3. EventInv'
    BY <1>3 DEF SubmitRegister, EventInv
  <2>4. QED
    BY <2>1, <2>2, <2>3
<1>4. ASSUME NEW c \in Clients, CancelFuture(c) PROVE OutcomeInv'
  <2>1. RowInv'
    BY <1>4 DEF CancelFuture, RowInv
  <2>2. CallInv'
    BY <1>4 DEF CancelFuture, CallInv
  <2>3. EventInv'
    BY <1>4 DEF CancelFuture, EventInv
  <2>4. QED
    BY <2>1, <2>2, <2>3
\* A cancel copies only rows that are queued or running, which are open.
<1>5. ASSUME NEW c \in Clients, CancelRead(c) PROVE OutcomeInv'
  <2>1. RowInv'
    <3>1. CASE row[client[c].job].status \in {"queued", "running"}
      <4>1. row[client[c].job] \in Rows /\ Open(row[client[c].job])
        BY <1>5, <3>1, TruthfulOpen DEF CancelRead, Idle, RowInv
      <4>2. Open(CancelMark(row[client[c].job]))
        BY <3>1, <4>1, MarksOfOpen
      <4>3. QED
        BY <1>5, <3>1, <4>2 DEF CancelRead, RowInv
    <3>2. CASE row[client[c].job].status \notin {"queued", "running"}
      BY <1>5, <3>2 DEF CancelRead, Idle, RowInv
    <3>3. QED
      BY <3>1, <3>2
  <2>2. CallInv'
    BY <1>5 DEF CancelRead, CallInv
  <2>3. EventInv'
    BY <1>5 DEF CancelRead, EventInv
  <2>4. QED
    BY <2>1, <2>2, <2>3
\* The saved copy is open, and its job's event is set: it may replace an
\* outcome by none, never by a wrong one.
<1>6. ASSUME NEW c \in Clients, CancelSave(c) PROVE OutcomeInv'
  <2>1. RowInv'
    BY <1>6 DEF CancelSave, Idle, RowInv, Truthful
  <2>2. CallInv'
    BY <1>6 DEF CancelSave, CallInv
  <2>3. EventInv'
    BY <1>6 DEF CancelSave, EventInv, StateInv, CancelInv
  <2>4. QED
    BY <2>1, <2>2, <2>3
<1>7. ASSUME NEW j \in Jobs, Start(j) PROVE OutcomeInv'
  <2>1. RowInv'
    BY <1>7 DEF Start, RowInv, StateInv, PoolInv
  <2>2. CallInv'
    BY <1>7 DEF Start, CallInv, StateInv, PoolInv
  <2>3. EventInv'
    BY <1>7 DEF Start, EventInv, StateInv, PoolInv
  <2>4. QED
    BY <2>1, <2>2, <2>3
<1>8. ASSUME NEW j \in Jobs, BeginRead(j) PROVE OutcomeInv'
  <2>1. RowInv'
    BY <1>8, MarksOfOpen DEF BeginRead, ReadRow, RowInv
  <2>2. CallInv'
    BY <1>8 DEF BeginRead, ReadRow, CallInv
  <2>3. EventInv'
    BY <1>8 DEF BeginRead, ReadRow, EventInv
  <2>4. QED
    BY <2>1, <2>2, <2>3
<1>9. ASSUME NEW j \in Jobs, BeginSave(j) PROVE OutcomeInv'
  <2>1. RowInv'
    BY <1>9 DEF BeginSave, SaveRow, RowInv, Truthful
  <2>2. CallInv'
    BY <1>9 DEF BeginSave, SaveRow, CallInv
  <2>3. EventInv'
    BY <1>9 DEF BeginSave, SaveRow, EventInv, StateInv, QueuedInv
  <2>4. QED
    BY <2>1, <2>2, <2>3
<1>10. ASSUME NEW j \in Jobs, Enter(j) PROVE OutcomeInv'
  <2>1. RowInv'
    BY <1>10 DEF Enter, RowInv, Truthful
  <2>2. CallInv'
    BY <1>10 DEF Enter, CallInv
  <2>3. EventInv'
    BY <1>10 DEF Enter, EventInv
  <2>4. QED
    BY <2>1, <2>2, <2>3
<1>11. ASSUME NEW j \in Jobs, Progress10Read(j) PROVE OutcomeInv'
  <2>1. RowInv'
    BY <1>11, MarksOfOpen DEF Progress10Read, ReadRow, RowInv
  <2>2. CallInv'
    BY <1>11 DEF Progress10Read, ReadRow, CallInv
  <2>3. EventInv'
    BY <1>11 DEF Progress10Read, ReadRow, EventInv
  <2>4. QED
    BY <2>1, <2>2, <2>3
<1>12. ASSUME NEW j \in Jobs, Progress10Save(j) PROVE OutcomeInv'
  <2>1. RowInv'
    BY <1>12 DEF Progress10Save, SaveRow, RowInv, Truthful
  <2>2. CallInv'
    BY <1>12 DEF Progress10Save, SaveRow, CallInv
  <2>3. EventInv'
    BY <1>12 DEF Progress10Save, SaveRow, EventInv, StateInv, QueuedInv
  <2>4. QED
    BY <2>1, <2>2, <2>3
<1>13. ASSUME NEW j \in Jobs, DispatchReturns(j) PROVE OutcomeInv'
  <2>1. RowInv'
    BY <1>13 DEF DispatchReturns, RowInv, Truthful
  <2>2. CallInv'
    BY <1>13 DEF DispatchReturns, CallInv
  <2>3. EventInv'
    BY <1>13 DEF DispatchReturns, EventInv
  <2>4. QED
    BY <2>1, <2>2, <2>3
<1>14. ASSUME NEW j \in Jobs, DispatchRaises(j) PROVE OutcomeInv'
  <2>1. RowInv'
    BY <1>14 DEF DispatchRaises, RowInv, Truthful
  <2>2. CallInv'
    BY <1>14 DEF DispatchRaises, CallInv, Cause
  <2>3. EventInv'
    BY <1>14 DEF DispatchRaises, EventInv
  <2>4. QED
    BY <2>1, <2>2, <2>3
<1>15. ASSUME NEW j \in Jobs, Progress90Read(j) PROVE OutcomeInv'
  <2>1. RowInv'
    BY <1>15, MarksOfOpen DEF Progress90Read, ReadRow, RowInv
  <2>2. CallInv'
    BY <1>15 DEF Progress90Read, ReadRow, CallInv
  <2>3. EventInv'
    BY <1>15 DEF Progress90Read, ReadRow, EventInv, MarkProgress, Rows
  <2>4. QED
    BY <2>1, <2>2, <2>3
<1>16. ASSUME NEW j \in Jobs, Progress90Save(j) PROVE OutcomeInv'
  <2>1. RowInv'
    BY <1>16 DEF Progress90Save, SaveRow, RowInv, Truthful
  <2>2. CallInv'
    BY <1>16 DEF Progress90Save, SaveRow, CallInv
  <2>3. EventInv'
    BY <1>16 DEF Progress90Save, SaveRow, EventInv
  <2>4. QED
    BY <2>1, <2>2, <2>3
<1>17. ASSUME NEW j \in Jobs, EndRead(j) PROVE OutcomeInv'
  <2>1. RowInv'
    BY <1>17 DEF EndRead, ReadRow, RowInv
  <2>2. CallInv'
    BY <1>17 DEF EndRead, ReadRow, CallInv
  <2>3. EventInv'
    BY <1>17 DEF EndRead, ReadRow, EventInv
  <2>4. QED
    BY <2>1, <2>2, <2>3
\* Without the event the operation was not left out, so it returned.
<1>18. ASSUME NEW j \in Jobs, EndDecide(j) PROVE OutcomeInv'
  <2>1. RowInv'
    <3>1. /\ Open(current[j]) /\ current[j] \in Rows
          /\ call[j] = "returned" \/ event[j]
      BY <1>18 DEF EndDecide, RowInv, CallInv
    <3>2. Truthful(MarkEnd(current[j], event[j]), call[j])
      <4>1. event[j] \in BOOLEAN
        OBVIOUS
      <4>2. CASE event[j] = TRUE
        BY <3>1, <4>2, MarksOfOpen DEF Truthful
      <4>3. CASE event[j] = FALSE
        BY <3>1, <4>3, MarksOfOpen DEF Truthful
      <4>4. QED
        BY <4>1, <4>2, <4>3
    <3>3. QED
      BY <1>18, <3>2 DEF EndDecide, RowInv
  <2>2. CallInv'
    BY <1>18 DEF EndDecide, CallInv
  <2>3. EventInv'
    BY <1>18 DEF EndDecide, EventInv
  <2>4. QED
    BY <2>1, <2>2, <2>3
<1>19. ASSUME NEW j \in Jobs, EndSave(j) PROVE OutcomeInv'
  <2>1. RowInv'
    BY <1>19 DEF EndSave, SaveRow, RowInv
  <2>2. CallInv'
    BY <1>19 DEF EndSave, SaveRow, CallInv
  <2>3. EventInv'
    BY <1>19 DEF EndSave, SaveRow, EventInv
  <2>4. QED
    BY <2>1, <2>2, <2>3
<1>20. ASSUME NEW j \in Jobs, FailRead(j) PROVE OutcomeInv'
  <2>1. RowInv'
    BY <1>20, MarksOfOpen DEF FailRead, ReadRow, RowInv, CallInv, Truthful
  <2>2. CallInv'
    BY <1>20 DEF FailRead, ReadRow, CallInv
  <2>3. EventInv'
    BY <1>20 DEF FailRead, ReadRow, EventInv
  <2>4. QED
    BY <2>1, <2>2, <2>3
<1>21. ASSUME NEW j \in Jobs, FailSave(j) PROVE OutcomeInv'
  <2>1. RowInv'
    BY <1>21 DEF FailSave, SaveRow, RowInv
  <2>2. CallInv'
    BY <1>21 DEF FailSave, SaveRow, CallInv
  <2>3. EventInv'
    BY <1>21 DEF FailSave, SaveRow, EventInv
  <2>4. QED
    BY <2>1, <2>2, <2>3
<1>22. CASE Restart
  <2>1. RowInv'
    <3>1. ASSUME NEW j \in Jobs PROVE Truthful(row[j], call'[j])
      <4>1. CASE call[j] = "active"
        BY <4>1 DEF RowInv, Truthful, Cause
      <4>2. CASE call[j] # "active"
        BY <1>22, <4>2 DEF Restart, RowInv
      <4>3. QED
        BY <4>1, <4>2
    <3>2. QED
      BY <1>22, <3>1 DEF Restart, Idle, RowInv, StateInv, PoolInv
  <2>2. CallInv'
    BY <1>22 DEF Restart, CallInv, StateInv, PoolInv
  <2>3. EventInv'
    BY <1>22 DEF Restart, EventInv
  <2>4. QED
    BY <2>1, <2>2, <2>3
\* Until then the row was open, so nothing was told yet.
<1>23. ASSUME NEW j \in Jobs, RecordingRaises(j) PROVE OutcomeInv'
  <2>1. RowInv'
    BY <1>23 DEF RecordingRaises, Guarded, RowInv
  <2>2. CallInv'
    BY <1>23 DEF RecordingRaises, Guarded, CallInv, Cause
  <2>3. EventInv'
    BY <1>23 DEF RecordingRaises, Guarded, EventInv
  <2>4. QED
    BY <2>1, <2>2, <2>3
<1>24. ASSUME NEW j \in Jobs, RunnerRaises(j) PROVE OutcomeInv'
  <2>1. RowInv'
    BY <1>24 DEF RunnerRaises, RowInv
  <2>2. CallInv'
    BY <1>24 DEF RunnerRaises, CallInv
  <2>3. EventInv'
    BY <1>24 DEF RunnerRaises, EventInv
  <2>4. QED
    BY <2>1, <2>2, <2>3
<1>25. ASSUME NEW c \in Clients, CancelRaises(c) PROVE OutcomeInv'
    BY <1>25 DEF CancelRaises, Idle, RowInv, CallInv, EventInv
<1>26. CASE UNCHANGED vars
    BY <1>26 DEF vars, RowInv, CallInv, EventInv
<1>27. QED
    BY <1>1, <1>2, <1>3, <1>4, <1>5, <1>6, <1>7, <1>8, <1>9, <1>10, <1>11, <1>12,
       <1>13, <1>14, <1>15, <1>16, <1>17, <1>18, <1>19, <1>20, <1>21, <1>22, <1>23,
       <1>24, <1>25, <1>26
       DEF Next, Serve, Runner

-----------------------------------------------------------------------------

\* A terminal row tells what happened to the operation, however cancels and
\* runners interleave their reads and writes of whole rows.
THEOREM RowsTellTheTruth == Spec => []TerminalTruth
<1>1. TypeOK /\ OutcomeInv => TerminalTruth
    BY DEF OutcomeInv, RowInv, TerminalTruth, Truthful, Open, Completed, Failed, Cause
<1>2. QED
    BY <1>1, TypeInit, TypeNext, StateInit, StateNext, OutcomeInit, OutcomeNext, PTL DEF Spec

\* The row of a job whose event is not set stays as it is once it is terminal.
THEOREM TerminalRowsStay == Spec => FinalUnlessCancelled
<1>1. TypeOK /\ StateInv /\ OutcomeInv /\ [Next]_vars =>
        \A j \in Jobs : row[j].status \in Terminal /\ ~event[j] => row'[j] = row[j]
  <2> SUFFICES ASSUME TypeOK, StateInv, OutcomeInv, [Next]_vars,
                      NEW j \in Jobs, row[j].status \in Terminal, ~event[j]
               PROVE  row'[j] = row[j]
    OBVIOUS
  <2> USE DEF TypeOK
  <2>1. pc[j] \in {"done", "killed"}
    BY DEF OutcomeInv, RowInv, EventInv, Open, Terminal
  <2>2. ASSUME NEW c \in Clients, NEW i \in Jobs, SubmitSave(c, i) PROVE row'[j] = row[j]
    BY <2>2 DEF SubmitSave, Absent, Terminal
  <2>3. ASSUME NEW c \in Clients, CancelSave(c) PROVE row'[j] = row[j]
    BY <2>3 DEF CancelSave, StateInv, CancelInv, Idle
  <2>4. ASSUME NEW i \in Jobs, Runner(i) PROVE row'[j] = row[j]
    <3>1. CASE BeginSave(i) \/ Progress10Save(i) \/ Progress90Save(i) \/ EndSave(i) \/ FailSave(i)
      BY <2>1, <3>1 DEF BeginSave, Progress10Save, Progress90Save, EndSave, FailSave, SaveRow
    <3>2. CASE Start(i) \/ Enter(i) \/ DispatchReturns(i) \/ DispatchRaises(i) \/ EndDecide(i)
      BY <3>2 DEF Start, Enter, DispatchReturns, DispatchRaises, EndDecide
    <3>3. CASE BeginRead(i) \/ Progress10Read(i) \/ Progress90Read(i) \/ EndRead(i) \/ FailRead(i)
      BY <3>3 DEF BeginRead, Progress10Read, Progress90Read, EndRead, FailRead, ReadRow
    <3>4. QED
      BY <2>4, <3>1, <3>2, <3>3 DEF Runner
  <2>5. ASSUME NEW c \in Clients, SubmitRegister(c) \/ CancelFuture(c) \/ CancelRead(c)
        PROVE  row'[j] = row[j]
    BY <2>5 DEF SubmitRegister, CancelFuture, CancelRead
  <2>6. ASSUME NEW c \in Clients, NEW i \in Jobs, CancelSignal(c, i) PROVE row'[j] = row[j]
    BY <2>6 DEF CancelSignal
  <2>7. CASE Restart
    BY <2>7 DEF Restart
  <2>8. ASSUME NEW i \in Jobs, RecordingRaises(i) \/ RunnerRaises(i) PROVE row'[j] = row[j]
    BY <2>8 DEF RecordingRaises, RunnerRaises
  <2>9. ASSUME NEW c \in Clients, CancelRaises(c) PROVE row'[j] = row[j]
    BY <2>9 DEF CancelRaises
  <2>10. CASE UNCHANGED vars
    BY <2>10 DEF vars
  <2>11. QED
    BY <2>2, <2>3, <2>4, <2>5, <2>6, <2>7, <2>8, <2>9, <2>10 DEF Next, Serve
<1>2. QED
    BY <1>1, TypeInit, TypeNext, StateInit, StateNext, OutcomeInit, OutcomeNext, PTL
       DEF Spec, FinalUnlessCancelled

-----------------------------------------------------------------------------
(* A submission to a pool *)

LEMMA LeastMember ==
    ASSUME NEW X \in SUBSET Nat, X # {}
    PROVE  \E n \in X : \A m \in X : n <= m
<1> DEFINE Less == {pair \in Nat \X Nat : pair[1] < pair[2]}
<1>1. OpToRel(<, Nat) = Less
  BY DEF OpToRel
<1>2. IsWellFoundedOn(Less, Nat)
  BY <1>1, NatLessThanWellFounded, Zenon
<1> HIDE DEF Less
<1>3. PICK n \in X : \A m \in X : ~(<<m, n>> \in Less)
  BY <1>2, WFMin
<1>4. ASSUME NEW m \in X, m < n PROVE FALSE
  <2>1. <<m, n>> \in Less
    BY <1>4 DEF Less
  <2> QED BY <1>3, <2>1
<1> QED BY <1>4

\* The next member is the least of those to come.
LEMMA FirstFound ==
    ASSUME NEW s, poolCall[s].todo \subseteq Members, poolCall[s].todo # {}
    PROVE  /\ P!First(s) \in poolCall[s].todo
           /\ \A n \in poolCall[s].todo \ {P!First(s)} : P!First(s) < n
<1>1. Members \subseteq Nat
  BY LabAssumption DEF P!PoolsAssumption
<1>2. \E m \in poolCall[s].todo : \A n \in poolCall[s].todo : m <= n
  BY <1>1, LeastMember
<1>3. /\ P!First(s) \in poolCall[s].todo
      /\ \A n \in poolCall[s].todo : P!First(s) <= n
  BY <1>2 DEF P!First
<1>4. ASSUME NEW n \in poolCall[s].todo \ {P!First(s)} PROVE P!First(s) < n
  <2>1. n \in Nat /\ P!First(s) \in Nat /\ P!First(s) <= n /\ P!First(s) # n
    BY <1>1, <1>3
  <2> QED BY <2>1
<1> QED BY <1>3, <1>4

CallStates == [at : {"idle", "decide", "allow", "deny", "create", "ok", "denied", "failed"},
               todo : SUBSET Members, members : SUBSET Members]

PoolTypes ==
    /\ pool \subseteq Members /\ permits \in BOOLEAN
    /\ trail \subseteq Submissions \X Members \X {"allow", "deny"}
    /\ poolJobs \subseteq Submissions \X Members
    /\ poolCall \in [Submissions -> CallStates]
    /\ poolChanges \in 0 .. MaxChanges

\* What one submission has made; the member it came to is the only one it may
\* have been allowed without a job.
Accounted(s) ==
    /\ poolCall[s].at = "idle" => poolCall[s].todo = {} /\ poolCall[s].members = {}
    /\ poolCall[s].at \in {"decide", "allow", "deny", "create"} => poolCall[s].todo # {}
    /\ poolCall[s].todo \subseteq poolCall[s].members
    /\ \A m \in Members : <<s, m>> \in poolJobs <=> m \in poolCall[s].members \ poolCall[s].todo
    /\ \A m \in Members : <<s, m>> \in poolJobs => <<s, m, "allow">> \in trail
    /\ \A m \in Members : <<s, m, "allow">> \in trail =>
          \/ <<s, m>> \in poolJobs
          \/ poolCall[s].at \in {"create", "failed"} /\ poolCall[s].todo # {} /\ m = P!First(s)
    /\ poolCall[s].at = "create" => <<s, P!First(s), "allow">> \in trail
    /\ \A m \in poolCall[s].members \ poolCall[s].todo, n \in poolCall[s].todo : m < n

PoolCallsInv == PoolTypes /\ \A s \in Submissions : Accounted(s)

LEMMA PoolStepInv == PoolCallsInv /\ [P!Next]_(P!poolVars) => PoolCallsInv'
<1> SUFFICES ASSUME PoolCallsInv, [P!Next]_(P!poolVars) PROVE PoolCallsInv'
  OBVIOUS
<1>0. /\ pool \subseteq Members /\ permits \in BOOLEAN
      /\ trail \subseteq Submissions \X Members \X {"allow", "deny"}
      /\ poolJobs \subseteq Submissions \X Members
      /\ poolCall \in [Submissions -> CallStates]
      /\ poolChanges \in 0 .. MaxChanges /\ MaxChanges \in Nat
      /\ \A s \in Submissions : Accounted(s)
  BY LabAssumption DEF PoolCallsInv, PoolTypes, P!PoolsAssumption
\* A submission of which nothing moves.
<1>1. ASSUME NEW s, Accounted(s), poolCall'[s] = poolCall[s],
             \A m : (<<s, m>> \in poolJobs') <=> (<<s, m>> \in poolJobs),
             \A m : (<<s, m, "allow">> \in trail') <=> (<<s, m, "allow">> \in trail)
      PROVE  Accounted(s)'
  <2>1. P!First(s)' = P!First(s)
    BY <1>1 DEF P!First
  <2> QED BY <1>1, <2>1 DEF Accounted
<1>2. CASE UNCHANGED <<trail, poolJobs, poolCall>> /\ pool' \subseteq Members
           /\ permits' \in BOOLEAN /\ poolChanges' \in 0 .. MaxChanges
  BY <1>0, <1>1, <1>2 DEF PoolCallsInv, PoolTypes
<1>3. ASSUME NEW m \in Members, P!AddMember(m) PROVE PoolCallsInv'
  BY <1>0, <1>2, <1>3 DEF P!AddMember
<1>4. CASE P!ChangePolicy
  BY <1>0, <1>2, <1>4 DEF P!ChangePolicy
\* One submission moves: the others are as they were.
<1>5. ASSUME NEW s \in Submissions, NEW c \in CallStates, poolCall' = [poolCall EXCEPT ![s] = c],
             trail' = trail \/ (\E m \in Members, d \in {"allow", "deny"} : trail' = trail \cup {<<s, m, d>>}),
             poolJobs' = poolJobs \/ (\E m \in Members : poolJobs' = poolJobs \cup {<<s, m>>}),
             UNCHANGED <<pool, permits, poolChanges>>, Accounted(s)'
      PROVE  PoolCallsInv'
  <2>1. ASSUME NEW r \in Submissions \ {s} PROVE Accounted(r)'
    BY <1>0, <1>1, <1>5
  <2>2. PoolTypes'
    BY <1>0, <1>5 DEF PoolTypes
  <2> QED BY <1>5, <2>1, <2>2 DEF PoolCallsInv
<1>6. ASSUME NEW s \in Submissions, P!Begin(s) PROVE PoolCallsInv'
  <2> DEFINE c == [at |-> IF pool = {} THEN "ok" ELSE "decide", todo |-> pool, members |-> pool]
  <2>1. c \in CallStates /\ c.at = (IF pool = {} THEN "ok" ELSE "decide") /\ c.todo = pool /\ c.members = pool
    BY <1>0 DEF CallStates
  <2>2. poolCall' = [poolCall EXCEPT ![s] = c] /\ poolCall[s].at = "idle"
        /\ UNCHANGED <<pool, permits, trail, poolJobs, poolChanges>>
    BY <1>6 DEF P!Begin
  <2> HIDE DEF c
  <2>3. poolCall'[s] = c
    BY <1>0, <2>2
  <2>4. Accounted(s)'
    BY <1>0, <2>1, <2>2, <2>3 DEF Accounted
  <2> QED BY <1>5, <2>1, <2>2, <2>4
\* Going to another step.
<1>7. ASSUME NEW s \in Submissions, NEW step \in {"decide", "allow", "deny", "create", "denied", "failed"},
             P!Goto(s, step)
      PROVE  \E c \in CallStates :
                /\ poolCall' = [poolCall EXCEPT ![s] = c] /\ poolCall'[s] = c /\ c.at = step
                /\ c.todo = poolCall[s].todo /\ c.members = poolCall[s].members
                /\ P!First(s)' = P!First(s)
  <2> DEFINE c == [poolCall[s] EXCEPT !.at = step]
  <2>1. c \in CallStates /\ c.at = step /\ c.todo = poolCall[s].todo /\ c.members = poolCall[s].members
    BY <1>0 DEF CallStates
  <2>2. poolCall' = [poolCall EXCEPT ![s] = c]
    BY <1>7 DEF P!Goto
  <2> HIDE DEF c
  <2>3. poolCall'[s] = c
    BY <1>0, <2>2
  <2>4. P!First(s)' = P!First(s)
    BY <2>1, <2>3 DEF P!First
  <2> QED BY <2>1, <2>2, <2>3, <2>4
<1>8. ASSUME NEW s \in Submissions, P!Decide(s) \/ P!Fail(s) PROVE PoolCallsInv'
  <2>1. PICK step \in {"allow", "deny", "failed"} :
              P!Goto(s, step) /\ (step # "failed" => poolCall[s].at = "decide")
    BY <1>8 DEF P!Decide, P!Fail
  <2>2. /\ UNCHANGED <<pool, permits, trail, poolJobs, poolChanges>>
        /\ poolCall[s].at \in {"decide", "allow", "deny", "create"}
        /\ step # "failed" => poolCall[s].at = "decide"
    BY <1>8, <2>1 DEF P!Decide, P!Fail
  <2>3. PICK c \in CallStates :
                /\ poolCall' = [poolCall EXCEPT ![s] = c] /\ poolCall'[s] = c /\ c.at = step
                /\ c.todo = poolCall[s].todo /\ c.members = poolCall[s].members
                /\ P!First(s)' = P!First(s)
    BY <1>7, <2>1
  <2>4. Accounted(s)'
    BY <1>0, <2>2, <2>3 DEF Accounted
  <2> QED BY <1>5, <2>2, <2>3, <2>4
<1>9. ASSUME NEW s \in Submissions, P!Audit(s) PROVE PoolCallsInv'
  <2>1. /\ poolCall[s].at \in {"allow", "deny"}
        /\ trail' = trail \cup {<<s, P!First(s), poolCall[s].at>>}
        /\ P!Goto(s, IF poolCall[s].at = "allow" THEN "create" ELSE "denied")
        /\ UNCHANGED <<pool, permits, poolJobs, poolChanges>>
    BY <1>9 DEF P!Audit
  <2>2. PICK c \in CallStates :
                /\ poolCall' = [poolCall EXCEPT ![s] = c] /\ poolCall'[s] = c
                /\ c.at = (IF poolCall[s].at = "allow" THEN "create" ELSE "denied")
                /\ c.todo = poolCall[s].todo /\ c.members = poolCall[s].members
                /\ P!First(s)' = P!First(s)
    BY <1>7, <2>1
  <2>3. poolCall[s].todo # {} /\ P!First(s) \in poolCall[s].todo /\ P!First(s) \in Members
    <3>1. poolCall[s].todo # {} /\ poolCall[s].todo \subseteq Members
      BY <1>0, <2>1 DEF Accounted, CallStates
    <3> QED BY <3>1, FirstFound
  <2>4. \A m \in Members : <<s, m, "allow">> \in trail' =>
           <<s, m, "allow">> \in trail \/ (poolCall[s].at = "allow" /\ m = P!First(s))
    BY <2>1
  <2>5. trail \subseteq trail'
    BY <2>1
  <2>6. Accounted(s)'
    BY <1>0, <2>1, <2>2, <2>3, <2>4, <2>5 DEF Accounted
  <2> QED BY <1>5, <2>1, <2>2, <2>3, <2>6
<1>10. ASSUME NEW s \in Submissions, P!Create(s) PROVE PoolCallsInv'
  <2>1. /\ poolCall[s].at = "create" /\ poolJobs' = poolJobs \cup {<<s, P!First(s)>>}
        /\ UNCHANGED <<pool, permits, trail, poolChanges>>
    BY <1>10 DEF P!Create
  <2>2. /\ poolCall[s].todo # {} /\ poolCall[s].todo \subseteq Members
        /\ poolCall[s].members \subseteq Members
    BY <1>0, <2>1 DEF Accounted, CallStates
  <2>3. /\ P!First(s) \in poolCall[s].todo /\ P!First(s) \in Members
        /\ \A n \in poolCall[s].todo \ {P!First(s)} : P!First(s) < n
    BY <2>2, FirstFound
  <2> DEFINE left == poolCall[s].todo \ {P!First(s)}
  <2> DEFINE c == [poolCall[s] EXCEPT !.todo = left, !.at = IF left = {} THEN "ok" ELSE "decide"]
  <2>4. poolCall' = [poolCall EXCEPT ![s] = c]
    <3>1. poolCall[s].todo = {P!First(s)} <=> left = {}
      BY <2>3
    <3> QED BY <1>0, <1>10, <3>1 DEF P!Create
  <2>5. /\ c \in CallStates /\ c.todo = left /\ c.members = poolCall[s].members
        /\ c.at = IF left = {} THEN "ok" ELSE "decide"
    <3>1. left \in SUBSET Members
      BY <2>2
    <3> HIDE DEF left
    <3> QED BY <1>0, <3>1 DEF CallStates
  <2> HIDE DEF c
  <2>6. poolCall'[s] = c
    BY <1>0, <2>4
  <2>7. \A m \in Members : <<s, m>> \in poolJobs' <=> <<s, m>> \in poolJobs \/ m = P!First(s)
    BY <2>1
  <2>8. <<s, P!First(s), "allow">> \in trail
    BY <1>0, <2>1 DEF Accounted
  <2>9. Accounted(s)'
    BY <1>0, <2>1, <2>2, <2>3, <2>5, <2>6, <2>7, <2>8 DEF Accounted
  <2> QED BY <1>5, <2>1, <2>3, <2>4, <2>5, <2>9
<1>11. CASE UNCHANGED P!poolVars
  BY <1>0, <1>2, <1>11 DEF P!poolVars
<1> QED BY <1>3, <1>4, <1>6, <1>8, <1>9, <1>10, <1>11 DEF P!Next

\* A submission that answers has made one job for each member it read, each
\* allowed; one that was denied or failed those of the members before the one it
\* came to.
THEOREM PoolsAreAccountedFor == MCSpec => []JobsAccountedFor
<1>1. P!Init => PoolCallsInv
  <2> SUFFICES ASSUME P!Init PROVE PoolCallsInv
    OBVIOUS
  <2>1. P!Idle \in CallStates /\ P!Idle.at = "idle" /\ P!Idle.todo = {} /\ P!Idle.members = {}
    BY DEF P!Idle, CallStates
  <2>2. \A s \in Submissions : poolCall[s] = P!Idle
    BY DEF P!Init
  <2>3. poolJobs = {} /\ trail = {}
    BY DEF P!Init
  <2>4. ASSUME NEW s \in Submissions PROVE Accounted(s)
    BY <2>1, <2>2, <2>3 DEF Accounted
  <2>5. PoolTypes
    BY <2>1, LabAssumption DEF P!Init, PoolTypes, P!PoolsAssumption
  <2> QED BY <2>4, <2>5 DEF PoolCallsInv
<1>2. PoolCallsInv => JobsAccountedFor
  <2> SUFFICES ASSUME PoolCallsInv PROVE P!TypeOK /\ P!JobsAccountedFor
    BY DEF JobsAccountedFor
  <2>1. P!TypeOK
    BY DEF PoolCallsInv, PoolTypes, P!TypeOK, CallStates
  <2>2. ASSUME NEW s \in Submissions
        PROVE  LET made == {m \in Members : <<s, m>> \in poolJobs}
                   allowed == {m \in Members : <<s, m, "allow">> \in trail}
               IN /\ made = poolCall[s].members \ poolCall[s].todo
                  /\ made \subseteq allowed
                  /\ P!Cardinality(allowed \ made) <= 1
                  /\ \A m \in made, n \in poolCall[s].todo : m < n
    <3> DEFINE made == {m \in Members : <<s, m>> \in poolJobs}
    <3> DEFINE allowed == {m \in Members : <<s, m, "allow">> \in trail}
    <3>1. Accounted(s) /\ poolCall[s].members \subseteq Members
      BY DEF PoolCallsInv, PoolTypes, CallStates
    <3>2. made = poolCall[s].members \ poolCall[s].todo
      BY <3>1 DEF Accounted
    <3>3. made \subseteq allowed
      BY <3>1 DEF Accounted
    <3>4. allowed \ made \in SUBSET {P!First(s)}
      BY <3>1 DEF Accounted
    <3>5. P!Cardinality(allowed \ made) <= 1
      <4> HIDE DEF made, allowed
      <4>1. IsFiniteSet({P!First(s)}) /\ Cardinality({P!First(s)}) = 1
        BY FS_Singleton
      <4>2. Cardinality(allowed \ made) <= 1
        BY <3>4, <4>1, FS_Subset
      <4> QED BY <4>2 DEF P!Cardinality, Cardinality
    <3>6. \A m \in made, n \in poolCall[s].todo : m < n
      BY <3>1, <3>2 DEF Accounted
    <3> QED BY <3>2, <3>3, <3>5, <3>6
  <2> QED BY <2>1, <2>2 DEF P!JobsAccountedFor
<1>3. MCInit => P!Init
  BY DEF MCInit
<1>4. [MCNext]_all => [P!Next]_(P!poolVars)
  <2>1. ASSUME UNCHANGED pools PROVE UNCHANGED P!poolVars
    BY <2>1 DEF pools, P!poolVars
  <2>2. ASSUME InWeb(Next) \/ InLab(LabNext) PROVE UNCHANGED pools
    BY <2>2 DEF InWeb, InLab
  <2>3. ASSUME UNCHANGED all PROVE UNCHANGED pools
    BY <2>3 DEF all
  <2>4. ASSUME InPools(P!Next) PROVE P!Next
    BY <2>4 DEF InPools
  <2> QED BY <2>1, <2>2, <2>3, <2>4 DEF MCNext
<1> QED BY <1>1, <1>2, <1>3, <1>4, PoolStepInv, PTL DEF MCSpec
=============================================================================
