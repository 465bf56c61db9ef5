---------------------------- MODULE LabJobsProofs -----------------------------
(***************************************************************************)
(* Proofs about LabJobs, for every set of agents, jobs and requests and    *)
(* every bound on policy edits and faults:                                 *)
(*   TypeCorrect           LabSpec => []LabTypeOK                          *)
(*   RowsAreTrue           LabSpec => []RowsTellWhatRan                    *)
(*   LabImplementsQueue    LabSpec => ImplementsQueue                      *)
(*   WithdrawnIsWithdrawn  LabSpec => WithdrawnNeverRuns                   *)
(*                                                                         *)
(* The idea is that of a ticket: claim_next_lab_job issues one for a job,  *)
(* and it is in one place, the handler, the answer or the agent, until the *)
(* agent uses it to start the operation or it is lost (TicketInv).         *)
(***************************************************************************)
EXTENDS LabJobs, TLAPS, WellFoundedInduction

\* Every row was created, and is listed.
Listed == \A j \in JobIds : job[j].status # "absent" =>
             \E p \in DOMAIN created : created[p] = j

\* The statuses of a job that no agent has been given.
Early == {"absent", "queued"}

\* A job nobody claimed has no handler, no answer, no agent and no late result,
\* and its operation was never started.
Untouched == \A j \in JobIds : job[j].status \in Early => ~InHands(j) /\ starts[j] = 0

\* The operator creates the row its decision was about, once.
CreateInv == operator.at = "create" => job[operator.job].status = "absent"

\* The part of the invariant that is about the rows.
RowInv == CreateInv /\ Listed /\ Untouched

\* claim_next_lab_job takes one of the agent's queued jobs: every row is listed, so
\* ORDER BY created_at LIMIT 1 finds one whenever there is one.
LEMMA OldestIsOne ==
    ASSUME LabTypeOK, Listed, NEW a \in Agents, Queued(a) # {}
    PROVE  Oldest(Queued(a)) \in Queued(a)
<1> DEFINE js == Queued(a)
           Places == {p \in DOMAIN created : created[p] \in js}
<1>1. PICK k \in js : TRUE
  OBVIOUS
<1>2. k \in JobIds /\ job[k].status = "queued"
  BY <1>1 DEF Queued
<1>3. PICK q \in DOMAIN created : created[q] = k
  BY <1>2 DEF Listed
<1>4. Places \subseteq Nat /\ Places # {}
  BY <1>1, <1>3 DEF LabTypeOK
<1>5. \E p \in Places : \A r \in Places : <<r, p>> \notin OpToRel(<, Nat)
  <2> HIDE DEF Places
  <2> QED BY <1>4, NatLessThanWellFounded, WFMin, Zenon
<1>6. PICK p \in Places : \A r \in Places : ~ (r < p)
  <2>1. ASSUME NEW r \in Nat, NEW p \in Nat, r < p
        PROVE  <<r, p>> \in OpToRel(<, Nat)
    BY <2>1, Zenon DEF OpToRel
  <2> HIDE DEF Places
  <2> QED BY <1>4, <1>5, <2>1
<1>7. \A r \in 1 .. p - 1 : created[r] \notin js
  <2> SUFFICES ASSUME NEW r \in 1 .. p - 1, created[r] \in js PROVE FALSE
    OBVIOUS
  <2>1. p \in 1 .. Len(created) /\ DOMAIN created = 1 .. Len(created) /\ Len(created) \in Nat
    BY <1>6 DEF LabTypeOK
  <2>2. r \in Places /\ r < p
    BY <2>1
  <2> QED BY <2>2, <1>6
<1>8. created[p] \in js
  BY <1>6
<1> HIDE DEF js
<1>9. \E j \in js : \E s \in DOMAIN created :
         created[s] = j /\ \A r \in 1 .. s - 1 : created[r] \notin js
  BY <1>6, <1>7, <1>8
<1> QED BY <1>9 DEF Oldest, js

\* What the states of the parties are made of.
LEMMA Shapes ==
    /\ NoRow \in JobRows /\ AtRest \in OperatorStates /\ AtRest \in ControllerStates
    /\ None \in Replies /\ NoJob \in Replies /\ AtRest \in AgentStates
    /\ \A j \in JobIds : [is |-> "job", job |-> j] \in Replies
BY DEF NoRow, JobRows, AtRest, None, NoJob, OperatorStates, ControllerStates, Replies, AgentStates

\* A row stays a row when claim, cancel or complete_lab_job updates it.
LEMMA RowShapes ==
    ASSUME NEW r \in JobRows, r.status # "absent"
    PROVE  /\ r.agent \in Agents /\ r.request \in Requests
           /\ [r EXCEPT !.status = "running"] \in JobRows
           /\ [r EXCEPT !.status = "cancelled"] \in JobRows
           /\ \A o \in Outcomes :
                [r EXCEPT !.status = IF o = "error" THEN "failed" ELSE "completed",
                          !.result = o] \in JobRows
<1>1. r \in [status : {"queued", "running"} \cup Over, agent : Agents,
             request : Requests, result : {"none"} \cup Outcomes]
  BY DEF JobRows, NoRow
<1>2. /\ [r EXCEPT !.status = "running"] \in JobRows
      /\ [r EXCEPT !.status = "cancelled"] \in JobRows
  BY <1>1 DEF JobRows, Over
<1>3. ASSUME NEW o \in Outcomes
      PROVE  [r EXCEPT !.status = IF o = "error" THEN "failed" ELSE "completed",
                       !.result = o] \in JobRows
  <2>1. CASE o = "error"
    BY <1>1, <2>1 DEF JobRows, Over
  <2>2. CASE o # "error"
    BY <1>1, <2>2 DEF JobRows, Over
  <2> QED BY <2>1, <2>2
<1> QED BY <1>1, <1>2, <1>3

\* What lab_job_submit inserts is a row.
LEMMA NewRow ==
    ASSUME NEW a \in Agents, NEW r \in Requests
    PROVE  [status |-> "queued", agent |-> a, request |-> r, result |-> "none"] \in JobRows
BY DEF JobRows

\* complete_lab_job changes status and result of one row, and leaves its agent and
\* request as they were submitted.
LEMMA RowCompleted ==
    ASSUME job \in [JobIds -> JobRows], NEW j \in JobIds, NEW o \in Outcomes,
           job[j].status # "absent"
    PROVE  /\ Complete(j, o) \in [JobIds -> JobRows]
           /\ Complete(j, o)[j].status = IF o = "error" THEN "failed" ELSE "completed"
           /\ Complete(j, o)[j].agent = job[j].agent
           /\ Complete(j, o)[j].request = job[j].request
           /\ \A k \in JobIds : k # j => Complete(j, o)[k] = job[k]
<1>1. /\ job[j] \in JobRows
      /\ [job[j] EXCEPT !.status = IF o = "error" THEN "failed" ELSE "completed",
                        !.result = o] \in JobRows
  BY RowShapes
<1>2. job[j] \in [status : {"queued", "running"} \cup Over, agent : Agents,
                  request : Requests, result : {"none"} \cup Outcomes]
  BY <1>1 DEF JobRows, NoRow
<1> QED BY <1>1, <1>2 DEF Complete

\* What the record of the handler in progress says of its shape.
LEMMA ControllerShape ==
    ASSUME NEW c \in ControllerStates, c.at # "idle"
    PROVE  /\ c.agent \in Agents /\ c.job \in JobIds /\ c.open \in BOOLEAN
           /\ [c EXCEPT !.open = FALSE] \in ControllerStates
           /\ c.at = "audit" => c.event \in AuditEvents
           /\ c.at \in {"decide", "audit"}
<1>1. CASE c = AtRest
  BY <1>1 DEF AtRest
<1>2. CASE c \in [at : {"decide"}, agent : Agents, job : JobIds, open : BOOLEAN]
  <2>1. c.at = "decide" /\ c.agent \in Agents /\ c.job \in JobIds /\ c.open \in BOOLEAN
    BY <1>2
  <2>2. [c EXCEPT !.open = FALSE] \in [at : {"decide"}, agent : Agents, job : JobIds, open : BOOLEAN]
    BY <1>2
  <2> QED BY <2>1, <2>2 DEF ControllerStates
<1>3. CASE c \in [at : {"audit"}, agent : Agents, job : JobIds, open : BOOLEAN, event : AuditEvents]
  <2>1. /\ c.at = "audit" /\ c.agent \in Agents /\ c.job \in JobIds /\ c.open \in BOOLEAN
        /\ c.event \in AuditEvents
    BY <1>3
  <2>2. [c EXCEPT !.open = FALSE]
          \in [at : {"audit"}, agent : Agents, job : JobIds, open : BOOLEAN, event : AuditEvents]
    BY <1>3
  <2> QED BY <2>1, <2>2 DEF ControllerStates
<1> QED BY <1>1, <1>2, <1>3 DEF ControllerStates

\* What the record of an agent says of its shape.
LEMMA AgentShape ==
    ASSUME NEW s \in AgentStates
    PROVE  /\ s.at \in {"got", "running", "done"} => s.job \in JobIds
           /\ s.at = "got" => [s EXCEPT !.at = "running"] \in AgentStates
           /\ s.at = "done" => s.outcome \in Outcomes
           /\ [at |-> "polling"] \in AgentStates /\ [at |-> "reporting"] \in AgentStates
           /\ \A j \in JobIds : /\ [at |-> "got", job |-> j] \in AgentStates
                                /\ \A o \in Outcomes :
                                     [at |-> "done", job |-> j, outcome |-> o] \in AgentStates
BY DEF AgentStates, AtRest

\* The events of submission, delivery and result are events of the audit trail.
LEMMA AuditShape ==
    ASSUME NEW r \in Requests, NEW a \in Agents, NEW j \in JobIds
    PROVE  /\ Submitted(r, a, "allow") \in AuditEvents /\ Submitted(r, a, "deny") \in AuditEvents
           /\ Denied(r, a) \in AuditEvents
           /\ Ended(j, "completed") \in AuditEvents /\ Ended(j, "failed") \in AuditEvents
BY DEF AuditEvents, Submitted, Denied, Ended

\* Who sends a message, and which job a result is about.
LEMMA MessageShape ==
    /\ \A m \in AllRequests :
         /\ m.agent \in Agents
         /\ m.ask = "result" => m.job \in JobIds /\ m.outcome \in Outcomes
    /\ \A a \in Agents : Poll(a) \in AllRequests
    /\ \A a \in Agents, j \in JobIds, o \in Outcomes : Result(a, j, o) \in AllRequests
BY DEF AllRequests, Poll, Result

\* An answer that carries a job names one.
LEMMA ReplyShape ==
    ASSUME NEW r \in Replies
    PROVE  r.is = "job" => r.job \in JobIds
<1>1. CASE r \in [is : {"job"}, job : JobIds]
  BY <1>1
<1>2. CASE r = None \/ r = NoJob
  BY <1>2 DEF None, NoJob
<1> QED BY <1>1, <1>2 DEF Replies

\* A submission in progress names the job, its agent and its request.
LEMMA OperatorShape ==
    ASSUME NEW s \in OperatorStates, s.at = "create"
    PROVE  s.job \in JobIds /\ s.agent \in Agents /\ s.request \in Requests
BY DEF OperatorStates, AtRest

-----------------------------------------------------------------------------
(* What the steps with several outcomes do, at each agent and job.         *)

\* The answer, if it is read, replaces what the agent a had to read.
Answered(a, open, content) ==
    /\ \A b \in Agents : reply'[b] = IF b = a /\ open THEN content ELSE reply[b]
    /\ reply' \in [Agents -> Replies]

\* next_job answers "no job", or moves one queued row of the asking agent to running
\* and goes on to the decision; nobody else's row changes.
LEMMA ClaimEffect ==
    ASSUME LabTypeOK, Listed, NEW m \in requests, Claim(m)
    PROVE  /\ controller = AtRest /\ m.msg.ask = "next"
           /\ m.msg.agent \in Agents /\ m.open \in BOOLEAN
           /\ requests' = requests \ {m}
           /\ \/ UNCHANGED <<job, controller>> /\ Answered(m.msg.agent, m.open, NoJob)
              \/ LET j == controller'.job IN
                 /\ j \in JobIds
                 /\ job[j].status = "queued" /\ job[j].agent = m.msg.agent
                 /\ job'[j].status = "running" /\ job'[j].agent = m.msg.agent
                 /\ job'[j].request = job[j].request
                 /\ \A k \in JobIds : k # j => job'[k] = job[k]
                 /\ controller'.at = "decide" /\ controller'.agent = m.msg.agent
                 /\ controller'.open = m.open
                 /\ UNCHANGED reply
<1>1. /\ controller = AtRest /\ m.msg.ask = "next"
      /\ m.msg.agent \in Agents /\ m.open \in BOOLEAN
      /\ requests' = requests \ {m}
  BY MessageShape DEF LabTypeOK, Claim
<1>2. CASE Queued(m.msg.agent) = {}
  BY <1>1, <1>2, Shapes DEF LabTypeOK, Claim, Answer, Answered
<1>3. CASE Queued(m.msg.agent) # {}
  <2> DEFINE j == Oldest(Queued(m.msg.agent))
  <2>1. j \in JobIds /\ job[j].status = "queued" /\ job[j].agent = m.msg.agent
    BY <1>1, <1>3, OldestIsOne DEF Queued
  <2>2. /\ job' = [job EXCEPT ![j].status = "running"]
        /\ controller' = [at |-> "decide", agent |-> m.msg.agent, job |-> j, open |-> m.open]
        /\ UNCHANGED reply
    BY <1>3 DEF Claim
  <2> HIDE DEF j
  <2>3. job[j] \in [status : {"queued", "running"} \cup Over, agent : Agents,
                    request : Requests, result : {"none"} \cup Outcomes]
    BY <2>1 DEF LabTypeOK, JobRows, NoRow
  <2>4. /\ job'[j].status = "running" /\ job'[j].agent = m.msg.agent
        /\ job'[j].request = job[j].request
        /\ \A k \in JobIds : k # j => job'[k] = job[k]
    BY <2>1, <2>2, <2>3 DEF LabTypeOK
  <2>5. controller'.job = j
    BY <2>2
  <2> QED BY <1>1, <2>1, <2>2, <2>4, <2>5
<1> QED BY <1>2, <1>3

\* job_result refuses, or completes a job that was claimed before and belongs to the
\* reporting agent.
LEMMA AcceptEffect ==
    ASSUME LabTypeOK, RowInv, NEW m \in requests, AcceptResult(m)
    PROVE  /\ controller = AtRest /\ m.msg.ask = "result"
           /\ m.msg.agent \in Agents /\ m.msg.job \in JobIds /\ m.msg.outcome \in Outcomes
           /\ m.open \in BOOLEAN
           /\ requests' = requests \ {m}
           /\ \/ UNCHANGED <<job, controller>> /\ Answered(m.msg.agent, m.open, NoJob)
              \/ /\ job[m.msg.job].agent = m.msg.agent
                 /\ job[m.msg.job].status \notin Early
                 /\ job' = Complete(m.msg.job, m.msg.outcome)
                 /\ controller' =
                      [at |-> "audit", agent |-> m.msg.agent, job |-> m.msg.job, open |-> m.open,
                       event |-> Ended(m.msg.job, job'[m.msg.job].status)]
                 /\ UNCHANGED reply
<1>1. /\ controller = AtRest /\ m.msg.ask = "result"
      /\ m.msg.agent \in Agents /\ m.msg.job \in JobIds /\ m.msg.outcome \in Outcomes
      /\ m.open \in BOOLEAN
      /\ requests' = requests \ {m}
  BY MessageShape DEF LabTypeOK, AcceptResult
<1>2. CASE job[m.msg.job].agent # m.msg.agent
  BY <1>1, <1>2, Shapes DEF LabTypeOK, AcceptResult, Answer, Answered
<1>3. CASE job[m.msg.job].agent = m.msg.agent
  <2>1. InHands(m.msg.job) /\ job[m.msg.job].status \notin Early
    BY <1>1 DEF InHands, RowInv, Untouched
  <2> QED BY <1>1, <1>3, <2>1 DEF AcceptResult
<1> QED BY <1>2, <1>3

\* The decision at delivery answers with the claimed job, or fails it and goes on to
\* the audit event.
LEMMA DecideEffect ==
    ASSUME LabTypeOK, RowInv, Decide
    PROVE  /\ controller.at = "decide"
           /\ controller.agent \in Agents /\ controller.job \in JobIds /\ controller.open \in BOOLEAN
           /\ job[controller.job].status \notin Early
           /\ \/ /\ Answered(controller.agent, controller.open,
                             [is |-> "job", job |-> controller.job])
                 /\ controller' = AtRest
                 /\ UNCHANGED job
              \/ /\ job' = Complete(controller.job, "error")
                 /\ controller' =
                      [at |-> "audit", agent |-> controller.agent, job |-> controller.job,
                       open |-> controller.open,
                       event |-> Denied(job[controller.job].request, controller.agent)]
                 /\ UNCHANGED reply
<1>1. /\ controller.at = "decide"
      /\ controller.agent \in Agents /\ controller.job \in JobIds /\ controller.open \in BOOLEAN
  BY ControllerShape DEF LabTypeOK, Decide
<1>2. InHands(controller.job) /\ job[controller.job].status \notin Early
  BY <1>1 DEF InHands, RowInv, Untouched
<1>3. CASE job[controller.job].request \in granted
  BY <1>1, <1>2, <1>3, Shapes DEF LabTypeOK, Decide, Answer, Answered
<1>4. CASE job[controller.job].request \notin granted
  BY <1>1, <1>2, <1>4 DEF Decide
<1> QED BY <1>3, <1>4

\* After the audit event the handler ends and answers without a job.
LEMMA AuditEffect ==
    ASSUME LabTypeOK, Audit
    PROVE  /\ controller.at = "audit"
           /\ controller.agent \in Agents /\ controller.job \in JobIds /\ controller.open \in BOOLEAN
           /\ controller.event \in AuditEvents
           /\ controller' = AtRest
           /\ Answered(controller.agent, controller.open, NoJob)
<1>1. /\ controller.at = "audit"
      /\ controller.agent \in Agents /\ controller.job \in JobIds /\ controller.open \in BOOLEAN
      /\ controller.event \in AuditEvents
      /\ controller' = AtRest
  BY ControllerShape DEF LabTypeOK, Audit
<1> QED BY <1>1, Shapes DEF LabTypeOK, Audit, Answer, Answered

\* execute_job either starts the operation of the job it was given, counted once, or
\* refuses it with an error; no other agent and no other job changes.
LEMMA StartEffect ==
    ASSUME LabTypeOK, NEW a \in Agents, AgentStart(a)
    PROVE  /\ agent[a].at = "got" /\ agent[a].job \in JobIds
           /\ \A b \in Agents : b # a => agent'[b] = agent[b]
           /\ agent'[a].job = agent[a].job
           /\ \/ /\ agent'[a].at = "running"
                 /\ starts'[agent[a].job] = starts[agent[a].job] + 1
              \/ /\ agent'[a].at = "done" /\ agent'[a].outcome = "error"
                 /\ starts'[agent[a].job] = starts[agent[a].job]
           /\ \A l \in JobIds : l # agent[a].job => starts'[l] = starts[l]
           /\ starts' \in [JobIds -> Nat]
           /\ agent' \in [Agents -> AgentStates]
<1>1. agent[a] \in AgentStates /\ agent[a].at = "got" /\ agent[a].job \in JobIds
  BY AgentShape DEF LabTypeOK, AgentStart
<1>2. /\ [agent[a] EXCEPT !.at = "running"] \in AgentStates
      /\ [at |-> "done", job |-> agent[a].job, outcome |-> "error"] \in AgentStates
  BY <1>1, AgentShape DEF Outcomes
<1>3. CASE job[agent[a].job].request \in agentGranted[a]
  <2>1. agent[a] \in [at : {"got", "running"}, job : JobIds]
    BY <1>1 DEF AgentStates, AtRest
  <2>2. /\ agent' = [agent EXCEPT ![a] = [agent[a] EXCEPT !.at = "running"]]
        /\ starts' = [starts EXCEPT ![agent[a].job] = starts[agent[a].job] + 1]
    BY <1>3 DEF AgentStart
  <2> QED BY <1>1, <1>2, <2>1, <2>2 DEF LabTypeOK
<1>4. CASE job[agent[a].job].request \notin agentGranted[a]
  <2>1. /\ agent' = [agent EXCEPT ![a] = [at |-> "done", job |-> agent[a].job, outcome |-> "error"]]
        /\ UNCHANGED starts
    BY <1>4 DEF AgentStart
  <2> QED BY <1>1, <1>2, <2>1 DEF LabTypeOK
<1> QED BY <1>3, <1>4

\* An agent that gives up closes its own request, handler and answer, and those of no
\* other agent.
LEMMA GivesUpEffect ==
    ASSUME LabTypeOK, NEW a \in Agents, AgentGivesUp(a)
    PROVE  /\ \A n \in requests' : \E m \in requests :
                /\ n.msg = m.msg
                /\ n.open => n = m /\ m.open /\ m.msg.agent # a
           /\ controller'.at = controller.at /\ controller'.job = controller.job
           /\ controller.at # "idle" => 
                /\ controller'.agent = controller.agent
                /\ controller'.open => controller.open /\ controller.agent # a
                /\ controller.agent # a => controller' = controller
           /\ controller.at = "audit" => controller'.event = controller.event
           /\ \A b \in Agents : /\ reply'[b] = IF b = a THEN None ELSE reply[b]
                                /\ agent'[b] = IF b = a THEN AtRest ELSE agent[b]
<1>1. ASSUME NEW m \in requests, NEW n, n = [m EXCEPT !.open = m.open /\ m.msg.agent # a]
      PROVE  n.msg = m.msg /\ (n.open => n = m /\ m.open /\ m.msg.agent # a)
  <2>1. m \in [msg : AllRequests, open : BOOLEAN, attempt : 0 .. MaxFaults]
    BY DEF LabTypeOK
  <2> DEFINE o == m.open /\ m.msg.agent # a
  <2>2. n = [m EXCEPT !.open = o]
    BY <1>1
  <2>3. n.msg = m.msg /\ n.open = o
    <3> HIDE DEF o
    <3> QED BY <2>1, <2>2
  <2>4. m.open => m.open = TRUE
    BY <2>1
  <2>5. ASSUME o PROVE n = m
    <3>1. o = TRUE
      BY <2>5
    <3>2. m = [m EXCEPT !.open = TRUE]
      BY <2>1, <2>4, <2>5
    <3> QED BY <3>1, <3>2, <2>2
  <2> QED BY <2>3, <2>5
<1>2. /\ requests' = {[m EXCEPT !.open = m.open /\ m.msg.agent # a] : m \in requests}
      /\ \A b \in Agents : /\ reply'[b] = IF b = a THEN None ELSE reply[b]
                           /\ agent'[b] = IF b = a THEN AtRest ELSE agent[b]
  BY DEF LabTypeOK, AgentGivesUp, Abandon
<1>5. ASSUME NEW n \in requests'
      PROVE  \E m \in requests : n.msg = m.msg /\ (n.open => n = m /\ m.open /\ m.msg.agent # a)
  <2>1. PICK m \in requests : n = [m EXCEPT !.open = m.open /\ m.msg.agent # a]
    BY <1>2, Zenon
  <2> QED BY <2>1, <1>1
<1>3. CASE controller.at # "idle" /\ controller.agent = a
  <2>1. controller' = [controller EXCEPT !.open = FALSE]
    BY <1>3 DEF AgentGivesUp
  <2>2. \/ controller \in [at : {"decide"}, agent : Agents, job : JobIds, open : BOOLEAN]
        \/ controller \in [at : {"audit"}, agent : Agents, job : JobIds, open : BOOLEAN,
                           event : AuditEvents]
    BY <1>3 DEF LabTypeOK, ControllerStates, AtRest
  <2>3. /\ controller'.at = controller.at /\ controller'.job = controller.job
        /\ controller'.agent = controller.agent /\ controller'.open = FALSE
        /\ controller.at = "audit" => controller'.event = controller.event
    BY <2>1, <2>2
  <2> QED BY <1>2, <1>5, <1>3, <2>3
<1>4. CASE ~(controller.at # "idle" /\ controller.agent = a)
  <2>1. UNCHANGED controller
    BY <1>4 DEF AgentGivesUp
  <2> QED BY <1>2, <1>5, <1>4, <2>1
<1> QED BY <1>3, <1>4

-----------------------------------------------------------------------------

\* The initial state is typed.
LEMMA TypeInit == LabJobsAssumption /\ LabInit => LabTypeOK
BY Shapes DEF LabJobsAssumption, LabInit, LabTypeOK

\* The types of what an answer is put into.
LEMMA AnswerTyped ==
    ASSUME reply \in [Agents -> Replies], NEW a \in Agents, NEW open,
           NEW content \in Replies, Answer(a, open, content)
    PROVE  reply' \in [Agents -> Replies]
BY DEF Answer

\* Every step keeps the types.  That a claimed or reported job has a row is not a matter
\* of types: RowInv is needed.
LEMMA TypeNext ==
    ASSUME LabJobsAssumption, LabTypeOK, RowInv, [LabNext]_labVars
    PROVE  LabTypeOK'
<1>1. ASSUME NEW j \in JobIds, NEW a \in Agents, NEW r \in Requests, SubmitDecide(j, a, r)
      PROVE  LabTypeOK'
  <2>1. [at |-> "create", job |-> j, agent |-> a, request |-> r] \in OperatorStates
    BY DEF OperatorStates
  <2> QED BY <1>1, <2>1, AuditShape DEF LabTypeOK, SubmitDecide, policy, wire
<1>2. CASE SubmitCreate
  BY <1>2, OperatorShape, NewRow, Shapes DEF LabTypeOK, SubmitCreate, policy, wire
<1>3. ASSUME NEW j \in JobIds, Cancel(j) PROVE LabTypeOK'
  <2>1. [job[j] EXCEPT !.status = "cancelled"] \in JobRows
    BY <1>3, RowShapes DEF LabTypeOK, Cancel
  <2> QED BY <1>3, <2>1 DEF LabTypeOK, Cancel, policy, wire
<1>4. ASSUME NEW allowed \in SUBSET Requests, SetPolicy(allowed) PROVE LabTypeOK'
  BY <1>4 DEF LabTypeOK, SetPolicy, wire, LabJobsAssumption
<1>5. ASSUME NEW m \in requests, Claim(m) PROVE LabTypeOK'
  <2>1. m.msg.agent \in Agents /\ m.open \in BOOLEAN
    BY MessageShape DEF LabTypeOK
  <2>2. CASE Queued(m.msg.agent) = {}
    BY <1>5, <2>1, <2>2, AnswerTyped, Shapes DEF LabTypeOK, Claim, policy
  <2>3. CASE Queued(m.msg.agent) # {}
    <3> DEFINE j == Oldest(Queued(m.msg.agent))
    <3>1. j \in JobIds /\ job[j].status = "queued"
      BY <2>1, <2>3, OldestIsOne DEF Queued, RowInv
    <3>2. [job[j] EXCEPT !.status = "running"] \in JobRows
      BY <3>1, RowShapes DEF LabTypeOK
    <3>3. [at |-> "decide", agent |-> m.msg.agent, job |-> j, open |-> m.open] \in ControllerStates
      BY <2>1, <3>1 DEF ControllerStates
    <3>4. /\ job' = [job EXCEPT ![j] = [job[j] EXCEPT !.status = "running"]]
          /\ controller' = [at |-> "decide", agent |-> m.msg.agent, job |-> j, open |-> m.open]
          /\ requests' = requests \ {m}
          /\ UNCHANGED <<reply, created, audit, policy, operator, agent, starts, faults>>
      BY <1>5, <2>3 DEF Claim
    <3> HIDE DEF j
    <3> QED BY <3>1, <3>2, <3>3, <3>4 DEF LabTypeOK, policy
  <2> QED BY <2>2, <2>3
<1>6. ASSUME NEW m \in requests, AcceptResult(m) PROVE LabTypeOK'
  <2>1. /\ m.msg.agent \in Agents /\ m.open \in BOOLEAN /\ m.msg.job \in JobIds
        /\ m.msg.outcome \in Outcomes
    BY <1>6, MessageShape DEF LabTypeOK, AcceptResult
  <2>2. CASE job[m.msg.job].agent # m.msg.agent
    BY <1>6, <2>1, <2>2, AnswerTyped, Shapes DEF LabTypeOK, AcceptResult, policy
  <2>3. CASE job[m.msg.job].agent = m.msg.agent
    <3>1. /\ job' = Complete(m.msg.job, m.msg.outcome)
          /\ controller' =
               [at |-> "audit", agent |-> m.msg.agent, job |-> m.msg.job, open |-> m.open,
                event |-> Ended(m.msg.job, job'[m.msg.job].status)]
          /\ requests' \subseteq requests
          /\ UNCHANGED <<reply, created, audit, policy, operator, agent, starts, faults>>
      BY <1>6, <2>3 DEF AcceptResult
    <3>2. job[m.msg.job].status # "absent"
      BY <1>6, <2>1 DEF RowInv, Untouched, Early, InHands, AcceptResult
    <3>3. job' \in [JobIds -> JobRows] /\ job'[m.msg.job].status \in {"completed", "failed"}
      BY <2>1, <3>1, <3>2, RowCompleted DEF LabTypeOK
    <3>4. Ended(m.msg.job, job'[m.msg.job].status) \in AuditEvents
      BY <2>1, <3>3 DEF Ended, AuditEvents
    <3>5. controller' \in ControllerStates
      BY <2>1, <3>1, <3>4 DEF ControllerStates
    <3> QED BY <3>1, <3>3, <3>5 DEF LabTypeOK, policy
  <2> QED BY <2>2, <2>3
<1>7. CASE Decide
  <2>1. /\ controller.agent \in Agents /\ controller.job \in JobIds /\ controller.open \in BOOLEAN
        /\ controller \in ControllerStates
    BY <1>7, ControllerShape DEF LabTypeOK, Decide
  <2>2. job[controller.job].status # "absent"
    BY <1>7, <2>1 DEF RowInv, Untouched, Early, InHands, Decide
  <2>3. CASE job[controller.job].request \in granted
    BY <1>7, <2>1, <2>3, AnswerTyped, Shapes DEF LabTypeOK, Decide, policy
  <2>4. CASE job[controller.job].request \notin granted
    <3>1. /\ job' = Complete(controller.job, "error")
          /\ controller' =
               [at |-> "audit", agent |-> controller.agent, job |-> controller.job,
                open |-> controller.open,
                event |-> Denied(job[controller.job].request, controller.agent)]
          /\ UNCHANGED <<reply, created, audit, policy, operator, requests, agent, starts, faults>>
      BY <1>7, <2>4 DEF Decide
    <3>2. job' \in [JobIds -> JobRows]
      BY <2>1, <2>2, <3>1, RowCompleted DEF LabTypeOK, Outcomes
    <3>3. Denied(job[controller.job].request, controller.agent) \in AuditEvents
      BY <2>1, <2>2, RowShapes, AuditShape DEF LabTypeOK
    <3>4. controller' \in ControllerStates
      BY <2>1, <3>1, <3>3 DEF ControllerStates
    <3> QED BY <3>1, <3>2, <3>4 DEF LabTypeOK, policy
  <2> QED BY <2>3, <2>4
<1>8. CASE Audit
  <2>1. /\ controller.agent \in Agents /\ controller.event \in AuditEvents
    BY <1>8, ControllerShape DEF LabTypeOK, Audit
  <2> QED BY <1>8, <2>1, AnswerTyped, Shapes DEF LabTypeOK, Audit, policy
<1>9. ASSUME NEW a \in Agents, AgentPoll(a) PROVE LabTypeOK'
  <2>1. [at |-> "polling"] \in AgentStates /\ Poll(a) \in AllRequests
    <3>1. agent[a] \in AgentStates
      BY DEF LabTypeOK
    <3> QED BY <3>1, AgentShape, MessageShape
  <2>2. [msg |-> Poll(a), open |-> TRUE, attempt |-> faults]
          \in [msg : AllRequests, open : BOOLEAN, attempt : 0 .. MaxFaults]
    BY <2>1 DEF LabTypeOK
  <2> QED BY <1>9, <2>1, <2>2 DEF LabTypeOK, AgentPoll, policy, Send
<1>10. ASSUME NEW a \in Agents, AgentReceive(a) PROVE LabTypeOK'
  BY <1>10, ReplyShape, AgentShape, Shapes DEF LabTypeOK, AgentReceive, policy
<1>11. ASSUME NEW a \in Agents, AgentStart(a) PROVE LabTypeOK'
  <2>1. agent' \in [Agents -> AgentStates] /\ starts' \in [JobIds -> Nat]
    BY <1>11, StartEffect
  <2> QED BY <1>11, <2>1 DEF LabTypeOK, AgentStart, policy, wire
<1>12. ASSUME NEW a \in Agents, AgentFinish(a) PROVE LabTypeOK'
  <2>1. agent[a] \in AgentStates /\ agent[a].job \in JobIds
    BY <1>12, AgentShape DEF LabTypeOK, AgentFinish
  <2>2. \A o \in Outcomes : [at |-> "done", job |-> agent[a].job, outcome |-> o] \in AgentStates
    BY <2>1, AgentShape
  <2> QED BY <1>12, <2>2 DEF LabTypeOK, AgentFinish, policy, wire
<1>13. ASSUME NEW a \in Agents, AgentReport(a) PROVE LabTypeOK'
  <2>1. agent[a] \in AgentStates /\ agent[a].job \in JobIds /\ agent[a].outcome \in Outcomes
    BY <1>13, AgentShape DEF LabTypeOK, AgentReport
  <2>2. /\ [at |-> "reporting"] \in AgentStates
        /\ Result(a, agent[a].job, agent[a].outcome) \in AllRequests
    BY <2>1, AgentShape, MessageShape
  <2>3. [msg |-> Result(a, agent[a].job, agent[a].outcome), open |-> TRUE, attempt |-> faults]
          \in [msg : AllRequests, open : BOOLEAN, attempt : 0 .. MaxFaults]
    BY <2>2 DEF LabTypeOK
  <2> QED BY <1>13, <2>2, <2>3 DEF LabTypeOK, AgentReport, policy, Send
<1>14. ASSUME NEW a \in Agents, AgentGivesUp(a) PROVE LabTypeOK'
  <2>1. controller' \in ControllerStates
    BY <1>14, ControllerShape DEF LabTypeOK, AgentGivesUp
  <2>2. \A m \in requests : [m EXCEPT !.open = @ /\ m.msg.agent # a]
          \in [msg : AllRequests, open : BOOLEAN, attempt : 0 .. MaxFaults]
    <3> SUFFICES ASSUME NEW m \in requests
                 PROVE  [m EXCEPT !.open = m.open /\ m.msg.agent # a]
                          \in [msg : AllRequests, open : BOOLEAN, attempt : 0 .. MaxFaults]
      OBVIOUS
    <3>1. m \in [msg : AllRequests, open : BOOLEAN, attempt : 0 .. MaxFaults]
      BY DEF LabTypeOK
    <3> DEFINE o == m.open /\ m.msg.agent # a
    <3>2. o \in BOOLEAN
      OBVIOUS
    <3> HIDE DEF o
    <3>3. [m EXCEPT !.open = o] \in [msg : AllRequests, open : BOOLEAN, attempt : 0 .. MaxFaults]
      BY <3>1, <3>2
    <3> QED BY <3>3 DEF o
  <2>3. requests' \subseteq [msg : AllRequests, open : BOOLEAN, attempt : 0 .. MaxFaults]
        /\ faults' \in 0 .. MaxFaults
    BY <1>14, <2>2 DEF LabTypeOK, AgentGivesUp, Fault, Abandon, LabJobsAssumption
  <2> QED BY <1>14, <2>1, <2>3, Shapes DEF LabTypeOK, AgentGivesUp, policy
<1>15. ASSUME NEW m \in requests, LoseRequest(m) PROVE LabTypeOK'
  BY <1>15 DEF LabTypeOK, LoseRequest, policy
<1>16. CASE ControllerCrash
  BY <1>16, Shapes DEF LabTypeOK, ControllerCrash, policy, Fault, LabJobsAssumption
<1>17. CASE UNCHANGED labVars
  BY <1>17 DEF LabTypeOK, labVars, policy, wire
<1> QED
  BY <1>1, <1>2, <1>3, <1>4, <1>5, <1>6, <1>7, <1>8, <1>9, <1>10, <1>11, <1>12,
     <1>13, <1>14, <1>15, <1>16, <1>17 DEF LabNext, Handle, Agent

\* What a step does to job k.
Move(k) ==
    /\ job'[k].status \in Early => job[k].status \in Early
    /\ job[k].status = "absent" => job'[k] = job[k] \/ SubmitCreate
    /\ job[k].status # "absent" => /\ job'[k].status # "absent"
                                  /\ job'[k].agent = job[k].agent
                                  /\ job'[k].request = job[k].request
    /\ job'[k] # job[k] => InHands(k) \/ job[k].status \in {"absent", "queued", "running"}
    /\ InHands(k)' => InHands(k) \/ job'[k].status = "running"
    /\ starts'[k] # starts[k] => \E a \in Agents : agent[a].at = "got" /\ agent[a].job = k

\* What was claimed is never queued again, a row keeps its agent and its request, and is
\* changed only while it is open or in somebody's hands.
LEMMA Moves ==
    ASSUME LabTypeOK, RowInv, [LabNext]_labVars, NEW k \in JobIds
    PROVE  Move(k)
<1>1. ASSUME NEW j \in JobIds, NEW a \in Agents, NEW r \in Requests, SubmitDecide(j, a, r)
      PROVE  Move(k)
  BY <1>1 DEF SubmitDecide, policy, wire, InHands, Move
<1>2. CASE SubmitCreate
  BY <1>2, OperatorShape DEF SubmitCreate, policy, wire, InHands, Move, RowInv, CreateInv, Early, LabTypeOK
<1>3. ASSUME NEW j \in JobIds, Cancel(j) PROVE Move(k)
  BY <1>3 DEF Cancel, policy, wire, InHands, Move, LabTypeOK, Early
<1>4. ASSUME NEW allowed \in SUBSET Requests, SetPolicy(allowed) PROVE Move(k)
  BY <1>4 DEF SetPolicy, wire, InHands, Move
<1>5. ASSUME NEW m \in requests, Claim(m) PROVE Move(k)
  <2>1. UNCHANGED <<agent, starts>>
    BY <1>5 DEF Claim
  <2>2. CASE UNCHANGED <<job, controller>> /\ Answered(m.msg.agent, m.open, NoJob)
    BY <1>5, <2>1, <2>2, ClaimEffect DEF RowInv, Answered, InHands, Move, NoJob
  <2>3. CASE UNCHANGED reply /\ job'[controller'.job].status = "running"
             /\ \A l \in JobIds : l # controller'.job => job'[l] = job[l]
    BY <1>5, <2>1, <2>3, ClaimEffect DEF RowInv, InHands, Move, Early
  <2> QED BY <1>5, <2>2, <2>3, ClaimEffect DEF RowInv
<1>6. ASSUME NEW m \in requests, AcceptResult(m) PROVE Move(k)
  <2>1. UNCHANGED <<agent, starts>>
    BY <1>6 DEF AcceptResult
  <2>2. CASE UNCHANGED <<job, controller>> /\ Answered(m.msg.agent, m.open, NoJob)
    BY <1>6, <2>1, <2>2, AcceptEffect DEF Answered, InHands, Move, NoJob
  <2>3. CASE ~(UNCHANGED <<job, controller>> /\ Answered(m.msg.agent, m.open, NoJob))
    <3>1. /\ job' = Complete(m.msg.job, m.msg.outcome) /\ controller'.job = m.msg.job
          /\ UNCHANGED reply /\ requests' = requests \ {m}
          /\ job[m.msg.job].status # "absent"
          /\ m.msg.job \in JobIds /\ m.msg.outcome \in Outcomes
          /\ InHands(m.msg.job)
      BY <1>6, <2>3, AcceptEffect DEF InHands, Early
    <3>2. \/ job'[k] = job[k]
          \/ /\ k = m.msg.job
             /\ job'[k].status \in {"failed", "completed"} /\ job[k].status # "absent"
             /\ job'[k].agent = job[k].agent /\ job'[k].request = job[k].request
      BY <3>1, RowCompleted DEF LabTypeOK
    <3> QED BY <2>1, <3>1, <3>2 DEF InHands, Move, Early
  <2> QED BY <2>2, <2>3
<1>7. CASE Decide
  <2>1. UNCHANGED <<requests, agent, starts>> /\ InHands(controller.job)
    BY <1>7, DecideEffect DEF Decide, InHands
  <2>2. CASE UNCHANGED job
    <3>1. CASE controller' = AtRest
      BY <1>7, <2>1, <2>2, <3>1, DecideEffect DEF Answered, InHands, Move, AtRest
    <3>2. CASE UNCHANGED reply /\ controller'.job = controller.job
      BY <2>1, <2>2, <3>2 DEF InHands, Move
    <3> QED BY <1>7, <3>1, <3>2, DecideEffect
  <2>3. CASE /\ UNCHANGED reply /\ controller'.job = controller.job
             /\ job' = Complete(controller.job, "error")
    <3>1. \/ job'[k] = job[k]
          \/ /\ k = controller.job
             /\ job'[k].status = "failed" /\ job[k].status # "absent"
             /\ job'[k].agent = job[k].agent /\ job'[k].request = job[k].request
      BY <1>7, <2>3, DecideEffect, RowCompleted DEF LabTypeOK, Early, Outcomes
    <3> QED BY <2>1, <2>3, <3>1 DEF InHands, Move, Early
  <2> QED BY <1>7, <2>2, <2>3, DecideEffect
<1>8. CASE Audit
  <2>1. UNCHANGED <<job, requests, agent, starts>>
    BY <1>8 DEF Audit
  <2> QED BY <1>8, <2>1, AuditEffect DEF Answered, InHands, Move, AtRest, NoJob
<1>9. ASSUME NEW a \in Agents, AgentPoll(a) PROVE Move(k)
  BY <1>9 DEF LabTypeOK, AgentPoll, Send, Poll, InHands, Move
<1>10. ASSUME NEW a \in Agents, AgentReceive(a) PROVE Move(k)
  BY <1>10, ReplyShape DEF LabTypeOK, AgentReceive, InHands, Move, AtRest, None
<1>11. ASSUME NEW a \in Agents, AgentStart(a) PROVE Move(k)
  <2>1. UNCHANGED <<job, controller, requests, reply>>
    BY <1>11 DEF AgentStart, wire
  <2>2. /\ agent[a].at = "got" /\ agent[a].job \in JobIds
        /\ \A b \in Agents : b # a => agent'[b] = agent[b]
        /\ agent'[a].job = agent[a].job
        /\ \A l \in JobIds : l # agent[a].job => starts'[l] = starts[l]
    BY <1>11, StartEffect
  <2> QED BY <2>1, <2>2 DEF InHands, Move
<1>12. ASSUME NEW a \in Agents, AgentFinish(a) PROVE Move(k)
  BY <1>12 DEF LabTypeOK, AgentFinish, policy, wire, InHands, Move
<1>13. ASSUME NEW a \in Agents, AgentReport(a) PROVE Move(k)
  BY <1>13 DEF LabTypeOK, AgentReport, Send, Result, InHands, Move
<1>14. ASSUME NEW a \in Agents, AgentGivesUp(a) PROVE Move(k)
  <2>1. UNCHANGED <<job, starts>>
    BY <1>14 DEF AgentGivesUp
  <2> QED BY <1>14, <2>1, GivesUpEffect DEF InHands, Move, None, AtRest
<1>15. ASSUME NEW m \in requests, LoseRequest(m) PROVE Move(k)
  BY <1>15 DEF LoseRequest, InHands, Move
<1>16. CASE ControllerCrash
  BY <1>16 DEF LabTypeOK, ControllerCrash, InHands, Move, AtRest
<1>17. CASE UNCHANGED labVars
  BY <1>17 DEF labVars, policy, wire, InHands, Move
<1> QED
  BY <1>1, <1>2, <1>3, <1>4, <1>5, <1>6, <1>7, <1>8, <1>9, <1>10, <1>11, <1>12,
     <1>13, <1>14, <1>15, <1>16, <1>17 DEF LabNext, Handle, Agent

\* Only a submission appends to the list; only it begins or ends at the operator.
LEMMA OnlySubmissions ==
    ASSUME [LabNext]_labVars
    PROVE  \/ UNCHANGED <<created, operator>>
           \/ SubmitCreate
           \/ \E j \in JobIds, a \in Agents, r \in Requests : SubmitDecide(j, a, r)
<1>1. ASSUME NEW m \in requests, Claim(m) \/ AcceptResult(m) \/ LoseRequest(m)
      PROVE  UNCHANGED <<created, operator>>
  BY <1>1 DEF Claim, AcceptResult, LoseRequest
<1>2. CASE Decide \/ Audit
  BY <1>2 DEF Decide, Audit
<1>3. ASSUME NEW a \in Agents, Agent(a) \/ AgentGivesUp(a)
      PROVE  UNCHANGED <<created, operator>>
  BY <1>3 DEF Agent, AgentPoll, AgentReceive, AgentStart, AgentFinish, AgentReport, AgentGivesUp
<1>4. ASSUME NEW j \in JobIds, Cancel(j) PROVE UNCHANGED <<created, operator>>
  BY <1>4 DEF Cancel
<1>5. ASSUME NEW allowed, SetPolicy(allowed) PROVE UNCHANGED <<created, operator>>
  BY <1>5 DEF SetPolicy
<1>6. CASE ControllerCrash \/ UNCHANGED labVars
  BY <1>6 DEF ControllerCrash, labVars
<1> QED BY <1>1, <1>2, <1>3, <1>4, <1>5, <1>6 DEF LabNext, Handle

\* Nothing is submitted at the start.
LEMMA RowInit == LabInit => RowInv
BY DEF LabInit, RowInv, CreateInv, Listed, Untouched, NoRow, AtRest, None, InHands

\* Every step of operator, controller, agents and faults keeps RowInv.
LEMMA RowNext ==
    ASSUME LabTypeOK, LabTypeOK', RowInv, [LabNext]_labVars
    PROVE  RowInv'
<1>1. \A k \in JobIds : Move(k)
  BY Moves
<1>2. CreateInv'
  <2>1. ASSUME NEW j \in JobIds, NEW a \in Agents, NEW r \in Requests, SubmitDecide(j, a, r)
        PROVE  CreateInv'
    BY <2>1 DEF SubmitDecide, CreateInv, NoRow, AtRest
  <2>2. CASE SubmitCreate
    BY <2>2 DEF SubmitCreate, CreateInv, AtRest
  <2>3. CASE UNCHANGED operator /\ ~SubmitCreate
    BY <1>1, <2>3, OperatorShape DEF LabTypeOK, CreateInv, RowInv, Move
  <2> QED BY <2>1, <2>2, <2>3, OnlySubmissions
<1>3. Listed'
  <2>1. CASE SubmitCreate
    <3>1. operator.job \in JobIds
      BY <2>1, OperatorShape DEF LabTypeOK, SubmitCreate
    <3>2. /\ created' = Append(created, operator.job)
          /\ \A k \in JobIds : k # operator.job => job'[k] = job[k]
      BY <2>1, <3>1 DEF LabTypeOK, SubmitCreate
    <3>3. /\ Len(created) + 1 \in DOMAIN created' /\ created'[Len(created) + 1] = operator.job
          /\ \A p \in DOMAIN created : p \in DOMAIN created' /\ created'[p] = created[p]
      BY <3>1, <3>2 DEF LabTypeOK
    <3> QED BY <3>2, <3>3 DEF RowInv, Listed
  <2>2. CASE ~SubmitCreate
    <3>1. UNCHANGED created
      BY <2>2, OnlySubmissions DEF SubmitDecide
    <3>2. \A k \in JobIds : job'[k].status # "absent" => job[k].status # "absent"
      BY <1>1, <2>2 DEF Move
    <3> QED BY <3>1, <3>2 DEF RowInv, Listed
  <2> QED BY <2>1, <2>2
<1>4. Untouched'
  <2> SUFFICES ASSUME NEW k \in JobIds, job'[k].status \in Early
               PROVE  ~InHands(k)' /\ starts'[k] = 0
    BY DEF Untouched
  <2>1. Move(k) /\ ~InHands(k) /\ starts[k] = 0
    BY <1>1 DEF RowInv, Untouched, Move
  <2>2. ~InHands(k)'
    BY <2>1 DEF Move, Early
  <2>3. starts'[k] = 0
    BY <2>1 DEF Move, InHands
  <2> QED BY <2>2, <2>3
<1> QED BY <1>2, <1>3, <1>4 DEF RowInv

-----------------------------------------------------------------------------
(* At most one place holds the right to start a job.                       *)

\* The places the right to start job j can be in: handler, answer, agent.
Deciding(j)   == controller.at = "decide" /\ controller.job = j
Replied(a, j) == reply[a].is = "job" /\ reply[a].job = j
Got(a, j)     == agent[a].at = "got" /\ agent[a].job = j

\* Job j was started at most once, and while one place can still lead to a start, the job
\* was not started and no other place can.
Ticket(j) ==
    /\ starts[j] \in {0, 1}
    /\ Deciding(j) => starts[j] = 0 /\ \A a \in Agents : ~Replied(a, j) /\ ~Got(a, j)
    /\ \A a \in Agents : Replied(a, j) =>
          starts[j] = 0 /\ \A b \in Agents : ~Got(b, j) /\ (Replied(b, j) => b = a)
    /\ \A a \in Agents : Got(a, j) =>
          starts[j] = 0 /\ \A b \in Agents : Got(b, j) => b = a

\* Each job has at most one such place.
TicketInv == \A j \in JobIds : Ticket(j)

\* An operation that runs, or delivered data, was started.
Ran(j) ==
    /\ \A a \in Agents : agent[a].at = "running" /\ agent[a].job = j => starts[j] > 0
    /\ \A a \in Agents : agent[a].at = "done" /\ agent[a].job = j /\ agent[a].outcome = "data"
          => starts[j] > 0
    /\ \A m \in requests : m.msg.ask = "result" /\ m.msg.job = j /\ m.msg.outcome = "data"
          => starts[j] > 0
    /\ job[j].status = "completed" => starts[j] > 0

\* No job is reported without having run.
RanInv == \A j \in JobIds : Ran(j)

\* Nobody holds a job, and nothing was started, at the start.
LEMMA TicketInit == LabInit => TicketInv /\ RanInv
BY DEF LabInit, TicketInv, Ticket, Deciding, Replied, Got, RanInv, Ran, None, AtRest, NoRow

\* No step duplicates the right to start a job: a claim needs a queued row and leaves a
\* running one, a delivery moves the right to the answer, the agent takes it and starts it.
LEMMA TicketNext ==
    ASSUME LabTypeOK, RowInv, [LabNext]_labVars, NEW k \in JobIds, Ticket(k)
    PROVE  Ticket(k)'
<1> USE DEF Ticket, Deciding, Replied, Got
<1>1. CASE UNCHANGED <<controller, reply, agent, starts>>
  BY <1>1
<1>2. ASSUME NEW m \in requests, Claim(m) PROVE Ticket(k)'
  <2>1. UNCHANGED <<agent, starts>>
    BY <1>2 DEF Claim
  <2>2. CASE UNCHANGED controller /\ Answered(m.msg.agent, m.open, NoJob)
    BY <2>1, <2>2 DEF Answered, NoJob
  <2>3. CASE UNCHANGED reply /\ controller'.job \in JobIds /\ job[controller'.job].status = "queued"
    <3>1. starts[controller'.job] = 0 /\ ~InHands(controller'.job)
      BY <2>3 DEF RowInv, Untouched, Early
    <3>2. controller = AtRest
      BY <1>2 DEF Claim
    <3> QED BY <2>1, <2>3, <3>1, <3>2 DEF InHands, AtRest
  <2> QED BY <1>2, <2>2, <2>3, ClaimEffect DEF RowInv
<1>3. ASSUME NEW m \in requests, AcceptResult(m) PROVE Ticket(k)'
  <2>1. UNCHANGED <<agent, starts>>
    BY <1>3 DEF AcceptResult
  <2>2. CASE UNCHANGED controller /\ Answered(m.msg.agent, m.open, NoJob)
    BY <2>1, <2>2 DEF Answered, NoJob
  <2>3. CASE UNCHANGED reply /\ controller'.at = "audit"
    BY <2>1, <2>3
  <2> QED BY <1>3, <2>2, <2>3, AcceptEffect
<1>4. CASE Decide
  <2>1. UNCHANGED <<agent, starts>>
    BY <1>4 DEF Decide
  <2>2. CASE /\ Answered(controller.agent, controller.open, [is |-> "job", job |-> controller.job])
             /\ controller' = AtRest
    BY <1>4, <2>1, <2>2, DecideEffect DEF Answered, AtRest
  <2>3. CASE UNCHANGED reply /\ controller'.at = "audit"
    BY <2>1, <2>3
  <2> QED BY <1>4, <2>2, <2>3, DecideEffect
<1>5. CASE Audit
  <2>1. UNCHANGED <<agent, starts>>
    BY <1>5 DEF Audit
  <2> QED BY <1>5, <2>1, AuditEffect DEF Answered, AtRest, NoJob
<1>6. ASSUME NEW a \in Agents, AgentPoll(a) \/ AgentFinish(a) \/ AgentReport(a)
      PROVE  Ticket(k)'
  <2>1. /\ UNCHANGED <<controller, reply, starts>>
        /\ agent'[a].at # "got" /\ \A b \in Agents : b # a => agent'[b] = agent[b]
    BY <1>6 DEF LabTypeOK, AgentPoll, AgentFinish, AgentReport, wire
  <2> QED BY <2>1
<1>7. ASSUME NEW a \in Agents, AgentReceive(a) PROVE Ticket(k)'
  <2>1. /\ UNCHANGED <<controller, starts>>
        /\ \A b \in Agents : b # a => agent'[b] = agent[b] /\ reply'[b] = reply[b]
        /\ reply'[a] = None
        /\ agent'[a] = IF reply[a].is = "job" THEN [at |-> "got", job |-> reply[a].job] ELSE AtRest
    BY <1>7 DEF LabTypeOK, AgentReceive
  <2> QED BY <2>1 DEF None, AtRest
<1>8. ASSUME NEW a \in Agents, AgentStart(a) PROVE Ticket(k)'
  <2>1. UNCHANGED <<controller, reply>>
    BY <1>8 DEF AgentStart, wire
  <2> QED BY <1>8, <2>1, StartEffect
<1>9. ASSUME NEW a \in Agents, AgentGivesUp(a) PROVE Ticket(k)'
  <2>1. UNCHANGED starts
    BY <1>9 DEF AgentGivesUp
  <2> QED BY <1>9, <2>1, GivesUpEffect DEF None, AtRest
<1>10. CASE ControllerCrash
  <2>1. /\ UNCHANGED <<reply, starts>> /\ controller' = AtRest
        /\ \A b \in Agents : agent'[b] = agent[b] \/ agent'[b] = AtRest
    BY <1>10 DEF ControllerCrash, LabTypeOK
  <2> QED BY <2>1 DEF AtRest
<1> HIDE DEF Ticket
<1> QED
  BY <1>1, <1>2, <1>3, <1>4, <1>5, <1>6, <1>7, <1>8, <1>9, <1>10
     DEF LabNext, Handle, Agent, SubmitDecide, SubmitCreate, Cancel, SetPolicy, LoseRequest,
         labVars, policy, wire

\* Nobody takes a start back.
LEMMA StartsGrow ==
    ASSUME LabTypeOK, [LabNext]_labVars, NEW k \in JobIds
    PROVE  starts'[k] >= starts[k] /\ starts[k] \in Nat
<1>1. CASE UNCHANGED starts
  BY <1>1 DEF LabTypeOK
<1>2. ASSUME NEW a \in Agents, AgentStart(a) PROVE starts'[k] >= starts[k]
  <2>1. starts'[k] = starts[k] \/ starts'[k] = starts[k] + 1
    BY <1>2, StartEffect
  <2>2. starts[k] \in Nat
    BY DEF LabTypeOK
  <2> QED BY <2>1, <2>2
<1>3. UNCHANGED starts \/ \E a \in Agents : AgentStart(a)
  <2>1. ASSUME NEW m \in requests, Claim(m) \/ AcceptResult(m) \/ LoseRequest(m)
        PROVE  UNCHANGED starts
    BY <2>1 DEF Claim, AcceptResult, LoseRequest
  <2>2. CASE Decide \/ Audit \/ ControllerCrash \/ SubmitCreate \/ UNCHANGED labVars
    BY <2>2 DEF Decide, Audit, ControllerCrash, SubmitCreate, labVars
  <2>3. ASSUME NEW a \in Agents,
               AgentPoll(a) \/ AgentReceive(a) \/ AgentFinish(a) \/ AgentReport(a) \/ AgentGivesUp(a)
        PROVE  UNCHANGED starts
    BY <2>3 DEF AgentPoll, AgentReceive, AgentFinish, AgentReport, AgentGivesUp
  <2>4. ASSUME NEW j, Cancel(j) \/ SetPolicy(j) \/ \E a \in Agents, r \in Requests : SubmitDecide(j, a, r)
        PROVE  UNCHANGED starts
    BY <2>4 DEF Cancel, SetPolicy, SubmitDecide
  <2> QED BY <2>1, <2>2, <2>3, <2>4 DEF LabNext, Handle, Agent
<1> QED BY <1>1, <1>2, <1>3 DEF LabTypeOK

\* Data reaches a row only from an operation that was started, whatever is lost or handled
\* late; a denial and a refusal store an error.
LEMMA RanNext ==
    ASSUME LabTypeOK, LabTypeOK', RowInv, [LabNext]_labVars, NEW k \in JobIds, Ran(k)
    PROVE  Ran(k)'
<1>0. starts'[k] >= starts[k] /\ starts[k] \in Nat /\ starts'[k] \in Nat
  BY StartsGrow DEF LabTypeOK
<1>1. CASE /\ requests' \subseteq requests /\ UNCHANGED agent
           /\ job'[k].status = "completed" => job[k].status = "completed"
  BY <1>0, <1>1 DEF Ran
<1>2. ASSUME NEW j \in JobIds, NEW a \in Agents, NEW r \in Requests, SubmitDecide(j, a, r)
      PROVE  Ran(k)'
  BY <1>1, <1>2 DEF SubmitDecide, wire
<1>3. CASE SubmitCreate
  BY <1>1, <1>3, OperatorShape DEF SubmitCreate, wire, LabTypeOK
<1>4. ASSUME NEW j \in JobIds, Cancel(j) PROVE Ran(k)'
  BY <1>1, <1>4 DEF Cancel, wire, LabTypeOK
<1>5. ASSUME NEW allowed, SetPolicy(allowed) PROVE Ran(k)'
  BY <1>1, <1>5 DEF SetPolicy, wire
<1>6. ASSUME NEW m \in requests, Claim(m) PROVE Ran(k)'
  <2>1. UNCHANGED agent
    BY <1>6 DEF Claim
  <2>2. CASE UNCHANGED job
    BY <1>1, <1>6, <2>1, <2>2, ClaimEffect DEF RowInv
  <2>3. CASE /\ job'[controller'.job].status = "running"
             /\ \A l \in JobIds : l # controller'.job => job'[l] = job[l]
    BY <1>1, <1>6, <2>1, <2>3, ClaimEffect DEF RowInv
  <2> QED BY <1>6, <2>2, <2>3, ClaimEffect DEF RowInv
<1>7. ASSUME NEW m \in requests, AcceptResult(m) PROVE Ran(k)'
  <2>1. UNCHANGED agent /\ requests' \subseteq requests
    BY <1>7 DEF AcceptResult
  <2>2. CASE UNCHANGED job
    BY <1>1, <2>1, <2>2
  <2>3. CASE job' = Complete(m.msg.job, m.msg.outcome) /\ job[m.msg.job].status \notin Early
    <3>1. m.msg.job \in JobIds /\ m.msg.outcome \in Outcomes /\ m.msg.ask = "result"
      BY <1>7, AcceptEffect
    <3>2. CASE k = m.msg.job /\ m.msg.outcome = "data"
      BY <1>0, <2>1, <3>1, <3>2 DEF Ran
    <3>3. CASE k # m.msg.job
      BY <1>1, <2>1, <2>3, <3>1, <3>3, RowCompleted DEF LabTypeOK, Early
    <3>4. CASE k = m.msg.job /\ m.msg.outcome = "error"
      BY <1>1, <2>1, <2>3, <3>1, <3>4, RowCompleted DEF LabTypeOK, Early
    <3> QED BY <3>1, <3>2, <3>3, <3>4 DEF Outcomes
  <2> QED BY <1>7, <2>2, <2>3, AcceptEffect
<1>8. CASE Decide
  <2>1. UNCHANGED <<agent, requests>>
    BY <1>8 DEF Decide
  <2>2. CASE UNCHANGED job
    BY <1>1, <2>1, <2>2
  <2>3. CASE job' = Complete(controller.job, "error") /\ job[controller.job].status \notin Early
    <3>1. controller.job \in JobIds
      BY <1>8, DecideEffect
    <3>2. job'[k] = job[k] \/ job'[k].status = "failed"
      BY <2>3, <3>1, RowCompleted DEF LabTypeOK, Early, Outcomes
    <3> QED BY <1>1, <2>1, <3>2
  <2> QED BY <1>8, <2>2, <2>3, DecideEffect
<1>9. CASE Audit
  BY <1>1, <1>9 DEF Audit
<1>10. ASSUME NEW a \in Agents, AgentPoll(a) PROVE Ran(k)'
  <2>1. /\ UNCHANGED <<job, starts>> /\ \A b \in Agents : b # a => agent'[b] = agent[b]
        /\ agent'[a].at = "polling"
        /\ \A n \in requests' : n \in requests \/ n.msg.ask = "next"
    BY <1>10 DEF LabTypeOK, AgentPoll, Send, Poll
  <2> QED BY <2>1 DEF Ran
<1>11. ASSUME NEW a \in Agents, AgentReceive(a) PROVE Ran(k)'
  <2>1. /\ UNCHANGED <<job, starts, requests>> /\ \A b \in Agents : b # a => agent'[b] = agent[b]
        /\ agent'[a].at \in {"got", "idle"}
    BY <1>11 DEF LabTypeOK, AgentReceive, AtRest
  <2> QED BY <2>1 DEF Ran
<1>12. ASSUME NEW a \in Agents, AgentStart(a) PROVE Ran(k)'
  <2>1. UNCHANGED <<job, requests>>
    BY <1>12 DEF AgentStart, wire
  <2>2. /\ \A b \in Agents : b # a => agent'[b] = agent[b]
        /\ agent'[a].at = "done" => agent'[a].outcome = "error"
        /\ agent'[a].at = "running" /\ agent'[a].job = k => starts'[k] = starts[k] + 1
        /\ agent'[a].at \in {"running", "done"}
    BY <1>12, StartEffect
  <2> QED BY <1>0, <2>1, <2>2 DEF Ran
<1>13. ASSUME NEW a \in Agents, AgentFinish(a) PROVE Ran(k)'
  <2>1. /\ UNCHANGED <<job, starts, requests>> /\ \A b \in Agents : b # a => agent'[b] = agent[b]
        /\ agent[a].at = "running" /\ agent'[a].job = agent[a].job
        /\ agent'[a].at = "done"
    BY <1>13 DEF LabTypeOK, AgentFinish, wire
  <2> QED BY <2>1 DEF Ran
<1>14. ASSUME NEW a \in Agents, AgentReport(a) PROVE Ran(k)'
  <2>1. /\ UNCHANGED <<job, starts>> /\ \A b \in Agents : b # a => agent'[b] = agent[b]
        /\ agent'[a].at = "reporting" /\ agent[a].at = "done"
        /\ \A n \in requests' : n \in requests
             \/ (n.msg.job = agent[a].job /\ n.msg.outcome = agent[a].outcome)
    BY <1>14 DEF LabTypeOK, AgentReport, Send, Result
  <2> QED BY <2>1 DEF Ran
<1>15. ASSUME NEW a \in Agents, AgentGivesUp(a) PROVE Ran(k)'
  <2>1. UNCHANGED <<job, starts>>
    BY <1>15 DEF AgentGivesUp
  <2>2. /\ \A n \in requests' : \E m \in requests : n.msg = m.msg
        /\ \A b \in Agents : agent'[b] = agent[b] \/ agent'[b].at = "idle"
    BY <1>15, GivesUpEffect DEF AtRest
  <2> QED BY <2>1, <2>2 DEF Ran
<1>16. ASSUME NEW m \in requests, LoseRequest(m) PROVE Ran(k)'
  BY <1>1, <1>16 DEF LoseRequest
<1>17. CASE ControllerCrash
  <2>1. /\ UNCHANGED <<job, starts>> /\ requests' = {}
        /\ \A b \in Agents : agent'[b] = agent[b] \/ agent'[b].at = "idle"
    BY <1>17 DEF ControllerCrash, LabTypeOK, AtRest
  <2> QED BY <2>1 DEF Ran
<1>18. CASE UNCHANGED labVars
  BY <1>1, <1>18 DEF labVars
<1> QED
  BY <1>2, <1>3, <1>4, <1>5, <1>6, <1>7, <1>8, <1>9, <1>10, <1>11, <1>12, <1>13, <1>14,
     <1>15, <1>16, <1>17, <1>18 DEF LabNext, Handle, Agent

-----------------------------------------------------------------------------
(* What the controller is about to record is what it wrote.                *)

\* A handler works on a job of its own agent; the event it is about to record is that of the
\* outcome it has just stored.
AuditInv ==
    /\ controller.at # "idle" => job[controller.job].agent = controller.agent
    /\ controller.at = "audit" =>
          /\ job[controller.job].status \in {"completed", "failed"}
          /\ \/ controller.event = Ended(controller.job, job[controller.job].status)
             \/ controller.event = Denied(job[controller.job].request, job[controller.job].agent)
    /\ OutcomeAudited

\* There is no outcome at the start.
LEMMA AuditInit == LabJobsAssumption /\ LabInit => AuditInv
BY DEF LabInit, AuditInv, OutcomeAudited, AtRest, NoRow

\* A step that leaves the controller and every outcome alone.
LEMMA Uncontrolled ==
    ASSUME LabTypeOK, LabTypeOK', RowInv, AuditInv, [LabNext]_labVars,
           UNCHANGED controller, audit \subseteq audit', faults' >= faults,
           \A k \in JobIds : job'[k] = job[k]
              \/ {job[k].status, job'[k].status} \cap {"completed", "failed"} = {}
    PROVE  AuditInv'
<1>1. \A k \in JobIds : Move(k)
  BY Moves
<1>2. controller.at # "idle" => controller.job \in JobIds /\ job[controller.job].status # "absent"
  BY ControllerShape DEF LabTypeOK, RowInv, Untouched, Early, InHands
<1>3. OutcomeAudited'
  <2> SUFFICES ASSUME NEW k \in JobIds, job'[k].status \in {"completed", "failed"}
               PROVE  \/ Ended(k, job'[k].status) \in audit'
                      \/ Denied(job'[k].request, job'[k].agent) \in audit'
                      \/ controller'.at = "audit" /\ controller'.job = k
                      \/ faults' > 0
    BY DEF OutcomeAudited, Ended, Denied
  <2>1. job'[k] = job[k]
    OBVIOUS
  <2>2. faults > 0 => faults' > 0
    BY DEF LabTypeOK
  <2> QED BY <2>1, <2>2 DEF AuditInv, OutcomeAudited
<1>4. controller'.at # "idle" => job'[controller'.job].agent = controller'.agent
  BY <1>1, <1>2 DEF AuditInv, Move
<1>5. controller'.at = "audit" => job'[controller'.job] = job[controller'.job]
  BY <1>2 DEF AuditInv
<1> QED BY <1>3, <1>4, <1>5 DEF AuditInv, Ended, Denied

\* Every step keeps AuditInv: only complete_lab_job stores an outcome, and its handler goes
\* on to the audit event unless the controller is stopped, which counts as a fault.
LEMMA AuditNext ==
    ASSUME LabTypeOK, LabTypeOK', RowInv, AuditInv, [LabNext]_labVars
    PROVE  AuditInv'
<1> DEFINE Quiet == /\ UNCHANGED controller /\ audit \subseteq audit' /\ faults' >= faults
                    /\ \A k \in JobIds : job'[k] = job[k]
                         \/ {job[k].status, job'[k].status} \cap {"completed", "failed"} = {}
<1>0. /\ Quiet => AuditInv'
      /\ faults >= faults
      /\ UNCHANGED <<controller, job, audit, faults>> => Quiet
  BY Uncontrolled DEF LabTypeOK
<1>1. ASSUME NEW j \in JobIds, NEW a \in Agents, NEW r \in Requests, SubmitDecide(j, a, r)
      PROVE  Quiet
  BY <1>0, <1>1 DEF SubmitDecide
<1>2. CASE SubmitCreate
  BY <1>0, <1>2, OperatorShape DEF SubmitCreate, LabTypeOK, RowInv, CreateInv
<1>3. ASSUME NEW j \in JobIds, Cancel(j) PROVE Quiet
  BY <1>0, <1>3 DEF Cancel, LabTypeOK
<1>4. ASSUME NEW allowed, SetPolicy(allowed) PROVE Quiet
  BY <1>0, <1>4 DEF SetPolicy
<1>5. ASSUME NEW m \in requests, Claim(m) PROVE AuditInv'
  <2>1. UNCHANGED <<audit, faults>> /\ controller.at = "idle"
    BY <1>5 DEF Claim, AtRest
  <2>2. CASE UNCHANGED <<job, controller>>
    BY <1>0, <2>1, <2>2
  <2>3. CASE /\ controller'.job \in JobIds /\ controller'.at = "decide"
             /\ controller'.agent = m.msg.agent
             /\ job'[controller'.job].status = "running"
             /\ job'[controller'.job].agent = m.msg.agent
             /\ \A k \in JobIds : k # controller'.job => job'[k] = job[k]
    BY <2>1, <2>3 DEF AuditInv, OutcomeAudited
  <2> QED BY <1>5, <2>2, <2>3, ClaimEffect DEF RowInv
<1>6. ASSUME NEW m \in requests, AcceptResult(m) PROVE AuditInv'
  <2>1. UNCHANGED <<audit, faults>> /\ controller.at = "idle"
    BY <1>6 DEF AcceptResult, AtRest
  <2>2. CASE UNCHANGED <<job, controller>>
    BY <1>0, <2>1, <2>2
  <2>3. CASE /\ job[m.msg.job].agent = m.msg.agent
             /\ job[m.msg.job].status \notin Early
             /\ job' = Complete(m.msg.job, m.msg.outcome)
             /\ controller' =
                  [at |-> "audit", agent |-> m.msg.agent, job |-> m.msg.job, open |-> m.open,
                   event |-> Ended(m.msg.job, job'[m.msg.job].status)]
    <3>1. m.msg.job \in JobIds /\ m.msg.outcome \in Outcomes
      BY <1>6, AcceptEffect
    <3>2. /\ job'[m.msg.job].status \in {"completed", "failed"}
          /\ job'[m.msg.job].agent = m.msg.agent
          /\ \A k \in JobIds : k # m.msg.job => job'[k] = job[k]
      BY <2>3, <3>1, RowCompleted DEF LabTypeOK, Early
    <3> QED BY <2>1, <2>3, <3>1, <3>2 DEF AuditInv, OutcomeAudited, Ended, Denied
  <2> QED BY <1>6, <2>2, <2>3, AcceptEffect
<1>7. CASE Decide
  <2>1. UNCHANGED <<audit, faults>> /\ controller.at = "decide"
    BY <1>7 DEF Decide
  <2>2. CASE UNCHANGED job /\ controller' = AtRest
    BY <2>1, <2>2 DEF AuditInv, OutcomeAudited, AtRest
  <2>3. CASE /\ job' = Complete(controller.job, "error")
             /\ controller' =
                  [at |-> "audit", agent |-> controller.agent, job |-> controller.job,
                   open |-> controller.open,
                   event |-> Denied(job[controller.job].request, controller.agent)]
    <3>1. controller.job \in JobIds /\ job[controller.job].status \notin Early
      BY <1>7, DecideEffect
    <3>2. /\ job'[controller.job].status = "failed"
          /\ job'[controller.job].agent = job[controller.job].agent
          /\ job'[controller.job].request = job[controller.job].request
          /\ \A k \in JobIds : k # controller.job => job'[k] = job[k]
      BY <2>3, <3>1, RowCompleted DEF LabTypeOK, Early, Outcomes
    <3> QED BY <2>1, <2>3, <3>1, <3>2 DEF AuditInv, OutcomeAudited, Ended, Denied
  <2> QED BY <1>7, <2>2, <2>3, DecideEffect
<1>8. CASE Audit
  <2>1. /\ UNCHANGED <<job, faults>> /\ controller' = AtRest /\ controller.at = "audit"
        /\ audit' = audit \cup {controller.event}
    BY <1>8 DEF Audit
  <2> QED BY <2>1 DEF AuditInv, OutcomeAudited, AtRest
<1>9. ASSUME NEW a \in Agents, Agent(a) PROVE Quiet
  BY <1>0, <1>9 DEF Agent, AgentPoll, AgentReceive, AgentStart, AgentFinish, AgentReport
<1>10. ASSUME NEW a \in Agents, AgentGivesUp(a) PROVE AuditInv'
  <2>1. UNCHANGED <<job, audit>> /\ faults' = faults + 1
    BY <1>10 DEF AgentGivesUp, Fault
  <2>2. /\ controller'.at = controller.at /\ controller'.job = controller.job
        /\ controller.at # "idle" => controller'.agent = controller.agent
        /\ controller.at = "audit" => controller'.event = controller.event
    BY <1>10, GivesUpEffect
  <2>3. faults' > 0
    BY <2>1 DEF LabTypeOK
  <2> QED BY <2>1, <2>2, <2>3 DEF AuditInv, OutcomeAudited
<1>11. ASSUME NEW m \in requests, LoseRequest(m) PROVE Quiet
  BY <1>0, <1>11 DEF LoseRequest
<1>12. CASE ControllerCrash
  <2>1. controller' = AtRest /\ faults' > 0
    BY <1>12 DEF ControllerCrash, Fault, LabTypeOK
  <2> QED BY <2>1 DEF AuditInv, OutcomeAudited, AtRest
<1>13. CASE UNCHANGED labVars
  BY <1>0, <1>13 DEF labVars
<1> HIDE DEF Quiet
<1> QED
  BY <1>0, <1>1, <1>2, <1>3, <1>4, <1>5, <1>6, <1>7, <1>8, <1>9, <1>10, <1>11, <1>12, <1>13
     DEF LabNext, Handle

-----------------------------------------------------------------------------

\* The inductive invariant.  AtMostOnce and CompletedWasRun do not mention requests, answers
\* or handlers, and are not inductive without them.
IInv == LabTypeOK /\ RowInv /\ TicketInv /\ RanInv /\ AuditInv

\* The invariant holds at the start.
LEMMA InvInit == LabJobsAssumption /\ LabInit => IInv
BY TypeInit, RowInit, TicketInit, AuditInit DEF IInv

\* Every step keeps the invariant.
LEMMA InvNext == LabJobsAssumption /\ IInv /\ [LabNext]_labVars => IInv'
<1> SUFFICES ASSUME LabJobsAssumption, IInv, [LabNext]_labVars PROVE IInv'
  OBVIOUS
<1>1. LabTypeOK /\ RowInv /\ Listed /\ AuditInv /\ LabTypeOK'
  BY TypeNext DEF IInv, RowInv
<1>2. RowInv' /\ AuditInv'
  BY <1>1, RowNext, AuditNext
<1>3. TicketInv'
  BY <1>1, TicketNext DEF IInv, TicketInv
<1>4. RanInv'
  BY <1>1, RanNext DEF IInv, RanInv
<1> QED BY <1>1, <1>2, <1>3, <1>4 DEF IInv

\* For all sets of agents, jobs and requests, and all numbers of policy edits and faults,
\* every reachable state of the lab (lab_jobs rows, controller, agents, network) is typed:
\* no handler completes a job that was never submitted, and no step leaves the types.
THEOREM TypeCorrect ==
    ASSUME LabJobsAssumption PROVE LabSpec => []LabTypeOK
<1>1. IInv => LabTypeOK
  BY DEF IInv
<1> QED BY <1>1, InvInit, InvNext, PTL DEF LabSpec

\* Whatever is lost, repeated, given up or crashes, no lab job is executed twice
\* (claim_next_lab_job and the agent's cycle), a job shown as completed was executed, and
\* an outcome stored by complete_lab_job is in the audit trail, about to be recorded, or
\* the run has had a fault.
THEOREM RowsAreTrue ==
    ASSUME LabJobsAssumption PROVE LabSpec => []RowsTellWhatRan
<1>1. IInv => RowsTellWhatRan
  BY DEF IInv, TicketInv, Ticket, RanInv, Ran, AuditInv, RowsTellWhatRan, AtMostOnce, CompletedWasRun
<1> QED BY <1>1, InvInit, InvNext, PTL DEF LabSpec

-----------------------------------------------------------------------------
(* The lab implements LabQueue.                                            *)

\* An agent waits for an answer; its request is under way; its request is handled.
Waiting(a) == agent[a].at \in {"polling", "reporting"}
Asking(a)  == \E m \in requests : m.msg.agent = a /\ m.open
Serving(a) == controller.at # "idle" /\ controller.agent = a /\ controller.open

\* An agent that waits has one request under way, or one handler, or one answer;
\* an agent that does not wait has none.
Calling(a) ==
    /\ reply[a] # None => Waiting(a) /\ ~Serving(a) /\ ~Asking(a)
    /\ Serving(a) => Waiting(a) /\ ~Asking(a)
    /\ Asking(a) => Waiting(a)
    /\ \A m, n \in requests : m.msg.agent = a /\ n.msg.agent = a /\ m.open /\ n.open => m = n

\* Each agent makes one call at a time.
CallInv == \A a \in Agents : Calling(a)

\* Nobody calls at the start.
LEMMA CallInit == LabInit => CallInv
<1> SUFFICES ASSUME LabInit, NEW a \in Agents PROVE Calling(a)
  BY DEF CallInv
<1> QED BY DEF LabInit, CallInv, Calling, Asking, Serving, None, AtRest

\* An agent asks only when idle, its request becomes one handler, that becomes one answer,
\* and a time-out takes all of them away: no step gives it a second call.
LEMMA CallNext ==
    ASSUME LabTypeOK, RowInv, [LabNext]_labVars, NEW a \in Agents, Calling(a)
    PROVE  Calling(a)'
<1> USE DEF Calling, Asking, Serving, Waiting
<1>1. CASE UNCHANGED <<requests, controller, reply, agent>>
  BY <1>1
<1>2. ASSUME NEW m \in requests, Claim(m) PROVE Calling(a)'
  <2>1. UNCHANGED agent /\ controller.at = "idle" /\ requests' = requests \ {m}
    BY <1>2 DEF Claim, AtRest
  <2>2. CASE UNCHANGED controller /\ Answered(m.msg.agent, m.open, NoJob)
    BY <2>1, <2>2 DEF Answered
  <2>3. CASE UNCHANGED reply /\ controller'.agent = m.msg.agent /\ controller'.open = m.open
    BY <2>1, <2>3
  <2> QED BY <1>2, <2>2, <2>3, ClaimEffect DEF RowInv
<1>3. ASSUME NEW m \in requests, AcceptResult(m) PROVE Calling(a)'
  <2>1. UNCHANGED agent /\ controller.at = "idle" /\ requests' = requests \ {m}
    BY <1>3 DEF AcceptResult, AtRest
  <2>2. CASE UNCHANGED controller /\ Answered(m.msg.agent, m.open, NoJob)
    BY <2>1, <2>2 DEF Answered
  <2>3. CASE UNCHANGED reply /\ controller'.agent = m.msg.agent /\ controller'.open = m.open
    BY <2>1, <2>3
  <2> QED BY <1>3, <2>2, <2>3, AcceptEffect
<1>4. CASE Decide
  <2>1. UNCHANGED <<agent, requests>> /\ controller.at = "decide"
    BY <1>4 DEF Decide
  <2>2. CASE /\ Answered(controller.agent, controller.open, [is |-> "job", job |-> controller.job])
             /\ controller' = AtRest
    BY <2>1, <2>2 DEF Answered, AtRest
  <2>3. CASE UNCHANGED reply /\ controller'.agent = controller.agent /\ controller'.open = controller.open
    BY <2>1, <2>3
  <2> QED BY <1>4, <2>2, <2>3, DecideEffect
<1>5. CASE Audit
  <2>1. UNCHANGED <<agent, requests>> /\ controller.at = "audit"
    BY <1>5 DEF Audit
  <2> QED BY <1>5, <2>1, AuditEffect DEF Answered, AtRest
<1>6. ASSUME NEW b \in Agents, AgentPoll(b) \/ AgentReport(b) PROVE Calling(a)'
  <2>1. /\ UNCHANGED <<controller, reply>> /\ agent[b].at \in {"idle", "done"}
        /\ \A c \in Agents : c # b => agent'[c] = agent[c]
        /\ agent'[b].at \in {"polling", "reporting"}
        /\ \E n : n.msg.agent = b /\ requests' = requests \cup {n}
    <3>1. CASE AgentPoll(b)
      <4> DEFINE n == [msg |-> Poll(b), open |-> TRUE, attempt |-> faults]
      <4>1. n.msg.agent = b
        BY DEF Poll
      <4>2. requests' = requests \cup {n}
        BY <3>1 DEF AgentPoll, Send
      <4>3. /\ UNCHANGED <<controller, reply>> /\ agent[b].at = "idle"
            /\ \A c \in Agents : c # b => agent'[c] = agent[c]
            /\ agent'[b].at = "polling"
        BY <3>1 DEF LabTypeOK, AgentPoll, AtRest
      <4> HIDE DEF n
      <4> QED BY <4>1, <4>2, <4>3
    <3>2. CASE AgentReport(b)
      <4> DEFINE n == [msg |-> Result(b, agent[b].job, agent[b].outcome), open |-> TRUE,
                       attempt |-> faults]
      <4>1. n.msg.agent = b
        BY DEF Result
      <4>2. requests' = requests \cup {n}
        BY <3>2 DEF AgentReport, Send
      <4>3. /\ UNCHANGED <<controller, reply>> /\ agent[b].at = "done"
            /\ \A c \in Agents : c # b => agent'[c] = agent[c]
            /\ agent'[b].at = "reporting"
        BY <3>2 DEF LabTypeOK, AgentReport
      <4> HIDE DEF n
      <4> QED BY <4>1, <4>2, <4>3
    <3> QED BY <1>6, <3>1, <3>2
  <2> QED BY <2>1
<1>7. ASSUME NEW b \in Agents, AgentReceive(b) PROVE Calling(a)'
  <2>1. /\ UNCHANGED <<controller, requests>> /\ reply[b] # None /\ reply'[b] = None
        /\ \A c \in Agents : c # b => agent'[c] = agent[c] /\ reply'[c] = reply[c]
    BY <1>7 DEF LabTypeOK, AgentReceive
  <2> QED BY <2>1
<1>8. ASSUME NEW b \in Agents, AgentStart(b) \/ AgentFinish(b) PROVE Calling(a)'
  <2>1. /\ UNCHANGED <<controller, requests, reply>> /\ agent[b].at \in {"got", "running"}
        /\ \A c \in Agents : c # b => agent'[c] = agent[c]
    BY <1>8, StartEffect DEF LabTypeOK, AgentStart, AgentFinish, wire
  <2> QED BY <2>1
<1>9. ASSUME NEW b \in Agents, AgentGivesUp(b) PROVE Calling(a)'
  <2> HIDE DEF Calling, Asking, Serving, Waiting
  <2>1. /\ \A n \in requests' : n.open => n \in requests /\ n.msg.agent # b
        /\ reply'[a] = IF a = b THEN None ELSE reply[a]
        /\ agent'[a] = IF a = b THEN AtRest ELSE agent[a]
    BY <1>9, GivesUpEffect
  <2>2. Serving(a)' => Serving(a) /\ a # b
    BY <1>9, GivesUpEffect DEF Serving
  <2>3. Asking(a)' => Asking(a) /\ a # b
    BY <2>1 DEF Asking
  <2> QED BY <2>1, <2>2, <2>3 DEF Calling, Waiting
<1>10. ASSUME NEW m \in requests, LoseRequest(m) PROVE Calling(a)'
  BY <1>10 DEF LoseRequest
<1>11. CASE ControllerCrash
  <2>1. /\ UNCHANGED reply /\ controller' = AtRest /\ requests' = {}
        /\ agent'[a] = IF Waiting(a) /\ reply[a] = None THEN AtRest ELSE agent[a]
    BY <1>11 DEF ControllerCrash, LabTypeOK
  <2> QED BY <2>1 DEF AtRest
<1> HIDE DEF Calling
<1> QED
  BY <1>1, <1>2, <1>3, <1>4, <1>5, <1>6, <1>7, <1>8, <1>9, <1>10, <1>11
     DEF LabNext, Handle, Agent, SubmitDecide, SubmitCreate, Cancel, SetPolicy, labVars, policy, wire

\* What the stage of a job is.
LEMMA StageIs ==
    ASSUME NEW k \in JobIds, starts[k] \in {0, 1}
    PROVE  /\ starts[k] = 1 => Stage(k) = "started"
           /\ starts[k] = 0 =>
                /\ job[k].status = "absent" => Stage(k) = "unknown"
                /\ job[k].status = "queued" => Stage(k) = "waiting"
                /\ job[k].status \notin Early => Stage(k) = IF OnTheWay(k) THEN "handed" ELSE "closed"
BY DEF Stage, Early

\* What the stage of a job will be.
LEMMA StageBecomes ==
    ASSUME NEW k \in JobIds, starts'[k] \in {0, 1}
    PROVE  /\ starts'[k] = 1 => Stage(k)' = "started"
           /\ starts'[k] = 0 =>
                /\ job'[k].status = "absent" => Stage(k)' = "unknown"
                /\ job'[k].status = "queued" => Stage(k)' = "waiting"
                /\ job'[k].status \notin Early => Stage(k)' = IF OnTheWay(k)' THEN "handed" ELSE "closed"
BY DEF Stage, Early

\* The changes of a stage that LabQueue knows.
Advance(j) ==
    \/ Stage(j) = "unknown" /\ Stage(j)' = "waiting"
    \/ Stage(j) = "waiting" /\ Stage(j)' = "handed"
    \/ Stage(j) = "handed" /\ Stage(j)' = "started"
    \/ Stage(j) \in {"waiting", "handed"} /\ Stage(j)' = "closed"

\* Job k stays at its stage.
Still(k) == Stage(k)' = Stage(k)

\* If no stage changes, the queue stutters.
LEMMA StillIsStutter ==
    ASSUME \A k \in JobIds : Still(k)
    PROVE  UNCHANGED [j \in JobIds |-> Stage(j)]
BY DEF Still

\* One stage that advances while the others stay is a step of the queue.
LEMMA AdvanceIsStep ==
    ASSUME NEW j \in JobIds, Advance(j), \A k \in JobIds : k # j => Still(k)
    PROVE  Queue!Next
<1> DEFINE stage == [k \in JobIds |-> Stage(k)]
<1>1. \A to : Stage(j)' = to => stage' = [stage EXCEPT ![j] = to]
  BY DEF Still
<1>2. stage[j] = Stage(j)
  OBVIOUS
<1>3. CASE Stage(j) = "unknown" /\ Stage(j)' = "waiting"
  BY <1>1, <1>2, <1>3 DEF Queue!Next, Queue!Accept, Queue!Move
<1>4. CASE Stage(j) = "waiting" /\ Stage(j)' = "handed"
  BY <1>1, <1>2, <1>4 DEF Queue!Next, Queue!Hand, Queue!Move
<1>5. CASE Stage(j) = "handed" /\ Stage(j)' = "started"
  BY <1>1, <1>2, <1>5 DEF Queue!Next, Queue!Run, Queue!Move
<1>6. CASE Stage(j) \in {"waiting", "handed"} /\ Stage(j)' = "closed"
  BY <1>1, <1>2, <1>6 DEF Queue!Next, Queue!Close, Queue!Move
<1> QED BY <1>3, <1>4, <1>5, <1>6 DEF Advance

\* A stage stays where it is.
LEMMA StillWhen ==
    ASSUME NEW k \in JobIds, starts[k] \in {0, 1}, UNCHANGED starts[k],
           \/ job'[k].status = job[k].status
           \/ job[k].status \notin Early /\ job'[k].status \notin Early,
           OnTheWay(k)' <=> OnTheWay(k)
    PROVE  Still(k)
BY DEF Stage, Early, Still

\* A job that was on its way and no longer is, is closed.
LEMMA ClosedWhen ==
    ASSUME NEW k \in JobIds, starts[k] = 0, starts'[k] = 0,
           job[k].status \notin Early, job'[k].status \notin Early,
           OnTheWay(k), ~OnTheWay(k)'
    PROVE  Advance(k)
BY DEF Stage, Early, Advance

\* The step changes at most one stage, and in a way the queue knows.
Simulated ==
    \/ \A k \in JobIds : Still(k)
    \/ \E j \in JobIds : Advance(j) /\ \A k \in JobIds : k # j => Still(k)

\* The parts of the invariant the simulation uses.
SimInv == LabTypeOK /\ RowInv /\ TicketInv /\ CallInv

\* Steps that hand nothing over.
LEMMA SimStill ==
    ASSUME SimInv, UNCHANGED starts,
           \A k \in JobIds : \/ job'[k].status = job[k].status
                             \/ job[k].status \notin Early /\ job'[k].status \notin Early,
           \A k \in JobIds : OnTheWay(k)' <=> OnTheWay(k)
    PROVE  Simulated
BY StillWhen DEF SimInv, TicketInv, Ticket, Simulated

\* Creating a row accepts the job; cancelling a queued one closes it, and cancelling a
\* running one takes nothing out of the hands it is in.
LEMMA SimOperator ==
    ASSUME SimInv, [LabNext]_labVars,
           \/ SubmitCreate
           \/ \E j \in JobIds : Cancel(j)
    PROVE  Simulated
<1>1. \A k \in JobIds : starts[k] \in {0, 1}
  BY DEF SimInv, TicketInv, Ticket
<1>2. CASE SubmitCreate
  <2>0. PICK j \in JobIds : j = operator.job
    BY <1>2, OperatorShape DEF SimInv, LabTypeOK, SubmitCreate
  <2>1. /\ job[j].status = "absent" /\ job'[j].status = "queued"
        /\ \A k \in JobIds : k # j => job'[k] = job[k]
        /\ UNCHANGED <<starts, controller, reply, agent>>
    BY <1>2, <2>0 DEF SimInv, LabTypeOK, RowInv, CreateInv, SubmitCreate, wire
  <2>2. \A k \in JobIds : OnTheWay(k)' <=> OnTheWay(k)
    BY <2>1 DEF OnTheWay
  <2>3. \A k \in JobIds : k # j => Still(k)
    BY <1>1, <2>1, <2>2, StillWhen
  <2>4. starts[j] = 0
    BY <2>1 DEF SimInv, RowInv, Untouched, Early
  <2>5. Advance(j)
    BY <2>1, <2>4 DEF Stage, Advance
  <2> QED BY <2>3, <2>5 DEF Simulated
<1>3. ASSUME NEW j \in JobIds, Cancel(j) PROVE Simulated
  <2>1. /\ job'[j].status = "cancelled" /\ job[j].status \in {"queued", "running"}
        /\ \A k \in JobIds : k # j => job'[k] = job[k]
        /\ UNCHANGED <<starts, controller, reply, agent>>
    BY <1>3 DEF SimInv, LabTypeOK, Cancel, wire
  <2>2. \A k \in JobIds : OnTheWay(k)' <=> OnTheWay(k)
    BY <2>1 DEF OnTheWay
  <2>3. \A k \in JobIds : k # j => Still(k)
    BY <1>1, <2>1, <2>2, StillWhen
  <2>4. CASE job[j].status = "running"
    <3>1. Still(j)
      BY <1>1, <2>1, <2>2, <2>4, StillWhen DEF Early
    <3> QED BY <2>3, <3>1 DEF Simulated
  <2>5. CASE job[j].status = "queued"
    <3>1. starts[j] = 0 /\ ~InHands(j)
      BY <2>5 DEF SimInv, RowInv, Untouched, Early
    <3>2. ~OnTheWay(j)
      BY <3>1 DEF InHands, OnTheWay
    <3>3. Advance(j)
      BY <2>1, <2>2, <2>5, <3>1, <3>2 DEF Stage, Advance
    <3> QED BY <2>3, <3>3 DEF Simulated
  <2> QED BY <2>1, <2>4, <2>5
<1> QED BY <1>2, <1>3

\* A claim hands the job over, or closes it when the agent no longer waits.
LEMMA SimClaim ==
    ASSUME SimInv, NEW m \in requests, Claim(m)
    PROVE  Simulated
<1>1. /\ UNCHANGED <<agent, starts>> /\ controller.at = "idle"
      /\ m.msg.agent \in Agents /\ LabTypeOK /\ RowInv /\ Listed
      /\ \A k \in JobIds : starts[k] \in {0, 1}
  BY ClaimEffect DEF Claim, AtRest, SimInv, RowInv, TicketInv, Ticket
<1>2. CASE UNCHANGED <<job, controller>> /\ Answered(m.msg.agent, m.open, NoJob)
  <2>1. m.open => reply[m.msg.agent] = None
    BY <1>1 DEF SimInv, CallInv, Calling, Asking
  <2>2. \A k \in JobIds : OnTheWay(k)' <=> OnTheWay(k)
    BY <1>1, <1>2, <2>1 DEF Answered, OnTheWay, None, NoJob
  <2> QED BY <1>1, <1>2, <2>2, SimStill
<1>3. CASE /\ UNCHANGED reply /\ controller'.job \in JobIds
           /\ job[controller'.job].status = "queued" /\ job'[controller'.job].status = "running"
           /\ controller'.at = "decide"
           /\ \A k \in JobIds : k # controller'.job => job'[k] = job[k]
  <2>0. PICK j \in JobIds : j = controller'.job
    BY <1>3
  <2>1. starts[j] = 0 /\ ~InHands(j)
    BY <1>1, <1>3, <2>0 DEF RowInv, Untouched, Early
  <2>2. \A k \in JobIds : k # j => (OnTheWay(k)' <=> OnTheWay(k))
    BY <1>1, <1>3, <2>0 DEF OnTheWay
  <2>3. \A k \in JobIds : k # j => Still(k)
    BY <1>1, <1>3, <2>0, <2>2, StillWhen
  <2>4. Advance(j)
    BY <1>1, <1>3, <2>0, <2>1 DEF Stage, Advance
  <2> QED BY <2>3, <2>4 DEF Simulated
<1> QED BY <1>1, <1>2, <1>3, ClaimEffect

\* A result belongs to a job that was started or is closed: no stage changes.
LEMMA SimAccept ==
    ASSUME SimInv, NEW m \in requests, AcceptResult(m)
    PROVE  Simulated
<1>1. /\ UNCHANGED <<agent, starts>> /\ controller.at = "idle"
      /\ m.msg.agent \in Agents /\ m.msg.job \in JobIds /\ m.msg.outcome \in Outcomes
      /\ LabTypeOK /\ RowInv
  BY AcceptEffect DEF AcceptResult, AtRest, SimInv
<1>2. CASE UNCHANGED <<job, controller>> /\ Answered(m.msg.agent, m.open, NoJob)
  <2>1. m.open => reply[m.msg.agent] = None
    BY <1>1 DEF SimInv, CallInv, Calling, Asking
  <2>2. \A k \in JobIds : OnTheWay(k)' <=> OnTheWay(k)
    BY <1>1, <1>2, <2>1 DEF Answered, OnTheWay, None, NoJob
  <2> QED BY <1>1, <1>2, <2>2, SimStill
<1>3. CASE /\ UNCHANGED reply /\ controller'.at = "audit"
           /\ job[m.msg.job].status \notin Early
           /\ job' = Complete(m.msg.job, m.msg.outcome)
  <2>1. \A k \in JobIds : OnTheWay(k)' <=> OnTheWay(k)
    BY <1>1, <1>3 DEF OnTheWay
  <2>2. /\ job'[m.msg.job].status \notin Early
        /\ \A k \in JobIds : k # m.msg.job => job'[k] = job[k]
    BY <1>1, <1>3, RowCompleted DEF LabTypeOK, Early
  <2> QED BY <1>1, <1>3, <2>1, <2>2, SimStill
<1> QED BY <1>1, <1>2, <1>3, AcceptEffect

\* A delivery passes the job on; a denial, or an answer nobody reads, closes it.
LEMMA SimDecide ==
    ASSUME SimInv, Decide
    PROVE  Simulated
<1>1. /\ UNCHANGED <<agent, starts>> /\ controller.at = "decide"
      /\ controller.agent \in Agents /\ controller.job \in JobIds
      /\ job[controller.job].status \notin Early
      /\ LabTypeOK /\ RowInv
      /\ \A k \in JobIds : starts[k] \in {0, 1}
  BY DecideEffect DEF Decide, SimInv, TicketInv, Ticket
<1>2. CASE /\ Answered(controller.agent, controller.open, [is |-> "job", job |-> controller.job])
           /\ controller' = AtRest /\ UNCHANGED job
  <2>1. controller.open => reply[controller.agent] = None
    BY <1>1 DEF SimInv, CallInv, Calling, Serving
  <2>2. \A k \in JobIds : OnTheWay(k)' <=> OnTheWay(k)
    BY <1>1, <1>2, <2>1 DEF Answered, OnTheWay, None, AtRest
  <2> QED BY <1>1, <1>2, <2>2, SimStill
<1>3. CASE /\ UNCHANGED reply /\ controller'.at = "audit"
           /\ job' = Complete(controller.job, "error")
  <2>0. PICK j \in JobIds : j = controller.job
    BY <1>1
  <2>1. /\ job[j].status \notin Early /\ job'[j].status \notin Early
        /\ \A k \in JobIds : k # j => job'[k] = job[k]
    BY <1>1, <1>3, <2>0, RowCompleted DEF LabTypeOK, Early, Outcomes
  <2>2. \A k \in JobIds : k # j => (OnTheWay(k)' <=> OnTheWay(k))
    BY <1>1, <1>3, <2>0 DEF OnTheWay
  <2>3. \A k \in JobIds : k # j => Still(k)
    BY <1>1, <2>1, <2>2, StillWhen
  <2>4. starts[j] = 0 /\ \A a \in Agents : ~Replied(a, j) /\ ~Got(a, j)
    BY <1>1, <2>0 DEF SimInv, TicketInv, Ticket, Deciding
  <2>5. ~OnTheWay(j)'
    BY <1>1, <1>3, <2>4 DEF OnTheWay, Replied, Got
  <2>6. CASE OnTheWay(j)
    <3>1. Advance(j)
      BY <1>1, <2>1, <2>4, <2>5, <2>6, ClosedWhen
    <3> QED BY <2>3, <3>1 DEF Simulated
  <2>7. CASE ~OnTheWay(j)
    <3>1. Still(j)
      BY <1>1, <2>1, <2>5, <2>7, StillWhen
    <3> QED BY <2>3, <3>1 DEF Simulated
  <2> QED BY <2>6, <2>7
<1> QED BY <1>1, <1>2, <1>3, DecideEffect

\* Recording an event changes no stage.
LEMMA SimAudit ==
    ASSUME SimInv, Audit
    PROVE  Simulated
<1>1. /\ UNCHANGED <<job, agent, starts>> /\ controller.at = "audit" /\ controller' = AtRest
      /\ controller.agent \in Agents /\ Answered(controller.agent, controller.open, NoJob)
  BY AuditEffect DEF Audit, SimInv
<1>2. controller.open => reply[controller.agent] = None
  BY <1>1 DEF SimInv, CallInv, Calling, Serving
<1>3. \A k \in JobIds : OnTheWay(k)' <=> OnTheWay(k)
  BY <1>1, <1>2 DEF Answered, OnTheWay, None, NoJob, AtRest
<1> QED BY <1>1, <1>3, SimStill

\* Receiving moves a job from the answer to the agent, or ends a call without one.
LEMMA SimReceive ==
    ASSUME SimInv, NEW a \in Agents, AgentReceive(a)
    PROVE  Simulated
<1>1. /\ UNCHANGED <<job, controller, starts>>
      /\ \A b \in Agents : b # a => agent'[b] = agent[b] /\ reply'[b] = reply[b]
      /\ reply'[a] = None
      /\ agent'[a] = IF reply[a].is = "job" THEN [at |-> "got", job |-> reply[a].job] ELSE AtRest
  BY DEF SimInv, LabTypeOK, AgentReceive
<1>2. agent[a].at # "got"
  BY DEF SimInv, CallInv, Calling, Waiting, AgentReceive
<1>3. \A k \in JobIds : OnTheWay(k)' <=> OnTheWay(k)
  BY <1>1, <1>2 DEF OnTheWay, None, AtRest
<1> QED BY <1>1, <1>3, SimStill

\* The agent starts the job it holds, or refuses it and so closes it.
LEMMA SimStart ==
    ASSUME SimInv, NEW a \in Agents, AgentStart(a)
    PROVE  Simulated
<1>0. LabTypeOK /\ \A k \in JobIds : starts[k] \in {0, 1}
  BY DEF SimInv, TicketInv, Ticket
<1>1. PICK j \in JobIds : j = agent[a].job
  BY <1>0, StartEffect
<1>2. /\ Got(a, j) /\ starts[j] = 0 /\ ~Deciding(j)
      /\ \A b \in Agents : ~Replied(b, j) /\ (Got(b, j) => b = a)
  BY <1>0, <1>1, StartEffect DEF SimInv, TicketInv, Ticket, Got
<1>3. job[j].status \notin Early
  BY <1>2 DEF SimInv, RowInv, Untouched, InHands, Got
<1>4. /\ UNCHANGED <<job, controller, reply>>
      /\ agent'[a].at \in {"running", "done"} /\ \A b \in Agents : b # a => agent'[b] = agent[b]
      /\ \A k \in JobIds : k # j => starts'[k] = starts[k]
      /\ starts'[j] = 1 \/ starts'[j] = 0
  BY <1>0, <1>1, <1>2, StartEffect DEF AgentStart, wire
<1>5. \A k \in JobIds : k # j => (OnTheWay(k)' <=> OnTheWay(k))
  BY <1>1, <1>4 DEF OnTheWay
<1>6. \A k \in JobIds : k # j => Still(k)
  BY <1>0, <1>4, <1>5, StillWhen
<1>7. OnTheWay(j) /\ ~OnTheWay(j)'
  BY <1>2, <1>4 DEF OnTheWay, Got, Replied, Deciding
<1>8. Advance(j)
  BY <1>2, <1>3, <1>4, <1>7 DEF Stage, Advance, Early
<1> QED BY <1>6, <1>8 DEF Simulated

\* What a time-out of agent a takes away.
Held(a, k) == (Deciding(k) /\ Serving(a)) \/ Replied(a, k) \/ Got(a, k)

\* An agent holds at most one job in handler, answer or hand, since it makes one call at a
\* time: giving up closes that one.
LEMMA SimGivesUp ==
    ASSUME SimInv, NEW a \in Agents, AgentGivesUp(a)
    PROVE  Simulated
<1>0. LabTypeOK /\ \A k \in JobIds : starts[k] \in {0, 1}
  BY DEF SimInv, TicketInv, Ticket
<1>1. UNCHANGED <<job, starts>>
  BY DEF AgentGivesUp
<1>2. /\ controller'.at = controller.at /\ controller'.job = controller.job
      /\ controller.at # "idle" => /\ controller'.open => controller.open /\ controller.agent # a
                                   /\ controller.agent # a => controller' = controller
      /\ \A b \in Agents : /\ reply'[b] = IF b = a THEN None ELSE reply[b]
                           /\ agent'[b] = IF b = a THEN AtRest ELSE agent[b]
  BY <1>0, GivesUpEffect
<1>3. \A j, k \in JobIds : Held(a, j) /\ Held(a, k) => j = k
  BY DEF SimInv, CallInv, Calling, Held, Deciding, Replied, Got, Waiting, None
<1>4. ASSUME NEW k \in JobIds, ~Held(a, k) PROVE Still(k)
  <2>1. OnTheWay(k)' <=> OnTheWay(k)
    BY <1>2, <1>4 DEF OnTheWay, Held, Deciding, Serving, Replied, Got, None, AtRest
  <2> QED BY <1>0, <1>1, <2>1, StillWhen
<1>5. ASSUME NEW k \in JobIds, Held(a, k) PROVE Advance(k)
  <2>1. /\ starts[k] = 0 /\ job[k].status \notin Early
    BY <1>5 DEF SimInv, TicketInv, Ticket, RowInv, Untouched, InHands, Held, Deciding, Replied, Got
  <2>2. OnTheWay(k)
    BY <1>5 DEF OnTheWay, Held, Deciding, Serving, Replied, Got
  <2>3. /\ Deciding(k) => Serving(a)
        /\ \A b \in Agents : b # a => ~Replied(b, k) /\ ~Got(b, k)
    BY <1>5 DEF SimInv, TicketInv, Ticket, Held
  <2>4. ~OnTheWay(k)'
    BY <1>2, <2>3 DEF OnTheWay, Deciding, Serving, Replied, Got, None, AtRest
  <2> QED BY <1>1, <2>1, <2>2, <2>4, ClosedWhen
<1> QED BY <1>3, <1>4, <1>5 DEF Simulated

\* A crash of the controller closes the job whose handler it ends.
LEMMA SimCrash ==
    ASSUME SimInv, ControllerCrash
    PROVE  Simulated
<1>0. LabTypeOK /\ \A k \in JobIds : starts[k] \in {0, 1}
  BY DEF SimInv, TicketInv, Ticket
<1>1. /\ UNCHANGED <<job, starts, reply>> /\ controller' = AtRest
      /\ \A b \in Agents : \/ agent'[b] = agent[b]
                           \/ agent[b].at \in {"polling", "reporting"} /\ agent'[b] = AtRest
  <2>1. /\ UNCHANGED <<job, starts, reply>> /\ controller' = AtRest
        /\ agent' = [a \in Agents |->
             IF agent[a].at \in {"polling", "reporting"} /\ reply[a] = None THEN AtRest ELSE agent[a]]
    BY DEF ControllerCrash
  <2> QED BY <2>1
<1>2. ASSUME NEW k \in JobIds, ~(Deciding(k) /\ controller.open) PROVE Still(k)
  <2>1. OnTheWay(k)' <=> OnTheWay(k)
    BY <1>1, <1>2 DEF OnTheWay, Deciding, AtRest
  <2> QED BY <1>0, <1>1, <2>1, StillWhen
<1>3. ASSUME NEW k \in JobIds, Deciding(k), controller.open PROVE Advance(k)
  <2>1. /\ starts[k] = 0 /\ job[k].status \notin Early
        /\ \A a \in Agents : ~Replied(a, k) /\ ~Got(a, k)
    BY <1>3 DEF SimInv, TicketInv, Ticket, RowInv, Untouched, InHands, Deciding
  <2>2. OnTheWay(k) /\ ~OnTheWay(k)'
    BY <1>1, <1>3, <2>1 DEF OnTheWay, Deciding, Replied, Got, AtRest
  <2> QED BY <1>1, <2>1, <2>2, ClosedWhen
<1> QED BY <1>2, <1>3 DEF Simulated, Deciding

\* The other steps change no stage.
LEMMA SimOther ==
    ASSUME SimInv,
           \/ \E j \in JobIds, a \in Agents, r \in Requests : SubmitDecide(j, a, r)
           \/ \E allowed \in SUBSET Requests : SetPolicy(allowed)
           \/ \E m \in requests : LoseRequest(m)
           \/ \E a \in Agents : AgentPoll(a) \/ AgentFinish(a) \/ AgentReport(a)
           \/ UNCHANGED labVars
    PROVE  Simulated
<1>1. ASSUME UNCHANGED <<job, controller, reply, starts>>,
             \A b \in Agents : \/ agent'[b] = agent[b]
                               \/ agent[b].at # "got" /\ agent'[b].at # "got"
      PROVE  Simulated
  <2>1. \A k \in JobIds : OnTheWay(k)' <=> OnTheWay(k)
    BY <1>1 DEF OnTheWay
  <2> QED BY <1>1, <2>1, SimStill
<1>2. ASSUME NEW a \in Agents, AgentPoll(a) \/ AgentFinish(a) \/ AgentReport(a)
      PROVE  Simulated
  <2>1. /\ UNCHANGED <<job, controller, reply, starts>>
        /\ agent[a].at # "got" /\ agent'[a].at # "got"
        /\ \A b \in Agents : b # a => agent'[b] = agent[b]
    BY <1>2 DEF SimInv, LabTypeOK, AgentPoll, AgentFinish, AgentReport, AtRest, wire
  <2> QED BY <1>1, <2>1
<1>3. CASE UNCHANGED <<job, controller, reply, starts, agent>>
  BY <1>1, <1>3
<1> QED BY <1>2, <1>3 DEF SubmitDecide, SetPolicy, LoseRequest, labVars, wire

\* Every step of the lab is simulated.
LEMMA SimNext ==
    ASSUME SimInv, [LabNext]_labVars
    PROVE  Simulated
BY SimOperator, SimClaim, SimAccept, SimDecide, SimAudit, SimReceive, SimStart, SimGivesUp,
   SimCrash, SimOther DEF LabNext, Handle, Agent

\* The lab as a whole keeps the promise of LabQueue for every number of agents and jobs:
\* through store, controller, network and agents, and through lost messages, time-outs and
\* crashes, a job is handed over at most once, started at most once and only after it was
\* handed over, and never handed over once it is closed.
THEOREM LabImplementsQueue ==
    ASSUME LabJobsAssumption PROVE LabSpec => ImplementsQueue
<1> DEFINE Inv == IInv /\ CallInv
<1>1. LabInit => Inv
  BY InvInit, CallInit
<1>2. Inv /\ [LabNext]_labVars => Inv'
  BY InvNext, CallNext DEF IInv, CallInv
<1>3. LabInit => Queue!Init
  BY DEF LabInit, Queue!Init, Stage, NoRow
<1>4. Inv /\ [LabNext]_labVars => [Queue!Next]_([j \in JobIds |-> Stage(j)])
  <2> SUFFICES ASSUME Inv, [LabNext]_labVars
               PROVE  Queue!Next \/ UNCHANGED [j \in JobIds |-> Stage(j)]
    OBVIOUS
  <2>1. Simulated
    BY SimNext DEF IInv, SimInv
  <2> QED BY <2>1, StillIsStutter, AdvanceIsStep DEF Simulated
<1> HIDE DEF Inv
<1> QED BY <1>1, <1>2, <1>3, <1>4, PTL DEF LabSpec, ImplementsQueue, Queue!Spec

-----------------------------------------------------------------------------
(* A job the operator gave up is given up.                                 *)

\* Job j was submitted, and nobody has the right to start it.
Withheld(j) ==
    /\ job[j].status # "absent"
    /\ starts[j] = 0 /\ \A a \in Agents : ~Replied(a, j) /\ ~Got(a, j)

\* While its request is not granted, a withheld job is never handed over: the only way to an
\* agent is the decision at delivery, which asks the policy again.
LEMMA WithheldStays ==
    ASSUME LabTypeOK, RowInv, [LabNext]_labVars, NEW k \in JobIds,
           Withheld(k), job[k].request \notin granted
    PROVE  Withheld(k)'
<1>1. job'[k].status # "absent" /\ starts'[k] = 0
  BY Moves DEF Move, Withheld, Got
<1>2. CASE /\ \A b \in Agents : Replied(b, k)' => Replied(b, k)
           /\ \A b \in Agents : Got(b, k)' => Replied(b, k) \/ Got(b, k)
  BY <1>1, <1>2 DEF Withheld
<1>3. CASE UNCHANGED <<reply, agent>>
  BY <1>2, <1>3 DEF Replied, Got
<1>4. ASSUME NEW m \in requests, Claim(m) \/ AcceptResult(m) PROVE Withheld(k)'
  <2>1. UNCHANGED agent
    BY <1>4 DEF Claim, AcceptResult
  <2>2. UNCHANGED reply \/ Answered(m.msg.agent, m.open, NoJob)
    BY <1>4, ClaimEffect, AcceptEffect DEF RowInv
  <2> QED BY <1>2, <2>1, <2>2 DEF Answered, Replied, Got, NoJob
<1>5. CASE Decide
  <2>1. UNCHANGED agent
    BY <1>5 DEF Decide
  <2>2. CASE job[controller.job].request \notin granted
    BY <1>3, <1>5, <2>1, <2>2 DEF Decide
  <2>3. CASE job[controller.job].request \in granted
    <3>1. Answered(controller.agent, controller.open, [is |-> "job", job |-> controller.job])
          /\ controller.job # k
      BY <1>5, <2>3, ControllerShape, Shapes DEF LabTypeOK, Decide, Answer, Answered
    <3> QED BY <1>2, <2>1, <3>1 DEF Answered, Replied, Got
  <2> QED BY <2>2, <2>3
<1>6. CASE Audit
  <2>1. UNCHANGED agent
    BY <1>6 DEF Audit
  <2> QED BY <1>2, <1>6, <2>1, AuditEffect DEF Answered, Replied, Got, NoJob
<1>7. ASSUME NEW a \in Agents, AgentReceive(a) PROVE Withheld(k)'
  <2>1. /\ \A b \in Agents : b # a => agent'[b] = agent[b] /\ reply'[b] = reply[b]
        /\ reply'[a] = None
        /\ agent'[a] = IF reply[a].is = "job" THEN [at |-> "got", job |-> reply[a].job] ELSE AtRest
    BY <1>7 DEF LabTypeOK, AgentReceive
  <2> QED BY <1>2, <2>1 DEF Replied, Got, None, AtRest
<1>8. ASSUME NEW a \in Agents, AgentPoll(a) \/ AgentStart(a) \/ AgentFinish(a) \/ AgentReport(a)
      PROVE  Withheld(k)'
  <2>1. /\ UNCHANGED reply /\ agent'[a].at # "got"
        /\ \A b \in Agents : b # a => agent'[b] = agent[b]
    <3>1. CASE AgentStart(a)
      BY <3>1, StartEffect DEF AgentStart, wire
    <3>2. CASE AgentPoll(a) \/ AgentFinish(a) \/ AgentReport(a)
      BY <3>2 DEF LabTypeOK, AgentPoll, AgentFinish, AgentReport, wire
    <3> QED BY <1>8, <3>1, <3>2
  <2> QED BY <1>2, <2>1 DEF Replied, Got
<1>9. ASSUME NEW a \in Agents, AgentGivesUp(a) PROVE Withheld(k)'
  BY <1>2, <1>9, GivesUpEffect DEF Replied, Got, None, AtRest
<1>10. CASE ControllerCrash
  <2>1. UNCHANGED reply /\ \A b \in Agents : agent'[b] = agent[b] \/ agent'[b] = AtRest
    BY <1>10 DEF ControllerCrash, LabTypeOK
  <2> QED BY <1>2, <2>1 DEF Replied, Got, AtRest
<1> QED
  BY <1>3, <1>4, <1>5, <1>6, <1>7, <1>8, <1>9, <1>10
     DEF LabNext, Handle, Agent, SubmitDecide, SubmitCreate, Cancel, SetPolicy, LoseRequest,
         labVars, policy, wire

\* A job the operator gave up is given up, for all agents, jobs, policies and faults: after a
\* cancellation that finds nobody holding the job no late poll, result or retry changes it,
\* and a job whose permission is withdrawn for good while it is queued is never executed
\* (the policy is asked again at delivery, lab/controller.py next_job).
THEOREM WithdrawnIsWithdrawn ==
    ASSUME LabJobsAssumption PROVE LabSpec => WithdrawnNeverRuns
<1>1. IInv /\ [LabNext]_labVars =>
        [\A j \in JobIds : job[j].status = "cancelled" /\ ~InHands(j)
           => job'[j] = job[j] /\ ~InHands(j)' /\ starts'[j] = starts[j]]_labVars
  <2> SUFFICES ASSUME IInv, [LabNext]_labVars, NEW j \in JobIds,
                      job[j].status = "cancelled", ~InHands(j)
               PROVE  job'[j] = job[j] /\ ~InHands(j)' /\ starts'[j] = starts[j]
    OBVIOUS
  <2>1. Move(j)
    BY Moves DEF IInv
  <2> QED BY <2>1 DEF Move, InHands
<1>2. LabSpec => CancelSticks
  BY <1>1, InvInit, InvNext, PTL DEF LabSpec, CancelSticks
<1>3. ASSUME NEW j \in JobIds
      PROVE  LabSpec => [](job[j].status = "queued" /\ [](job[j].request \notin granted)
                             => [](starts[j] = 0))
  <2>1. IInv /\ job[j].status = "queued" => Withheld(j)
    BY DEF IInv, RowInv, Untouched, Early, InHands, Withheld, Replied, Got
  <2>2. IInv /\ [LabNext]_labVars /\ Withheld(j) /\ job[j].request \notin granted => Withheld(j)'
    BY WithheldStays DEF IInv
  <2>3. Withheld(j) => starts[j] = 0
    BY DEF Withheld
  <2> QED BY <2>1, <2>2, <2>3, InvInit, InvNext, PTL DEF LabSpec
<1>4. LabSpec => RevokedNeverRuns
  BY <1>3 DEF RevokedNeverRuns
<1> QED BY <1>2, <1>4 DEF WithdrawnNeverRuns
=============================================================================
