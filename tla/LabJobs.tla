------------------------------ MODULE LabJobs -------------------------------
(***************************************************************************)
(* The distributed lab: lab_jobs rows in the controller's database         *)
(* (core/storage360.py), submission and cancellation by an operator        *)
(* (service360.py), the controller's handlers (lab/controller.py) and the  *)
(* outbound-only agents (lab/agent.py).                                    *)
(*                                                                         *)
(* An agent makes one blocking HTTPS request at a time and gives up after  *)
(* a time-out; the controller may still handle a request whose agent has   *)
(* given up, and then nobody reads the answer.  Requests and answers may   *)
(* be lost, agents and the controller may crash; the rows persist.         *)
(***************************************************************************)
EXTENDS Naturals, Sequences

CONSTANTS Agents, JobIds,    \* JobIds: the ids of lab_jobs rows
          Requests,          \* (role, action, approved) triples
          MaxPolicyChanges,  \* bounds: edits of policy rules,
          MaxFaults          \* and lost messages, time-outs and crashes

\* Assumed by the modules that give the constants values.
LabJobsAssumption == MaxPolicyChanges \in Nat /\ MaxFaults \in Nat

VARIABLES job,           \* the rows of lab_jobs
          created,       \* the ids in order of created_at
          audit,         \* the audit trail, as the set of what it records
          granted,       \* requests the controller's policy allows
          agentGranted,  \* requests each agent's own policy allows
          operator,      \* the submission in progress
          requests,      \* HTTP requests under way to the controller
          controller,    \* the handler in progress
          reply,         \* the answer on its way to each agent
          agent,         \* where each agent is in its cycle
          starts,        \* how often each job's operation was started
          changes, faults

policy == <<granted, agentGranted, changes>>
wire == <<requests, reply>>
labVars == <<job, created, audit, granted, agentGranted, operator, requests,
             controller, reply, agent, starts, changes, faults>>

None   == [is |-> "none"]
NoJob  == [is |-> "empty"]
AtRest == [at |-> "idle"]
NoRow  == [status |-> "absent", agent |-> None, request |-> None, result |-> "none"]

\* The statuses of a job that is over.
Over == {"completed", "failed", "cancelled"}

Outcomes == {"data", "error"}   \* {"result": ...} or {"error": ...}

Poll(a) == [ask |-> "next", agent |-> a]
Result(a, j, o) == [ask |-> "result", agent |-> a, job |-> j, outcome |-> o]
AllRequests == [ask : {"next"}, agent : Agents]
          \cup [ask : {"result"}, agent : Agents, job : JobIds, outcome : Outcomes]

\* A submission and a delivery are recorded by request and agent, a result by job.
Submitted(r, a, decision) == [what |-> "submit", request |-> r, agent |-> a, decision |-> decision]
Denied(r, a) == [what |-> "deliver", request |-> r, agent |-> a, decision |-> "deny"]
Ended(j, status) == [what |-> "result", job |-> j, status |-> status]

AuditEvents ==
    [what : {"submit", "deliver"}, request : Requests, agent : Agents, decision : {"allow", "deny"}]
    \cup [what : {"result"}, job : JobIds, status : {"completed", "failed"}]

JobRows == {NoRow} \cup
    [status : {"queued", "running"} \cup Over, agent : Agents,
     request : Requests, result : {"none"} \cup Outcomes]

OperatorStates ==
    {AtRest} \cup [at : {"create"}, job : JobIds, agent : Agents, request : Requests]

ControllerStates ==
    {AtRest} \cup [at : {"decide"}, agent : Agents, job : JobIds, open : BOOLEAN]
    \cup [at : {"audit"}, agent : Agents, job : JobIds, open : BOOLEAN, event : AuditEvents]

Replies == {None, NoJob} \cup [is : {"job"}, job : JobIds]

AgentStates ==
    {AtRest} \cup [at : {"polling", "reporting"}]
    \cup [at : {"got", "running"}, job : JobIds]
    \cup [at : {"done"}, job : JobIds, outcome : Outcomes]

LabTypeOK ==
    /\ job \in [JobIds -> JobRows]
    /\ created \in Seq(JobIds)
    /\ audit \subseteq AuditEvents
    /\ granted \subseteq Requests
    /\ agentGranted \in [Agents -> SUBSET Requests]
    /\ operator \in OperatorStates
    /\ requests \subseteq [msg : AllRequests, open : BOOLEAN, attempt : 0 .. MaxFaults]
    /\ controller \in ControllerStates
    /\ reply \in [Agents -> Replies]
    /\ agent \in [Agents -> AgentStates]
    /\ starts \in [JobIds -> Nat]
    /\ changes \in 0 .. MaxPolicyChanges
    /\ faults \in 0 .. MaxFaults

LabInit ==
    /\ job = [j \in JobIds |-> NoRow]
    /\ created = <<>>
    /\ audit = {}
    /\ granted = Requests
    /\ agentGranted = [a \in Agents |-> Requests]
    /\ operator = AtRest
    /\ requests = {}
    /\ controller = AtRest
    /\ reply = [a \in Agents |-> None]
    /\ agent = [a \in Agents |-> AtRest]
    /\ starts = [j \in JobIds |-> 0]
    /\ changes = 0 /\ faults = 0

-----------------------------------------------------------------------------
(* The operator: lab_job_submit, cancel_lab_job and policy edits, from     *)
(* processes other than the controller's.                                  *)

\* The policy decision and its audit event; a denied submission ends there.
SubmitDecide(j, a, r) ==
    /\ operator = AtRest
    /\ job[j] = NoRow
    /\ IF r \in granted
       THEN /\ audit' = audit \cup {Submitted(r, a, "allow")}
            /\ operator' = [at |-> "create", job |-> j, agent |-> a, request |-> r]
       ELSE /\ audit' = audit \cup {Submitted(r, a, "deny")}
            /\ UNCHANGED operator
    /\ UNCHANGED <<job, created, policy, wire, controller, agent, starts, faults>>

SubmitCreate ==
    /\ operator.at = "create"
    /\ job' = [job EXCEPT ![operator.job] =
                 [status |-> "queued", agent |-> operator.agent,
                  request |-> operator.request, result |-> "none"]]
    /\ created' = Append(created, operator.job)
    /\ operator' = AtRest
    /\ UNCHANGED <<audit, policy, wire, controller, agent, starts, faults>>

Cancel(j) ==
    /\ job[j].status \in {"queued", "running"}
    /\ job' = [job EXCEPT ![j].status = "cancelled"]
    /\ UNCHANGED <<created, audit, policy, operator, wire, controller, agent, starts, faults>>

SetPolicy(allowed) ==
    /\ changes < MaxPolicyChanges
    /\ changes' = changes + 1
    /\ \/ granted' = allowed /\ UNCHANGED agentGranted
       \/ /\ \E a \in Agents : agentGranted' = [agentGranted EXCEPT ![a] = allowed]
          /\ UNCHANGED granted
    /\ UNCHANGED <<job, created, audit, operator, wire, controller, agent, starts, faults>>

-----------------------------------------------------------------------------
(* The controller.  Its handlers do not await, so one runs at a time; the  *)
(* database is shared with the operator's processes, so each store call of *)
(* a handler is a step of its own.                                         *)

\* Faulty: hands a running job out again.
QueuedOrRunning(a) ==
    {j \in JobIds : job[j].status \in {"queued", "running"} /\ job[j].agent = a}

Queued(a) == {j \in JobIds : job[j].status = "queued" /\ job[j].agent = a}

\* ORDER BY created_at LIMIT 1
Oldest(js) == CHOOSE j \in js : \E p \in DOMAIN created :
    created[p] = j /\ \A q \in 1 .. p - 1 : created[q] \notin js

\* The answer reaches an agent only if it still waits for it.
Answer(a, open, content) ==
    reply' = IF open THEN [reply EXCEPT ![a] = content] ELSE reply

\* next_job: claim_next_lab_job, a read and an update in one transaction.
Claim(m) ==
    /\ controller = AtRest
    /\ m \in requests /\ m.msg.ask = "next"
    /\ requests' = requests \ {m}
    /\ LET a == m.msg.agent IN
         IF Queued(a) = {}
         THEN /\ Answer(a, m.open, NoJob)
              /\ UNCHANGED <<job, controller>>
         ELSE LET j == Oldest(Queued(a)) IN
              /\ job' = [job EXCEPT ![j].status = "running"]
              /\ controller' = [at |-> "decide", agent |-> a, job |-> j, open |-> m.open]
              /\ UNCHANGED reply
    /\ UNCHANGED <<created, audit, policy, operator, agent, starts, faults>>

\* Faulty: an error is stored as a result.
CompleteAlways(j, o) ==
    [job EXCEPT ![j].status = "completed", ![j].result = o]

\* Faulty: a status that nothing else knows.
CompleteMisspelt(j, o) ==
    [job EXCEPT ![j].status = IF o = "error" THEN "failed" ELSE "complete",
                ![j].result = o]

\* complete_lab_job: an update that does not look at the status.
Complete(j, o) ==
    [job EXCEPT ![j].status = IF o = "error" THEN "failed" ELSE "completed",
                ![j].result = o]

\* Faulty: relies on the decision taken at submission.
DecideOnce ==
    /\ controller.at = "decide"
    /\ Answer(controller.agent, controller.open, [is |-> "job", job |-> controller.job])
    /\ controller' = AtRest
    /\ UNCHANGED <<job, created, audit, policy, operator, requests, agent, starts, faults>>

\* Policy is asked again: an allowed job is delivered, a denied one failed.
Decide ==
    /\ controller.at = "decide"
    /\ LET j == controller.job  a == controller.agent IN
         IF job[j].request \in granted
         THEN /\ Answer(a, controller.open, [is |-> "job", job |-> j])
              /\ controller' = AtRest
              /\ UNCHANGED job
         ELSE /\ job' = Complete(j, "error")
              /\ controller' = [at |-> "audit", agent |-> a, job |-> j,
                                open |-> controller.open, event |-> Denied(job[j].request, a)]
              /\ UNCHANGED reply
    /\ UNCHANGED <<created, audit, policy, operator, requests, agent, starts, faults>>

\* job_result: only the agent the job was queued for may complete it.
AcceptResult(m) ==
    /\ controller = AtRest
    /\ m \in requests /\ m.msg.ask = "result"
    /\ requests' = requests \ {m}
    /\ LET j == m.msg.job  a == m.msg.agent IN
         IF job[j].agent # a
         THEN /\ Answer(a, m.open, NoJob)
              /\ UNCHANGED <<job, controller>>
         ELSE /\ job' = Complete(j, m.msg.outcome)
              /\ controller' = [at |-> "audit", agent |-> a, job |-> j, open |-> m.open,
                                event |-> Ended(j, job'[j].status)]
              /\ UNCHANGED reply
    /\ UNCHANGED <<created, audit, policy, operator, agent, starts, faults>>

\* append_audit_event, then the answer: no job for a poll, a receipt for a result.
Audit ==
    /\ controller.at = "audit"
    /\ audit' = audit \cup {controller.event}
    /\ Answer(controller.agent, controller.open, NoJob)
    /\ controller' = AtRest
    /\ UNCHANGED <<job, created, policy, operator, requests, agent, starts, faults>>

-----------------------------------------------------------------------------
(* An agent's cycle: poll, execute, report.                                *)

\* A new attempt differs from those given up before it.
Send(msg) == requests' = requests \cup {[msg |-> msg, open |-> TRUE, attempt |-> faults]}

AgentPoll(a) ==
    /\ agent[a] = AtRest
    /\ agent' = [agent EXCEPT ![a] = [at |-> "polling"]]
    /\ Send(Poll(a))
    /\ UNCHANGED <<job, created, audit, policy, operator, controller, reply, starts, faults>>

AgentReceive(a) ==
    /\ reply[a] # None
    /\ agent' = [agent EXCEPT ![a] = IF reply[a].is = "job"
                                     THEN [at |-> "got", job |-> reply[a].job]
                                     ELSE AtRest]
    /\ reply' = [reply EXCEPT ![a] = None]
    /\ UNCHANGED <<job, created, audit, policy, operator, requests, controller, starts, faults>>

\* Faulty: a refused job is dropped without a report.
AgentStartSilent(a) ==
    /\ agent[a].at = "got"
    /\ LET j == agent[a].job IN
         IF job[j].request \in agentGranted[a]
         THEN /\ agent' = [agent EXCEPT ![a].at = "running"]
              /\ starts' = [starts EXCEPT ![j] = @ + 1]
         ELSE /\ agent' = [agent EXCEPT ![a] = AtRest]
              /\ UNCHANGED starts
    /\ UNCHANGED <<job, created, audit, policy, operator, wire, controller, faults>>

\* execute_job: the agent's own policy is asked before the dispatch.
AgentStart(a) ==
    /\ agent[a].at = "got"
    /\ LET j == agent[a].job IN
         IF job[j].request \in agentGranted[a]
         THEN /\ agent' = [agent EXCEPT ![a].at = "running"]
              /\ starts' = [starts EXCEPT ![j] = @ + 1]
         ELSE /\ agent' = [agent EXCEPT ![a] = [at |-> "done", job |-> j, outcome |-> "error"]]
              /\ UNCHANGED starts
    /\ UNCHANGED <<job, created, audit, policy, operator, wire, controller, faults>>

AgentFinish(a) ==
    /\ agent[a].at = "running"
    /\ \E o \in Outcomes :
         agent' = [agent EXCEPT ![a] = [at |-> "done", job |-> agent[a].job, outcome |-> o]]
    /\ UNCHANGED <<job, created, audit, policy, operator, wire, controller, starts, faults>>

AgentReport(a) ==
    /\ agent[a].at = "done"
    /\ Send(Result(a, agent[a].job, agent[a].outcome))
    /\ agent' = [agent EXCEPT ![a] = [at |-> "reporting"]]
    /\ UNCHANGED <<job, created, audit, policy, operator, controller, reply, starts, faults>>

-----------------------------------------------------------------------------
(* Faults. *)

Fault == faults < MaxFaults /\ faults' = faults + 1

\* The requests of an agent that has stopped waiting stay under way, unread.
Abandon(a) ==
    {[m EXCEPT !.open = @ /\ m.msg.agent # a] : m \in requests}

\* A time-out, a reset connection or a lost answer ends the cycle; the next
\* one begins with a poll, and an unreported outcome is forgotten.  A crash of
\* the agent does the same from any point.
AgentGivesUp(a) ==
    /\ agent[a] # AtRest
    /\ Fault
    /\ agent' = [agent EXCEPT ![a] = AtRest]
    /\ reply' = [reply EXCEPT ![a] = None]
    /\ requests' = Abandon(a)
    /\ controller' = IF controller.at # "idle" /\ controller.agent = a
                     THEN [controller EXCEPT !.open = FALSE] ELSE controller
    /\ UNCHANGED <<job, created, audit, policy, operator, starts>>

\* A request that will never be handled: its agent times out.
LoseRequest(m) ==
    /\ m \in requests /\ ~m.open
    /\ requests' = requests \ {m}
    /\ UNCHANGED <<job, created, audit, policy, operator, controller, reply, agent, starts, faults>>

\* The controller process ends; every connection breaks, and the agents
\* learn it from their own time-outs.
ControllerCrash ==
    /\ controller # AtRest \/ requests # {}
    /\ Fault
    /\ controller' = AtRest
    /\ requests' = {}
    /\ agent' = [a \in Agents |->
          IF agent[a].at \in {"polling", "reporting"} /\ reply[a] = None THEN AtRest ELSE agent[a]]
    /\ UNCHANGED <<job, created, audit, policy, operator, reply, starts>>

-----------------------------------------------------------------------------

\* The controller's steps on behalf of agent a.
Handle(a) ==
    \/ \E m \in requests : m.msg.agent = a /\ (Claim(m) \/ AcceptResult(m))
    \/ controller.at # "idle" /\ controller.agent = a /\ (Decide \/ Audit)

Agent(a) == \/ AgentPoll(a) \/ AgentReceive(a) \/ AgentStart(a)
            \/ AgentFinish(a) \/ AgentReport(a)

LabNext ==
    \/ \E j \in JobIds, a \in Agents, r \in Requests : SubmitDecide(j, a, r)
    \/ SubmitCreate
    \/ \E j \in JobIds : Cancel(j)
    \/ \E allowed \in SUBSET Requests : SetPolicy(allowed)
    \/ \E a \in Agents : Handle(a) \/ Agent(a) \/ AgentGivesUp(a)
    \/ \E m \in requests : LoseRequest(m)
    \/ ControllerCrash

LabSpec == LabInit /\ [][LabNext]_labVars

\* Each agent keeps cycling, and the controller's event loop serves every
\* connection in turn: requests of one agent never starve another's.
LabFairSpec == LabSpec /\ \A a \in Agents : SF_labVars(Handle(a)) /\ WF_labVars(Agent(a))

-----------------------------------------------------------------------------

\* No job is executed twice, whatever is lost, given up or handled late.
AtMostOnce == \A j \in JobIds : starts[j] <= 1

\* Somebody may still start, or report on, job j.
InHands(j) ==
    \/ controller.at # "idle" /\ controller.job = j
    \/ \E a \in Agents :
         \/ reply[a].is = "job" /\ reply[a].job = j
         \/ agent[a].at \in {"got", "running", "done"} /\ agent[a].job = j
    \/ \E m \in requests : m.msg.ask = "result" /\ m.msg.job = j

\* Once a job is cancelled and nobody holds it, no late result, retry or poll
\* revives it.
CancelSticks ==
    [][\A j \in JobIds : job[j].status = "cancelled" /\ ~InHands(j)
         => job'[j] = job[j] /\ ~InHands(j)' /\ starts'[j] = starts[j]]_labVars

\* "Evaluated ... immediately before a remote job is delivered": a request whose
\* permission is withdrawn for good while the job waits is never executed.
RevokedNeverRuns ==
    \A j \in JobIds :
        [](job[j].status = "queued" /\ [](job[j].request \notin granted)
             => [](starts[j] = 0))

\* A job the operator gave up is given up: see the two parts.
WithdrawnNeverRuns == CancelSticks /\ RevokedNeverRuns

\* A job is reported completed only if its own agent executed it.
CompletedWasRun == \A j \in JobIds : job[j].status = "completed" => starts[j] > 0

\* "Complete audit event for every remote operation": an outcome in a row is in
\* the audit trail, or its handler is about to add it, unless a controller was
\* stopped between the two.
OutcomeAudited ==
    \A j \in JobIds : job[j].status \in {"completed", "failed"} =>
        \/ Ended(j, job[j].status) \in audit
        \/ Denied(job[j].request, job[j].agent) \in audit
        \/ controller.at = "audit" /\ controller.job = j
        \/ faults > 0

\* The rows tell what the agents did: see the three parts.
RowsTellWhatRan == AtMostOnce /\ CompletedWasRun /\ OutcomeAudited

\* "No loss of accepted job state during controller restart": a queued job ends.
\* The code breaks this: a job claimed for an answer that never arrives stays
\* running, and nothing queues it again.
AcceptedEnds == \A j \in JobIds : job[j].status = "queued" ~> job[j].status \in Over

\* Until something is lost, stopped or given up, every queued job ends.
FaultlessEnds ==
    \A j \in JobIds : job[j].status = "queued" ~> job[j].status \in Over \/ faults > 0

-----------------------------------------------------------------------------
(* The lab implements LabQueue. *)

\* Handed over: claimed, and still able to reach its agent.
OnTheWay(j) ==
    \/ controller.at = "decide" /\ controller.job = j /\ controller.open
    \/ \E a \in Agents :
         \/ reply[a].is = "job" /\ reply[a].job = j
         \/ agent[a].at = "got" /\ agent[a].job = j

Stage(j) ==
    IF starts[j] > 0 THEN "started"
    ELSE IF job[j].status = "absent" THEN "unknown"
    ELSE IF job[j].status = "queued" THEN "waiting"
    ELSE IF OnTheWay(j) THEN "handed" ELSE "closed"

Queue == INSTANCE LabQueue WITH Jobs <- JobIds, stage <- [j \in JobIds |-> Stage(j)]

\* Every step of the lab is a step of the queue it promises, or a stutter.
ImplementsQueue == Queue!Spec
=============================================================================
