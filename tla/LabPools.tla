------------------------------ MODULE LabPools ------------------------------
(* The lab's device pools (core/storage360.py, lab_pool_manage and           *)
(* lab_pool_submit of service360.py).  A submission reads the pool once and  *)
(* then makes one job after another: a decision, its audit event, the job's  *)
(* row, each in a transaction of its own, while members are added and the    *)
(* policy changes.                                                           *)
EXTENDS Naturals, FiniteSets

CONSTANTS
    Members,      \* (agent, device) pairs, in the order of the query
    Submissions,  \* calls of lab_pool_submit
    MaxChanges    \* bound: changes of the policy

PoolsAssumption ==
    /\ Members \subseteq Nat /\ IsFiniteSet(Members)
    /\ MaxChanges \in Nat

VARIABLES
    pool,      \* the members in the table
    permits,   \* whether the policy allows the action now
    trail,     \* audit events: <<submission, member, decision>>
    jobs,      \* rows of lab_jobs: <<submission, member>>
    call,      \* each submission
    changes

poolVars == <<pool, permits, trail, jobs, call, changes>>

Idle == [at |-> "idle", todo |-> {}, members |-> {}]

Init ==
    /\ pool = {} /\ permits = TRUE
    /\ trail = {} /\ jobs = {}
    /\ call = [s \in Submissions |-> Idle]
    /\ changes = 0

(* INSERT OR IGNORE; there is no operation that removes a member.            *)
AddMember(m) ==
    /\ m \notin pool
    /\ pool' = pool \cup {m}
    /\ UNCHANGED <<permits, trail, jobs, call, changes>>

ChangePolicy ==
    /\ changes < MaxChanges
    /\ permits' = ~permits /\ changes' = changes + 1
    /\ UNCHANGED <<pool, trail, jobs, call>>

-----------------------------------------------------------------------------
Goto(s, step) == call' = [call EXCEPT ![s].at = step]
First(s) == CHOOSE m \in call[s].todo : \A n \in call[s].todo : m <= n

Begin(s) ==
    /\ call[s].at = "idle"
    /\ call' = [call EXCEPT ![s] = [at |-> IF pool = {} THEN "ok" ELSE "decide",
                                    todo |-> pool, members |-> pool]]
    /\ UNCHANGED <<pool, permits, trail, jobs, changes>>

(* The decision is held until it has been audited, whatever it was.          *)
Decide(s) ==
    /\ call[s].at = "decide"
    /\ Goto(s, IF permits THEN "allow" ELSE "deny")
    /\ UNCHANGED <<pool, permits, trail, jobs, changes>>

\* Faulty: a denied member is passed over.
AuditSkipping(s) ==
    /\ call[s].at \in {"allow", "deny"}
    /\ trail' = trail \cup {<<s, First(s), call[s].at>>}
    /\ call' = [call EXCEPT
           ![s].todo = IF call[s].at = "allow" THEN @ ELSE @ \ {First(s)},
           ![s].at = IF @ = "allow" THEN "create"
                     ELSE IF call[s].todo = {First(s)} THEN "ok" ELSE "decide"]
    /\ UNCHANGED <<pool, permits, jobs, changes>>

Audit(s) ==
    /\ call[s].at \in {"allow", "deny"}
    /\ trail' = trail \cup {<<s, First(s), call[s].at>>}
    /\ Goto(s, IF call[s].at = "allow" THEN "create" ELSE "denied")
    /\ UNCHANGED <<pool, permits, jobs, changes>>

Create(s) ==
    /\ call[s].at = "create"
    /\ jobs' = jobs \cup {<<s, First(s)>>}
    /\ call' = [call EXCEPT ![s].todo = @ \ {First(s)},
                            ![s].at = IF call[s].todo = {First(s)} THEN "ok" ELSE "decide"]
    /\ UNCHANGED <<pool, permits, trail, changes>>

(* A transaction fails, or the process is killed.                            *)
Fail(s) ==
    /\ call[s].at \in {"decide", "allow", "deny", "create"}
    /\ Goto(s, "failed")
    /\ UNCHANGED <<pool, permits, trail, jobs, changes>>

Next ==
    \/ \E m \in Members : AddMember(m)
    \/ ChangePolicy
    \/ \E s \in Submissions : Begin(s) \/ Decide(s) \/ Audit(s) \/ Create(s) \/ Fail(s)

-----------------------------------------------------------------------------
TypeOK ==
    /\ pool \subseteq Members /\ permits \in BOOLEAN
    /\ trail \subseteq Submissions \X Members \X {"allow", "deny"}
    /\ jobs \subseteq Submissions \X Members
    /\ call \in [Submissions ->
           [at : {"idle", "decide", "allow", "deny", "create", "ok", "denied", "failed"},
            todo : SUBSET Members, members : SUBSET Members]]
    /\ changes \in 0 .. MaxChanges

(* A submission that answers has queued one job for each member the pool had *)
(* when it was read, all of them allowed; and what one that was denied or    *)
(* failed leaves behind is the jobs of the members before the one it came    *)
(* to, each with an allow event, and no other (lab_pool_submit).             *)
JobsAccountedFor ==
    \A s \in Submissions :
        LET made == {m \in Members : <<s, m>> \in jobs}
            allowed == {m \in Members : <<s, m, "allow">> \in trail}
        IN /\ made = call[s].members \ call[s].todo
           /\ made \subseteq allowed
           /\ Cardinality(allowed \ made) <= 1
           /\ \A m \in made, n \in call[s].todo : m < n
=============================================================================
