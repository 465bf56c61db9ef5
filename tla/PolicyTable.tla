----------------------------- MODULE PolicyTable -----------------------------
(* The policy engine and its table of rules (core/policy360.py,              *)
(* core/storage360.py, policy_operation of service360.py).  A decision reads *)
(* the table twice, for the rule of exactly this action and for the patterns *)
(* the role is granted, in two transactions, while rules change.             *)
EXTENDS Integers, FiniteSets

CONSTANTS
    Roles,        \* 1 .. n, in the order of ROLE_ORDER
    Actions,      \* names of operations
    All,          \* the pattern "*"
    Defaults,     \* role -> DEFAULT_RULES of the role
    Destructive,  \* actions that DESTRUCTIVE_PATTERNS match
    RemoteDeny,   \* actions of REMOTE_DENY
    Operators,    \* callers that change the policy
    Callers,      \* callers that ask for a decision
    MaxChanges    \* bound: changes of the table

Patterns == Actions \cup {All}
Stranger == 0     \* a role that is not in ROLE_ORDER
Administrator == Cardinality(Roles)

ASSUME PolicyAssumption ==
    /\ Roles = 1 .. Administrator /\ All \notin Actions
    /\ Defaults \in [Roles -> SUBSET Patterns]
    /\ Destructive \subseteq Actions /\ RemoteDeny \subseteq Actions
    /\ Administrator \in Nat /\ MaxChanges \in Nat

VARIABLES
    rules,    \* (role, pattern) -> the effect of its row, or "none"
    changes,  \* changes made so far
    audited,  \* policy events in the audit table
    change,   \* operator -> whether its policy_operation has still to audit
    call      \* caller -> its decide

policyVars == <<rules, changes, audited, change, call>>

Tables == [Roles \X Patterns -> {"none", "allow", "deny"}]
Questions == [role: Roles \cup {Stranger}, action: Actions,
              remote: BOOLEAN, approved: BOOLEAN]
NotAsked == [pc |-> "idle"]
Decisions == [pc: {"exact", "patterns", "done"}, q: Questions,
              tables: SUBSET Tables, verdict: BOOLEAN]

PolicyInit ==
    /\ rules = [k \in Roles \X Patterns |-> "none"]
    /\ changes = 0 /\ audited = 0
    /\ change = [o \in Operators |-> FALSE]
    /\ call = [c \in Callers |-> NotAsked]

Matches(pattern, action) == pattern = action \/ pattern = All

-----------------------------------------------------------------------------
(* policy_operation set and delete: one row for a role and an action, and an *)
(* audit event in a transaction of its own.                                  *)

(* The tables a decision in progress has met.                                *)
Met(table) ==
    [c \in Callers |->
        IF call[c].pc \in {"exact", "patterns"}
        THEN [call[c] EXCEPT !.tables = @ \cup {table}] ELSE call[c]]

Write(o, role, pattern, effect) ==
    /\ ~change[o] /\ changes < MaxChanges
    /\ pattern = All => role = Administrator \/ effect = "none"
    /\ rules' = [rules EXCEPT ![<<role, pattern>>] = effect]
    /\ changes' = changes + 1
    /\ change' = [change EXCEPT ![o] = TRUE]
    /\ call' = Met(rules')
    /\ UNCHANGED audited

Audit(o) ==
    /\ change[o]
    /\ audited' = audited + 1
    /\ change' = [change EXCEPT ![o] = FALSE]
    /\ UNCHANGED <<rules, changes, call>>

-----------------------------------------------------------------------------
(* PolicyEngine.decide.                                                      *)

(* A destructive operation that is granted waits for an approval.            *)
Permitted(q) == q.action \in Destructive => q.approved

Ends(c, verdict) ==
    call' = [call EXCEPT ![c].pc = "done", ![c].verdict = verdict]

(* An unknown role, and what may not be asked from afar, is refused unread.  *)
Ask(c, q) ==
    /\ call[c].pc = "idle"
    /\ LET l == [pc |-> "exact", q |-> q, tables |-> {rules}, verdict |-> FALSE]
       IN  call' = [call EXCEPT ![c] =
              IF q.role = Stranger \/ (q.remote /\ q.action \in RemoteDeny)
              THEN [l EXCEPT !.pc = "done"] ELSE l]
    /\ UNCHANGED <<rules, changes, audited, change>>

ReadExact(c) ==
    /\ call[c].pc = "exact"
    /\ LET q == call[c].q
           effect == rules[<<q.role, q.action>>]
       IN  \/ effect = "deny" /\ Ends(c, FALSE)
           \/ effect = "allow" /\ Ends(c, Permitted(q))
           \/ effect = "none" /\ call' = [call EXCEPT ![c].pc = "patterns"]
    /\ UNCHANGED <<rules, changes, audited, change>>

(* Every row of the role, its refusals too.                                  *)
GrantedByAnyRow(role) ==
    (UNION {Defaults[r] : r \in 1 .. role})
        \cup {p \in Patterns : rules[<<role, p>>] # "none"}

(* effective_patterns: the defaults of the role and of those below it, and   *)
(* the role's own allow rows.                                                *)
Granted(role) ==
    (UNION {Defaults[r] : r \in 1 .. role})
        \cup {p \in Patterns : rules[<<role, p>>] = "allow"}

ReadPatterns(c) ==
    /\ call[c].pc = "patterns"
    /\ LET q == call[c].q IN
       Ends(c, Permitted(q) /\ \E p \in Granted(q.role) : Matches(p, q.action))
    /\ UNCHANGED <<rules, changes, audited, change>>

PolicyNext ==
    \/ \E o \in Operators :
          \/ \E role \in Roles, p \in Patterns, e \in {"none", "allow", "deny"} :
                Write(o, role, p, e)
          \/ Audit(o)
    \/ \E c \in Callers :
          \/ \E q \in Questions : Ask(c, q)
          \/ ReadExact(c) \/ ReadPatterns(c)

PolicySpec == PolicyInit /\ [][PolicyNext]_policyVars

-----------------------------------------------------------------------------

PolicyTypeOK ==
    /\ rules \in Tables
    /\ changes \in 0 .. MaxChanges /\ audited \in 0 .. changes
    /\ change \in [Operators -> BOOLEAN]
    /\ call \in [Callers -> {NotAsked} \cup Decisions]

(* What a table says of a question: the rule of this very action first, then *)
(* anything the role or one below it is granted.                             *)
Says(table, q) ==
    /\ q.role \in Roles /\ ~(q.remote /\ q.action \in RemoteDeny)
    /\ table[<<q.role, q.action>>] # "deny"
    /\ \/ \E p \in Patterns : Matches(p, q.action) /\ table[<<q.role, p>>] = "allow"
       \/ \E r \in Roles, p \in Patterns :
             r <= q.role /\ p \in Defaults[r] /\ Matches(p, q.action)
    /\ q.action \in Destructive => q.approved

(* A decision is what one table that was in force while it was made says,    *)
(* although it reads the table twice, unless two changes fell into it.       *)
DecidedByOneTable ==
    \A c \in Callers : call[c].pc = "done" =>
        \/ \E t \in call[c].tables : call[c].verdict = Says(t, call[c].q)
        \/ Cardinality(call[c].tables) > 2
=============================================================================
