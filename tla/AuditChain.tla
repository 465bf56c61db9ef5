----------------------------- MODULE AuditChain -----------------------------
(***************************************************************************)
(* The audit trail of core/storage360.py: append_audit_event links every   *)
(* new event to the hash of the latest one, and verify_audit_chain reads   *)
(* the events back in order of (created_at, id) and recomputes the links.  *)
(*                                                                         *)
(* The creation time is taken before the store's lock, ids are random, and *)
(* the latest event is read outside the transaction that inserts.  Within  *)
(* one process the lock makes read and insert one step for other threads;  *)
(* nothing does so between processes: the controller of a lab, the web     *)
(* server and the command line append to one database.                     *)
(***************************************************************************)
EXTENDS Naturals, FiniteSets

CONSTANTS Threads,     \* threads that append
          Processes,
          ProcessOf,   \* the process of each thread
          Contents,    \* actor, role, action, target, decision, details
          MaxTime,     \* bound: clock values, in units of its resolution
          MaxEvents    \* bound: events in the trail and being appended

ASSUME AuditAssumption == /\ ProcessOf \in [Threads -> Processes]
                          /\ MaxTime \in Nat /\ MaxEvents \in Nat

VARIABLES events,     \* the rows of audit_events
          clock,
          thread,     \* the append each thread is in
          disordered, \* an event was inserted out of order, see Insert
          tampered    \* the table was edited by something else

chainVars == <<events, clock, thread, disordered, tampered>>

NoAppend == [at |-> "idle"]
NoHash == <<>>

\* The hash is taken for the data it is computed from: different data never
\* have the same hash.
HashOf(content, time, prev) == <<content, time, prev>>

Ids == 1 .. MaxEvents

\* ORDER BY created_at, id
Before(e, f) == e.time < f.time \/ (e.time = f.time /\ e.id < f.id)
Latest(es) == CHOOSE e \in es : \A f \in es \ {e} : Before(f, e)
LatestHash(es) == IF es = {} THEN NoHash ELSE Latest(es).hash

ChainTypeOK ==
    /\ \A e \in events : /\ DOMAIN e = {"id", "content", "time", "prev", "hash"}
                         /\ e.id \in Ids /\ e.content \in Contents /\ e.time \in 0 .. MaxTime
    /\ \A e, f \in events : e.id = f.id => e = f
    /\ clock \in 0 .. MaxTime
    /\ thread = [t \in Threads |-> thread[t]]
    /\ \A t \in Threads : thread[t] # NoAppend =>
          /\ thread[t].at \in {"stamped", "linked"}
          /\ thread[t].time \in 0 .. MaxTime /\ thread[t].content \in Contents
          /\ thread[t].at = "linked" => thread[t].passed \subseteq Processes
    /\ disordered \in BOOLEAN
    /\ tampered \in BOOLEAN

ChainInit ==
    /\ events = {}
    /\ clock = 0
    /\ thread = [t \in Threads |-> NoAppend]
    /\ disordered = FALSE
    /\ tampered = FALSE

Tick ==
    /\ clock < MaxTime
    /\ clock' = clock + 1
    /\ UNCHANGED <<events, thread, disordered, tampered>>

Appending == {t \in Threads : thread[t] # NoAppend}

\* created_at = _now()
Stamp(t, content) ==
    /\ thread[t] = NoAppend
    /\ Cardinality(events) + Cardinality(Appending) < MaxEvents
    /\ thread' = [thread EXCEPT ![t] = [at |-> "stamped", time |-> clock, content |-> content]]
    /\ UNCHANGED <<events, clock, disordered, tampered>>

\* Faulty: the latest event is read without the lock.
NeverLocked(p) == FALSE

\* The store's lock is held from reading the latest event to the commit.
Locked(p) == \E t \in Threads : ProcessOf[t] = p /\ thread[t].at = "linked"

ReadLatest(t) ==
    /\ thread[t].at = "stamped"
    /\ ~Locked(ProcessOf[t])
    /\ thread' = [thread EXCEPT ![t] = [at |-> "linked", time |-> thread[t].time,
          content |-> thread[t].content, prev |-> LatestHash(events), passed |-> {}]]
    /\ UNCHANGED <<events, clock, disordered, tampered>>

\* The id is random: any unused one.  An event is out of order when processes
\* inserted others after it read its link, or when it sorts before one that is
\* there already; appends that hold a link meanwhile are passed by this one.
Insert(t, id) ==
    /\ thread[t].at = "linked"
    /\ id \notin {e.id : e \in events}
    /\ LET new == [id |-> id, content |-> thread[t].content, time |-> thread[t].time,
                   prev |-> thread[t].prev,
                   hash |-> HashOf(thread[t].content, thread[t].time, thread[t].prev)]
       IN /\ events' = events \cup {new}
          /\ disordered' = (disordered \/ thread[t].passed # {} \/ \E e \in events : Before(new, e))
    /\ thread' = [u \in Threads |->
          IF u = t THEN NoAppend
          ELSE IF thread[u].at = "linked"
               THEN [thread[u] EXCEPT !.passed = @ \cup {ProcessOf[t]}]
               ELSE thread[u]]
    /\ UNCHANGED <<clock, tampered>>

\* What the trail is there to reveal: a row edited in place, or removed from
\* before another one.
Tamper(e) ==
    /\ ~tampered
    /\ tampered' = TRUE
    /\ \/ \E c \in Contents \ {e.content} :
            events' = (events \ {e}) \cup {[e EXCEPT !.content = c]}
       \/ /\ e # Latest(events)
          /\ events' = events \ {e}
    /\ UNCHANGED <<clock, thread, disordered>>

Append(t) == \/ \E c \in Contents : Stamp(t, c)
             \/ ReadLatest(t)
             \/ \E id \in Ids : Insert(t, id)

ChainNext == Tick \/ (\E t \in Threads : Append(t)) \/ (\E e \in events : Tamper(e))

ChainSpec == ChainInit /\ [][ChainNext]_chainVars

-----------------------------------------------------------------------------

\* verify_audit_chain: walking the events in order, each link is the hash of
\* the event before it and each hash is that of the row's data.
Verified ==
    \A e \in events :
        /\ e.prev = LatestHash({f \in events : Before(f, e)})
        /\ e.hash = HashOf(e.content, e.time, e.prev)

\* "Verification fails if stored audit content is modified", and only then, as
\* long as events are inserted in order: the trail verifies exactly while nothing
\* else edits it, and stays broken however many events follow the edit.  Once one
\* is inserted out of order it never verifies again, although nobody edited it.
VerifiesInOrder ==
    /\ ~disordered => (Verified <=> ~tampered)
    /\ disordered /\ ~tampered => ~Verified

\* "Every event links to the previous event hash": an append that is about to be
\* inserted holds the hash of the latest event, however the appends of its own
\* process overlap it, unless another process inserted after it read.
LinksLatest ==
    \A t \in Threads : thread[t].at = "linked" =>
        /\ ProcessOf[t] \notin thread[t].passed
        /\ thread[t].passed = {} => thread[t].prev = LatestHash(events)

\* The trail is one chain where processes take turns, and says whether it was
\* edited; and where they do not, verification fails for good.
ChainHolds == VerifiesInOrder /\ LinksLatest
=============================================================================
