--------------------------- MODULE WirelessBroker ----------------------------
(***************************************************************************)
(* modules/wireless/broker.py: the thread that turns what adb and mDNS     *)
(* show into a history of events, the callers of start and stop, and a     *)
(* browser that follows the history through wait (webapp340.py).           *)
(*                                                                         *)
(* Services and devices are compared and reported by the same code: one    *)
(* set of items stands for both.  The value 0 is an item that is absent.   *)
(***************************************************************************)
EXTENDS Integers, FiniteSets, SequencesExt

CONSTANTS Keys,          \* items, by the key _key gives them
          Values,        \* what an item shows when it is there: positive
          Threads,       \* threads alive at once
          MaxHistory,    \* the deque's maxlen
          MaxUpsets      \* bound: changes of the world, discoveries that
                         \* raise and calls of stop, together

\* Assumed by the modules that give the constants values.
WirelessBrokerAssumption ==
    /\ IsFiniteSet(Keys) /\ Values \subseteq Nat \ {0}
    /\ {MaxHistory, MaxUpsets} \subseteq Nat

VARIABLES world,       \* what adb would show now
          budget,      \* changes, failures and stops left of MaxUpsets
          running,     \* self._running
          flag,        \* self._stop
          current,     \* self._thread
          services,    \* self._services (and self._devices)
          sequence,    \* self._sequence
          events,      \* self._events, oldest first
          thread,      \* the threads: where each is, what it has to report
          stopper,     \* the caller of stop
          reader,      \* the browser: after_sequence and what it makes of it
          hurried      \* a stop gave up waiting, or a start came during it

vars == <<world, budget, running, flag, current, services, sequence, events,
          thread, stopper, reader, hurried>>

Item  == Values \cup {0}
State == [Keys -> Item]
Nothing == [k \in Keys |-> 0]
Gone  == [at |-> "gone", seen |-> Nothing, todo |-> <<>>]
Events == [kind : {"item"}, key : Keys, value : Item]
          \cup [kind : {"started", "stopped", "snapshot", "error"}]

TypeOK ==
    /\ {world, services} \subseteq State
    /\ budget \in 0 .. MaxUpsets
    /\ running \in BOOLEAN /\ flag \in BOOLEAN /\ hurried \in BOOLEAN
    /\ current \in Threads \cup {"none"}
    /\ sequence \in Nat
    /\ events \in Seq(Events) /\ Len(events) <= MaxHistory
    /\ \A t \in Threads :
          /\ thread[t].at \in {"gone", "head", "report", "exit"}
          /\ thread[t].seen \in State /\ thread[t].todo \in Seq(Events)
    /\ stopper \in [at : {"idle", "join", "joined", "told"}, of : Threads \cup {"none"},
                    was : BOOLEAN]
    /\ reader \in [after : -1 .. sequence, told : State, missed : BOOLEAN]

Init ==
    /\ world \in State
    /\ budget = MaxUpsets
    /\ running = FALSE /\ flag = FALSE /\ hurried = FALSE
    /\ current = "none"
    /\ services = Nothing
    /\ sequence = 0 /\ events = <<>>
    /\ thread = [t \in Threads |-> Gone]
    /\ stopper = [at |-> "idle", of |-> "none", was |-> FALSE]
    /\ reader = [after |-> -1, told |-> Nothing, missed |-> FALSE]

Alive(t) == thread[t].at # "gone"

-----------------------------------------------------------------------------
(* _emit and the bounded history *)

\* Faulty: a list without a limit.
AppendedAlways(e) == Append(events, e)

\* A deque drops its oldest entry when a full one is appended to.
Appended(e) ==
    LET all == Append(events, e)
    IN IF Len(all) > MaxHistory THEN Tail(all) ELSE all

Emit(e) ==
    /\ sequence' = sequence + 1
    /\ events' = Appended(e)

\* The events in the history with a number above n: the last ones.
After(n) ==
    LET count == sequence - n
    IN IF count >= Len(events) THEN events
       ELSE SubSeq(events, Len(events) - count + 1, Len(events))

-----------------------------------------------------------------------------
(* _diff_emit *)

\* Faulty: removals are not looked for.
DifferencesAdded(old, new) ==
    {e \in {[kind |-> "item", key |-> k, value |-> new[k]] : k \in {x \in Keys : old[x] # new[x]}} :
        e.value # 0}

\* Added and changed items carry what they are now, removed ones nothing.
Differences(old, new) == {[kind |-> "item", key |-> k, value |-> new[k]] :
                             k \in {x \in Keys : old[x] # new[x]}}

\* One event for each difference, then a snapshot when the first items appear.
Report(old, new) ==
    LET first == IF old = Nothing /\ new # Nothing THEN <<[kind |-> "snapshot"]>> ELSE <<>>
    IN {diff \o first : diff \in SetToSeqs(Differences(old, new))}

-----------------------------------------------------------------------------
(* start, stop *)

Outside == <<world, budget>>

\* The thread is created and "broker.started" emitted after the lock is left;
\* nothing is reported before the first discovery, which is slower.
Start ==
    /\ ~running
    /\ \E t \in Threads :
          /\ ~Alive(t)
          /\ running' = TRUE
          /\ flag' = FALSE
          /\ current' = t
          /\ thread' = [thread EXCEPT ![t] = [Gone EXCEPT !.at = "head"]]
    /\ Emit([kind |-> "started"])
    /\ hurried' = (hurried \/ stopper.at # "idle")
    /\ UNCHANGED <<Outside, services, stopper, reader>>

StopSet ==
    /\ stopper.at = "idle" /\ budget > 0
    /\ budget' = budget - 1
    /\ flag' = TRUE
    /\ stopper' = [stopper EXCEPT !.at = "join",
                      !.of = IF current # "none" /\ Alive(current) THEN current ELSE "none"]
    /\ UNCHANGED <<world, running, current, services, sequence, events, thread, reader, hurried>>

\* join returns when the thread has ended, or after join_timeout.
StopJoin ==
    /\ stopper.at = "join"
    /\ hurried' = (hurried \/ \E t \in {stopper.of} \cap Threads : Alive(t))
    /\ stopper' = [stopper EXCEPT !.at = "joined"]
    /\ UNCHANGED <<Outside, running, flag, current, services, sequence, events, thread, reader>>

StopMark ==
    /\ stopper.at = "joined"
    /\ stopper' = [stopper EXCEPT !.at = "told", !.was = running]
    /\ running' = FALSE
    /\ UNCHANGED <<Outside, flag, current, services, sequence, events, thread, reader, hurried>>

StopTell ==
    /\ stopper.at = "told"
    /\ IF stopper.was THEN Emit([kind |-> "stopped"]) ELSE UNCHANGED <<sequence, events>>
    /\ stopper' = [at |-> "idle", of |-> "none", was |-> FALSE]
    /\ UNCHANGED <<Outside, running, flag, current, services, thread, reader, hurried>>

-----------------------------------------------------------------------------
(* _run *)

\* The flag at the head of the loop; the discovery, and the comparison.
Discover(t) ==
    /\ thread[t].at = "head" /\ ~flag
    /\ \E todo \in Report(services, world) :
          thread' = [thread EXCEPT ![t] = [at |-> "report", seen |-> world, todo |-> todo]]
    /\ UNCHANGED <<Outside, running, flag, current, services, sequence, events,
                   stopper, reader, hurried>>

DiscoverFails(t) ==
    /\ thread[t].at = "head" /\ ~flag
    /\ budget > 0
    /\ budget' = budget - 1
    /\ Emit([kind |-> "error"])
    /\ thread' = [thread EXCEPT ![t] = [Gone EXCEPT !.at = "head"]]
    /\ UNCHANGED <<world, running, flag, current, services, stopper, reader, hurried>>

Tell(t) ==
    /\ thread[t].at = "report" /\ thread[t].todo # <<>>
    /\ Emit(Head(thread[t].todo))
    /\ thread' = [thread EXCEPT ![t].todo = Tail(@)]
    /\ UNCHANGED <<Outside, running, flag, current, services, stopper, reader, hurried>>

Remember(t) ==
    /\ thread[t].at = "report" /\ thread[t].todo = <<>>
    /\ services' = thread[t].seen
    /\ thread' = [thread EXCEPT ![t] = [Gone EXCEPT !.at = "head"]]
    /\ UNCHANGED <<Outside, running, flag, current, sequence, events, stopper, reader, hurried>>

\* self._stop.wait between two turns only delays: its end is the loop's head.
LeaveLoop(t) ==
    /\ thread[t].at = "head" /\ flag
    /\ thread' = [thread EXCEPT ![t].at = "exit"]
    /\ UNCHANGED <<Outside, running, flag, current, services, sequence, events,
                   stopper, reader, hurried>>

Exit(t) ==
    /\ thread[t].at = "exit"
    /\ running' = FALSE
    /\ thread' = [thread EXCEPT ![t] = Gone]
    /\ UNCHANGED <<Outside, flag, current, services, sequence, events, stopper, reader, hurried>>

Run(t) == Discover(t) \/ DiscoverFails(t) \/ Tell(t) \/ Remember(t)
          \/ LeaveLoop(t) \/ Exit(t)

-----------------------------------------------------------------------------
(* wait, and the world *)

\* What a page makes of the events it is sent, in order.
Replay(told, sent) ==
    LET last(k) == {i \in DOMAIN sent : sent[i].kind = "item" /\ sent[i].key = k}
    IN [k \in Keys |-> IF last(k) = {} THEN told[k]
                       ELSE sent[CHOOSE i \in last(k) : \A j \in last(k) : j <= i].value]

\* wait has called start (when nothing runs, Start), and answers when there is
\* something new or its time is over; the broker may have stopped by then.
\* Bound: readers are followed while the broker has one thread (see ReaderKnows).
Wait ==
    /\ sequence > 0 /\ ~hurried
    /\ LET lag == sequence - (IF reader.after < 0 THEN 0 ELSE reader.after)
       IN reader' = [after  |-> sequence,
                     told   |-> Replay(reader.told, After(reader.after)),
                     missed |-> reader.missed \/ lag > MaxHistory]
    /\ UNCHANGED <<Outside, running, flag, current, services, sequence, events,
                   thread, stopper, hurried>>

Change ==
    /\ budget > 0
    /\ \E next \in State \ {world} : world' = next
    /\ budget' = budget - 1
    /\ UNCHANGED <<running, flag, current, services, sequence, events, thread,
                   stopper, reader, hurried>>

-----------------------------------------------------------------------------

Stop == StopJoin \/ StopMark \/ StopTell

Next ==
    \/ Start \/ StopSet \/ Stop \/ Wait \/ Change
    \/ \E t \in Threads : Run(t)

\* Threads and callers go on.  Nobody has to start, stop or wait.
Fairness ==
    /\ WF_vars(Stop)
    /\ \A t \in Threads : WF_vars(Run(t))

Spec == Init /\ [][Next]_vars /\ Fairness

-----------------------------------------------------------------------------
(* Properties *)

Busy(t) == thread[t].at = "report"

\* A reader that has read everything, and never was more than the history
\* behind, has been told what the broker knows: no addition, change or removal
\* is lost or out of order, as long as the broker has one thread.
ReaderKnows ==
    reader.after = sequence /\ ~reader.missed /\ ~hurried /\ (\A t \in Threads : ~Busy(t))
        => reader.told = services

\* There is one thread, and it is marked running, unless a stop gave up on it
\* or a browser's wait started it again while stop was under way.
OneThread ==
    Cardinality({t \in Threads : Alive(t)}) > 1 => hurried
RunningTrue ==
    ~hurried /\ stopper.at = "idle" => (running = \E t \in Threads : Alive(t))
OneThreadUnlessHurried == OneThread /\ RunningTrue

\* The documentation: the broker emits events for its stop.
StopEmitted ==
    [][stopper.at # "idle" /\ stopper'.at = "idle" /\ stopper.of # "none" =>
          \E i \in DOMAIN events' : events'[i].kind = "stopped"]_vars
=============================================================================
