--------------------------- MODULE InventoryWatch ---------------------------
(* Inventory states of a device and the watch that follows them              *)
(* (service340.py, core/storage340.py, core/diffing.py).  A capture reads    *)
(* the device in two parts, stamps and inserts the state, and prunes: three  *)
(* transactions apart.  A watch captures again and again and, when the       *)
(* digest moved, reads its previous and its current state back by their ids, *)
(* which a prune of anybody may have deleted.  Every command of adb and every *)
(* transaction may raise, which ends the call it is in.                      *)
EXTENDS Integers, FiniteSets, Sequences

CONSTANTS
    Devices,      \* device serials
    Captures,     \* single captures that callers make
    Watches,      \* watches
    Values,       \* what a part of a device's inventory can be
    Retention,    \* the keep argument of a capture
    MaxRows,      \* bound: states captured
    MaxChanges,   \* bound: changes of the devices
    MaxReports    \* bound: changes one watch reports

InventoryAssumption ==
    /\ Captures \cap Watches = {}
    /\ Retention \in Nat \ {0} /\ MaxRows \in Nat
    /\ MaxChanges \in Nat /\ MaxReports \in Nat

VARIABLES
    device,   \* device -> its users and packages now
    stamps,   \* created_at times given out so far
    rows,     \* the inventory_states table
    made,     \* every row that was ever inserted
    changes,  \* changes of the devices so far
    call      \* capture or watch -> its locals

inventoryVars == <<device, stamps, rows, made, changes, call>>

Calls == Captures \cup Watches
Inventories == [users: Values, packages: Values]
None == [id |-> 0]
Rows == [id: 1 .. MaxRows, device: Devices, inventory: Inventories]

Idle == [pc |-> "idle", device |-> None, seen |-> None, previous |-> None,
         current |-> None, left |-> None, reports |-> <<>>]

Init ==
    /\ device \in [Devices -> [users: Values, packages: Values]]
    /\ stamps = 0 /\ rows = {} /\ made = {} /\ changes = 0
    /\ call = [c \in Calls |-> Idle]

At(c, pc) == call[c].pc = pc

(* A row's id stands for its created_at too.                                 *)
Newest(table, d, n) ==
    {r \in table : r.device = d
                   /\ Cardinality({o \in table : o.device = d /\ o.id > r.id}) < n}

Max2(n) == IF n < 2 THEN 2 ELSE n

(* A prune that forgets to go device by device.                              *)
PruneAcross(table) ==
    {r \in table : Cardinality({o \in table : o.id > r.id}) < Max2(Retention)}

(* prune_inventory_states: of every device the newest keep states stay, and  *)
(* never fewer than two.                                                     *)
Prune(table) == UNION {Newest(table, d, Max2(Retention)) : d \in Devices}

(* The packages or the users of a device change by themselves.               *)
Change(d) ==
    /\ changes < MaxChanges
    /\ changes' = changes + 1
    /\ \E i \in Inventories \ {device[d]} : device' = [device EXCEPT ![d] = i]
    /\ UNCHANGED <<stamps, rows, made, call>>

Begin(c) ==
    /\ At(c, "idle")
    /\ \E d \in Devices :
          call' = [call EXCEPT ![c].pc = "users", ![c].device = d]
    /\ UNCHANGED <<device, stamps, rows, made, changes>>

(* inventory: the users are listed first, the packages after them.           *)
ListUsers(c) ==
    /\ At(c, "users")
    /\ call' = [call EXCEPT ![c].pc = "packages",
                            ![c].seen = [users |-> device[call[c].device].users]]
    /\ UNCHANGED <<device, stamps, rows, made, changes>>

ListPackages(c) ==
    /\ At(c, "packages") /\ stamps < MaxRows
    /\ stamps' = stamps + 1
    /\ call' = [call EXCEPT
          ![c].pc = "insert", ![c].seen = None,
          ![c].current = [id |-> stamps + 1, device |-> call[c].device,
                          inventory |-> [users |-> call[c].seen.users,
                                         packages |-> device[call[c].device].packages]]]
    /\ UNCHANGED <<device, rows, made, changes>>

(* save_inventory_state: created_at is taken before the transaction.         *)
Save(c) ==
    /\ At(c, "insert")
    /\ rows' = rows \cup {call[c].current}
    /\ made' = made \cup {call[c].current}
    /\ call' = [call EXCEPT ![c].pc = "prune"]
    /\ UNCHANGED <<device, stamps, changes>>

(* The prune ends a capture; a watch's first one is its baseline, a later    *)
(* one is compared by its digest, which leaves the time out.                 *)
AfterCapture(l) ==
    IF l.previous = None
    THEN [l EXCEPT !.pc = "sleep", !.previous = l.current, !.current = None]
    ELSE IF l.current.inventory = l.previous.inventory
         THEN [l EXCEPT !.pc = "sleep", !.current = None]
         ELSE [l EXCEPT !.pc = "left"]

EndCapture(c) ==
    /\ At(c, "prune")
    /\ rows' = Prune(rows)
    /\ call' = [call EXCEPT ![c] = IF c \in Watches THEN AfterCapture(@)
                                   ELSE [@ EXCEPT !.pc = "done"]]
    /\ UNCHANGED <<device, stamps, made, changes>>

(* The watch sleeps, and ends when its duration is over.                     *)
Wake(c) ==
    /\ c \in Watches /\ At(c, "sleep") /\ Len(call[c].reports) < MaxReports
    /\ call' = [call EXCEPT ![c].pc = "users"]
    /\ UNCHANGED <<device, stamps, rows, made, changes>>

Over(c) ==
    /\ At(c, "sleep")
    /\ call' = [call EXCEPT ![c].pc = "done"]
    /\ UNCHANGED <<device, stamps, rows, made, changes>>

(* get_inventory_state raises KeyError when there is no such row: the watch  *)
(* ends, and a web job's list of its events is lost with it.                 *)
ReadBack(c, row, pc) ==
    call' = [call EXCEPT ![c].pc = IF row \in rows THEN pc ELSE "failed",
                         ![c].left = IF row \in rows THEN row ELSE None]

ReadLeft(c) ==
    /\ At(c, "left")
    /\ ReadBack(c, call[c].previous, "right")
    /\ UNCHANGED <<device, stamps, rows, made, changes>>

(* inventory_diff names what was added, removed and changed.                 *)
DiffValues(left, right) == [from |-> left.inventory, to |-> right.inventory]

(* A command of adb fails, or the database does: the transaction it was in   *)
(* changed nothing, nobody catches the exception and the locals are lost.    *)
Raise(c) ==
    /\ call[c].pc \in {"users", "packages", "insert", "prune", "left", "right"}
    /\ call' = [call EXCEPT ![c] = [Idle EXCEPT !.pc = "raised"]]
    /\ UNCHANGED <<device, stamps, rows, made, changes>>

(* A watch that compares with its baseline for ever.                         *)
StayAtBaseline(l) == [l EXCEPT !.pc = "sleep", !.current = None, !.left = None]

(* The watch goes on from the state it has just reported.                    *)
Advance(l) == [l EXCEPT !.pc = "sleep", !.previous = l.current,
                        !.current = None, !.left = None]

Report(c) ==
    /\ At(c, "right")
    /\ LET l == call[c] IN
       IF l.current \in rows
       THEN call' = [call EXCEPT ![c] =
               Advance([l EXCEPT !.reports =
                           Append(@, DiffValues(l.left, l.current))])]
       ELSE call' = [call EXCEPT ![c].pc = "failed"]
    /\ UNCHANGED <<device, stamps, rows, made, changes>>

Next ==
    \/ \E d \in Devices : Change(d)
    \/ \E c \in Calls :
          \/ Begin(c) \/ ListUsers(c) \/ ListPackages(c) \/ Save(c)
          \/ EndCapture(c) \/ Wake(c) \/ Over(c) \/ ReadLeft(c) \/ Report(c)
          \/ Raise(c)

-----------------------------------------------------------------------------

TypeOK ==
    /\ device \in [Devices -> Inventories]
    /\ rows \subseteq made /\ made \subseteq Rows
    /\ changes \in 0 .. MaxChanges /\ stamps \in 0 .. MaxRows
    /\ \A c \in Calls :
          /\ call[c].pc \in {"idle", "users", "packages", "insert", "prune",
                             "sleep", "left", "right", "done", "failed", "raised"}
          /\ {call[c].previous, call[c].left} \subseteq made \cup {None}
          /\ call[c].current \in Rows \cup {None}

(* A watch whose own commands and transactions succeed misses a state it     *)
(* compares with only because other captures of the same device, at least as *)
(* many as are kept, came after it, although a capture that raised may have  *)
(* left its state and not pruned: retention is never what a quiet device's   *)
(* watch dies of.                                                            *)
FailsOnlyWhenCrowded ==
    \A w \in Watches : At(w, "failed") =>
        \E r \in {call[w].previous, call[w].current} :
            Cardinality({o \in made : o.device = call[w].device /\ o.id > r.id})
                >= Retention

(* What a watch reports adds up: every change starts at the state the one    *)
(* before it ended in, and between two captures the last one ends in the     *)
(* watch's latest state.                                                     *)
ReportsCompose ==
    \A w \in Watches : LET s == call[w].reports IN
        /\ \A i \in 1 .. Len(s) - 1 : s[i].to = s[i + 1].from
        /\ At(w, "sleep") /\ s # <<>> => s[Len(s)].to = call[w].previous.inventory
=============================================================================
