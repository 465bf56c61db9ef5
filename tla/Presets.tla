------------------------------- MODULE Presets ------------------------------
(***************************************************************************)
(* The saved presets of the web dashboard: the table that presetstore371   *)
(* adds to the identity database and the handlers of webpresets371.  The   *)
(* handlers of one server never interleave (they await nothing); servers   *)
(* that share the database do.                                             *)
(*                                                                         *)
(* A save is two steps: the transaction, which takes the write lock before *)
(* it reads, and the list read afterwards, in which the saved preset is    *)
(* looked up by its id.                                                    *)
(***************************************************************************)
EXTENDS Naturals, FiniteSets

CONSTANTS Servers,     \* server processes on one database
          Scopes,      \* pairs of a user and a workspace of theirs
          Names,       \* preset names, up to case and spacing
          Ids,
          Fields,      \* the fields of the operation a preset is for
          Secret,      \* those whose type is secret
          Limit,       \* presets of one scope: 100 in the code
          MaxStamp     \* bound: readings of the clock, which may be set back

\* Assumed by the modules that give the constants values.
PresetsAssumption ==
    /\ Secret \subseteq Fields /\ Limit \in Nat \ {0} /\ MaxStamp \in Nat
    /\ "none" \notin Scopes \cup Ids

VARIABLES preset,   \* auth_presets: by id
          request   \* the request each server is in, or the last one

presetVars == <<preset, request>>

NoPreset == [scope |-> "none"]
\* touched: another server has since written the row to be read back.
NoRequest == [at |-> "idle", id |-> "none", scope |-> "none", touched |-> FALSE,
              answer |-> "none"]

\* What a client may send: for each field of the operation, and one that is
\* not, a value or nothing.  (A known field that is null counts as not sent.)
Sendable == [Fields \cup {"unknown"} -> {"good", "bad", "nothing"}]

Row(scope, name, payload, stamp) ==
    [scope |-> scope, name |-> name, payload |-> payload, stamp |-> stamp]

TypeOK ==
    /\ preset \in [Ids -> {NoPreset} \cup
          [scope : Scopes, name : Names, payload : SUBSET Fields, stamp : 0 .. MaxStamp]]
    /\ request \in [Servers ->
          [at : {"idle", "read"}, id : Ids \cup {"none"}, scope : Scopes \cup {"none"},
           touched : BOOLEAN, answer : {"none", "saved", "deleted", "422", "404", "500"}]]

Init ==
    /\ preset = [i \in Ids |-> NoPreset]
    /\ request = [s \in Servers |-> NoRequest]

In(scope) == {i \in Ids : preset[i].scope = scope}

\* _sanitize_payload: a secret is left out before its value is looked at.
Sanitized(sent) == {f \in Fields \ Secret : sent[f] # "nothing"}
Acceptable(sent) ==
    /\ sent["unknown"] = "nothing"
    /\ \A f \in Fields \ Secret : sent[f] # "bad"

\* list_presets: the newest first, cut at the limit; rows of one stamp in any
\* order.
Listed(scope) ==
    {S \in SUBSET In(scope) :
       /\ S = In(scope) \/ Cardinality(S) = Limit
       /\ Cardinality(S) <= Limit
       /\ \A i \in S, j \in In(scope) \ S : preset[i].stamp >= preset[j].stamp}

Answer(s, a) == request' = [request EXCEPT ![s] = [NoRequest EXCEPT !.answer = a]]

-----------------------------------------------------------------------------

\* A committed write to a row another server is about to read back.
Touch(s, i, own) ==
    request' = [t \in Servers |->
        IF t = s THEN own
        ELSE IF request[t].at = "read" /\ request[t].id = i
             THEN [request[t] EXCEPT !.touched = TRUE] ELSE request[t]]

Refused(s, scope, name, sent) ==
    /\ request[s].at = "idle"
    /\ \/ ~Acceptable(sent)
       \/ Cardinality(In(scope)) >= Limit /\ \A i \in In(scope) : preset[i].name # name
    /\ Answer(s, "422")
    /\ UNCHANGED preset

\* The row of the name, or a new id, which is never one used before.
Target(scope, name) ==
    LET same == {i \in In(scope) : preset[i].name = name}
    IN  IF same # {} THEN same
        ELSE {i \in Ids : preset[i] = NoPreset /\ \A s \in Servers : request[s].id # i}

\* Faulty: the limit is off by one.
RoomAbove(scope, i) == i \in In(scope) \/ Cardinality(In(scope)) <= Limit

Room(scope, i) == i \in In(scope) \/ Cardinality(In(scope)) < Limit

\* The transaction of upsert_preset.
Upsert(s, scope, name, sent, i, stamp) ==
    /\ request[s].at = "idle"
    /\ Acceptable(sent)
    /\ i \in Target(scope, name) /\ Room(scope, i)
    /\ preset' = [preset EXCEPT ![i] = Row(scope, name, Sanitized(sent), stamp)]
    /\ Touch(s, i, [NoRequest EXCEPT !.at = "read", !.id = i, !.scope = scope])

\* list_presets, and next() over what it returns, which a StopIteration ends
\* when the id is not there: in a coroutine a RuntimeError, and a 500.
ReadBack(s) ==
    /\ request[s].at = "read"
    /\ \E listed \in Listed(request[s].scope) :
          Answer(s, IF request[s].id \in listed THEN "saved" ELSE "500")
    /\ UNCHANGED preset

Delete(s, scope, i) ==
    /\ request[s].at = "idle"
    /\ IF i \in In(scope)
       THEN /\ preset' = [preset EXCEPT ![i] = NoPreset]
            /\ Touch(s, i, [NoRequest EXCEPT !.answer = "deleted"])
       ELSE Answer(s, "404") /\ UNCHANGED preset

Serve(s) ==
    \/ \E scope \in Scopes, name \in Names, sent \in Sendable :
          \/ Refused(s, scope, name, sent)
          \/ \E i \in Ids, stamp \in 0 .. MaxStamp : Upsert(s, scope, name, sent, i, stamp)
    \/ ReadBack(s)
    \/ \E scope \in Scopes, i \in Ids : Delete(s, scope, i)

Next == \E s \in Servers : Serve(s)

-----------------------------------------------------------------------------
(* Properties *)

\* A preset that was saved is found again by the request that saved it, unless
\* another server wrote its row meanwhile: the limit of the list never hides
\* it, whatever the clock says.
SaveFindsItsRow ==
    [][\A s \in Servers :
         request[s].at = "read" /\ request'[s].at = "idle" /\ ~request[s].touched
             => request'[s].answer = "saved"]_presetVars

\* No secret field reaches the table, whatever a client sends
\* (docs/WEB_UI.md:67).
NoSecretStored == \A i \in Ids : preset[i] # NoPreset => preset[i].payload \cap Secret = {}
=============================================================================
