------------------------------ MODULE LabQueue ------------------------------
(***************************************************************************)
(* What the distributed lab promises about each accepted job, with no      *)
(* store, controller, network or agent: it is handed to its agent at most  *)
(* once, started at most once and only after it was handed over, and never *)
(* handed over once it was withdrawn.                                      *)
(***************************************************************************)
CONSTANT Jobs

VARIABLE stage   \* stage[j]: how far job j has come

Stages == {"unknown", "waiting", "handed", "started", "closed"}

LabQueueTypeOK == stage \in [Jobs -> Stages]

Init == stage = [j \in Jobs |-> "unknown"]

Move(j, from, to) == stage[j] \in from /\ stage' = [stage EXCEPT ![j] = to]

Accept(j) == Move(j, {"unknown"}, "waiting")
Hand(j)   == Move(j, {"waiting"}, "handed")
Run(j)    == Move(j, {"handed"}, "started")
\* Cancelled, denied at delivery, refused by the agent, or lost on the way.
Close(j)  == Move(j, {"waiting", "handed"}, "closed")

Next == \E j \in Jobs : Accept(j) \/ Hand(j) \/ Run(j) \/ Close(j)

Spec == Init /\ [][Next]_stage
=============================================================================
