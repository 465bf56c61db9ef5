----------------------------- MODULE MCAsyncProc -----------------------------
(* Instances of AsyncProc for TLC: the event loop turns, and a slot that is   *)
(* free goes to a call that waits for it.                                     *)
EXTENDS AsyncProc

FairSpec == Spec /\ \A c \in Calls : WF_vars(Acquire(c)) /\ WF_vars(Loop(c))
=============================================================================
