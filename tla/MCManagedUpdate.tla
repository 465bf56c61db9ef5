--------------------------- MODULE MCManagedUpdate ---------------------------
(* Instances of ManagedUpdate for TLC: three builds, the last two of one      *)
(* version, as a hotfix reinstalled by `update force` is.                     *)
EXTENDS ManagedUpdate, TLC

CONSTANTS b1, b2, b3

MCVersionOf == b1 :> 1 @@ b2 :> 2 @@ b3 :> 2
=============================================================================
