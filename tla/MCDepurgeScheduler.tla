------------------------- MODULE MCDepurgeScheduler -------------------------
(* Model-checking instances of DepurgeScheduler. *)
EXTENDS DepurgeScheduler, TLC

CONSTANTS k1, k2, k3

TwoKeys   == {k1, k2}
ThreeKeys == {k1, k2, k3}

KeySymmetry == Permutations(Keys)
=============================================================================
