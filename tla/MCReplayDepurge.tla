-------------------------- MODULE MCReplayDepurge --------------------------
(* Instances of ReplayDepurge for TLC. *)
EXTENDS ReplayDepurge, TLC

CONSTANTS k1, k2,  \* keys
          p1       \* a transaction whose pre-execution failed

TwoKeys     == {k1, k2}
OneFailed   == {p1}
OneBlock    == <<2>>
UnevenBlocks == <<3, 1>>
AnyClaim    == SUBSET Keys
AnyReal     == (SUBSET Keys) \X (SUBSET Keys)
SomeClaims  == {{k1}, {k2}, {k1, k2}}
SomeReals   == {<<{k1}, {k1}>>, <<{k1}, {}>>, <<{k2}, {k2}>>, <<{k1}, {k2}>>}
KeySymmetry == Permutations(TwoKeys)
=============================================================================
