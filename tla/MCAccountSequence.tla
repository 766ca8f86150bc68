------------------------- MODULE MCAccountSequence -------------------------
(* Instances of AccountSequence for TLC. *)
EXTENDS AccountSequence

CONSTANTS r1, r2, r3

TwoRequests == {r1, r2}
ThreeRequests == {r1, r2, r3}
=============================================================================
