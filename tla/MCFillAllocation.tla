-------------------------- MODULE MCFillAllocation --------------------------
(* Instances of FillAllocation for TLC. *)
EXTENDS FillAllocation

TwoOrders == {1, 2}
OneBucket == {"bid"}
SameBucket == [o \in Orders |-> "bid"]
TwoLots == [o \in Orders |-> 2]
=============================================================================
