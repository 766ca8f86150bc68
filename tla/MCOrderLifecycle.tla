-------------------------- MODULE MCOrderLifecycle --------------------------
(* Instances of OrderLifecycle for TLC. *)
EXTENDS OrderLifecycle, TLC

CONSTANTS o1, o2, s1, s2

OneOrder == {o1}
TwoOrders == {o1, o2}
OneSpec == o1 :> s1
SameSpecs == o1 :> s1 @@ o2 :> s1
DistinctSpecs == o1 :> s1 @@ o2 :> s2
OneCancel == [o \in Orders |-> IF o = o1 THEN 1 ELSE 0]
OneEach == [o \in Orders |-> 1]
TwoCancels == [o \in Orders |-> 2]
NoForeign == <<>>
ForeignTwin == <<s1>>
NewOtherSpec == {s2}
=============================================================================
