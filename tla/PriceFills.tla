----------------------------- MODULE PriceFills -----------------------------
(***************************************************************************)
(* What the polls of the trade history promise the rest of the connector.  *)
(* Trades name accounts, not orders: an order may be credited with any     *)
(* trade of the account at its side and price.  But what it was credited   *)
(* with is never taken back, and never more than the account traded there. *)
(***************************************************************************)
EXTENDS Naturals

CONSTANTS Orders, Buckets, BucketOf, Sizes

VARIABLES
  traded,     \* by the account, at each side and price
  executed    \* executed_amount_base of each order

vars == <<traded, executed>>

Init == /\ traded = [b \in Buckets |-> 0]
        /\ executed = [o \in Orders |-> 0]

Trade(b, n) == /\ traded' = [traded EXCEPT ![b] = @ + n]
               /\ UNCHANGED executed

(* One poll may credit several orders. *)
Credit == /\ executed' \in [Orders -> Nat]
          /\ \A o \in Orders : executed'[o] \in executed[o]..traded[BucketOf[o]]
          /\ UNCHANGED traded

Next == Credit \/ \E b \in Buckets, n \in Sizes : Trade(b, n)

Spec == Init /\ [][Next]_vars
=============================================================================
