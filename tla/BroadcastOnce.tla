--------------------------- MODULE BroadcastOnce ---------------------------
(***************************************************************************)
(* What broadcast_create_order and broadcast_cancel_order, with the retry  *)
(* loops around them, promise their caller.  A request is settled once.    *)
(* While it is pending the node may admit one transaction for it; a        *)
(* request reported done had its transaction admitted, and one reported    *)
(* failed had none.  A request whose answer was lost ends unknown.         *)
(***************************************************************************)
CONSTANT Requests

VARIABLES outcome, admitted

vars == <<outcome, admitted>>

Init == /\ outcome = [r \in Requests |-> "pending"]
        /\ admitted = [r \in Requests |-> 0]

Admit(r) == /\ outcome[r] = "pending"
            /\ admitted[r] = 0
            /\ admitted' = [admitted EXCEPT ![r] = 1]
            /\ UNCHANGED outcome

Settle(r, o) == /\ outcome[r] = "pending"
                /\ o = "done" => admitted[r] = 1
                /\ o = "failed" => admitted[r] = 0
                /\ outcome' = [outcome EXCEPT ![r] = o]
                /\ UNCHANGED admitted

Next == \E r \in Requests :
          Admit(r) \/ \E o \in {"done", "failed", "unknown"} : Settle(r, o)

Spec == Init /\ [][Next]_vars
=============================================================================
