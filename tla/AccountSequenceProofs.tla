----------------------- MODULE AccountSequenceProofs -----------------------
(***************************************************************************)
(* Proofs about AccountSequence for any number of requests, with faults    *)
(* and any number of transactions of another wallet.                       *)
(***************************************************************************)
EXTENDS AccountSequence, TLAPS

USE NoneAssumption, BoundAssumption

(* The variables keep their types: the cached sequence is a number or      *)
(* None, the lock has at most one holder.                                  *)
THEOREM TypeCorrect == Spec => []TypeOK
<1>1. Init => TypeOK
  BY DEF Init, TypeOK
<1>2. TypeOK /\ [Next]_vars => TypeOK'
  <2> SUFFICES ASSUME TypeOK, [Next]_vars PROVE TypeOK'
    OBVIOUS
  <2>1. CASE UNCHANGED vars
    BY <2>1 DEF TypeOK, vars, client, node
  <2>2. ASSUME NEW r \in Requests, Call(r) PROVE TypeOK'
    BY <2>2 DEF TypeOK, Call, Goto, node, Running, Settled
  <2>3. ASSUME NEW r \in Requests, RequestStep(r) PROVE TypeOK'
    <3>1. CASE ReserveCached(r)
      BY <3>1 DEF TypeOK, ReserveCached, Reserve, Goto, node, Running, Settled
    <3>2. CASE StartFetch(r)
      BY <3>2 DEF TypeOK, StartFetch, Goto, node, Running, Settled
    <3>3. CASE AccountQuery(r)
      BY <3>3 DEF TypeOK, AccountQuery, Goto, node, Running, Settled
    <3>4. CASE ReserveFetched(r)
      <4>1. seq[r] \in Nat /\ seq[r] + 1 \in Nat
        BY DEF TypeOK
      <4> QED
        BY <3>4, <4>1 DEF TypeOK, ReserveFetched, Reserve, Goto, node, Running, Settled
    <3>5. CASE FetchFails(r)
      BY <3>5 DEF TypeOK, FetchFails, Goto, node, Running, Settled
    <3>6. CASE CheckTx(r)
      BY <3>6 DEF TypeOK, CheckTx, Admit, Goto, Running, Settled
    <3>7. CASE Answer(r)
      BY <3>7 DEF TypeOK, Answer, Goto, node, Running, Settled
    <3>8. CASE Mismatch(r)
      BY <3>8 DEF TypeOK, Mismatch, Goto, node, Running, Settled
    <3>9. CASE ResetSequence(r)
      BY <3>9 DEF TypeOK, ResetSequence, Goto, node, Running, Settled
    <3>10. CASE Refuse(r)
      BY <3>10 DEF TypeOK, Refuse, Goto, node, Running, Settled
    <3>11. CASE LoseRequest(r)
      BY <3>11 DEF TypeOK, LoseRequest, Goto, node, Running, Settled
    <3>12. CASE LoseAnswer(r)
      BY <3>12 DEF TypeOK, LoseAnswer, Goto, node, Running, Settled
    <3> QED
      BY <2>3, <3>1, <3>2, <3>3, <3>4, <3>5, <3>6, <3>7, <3>8, <3>9, <3>10,
         <3>11, <3>12 DEF RequestStep
  <2>4. CASE Commit
    BY <2>4 DEF TypeOK, Commit, client
  <2>5. CASE OutsideTx
    BY <2>5 DEF TypeOK, OutsideTx, client
  <2> QED
    BY <2>1, <2>2, <2>3, <2>4, <2>5 DEF Next
<1> QED
  BY <1>1, <1>2, PTL DEF Spec

-----------------------------------------------------------------------------
(* The strengthening behind the reservation properties.  The holder of the *)
(* lock is the one request with a query under way; the cache is empty      *)
(* while it is, and an empty cache has handed nothing out since the reset; *)
(* a cached sequence lies above every sequence handed out.                 *)

LockInv == \A r \in Requests : pc[r] \in {"fetching", "fetched"} <=> lock = r
EmptyCacheInv == /\ lock # None => next = None
                 /\ next = None => issued = {}
CacheAboveIssued == next # None => \A s \in issued : s < next

ReservationInv == LockInv /\ EmptyCacheInv /\ CacheAboveIssued

(* The three conjuncts hold in every reachable state.                      *)
THEOREM ReservationInvariant == Spec => []ReservationInv
<1> USE DEF ReservationInv, LockInv, EmptyCacheInv, CacheAboveIssued
<1>1. Init => ReservationInv
  BY DEF Init
<1>2. TypeOK /\ ReservationInv /\ [Next]_vars => ReservationInv'
  <2> SUFFICES ASSUME TypeOK, ReservationInv, [Next]_vars PROVE ReservationInv'
    OBVIOUS
  <2>1. CASE UNCHANGED vars
    BY <2>1 DEF vars, client, node
  <2>2. ASSUME NEW r \in Requests, Call(r) PROVE ReservationInv'
    BY <2>2 DEF TypeOK, Call, Goto
  <2>3. ASSUME NEW r \in Requests, RequestStep(r) PROVE ReservationInv'
    <3>1. CASE ReserveCached(r)
      BY <3>1 DEF TypeOK, ReserveCached, Reserve, Goto
    <3>2. CASE StartFetch(r)
      BY <3>2 DEF TypeOK, StartFetch, Goto
    <3>3. CASE AccountQuery(r)
      BY <3>3 DEF TypeOK, AccountQuery, Goto
    <3>4. CASE ReserveFetched(r)
      BY <3>4 DEF TypeOK, ReserveFetched, Reserve, Goto
    <3>5. CASE FetchFails(r)
      BY <3>5 DEF TypeOK, FetchFails, Goto
    <3>6. CASE CheckTx(r)
      BY <3>6 DEF TypeOK, CheckTx, Goto
    <3>7. CASE Answer(r)
      BY <3>7 DEF TypeOK, Answer, Goto
    <3>8. CASE Mismatch(r)
      BY <3>8 DEF TypeOK, Mismatch, Goto
    <3>9. CASE ResetSequence(r)
      BY <3>9 DEF TypeOK, ResetSequence, Goto
    <3>10. CASE Refuse(r)
      BY <3>10 DEF TypeOK, Refuse, Goto
    <3>11. CASE LoseRequest(r)
      BY <3>11 DEF TypeOK, LoseRequest, Goto
    <3>12. CASE LoseAnswer(r)
      BY <3>12 DEF TypeOK, LoseAnswer, Goto
    <3> QED
      BY <2>3, <3>1, <3>2, <3>3, <3>4, <3>5, <3>6, <3>7, <3>8, <3>9, <3>10,
         <3>11, <3>12 DEF RequestStep
  <2>4. CASE Commit
    BY <2>4 DEF Commit, client
  <2>5. CASE OutsideTx
    BY <2>5 DEF OutsideTx, client
  <2> QED
    BY <2>1, <2>2, <2>3, <2>4, <2>5 DEF Next
<1> QED
  BY <1>1, <1>2, TypeCorrect, PTL DEF Spec

(* While an account query is under way its request holds the lock and the  *)
(* cache is empty: nothing it answers can replace a newer sequence.        *)
THEOREM QueryHoldsLock == Spec => []QueryAloneInLock
<1>1. TypeOK /\ ReservationInv => QueryAloneInLock
  BY DEF ReservationInv, LockInv, EmptyCacheInv, QueryAloneInLock
<1> QED
  BY <1>1, TypeCorrect, ReservationInvariant, PTL

(* Between two resets no sequence is reserved twice, for any number of     *)
(* concurrent create and cancel broadcasts.                                *)
THEOREM ReservationsFresh == Spec => FreshReservation
<1>1. TypeOK /\ ReservationInv /\ [Next]_vars =>
        [\A r \in Requests :
           pc[r] # "signed" /\ pc'[r] = "signed" => seq'[r] \notin issued]_vars
  <2> SUFFICES ASSUME TypeOK, ReservationInv, Next,
                      NEW r \in Requests, pc[r] # "signed", pc'[r] = "signed"
               PROVE  seq'[r] \notin issued
    BY DEF vars
  <2>1. Commit \/ OutsideTx => FALSE
    BY DEF Commit, OutsideTx, client
  <2>2. PICK q \in Requests : Call(q) \/ RequestStep(q)
    BY <2>1 DEF Next
  <2>3. q = r /\ (ReserveCached(r) \/ ReserveFetched(r))
    BY <2>2 DEF TypeOK, RequestStep, Goto, Call, ReserveCached, StartFetch,
       AccountQuery, ReserveFetched, FetchFails, CheckTx, Answer, Mismatch,
       ResetSequence, Refuse, LoseRequest, LoseAnswer
  <2>4. CASE ReserveCached(r)
    <3>1. seq'[r] = next /\ next \in Nat
      BY <2>4 DEF TypeOK, ReserveCached, Reserve
    <3> QED
      BY <3>1, <2>4 DEF TypeOK, ReservationInv, CacheAboveIssued, ReserveCached
  <2>5. CASE ReserveFetched(r)
    <3>1. lock = r /\ next = None
      BY <2>5 DEF TypeOK, ReservationInv, LockInv, EmptyCacheInv, ReserveFetched, Goto
    <3> QED
      BY <3>1 DEF ReservationInv, EmptyCacheInv
  <2> QED
    BY <2>3, <2>4, <2>5
<1> QED
  BY <1>1, TypeCorrect, ReservationInvariant, PTL DEF Spec, FreshReservation

-----------------------------------------------------------------------------
(* How many transactions the node has admitted for a request, by where the *)
(* request stands: the retry starts only after a refusal.                  *)
AdmissionInv ==
  \A r \in Requests :
    /\ pc[r] \in {"accepted", "done"} => admitted[r] = 1
    /\ pc[r] \notin {"accepted", "done", "unknown"} => admitted[r] = 0

(* AdmissionInv holds in every reachable state: what a request has sent    *)
(* agrees with where it stands.                                            *)
THEOREM AdmissionInvariant == Spec => []AdmissionInv
<1> USE DEF AdmissionInv
<1>1. Init => AdmissionInv
  BY DEF Init
<1>2. TypeOK /\ AdmissionInv /\ [Next]_vars => AdmissionInv'
  <2> SUFFICES ASSUME TypeOK, AdmissionInv, [Next]_vars PROVE AdmissionInv'
    OBVIOUS
  <2>1. CASE UNCHANGED vars
    BY <2>1 DEF vars, client, node
  <2>2. ASSUME NEW r \in Requests, Call(r) PROVE AdmissionInv'
    BY <2>2 DEF TypeOK, Call, Goto, node
  <2>3. ASSUME NEW r \in Requests, CheckTx(r) PROVE AdmissionInv'
    BY <2>3 DEF TypeOK, CheckTx, Admit, Goto
  <2>4. ASSUME NEW r \in Requests, RequestStep(r), ~CheckTx(r)
        PROVE  AdmissionInv'
    BY <2>4 DEF TypeOK, RequestStep, Goto, node, ReserveCached, StartFetch,
       AccountQuery, ReserveFetched, FetchFails, Answer, Mismatch,
       ResetSequence, Refuse, LoseRequest, LoseAnswer
  <2>5. CASE Commit \/ OutsideTx
    BY <2>5 DEF Commit, OutsideTx, client
  <2> QED
    BY <2>1, <2>2, <2>3, <2>4, <2>5 DEF Next
<1> QED
  BY <1>1, <1>2, TypeCorrect, PTL DEF Spec

(* The retry loop implements BroadcastOnce: at most one transaction is     *)
(* admitted for a request, and its report to the caller is true.           *)
THEOREM ImplementsPromise == Spec => ImplementsBroadcastOnce
<1> DEFINE outcomes == [r \in Requests |-> IF pc[r] \in Settled THEN pc[r] ELSE "pending"]
<1>1. Init => Promise!Init
  BY DEF Init, Promise!Init, Settled
<1>2. TypeOK /\ AdmissionInv /\ [Next]_vars => [Promise!Next]_Promise!vars
  <2> SUFFICES ASSUME TypeOK, AdmissionInv, [Next]_vars
               PROVE  Promise!Next \/ UNCHANGED <<outcomes, admitted>>
    BY DEF Promise!vars
  <2>1. CASE UNCHANGED vars \/ Commit \/ OutsideTx
    BY <2>1 DEF vars, client, node, Commit, OutsideTx
  <2>2. ASSUME NEW r \in Requests, CheckTx(r) PROVE Promise!Admit(r)
    <3>1. pc[r] = "signed" /\ pc' = [pc EXCEPT ![r] = "accepted"]
      BY <2>2 DEF CheckTx, Goto
    <3>2. outcomes[r] = "pending" /\ outcomes' = outcomes
      BY <3>1 DEF TypeOK, Settled
    <3>3. admitted[r] = 0
      BY <3>1 DEF AdmissionInv
    <3>4. admitted' = [admitted EXCEPT ![r] = 1]
      BY <2>2, <3>3 DEF CheckTx, Admit
    <3> QED
      BY <3>2, <3>3, <3>4 DEF Promise!Admit
  <2>3. ASSUME NEW r \in Requests, Answer(r) PROVE Promise!Settle(r, "done")
    BY <2>3 DEF TypeOK, AdmissionInv, Answer, Goto, node, Promise!Settle, Settled
  <2>4. ASSUME NEW r \in Requests, FetchFails(r) \/ Refuse(r)
        PROVE  Promise!Settle(r, "failed")
    BY <2>4 DEF TypeOK, AdmissionInv, FetchFails, Refuse, Goto, node,
       Promise!Settle, Settled
  <2>5. ASSUME NEW r \in Requests, LoseRequest(r) \/ LoseAnswer(r)
        PROVE  Promise!Settle(r, "unknown")
    BY <2>5 DEF TypeOK, AdmissionInv, LoseRequest, LoseAnswer, Goto, node,
       Promise!Settle, Settled
  <2>6. ASSUME NEW r \in Requests, Mismatch(r)
        PROVE  Promise!Settle(r, "failed") \/ UNCHANGED <<outcomes, admitted>>
    <3>1. CASE attempt[r] = 0
      BY <2>6, <3>1 DEF TypeOK, Mismatch, Goto, node, Settled
    <3>2. CASE attempt[r] # 0
      BY <2>6, <3>2 DEF TypeOK, AdmissionInv, Mismatch, Goto, node,
         Promise!Settle, Settled
    <3> QED
      BY <3>1, <3>2
  <2>7. ASSUME NEW r \in Requests,
               \/ Call(r) \/ ReserveCached(r) \/ StartFetch(r) \/ AccountQuery(r)
               \/ ReserveFetched(r) \/ ResetSequence(r)
        PROVE  UNCHANGED <<outcomes, admitted>>
    BY <2>7 DEF TypeOK, Call, ReserveCached, StartFetch, AccountQuery,
       ReserveFetched, ResetSequence, Goto, node, Settled
  <2> QED
    BY <2>1, <2>2, <2>3, <2>4, <2>5, <2>6, <2>7 DEF Next, RequestStep, Promise!Next
<1> QED
  BY <1>1, <1>2, TypeCorrect, AdmissionInvariant, PTL
  DEF Spec, ImplementsBroadcastOnce, Promise!Spec
=============================================================================
