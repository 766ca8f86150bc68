-------------------------- MODULE AccountSequence --------------------------
(***************************************************************************)
(* How concurrent create and cancel broadcasts share the sequence number   *)
(* of one chain account.  A request is one call of _place_order or         *)
(* _place_cancel from its retry loop on.  It reserves a sequence under     *)
(* _account_info_lock, signs, posts after the lock is released, and on a   *)
(* mismatch resets the cache and tries once more.                          *)
(*                                                                         *)
(* The node is external: it checks a posted transaction against the        *)
(* committed sequence plus what its mempool holds, while an account query  *)
(* reads the committed sequence only.                                      *)
(***************************************************************************)
EXTENDS Naturals, FiniteSets

CONSTANTS
  Requests,    \* the create and cancel broadcasts of one session
  None,        \* no cached sequence, and nobody in the lock
  MaxOutside,  \* bound: transactions another wallet sends from this account
  Faults       \* whether the network and the node may fail a request

ASSUME NoneAssumption == None \notin Nat /\ None \notin Requests
ASSUME BoundAssumption == MaxOutside \in Nat /\ Faults \in BOOLEAN

VARIABLES
  next,       \* _next_account_sequence (with _cached_account_number)
  lock,       \* the holder of _account_info_lock across an await
  pc,         \* where each request stands
  attempt,    \* the loop variable of the retry loop
  seq,        \* the sequence each request signs with
  issued,     \* history: sequences handed out since the last reset
  committed,  \* the account's sequence in the node's committed state
  mempool,    \* how many of the account's transactions wait in the mempool
  admitted,   \* history: transactions admitted for each request
  outside     \* how many transactions the other wallet sent

client == <<next, lock, pc, attempt, seq, issued>>
node == <<committed, mempool, admitted, outside>>
vars == <<client, node>>

Running == {"acquire", "fetching", "fetched", "signed", "accepted", "resetting"}
Settled == {"done", "failed", "unknown"}

TypeOK == /\ next \in Nat \cup {None}
          /\ lock \in Requests \cup {None}
          /\ pc \in [Requests -> Running \cup Settled \cup {"idle"}]
          /\ attempt \in [Requests -> 0..1]
          /\ seq \in [Requests -> Nat]
          /\ issued \subseteq Nat
          /\ committed \in Nat
          /\ mempool \in Nat
          /\ admitted \in [Requests -> Nat]
          /\ outside \in 0..MaxOutside

Init == /\ next = None
        /\ lock = None
        /\ pc = [r \in Requests |-> "idle"]
        /\ attempt = [r \in Requests |-> 0]
        /\ seq = [r \in Requests |-> 0]
        /\ issued = {}
        /\ committed = 0
        /\ mempool = 0
        /\ admitted = [r \in Requests |-> 0]
        /\ outside = 0

Goto(r, from, to) == /\ pc[r] = from
                     /\ pc' = [pc EXCEPT ![r] = to]

(* The strategy asks for an order or a cancel; the request reaches the     *)
(* first pass of the loop.                                                 *)
Call(r) == /\ Goto(r, "idle", "acquire")
           /\ UNCHANGED <<next, lock, attempt, seq, issued, node>>

(* Mutant: the cache keeps the sequence it has just handed out.            *)
ReserveSame(r, s) == /\ seq' = [seq EXCEPT ![r] = s]
                     /\ next' = s
                     /\ issued' = issued \cup {s}

Reserve(r, s) == /\ seq' = [seq EXCEPT ![r] = s]
                 /\ next' = s + 1
                 /\ issued' = issued \cup {s}

(* reserve_account_info_sequence with a cached sequence: no await between  *)
(* taking and releasing the lock.                                          *)
ReserveCached(r) == /\ lock = None
                    /\ next # None
                    /\ Goto(r, "acquire", "signed")
                    /\ Reserve(r, next)
                    /\ UNCHANGED <<lock, attempt, node>>

(* Mutant: the account is requested without the lock.                      *)
FetchUnlocked(r) == /\ next = None
                    /\ Goto(r, "acquire", "fetching")
                    /\ UNCHANGED <<next, lock, attempt, seq, issued, node>>

(* Nothing is cached: the account is requested with the lock held.         *)
StartFetch(r) == /\ lock = None
                 /\ next = None
                 /\ Goto(r, "acquire", "fetching")
                 /\ lock' = r
                 /\ UNCHANGED <<next, attempt, seq, issued, node>>

(* The node answers the query; the answer travels in seq[r].               *)
AccountQuery(r) == /\ Goto(r, "fetching", "fetched")
                   /\ seq' = [seq EXCEPT ![r] = committed]
                   /\ UNCHANGED <<next, lock, attempt, issued, node>>

ReserveFetched(r) == /\ Goto(r, "fetched", "signed")
                     /\ Reserve(r, seq[r])
                     /\ lock' = None
                     /\ UNCHANGED <<attempt, node>>

(* Mutant: the exception leaves the lock taken.                            *)
FetchFailsLocked(r) == /\ Faults
                       /\ Goto(r, "fetching", "failed")
                       /\ UNCHANGED <<next, lock, attempt, seq, issued, node>>

(* The account request raises: the lock is released on the way out and     *)
(* the exception leaves the broadcast.                                     *)
FetchFails(r) == /\ Faults
                 /\ Goto(r, "fetching", "failed")
                 /\ lock' = None
                 /\ UNCHANGED <<next, attempt, seq, issued, node>>

-----------------------------------------------------------------------------
(* The node's check of a posted transaction and what the loop makes of it. *)

CheckSequence == committed + mempool

Admit(r) == /\ admitted' = [admitted EXCEPT ![r] = @ + 1]
            /\ mempool' = mempool + 1
            /\ UNCHANGED <<committed, outside>>

CheckTx(r) == /\ seq[r] = CheckSequence
              /\ Goto(r, "signed", "accepted")
              /\ Admit(r)
              /\ UNCHANGED <<next, lock, attempt, seq, issued>>

Answer(r) == /\ Goto(r, "accepted", "done")
             /\ UNCHANGED <<next, lock, attempt, seq, issued, node>>

(* Mutant: the pass is counted before it is looked at.                     *)
MismatchCounted(r) == /\ seq[r] # CheckSequence
                      /\ Goto(r, "signed", IF attempt[r] = 0 THEN "resetting" ELSE "failed")
                      /\ attempt' = [attempt EXCEPT ![r] = @ + 1]
                      /\ UNCHANGED <<next, lock, seq, issued, node>>

(* "account sequence mismatch": reset and retry on the first pass, raise   *)
(* on the second.                                                          *)
Mismatch(r) == /\ seq[r] # CheckSequence
               /\ Goto(r, "signed", IF attempt[r] = 0 THEN "resetting" ELSE "failed")
               /\ UNCHANGED <<next, lock, attempt, seq, issued, node>>

ResetSequence(r) == /\ lock = None
                    /\ Goto(r, "resetting", "acquire")
                    /\ next' = None
                    /\ issued' = {}
                    /\ attempt' = [attempt EXCEPT ![r] = 1]
                    /\ UNCHANGED <<lock, seq, node>>

(* The node refuses the transaction for another reason: the loop raises.   *)
Refuse(r) == /\ Faults
             /\ Goto(r, "signed", "failed")
             /\ UNCHANGED <<next, lock, attempt, seq, issued, node>>

(* The request or its answer is lost and _request raises: the caller       *)
(* cannot tell which.                                                      *)
LoseRequest(r) == /\ Faults
                  /\ Goto(r, "signed", "unknown")
                  /\ UNCHANGED <<next, lock, attempt, seq, issued, node>>

(* Mutant: a lost answer is retried like a mismatch.                       *)
RetryLostAnswer(r) == /\ Faults
                      /\ attempt[r] = 0
                      /\ Goto(r, "accepted", "resetting")
                      /\ UNCHANGED <<next, lock, attempt, seq, issued, node>>

LoseAnswer(r) == /\ Faults
                 /\ Goto(r, "accepted", "unknown")
                 /\ UNCHANGED <<next, lock, attempt, seq, issued, node>>

-----------------------------------------------------------------------------
(* The node on its own: a block takes a prefix of the mempool; another     *)
(* wallet uses the account.                                                *)

Commit == \E n \in 1..mempool :
            /\ committed' = committed + n
            /\ mempool' = mempool - n
            /\ UNCHANGED <<admitted, outside, client>>

OutsideTx == /\ outside < MaxOutside
             /\ outside' = outside + 1
             /\ mempool' = mempool + 1
             /\ UNCHANGED <<committed, admitted, client>>

RequestStep(r) == \/ ReserveCached(r) \/ StartFetch(r)
                  \/ AccountQuery(r) \/ ReserveFetched(r) \/ FetchFails(r)
                  \/ CheckTx(r) \/ Answer(r) \/ Mismatch(r) \/ ResetSequence(r)
                  \/ Refuse(r) \/ LoseRequest(r) \/ LoseAnswer(r)

Next == \/ \E r \in Requests : Call(r) \/ RequestStep(r)
        \/ Commit
        \/ OutsideTx

Spec == Init /\ [][Next]_vars

(* A started request is driven by the event loop, and the HTTP client ends *)
(* each of its calls with an answer or an exception.  No fairness is       *)
(* assumed of the chain: blocks may stop.                                  *)
FairSpec == Spec /\ \A r \in Requests : WF_vars(RequestStep(r))

-----------------------------------------------------------------------------
(* No sequence is handed out twice between two resets, however the         *)
(* reservations of concurrent requests, their fetches and the resets of    *)
(* requests that met a mismatch interleave: what _account_info_lock is     *)
(* for.                                                                    *)
FreshReservation ==
  [][\A r \in Requests :
       pc[r] # "signed" /\ pc'[r] = "signed" => seq'[r] \notin issued]_vars

(* Once an account query has been answered and while the cached sequence   *)
(* awaits its reservation, no request holds a sequence from the cache that *)
(* the answer would replace: the lock covers the query as well as the      *)
(* write of the cache.                                                     *)
QueryAloneInLock ==
  \A r \in Requests :
    pc[r] \in {"fetching", "fetched"} => lock = r /\ next = None /\ issued = {}

(* A request settles at most once, has at most one transaction admitted    *)
(* for it in spite of the retry, is reported done only when that           *)
(* transaction was admitted, and raises a refusal only when none was.      *)
Promise == INSTANCE BroadcastOnce WITH
             outcome <- [r \in Requests |->
                           IF pc[r] \in Settled THEN pc[r] ELSE "pending"]
ImplementsBroadcastOnce == Promise!Spec

(* Every broadcast that starts ends, with the lock free for the next one:  *)
(* the single retry cannot turn into a livelock of requests that reset one *)
(* another's sequence, and a failed account query does not keep the lock.  *)
EveryBroadcastSettles ==
  \A r \in Requests : pc[r] = "acquire" ~> (pc[r] \in Settled /\ lock # r)

(* CHANGELOG: sequence handling fixed "for concurrent order and cancel     *)
(* transactions".  With no fault and no other wallet, no request is given  *)
(* up because of another one's sequence.                                   *)
ConcurrentBroadcastsAdmitted == \A r \in Requests : pc[r] # "failed"
=============================================================================
