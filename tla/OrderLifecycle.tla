--------------------------- MODULE OrderLifecycle ---------------------------
(***************************************************************************)
(* From placing an order to its terminal state: _place_order,              *)
(* _place_cancel and _request_order_status, interleaved at their awaits,   *)
(* with the chain they observe.                                            *)
(*                                                                         *)
(* A create transaction does not tell the id its order gets on the chain.  *)
(* The connector guesses it: an open order of the account, not there       *)
(* before the create and not claimed by another tracked order, that looks  *)
(* like the order placed.  Until then the transaction's hash stands in for *)
(* the id.                                                                 *)
(*                                                                         *)
(* External: the chain, and Hummingbot's tracker, which applies order and  *)
(* trade updates to the tracked orders and starts polls and cancels.       *)
(***************************************************************************)
EXTENDS Naturals, Sequences, FiniteSets, FiniteSetsExt

CONSTANTS
  Orders,       \* client orders
  Poll, Other,  \* the status poller; another client of the same account
  SpecOf,       \* price of each order; market, side and amount are the same
  Amount,       \* every order's amount, in lots
  Foreign,      \* prices of the orders Other has on the book at time 0
  NewForeign,   \* bound: prices of orders Other may still place, one each
  StartTime, MaxTime,  \* bounds of the clock
  Tolerance,    \* ORDER_ID_RECOVERY_TIME_TOLERANCE
  MaxCancels,   \* bound: cancel transactions of each order
  MaxRestarts,  \* bound: restarts of the connector
  ReplaceId,    \* whether an update may replace a known id: its choices
  Faults        \* whether requests may fail and cancels be refused

ASSUME LifecycleAssumption ==
  /\ Poll \notin Orders /\ Other \notin Orders
  /\ Len(Foreign) \in Nat /\ DOMAIN Foreign = 1..Len(Foreign)
  /\ Amount \in Nat \ {0}
  /\ StartTime \in Nat /\ MaxTime \in Nat /\ Tolerance \in Nat
  /\ MaxCancels \in [Orders -> Nat] /\ MaxRestarts \in Nat
  /\ ReplaceId \subseteq BOOLEAN /\ ReplaceId # {} /\ Faults \in BOOLEAN

VARIABLES
  book,        \* chain: orders by id (index): owner, price (spec), amounts, time
  txs,         \* chain: per order its create (1) and its cancels (2, ...)
  mempool,     \* chain: admitted transactions <<order, index>>, in order
  now,
  ost,         \* tracker: state of each order ("none" before it is placed)
  exId,        \* tracker: exchange_order_id, a native id or a hash
  executed,    \* tracker: executed_amount_base
  createdAt,   \* tracker: creation_timestamp
  announced,   \* history: whether an order-created event was fired
  createHash,  \* _creation_tx_hashes (0: no entry)
  cancelHash,  \* _cancel_tx_hashes (0: no entry)
  hasSpec,     \* _create_order_specs has an entry
  preIds,      \* _pre_create_order_ids
  place,       \* where _place_order stands
  req,         \* status requests: the poller's, and one per cancel task
  restarts

chain == <<book, txs, mempool>>
tracker == <<ost, exId, executed, createdAt, announced>>
memory == <<createHash, cancelHash, hasSpec, preIds>>
vars == <<chain, now, tracker, memory, place, req, restarts>>

Callers == Orders \cup {Poll}
Active == {"PENDING_CREATE", "OPEN", "PARTIALLY_FILLED", "PENDING_CANCEL"}
Terminal == {"CANCELED", "FILLED", "FAILED"}

NoId == [kind |-> "none", n |-> 0]
Hash(n) == [kind |-> "tx", n |-> n]
NativeId(i) == [kind |-> "id", n |-> i]

Idle == [pc |-> "idle", ord |-> Other, refs |-> {}, cands |-> {}, matches |-> {},
         recovered |-> FALSE, create |-> 0, cancel |-> 0, tx |-> 0, target |-> 0]

Specs == {SpecOf[o] : o \in Orders} \cup {Foreign[k] : k \in DOMAIN Foreign} \cup NewForeign

MarketOrders == [owner : Orders \cup {Other}, spec : Specs, left : 0..Amount,
                 traded : Nat, at : Nat]
Transactions == [st : {"none", "mempool", "ok", "failed"}, target : Nat]

ChainType ==
  /\ book \in Seq(MarketOrders)
  /\ txs \in [Orders -> Seq(Transactions)]
  /\ mempool \in Seq(Orders \X Nat)

TrackerType ==
  /\ ost \in [Orders -> Active \cup Terminal \cup {"none"}]
  /\ exId \in [Orders -> [kind : {"none", "tx", "id"}, n : Nat]]
  /\ executed \in [Orders -> 0..Amount]
  /\ createdAt \in [Orders -> Nat]
  /\ announced \in [Orders -> BOOLEAN]

MemoryType ==
  /\ createHash \in [Orders -> Nat]
  /\ cancelHash \in [Orders -> Nat]
  /\ hasSpec \in [Orders -> BOOLEAN]
  /\ preIds \in [Orders -> SUBSET Nat]

Requests ==
  [pc : {"idle", "refs", "resume", "recover", "detail", "tx", "post", "sent"},
   ord : Orders \cup {Other}, refs : SUBSET Nat, cands : SUBSET Nat,
   matches : SUBSET Nat, recovered : BOOLEAN, create : Nat, cancel : Nat, tx : Nat,
   target : Nat]

TaskType ==
  /\ place \in [Orders -> {"idle", "snapshot", "post", "sent", "done"}]
  /\ req \in [Callers -> Requests]
  /\ \A c \in Callers : req[c].pc # "idle" => req[c].ord \in Orders

TypeOK == /\ ChainType /\ TrackerType /\ MemoryType /\ TaskType
          /\ now \in Nat /\ restarts \in 0..MaxRestarts

Init ==
  /\ book = [k \in 1..Len(Foreign) |->
               [owner |-> Other, spec |-> Foreign[k], left |-> Amount,
                traded |-> 0, at |-> 0]]
  /\ txs = [o \in Orders |-> <<[st |-> "none", target |-> 0]>>]
  /\ mempool = <<>>
  /\ now = StartTime
  /\ ost = [o \in Orders |-> "none"]
  /\ exId = [o \in Orders |-> NoId]
  /\ executed = [o \in Orders |-> 0]
  /\ createdAt = [o \in Orders |-> 0]
  /\ announced = [o \in Orders |-> FALSE]
  /\ createHash = [o \in Orders |-> 0]
  /\ cancelHash = [o \in Orders |-> 0]
  /\ hasSpec = [o \in Orders |-> FALSE]
  /\ preIds = [o \in Orders |-> {}]
  /\ place = [o \in Orders |-> "idle"]
  /\ req = [c \in Callers |-> Idle]
  /\ restarts = 0

-----------------------------------------------------------------------------
(* What the chain shows. *)

Resting(i) == book[i].left > 0

(* Mutant: closed orders stay listed.                                      *)
AllMarketOrders == DOMAIN book

UserMarketOrders == {i \in DOMAIN book : Resting(i)}

(* Mutant: an answer without a code counts as a failure.                   *)
CodesFailing(o, n) == {IF n # 0 /\ txs[o][n].st = "ok" THEN "ok" ELSE "failed"}

(* The code of a transaction of o: None until it is in a block, and        *)
(* whenever get_tx fails.                                                  *)
Codes(o, n) ==
  IF n = 0 THEN {"None"}
  ELSE (IF txs[o][n].st \in {"ok", "failed"} THEN {txs[o][n].st} ELSE {"None"})
       \cup (IF Faults THEN {"None"} ELSE {})

(* Whether get_market_order shows candidate i as order o was placed: the   *)
(* amount it shows is the amount left.                                     *)
LooksLike(i, o) == book[i].left = Amount /\ book[i].spec = SpecOf[o]

(* Mutant: any time of creation will do.                                   *)
AnyTime(i, o) == TRUE

Near(i, o) == /\ book[i].at <= createdAt[o] + Tolerance
              /\ createdAt[o] <= book[i].at + Tolerance

-----------------------------------------------------------------------------
(* The tracker (external): an update to an order that is done is ignored;  *)
(* leaving PENDING_CREATE fires the order-created event.                   *)

Announces(o, state) == /\ ost[o] = "PENDING_CREATE"
                       /\ state \in {"OPEN", "PARTIALLY_FILLED", "FILLED"}

ApplyUpdate(o, state, id) ==
  /\ UNCHANGED <<executed, createdAt>>
  /\ IF ost[o] \in Active
     THEN /\ ost' = [ost EXCEPT ![o] = state]
          /\ \E replace \in ReplaceId :
               exId' = IF id # NoId /\ (replace \/ exId[o] = NoId)
                       THEN [exId EXCEPT ![o] = id] ELSE exId
          /\ announced' = IF Announces(o, state)
                          THEN [announced EXCEPT ![o] = TRUE] ELSE announced
     ELSE UNCHANGED <<ost, exId, announced>>

-----------------------------------------------------------------------------
(* _place_order. The broadcast, with its retry, is BroadcastOnce: admitted *)
(* once or refused, and the answer may be lost.                            *)

Place(o) == /\ ost[o] = "none"
            /\ ost' = [ost EXCEPT ![o] = "PENDING_CREATE"]
            /\ createdAt' = [createdAt EXCEPT ![o] = now]
            /\ place' = [place EXCEPT ![o] = "snapshot"]
            /\ UNCHANGED <<chain, now, exId, executed, announced, memory, req, restarts>>

GotoPlace(o, from, to) == /\ place[o] = from
                          /\ place' = [place EXCEPT ![o] = to]

Snapshot(o) == /\ GotoPlace(o, "snapshot", "post")
               /\ preIds' = [preIds EXCEPT ![o] = UserMarketOrders]
               /\ hasSpec' = [hasSpec EXCEPT ![o] = TRUE]
               /\ UNCHANGED <<chain, now, tracker, createHash, cancelHash, req, restarts>>

CreateAdmitted(o) == /\ GotoPlace(o, "post", "sent")
                     /\ txs' = [txs EXCEPT ![o][1].st = "mempool"]
                     /\ mempool' = Append(mempool, <<o, 1>>)
                     /\ UNCHANGED <<book, now, tracker, memory, req, restarts>>

CreateAnswer(o) == /\ GotoPlace(o, "sent", "done")
                   /\ createHash' = [createHash EXCEPT ![o] = 1]
                   /\ ApplyUpdate(o, "OPEN", Hash(1))
                   /\ UNCHANGED <<chain, now, cancelHash, hasSpec, preIds, req, restarts>>

(* The snapshot, the broadcast or its answer fails: the exception makes    *)
(* the order a failed one, whatever the node did.                          *)
PlaceFails(o) == /\ Faults
                 /\ place[o] \in {"snapshot", "post", "sent"}
                 /\ place' = [place EXCEPT ![o] = "done"]
                 /\ ApplyUpdate(o, "FAILED", NoId)
                 /\ UNCHANGED <<chain, now, memory, req, restarts>>

-----------------------------------------------------------------------------
(* _request_order_status, for the poller and for a cancel task.            *)

StartPoll(o) == /\ req[Poll].pc = "idle"
                /\ ost[o] \in Active
                /\ req' = [req EXCEPT ![Poll] = [Idle EXCEPT !.pc = "refs", !.ord = o]]
                /\ UNCHANGED <<chain, now, tracker, memory, place, restarts>>

(* get_user_market_orders is answered; its caller resumes later.           *)
ReadRefs(c) == /\ req[c].pc = "refs"
               /\ req' = [req EXCEPT ![c].pc = "resume", ![c].refs = UserMarketOrders]
               /\ UNCHANGED <<chain, now, tracker, memory, place, restarts>>

(* The request returns its update. The poller applies it; a cancel task    *)
(* takes only the id from it, and gives up for now without a native one.   *)
Return(c, o, state, id) ==
  IF c = Poll
  THEN /\ ApplyUpdate(o, state, id)
       /\ req' = [req EXCEPT ![c] = Idle]
  ELSE /\ req' = [req EXCEPT ![c] =
                    IF id.kind = "id"
                    THEN [Idle EXCEPT !.pc = "post", !.ord = o, !.target = id.n]
                    ELSE Idle]
       /\ UNCHANGED tracker

FilledState(o) == IF executed[o] > 0 THEN "PARTIALLY_FILLED" ELSE "OPEN"

CreationTx(o) == IF createHash[o] # 0 THEN createHash[o]
                 ELSE IF exId[o].kind = "tx" THEN exId[o].n ELSE 0

(* Mutant: an admitted cancel counts as confirmed.                         *)
DecidedEarly(o, create, cancel, code) ==
  IF ost[o] = "PENDING_CANCEL" /\ cancel # 0 THEN "CANCELED" ELSE FilledState(o)

(* Mutant: a confirmed create is looked at before the cancel.              *)
CreateDecides(o, create, cancel, code) ==
  IF create # 0 /\ code = "failed" THEN "FAILED"
  ELSE IF cancel # 0 /\ code = "failed" THEN FilledState(o)
  ELSE IF executed[o] >= Amount THEN "FILLED"
  ELSE IF create # 0 /\ code = "ok"
       THEN IF ost[o] = "PENDING_CREATE" THEN "OPEN" ELSE ost[o]
  ELSE IF ost[o] = "PENDING_CANCEL"
       THEN IF cancel # 0 /\ code = "ok" THEN "CANCELED" ELSE "PENDING_CANCEL"
  ELSE "PENDING_CREATE"

(* The state when the order is not on the book under a known id, from the  *)
(* code of its cancel transaction or, without one, of its create.          *)
DecidedState(o, create, cancel, code) ==
  IF create # 0 /\ code = "failed" THEN "FAILED"
  ELSE IF cancel # 0 /\ code = "failed" THEN FilledState(o)
  ELSE IF executed[o] >= Amount THEN "FILLED"
  ELSE IF ost[o] = "PENDING_CANCEL"
       THEN IF cancel # 0 /\ code = "ok" THEN "CANCELED" ELSE "PENDING_CANCEL"
  ELSE IF create # 0 /\ code = "ok"
       THEN IF ost[o] = "PENDING_CREATE" THEN "OPEN" ELSE ost[o]
  ELSE IF executed[o] > 0 THEN "PARTIALLY_FILLED"
  ELSE IF create # 0 \/ cancel # 0 THEN "PENDING_CREATE" ELSE "FAILED"

DecidedId(o, tx) == IF exId[o] = NoId /\ tx # 0 THEN Hash(tx) ELSE exId[o]

ChosenTx(o, create) == IF cancelHash[o] # 0 THEN cancelHash[o] ELSE create

(* No id was found: the hashes are read before the await on get_tx, and    *)
(* without a hash there is nothing to await.                               *)
ChooseTx(c, o) ==
  LET create == CreationTx(o)
      tx == ChosenTx(o, create)
  IN IF tx = 0
     THEN Return(c, o, DecidedState(o, 0, 0, "None"), DecidedId(o, 0))
     ELSE /\ req' = [req EXCEPT ![c] = [Idle EXCEPT !.pc = "tx", !.ord = o,
                                          !.create = create, !.cancel = cancelHash[o],
                                          !.tx = tx]]
          /\ UNCHANGED tracker

(* After the last candidate: a unique match is the order's id.             *)
Conclude(c, o, matches) ==
  IF \E i \in matches : matches = {i}
  THEN /\ hasSpec' = [hasSpec EXCEPT ![o] = FALSE]
       /\ preIds' = [preIds EXCEPT ![o] = {}]
       /\ Return(c, o, FilledState(o), NativeId(CHOOSE i \in matches : TRUE))
  ELSE /\ ChooseTx(c, o)
       /\ UNCHANGED <<hasSpec, preIds>>

(* The ids tracked orders hold when the candidates are listed.             *)
Claimed == {exId[q].n : q \in {p \in Orders : ost[p] \in Active /\ exId[p].kind = "id"}}

(* Mutants: the ids before the create, or those claimed, are not excluded. *)
CandidatesBefore(o, refs) == refs \ Claimed
CandidatesClaimed(o, refs) == refs \ preIds[o]

Candidates(o, refs) == refs \ (preIds[o] \cup Claimed)

ReadCandidates(c, o, refs, recovered) ==
  LET cands == Candidates(o, refs)
  IN IF cands = {}
     THEN Conclude(c, o, {})
     ELSE /\ req' = [req EXCEPT ![c] = [Idle EXCEPT !.pc = "detail", !.ord = o,
                              !.cands = cands, !.recovered = recovered]]
          /\ UNCHANGED <<tracker, hasSpec, preIds>>

(* The request resumes with the open orders it asked for.                  *)
Resume(c) ==
  LET o == req[c].ord
      refs == req[c].refs
  IN /\ req[c].pc = "resume"
     /\ IF exId[o].kind = "id" /\ exId[o].n \in refs
        THEN /\ Return(c, o, IF ost[o] = "PENDING_CANCEL" THEN "PENDING_CANCEL"
                             ELSE FilledState(o), exId[o])
             /\ UNCHANGED <<hasSpec, preIds>>
        ELSE IF hasSpec[o] THEN ReadCandidates(c, o, refs, FALSE)
        ELSE IF exId[o].kind = "tx"
        THEN /\ req' = [req EXCEPT ![c].pc = "recover", ![c].tx = exId[o].n]
             /\ UNCHANGED <<tracker, hasSpec, preIds>>
        ELSE /\ ChooseTx(c, o)
             /\ UNCHANGED <<hasSpec, preIds>>
     /\ UNCHANGED <<chain, now, createHash, cancelHash, place, restarts>>

(* The spec is gone (popped, or lost in a restart): it is rebuilt from the *)
(* tracked order once its create transaction is confirmed.                 *)
Recover(c) ==
  LET o == req[c].ord
  IN /\ req[c].pc = "recover"
     /\ \E code \in Codes(o, req[c].tx) :
          IF code = "ok" THEN ReadCandidates(c, o, req[c].refs, TRUE)
          ELSE /\ ChooseTx(c, o)
               /\ UNCHANGED <<hasSpec, preIds>>
     /\ UNCHANGED <<chain, now, createHash, cancelHash, place, restarts>>

(* get_market_order for the next candidate, highest id first; one that is  *)
(* gone, or whose request fails, is skipped.                               *)
ReadDetail(c) ==
  LET o == req[c].ord
      cands == req[c].cands
  IN /\ req[c].pc = "detail"
     /\ \E i \in cands, shown \in {TRUE} \cup {~Faults} :
          LET matches == IF shown /\ LooksLike(i, o) /\ (req[c].recovered => Near(i, o))
                         THEN req[c].matches \cup {i} ELSE req[c].matches
          IN /\ \A k \in cands : k <= i
             /\ IF cands = {i}
                THEN Conclude(c, o, matches)
                ELSE /\ req' = [req EXCEPT ![c].cands = cands \ {i}, ![c].matches = matches]
                     /\ UNCHANGED <<tracker, hasSpec, preIds>>
     /\ UNCHANGED <<chain, now, createHash, cancelHash, place, restarts>>

ReadTx(c) ==
  LET o == req[c].ord
      tx == req[c].tx
  IN /\ req[c].pc = "tx"
     /\ \E code \in Codes(o, tx) :
          Return(c, o, DecidedState(o, req[c].create, req[c].cancel, code), DecidedId(o, tx))
     /\ UNCHANGED <<chain, now, memory, place, restarts>>

(* The order list or the broadcast of a cancel cannot be had: the          *)
(* exception ends the poll of this order, or the cancel task.              *)
RequestFails(c) == /\ Faults
                   /\ req[c].pc \in {"refs", "post", "sent"}
                   /\ req' = [req EXCEPT ![c] = Idle]
                   /\ UNCHANGED <<chain, now, tracker, memory, place, restarts>>

-----------------------------------------------------------------------------
(* _place_cancel. *)

Cancel(o) == /\ ost[o] \in Active
             /\ req[o].pc = "idle"
             /\ Len(txs[o]) <= MaxCancels[o]
             /\ req' = [req EXCEPT ![o] =
                          IF exId[o].kind = "id"
                          THEN [Idle EXCEPT !.pc = "post", !.ord = o, !.target = exId[o].n]
                          ELSE [Idle EXCEPT !.pc = "refs", !.ord = o]]
             /\ UNCHANGED <<chain, now, tracker, memory, place, restarts>>

CancelAdmitted(o) == /\ req[o].pc = "post"
                     /\ req' = [req EXCEPT ![o].pc = "sent", ![o].tx = Len(txs[o]) + 1]
                     /\ txs' = [txs EXCEPT ![o] =
                                  Append(@, [st |-> "mempool", target |-> req[o].target])]
                     /\ mempool' = Append(mempool, <<o, Len(txs[o]) + 1>>)
                     /\ UNCHANGED <<book, now, tracker, memory, place, restarts>>

(* The hash is kept; True makes the caller set the order PENDING_CANCEL.   *)
CancelAnswer(o) == /\ req[o].pc = "sent"
                   /\ cancelHash' = [cancelHash EXCEPT ![o] = req[o].tx]
                   /\ ApplyUpdate(o, "PENDING_CANCEL", NoId)
                   /\ req' = [req EXCEPT ![o] = Idle]
                   /\ UNCHANGED <<chain, now, createHash, hasSpec, preIds, place, restarts>>

-----------------------------------------------------------------------------
(* The fill poller credits trades by side and price, so any trade of an    *)
(* order at the same price may count (FillAllocation has the detail).       *)

Traded(o) == MapThenSumSet(LAMBDA i : book[i].traded,
                           {i \in DOMAIN book : book[i].spec = SpecOf[o]})

TradeUpdate(o) == /\ ost[o] \in Active
                  /\ \E n \in (executed[o] + 1)..Amount :
                       /\ n <= Traded(o)
                       /\ executed' = [executed EXCEPT ![o] = n]
                  /\ UNCHANGED <<chain, now, ost, exId, createdAt, announced, memory,
                                 place, req, restarts>>

-----------------------------------------------------------------------------
(* The chain (external): a block runs the admitted transactions in order.  *)

Execute(o, n, st) == /\ txs[o][n].st = "mempool"
                     /\ txs' = [txs EXCEPT ![o][n].st = st]
                     /\ mempool' = Tail(mempool)
                     /\ UNCHANGED <<now, tracker, memory, place, req, restarts>>

CommitCreate == /\ mempool # <<>>
                /\ Head(mempool)[2] = 1
                /\ LET o == Head(mempool)[1] IN
                   \/ /\ book' = Append(book, [owner |-> o, spec |-> SpecOf[o],
                                               left |-> Amount, traded |-> 0,
                                               at |-> now])
                      /\ Execute(o, 1, "ok")
                   \/ /\ Execute(o, 1, "failed")
                      /\ UNCHANGED book

CommitCancel == /\ mempool # <<>>
                /\ Head(mempool)[2] > 1
                /\ LET o == Head(mempool)[1]
                       n == Head(mempool)[2]
                       i == txs[o][n].target IN
                   \/ /\ Resting(i)
                      /\ book' = [book EXCEPT ![i].left = 0]
                      /\ Execute(o, n, "ok")
                   \/ /\ Faults \/ ~Resting(i)
                      /\ Execute(o, n, "failed")
                      /\ UNCHANGED book

(* Another account trades against one lot of a resting order.              *)
Fill == \E i \in UserMarketOrders :
          /\ book' = [book EXCEPT ![i].left = @ - 1, ![i].traded = @ + 1]
          /\ UNCHANGED <<txs, mempool, now, tracker, memory, place, req, restarts>>

OtherPlaces == \E s \in NewForeign :
                 /\ \A i \in DOMAIN book : i > Len(Foreign) =>
                      ~(book[i].owner = Other /\ book[i].spec = s)
                 /\ book' = Append(book, [owner |-> Other, spec |-> s, left |-> Amount,
                                         traded |-> 0, at |-> now])
                 /\ UNCHANGED <<txs, mempool, now, tracker, memory, place, req, restarts>>

OtherCancels == \E i \in UserMarketOrders :
                  /\ book[i].owner = Other
                  /\ book' = [book EXCEPT ![i].left = 0]
                  /\ UNCHANGED <<txs, mempool, now, tracker, memory, place, req, restarts>>

Tick == /\ now < MaxTime
        /\ now' = now + 1
        /\ UNCHANGED <<chain, tracker, memory, place, req, restarts>>

(* The tracked orders survive a restart (Hummingbot saves them); what the  *)
(* connector keeps in its own dictionaries does not, nor does a task.      *)
Restart == /\ restarts < MaxRestarts
           /\ restarts' = restarts + 1
           /\ createHash' = [o \in Orders |-> 0]
           /\ cancelHash' = [o \in Orders |-> 0]
           /\ hasSpec' = [o \in Orders |-> FALSE]
           /\ preIds' = [o \in Orders |-> {}]
           /\ place' = [o \in Orders |-> IF place[o] = "idle" THEN "idle" ELSE "done"]
           /\ req' = [c \in Callers |-> Idle]
           /\ UNCHANGED <<chain, now, tracker>>

PlaceStep(o) == \/ Snapshot(o) \/ CreateAdmitted(o) \/ CreateAnswer(o) \/ PlaceFails(o)
RequestStep(c) == \/ ReadRefs(c) \/ Resume(c) \/ Recover(c) \/ ReadDetail(c) \/ ReadTx(c)
                  \/ RequestFails(c)
CancelStep(o) == CancelAdmitted(o) \/ CancelAnswer(o)
Commit == CommitCreate \/ CommitCancel

Next == \/ \E o \in Orders : Place(o) \/ PlaceStep(o) \/ StartPoll(o)
                            \/ Cancel(o) \/ CancelStep(o) \/ TradeUpdate(o)
        \/ \E c \in Callers : RequestStep(c)
        \/ Commit \/ Fill \/ OtherPlaces \/ OtherCancels \/ Tick \/ Restart

Spec == Init /\ [][Next]_vars

(* The status poller never stops: it polls the tracked orders and each of  *)
(* its requests is answered. Started tasks go on, and blocks are produced. *)
FairSpec == /\ Spec
            /\ WF_vars((\E o \in Orders : StartPoll(o)) \/ RequestStep(Poll))
            /\ \A o \in Orders : WF_vars(PlaceStep(o)) /\ WF_vars(RequestStep(o) \/ CancelStep(o))
            /\ WF_vars(Commit)

-----------------------------------------------------------------------------
(* Properties. *)

TxConfirmed(o, n) == n \in DOMAIN txs[o] /\ txs[o][n].st = "ok"

(* An order is reported canceled only when one of its own cancel           *)
(* transactions was executed: not for a deferred cancel, a broadcast that  *)
(* was only accepted, or the code of its create transaction.               *)
CanceledIsConfirmed ==
  \A o \in Orders : ost[o] = "CANCELED" => \E n \in 2..Len(txs[o]) : TxConfirmed(o, n)

(* No two live orders hold the same native id, whatever the candidates     *)
(* look like: the poller's claims exclude one another.                     *)
ClaimsDisjoint ==
  \A o, q \in Orders : o # q /\ {ost[o], ost[q]} \subseteq Active
                      /\ exId[o].kind = "id" => exId[o] # exId[q]

(* Once it is placed, an order is reported failed only when one of its     *)
(* transactions failed in a block: not for a transaction that is still in  *)
(* the mempool, a request that failed, or an order that left the book.     *)
(* After a restart this takes an order that still goes by its hash; one    *)
(* with a native id that left the book is reported failed without cause.   *)
FailedHasReason ==
  [][\A o \in Orders :
       /\ place[o] = "done" /\ ost[o] \in Active /\ ost'[o] = "FAILED"
       /\ restarts = 0 \/ exId[o].kind = "tx"
       => \E n \in DOMAIN txs[o] : txs[o][n].st = "failed"]_vars

(* An order reported canceled has nothing left on the book: the            *)
(* transaction that was confirmed canceled this order, not one that looks  *)
(* like it.                                                                *)
CanceledIsOffBook ==
  \A o \in Orders : ost[o] = "CANCELED" => \A i \in UserMarketOrders : book[i].owner # o

(* CHANGELOG 0.4.0: ambiguous ids stay unresolved "rather than risking     *)
(* cancellation of an unrelated order".  Every cancel transaction names    *)
(* the id of the order it was asked for.                                   *)
CancelOnlyOwn ==
  \A o \in Orders : \A n \in 2..Len(txs[o]) : book[txs[o][n].target].owner = o

(* Release notes 0.3.0: cancel requests "remain pending until the cancel   *)
(* transaction is confirmed on-chain".                                     *)
PendingCancelKept ==
  [][\A o \in Orders :
       /\ place[o] = "done"
       /\ ost[o] = "PENDING_CANCEL"
       /\ ost'[o] \in {"PENDING_CREATE", "OPEN", "PARTIALLY_FILLED"}
       => txs[o][Len(txs[o])].st # "mempool"]_vars

(* CHANGELOG 0.4.0: duplicate order-created events are prevented "after a  *)
(* confirmed order transaction".                                           *)
CreatedOnce ==
  [][\A o \in Orders :
       announced[o] /\ Announces(o, ost'[o]) => ~TxConfirmed(o, 1)]_vars

(* A cancel that is confirmed for an order whose id is known ends the      *)
(* order: polling reports it, also when a second cancel was sent meanwhile *)
(* and when the poll that sees the transaction began before it.            *)
ConfirmedCancelSettles ==
  \A o \in Orders :
    (/\ place[o] = "done" /\ ost[o] = "PENDING_CANCEL" /\ exId[o].kind = "id"
     /\ cancelHash[o] # 0 /\ TxConfirmed(o, cancelHash[o])) ~> ost[o] \in Terminal
=============================================================================
