------------------------ MODULE OrderLifecycleProofs ------------------------
(***************************************************************************)
(* Proofs about OrderLifecycle for any orders, specs, foreign orders and   *)
(* bounds, with faults and restarts: types and confirmed cancels, then the *)
(* ids that orders hold, the reasons of failures and the targets of        *)
(* cancels.                                                                *)
(***************************************************************************)
EXTENDS OrderLifecycle, SequenceTheorems, TLAPS

States == Active \cup Terminal \cup {"none"}
ExchangeIds == [kind : {"none", "tx", "id"}, n : Nat]

-----------------------------------------------------------------------------
(* Types through the helpers of a status request. *)

(* Replacing an element of a sequence keeps its type.                      *)
LEMMA SeqExcept ==
  ASSUME NEW S, NEW s \in Seq(S), NEW i, NEW e, i \in DOMAIN s => e \in S
  PROVE  [s EXCEPT ![i] = e] \in Seq(S)
<1>1. CASE i \in DOMAIN s
  BY <1>1, ExceptSeq
<1>2. CASE i \notin DOMAIN s
  <2>1. [s EXCEPT ![i] = e] = s
    BY <1>2
  <2> QED
    BY <2>1
<1> QED
  BY <1>1, <1>2

(* Setting the status of a transaction keeps the type of txs.              *)
LEMMA TxExcept ==
  ASSUME ChainType, NEW o \in Orders, NEW n, NEW st \in {"mempool", "ok", "failed"}
  PROVE  [txs EXCEPT ![o][n].st = st] \in [Orders -> Seq(Transactions)]
<1> DEFINE e == [txs[o][n] EXCEPT !.st = st]
<1>1. txs \in [Orders -> Seq(Transactions)]
  BY DEF ChainType
<1>2. ASSUME n \in DOMAIN txs[o] PROVE e \in Transactions
  <2>1. txs[o][n] \in Transactions
    BY <1>1, <1>2
  <2> QED
    BY <2>1 DEF Transactions
<1> HIDE DEF e
<1>3. [txs[o] EXCEPT ![n] = e] \in Seq(Transactions)
  BY <1>1, <1>2, SeqExcept
<1>4. [txs EXCEPT ![o] = [txs[o] EXCEPT ![n] = e]] \in [Orders -> Seq(Transactions)]
  BY <1>1, <1>3
<1> QED
  BY <1>4 DEF e

(* Taking an order off the book keeps the type of the book.                *)
LEMMA OrderClosed ==
  ASSUME ChainType, NEW i, Amount \in Nat
  PROVE  [book EXCEPT ![i].left = 0] \in Seq(MarketOrders)
<1> DEFINE e == [book[i] EXCEPT !.left = 0]
<1>1. ASSUME i \in DOMAIN book PROVE e \in MarketOrders
  <2>1. book[i] \in MarketOrders
    BY <1>1 DEF ChainType
  <2> QED
    BY <2>1 DEF MarketOrders
<1> HIDE DEF e
<1>2. [book EXCEPT ![i] = e] \in Seq(MarketOrders)
  BY <1>1, SeqExcept DEF ChainType
<1> QED
  BY <1>2 DEF e

(* The values that stand for no id, a hash and a native id are ids.        *)
LEMMA IdTypes ==
  /\ NoId \in ExchangeIds
  /\ \A n \in Nat : Hash(n) \in ExchangeIds /\ NativeId(n) \in ExchangeIds
  /\ Idle \in Requests
BY DEF NoId, Hash, NativeId, Idle, Requests, ExchangeIds

(* The tracker keeps its type whatever known state an update carries.      *)
LEMMA ApplyUpdateType ==
  ASSUME TrackerType, NEW o \in Orders, NEW state \in States, NEW id \in ExchangeIds,
         ApplyUpdate(o, state, id)
  PROVE  TrackerType'
<1>1. CASE ost[o] \in Active
  <2>1. exId' = exId \/ exId' = [exId EXCEPT ![o] = id]
    BY <1>1 DEF ApplyUpdate
  <2>2. announced' = announced \/ announced' = [announced EXCEPT ![o] = TRUE]
    BY <1>1 DEF ApplyUpdate
  <2>3. /\ ost' = [ost EXCEPT ![o] = state]
        /\ UNCHANGED <<executed, createdAt>>
    BY <1>1 DEF ApplyUpdate
  <2>4. exId' \in [Orders -> ExchangeIds]
    BY <2>1 DEF TrackerType, ExchangeIds
  <2>5. ost' \in [Orders -> States] /\ executed' = executed /\ createdAt' = createdAt
    BY <2>3 DEF TrackerType, States
  <2>6. announced' \in [Orders -> BOOLEAN]
    BY <2>2, Zenon DEF TrackerType
  <2> QED
    BY <2>4, <2>5, <2>6 DEF TrackerType, States, ExchangeIds
<1>2. CASE ost[o] \notin Active
  BY <1>2 DEF TrackerType, ApplyUpdate
<1> QED
  BY <1>1, <1>2

(* Returning from a status request keeps the tracker's and request types.  *)
LEMMA ReturnType ==
  ASSUME TrackerType, TaskType, NEW c \in Callers, NEW o \in Orders,
         NEW state \in States, NEW id \in ExchangeIds,
         Return(c, o, state, id), UNCHANGED place
  PROVE  TrackerType' /\ TaskType'
<1>1. CASE c = Poll
  <2>1. ApplyUpdate(o, state, id) /\ req' = [req EXCEPT ![c] = Idle]
    BY <1>1 DEF Return
  <2> QED
    BY <2>1, ApplyUpdateType, IdTypes DEF TaskType, Idle
<1>2. CASE c # Poll
  <2>1. TrackerType'
    BY <1>2 DEF Return, tracker, TrackerType
  <2> DEFINE posting == [Idle EXCEPT !.pc = "post", !.ord = o, !.target = id.n]
  <2>2. posting \in Requests /\ posting.ord \in Orders
    BY DEF Requests, Idle, ExchangeIds
  <2>3. req' = [req EXCEPT ![c] = IF id.kind = "id" THEN posting ELSE Idle]
    BY <1>2 DEF Return
  <2> HIDE DEF posting
  <2> QED
    BY <2>1, <2>2, <2>3, IdTypes DEF TaskType, Idle
<1> QED
  BY <1>1, <1>2

(* The decided state and id are a state and an id of the tracker.          *)
LEMMA DecidedTypes ==
  ASSUME TrackerType, NEW o \in Orders, NEW create, NEW cancel, NEW tx \in Nat, NEW code
  PROVE  /\ DecidedState(o, create, cancel, code) \in States
         /\ DecidedId(o, tx) \in ExchangeIds
         /\ FilledState(o) \in States
<1>1. ost[o] \in States /\ exId[o] \in ExchangeIds
  BY DEF TrackerType, States, ExchangeIds
<1> QED
  BY <1>1, IdTypes DEF DecidedState, DecidedId, FilledState, States, Active, Terminal

(* Going for a transaction keeps the types, with and without a hash.       *)
LEMMA ChooseTxType ==
  ASSUME TrackerType, TaskType, MemoryType, NEW c \in Callers, NEW o \in Orders,
         ChooseTx(c, o), UNCHANGED place
  PROVE  TrackerType' /\ TaskType'
<1> DEFINE create == CreationTx(o)
           tx == ChosenTx(o, create)
           asking == [Idle EXCEPT !.pc = "tx", !.ord = o, !.create = create,
                              !.cancel = cancelHash[o], !.tx = tx]
<1>1. create \in Nat /\ tx \in Nat /\ cancelHash[o] \in Nat
  BY DEF TrackerType, MemoryType, CreationTx, ChosenTx
<1>2. CASE tx = 0
  <2>1. Return(c, o, DecidedState(o, 0, 0, "None"), DecidedId(o, 0))
    BY <1>2 DEF ChooseTx
  <2> QED
    BY <2>1, DecidedTypes, ReturnType
<1>3. CASE tx # 0
  <2>1. asking \in Requests /\ asking.ord \in Orders
    BY <1>1 DEF Requests, Idle
  <2>2. req' = [req EXCEPT ![c] = asking] /\ UNCHANGED tracker
    BY <1>3 DEF ChooseTx
  <2> HIDE DEF asking
  <2> QED
    BY <2>1, <2>2 DEF TaskType, TrackerType, tracker
<1> QED
  BY <1>2, <1>3

(* The last candidate keeps the types, with and without a unique match.    *)
LEMMA ConcludeType ==
  ASSUME TrackerType, TaskType, MemoryType, NEW c \in Callers, NEW o \in Orders,
         NEW matches \in SUBSET Nat, Conclude(c, o, matches),
         UNCHANGED <<place, createHash, cancelHash>>
  PROVE  TrackerType' /\ TaskType' /\ MemoryType'
<1>1. CASE \E i \in matches : matches = {i}
  <2>1. PICK i \in matches : matches = {i}
    BY <1>1
  <2>2. (CHOOSE k \in matches : TRUE) = i
    BY <2>1
  <2>3. Return(c, o, FilledState(o), NativeId(i))
    BY <1>1, <2>2 DEF Conclude
  <2>4. TrackerType' /\ TaskType'
    BY <2>3, IdTypes, DecidedTypes, ReturnType
  <2>5. MemoryType'
    BY <1>1 DEF Conclude, MemoryType
  <2> QED
    BY <2>4, <2>5
<1>2. CASE ~ \E i \in matches : matches = {i}
  BY <1>2, ChooseTxType DEF Conclude, MemoryType
<1> QED
  BY <1>1, <1>2

(* Listing the candidates keeps the types, also when there are none.       *)
LEMMA ReadCandidatesType ==
  ASSUME TrackerType, TaskType, MemoryType, NEW c \in Callers, NEW o \in Orders,
         NEW refs \in SUBSET Nat, NEW recovered \in BOOLEAN,
         ReadCandidates(c, o, refs, recovered),
         UNCHANGED <<place, createHash, cancelHash>>
  PROVE  TrackerType' /\ TaskType' /\ MemoryType'
<1> DEFINE cands == Candidates(o, refs)
           asking == [Idle EXCEPT !.pc = "detail", !.ord = o,
                                  !.cands = cands, !.recovered = recovered]
<1>1. CASE cands = {}
  BY <1>1, ConcludeType DEF ReadCandidates
<1>2. CASE cands # {}
  <2>1. cands \in SUBSET Nat
    BY DEF Candidates
  <2>2. asking \in Requests /\ asking.ord \in Orders
    BY <2>1 DEF Requests, Idle
  <2>3. req' = [req EXCEPT ![c] = asking] /\ UNCHANGED <<tracker, hasSpec, preIds>>
    BY <1>2 DEF ReadCandidates
  <2> HIDE DEF asking
  <2> QED
    BY <2>2, <2>3 DEF TaskType, TrackerType, MemoryType, tracker
<1> QED
  BY <1>1, <1>2

-----------------------------------------------------------------------------
(* Every variable keeps its type, through every interleaving of place,     *)
(* poll and cancel tasks with the chain and restarts.                      *)
THEOREM TypeCorrect == Spec => []TypeOK
<1> USE LifecycleAssumption
<1>1. Init => TypeOK
  <2> SUFFICES ASSUME Init PROVE TypeOK
    OBVIOUS
  <2>1. ChainType
    <3>1. \A k \in 1..Len(Foreign) : Foreign[k] \in Specs
      BY DEF Specs
    <3>2. book \in Seq(MarketOrders)
      BY <3>1 DEF Init, MarketOrders
    <3>3. [st |-> "none", target |-> 0] \in Transactions
      BY DEF Transactions
    <3> QED
      BY <3>2, <3>3 DEF Init, ChainType
  <2>2. TrackerType
    BY IdTypes DEF Init, TrackerType, ExchangeIds
  <2>3. MemoryType /\ TaskType
    BY IdTypes DEF Init, MemoryType, TaskType, Callers, Idle
  <2> QED
    BY <2>1, <2>2, <2>3 DEF Init, TypeOK
<1>2. TypeOK /\ [Next]_vars => TypeOK'
  <2> SUFFICES ASSUME TypeOK, [Next]_vars PROVE TypeOK'
    OBVIOUS
  <2> USE DEF TypeOK
  <2>0. /\ UNCHANGED chain => ChainType'
        /\ UNCHANGED tracker => TrackerType'
        /\ UNCHANGED memory => MemoryType'
        /\ UNCHANGED <<place, req>> => TaskType'
    BY DEF chain, ChainType, tracker, TrackerType, memory, MemoryType, TaskType
  <2>1. CASE UNCHANGED vars
    BY <2>0, <2>1 DEF vars
  <2>2. ASSUME NEW o \in Orders, Place(o) PROVE TypeOK'
    <3>1. TrackerType' /\ TaskType'
      BY <2>2 DEF Place, TrackerType, TaskType, Active
    <3> QED
      BY <2>0, <2>2, <3>1 DEF Place
  <2>3. ASSUME NEW o \in Orders, PlaceStep(o) PROVE TypeOK'
    <3>1. CASE Snapshot(o)
      <4>1. UserMarketOrders \in SUBSET Nat
        BY DEF UserMarketOrders, ChainType
      <4>2. MemoryType' /\ TaskType'
        BY <3>1, <4>1 DEF Snapshot, GotoPlace, MemoryType, TaskType
      <4> QED
        BY <2>0, <3>1, <4>2 DEF Snapshot
    <3>2. CASE CreateAdmitted(o)
      <4>1. txs' \in [Orders -> Seq(Transactions)]
        BY <3>2, TxExcept DEF CreateAdmitted
      <4>2. mempool' \in Seq(Orders \X Nat) /\ book' = book
        BY <3>2 DEF CreateAdmitted, ChainType
      <4>3. TaskType'
        BY <3>2 DEF CreateAdmitted, GotoPlace, TaskType
      <4> QED
        BY <2>0, <3>2, <4>1, <4>2, <4>3 DEF CreateAdmitted, ChainType
    <3>3. CASE CreateAnswer(o)
      <4>1. TrackerType'
        BY <3>3, IdTypes, ApplyUpdateType DEF CreateAnswer, States, Active
      <4>2. MemoryType' /\ TaskType'
        BY <3>3 DEF CreateAnswer, GotoPlace, MemoryType, TaskType
      <4> QED
        BY <2>0, <3>3, <4>1, <4>2 DEF CreateAnswer
    <3>4. CASE PlaceFails(o)
      <4>1. TrackerType'
        BY <3>4, IdTypes, ApplyUpdateType DEF PlaceFails, States, Terminal
      <4>2. TaskType'
        BY <3>4 DEF PlaceFails, TaskType
      <4> QED
        BY <2>0, <3>4, <4>1, <4>2 DEF PlaceFails
    <3> QED
      BY <2>3, <3>1, <3>2, <3>3, <3>4 DEF PlaceStep
  <2>4. ASSUME NEW o \in Orders, StartPoll(o) PROVE TypeOK'
    <3> DEFINE asking == [Idle EXCEPT !.pc = "refs", !.ord = o]
    <3>1. asking \in Requests /\ asking.ord \in Orders
      BY DEF Requests, Idle
    <3>2. req' = [req EXCEPT ![Poll] = asking] /\ UNCHANGED place
      BY <2>4 DEF StartPoll
    <3> HIDE DEF asking
    <3>3. TaskType'
      BY <3>1, <3>2 DEF TaskType, Callers
    <3> QED
      BY <2>0, <2>4, <3>3 DEF StartPoll
  <2>5. ASSUME NEW o \in Orders, Cancel(o) PROVE TypeOK'
    <3> DEFINE posting == [Idle EXCEPT !.pc = "post", !.ord = o, !.target = exId[o].n]
               asking == [Idle EXCEPT !.pc = "refs", !.ord = o]
    <3>1. posting \in Requests /\ posting.ord \in Orders
      BY DEF Requests, Idle, TrackerType
    <3>2. asking \in Requests /\ asking.ord \in Orders
      BY DEF Requests, Idle
    <3>3. /\ req' = [req EXCEPT ![o] = IF exId[o].kind = "id" THEN posting ELSE asking]
          /\ UNCHANGED place
      BY <2>5 DEF Cancel
    <3> HIDE DEF asking, posting
    <3>4. TaskType'
      BY <3>1, <3>2, <3>3 DEF TaskType, Callers
    <3> QED
      BY <2>0, <2>5, <3>4 DEF Cancel
  <2>6. ASSUME NEW o \in Orders, CancelStep(o) PROVE TypeOK'
    <3>1. CASE CancelAdmitted(o)
      <4>1. req[o] \in Requests /\ Len(txs[o]) \in Nat /\ o \in Callers
        BY DEF TaskType, Callers, ChainType
      <4> DEFINE cancel == [st |-> "mempool", target |-> req[o].target]
                 sent == [req[o] EXCEPT !.pc = "sent", !.tx = Len(txs[o]) + 1]
      <4>a. cancel \in Transactions
        BY <4>1 DEF Transactions, Requests
      <4>b. sent \in Requests /\ sent.ord = req[o].ord
        <5>1. Len(txs[o]) + 1 \in Nat
          BY <4>1
        <5> QED
          BY <4>1, <5>1 DEF Requests
      <4>c. /\ txs' = [txs EXCEPT ![o] = Append(txs[o], cancel)]
            /\ mempool' = Append(mempool, <<o, Len(txs[o]) + 1>>)
            /\ book' = book
        BY <3>1 DEF CancelAdmitted
      <4>d. req' = [req EXCEPT ![o] = sent] /\ req[o].pc = "post" /\ place' = place
        BY <3>1 DEF CancelAdmitted
      <4> HIDE DEF cancel, sent
      <4>e. txs' \in [Orders -> Seq(Transactions)]
        BY <4>a, <4>c DEF ChainType
      <4>2. ChainType'
        BY <4>1, <4>c, <4>e DEF ChainType
      <4>3. TaskType'
        BY <4>1, <4>b, <4>d DEF TaskType
      <4> QED
        BY <2>0, <3>1, <4>2, <4>3 DEF CancelAdmitted
    <3>2. CASE CancelAnswer(o)
      <4>1. TrackerType'
        BY <3>2, IdTypes, ApplyUpdateType DEF CancelAnswer, States, Active
      <4>2. req[o].tx \in Nat
        BY DEF TaskType, Callers, Requests
      <4>3. MemoryType' /\ TaskType'
        BY <3>2, <4>2, IdTypes DEF CancelAnswer, MemoryType, TaskType, Idle
      <4> QED
        BY <2>0, <3>2, <4>1, <4>3 DEF CancelAnswer
    <3> QED
      BY <2>6, <3>1, <3>2 DEF CancelStep
  <2>7. ASSUME NEW o \in Orders, TradeUpdate(o) PROVE TypeOK'
    <3>1. TrackerType'
      BY <2>7 DEF TradeUpdate, TrackerType
    <3> QED
      BY <2>0, <2>7, <3>1 DEF TradeUpdate
  <2>8. ASSUME NEW c \in Callers, RequestStep(c) PROVE TypeOK'
    <3>0. /\ req[c] \in Requests
          /\ req[c].pc # "idle" => req[c].ord \in Orders
          /\ req[c].refs \in SUBSET Nat /\ req[c].cands \in SUBSET Nat
          /\ req[c].matches \in SUBSET Nat /\ req[c].tx \in Nat
      BY DEF TaskType, Requests
    <3>1. CASE ReadRefs(c)
      <4>1. UserMarketOrders \in SUBSET Nat
        BY DEF UserMarketOrders, ChainType
      <4>2. TaskType'
        BY <3>0, <3>1, <4>1 DEF ReadRefs, TaskType, Requests
      <4> QED
        BY <2>0, <3>1, <4>2 DEF ReadRefs
    <3>2. CASE Resume(c)
      <4> DEFINE o == req[c].ord
      <4>1. o \in Orders
        BY <3>0, <3>2 DEF Resume
      <4>2. TrackerType' /\ TaskType' /\ MemoryType'
        <5>1. CASE exId[o].kind = "id" /\ exId[o].n \in req[c].refs
          <6>1. /\ UNCHANGED <<hasSpec, preIds, createHash, cancelHash, place>>
                /\ Return(c, o, IF ost[o] = "PENDING_CANCEL" THEN "PENDING_CANCEL"
                                ELSE FilledState(o), exId[o])
            BY <3>2, <5>1 DEF Resume
          <6>2. /\ (IF ost[o] = "PENDING_CANCEL" THEN "PENDING_CANCEL"
                    ELSE FilledState(o)) \in States
                /\ exId[o] \in ExchangeIds
            BY <4>1 DEF FilledState, States, Active, TrackerType, ExchangeIds
          <6> QED
            BY <4>1, <6>1, <6>2, ReturnType DEF MemoryType
        <5>2. CASE /\ ~(exId[o].kind = "id" /\ exId[o].n \in req[c].refs)
                   /\ hasSpec[o]
          <6>1. /\ ReadCandidates(c, o, req[c].refs, FALSE)
                /\ UNCHANGED <<createHash, cancelHash, place>>
            BY <3>2, <5>2 DEF Resume
          <6> QED
            BY <3>0, <4>1, <6>1, ReadCandidatesType
        <5>3. CASE /\ ~(exId[o].kind = "id" /\ exId[o].n \in req[c].refs)
                   /\ ~hasSpec[o] /\ exId[o].kind = "tx"
          <6>1. /\ req' = [req EXCEPT ![c].pc = "recover", ![c].tx = exId[o].n]
                /\ UNCHANGED <<tracker, memory, place>>
            BY <3>2, <5>3 DEF Resume, memory
          <6>2. exId[o].n \in Nat
            BY <4>1 DEF TrackerType
          <6>3. TaskType'
            BY <3>0, <4>1, <6>1, <6>2 DEF TaskType, Requests
          <6> QED
            BY <2>0, <6>1, <6>3
        <5>4. CASE /\ ~(exId[o].kind = "id" /\ exId[o].n \in req[c].refs)
                   /\ ~hasSpec[o] /\ exId[o].kind # "tx"
          <6>1. /\ ChooseTx(c, o)
                /\ UNCHANGED <<memory, place>>
            BY <3>2, <5>4 DEF Resume, memory
          <6> QED
            BY <2>0, <4>1, <6>1, ChooseTxType
        <5> QED
          BY <5>1, <5>2, <5>3, <5>4
      <4> QED
        BY <2>0, <3>2, <4>2 DEF Resume
    <3>3. CASE Recover(c)
      <4> DEFINE o == req[c].ord
      <4>1. o \in Orders
        BY <3>0, <3>3 DEF Recover
      <4>2. CASE ReadCandidates(c, o, req[c].refs, TRUE)
        BY <2>0, <3>0, <3>3, <4>1, <4>2, ReadCandidatesType DEF Recover
      <4>3. CASE ChooseTx(c, o) /\ UNCHANGED <<hasSpec, preIds>>
        <5>1. UNCHANGED <<memory, place>>
          BY <3>3, <4>3 DEF Recover, memory
        <5> QED
          BY <2>0, <3>3, <4>1, <4>3, <5>1, ChooseTxType DEF Recover
      <4> QED
        BY <3>3, <4>2, <4>3 DEF Recover
    <3>4. CASE ReadDetail(c)
      <4> DEFINE o == req[c].ord
                 cands == req[c].cands
      <4>1. o \in Orders
        BY <3>0, <3>4 DEF ReadDetail
      <4>2. PICK i \in cands, matches \in SUBSET Nat :
              IF cands = {i} THEN Conclude(c, o, matches)
              ELSE /\ req' = [req EXCEPT ![c].cands = cands \ {i}, ![c].matches = matches]
                   /\ UNCHANGED <<tracker, hasSpec, preIds>>
        BY <3>0, <3>4 DEF ReadDetail
      <4>3. UNCHANGED <<chain, now, createHash, cancelHash, place, restarts>>
        BY <3>4 DEF ReadDetail
      <4>4. CASE cands = {i}
        BY <2>0, <4>1, <4>2, <4>3, <4>4, ConcludeType
      <4>5. CASE cands # {i}
        <5> DEFINE asking == [req[c] EXCEPT !.cands = cands \ {i}, !.matches = matches]
        <5>a. asking \in Requests /\ asking.ord = o
          BY <3>0 DEF Requests
        <5>b. req' = [req EXCEPT ![c] = asking] /\ place' = place
          BY <4>2, <4>3, <4>5
        <5> HIDE DEF asking
        <5>1. TaskType'
          BY <4>1, <5>a, <5>b DEF TaskType
        <5> QED
          BY <2>0, <4>2, <4>3, <4>5, <5>1 DEF memory
      <4> QED
        BY <4>4, <4>5
    <3>5. CASE ReadTx(c)
      <4> DEFINE o == req[c].ord
                 tx == req[c].tx
      <4>1. o \in Orders
        BY <3>0, <3>5 DEF ReadTx
      <4>2. PICK code : Return(c, o, DecidedState(o, req[c].create, req[c].cancel, code), DecidedId(o, tx))
        BY <3>5 DEF ReadTx
      <4>3. UNCHANGED <<chain, now, memory, place, restarts>>
        BY <3>5 DEF ReadTx
      <4>4. TrackerType' /\ TaskType'
        BY <3>0, <4>1, <4>2, <4>3, DecidedTypes, ReturnType
      <4> QED
        BY <2>0, <4>3, <4>4
    <3>6. CASE RequestFails(c)
      <4>1. TaskType'
        BY <3>6, IdTypes DEF RequestFails, TaskType, Idle
      <4> QED
        BY <2>0, <3>6, <4>1 DEF RequestFails
    <3> QED
      BY <2>8, <3>1, <3>2, <3>3, <3>4, <3>5, <3>6 DEF RequestStep
  <2>9. CASE Commit
    <3>1. ASSUME mempool # <<>>
          PROVE  Head(mempool) \in Orders \X Nat /\ Tail(mempool) \in Seq(Orders \X Nat)
      BY <3>1 DEF ChainType
    <3>2. ASSUME NEW o \in Orders, NEW n \in Nat, NEW st \in {"ok", "failed"},
                 mempool # <<>>, Execute(o, n, st), book' \in Seq(MarketOrders)
          PROVE  TypeOK'
      <4>1. txs' \in [Orders -> Seq(Transactions)]
        BY <3>2, TxExcept DEF Execute
      <4>2. ChainType'
        BY <3>1, <3>2, <4>1 DEF Execute, ChainType
      <4> QED
        BY <2>0, <3>2, <4>2 DEF Execute
    <3>3. CASE CommitCreate
      <4> DEFINE o == Head(mempool)[1]
                 order == [owner |-> o, spec |-> SpecOf[o], left |-> Amount,
                           traded |-> 0, at |-> now]
      <4>1. o \in Orders /\ mempool # <<>>
        BY <3>1, <3>3 DEF CommitCreate
      <4>2. order \in MarketOrders
        BY <4>1 DEF Specs, MarketOrders
      <4>3. PICK st \in {"ok", "failed"} :
              Execute(o, 1, st) /\ book' \in {book, Append(book, order)}
        BY <3>3 DEF CommitCreate
      <4> HIDE DEF order
      <4>4. book' \in Seq(MarketOrders)
        <5>1. book \in Seq(MarketOrders)
          BY DEF ChainType
        <5>2. Append(book, order) \in Seq(MarketOrders)
          BY <4>2, <5>1, AppendProperties
        <5> QED
          BY <4>3, <5>1, <5>2
      <4> HIDE DEF o
      <4> QED
        BY <3>2, <4>1, <4>3, <4>4
    <3>4. CASE CommitCancel
      <4> DEFINE o == Head(mempool)[1]
                 n == Head(mempool)[2]
                 i == txs[o][n].target
      <4>1. o \in Orders /\ n \in Nat /\ mempool # <<>>
        BY <3>1, <3>4 DEF CommitCancel
      <4>2. PICK st \in {"ok", "failed"} :
              Execute(o, n, st) /\ book' \in {book, [book EXCEPT ![i].left = 0]}
        BY <3>4 DEF CommitCancel
      <4> HIDE DEF i
      <4>3. book' \in Seq(MarketOrders)
        <5>1. book \in Seq(MarketOrders) /\ Amount \in Nat
          BY DEF ChainType
        <5>2. [book EXCEPT ![i].left = 0] \in Seq(MarketOrders)
          BY <5>1, OrderClosed
        <5> QED
          BY <4>2, <5>1, <5>2
      <4> HIDE DEF o, n
      <4> QED
        BY <3>2, <4>1, <4>2, <4>3
    <3> QED
      BY <2>9, <3>3, <3>4 DEF Commit
  <2>10. CASE Fill
    <3>1. PICK i \in UserMarketOrders :
            /\ book' = [book EXCEPT ![i].left = @ - 1, ![i].traded = @ + 1]
            /\ UNCHANGED <<txs, mempool, now, tracker, memory, place, req, restarts>>
      BY <2>10 DEF Fill
    <3>2. i \in DOMAIN book /\ book[i].left > 0
      BY DEF UserMarketOrders, Resting
    <3> DEFINE e == [book[i] EXCEPT !.left = book[i].left - 1, !.traded = book[i].traded + 1]
    <3>3. e \in MarketOrders
      <4>1. book[i] \in MarketOrders
        BY <3>2 DEF ChainType
      <4>2. book[i].left - 1 \in 0..Amount /\ book[i].traded + 1 \in Nat
        BY <3>2, <4>1 DEF MarketOrders
      <4> QED
        BY <4>1, <4>2 DEF MarketOrders
    <3>a. book' = [book EXCEPT ![i] = e]
      BY <3>1
    <3> HIDE DEF e
    <3>b. [book EXCEPT ![i] = e] \in Seq(MarketOrders)
      BY <3>3, SeqExcept DEF ChainType
    <3>4. ChainType'
      BY <3>1, <3>a, <3>b DEF ChainType
    <3> QED
      BY <2>0, <3>1, <3>4
  <2>11. CASE OtherPlaces
    <3>1. PICK s \in NewForeign :
            /\ book' = Append(book, [owner |-> Other, spec |-> s, left |-> Amount,
                                    traded |-> 0, at |-> now])
            /\ UNCHANGED <<txs, mempool, now, tracker, memory, place, req, restarts>>
      BY <2>11 DEF OtherPlaces
    <3>2. [owner |-> Other, spec |-> s, left |-> Amount, traded |-> 0, at |-> now]
            \in MarketOrders
      BY DEF Specs, MarketOrders
    <3>3. ChainType'
      BY <3>1, <3>2 DEF ChainType
    <3> QED
      BY <2>0, <3>1, <3>3
  <2>12. CASE OtherCancels
    <3>1. PICK i \in UserMarketOrders :
            /\ book' = [book EXCEPT ![i].left = 0]
            /\ UNCHANGED <<txs, mempool, now, tracker, memory, place, req, restarts>>
      BY <2>12 DEF OtherCancels
    <3>2. ChainType'
      BY <3>1, OrderClosed DEF ChainType
    <3> QED
      BY <2>0, <3>1, <3>2
  <2>13. CASE Tick
    BY <2>0, <2>13 DEF Tick
  <2>14. CASE Restart
    <3>1. MemoryType' /\ TaskType'
      BY <2>14, IdTypes DEF Restart, MemoryType, TaskType, Idle
    <3> QED
      BY <2>0, <2>14, <3>1 DEF Restart
  <2> QED
    BY <2>1, <2>2, <2>3, <2>4, <2>5, <2>6, <2>7, <2>8, <2>9, <2>10, <2>11, <2>12,
       <2>13, <2>14 DEF Next
<1> QED
  BY <1>1, <1>2, PTL DEF Spec

-----------------------------------------------------------------------------
(* Every hash the connector, the tracker or a request holds is that of a   *)
(* transaction that was admitted, and a cancel task is about its own order.*)
HashInv ==
  /\ \A o \in Orders :
       /\ Len(txs[o]) >= 1
       /\ createHash[o] <= Len(txs[o]) /\ cancelHash[o] <= Len(txs[o])
       /\ exId[o].kind = "tx" => exId[o].n <= Len(txs[o])
       /\ req[o].pc # "idle" => req[o].ord = o
  /\ \A c \in Callers : req[c].pc # "idle" => req[c].tx <= Len(txs[req[c].ord])

(* A hash kept, or read, as that of a cancel is not that of the create.    *)
CancelRequest(r) == /\ r.pc = "sent" => r.tx >= 2
                    /\ r.cancel # 0 => r.pc = "tx" /\ r.tx >= 2

CancelHashInv == /\ \A o \in Orders : cancelHash[o] # 0 => cancelHash[o] >= 2
                 /\ \A c \in Callers : CancelRequest(req[c])

CancelInv == HashInv /\ CancelHashInv /\ CanceledIsConfirmed

Confirmed(o) == \E n \in 2..Len(txs[o]) : TxConfirmed(o, n)

(* An update keeps CancelInv if CANCELED comes with a confirmed cancel.    *)
LEMMA ApplyUpdateCancel ==
  ASSUME TrackerType, NEW o \in Orders, NEW state \in States, NEW id \in ExchangeIds,
         CanceledIsConfirmed, HashInv,
         id.kind = "tx" => id.n <= Len(txs[o]),
         state = "CANCELED" => ost[o] \notin Active \/ Confirmed(o),
         ApplyUpdate(o, state, id), UNCHANGED txs
  PROVE  /\ CanceledIsConfirmed'
         /\ \A q \in Orders : exId'[q].kind = "tx" => exId'[q].n <= Len(txs[q])
<1>1. CASE ost[o] \in Active
  <2>1. ost' = [ost EXCEPT ![o] = state]
    BY <1>1 DEF ApplyUpdate
  <2>2. exId' = exId \/ exId' = [exId EXCEPT ![o] = id]
    BY <1>1 DEF ApplyUpdate
  <2>3. CanceledIsConfirmed'
    BY <1>1, <2>1 DEF CanceledIsConfirmed, Confirmed, TxConfirmed, TrackerType
  <2>4. \A q \in Orders : exId'[q].kind = "tx" => exId'[q].n <= Len(txs[q])
    BY <2>2 DEF TrackerType, HashInv
  <2> QED
    BY <2>3, <2>4
<1>2. CASE ost[o] \notin Active
  BY <1>2 DEF ApplyUpdate, CanceledIsConfirmed, TxConfirmed, HashInv
<1> QED
  BY <1>1, <1>2

(* So does the return of a status request, for poller and cancel task.     *)
LEMMA ReturnCancel ==
  ASSUME TrackerType, TaskType, ChainType, CancelInv,
         NEW c \in Callers, NEW o \in Orders, c \in Orders => c = o,
         NEW state \in States, NEW id \in ExchangeIds,
         id.kind = "tx" => id.n <= Len(txs[o]),
         state = "CANCELED" => ost[o] \notin Active \/ Confirmed(o),
         Return(c, o, state, id), UNCHANGED <<txs, createHash, cancelHash>>
  PROVE  CancelInv'
<1> USE DEF CancelInv
<1>1. CASE c = Poll
  <2>1. ApplyUpdate(o, state, id) /\ req' = [req EXCEPT ![c] = Idle]
    BY <1>1 DEF Return
  <2>2. /\ CanceledIsConfirmed'
        /\ \A q \in Orders : exId'[q].kind = "tx" => exId'[q].n <= Len(txs[q])
    BY <2>1, ApplyUpdateCancel
  <2>3. \A q \in Callers : req'[q] = Idle \/ req'[q] = req[q]
    BY <2>1 DEF TaskType
  <2>4. CancelHashInv'
    BY <2>3 DEF CancelHashInv, CancelRequest, Idle
  <2> QED
    BY <2>2, <2>3, <2>4 DEF HashInv, Callers, Idle
<1>2. CASE c # Poll
  <2> DEFINE posting == [Idle EXCEPT !.pc = "post", !.ord = o, !.target = id.n]
  <2>1. req' = [req EXCEPT ![c] = IF id.kind = "id" THEN posting ELSE Idle]
    BY <1>2 DEF Return
  <2>2. posting.ord = o /\ posting.tx = 0 /\ posting.cancel = 0 /\ posting.pc = "post"
    BY DEF Idle
  <2>3. UNCHANGED tracker
    BY <1>2 DEF Return
  <2> HIDE DEF posting
  <2>4. \A q \in Callers : \/ req'[q] = Idle \/ req'[q] = req[q]
                           \/ (q = o /\ req'[q] = posting)
    <3>1. c = o
      BY <1>2 DEF Callers
    <3>2. req' = [req EXCEPT ![o] = posting] \/ req' = [req EXCEPT ![o] = Idle]
      BY <2>1, <3>1
    <3>3. CASE req' = [req EXCEPT ![o] = posting]
      BY <3>3 DEF TaskType
    <3>4. CASE req' = [req EXCEPT ![o] = Idle]
      BY <3>4 DEF TaskType
    <3> QED
      BY <3>2, <3>3, <3>4
  <2>5. HashInv'
    <3>1. \A q \in Orders : q \in Callers /\ Len(txs[q]) \in Nat
      BY DEF Callers, ChainType
    <3>2. \A q \in Orders : req'[q].pc # "idle" => req'[q].ord = q
      BY <2>2, <2>4, <3>1 DEF HashInv, Idle
    <3>3. \A q \in Callers : req'[q].pc # "idle" => req'[q].tx <= Len(txs[req'[q].ord])
      BY <2>2, <2>4, <3>1 DEF HashInv, Idle
    <3> QED
      BY <2>3, <3>2, <3>3 DEF HashInv, tracker
  <2>6. CanceledIsConfirmed'
    BY <2>3 DEF CanceledIsConfirmed, TxConfirmed, tracker
  <2>7. CancelHashInv'
    BY <2>2, <2>4 DEF CancelHashInv, CancelRequest, Idle
  <2> QED
    BY <2>5, <2>6, <2>7
<1> QED
  BY <1>1, <1>2

(* What a request decides from a transaction is justified by it.           *)
LEMMA DecidedCancel ==
  ASSUME TrackerType, ChainType, CancelInv, NEW o \in Orders, NEW create, NEW cancel,
         NEW tx \in Nat, tx <= Len(txs[o]), cancel # 0 => tx >= 2,
         NEW code \in Codes(o, tx)
  PROVE  LET state == DecidedState(o, create, cancel, code)
             id == DecidedId(o, tx)
         IN /\ id.kind = "tx" => id.n <= Len(txs[o])
            /\ state = "CANCELED" => ost[o] \notin Active \/ Confirmed(o)
<1>1. DecidedId(o, tx).kind = "tx" => DecidedId(o, tx).n <= Len(txs[o])
  BY DEF DecidedId, Hash, CancelInv, HashInv
<1>2. ASSUME DecidedState(o, create, cancel, code) = "CANCELED", ost[o] \in Active
      PROVE  Confirmed(o)
  <2>1. tx >= 2 /\ code = "ok"
    BY <1>2 DEF DecidedState, FilledState, Active
  <2>2. txs[o][tx].st = "ok"
    BY <2>1 DEF Codes
  <2> QED
    BY <2>1, <2>2 DEF Confirmed, TxConfirmed, ChainType
<1> QED
  BY <1>1, <1>2

(* Going for a transaction cancels no order by itself.                     *)
LEMMA ChooseTxCancel ==
  ASSUME TrackerType, TaskType, ChainType, MemoryType, CancelInv,
         NEW c \in Callers, NEW o \in Orders, c \in Orders => c = o,
         ChooseTx(c, o), UNCHANGED <<txs, createHash, cancelHash>>
  PROVE  CancelInv'
<1> DEFINE create == CreationTx(o)
           tx == ChosenTx(o, create)
           asking == [Idle EXCEPT !.pc = "tx", !.ord = o, !.create = create,
                              !.cancel = cancelHash[o], !.tx = tx]
<1>1. create \in Nat /\ tx \in Nat /\ cancelHash[o] \in Nat
  BY DEF TrackerType, MemoryType, CreationTx, ChosenTx
<1>2. create <= Len(txs[o]) /\ tx <= Len(txs[o])
  BY <1>1 DEF CreationTx, ChosenTx, CancelInv, HashInv
<1>3. CASE tx = 0
  <2>1. Return(c, o, DecidedState(o, 0, 0, "None"), DecidedId(o, 0))
    BY <1>3 DEF ChooseTx
  <2>2. "None" \in Codes(o, 0) /\ 0 <= Len(txs[o])
    BY DEF Codes, ChainType
  <2> QED
    BY <2>1, <2>2, DecidedCancel, DecidedTypes, ReturnCancel
<1>4. CASE tx # 0
  <2>1. /\ asking.ord = o /\ asking.tx = tx /\ asking.pc = "tx"
        /\ asking.cancel # 0 => asking.tx >= 2
    BY <1>1 DEF Idle, ChosenTx, CancelInv, CancelHashInv
  <2>2. req' = [req EXCEPT ![c] = asking] /\ UNCHANGED tracker
    BY <1>4 DEF ChooseTx
  <2> HIDE DEF asking, tx, create
  <2>3. \A q \in Callers : req'[q] = req[q] \/ (q = c /\ req'[q] = asking)
    BY <2>2 DEF TaskType
  <2>4. HashInv'
    BY <1>2, <2>1, <2>2, <2>3 DEF CancelInv, HashInv, tracker, Callers
  <2>5. CanceledIsConfirmed'
    BY <2>2 DEF CancelInv, CanceledIsConfirmed, TxConfirmed, tracker
  <2>6. CancelHashInv'
    BY <2>1, <2>3 DEF CancelInv, CancelHashInv, CancelRequest
  <2> QED
    BY <2>4, <2>5, <2>6 DEF CancelInv
<1> QED
  BY <1>3, <1>4

(* Concluding with a unique match reports OPEN or PARTIALLY_FILLED only.   *)
LEMMA ConcludeCancel ==
  ASSUME TrackerType, TaskType, ChainType, MemoryType, CancelInv,
         NEW c \in Callers, NEW o \in Orders, c \in Orders => c = o,
         NEW matches \in SUBSET Nat, Conclude(c, o, matches),
         UNCHANGED <<txs, createHash, cancelHash>>
  PROVE  CancelInv'
<1>1. CASE \E i \in matches : matches = {i}
  <2> DEFINE i == CHOOSE k \in matches : TRUE
  <2>1. i \in Nat
    BY <1>1
  <2>2. Return(c, o, FilledState(o), NativeId(i))
    BY <1>1 DEF Conclude
  <2>3. NativeId(i).kind = "id" /\ FilledState(o) # "CANCELED"
    BY DEF NativeId, FilledState
  <2> HIDE DEF i
  <2>4. FilledState(o) \in States /\ NativeId(i) \in ExchangeIds
    BY <2>1, IdTypes DEF FilledState, States, Active
  <2> QED
    BY <2>2, <2>3, <2>4, ReturnCancel
<1>2. CASE ~ \E i \in matches : matches = {i}
  BY <1>2, ChooseTxCancel DEF Conclude
<1> QED
  BY <1>1, <1>2

(* Listing the candidates cancels no order by itself.                      *)
LEMMA ReadCandidatesCancel ==
  ASSUME TrackerType, TaskType, ChainType, MemoryType, CancelInv,
         NEW c \in Callers, NEW o \in Orders, c \in Orders => c = o,
         NEW refs \in SUBSET Nat, NEW recovered \in BOOLEAN,
         ReadCandidates(c, o, refs, recovered),
         UNCHANGED <<txs, createHash, cancelHash>>
  PROVE  CancelInv'
<1> DEFINE cands == Candidates(o, refs)
           asking == [Idle EXCEPT !.pc = "detail", !.ord = o,
                                  !.cands = cands, !.recovered = recovered]
<1>1. CASE cands = {}
  BY <1>1, ConcludeCancel DEF ReadCandidates
<1>2. CASE cands # {}
  <2>1. asking.ord = o /\ asking.tx = 0 /\ asking.cancel = 0 /\ asking.pc = "detail"
    BY DEF Idle
  <2>2. req' = [req EXCEPT ![c] = asking] /\ UNCHANGED tracker
    BY <1>2 DEF ReadCandidates
  <2> HIDE DEF asking
  <2>3. \A q \in Callers : req'[q] = req[q] \/ (q = c /\ req'[q] = asking)
    BY <2>2 DEF TaskType
  <2>4. HashInv'
    BY <2>1, <2>2, <2>3 DEF CancelInv, HashInv, tracker, Callers, ChainType
  <2>5. CanceledIsConfirmed'
    BY <2>2 DEF CancelInv, CanceledIsConfirmed, TxConfirmed, tracker
  <2>6. CancelHashInv'
    BY <2>1, <2>3 DEF CancelInv, CancelHashInv, CancelRequest
  <2> QED
    BY <2>4, <2>5, <2>6 DEF CancelInv
<1> QED
  BY <1>1, <1>2

(* Hashes stay those of admitted transactions, and no cancel is reported   *)
(* without one, through every step.                                        *)
LEMMA CancelInductive == Spec => []CancelInv
<1> USE LifecycleAssumption
<1>1. Init => CancelInv
  <2> SUFFICES ASSUME Init PROVE CancelInv
    OBVIOUS
  <2>1. \A o \in Orders : Len(txs[o]) = 1
    BY DEF Init
  <2>2. HashInv
    BY <2>1 DEF Init, HashInv, NoId, Idle, Callers
  <2>3. CanceledIsConfirmed
    BY DEF Init, CanceledIsConfirmed
  <2>4. CancelHashInv
    BY DEF Init, CancelHashInv, CancelRequest, Idle
  <2> QED
    BY <2>2, <2>3, <2>4 DEF CancelInv
<1>2. TypeOK /\ CancelInv /\ [Next]_vars => CancelInv'
  <2> SUFFICES ASSUME TypeOK, CancelInv, [Next]_vars PROVE CancelInv'
    OBVIOUS
  <2> USE DEF TypeOK
  <2>0. /\ \A o \in Orders : Len(txs[o]) \in Nat /\ o \in Callers
        /\ \A c \in Callers : req[c].pc # "idle" => req[c].ord \in Orders
        /\ UNCHANGED <<cancelHash, req>> => CancelHashInv'
    BY DEF CancelInv, CancelHashInv, CancelRequest, ChainType, Callers, TaskType
  <2>1. CASE UNCHANGED <<txs, tracker, createHash, cancelHash, req>>
    <3>1. HashInv'
      BY <2>1 DEF CancelInv, HashInv, tracker
    <3>2. CanceledIsConfirmed'
      BY <2>1 DEF CancelInv, CanceledIsConfirmed, TxConfirmed, tracker
    <3> QED
      BY <2>0, <2>1, <3>1, <3>2 DEF CancelInv
  <2>2. ASSUME NEW o \in Orders, Place(o) PROVE CancelInv'
    BY <2>0, <2>2 DEF Place, chain, memory, TrackerType, CancelInv, HashInv,
       CanceledIsConfirmed, TxConfirmed
  <2>3. ASSUME NEW o \in Orders, PlaceStep(o) PROVE CancelInv'
    <3>1. CASE Snapshot(o)
      BY <2>1, <3>1 DEF Snapshot, chain
    <3>2. CASE CreateAdmitted(o)
      <4>1. /\ \A q \in Orders : Len(txs'[q]) = Len(txs[q])
            /\ \A q \in Orders : \A n \in 2..Len(txs[q]) : txs'[q][n].st = txs[q][n].st
        <5> DEFINE e == [txs[o][1] EXCEPT !.st = "mempool"]
        <5>1. txs' = [txs EXCEPT ![o] = [txs[o] EXCEPT ![1] = e]]
          BY <3>2 DEF CreateAdmitted
        <5> HIDE DEF e
        <5>2. txs'[o] = [txs[o] EXCEPT ![1] = e] /\ \A q \in Orders : q # o => txs'[q] = txs[q]
          BY <5>1 DEF ChainType
        <5>3. Len(txs'[o]) = Len(txs[o]) /\ \A n \in 2..Len(txs[o]) : txs'[o][n] = txs[o][n]
          BY <5>2 DEF ChainType
        <5> QED
          BY <5>2, <5>3
      <4>2. UNCHANGED <<tracker, createHash, cancelHash, req>>
        BY <3>2 DEF CreateAdmitted, memory
      <4>3. HashInv'
        BY <2>0, <4>1, <4>2 DEF CancelInv, HashInv, tracker
      <4>4. \A q \in Orders : DOMAIN txs'[q] = DOMAIN txs[q]
        BY <2>0, <4>1, TxExcept, <3>2 DEF CreateAdmitted, ChainType
      <4>5. CanceledIsConfirmed'
        BY <2>0, <4>1, <4>2, <4>4 DEF CancelInv, CanceledIsConfirmed, TxConfirmed, tracker
      <4> QED
        BY <2>0, <4>2, <4>3, <4>5 DEF CancelInv
    <3>3. CASE CreateAnswer(o)
      <4>1. /\ CanceledIsConfirmed'
            /\ \A q \in Orders : exId'[q].kind = "tx" => exId'[q].n <= Len(txs[q])
        BY <3>3, IdTypes, ApplyUpdateCancel
        DEF CreateAnswer, CancelInv, HashInv, States, Active, Hash, chain
      <4> QED
        BY <2>0, <3>3, <4>1 DEF CreateAnswer, CancelInv, HashInv, MemoryType, chain
    <3>4. CASE PlaceFails(o)
      <4>1. /\ CanceledIsConfirmed'
            /\ \A q \in Orders : exId'[q].kind = "tx" => exId'[q].n <= Len(txs[q])
        BY <3>4, IdTypes, ApplyUpdateCancel
        DEF PlaceFails, CancelInv, HashInv, States, Terminal, NoId, chain
      <4> QED
        BY <2>0, <3>4, <4>1 DEF PlaceFails, CancelInv, HashInv, chain, memory
    <3> QED
      BY <2>3, <3>1, <3>2, <3>3, <3>4 DEF PlaceStep
  <2>4. ASSUME NEW o \in Orders, StartPoll(o) \/ Cancel(o) PROVE CancelInv'
    <3>1. PICK c \in Callers :
            /\ c \in Orders => c = o
            /\ req'[c].ord = o /\ req'[c].tx = 0 /\ req'[c].cancel = 0
            /\ req'[c].pc # "sent"
            /\ \A q \in Callers : q # c => req'[q] = req[q]
      <4> DEFINE Started(c) ==
             /\ c \in Orders => c = o
             /\ req'[c].ord = o /\ req'[c].tx = 0 /\ req'[c].cancel = 0
             /\ req'[c].pc # "sent"
             /\ \A q \in Callers : q # c => req'[q] = req[q]
      <4>1. CASE StartPoll(o)
        <5>1. Started(Poll) /\ Poll \in Callers
          BY <2>0, <4>1, LifecycleAssumption DEF StartPoll, Callers, Idle, TaskType
        <5> QED
          BY <5>1
      <4>2. CASE Cancel(o)
        <5>1. Started(o) /\ o \in Callers
          BY <2>0, <4>2 DEF Cancel, Callers, Idle, TaskType
        <5> QED
          BY <5>1
      <4> QED
        BY <2>4, <4>1, <4>2
    <3>2. UNCHANGED <<txs, tracker, createHash, cancelHash>>
      BY <2>4 DEF StartPoll, Cancel, chain, memory
    <3>3. CancelHashInv'
      BY <3>1, <3>2 DEF CancelInv, CancelHashInv, CancelRequest
    <3>4. \A q \in Callers : req'[q].pc # "idle" => req'[q].tx <= Len(txs[req'[q].ord])
      <4>1. Len(txs[o]) >= 0
        BY <2>0 DEF CancelInv, HashInv
      <4> QED
        BY <3>1, <4>1 DEF CancelInv, HashInv
    <3>5. \A q \in Orders : req'[q].pc # "idle" => req'[q].ord = q
      BY <3>1 DEF CancelInv, HashInv, Callers
    <3>6. HashInv'
      BY <3>2, <3>4, <3>5 DEF CancelInv, HashInv, tracker
    <3>7. CanceledIsConfirmed'
      BY <3>2 DEF CancelInv, CanceledIsConfirmed, TxConfirmed, tracker
    <3> QED
      BY <3>3, <3>6, <3>7 DEF CancelInv
  <2>5. ASSUME NEW o \in Orders, CancelAdmitted(o) PROVE CancelInv'
    <3>1. /\ \A q \in Orders : Len(txs'[q]) >= Len(txs[q]) /\ Len(txs'[q]) \in Nat
          /\ Len(txs'[o]) = Len(txs[o]) + 1
          /\ \A q \in Orders : \A n \in 1..Len(txs[q]) : txs'[q][n] = txs[q][n]
      BY <2>5 DEF CancelAdmitted, ChainType
    <3>2. /\ req[o].pc = "post" /\ req[o].ord = o
          /\ req' = [req EXCEPT ![o].pc = "sent", ![o].tx = Len(txs[o]) + 1]
          /\ UNCHANGED <<tracker, createHash, cancelHash>>
      BY <2>5 DEF CancelAdmitted, CancelInv, HashInv, memory
    <3>3. /\ \A q \in Callers : q # o => req'[q] = req[q]
          /\ req'[o].ord = o /\ req'[o].tx = Len(txs[o]) + 1
          /\ req'[o].cancel = req[o].cancel
      BY <2>0, <3>2 DEF TaskType, Requests
    <3>4. HashInv'
      <4>1. \A q \in Orders :
              /\ Len(txs'[q]) >= 1
              /\ createHash'[q] <= Len(txs'[q]) /\ cancelHash'[q] <= Len(txs'[q])
              /\ exId'[q].kind = "tx" => exId'[q].n <= Len(txs'[q])
        <5> SUFFICES ASSUME NEW q \in Orders
                     PROVE  /\ Len(txs'[q]) >= 1
                            /\ createHash'[q] <= Len(txs'[q]) /\ cancelHash'[q] <= Len(txs'[q])
                            /\ exId'[q].kind = "tx" => exId'[q].n <= Len(txs'[q])
          OBVIOUS
        <5>1. /\ createHash[q] \in Nat /\ cancelHash[q] \in Nat /\ exId[q].n \in Nat
              /\ Len(txs[q]) \in Nat /\ Len(txs'[q]) \in Nat /\ Len(txs'[q]) >= Len(txs[q])
          BY <2>0, <3>1 DEF TrackerType, MemoryType
        <5>2. createHash'[q] = createHash[q] /\ cancelHash'[q] = cancelHash[q] /\ exId'[q] = exId[q]
          BY <3>2 DEF tracker
        <5>3. /\ Len(txs[q]) >= 1
              /\ createHash[q] <= Len(txs[q]) /\ cancelHash[q] <= Len(txs[q])
              /\ exId[q].kind = "tx" => exId[q].n <= Len(txs[q])
          BY DEF CancelInv, HashInv
        <5> QED
          BY <5>1, <5>2, <5>3
      <4>2. \A q \in Orders : req'[q].pc # "idle" => req'[q].ord = q
        BY <2>0, <3>3 DEF CancelInv, HashInv
      <4>3. \A c \in Callers : req'[c].pc # "idle" => req'[c].tx <= Len(txs'[req'[c].ord])
        <5> SUFFICES ASSUME NEW c \in Callers, req'[c].pc # "idle"
                     PROVE  req'[c].tx <= Len(txs'[req'[c].ord])
          OBVIOUS
        <5>1. CASE c = o
          BY <3>1, <3>3, <5>1
        <5>2. CASE c # o
          <6>1. req'[c] = req[c] /\ req[c].ord \in Orders /\ req[c].tx \in Nat
            BY <2>0, <3>3, <5>2 DEF TaskType, Requests
          <6>2. req[c].tx <= Len(txs[req[c].ord])
            BY <6>1 DEF CancelInv, HashInv
          <6> QED
            BY <2>0, <3>1, <6>1, <6>2
        <5> QED
          BY <5>1, <5>2
      <4> QED
        BY <4>1, <4>2, <4>3 DEF HashInv
    <3>5. CanceledIsConfirmed'
      <4>1. \A q \in Orders : \A n \in 2..Len(txs[q]) :
              TxConfirmed(q, n) => n \in 2..Len(txs'[q]) /\ TxConfirmed(q, n)'
        <5>1. \A q \in Orders : DOMAIN txs'[q] = 1..Len(txs'[q])
          BY <2>5 DEF CancelAdmitted, ChainType
        <5> QED
          BY <2>0, <3>1, <5>1 DEF TxConfirmed
      <4> QED
        BY <3>2, <4>1 DEF CancelInv, CanceledIsConfirmed, tracker
    <3>6. CancelHashInv'
      <4>1. req'[o].cancel = 0 /\ req'[o].tx >= 2
        BY <2>0, <3>2, <3>3 DEF CancelInv, HashInv, CancelHashInv, CancelRequest
      <4> QED
        BY <3>2, <3>3, <4>1 DEF CancelInv, CancelHashInv, CancelRequest
    <3> QED
      BY <3>4, <3>5, <3>6 DEF CancelInv
  <2>6. ASSUME NEW o \in Orders, CancelAnswer(o) PROVE CancelInv'
    <3>1. /\ CanceledIsConfirmed'
          /\ \A q \in Orders : exId'[q].kind = "tx" => exId'[q].n <= Len(txs[q])
      BY <2>6, IdTypes, ApplyUpdateCancel
      DEF CancelAnswer, CancelInv, States, Active, NoId, chain
    <3>2. req[o].tx <= Len(txs[o]) /\ req[o].tx >= 2
      BY <2>0, <2>6 DEF CancelAnswer, CancelInv, HashInv, CancelHashInv, CancelRequest
    <3>3. \A q \in Callers : req'[q] = Idle \/ req'[q] = req[q]
      BY <2>6 DEF CancelAnswer, TaskType
    <3>4. CancelHashInv'
      BY <2>0, <2>6, <3>2, <3>3
      DEF CancelAnswer, CancelInv, CancelHashInv, CancelRequest, MemoryType, Idle
    <3> QED
      BY <2>0, <2>6, <3>1, <3>2, <3>3, <3>4
      DEF CancelAnswer, CancelInv, HashInv, MemoryType, Idle, chain
  <2>7. ASSUME NEW o \in Orders, TradeUpdate(o) PROVE CancelInv'
    BY <2>0, <2>7 DEF TradeUpdate, chain, memory, CancelInv, HashInv, CanceledIsConfirmed, TxConfirmed
  <2>8. ASSUME NEW c \in Callers, RequestStep(c) PROVE CancelInv'
    <3> DEFINE o == req[c].ord
    <3>0. /\ req[c].pc # "idle"
          /\ o \in Orders /\ (c \in Orders => c = o)
          /\ req[c].refs \in SUBSET Nat /\ req[c].cands \in SUBSET Nat
          /\ req[c].matches \in SUBSET Nat /\ req[c].tx \in Nat
          /\ req[c].tx <= Len(txs[o])
      <4>1. req[c].pc # "idle"
        BY <2>8 DEF RequestStep, ReadRefs, Resume, Recover, ReadDetail, ReadTx, RequestFails
      <4> QED
        BY <2>0, <4>1 DEF TaskType, Requests, CancelInv, HashInv
    <3>a. UNCHANGED <<txs, createHash, cancelHash>>
      BY <2>8 DEF RequestStep, ReadRefs, Resume, Recover, ReadDetail, ReadTx, RequestFails,
         chain, memory
    <3>b. ASSUME NEW r, r.ord = o, r.tx <= Len(txs[o]), r.cancel = 0, r.pc # "sent",
                 req' = [req EXCEPT ![c] = r], UNCHANGED tracker
          PROVE  CancelInv'
      <4>1. \A q \in Callers : req'[q] = req[q] \/ (q = c /\ req'[q] = r)
        BY <3>b DEF TaskType
      <4>2. CancelHashInv'
        BY <3>a, <3>b, <4>1 DEF CancelInv, CancelHashInv, CancelRequest
      <4> QED
        BY <2>0, <3>0, <3>a, <3>b, <4>1, <4>2
        DEF CancelInv, HashInv, CanceledIsConfirmed, TxConfirmed, tracker
    <3>1. CASE ReadRefs(c)
      <4> DEFINE r == [req[c] EXCEPT !.pc = "resume", !.refs = UserMarketOrders]
      <4>1. r.ord = o /\ r.tx = req[c].tx /\ r.cancel = 0 /\ r.pc = "resume"
        BY <3>1 DEF ReadRefs, TaskType, Requests, CancelInv, CancelHashInv, CancelRequest
      <4>2. req' = [req EXCEPT ![c] = r] /\ UNCHANGED tracker
        BY <3>1 DEF ReadRefs
      <4> HIDE DEF r
      <4> QED
        BY <3>0, <3>b, <4>1, <4>2
    <3>2. CASE Resume(c)
      <4>1. CASE exId[o].kind = "id" /\ exId[o].n \in req[c].refs
        <5> DEFINE st == IF ost[o] = "PENDING_CANCEL" THEN "PENDING_CANCEL" ELSE FilledState(o)
        <5>1. Return(c, o, st, exId[o])
          BY <3>2, <4>1 DEF Resume
        <5>2. st \in States /\ st # "CANCELED" /\ exId[o] \in ExchangeIds
          BY <3>0 DEF FilledState, States, Active, TrackerType, ExchangeIds
        <5> HIDE DEF st
        <5> QED
          BY <3>0, <3>a, <4>1, <5>1, <5>2, ReturnCancel
      <4>2. CASE /\ ~(exId[o].kind = "id" /\ exId[o].n \in req[c].refs)
                 /\ hasSpec[o]
        <5>1. ReadCandidates(c, o, req[c].refs, FALSE)
          BY <3>2, <4>2 DEF Resume
        <5> QED
          BY <3>0, <3>a, <5>1, ReadCandidatesCancel
      <4>3. CASE /\ ~(exId[o].kind = "id" /\ exId[o].n \in req[c].refs)
                 /\ ~hasSpec[o] /\ exId[o].kind = "tx"
        <5> DEFINE r == [req[c] EXCEPT !.pc = "recover", !.tx = exId[o].n]
        <5>1. r.ord = o /\ r.tx = exId[o].n /\ r.cancel = req[c].cancel /\ r.pc = "recover"
          BY DEF TaskType, Requests
        <5>2. req' = [req EXCEPT ![c] = r] /\ UNCHANGED tracker
          BY <3>2, <4>3 DEF Resume
        <5>3. exId[o].n <= Len(txs[o])
          BY <3>0, <4>3 DEF CancelInv, HashInv
        <5>4. r.cancel = 0
          BY <3>2, <5>1 DEF Resume, CancelInv, CancelHashInv, CancelRequest
        <5> HIDE DEF r
        <5> QED
          BY <3>b, <5>1, <5>2, <5>3, <5>4
      <4>4. CASE /\ ~(exId[o].kind = "id" /\ exId[o].n \in req[c].refs)
                 /\ ~hasSpec[o] /\ exId[o].kind # "tx"
        <5>1. ChooseTx(c, o)
          BY <3>2, <4>4 DEF Resume
        <5> QED
          BY <3>0, <3>a, <5>1, ChooseTxCancel
      <4> QED
        BY <4>1, <4>2, <4>3, <4>4
    <3>3. CASE Recover(c)
      <4>1. ReadCandidates(c, o, req[c].refs, TRUE) \/ ChooseTx(c, o)
        BY <3>3 DEF Recover
      <4> QED
        BY <3>0, <3>a, <4>1, ReadCandidatesCancel, ChooseTxCancel
    <3>4. CASE ReadDetail(c)
      <4> DEFINE cands == req[c].cands
      <4>1. PICK i \in cands, matches \in SUBSET Nat :
              \/ Conclude(c, o, matches)
              \/ /\ req' = [req EXCEPT ![c].cands = cands \ {i}, ![c].matches = matches]
                 /\ UNCHANGED tracker
        BY <3>0, <3>4 DEF ReadDetail
      <4>2. CASE Conclude(c, o, matches)
        BY <3>0, <3>a, <4>2, ConcludeCancel
      <4>3. CASE /\ req' = [req EXCEPT ![c].cands = cands \ {i}, ![c].matches = matches]
                 /\ UNCHANGED tracker
        <5> DEFINE r == [req[c] EXCEPT !.cands = cands \ {i}, !.matches = matches]
        <5>1. r.ord = o /\ r.tx = req[c].tx /\ r.cancel = 0 /\ r.pc = "detail"
          BY <3>4 DEF ReadDetail, TaskType, Requests, CancelInv, CancelHashInv, CancelRequest
        <5>2. req' = [req EXCEPT ![c] = r]
          BY <4>3
        <5> HIDE DEF r
        <5> QED
          BY <3>0, <3>b, <4>3, <5>1, <5>2
      <4> QED
        BY <4>1, <4>2, <4>3
    <3>5. CASE ReadTx(c)
      <4> DEFINE tx == req[c].tx
      <4>1. PICK code \in Codes(o, tx) :
              Return(c, o, DecidedState(o, req[c].create, req[c].cancel, code), DecidedId(o, tx))
        BY <3>5 DEF ReadTx
      <4>2. req[c].cancel # 0 => tx >= 2
        BY DEF CancelInv, CancelHashInv, CancelRequest
      <4> QED
        BY <3>0, <3>a, <4>1, <4>2, DecidedCancel, DecidedTypes, ReturnCancel
    <3>6. CASE RequestFails(c)
      <4>1. \A q \in Callers : req'[q] = Idle \/ req'[q] = req[q]
        BY <3>6 DEF RequestFails, TaskType
      <4>2. UNCHANGED tracker
        BY <3>6 DEF RequestFails
      <4>3. HashInv'
        BY <2>0, <3>a, <4>1, <4>2 DEF CancelInv, HashInv, tracker, Idle
      <4>4. CanceledIsConfirmed'
        BY <3>a, <4>2 DEF CancelInv, CanceledIsConfirmed, TxConfirmed, tracker
      <4>5. CancelHashInv'
        BY <3>a, <4>1 DEF CancelInv, CancelHashInv, CancelRequest, Idle
      <4> QED
        BY <4>3, <4>4, <4>5 DEF CancelInv
    <3> QED
      BY <2>8, <3>1, <3>2, <3>3, <3>4, <3>5, <3>6 DEF RequestStep
  <2>9. CASE Commit
    <3>1. PICK o \in Orders, n \in Nat, st \in {"ok", "failed"} : Execute(o, n, st)
      <4>1. ASSUME mempool # <<>> PROVE Head(mempool) \in Orders \X Nat
        BY <4>1 DEF ChainType
      <4> QED
        BY <2>9, <4>1 DEF Commit, CommitCreate, CommitCancel
    <3>2. /\ \A q \in Orders : Len(txs'[q]) = Len(txs[q])
          /\ \A q \in Orders : \A k \in 1..Len(txs[q]) :
               txs[q][k].st = "ok" => txs'[q][k].st = "ok"
          /\ \A q \in Orders : DOMAIN txs[q] = 1..Len(txs[q]) /\ DOMAIN txs'[q] = DOMAIN txs[q]
      BY <3>1 DEF Execute, ChainType
    <3>3. UNCHANGED <<tracker, createHash, cancelHash, req>>
      BY <3>1 DEF Execute, memory
    <3>4. HashInv'
      BY <2>0, <3>2, <3>3 DEF CancelInv, HashInv, tracker
    <3>5. CanceledIsConfirmed'
      BY <2>0, <3>2, <3>3 DEF CancelInv, CanceledIsConfirmed, TxConfirmed, tracker
    <3> QED
      BY <2>0, <3>3, <3>4, <3>5 DEF CancelInv
  <2>10. CASE Fill \/ OtherPlaces \/ OtherCancels \/ Tick
    BY <2>1, <2>10 DEF Fill, OtherPlaces, OtherCancels, Tick, chain, memory
  <2>11. CASE Restart
    <3>1. \A q \in Callers : req'[q] = Idle
      BY <2>11 DEF Restart
    <3>2. CancelHashInv'
      BY <2>11, <3>1 DEF Restart, CancelHashInv, CancelRequest, Idle
    <3> QED
      BY <2>0, <2>11, <3>1, <3>2 DEF Restart, CancelInv, HashInv, CanceledIsConfirmed, TxConfirmed,
         tracker, chain, Idle
  <2>12. CASE UNCHANGED vars
    BY <2>1, <2>12 DEF vars, chain, memory
  <2> QED
    BY <2>2, <2>3, <2>4, <2>5, <2>6, <2>7, <2>8, <2>9, <2>10, <2>11, <2>12
    DEF Next, CancelStep
<1> QED
  BY <1>1, <1>2, TypeCorrect, PTL DEF Spec

(* No order is reported canceled without one of its own cancel             *)
(* transactions in a block, through lost answers, stale polls, repeated    *)
(* cancels and restarts.                                                   *)
THEOREM CanceledConfirmed == Spec => []CanceledIsConfirmed
<1>1. CancelInv => CanceledIsConfirmed
  BY DEF CancelInv
<1> QED
  BY <1>1, CancelInductive, PTL

-----------------------------------------------------------------------------
(***************************************************************************)
(* Which ids the tracked orders hold, why an order is reported failed, and *)
(* which order on the book a cancel names.                                 *)
(*                                                                         *)
(* When orders look alike the connector can take another one's id; the     *)
(* proofs show that this is the only way: without such twins, every cancel *)
(* names its own order, and what is reported canceled is off the book.     *)
(***************************************************************************)
-----------------------------------------------------------------------------
(* What one step of a status request does, for every proof below.          *)

(* Request c is r from now on; the others stay.                            *)
Becomes(c, r) == /\ req'[c] = r
                 /\ \A d \in Callers : d # c => req'[d] = req[d]

(* Request c finds that candidate i looks like its order.                  *)
Matching(c, i) == \/ i \in req[c].matches
                  \/ /\ i \in req[c].cands
                     /\ LooksLike(i, req[c].ord)
                     /\ req[c].recovered => Near(i, req[c].ord)

(* The request waits for another answer, as r.                             *)
Waits(c, r) ==
  /\ r \in Requests /\ r.ord = req[c].ord
  /\ r.refs \in {{}, req[c].refs, UserMarketOrders}
  /\ \/ /\ r.pc \in {"resume", "recover"}
        /\ r.cands = req[c].cands /\ r.matches = req[c].matches
        /\ r.recovered = req[c].recovered
     \/ /\ r.pc = "detail" /\ r.matches = {}
        /\ r.cands = Candidates(r.ord, req[c].refs)
        /\ r.recovered \/ hasSpec[r.ord]
     \/ /\ r.pc = "detail" /\ req[c].pc = "detail"
        /\ r.cands \subseteq req[c].cands /\ r.recovered = req[c].recovered
        /\ \A i \in r.matches : Matching(c, i)
     \/ /\ r.pc = "tx" /\ r.cands = {} /\ r.matches = {}
        /\ r.tx # 0 /\ (r.create # 0 \/ r.cancel # 0)

(* The request may report its order failed: no hash of it is known, or the *)
(* transaction it read failed.                                             *)
MayFail(c) == LET o == req[c].ord IN
  \/ CreationTx(o) = 0
  \/ /\ req[c].pc = "tx"
     /\ \/ req[c].create = 0 /\ req[c].cancel = 0
        \/ req[c].tx = 0
        \/ txs[o][req[c].tx].st = "failed"

(* The request returns: the id the order has, a match, or what a           *)
(* transaction decides.                                                    *)
Returns(c, state, id) ==
  LET o == req[c].ord IN
  /\ Return(c, o, state, id)
  /\ state \in States /\ id \in ExchangeIds
  /\ state = "none" => ost[o] = "none"
  /\ state = "FAILED" => ost[o] = "FAILED" \/ MayFail(c)
  /\ \/ /\ id = exId[o] \/ \E n \in Nat \ {0} : id = Hash(n)
        /\ UNCHANGED <<hasSpec, preIds>>
     \/ /\ req[c].pc = "detail"
        /\ \E i \in Nat : id = NativeId(i) /\ Matching(c, i)
        /\ hasSpec' = [hasSpec EXCEPT ![o] = FALSE]
        /\ preIds' = [preIds EXCEPT ![o] = {}]

(* The four ways a request goes on.                                        *)
Outcome(c) ==
  \/ \E r : Becomes(c, r) /\ Waits(c, r) /\ UNCHANGED <<tracker, hasSpec, preIds>>
  \/ \E state, id : Returns(c, state, id)
  \/ Becomes(c, Idle) /\ UNCHANGED <<tracker, hasSpec, preIds>>

(* Replacing the request of c.                                             *)
LEMMA ReqExcept ==
  ASSUME TaskType, NEW c \in Callers, NEW r, req' = [req EXCEPT ![c] = r]
  PROVE  Becomes(c, r)
BY DEF TaskType, Becomes

(* Without an id the request asks for a transaction, or decides at once.   *)
LEMMA ChooseTxOutcome ==
  ASSUME TrackerType, MemoryType, TaskType, NEW c \in Callers, req[c].ord \in Orders,
         ChooseTx(c, req[c].ord), UNCHANGED <<hasSpec, preIds>>
  PROVE  Outcome(c)
<1> DEFINE o == req[c].ord
           create == CreationTx(o)
           tx == ChosenTx(o, create)
           asking == [Idle EXCEPT !.pc = "tx", !.ord = o, !.create = create,
                              !.cancel = cancelHash[o], !.tx = tx]
<1>1. create \in Nat /\ tx \in Nat /\ cancelHash[o] \in Nat
  BY DEF TrackerType, MemoryType, CreationTx, ChosenTx
<1>2. CASE tx = 0
  <2> DEFINE state == DecidedState(o, 0, 0, "None")
             id == DecidedId(o, 0)
  <2>1. Return(c, o, state, id)
    BY <1>2 DEF ChooseTx
  <2>2. state \in States /\ id \in ExchangeIds /\ id = exId[o]
    BY DecidedTypes DEF DecidedId
  <2>3. CreationTx(o) = 0
    BY <1>1, <1>2 DEF ChosenTx
  <2>4. state = "none" => ost[o] = "none"
    BY DEF DecidedState, FilledState
  <2> HIDE DEF state, id
  <2>5. Returns(c, state, id)
    BY <2>1, <2>2, <2>3, <2>4 DEF Returns, MayFail
  <2> QED
    BY <2>5 DEF Outcome
<1>3. CASE tx # 0
  <2>1. /\ asking \in Requests /\ asking.ord = o /\ asking.refs = {} /\ asking.pc = "tx"
        /\ asking.cands = {} /\ asking.matches = {} /\ asking.tx # 0
        /\ asking.create # 0 \/ asking.cancel # 0
    BY <1>1, <1>3 DEF Requests, Idle, ChosenTx
  <2>2. req' = [req EXCEPT ![c] = asking] /\ UNCHANGED tracker
    BY <1>3 DEF ChooseTx
  <2> HIDE DEF asking
  <2>3. Becomes(c, asking) /\ Waits(c, asking)
    BY <2>1, <2>2, ReqExcept DEF Waits
  <2> QED
    BY <2>2, <2>3 DEF Outcome
<1> QED
  BY <1>2, <1>3

(* After the last candidate: a unique match, or a transaction decides.     *)
LEMMA ConcludeOutcome ==
  ASSUME TrackerType, MemoryType, TaskType, NEW c \in Callers, req[c].ord \in Orders,
         NEW matches \in SUBSET Nat, Conclude(c, req[c].ord, matches),
         matches # {} => req[c].pc = "detail",
         \A i \in matches : Matching(c, i)
  PROVE  Outcome(c)
<1> DEFINE o == req[c].ord
<1>1. CASE \E i \in matches : matches = {i}
  <2>1. PICK i \in matches : matches = {i}
    BY <1>1
  <2>2. (CHOOSE k \in matches : TRUE) = i
    BY <2>1
  <2>3. /\ Return(c, o, FilledState(o), NativeId(i))
        /\ hasSpec' = [hasSpec EXCEPT ![o] = FALSE]
        /\ preIds' = [preIds EXCEPT ![o] = {}]
    BY <1>1, <2>2 DEF Conclude
  <2>4. /\ FilledState(o) \in States /\ FilledState(o) \notin {"FAILED", "none"}
        /\ NativeId(i) \in ExchangeIds /\ i \in Nat
    BY IdTypes DEF FilledState, States, Active
  <2>5. Returns(c, FilledState(o), NativeId(i))
    BY <2>1, <2>3, <2>4 DEF Returns
  <2> QED
    BY <2>5 DEF Outcome
<1>2. CASE ~ \E i \in matches : matches = {i}
  BY <1>2, ChooseTxOutcome DEF Conclude
<1> QED
  BY <1>1, <1>2

(* Listing the candidates: their details are asked for, if there are any.  *)
LEMMA ReadCandidatesOutcome ==
  ASSUME TrackerType, MemoryType, TaskType, NEW c \in Callers, req[c].ord \in Orders,
         req[c].refs \in SUBSET Nat, NEW recovered \in BOOLEAN,
         recovered \/ hasSpec[req[c].ord],
         ReadCandidates(c, req[c].ord, req[c].refs, recovered)
  PROVE  Outcome(c)
<1> DEFINE o == req[c].ord
           cands == Candidates(o, req[c].refs)
           asking == [Idle EXCEPT !.pc = "detail", !.ord = o,
                                  !.cands = cands, !.recovered = recovered]
<1>1. CASE cands = {}
  BY <1>1, ConcludeOutcome DEF ReadCandidates
<1>2. CASE cands # {}
  <2>1. cands \in SUBSET Nat
    BY DEF Candidates
  <2>2. /\ asking \in Requests /\ asking.ord = o /\ asking.refs = {} /\ asking.pc = "detail"
        /\ asking.matches = {} /\ asking.cands = cands /\ asking.recovered = recovered
    BY <2>1 DEF Requests, Idle
  <2>3. req' = [req EXCEPT ![c] = asking] /\ UNCHANGED <<tracker, hasSpec, preIds>>
    BY <1>2 DEF ReadCandidates
  <2> HIDE DEF asking
  <2>4. Becomes(c, asking) /\ Waits(c, asking)
    BY <2>2, <2>3, ReqExcept DEF Waits
  <2> QED
    BY <2>3, <2>4 DEF Outcome
<1> QED
  BY <1>1, <1>2

(* Every step of a status request goes on in one of these ways, and leaves *)
(* the chain, the clock, the hashes and the place tasks alone.             *)
LEMMA RequestOutcome ==
  ASSUME TypeOK, NEW c \in Callers, RequestStep(c)
  PROVE  /\ Outcome(c)
         /\ req[c].pc # "idle" /\ req[c].ord \in Orders /\ req[c] \in Requests
         /\ UNCHANGED <<chain, now, createHash, cancelHash, place, restarts>>
<1> USE DEF TypeOK
<1> DEFINE o == req[c].ord
<1>1. req[c].pc # "idle"
  BY DEF RequestStep, ReadRefs, Resume, Recover, ReadDetail, ReadTx, RequestFails
<1>2. UNCHANGED <<chain, now, createHash, cancelHash, place, restarts>>
  BY DEF RequestStep, ReadRefs, Resume, Recover, ReadDetail, ReadTx, RequestFails, memory
<1>3. /\ o \in Orders /\ req[c] \in Requests
      /\ req[c].refs \in SUBSET Nat /\ req[c].cands \in SUBSET Nat
      /\ req[c].matches \in SUBSET Nat /\ req[c].tx \in Nat
  BY <1>1 DEF TaskType, Requests
<1> SUFFICES Outcome(c)
  BY <1>1, <1>2, <1>3
<1>4. ASSUME NEW r \in Requests, r.ord = o, r.refs \in {{}, req[c].refs, UserMarketOrders},
             r.pc \in {"resume", "recover"}, r.cands = req[c].cands,
             r.matches = req[c].matches, r.recovered = req[c].recovered,
             req' = [req EXCEPT ![c] = r], UNCHANGED <<tracker, hasSpec, preIds>>
      PROVE  Outcome(c)
  <2>1. Becomes(c, r) /\ Waits(c, r)
    BY <1>4, ReqExcept DEF Waits
  <2> QED
    BY <1>4, <2>1 DEF Outcome
<1>5. CASE ReadRefs(c)
  <2> DEFINE r == [req[c] EXCEPT !.pc = "resume", !.refs = UserMarketOrders]
  <2>1. UserMarketOrders \in SUBSET Nat
    BY DEF UserMarketOrders, ChainType
  <2>2. /\ r \in Requests /\ r.ord = o /\ r.refs = UserMarketOrders /\ r.pc = "resume"
        /\ r.cands = req[c].cands /\ r.matches = req[c].matches
        /\ r.recovered = req[c].recovered
    BY <1>3, <2>1 DEF Requests
  <2>3. req' = [req EXCEPT ![c] = r] /\ UNCHANGED <<tracker, hasSpec, preIds>>
    BY <1>5 DEF ReadRefs, memory
  <2> HIDE DEF r
  <2> QED
    BY <1>4, <2>2, <2>3
<1>6. CASE Resume(c)
  <2>1. CASE exId[o].kind = "id" /\ exId[o].n \in req[c].refs
    <3> DEFINE state == IF ost[o] = "PENDING_CANCEL" THEN "PENDING_CANCEL" ELSE FilledState(o)
    <3>1. Return(c, o, state, exId[o]) /\ UNCHANGED <<hasSpec, preIds>>
      BY <1>6, <2>1 DEF Resume
    <3>2. state \in States /\ state \notin {"FAILED", "none"} /\ exId[o] \in ExchangeIds
      BY <1>3 DEF FilledState, States, Active, TrackerType, ExchangeIds
    <3> HIDE DEF state
    <3>3. Returns(c, state, exId[o])
      BY <3>1, <3>2 DEF Returns
    <3> QED
      BY <3>3 DEF Outcome
  <2>2. CASE ~(exId[o].kind = "id" /\ exId[o].n \in req[c].refs) /\ hasSpec[o]
    <3>1. ReadCandidates(c, o, req[c].refs, FALSE)
      BY <1>6, <2>2 DEF Resume
    <3> QED
      BY <1>3, <2>2, <3>1, ReadCandidatesOutcome
  <2>3. CASE /\ ~(exId[o].kind = "id" /\ exId[o].n \in req[c].refs)
             /\ ~hasSpec[o] /\ exId[o].kind = "tx"
    <3> DEFINE r == [req[c] EXCEPT !.pc = "recover", !.tx = exId[o].n]
    <3>1. exId[o].n \in Nat
      BY <1>3 DEF TrackerType
    <3>2. /\ r \in Requests /\ r.ord = o /\ r.refs = req[c].refs /\ r.pc = "recover"
          /\ r.cands = req[c].cands /\ r.matches = req[c].matches
          /\ r.recovered = req[c].recovered
      BY <1>3, <3>1 DEF Requests
    <3>3. req' = [req EXCEPT ![c] = r] /\ UNCHANGED <<tracker, hasSpec, preIds>>
      BY <1>6, <2>3 DEF Resume
    <3> HIDE DEF r
    <3> QED
      BY <1>4, <3>2, <3>3
  <2>4. CASE /\ ~(exId[o].kind = "id" /\ exId[o].n \in req[c].refs)
             /\ ~hasSpec[o] /\ exId[o].kind # "tx"
    <3>1. ChooseTx(c, o) /\ UNCHANGED <<hasSpec, preIds>>
      BY <1>6, <2>4 DEF Resume
    <3> QED
      BY <1>3, <3>1, ChooseTxOutcome
  <2> QED
    BY <2>1, <2>2, <2>3, <2>4
<1>7. CASE Recover(c)
  <2>1. \/ ReadCandidates(c, o, req[c].refs, TRUE)
        \/ ChooseTx(c, o) /\ UNCHANGED <<hasSpec, preIds>>
    BY <1>7 DEF Recover
  <2> QED
    BY <1>3, <2>1, ReadCandidatesOutcome, ChooseTxOutcome
<1>8. CASE ReadDetail(c)
  <2> DEFINE cands == req[c].cands
  <2> DEFINE Asked(i, matches) ==
               IF cands = {i} THEN Conclude(c, o, matches)
               ELSE /\ req' = [req EXCEPT ![c].cands = cands \ {i}, ![c].matches = matches]
                    /\ UNCHANGED <<tracker, hasSpec, preIds>>
  <2>1. PICK i \in cands, matches \in SUBSET Nat :
          (\A k \in matches : Matching(c, k)) /\ Asked(i, matches)
    <3>1. PICK i \in cands, shown \in {TRUE} \cup {~Faults} :
            Asked(i, IF shown /\ LooksLike(i, o) /\ (req[c].recovered => Near(i, o))
                     THEN req[c].matches \cup {i} ELSE req[c].matches)
      BY <1>8 DEF ReadDetail
    <3>2. i \in Nat /\ req[c].matches \in SUBSET Nat
      BY <1>3 DEF Requests
    <3> HIDE DEF Asked
    <3>3. CASE shown /\ LooksLike(i, o) /\ (req[c].recovered => Near(i, o))
      <4>1. Asked(i, req[c].matches \cup {i})
        BY <3>1, <3>3
      <4>2. \A k \in req[c].matches \cup {i} : Matching(c, k)
        BY <3>3 DEF Matching
      <4> QED
        BY <3>2, <4>1, <4>2
    <3>4. CASE ~(shown /\ LooksLike(i, o) /\ (req[c].recovered => Near(i, o)))
      <4>1. Asked(i, req[c].matches)
        BY <3>1, <3>4
      <4> QED
        BY <3>2, <4>1 DEF Matching
    <3> QED
      BY <3>3, <3>4
  <2>2. CASE cands = {i}
    BY <1>3, <1>8, <2>1, <2>2, ConcludeOutcome DEF ReadDetail
  <2>3. CASE cands # {i}
    <3> DEFINE r == [req[c] EXCEPT !.cands = cands \ {i}, !.matches = matches]
    <3>1. /\ r \in Requests /\ r.ord = o /\ r.refs = req[c].refs /\ r.pc = "detail"
          /\ r.cands \subseteq req[c].cands /\ r.matches = matches
          /\ r.recovered = req[c].recovered /\ req[c].pc = "detail"
      BY <1>3, <1>8 DEF Requests, ReadDetail
    <3>2. req' = [req EXCEPT ![c] = r] /\ UNCHANGED <<tracker, hasSpec, preIds>>
      BY <2>1, <2>3
    <3> HIDE DEF r
    <3>3. Becomes(c, r) /\ Waits(c, r)
      BY <2>1, <3>1, <3>2, ReqExcept DEF Waits
    <3> QED
      BY <3>2, <3>3 DEF Outcome
  <2> QED
    BY <2>2, <2>3
<1>9. CASE ReadTx(c)
  <2> DEFINE tx == req[c].tx
  <2>1. PICK code \in Codes(o, tx) :
          Return(c, o, DecidedState(o, req[c].create, req[c].cancel, code), DecidedId(o, tx))
    BY <1>9 DEF ReadTx
  <2> DEFINE state == DecidedState(o, req[c].create, req[c].cancel, code)
             id == DecidedId(o, tx)
  <2>2. state \in States /\ id \in ExchangeIds
    BY <1>3, DecidedTypes
  <2>3. id = exId[o] \/ \E n \in Nat \ {0} : id = Hash(n)
    BY <1>3 DEF DecidedId
  <2>4. code = "failed" => tx # 0 /\ txs[o][tx].st = "failed"
    BY DEF Codes
  <2>5. ASSUME state = "FAILED", ost[o] # "FAILED" PROVE MayFail(c)
    <3>1. code = "failed" \/ (req[c].create = 0 /\ req[c].cancel = 0)
      BY <2>5 DEF DecidedState, FilledState
    <3> QED
      BY <1>9, <2>4, <3>1 DEF MayFail, ReadTx
  <2>6. state = "none" => ost[o] = "none"
    BY DEF DecidedState, FilledState
  <2> HIDE DEF state, id
  <2>7. Returns(c, state, id)
    BY <1>9, <2>1, <2>2, <2>3, <2>5, <2>6 DEF Returns, ReadTx, memory, state, id
  <2> QED
    BY <2>7 DEF Outcome
<1>10. CASE RequestFails(c)
  <2>1. Becomes(c, Idle)
    BY <1>10, ReqExcept DEF RequestFails
  <2> QED
    BY <1>10, <2>1 DEF RequestFails, Outcome, memory
<1> QED
  BY <1>5, <1>6, <1>7, <1>8, <1>9, <1>10 DEF RequestStep

(* A request that goes on to cancel order o under the id given.            *)
Posting(r, o, id) == /\ id.kind = "id"
                     /\ r.pc = "post" /\ r.ord = o /\ r.target = id.n
                     /\ r.refs = {} /\ r.cands = {} /\ r.matches = {}

(* A return: the poller applies an update, a cancel task takes a native id.*)
LEMMA ReturnEffect ==
  ASSUME TaskType, NEW c \in Callers, NEW o \in Orders, NEW state, NEW id,
         Return(c, o, state, id)
  PROVE  \/ c = Poll /\ Becomes(c, Idle) /\ ApplyUpdate(o, state, id)
         \/ /\ c \in Orders /\ UNCHANGED tracker
            /\ Becomes(c, Idle) \/ \E r : Becomes(c, r) /\ Posting(r, o, id)
<1>1. CASE c = Poll
  BY <1>1, ReqExcept DEF Return
<1>2. CASE c # Poll
  <2> DEFINE posting == [Idle EXCEPT !.pc = "post", !.ord = o, !.target = id.n]
             r == IF id.kind = "id" THEN posting ELSE Idle
  <2>1. id.kind = "id" => Posting(posting, o, id)
    BY DEF Idle, Posting
  <2>2. c \in Orders /\ UNCHANGED tracker /\ req' = [req EXCEPT ![c] = r]
    BY <1>2 DEF Return, Callers
  <2> HIDE DEF posting
  <2>3. Becomes(c, r)
    BY <2>2, ReqExcept
  <2> QED
    BY <2>1, <2>2, <2>3
<1> QED
  BY <1>1, <1>2

(* An update touches its order only, and only if that is active.           *)
LEMMA UpdateEffect ==
  ASSUME TrackerType, NEW o \in Orders, NEW state, NEW id, ApplyUpdate(o, state, id)
  PROVE  /\ UNCHANGED createdAt
         /\ \A q \in Orders :
              \/ ost'[q] = ost[q] /\ (q = o => ost[o] \notin Active)
              \/ q = o /\ ost[o] \in Active /\ ost'[q] = state
         /\ \A q \in Orders :
              \/ exId'[q] = exId[q]
              \/ q = o /\ ost[o] \in Active /\ id # NoId /\ exId'[q] = id
<1>1. CASE ost[o] \in Active
  <2>1. ost' = [ost EXCEPT ![o] = state] /\ UNCHANGED createdAt
    BY <1>1 DEF ApplyUpdate
  <2>2. exId' = exId \/ (id # NoId /\ exId' = [exId EXCEPT ![o] = id])
    BY <1>1 DEF ApplyUpdate
  <2>3. \A q \in Orders : ost'[q] = IF q = o THEN state ELSE ost[q]
    BY <2>1 DEF TrackerType
  <2>4. \A q \in Orders : exId'[q] = exId[q] \/ (q = o /\ id # NoId /\ exId'[q] = id)
    BY <2>2 DEF TrackerType
  <2> QED
    BY <1>1, <2>1, <2>3, <2>4
<1>2. CASE ost[o] \notin Active
  <2>1. UNCHANGED <<createdAt, ost, exId>>
    BY <1>2 DEF ApplyUpdate
  <2> QED
    BY <1>2, <2>1
<1> QED
  BY <1>1, <1>2

-----------------------------------------------------------------------------
(* Which orders hold which ids. *)

Holds(q, i) == ost[q] \in Active /\ exId[q].kind = "id" /\ exId[q].n = i

(* ClaimsDisjoint alone is not kept: what matters is that the poller's     *)
(* candidates stay unclaimed while it asks for them one by one, and that   *)
(* an order that starts has no id.                                         *)
IdentityInv ==
  /\ \A o, q \in Orders : \A i \in Nat : Holds(o, i) /\ Holds(q, i) => o = q
  /\ \A o \in Orders : ost[o] = "none" => exId[o] = NoId
  /\ req[Poll].pc = "detail" =>
       \A i \in req[Poll].cands \cup req[Poll].matches : \A q \in Orders : ~Holds(q, i)

(* The poller looks at no candidate it did not look at before.             *)
PollNarrows ==
  req'[Poll].pc = "detail" =>
    /\ req[Poll].pc = "detail"
    /\ req'[Poll].cands \cup req'[Poll].matches \subseteq req[Poll].cands \cup req[Poll].matches

(* A step that gives no order an id it did not hold keeps the claims.      *)
LEMMA NoNewClaim ==
  ASSUME IdentityInv, PollNarrows,
         \A q \in Orders : \A i : Holds(q, i)' => Holds(q, i),
         \A q \in Orders : ost'[q] = "none" => ost[q] = "none" /\ exId'[q] = exId[q]
  PROVE  IdentityInv'
BY DEF IdentityInv, PollNarrows

(* An update that carries no new native id gives no order one.             *)
LEMMA UpdateClaims ==
  ASSUME TrackerType, NEW o \in Orders, NEW state, NEW id,
         state = "none" => ost[o] = "none",
         id = exId[o] \/ id.kind # "id",
         ApplyUpdate(o, state, id)
  PROVE  /\ \A q \in Orders : \A i : Holds(q, i)' => Holds(q, i)
         /\ \A q \in Orders : ost'[q] = "none" => ost[q] = "none" /\ exId'[q] = exId[q]
<1>1. \A q \in Orders : ost'[q] = "none" => ost[q] = "none" /\ exId'[q] = exId[q]
  BY UpdateEffect DEF Active
<1>2. \A q \in Orders : \A i : Holds(q, i)' => Holds(q, i)
  BY UpdateEffect DEF Holds
<1> QED
  BY <1>1, <1>2

(* A status request keeps the claims: a cancel task claims nothing, and    *)
(* what the poller matches was unclaimed when listed and still is.         *)
LEMMA RequestClaims ==
  ASSUME TypeOK, IdentityInv, NEW c \in Callers, RequestStep(c)
  PROVE  IdentityInv'
<1> USE LifecycleAssumption DEF TypeOK
<1> DEFINE o == req[c].ord
<1>1. /\ Outcome(c) /\ o \in Orders /\ req[c] \in Requests
      /\ Poll \in Callers
  BY RequestOutcome DEF Callers
<1>2. ASSUME UNCHANGED tracker, PollNarrows PROVE IdentityInv'
  <2>1. \A q \in Orders : \A i : Holds(q, i)' => Holds(q, i)
    BY <1>2 DEF Holds, tracker
  <2> QED
    BY <1>2, <2>1, NoNewClaim DEF tracker
<1>3. ASSUME NEW r, Becomes(c, r), Waits(c, r), UNCHANGED tracker PROVE IdentityInv'
  <2>1. CASE c # Poll
    BY <1>1, <1>2, <1>3, <2>1 DEF Becomes, PollNarrows
  <2>2. CASE c = Poll /\ r.pc = "detail" /\ r.matches = {} /\ r.cands = Candidates(o, req[c].refs)
    <3>1. \A i \in r.cands : \A q \in Orders : ~Holds(q, i)
      BY <2>2 DEF Candidates, Claimed, Holds
    <3> QED
      BY <1>3, <2>2, <3>1 DEF IdentityInv, Becomes, tracker, Holds
  <2>3. CASE /\ c = Poll
             /\ r.pc = "detail" =>
                  /\ req[c].pc = "detail" /\ r.cands \subseteq req[c].cands
                  /\ \A i \in r.matches : Matching(c, i)
    <3>1. PollNarrows
      BY <1>3, <2>3 DEF Becomes, PollNarrows, Matching
    <3> QED
      BY <1>2, <1>3, <3>1
  <2> QED
    BY <1>3, <2>1, <2>2, <2>3 DEF Waits
<1>4. ASSUME NEW state, NEW id, Returns(c, state, id) PROVE IdentityInv'
  <2>1. Return(c, o, state, id)
    BY <1>4 DEF Returns
  <2>2. CASE c \in Orders /\ UNCHANGED tracker
    <3>1. req'[Poll] = req[Poll]
      BY <1>1, <2>1, <2>2, ReturnEffect DEF Becomes
    <3> QED
      BY <1>2, <2>2, <3>1 DEF PollNarrows
  <2>3. CASE c = Poll /\ Becomes(c, Idle) /\ ApplyUpdate(o, state, id)
    <3>1. req'[Poll].pc = "idle"
      BY <2>3 DEF Becomes, Idle
    <3>2. CASE id = exId[o] \/ \E n \in Nat \ {0} : id = Hash(n)
      <4>1. id = exId[o] \/ id.kind # "id"
        BY <3>2 DEF Hash
      <4> QED
        BY <1>1, <1>4, <2>3, <3>1, <4>1, UpdateClaims, NoNewClaim DEF Returns, PollNarrows
    <3>3. ASSUME NEW i \in Nat, req[c].pc = "detail", id = NativeId(i), Matching(c, i)
          PROVE  IdentityInv'
      <4>1. \A q \in Orders : ~Holds(q, i)
        BY <2>3, <3>3 DEF IdentityInv, Matching
      <4>2. \A q \in Orders : \A k : Holds(q, k)' => Holds(q, k) \/ (q = o /\ k = i)
        BY <1>1, <2>3, <3>3, UpdateEffect DEF Holds, NativeId
      <4>3. \A q \in Orders : ost'[q] = "none" => ost[q] = "none" /\ exId'[q] = exId[q]
        BY <1>1, <1>4, <2>3, UpdateEffect DEF Returns, Active
      <4> QED
        BY <3>1, <4>1, <4>2, <4>3 DEF IdentityInv
    <3> QED
      BY <1>4, <3>2, <3>3 DEF Returns
  <2> QED
    BY <1>1, <2>1, <2>2, <2>3, ReturnEffect
<1>5. ASSUME Becomes(c, Idle), UNCHANGED tracker PROVE IdentityInv'
  BY <1>1, <1>2, <1>5 DEF Becomes, PollNarrows, Idle
<1> QED
  BY <1>1, <1>3, <1>4, <1>5 DEF Outcome

(* The claims hold throughout.                                             *)
LEMMA IdentityInductive == Spec => []IdentityInv
<1> USE LifecycleAssumption
<1>1. Init => IdentityInv
  BY DEF Init, IdentityInv, Holds, NoId, Idle, Callers
<1>2. TypeOK /\ IdentityInv /\ [Next]_vars => IdentityInv'
  <2> SUFFICES ASSUME TypeOK, IdentityInv, [Next]_vars PROVE IdentityInv'
    OBVIOUS
  <2> USE DEF TypeOK
  <2>1. ASSUME UNCHANGED <<ost, exId>>, PollNarrows PROVE IdentityInv'
    <3>1. \A q \in Orders : \A i : Holds(q, i)' => Holds(q, i)
      BY <2>1 DEF Holds
    <3> QED
      BY <2>1, <3>1, NoNewClaim
  <2>2. UNCHANGED req => PollNarrows
    BY DEF PollNarrows
  <2>3. ASSUME NEW o \in Orders, Place(o) PROVE IdentityInv'
    <3>1. /\ ost[o] = "none" /\ exId[o] = NoId
          /\ ost' = [ost EXCEPT ![o] = "PENDING_CREATE"] /\ UNCHANGED <<exId, req>>
      BY <2>3 DEF Place, IdentityInv
    <3>2. \A q \in Orders : \A i : Holds(q, i)' => Holds(q, i)
      BY <3>1 DEF Holds, TrackerType, NoId
    <3>3. \A q \in Orders : ost'[q] = "none" => ost[q] = "none" /\ exId'[q] = exId[q]
      BY <3>1 DEF TrackerType
    <3> QED
      BY <2>2, <3>1, <3>2, <3>3, NoNewClaim
  <2>4. ASSUME NEW o \in Orders, PlaceStep(o) PROVE IdentityInv'
    <3>1. UNCHANGED req
      BY <2>4 DEF PlaceStep, Snapshot, CreateAdmitted, CreateAnswer, PlaceFails
    <3>2. CASE Snapshot(o) \/ CreateAdmitted(o)
      BY <2>1, <2>2, <3>1, <3>2 DEF Snapshot, CreateAdmitted, tracker
    <3>3. CASE CreateAnswer(o)
      BY <2>2, <3>1, <3>3, UpdateClaims, NoNewClaim DEF CreateAnswer, Hash
    <3>4. CASE PlaceFails(o)
      BY <2>2, <3>1, <3>4, UpdateClaims, NoNewClaim DEF PlaceFails, NoId
    <3> QED
      BY <2>4, <3>2, <3>3, <3>4 DEF PlaceStep
  <2>5. ASSUME NEW o \in Orders, StartPoll(o) \/ Cancel(o) \/ CancelStep(o) PROVE IdentityInv'
    <3>1. PollNarrows
      <4>1. Poll \in Callers /\ Poll # o
        BY DEF Callers
      <4>2. CASE StartPoll(o)
        BY <4>1, <4>2 DEF StartPoll, PollNarrows, TaskType, Idle
      <4>3. CASE ~StartPoll(o)
        <5>1. req'[Poll] = req[Poll]
          BY <2>5, <4>1, <4>3 DEF Cancel, CancelStep, CancelAdmitted, CancelAnswer, TaskType
        <5> QED
          BY <5>1 DEF PollNarrows
      <4> QED
        BY <4>2, <4>3
    <3>2. CASE CancelAnswer(o)
      BY <3>1, <3>2, UpdateClaims, NoNewClaim DEF CancelAnswer, NoId
    <3>3. CASE ~CancelAnswer(o)
      BY <2>1, <2>5, <3>1, <3>3 DEF StartPoll, Cancel, CancelStep, CancelAdmitted, tracker
    <3> QED
      BY <3>2, <3>3
  <2>6. ASSUME NEW o \in Orders, TradeUpdate(o) PROVE IdentityInv'
    BY <2>1, <2>2, <2>6 DEF TradeUpdate
  <2>7. ASSUME NEW c \in Callers, RequestStep(c) PROVE IdentityInv'
    BY <2>7, RequestClaims
  <2>8. CASE Commit \/ Fill \/ OtherPlaces \/ OtherCancels \/ Tick
    BY <2>1, <2>2, <2>8 DEF Commit, CommitCreate, CommitCancel, Execute, Fill, OtherPlaces,
       OtherCancels, Tick, tracker
  <2>9. CASE Restart
    BY <2>1, <2>9 DEF Restart, PollNarrows, Callers, Idle, tracker
  <2>10. CASE UNCHANGED vars
    BY <2>1, <2>2, <2>10 DEF vars, tracker
  <2> QED
    BY <2>3, <2>4, <2>5, <2>6, <2>7, <2>8, <2>9, <2>10 DEF Next
<1> QED
  BY <1>1, <1>2, TypeCorrect, PTL DEF Spec

(* No two live orders ever hold the same native id, however alike they are *)
(* and however polls, cancels and placements interleave.                   *)
THEOREM ClaimsExclusive == Spec => []ClaimsDisjoint
<1>1. TypeOK /\ IdentityInv => ClaimsDisjoint
  BY DEF TypeOK, TrackerType, IdentityInv, Holds, ClaimsDisjoint
<1> QED
  BY <1>1, TypeCorrect, IdentityInductive, PTL

-----------------------------------------------------------------------------
(* Why an order is reported failed. *)

(* An order whose placement was answered, or that goes by a hash, has a    *)
(* hash that stands for a transaction; a request that awaits a transaction *)
(* has one to judge by. The hash of a create is forgotten in a restart.    *)
ReasonInv ==
  /\ \A o \in Orders :
       /\ exId[o].kind = "tx" => exId[o].n # 0
       /\ restarts = 0 /\ place[o] = "done" /\ ost[o] \in Active => createHash[o] # 0
  /\ \A c \in Callers : req[c].pc = "tx" =>
       req[c].tx # 0 /\ (req[c].create # 0 \/ req[c].cancel # 0)

(* An update keeps ReasonInv unless it brings an empty hash.               *)
LEMMA UpdateReason ==
  ASSUME TrackerType, ReasonInv, NEW o \in Orders, NEW state, NEW id,
         ApplyUpdate(o, state, id), id.kind = "tx" => id.n # 0
  PROVE  /\ \A q \in Orders : exId'[q].kind = "tx" => exId'[q].n # 0
         /\ \A q \in Orders : ost'[q] \in Active => ost[q] \in Active
BY UpdateEffect DEF ReasonInv

(* A status request keeps ReasonInv, whatever it awaits or returns.        *)
LEMMA RequestReason ==
  ASSUME TypeOK, ReasonInv, NEW c \in Callers, RequestStep(c)
  PROVE  ReasonInv'
<1> USE DEF TypeOK
<1> DEFINE o == req[c].ord
<1>1. /\ Outcome(c) /\ o \in Orders
      /\ UNCHANGED <<createHash, place, restarts>>
  BY RequestOutcome
<1>2. ASSUME NEW r, Becomes(c, r),
             r.pc = "tx" => r.tx # 0 /\ (r.create # 0 \/ r.cancel # 0),
             \A q \in Orders : exId'[q].kind = "tx" => exId'[q].n # 0,
             \A q \in Orders : ost'[q] \in Active => ost[q] \in Active
      PROVE  ReasonInv'
  BY <1>1, <1>2 DEF ReasonInv, Becomes
<1>3. ASSUME NEW r, Becomes(c, r), Waits(c, r), UNCHANGED tracker PROVE ReasonInv'
  <2>1. r.pc = "tx" => r.tx # 0 /\ (r.create # 0 \/ r.cancel # 0)
    BY <1>3 DEF Waits
  <2> QED
    BY <1>2, <1>3, <2>1 DEF ReasonInv, tracker
<1>4. ASSUME NEW state, NEW id, Returns(c, state, id) PROVE ReasonInv'
  <2>1. id.kind = "tx" => id.n # 0
    BY <1>1, <1>4 DEF Returns, ReasonInv, Hash, NativeId
  <2>2. Return(c, o, state, id)
    BY <1>4 DEF Returns
  <2>3. CASE Becomes(c, Idle) /\ ApplyUpdate(o, state, id)
    BY <1>1, <1>2, <2>1, <2>3, UpdateReason DEF Idle
  <2>4. ASSUME NEW r, Becomes(c, r), r = Idle \/ Posting(r, o, id), UNCHANGED tracker
        PROVE  ReasonInv'
    BY <1>2, <2>4 DEF Idle, Posting, ReasonInv, tracker
  <2> QED
    BY <1>1, <2>2, <2>3, <2>4, ReturnEffect
<1>5. ASSUME Becomes(c, Idle), UNCHANGED tracker PROVE ReasonInv'
  BY <1>2, <1>5 DEF Idle, ReasonInv, tracker
<1> QED
  BY <1>1, <1>3, <1>4, <1>5 DEF Outcome

(* The reasons are there throughout.                                       *)
LEMMA ReasonInductive == Spec => []ReasonInv
<1> USE LifecycleAssumption
<1>1. Init => ReasonInv
  BY DEF Init, ReasonInv, NoId, Idle
<1>2. TypeOK /\ ReasonInv /\ [Next]_vars => ReasonInv'
  <2> SUFFICES ASSUME TypeOK, ReasonInv, [Next]_vars PROVE ReasonInv'
    OBVIOUS
  <2> USE DEF TypeOK
  <2>1. CASE UNCHANGED <<ost, exId, createHash, place, req, restarts>>
    BY <2>1 DEF ReasonInv
  <2>2. ASSUME NEW o \in Orders, Place(o) PROVE ReasonInv'
    BY <2>2 DEF Place, ReasonInv, TrackerType, TaskType, memory
  <2>3. ASSUME NEW o \in Orders, PlaceStep(o) PROVE ReasonInv'
    <3>1. CASE Snapshot(o) \/ CreateAdmitted(o)
      BY <3>1 DEF Snapshot, CreateAdmitted, GotoPlace, ReasonInv, TaskType, tracker, memory
    <3>2. CASE CreateAnswer(o)
      <4>1. /\ createHash' = [createHash EXCEPT ![o] = 1]
            /\ place' = [place EXCEPT ![o] = "done"]
            /\ ApplyUpdate(o, "OPEN", Hash(1)) /\ UNCHANGED <<req, restarts>>
        BY <3>2 DEF CreateAnswer, GotoPlace
      <4>2. Hash(1).kind = "tx" => Hash(1).n # 0
        BY DEF Hash
      <4>3. /\ createHash'[o] # 0
            /\ \A q \in Orders : q # o => createHash'[q] = createHash[q] /\ place'[q] = place[q]
        BY <4>1 DEF MemoryType, TaskType
      <4> QED
        BY <4>1, <4>2, <4>3, UpdateReason DEF ReasonInv
    <3>3. CASE PlaceFails(o)
      <4>1. /\ place' = [place EXCEPT ![o] = "done"]
            /\ ApplyUpdate(o, "FAILED", NoId) /\ UNCHANGED <<createHash, req, restarts>>
        BY <3>3 DEF PlaceFails, memory
      <4>2. NoId.kind # "tx"
        BY DEF NoId
      <4>3. ost'[o] \notin Active
        BY <4>1, UpdateEffect DEF Active
      <4>4. \A q \in Orders : q # o => place'[q] = place[q]
        BY <4>1 DEF TaskType
      <4> QED
        BY <4>1, <4>2, <4>3, <4>4, UpdateReason DEF ReasonInv
    <3> QED
      BY <2>3, <3>1, <3>2, <3>3 DEF PlaceStep
  <2>4. ASSUME NEW o \in Orders, StartPoll(o) \/ Cancel(o) \/ CancelStep(o) PROVE ReasonInv'
    <3>1. \A d \in Callers : req'[d] = req[d] \/ req'[d].pc # "tx"
      <4>1. o \in Callers
        BY DEF Callers
      <4>2. CASE StartPoll(o)
        BY <4>2 DEF StartPoll, TaskType, Idle
      <4>4. CASE Cancel(o)
        BY <4>4 DEF Cancel, TaskType, Idle
      <4>5. CASE CancelAnswer(o)
        BY <4>5 DEF CancelAnswer, TaskType, Idle
      <4>3. CASE CancelAdmitted(o)
        BY <4>1, <4>3 DEF CancelAdmitted, TaskType, Requests
      <4> QED
        BY <2>4, <4>2, <4>3, <4>4, <4>5 DEF CancelStep
    <3>2. UNCHANGED <<createHash, place, restarts>>
      BY <2>4 DEF StartPoll, Cancel, CancelStep, CancelAdmitted, CancelAnswer, memory
    <3>3. CASE CancelAnswer(o)
      BY <3>1, <3>2, <3>3, UpdateReason DEF CancelAnswer, NoId, ReasonInv
    <3>4. CASE ~CancelAnswer(o)
      BY <2>4, <3>1, <3>2, <3>4 DEF StartPoll, Cancel, CancelStep, CancelAdmitted, ReasonInv,
         tracker
    <3> QED
      BY <3>3, <3>4
  <2>5. ASSUME NEW o \in Orders, TradeUpdate(o) PROVE ReasonInv'
    BY <2>1, <2>5 DEF TradeUpdate, memory
  <2>6. ASSUME NEW c \in Callers, RequestStep(c) PROVE ReasonInv'
    BY <2>6, RequestReason
  <2>7. CASE Commit \/ Fill \/ OtherPlaces \/ OtherCancels \/ Tick
    BY <2>1, <2>7 DEF Commit, CommitCreate, CommitCancel, Execute, Fill, OtherPlaces,
       OtherCancels, Tick, tracker, memory
  <2>8. CASE Restart
    <3>1. restarts' # 0 /\ UNCHANGED tracker /\ \A d \in Callers : req'[d] = Idle
      BY <2>8 DEF Restart
    <3> QED
      BY <3>1 DEF ReasonInv, Idle, tracker
  <2>9. CASE UNCHANGED vars
    BY <2>1, <2>9 DEF vars, tracker, memory
  <2> QED
    BY <2>2, <2>3, <2>4, <2>5, <2>6, <2>7, <2>8, <2>9 DEF Next
<1> QED
  BY <1>1, <1>2, TypeCorrect, PTL DEF Spec

(* The condition FailedHasReason puts on a step.                           *)
FailsWithReason ==
  \A o \in Orders :
    /\ place[o] = "done" /\ ost[o] \in Active /\ ost'[o] = "FAILED"
    /\ restarts = 0 \/ exId[o].kind = "tx"
    => \E n \in DOMAIN txs[o] : txs[o][n].st = "failed"

(* Only a status request reports an order failed that was placed, and only *)
(* from a transaction that failed.                                         *)
LEMMA FailureNeedsTx ==
  ASSUME TypeOK, CancelInv, ReasonInv, [Next]_vars
  PROVE  FailsWithReason
<1> USE LifecycleAssumption DEF TypeOK
<1> SUFFICES ASSUME NEW o \in Orders, place[o] = "done", ost[o] \in Active,
                    ost'[o] = "FAILED", restarts = 0 \/ exId[o].kind = "tx"
             PROVE  \E n \in DOMAIN txs[o] : txs[o][n].st = "failed"
  BY DEF FailsWithReason
<1>1. ost'[o] # ost[o]
  BY DEF Active
<1>2. CreationTx(o) # 0
  BY DEF CreationTx, ReasonInv
<1>3. ASSUME NEW c \in Callers, RequestStep(c)
      PROVE  \E n \in DOMAIN txs[o] : txs[o][n].st = "failed"
  <2>1. /\ Outcome(c) /\ req[c].ord \in Orders /\ req[c] \in Requests
        /\ req[c].pc # "idle"
    BY <1>3, RequestOutcome
  <2>2. PICK state, id : Returns(c, state, id)
    BY <1>1, <2>1 DEF Outcome, tracker
  <2>3. ApplyUpdate(req[c].ord, state, id)
    BY <1>1, <2>1, <2>2, ReturnEffect DEF Returns, tracker
  <2>4. req[c].ord = o /\ state = "FAILED"
    BY <1>1, <2>1, <2>3, UpdateEffect
  <2>5. MayFail(c)
    BY <2>2, <2>4 DEF Returns, Active
  <2>6. req[c].tx # 0 /\ req[c].tx \in Nat /\ txs[o][req[c].tx].st = "failed"
    BY <1>2, <1>3, <2>1, <2>4, <2>5 DEF MayFail, ReasonInv, Requests
  <2>7. req[c].tx <= Len(txs[o])
    BY <1>3, <2>1, <2>4 DEF CancelInv, HashInv
  <2> QED
    BY <2>6, <2>7 DEF ChainType
<1>4. ASSUME NEW q \in Orders,
             Place(q) \/ PlaceStep(q) \/ StartPoll(q) \/ Cancel(q) \/ CancelStep(q)
               \/ TradeUpdate(q)
      PROVE  FALSE
  <2>1. CASE Place(q)
    BY <1>1, <2>1 DEF Place, TrackerType, Active
  <2>2. CASE CreateAnswer(q) \/ CancelAnswer(q)
    BY <1>1, <2>2, UpdateEffect DEF CreateAnswer, CancelAnswer
  <2>3. CASE PlaceFails(q)
    BY <1>1, <2>3, UpdateEffect DEF PlaceFails
  <2> QED
    BY <1>1, <1>4, <2>1, <2>2, <2>3 DEF PlaceStep, CancelStep, Snapshot, CreateAdmitted,
       StartPoll, Cancel, CancelAdmitted, TradeUpdate, tracker
<1>5. ~(Commit \/ Fill \/ OtherPlaces \/ OtherCancels \/ Tick \/ Restart \/ UNCHANGED vars)
  BY <1>1 DEF Commit, CommitCreate, CommitCancel, Execute, Fill, OtherPlaces, OtherCancels,
     Tick, Restart, vars, tracker
<1> QED
  BY <1>3, <1>4, <1>5 DEF Next

(* An order that was placed is reported failed only when one of its        *)
(* transactions failed in a block; after a restart, while it goes by its   *)
(* hash.                                                                   *)
THEOREM FailedForAReason == Spec => FailedHasReason
<1>1. TypeOK /\ CancelInv /\ ReasonInv /\ [Next]_vars => FailsWithReason
  BY FailureNeedsTx
<1> QED
  BY <1>1, TypeCorrect, CancelInductive, ReasonInductive, PTL
  DEF Spec, FailedHasReason, FailsWithReason

-----------------------------------------------------------------------------
(* Orders that look alike. *)


(* No order looks like another one at any time a candidate may be matched: *)
(* tracked orders differ, Other places none that looks like one, and those *)
(* it had before are too old to be taken for one after a restart. Without  *)
(* a restart they are excluded as ids from before the create.              *)
NoTwins ==
  /\ \A o, q \in Orders : SpecOf[o] = SpecOf[q] => o = q
  /\ \A o \in Orders : SpecOf[o] \notin NewForeign
  /\ \A k \in DOMAIN Foreign : \A o \in Orders :
       Foreign[k] = SpecOf[o] => Tolerance < StartTime

-----------------------------------------------------------------------------
(* What a step does to the book, a request, an id, a spec, a transaction.  *)

(* Orders stay on the book with their owner, spec and time; one that is    *)
(* done stays done; a new one is another client's or of a create.          *)
BookGrows ==
  /\ DOMAIN book \subseteq DOMAIN book'
  /\ \A i \in DOMAIN book :
       /\ book'[i].owner = book[i].owner /\ book'[i].spec = book[i].spec
       /\ book'[i].at = book[i].at
       /\ Resting(i)' => Resting(i)
  /\ \A i \in DOMAIN book' \ DOMAIN book :
       /\ i = Len(book) + 1
       /\ \/ book'[i].owner = Other /\ book'[i].spec \in NewForeign
          \/ \E o \in Orders : /\ book'[i].owner = o /\ book'[i].spec = SpecOf[o]
                               /\ txs[o][1].st = "mempool" /\ txs'[o][1].st = "ok"

(* Appending an order.                                                     *)
LEMMA BookAppends ==
  ASSUME ChainType, NEW e, book' = Append(book, e),
         \/ e.owner = Other /\ e.spec \in NewForeign
         \/ \E o \in Orders : /\ e.owner = o /\ e.spec = SpecOf[o]
                              /\ txs[o][1].st = "mempool" /\ txs'[o][1].st = "ok"
  PROVE  BookGrows
<1>1. /\ DOMAIN book = 1..Len(book) /\ Len(book) \in Nat
      /\ DOMAIN book' = 1..(Len(book) + 1)
      /\ \A i \in DOMAIN book : book'[i] = book[i]
      /\ book'[Len(book) + 1] = e
  BY DEF ChainType
<1>2. \A i \in DOMAIN book' \ DOMAIN book : i = Len(book) + 1
  BY <1>1
<1> QED
  BY <1>1, <1>2 DEF BookGrows, Resting

(* Trading or taking off an order that rests.                              *)
LEMMA BookChanges ==
  ASSUME ChainType, NEW i \in DOMAIN book, Resting(i), NEW left \in Nat, NEW traded,
         book' = [book EXCEPT ![i].left = left, ![i].traded = traded]
  PROVE  BookGrows
<1> DEFINE e == [book[i] EXCEPT !.left = left, !.traded = traded]
<1>1. book[i] \in MarketOrders
  BY DEF ChainType
<1>2. /\ e.owner = book[i].owner /\ e.spec = book[i].spec /\ e.at = book[i].at
  BY <1>1 DEF MarketOrders
<1>3. book' = [book EXCEPT ![i] = e]
  OBVIOUS
<1> HIDE DEF e
<1>4. /\ DOMAIN book' = DOMAIN book
      /\ \A k \in DOMAIN book : book'[k] = IF k = i THEN e ELSE book[k]
  BY <1>3 DEF ChainType
<1> QED
  BY <1>2, <1>4 DEF BookGrows, Resting

(* Every step lets the book grow like this.                                *)
LEMMA BookStep ==
  ASSUME TypeOK, HashInv, [Next]_vars
  PROVE  BookGrows
<1> USE LifecycleAssumption DEF TypeOK
<1>1. CASE UNCHANGED book
  BY <1>1 DEF BookGrows, Resting
<1>2. CASE CommitCreate
  <2>1. Head(mempool) \in Orders \X Nat
    BY <1>2 DEF CommitCreate, ChainType
  <2> DEFINE o == Head(mempool)[1]
  <2>2. o \in Orders /\ Len(txs[o]) >= 1
    BY <2>1 DEF HashInv
  <2>3. CASE UNCHANGED book
    BY <1>1, <2>3
  <2>4. CASE ~UNCHANGED book
    <3> DEFINE e == [owner |-> o, spec |-> SpecOf[o], left |-> Amount, traded |-> 0, at |-> now]
    <3>1. book' = Append(book, e) /\ Execute(o, 1, "ok")
      BY <1>2, <2>4 DEF CommitCreate
    <3>2. txs[o][1].st = "mempool" /\ txs'[o][1].st = "ok"
      <4> DEFINE t == [txs[o][1] EXCEPT !.st = "ok"]
      <4>1. txs[o] \in Seq(Transactions) /\ 1 \in DOMAIN txs[o]
        BY <2>2 DEF ChainType
      <4>2. txs[o][1] \in Transactions
        BY <4>1
      <4>3. t.st = "ok"
        BY <4>2 DEF Transactions
      <4>4. txs' = [txs EXCEPT ![o] = [txs[o] EXCEPT ![1] = t]]
        BY <3>1 DEF Execute
      <4> HIDE DEF t
      <4> QED
        BY <2>2, <3>1, <4>1, <4>3, <4>4 DEF Execute, ChainType
    <3>3. e.owner = o /\ e.spec = SpecOf[o]
      OBVIOUS
    <3> HIDE DEF e
    <3> QED
      BY <2>2, <3>1, <3>2, <3>3, BookAppends
  <2> QED
    BY <2>3, <2>4
<1>3. CASE CommitCancel
  <2> DEFINE i == txs[Head(mempool)[1]][Head(mempool)[2]].target
  <2>1. UNCHANGED book \/ (Resting(i) /\ book' = [book EXCEPT ![i].left = 0])
    BY <1>3 DEF CommitCancel
  <2> HIDE DEF i
  <2>2. CASE i \in DOMAIN book /\ Resting(i) /\ book' = [book EXCEPT ![i].left = 0]
    <3>1. book' = [book EXCEPT ![i].left = 0, ![i].traded = book[i].traded]
      <4>1. [book[i] EXCEPT !.left = 0, !.traded = book[i].traded] = [book[i] EXCEPT !.left = 0]
        BY <2>2 DEF ChainType, MarketOrders
      <4> QED
        BY <2>2, <4>1
    <3> QED
      BY <2>2, <3>1, BookChanges
  <2>3. CASE i \notin DOMAIN book /\ book' = [book EXCEPT ![i].left = 0]
    <3>1. UNCHANGED book
      BY <2>3 DEF ChainType
    <3> QED
      BY <1>1, <3>1
  <2> QED
    BY <1>1, <2>1, <2>2, <2>3
<1>4. CASE Fill
  <2>1. PICK i \in UserMarketOrders :
          book' = [book EXCEPT ![i].left = book[i].left - 1, ![i].traded = book[i].traded + 1]
    BY <1>4 DEF Fill
  <2>2. i \in DOMAIN book /\ Resting(i) /\ book[i] \in MarketOrders
    BY DEF UserMarketOrders, ChainType
  <2>3. book[i].left - 1 \in Nat
    BY <2>2 DEF Resting, MarketOrders
  <2> QED
    BY <2>1, <2>2, <2>3, BookChanges
<1>5. CASE OtherPlaces
  <2>1. PICK s \in NewForeign : book' = Append(book, [owner |-> Other, spec |-> s,
                                  left |-> Amount, traded |-> 0, at |-> now])
    BY <1>5 DEF OtherPlaces
  <2> QED
    BY <2>1, BookAppends
<1>6. CASE OtherCancels
  <2>1. PICK i \in UserMarketOrders : book' = [book EXCEPT ![i].left = 0]
    BY <1>6 DEF OtherCancels
  <2>2. i \in DOMAIN book /\ Resting(i) /\ book[i] \in MarketOrders
    BY DEF UserMarketOrders, ChainType
  <2>3. [book[i] EXCEPT !.left = 0, !.traded = book[i].traded] = [book[i] EXCEPT !.left = 0]
    BY <2>2 DEF MarketOrders
  <2>4. book' = [book EXCEPT ![i].left = 0, ![i].traded = book[i].traded]
    BY <2>1, <2>2, <2>3
  <2> QED
    BY <2>2, <2>4, BookChanges
<1>7. CASE \E o \in Orders : Place(o) \/ PlaceStep(o) \/ StartPoll(o) \/ Cancel(o)
                              \/ CancelStep(o) \/ TradeUpdate(o)
  BY <1>1, <1>7 DEF Place, PlaceStep, Snapshot, CreateAdmitted, CreateAnswer, PlaceFails,
     StartPoll, Cancel, CancelStep, CancelAdmitted, CancelAnswer, TradeUpdate, chain
<1>8. CASE \E c \in Callers : RequestStep(c)
  BY <1>1, <1>8, RequestOutcome DEF chain
<1>9. CASE Tick \/ Restart \/ UNCHANGED vars
  BY <1>1, <1>9 DEF Tick, Restart, vars, chain
<1> QED
  BY <1>2, <1>3, <1>4, <1>5, <1>6, <1>7, <1>8, <1>9 DEF Next, Commit

(* A request without an answer yet.                                        *)
Fresh(r) == r.refs = {} /\ r.cands = {} /\ r.matches = {}

(* What request c may become: it starts for an active order, as a cancel   *)
(* of the id the order has or a match it found; is sent; or waits.         *)
RequestMoves(c, r) ==
  \/ r = req[c] \/ r = Idle
  \/ /\ r.pc = "refs" /\ Fresh(r)
     /\ r.ord \in Orders /\ ost[r.ord] \in Active
  \/ /\ r.pc = "post" /\ Fresh(r) /\ r.ord \in Orders
     /\ ost[r.ord] \in Active \/ (req[c].pc # "idle" /\ r.ord = req[c].ord)
     /\ \/ exId[r.ord] = NativeId(r.target)
        \/ req[c].pc = "detail" /\ r.ord = req[c].ord /\ Matching(c, r.target)
  \/ /\ r.pc = "sent" /\ req[c].pc = "post"
     /\ r.ord = req[c].ord /\ r.target = req[c].target
     /\ r.refs = req[c].refs /\ r.cands = req[c].cands /\ r.matches = req[c].matches
     /\ r.recovered = req[c].recovered
  \/ Waits(c, r) /\ req[c].pc # "idle"

(* Every step moves every request like this.                               *)
LEMMA RequestMove ==
  ASSUME TypeOK, [Next]_vars, NEW c \in Callers
  PROVE  RequestMoves(c, req'[c])
<1> USE LifecycleAssumption DEF TypeOK
<1>0. /\ req \in [Callers -> Requests]
      /\ Poll \in Callers /\ \A o \in Orders : o \in Callers
      /\ exId \in [Orders -> ExchangeIds]
  BY DEF TaskType, Callers, TrackerType, ExchangeIds
<1>1. CASE req'[c] = req[c]
  BY <1>1 DEF RequestMoves
<1>2. ASSUME NEW o \in Orders, StartPoll(o) PROVE RequestMoves(c, req'[c])
  <2> DEFINE r == [Idle EXCEPT !.pc = "refs", !.ord = o]
  <2>1. r.pc = "refs" /\ Fresh(r) /\ r.ord = o
    BY DEF Idle, Fresh
  <2>2. req' = [req EXCEPT ![Poll] = r] /\ ost[o] \in Active
    BY <1>2 DEF StartPoll
  <2> HIDE DEF r
  <2> QED
    BY <1>0, <1>1, <2>1, <2>2 DEF RequestMoves
<1>3. ASSUME NEW o \in Orders, Cancel(o) PROVE RequestMoves(c, req'[c])
  <2> DEFINE r == IF exId[o].kind = "id"
                  THEN [Idle EXCEPT !.pc = "post", !.ord = o, !.target = exId[o].n]
                  ELSE [Idle EXCEPT !.pc = "refs", !.ord = o]
  <2>1. /\ Fresh(r) /\ r.ord = o
        /\ r.pc = "refs" \/ (r.pc = "post" /\ exId[o].kind = "id" /\ r.target = exId[o].n)
    BY DEF Idle, Fresh
  <2>2. req' = [req EXCEPT ![o] = r] /\ ost[o] \in Active
    BY <1>3 DEF Cancel
  <2>3. exId[o].kind = "id" => exId[o] = NativeId(exId[o].n)
    BY <1>0 DEF ExchangeIds, NativeId
  <2> HIDE DEF r
  <2>4. req'[c] = r \/ req'[c] = req[c]
    BY <1>0, <2>2
  <2>5. RequestMoves(c, r)
    BY <2>1, <2>2, <2>3 DEF RequestMoves
  <2> QED
    BY <1>1, <2>4, <2>5
<1>4. ASSUME NEW o \in Orders, CancelAdmitted(o) PROVE RequestMoves(c, req'[c])
  <2> DEFINE r == [req[o] EXCEPT !.pc = "sent", !.tx = Len(txs[o]) + 1]
  <2>1. /\ req[o].pc = "post" /\ r.pc = "sent"
        /\ r.ord = req[o].ord /\ r.target = req[o].target
        /\ r.refs = req[o].refs /\ r.cands = req[o].cands /\ r.matches = req[o].matches
        /\ r.recovered = req[o].recovered
    BY <1>0, <1>4 DEF CancelAdmitted, Requests
  <2>2. req' = [req EXCEPT ![o] = r]
    BY <1>4 DEF CancelAdmitted
  <2> HIDE DEF r
  <2>3. RequestMoves(o, r)
    BY <2>1 DEF RequestMoves
  <2> QED
    BY <1>0, <1>1, <2>2, <2>3
<1>5. ASSUME NEW o \in Orders, CancelAnswer(o) PROVE RequestMoves(c, req'[c])
  BY <1>0, <1>5 DEF CancelAnswer, RequestMoves
<1>6. ASSUME NEW d \in Callers, RequestStep(d) PROVE RequestMoves(c, req'[c])
  <2>1. Outcome(d) /\ req[d].pc # "idle" /\ req[d].ord \in Orders
    BY <1>6, RequestOutcome
  <2>2. ASSUME NEW r, Becomes(d, r), RequestMoves(d, r) PROVE RequestMoves(c, req'[c])
    BY <1>1, <2>2 DEF Becomes
  <2>3. ASSUME NEW r, Becomes(d, r), Waits(d, r) PROVE RequestMoves(c, req'[c])
    BY <2>1, <2>2, <2>3 DEF RequestMoves
  <2>4. ASSUME Becomes(d, Idle) PROVE RequestMoves(c, req'[c])
    BY <2>2, <2>4 DEF RequestMoves
  <2>5. ASSUME NEW state, NEW id, Returns(d, state, id) PROVE RequestMoves(c, req'[c])
    <3> DEFINE o == req[d].ord
    <3>1. ASSUME NEW r, Becomes(d, r), Posting(r, o, id) PROVE RequestMoves(d, r)
      <4>1. \/ exId[o] = NativeId(r.target)
            \/ req[d].pc = "detail" /\ Matching(d, r.target)
        BY <2>1, <2>5, <3>1 DEF Returns, NativeId, Hash, ExchangeIds, Posting
      <4> QED
        BY <2>1, <3>1, <4>1 DEF RequestMoves, Fresh, Posting
    <3>2. Return(d, o, state, id)
      BY <2>5 DEF Returns
    <3> QED
      BY <2>1, <2>2, <2>4, <3>1, <3>2, ReturnEffect
  <2> QED
    BY <2>1, <2>3, <2>4, <2>5 DEF Outcome
<1>7. CASE Restart
  BY <1>7 DEF Restart, RequestMoves
<1>8. CASE \/ \E o \in Orders : Place(o) \/ PlaceStep(o) \/ TradeUpdate(o)
           \/ Commit \/ Fill \/ OtherPlaces \/ OtherCancels \/ Tick \/ UNCHANGED vars
  BY <1>1, <1>8 DEF Place, PlaceStep, Snapshot, CreateAdmitted, CreateAnswer, PlaceFails,
     TradeUpdate, Commit, CommitCreate, CommitCancel, Execute, Fill, OtherPlaces,
     OtherCancels, Tick, vars
<1> QED
  BY <1>2, <1>3, <1>4, <1>5, <1>6, <1>7, <1>8 DEF Next, CancelStep

(* An order gets a native id only from the poller, for a match.            *)
IdMoves(o) ==
  \/ exId'[o] = exId[o] \/ exId'[o].kind # "id"
  \/ /\ req[Poll].pc = "detail" /\ req[Poll].ord = o
     /\ \E i \in Nat : exId'[o] = NativeId(i) /\ Matching(Poll, i)

(* A tracked order stays tracked and keeps its creation time, which is that*)
(* of the step that starts it.                                             *)
TrackMoves(o) ==
  /\ ost[o] # "none" => ost'[o] # "none" /\ createdAt'[o] = createdAt[o]
  /\ ost[o] = "none" => ost'[o] = "none" \/ createdAt'[o] = now

(* Every step moves ids and tracked orders like this.                      *)
LEMMA TrackerMove ==
  ASSUME TypeOK, [Next]_vars, NEW o \in Orders
  PROVE  IdMoves(o) /\ TrackMoves(o)
<1> USE LifecycleAssumption DEF TypeOK
<1>1. CASE UNCHANGED <<ost, exId, createdAt>>
  BY <1>1 DEF IdMoves, TrackMoves
<1>2. ASSUME NEW q \in Orders, NEW state, NEW id, ApplyUpdate(q, state, id),
             state = "none" => ost[q] = "none",
             id.kind = "id" => \/ id = exId[q]
                               \/ /\ req[Poll].pc = "detail" /\ req[Poll].ord = q
                                  /\ \E i \in Nat : id = NativeId(i) /\ Matching(Poll, i)
      PROVE  IdMoves(o) /\ TrackMoves(o)
  <2>1. IdMoves(o)
    BY <1>2, UpdateEffect DEF IdMoves
  <2>2. TrackMoves(o)
    BY <1>2, UpdateEffect DEF TrackMoves, Active
  <2> QED
    BY <2>1, <2>2
<1>3. ASSUME NEW q \in Orders, Place(q) PROVE IdMoves(o) /\ TrackMoves(o)
  BY <1>3 DEF Place, IdMoves, TrackMoves, TrackerType
<1>4. ASSUME NEW q \in Orders, CreateAnswer(q) PROVE IdMoves(o) /\ TrackMoves(o)
  BY <1>2, <1>4 DEF CreateAnswer, Hash
<1>5. ASSUME NEW q \in Orders, PlaceFails(q) PROVE IdMoves(o) /\ TrackMoves(o)
  BY <1>2, <1>5 DEF PlaceFails, NoId
<1>6. ASSUME NEW q \in Orders, CancelAnswer(q) PROVE IdMoves(o) /\ TrackMoves(o)
  BY <1>2, <1>6 DEF CancelAnswer, NoId
<1>7. ASSUME NEW c \in Callers, RequestStep(c) PROVE IdMoves(o) /\ TrackMoves(o)
  <2>1. Outcome(c) /\ req[c].ord \in Orders
    BY <1>7, RequestOutcome
  <2>2. CASE UNCHANGED tracker
    BY <1>1, <2>2 DEF tracker
  <2>3. ASSUME NEW state, NEW id, Returns(c, state, id), ~UNCHANGED tracker
        PROVE  IdMoves(o) /\ TrackMoves(o)
    <3>1. c = Poll /\ ApplyUpdate(req[c].ord, state, id)
      BY <2>1, <2>3, ReturnEffect DEF Returns
    <3>2. id.kind = "id" => \/ id = exId[req[c].ord]
                            \/ /\ req[c].pc = "detail"
                               /\ \E i \in Nat : id = NativeId(i) /\ Matching(c, i)
      BY <2>3 DEF Returns, Hash
    <3>3. state = "none" => ost[req[c].ord] = "none"
      BY <2>3 DEF Returns
    <3> QED
      BY <1>2, <2>1, <3>1, <3>2, <3>3
  <2> QED
    BY <2>1, <2>2, <2>3 DEF Outcome
<1>8. CASE \/ \E q \in Orders : \/ Snapshot(q) \/ CreateAdmitted(q) \/ StartPoll(q)
                                \/ Cancel(q) \/ CancelAdmitted(q) \/ TradeUpdate(q)
           \/ Commit \/ Fill \/ OtherPlaces \/ OtherCancels \/ Tick \/ Restart
           \/ UNCHANGED vars
  BY <1>1, <1>8 DEF Snapshot, CreateAdmitted, StartPoll, Cancel, CancelAdmitted, TradeUpdate,
     Commit, CommitCreate, CommitCancel, Execute, Fill, OtherPlaces, OtherCancels, Tick,
     Restart, vars, tracker
<1> QED
  BY <1>3, <1>4, <1>5, <1>6, <1>7, <1>8 DEF Next, PlaceStep, CancelStep

(* The memory of a create holds what it held, or the open orders of now.   *)
LEMMA SpecMove ==
  ASSUME TypeOK, [Next]_vars, NEW o \in Orders, hasSpec'[o]
  PROVE  preIds'[o] = UserMarketOrders \/ (hasSpec[o] /\ preIds'[o] = preIds[o])
<1> USE DEF TypeOK, MemoryType
<1>1. CASE UNCHANGED <<hasSpec, preIds>>
  BY <1>1
<1>2. ASSUME NEW q \in Orders, Snapshot(q)
      PROVE  preIds'[o] = UserMarketOrders \/ (hasSpec[o] /\ preIds'[o] = preIds[o])
  BY <1>2 DEF Snapshot
<1>3. ASSUME NEW c \in Callers, RequestStep(c)
      PROVE  hasSpec[o] /\ preIds'[o] = preIds[o]
  <2>1. Outcome(c) /\ req[c].ord \in Orders
    BY <1>3, RequestOutcome
  <2>2. ASSUME NEW q \in Orders, hasSpec' = [hasSpec EXCEPT ![q] = FALSE],
               preIds' = [preIds EXCEPT ![q] = {}]
        PROVE  hasSpec[o] /\ preIds'[o] = preIds[o]
    <3>1. q # o
      BY <2>2, Zenon
    <3> QED
      BY <2>2, <3>1
  <2> QED
    BY <1>1, <2>1, <2>2 DEF Outcome, Returns
<1>4. CASE Restart
  BY <1>4 DEF Restart
<1>5. CASE \/ \E q \in Orders : \/ Place(q) \/ CreateAdmitted(q) \/ CreateAnswer(q) \/ PlaceFails(q)
                                \/ StartPoll(q) \/ Cancel(q) \/ CancelStep(q) \/ TradeUpdate(q)
           \/ Commit \/ Fill \/ OtherPlaces \/ OtherCancels \/ Tick \/ UNCHANGED vars
  BY <1>1, <1>5 DEF Place, CreateAdmitted, CreateAnswer, PlaceFails, StartPoll, Cancel,
     CancelStep, CancelAdmitted, CancelAnswer, TradeUpdate, Commit, CommitCreate,
     CommitCancel, Execute, Fill, OtherPlaces, OtherCancels, Tick, vars, memory
<1> QED
  BY <1>2, <1>3, <1>4, <1>5 DEF Next, PlaceStep

Early == {"idle", "snapshot", "post"}

(* A cancel keeps its target; a new one has that of its task; only one     *)
(* that takes its target off the book is confirmed.                        *)
CancelsMove(o) ==
  \A n \in 2..Len(txs'[o]) :
    \/ /\ n \in DOMAIN txs[o] /\ txs'[o][n].target = txs[o][n].target
       /\ \/ txs'[o][n].st = "ok" => txs[o][n].st = "ok"
          \/ book' = [book EXCEPT ![txs[o][n].target].left = 0]
    \/ /\ req[o].pc = "post"
       /\ txs'[o][n].target = req[o].target /\ txs'[o][n].st # "ok"

(* Placing an order starts once; its create is admitted when it is posted; *)
(* a confirmed one stays so.                                               *)
PlaceMoves(o) ==
  /\ place'[o] \in Early => place[o] \in Early \/ ost[o] = "none"
  /\ place'[o] # "idle" => place[o] # "idle" \/ ost'[o] # "none"

CreateMoves(o) ==
  /\ PlaceMoves(o)
  /\ txs[o][1].st = "none" => txs'[o][1].st = "none" \/ place'[o] = "sent"
  /\ txs[o][1].st = "ok" => txs'[o][1].st = "ok" \/ place[o] = "post"

(* Every step moves the transactions of an order like this.                *)
LEMMA TxMove ==
  ASSUME TypeOK, HashInv, [Next]_vars, NEW o \in Orders
  PROVE  CancelsMove(o) /\ CreateMoves(o)
<1> USE LifecycleAssumption DEF TypeOK
<1>0. /\ txs[o] \in Seq(Transactions) /\ Len(txs[o]) \in Nat /\ Len(txs[o]) >= 1
      /\ DOMAIN txs[o] = 1..Len(txs[o]) /\ DOMAIN txs = Orders
      /\ DOMAIN place = Orders
  BY DEF ChainType, HashInv, TaskType
<1>1. ASSUME txs'[o] = txs[o], PlaceMoves(o)
      PROVE  CancelsMove(o) /\ CreateMoves(o)
  BY <1>0, <1>1 DEF CancelsMove, CreateMoves
<1>2. ASSUME NEW t, NEW k \in 1..Len(txs[o]), txs'[o] = [txs[o] EXCEPT ![k] = t],
             t.target = txs[o][k].target,
             k = 1 => CreateMoves(o),
             k # 1 => /\ UNCHANGED place
                      /\ t.st = "ok" => book' = [book EXCEPT ![txs[o][k].target].left = 0]
      PROVE  CancelsMove(o) /\ CreateMoves(o)
  <2>1. Len(txs'[o]) = Len(txs[o])
    BY <1>0, <1>2
  <2>2. \A n \in 2..Len(txs[o]) : txs'[o][n] = IF n = k THEN t ELSE txs[o][n]
    BY <1>0, <1>2
  <2>3. CancelsMove(o)
    <3> SUFFICES ASSUME NEW n \in 2..Len(txs'[o])
                 PROVE  /\ n \in DOMAIN txs[o] /\ txs'[o][n].target = txs[o][n].target
                        /\ \/ txs'[o][n].st = "ok" => txs[o][n].st = "ok"
                           \/ book' = [book EXCEPT ![txs[o][n].target].left = 0]
      BY DEF CancelsMove
    <3>1. n \in 2..Len(txs[o]) /\ n \in DOMAIN txs[o]
      BY <1>0, <2>1
    <3>2. CASE n = k
      BY <1>2, <2>2, <3>1, <3>2
    <3>3. CASE n # k
      BY <2>2, <3>1, <3>3
    <3> QED
      BY <3>2, <3>3
  <2>4. k # 1 => CreateMoves(o)
    BY <1>0, <1>2 DEF CreateMoves, PlaceMoves
  <2> QED
    BY <1>2, <2>3, <2>4
<1>3. ASSUME NEW q \in Orders, CreateAdmitted(q) PROVE CancelsMove(o) /\ CreateMoves(o)
  <2> DEFINE t == [txs[q][1] EXCEPT !.st = "mempool"]
  <2>1. txs' = [txs EXCEPT ![q] = [txs[q] EXCEPT ![1] = t]]
    BY <1>3 DEF CreateAdmitted
  <2>2. place[q] = "post" /\ place' = [place EXCEPT ![q] = "sent"]
    BY <1>3 DEF CreateAdmitted, GotoPlace
  <2>3. q = o => t.target = txs[q][1].target
    <3>1. q = o => txs[q][1] \in Transactions
      BY <1>0
    <3> QED
      BY <3>1 DEF Transactions
  <2> HIDE DEF t
  <2>4. CASE q # o
    BY <1>0, <1>1, <2>1, <2>2, <2>4 DEF PlaceMoves
  <2>5. CASE q = o
    <3>1. CreateMoves(o)
      BY <1>0, <2>2, <2>5 DEF CreateMoves, PlaceMoves, Early
    <3>2. txs'[o] = [txs[o] EXCEPT ![1] = t] /\ t.target = txs[o][1].target
      BY <1>0, <2>1, <2>3, <2>5
    <3>3. 1 \in 1..Len(txs[o])
      BY <1>0
    <3> QED
      BY <1>2, <3>1, <3>2, <3>3
  <2> QED
    BY <2>4, <2>5
<1>4. ASSUME NEW q \in Orders, CancelAdmitted(q) PROVE CancelsMove(o) /\ CreateMoves(o)
  <2> DEFINE t == [st |-> "mempool", target |-> req[q].target]
  <2>1. /\ txs' = [txs EXCEPT ![q] = Append(txs[q], t)]
        /\ req[q].pc = "post" /\ UNCHANGED place
    BY <1>4 DEF CancelAdmitted
  <2>2. t.st # "ok" /\ t.target = req[q].target
    OBVIOUS
  <2> HIDE DEF t
  <2>3. CASE q # o
    BY <1>0, <1>1, <2>1, <2>3 DEF PlaceMoves
  <2>4. CASE q = o
    <3>1. /\ Len(txs'[o]) = Len(txs[o]) + 1
          /\ \A n \in 1..Len(txs[o]) : txs'[o][n] = txs[o][n]
          /\ txs'[o][Len(txs[o]) + 1] = t
      BY <1>0, <2>1, <2>4
    <3>2. CancelsMove(o)
      BY <1>0, <2>1, <2>2, <2>4, <3>1 DEF CancelsMove
    <3>3. CreateMoves(o)
      BY <1>0, <2>1, <3>1 DEF CreateMoves, PlaceMoves
    <3> QED
      BY <3>2, <3>3
  <2> QED
    BY <2>3, <2>4
<1>5. ASSUME NEW q \in Orders, NEW k \in Nat, NEW st, Execute(q, k, st),
             k # 1 => st # "ok" \/ book' = [book EXCEPT ![txs[q][k].target].left = 0]
      PROVE  CancelsMove(o) /\ CreateMoves(o)
  <2> DEFINE t == [txs[q][k] EXCEPT !.st = st]
  <2>1. /\ txs' = [txs EXCEPT ![q] = [txs[q] EXCEPT ![k] = t]]
        /\ txs[q][k].st = "mempool" /\ UNCHANGED place
    BY <1>5 DEF Execute
  <2>2. ASSUME q = o, k \in 1..Len(txs[o]) PROVE t.target = txs[o][k].target /\ t.st = st
    <3>1. txs[o][k] \in Transactions
      BY <1>0, <2>2
    <3> QED
      BY <2>2, <3>1 DEF Transactions
  <2> HIDE DEF t
  <2>3. CASE q # o
    BY <1>0, <1>1, <2>1, <2>3 DEF PlaceMoves
  <2>4. CASE q = o /\ k \notin 1..Len(txs[o])
    <3>1. txs'[o] = txs[o]
      BY <1>0, <2>1, <2>4
    <3> QED
      BY <1>1, <2>1, <3>1 DEF PlaceMoves
  <2>5. CASE q = o /\ k \in 1..Len(txs[o])
    <3>1. k = 1 => CreateMoves(o)
      BY <1>0, <2>1, <2>5 DEF CreateMoves, PlaceMoves
    <3> QED
      BY <1>0, <1>2, <1>5, <2>1, <2>2, <2>5, <3>1
  <2> QED
    BY <2>3, <2>4, <2>5
<1>6. CASE Commit
  <2>1. ASSUME mempool # <<>> PROVE Head(mempool) \in Orders \X Nat
    BY <2>1 DEF ChainType
  <2>2. CASE CommitCreate
    <3>1. \E st : Execute(Head(mempool)[1], 1, st)
      BY <2>2 DEF CommitCreate
    <3> QED
      BY <1>5, <2>1, <2>2, <3>1 DEF CommitCreate
  <2>3. CASE CommitCancel
    <3> DEFINE q == Head(mempool)[1]
               k == Head(mempool)[2]
    <3>1. q \in Orders /\ k \in Nat
      BY <2>1, <2>3 DEF CommitCancel
    <3>2. \/ /\ Execute(q, k, "ok")
             /\ book' = [book EXCEPT ![txs[q][k].target].left = 0]
          \/ Execute(q, k, "failed")
      BY <2>3 DEF CommitCancel
    <3> HIDE DEF q, k
    <3> QED
      BY <1>5, <3>1, <3>2
  <2> QED
    BY <1>6, <2>2, <2>3 DEF Commit
<1>7. CASE UNCHANGED txs
  <2>1. PlaceMoves(o)
    <3>0. UNCHANGED place => PlaceMoves(o)
      BY DEF PlaceMoves
    <3>1. ASSUME NEW q \in Orders, Place(q) \/ PlaceStep(q) PROVE PlaceMoves(o)
      <4>1. CASE q # o
        <5>1. place'[o] = place[o]
          BY <1>0, <3>1, <4>1 DEF Place, PlaceStep, Snapshot, CreateAdmitted, CreateAnswer,
             PlaceFails, GotoPlace
        <5> QED
          BY <5>1 DEF PlaceMoves
      <4>2. CASE Place(o)
        BY <4>2 DEF Place, PlaceMoves, Early, TrackerType
      <4>3. CASE PlaceStep(o)
        BY <1>0, <3>1, <4>3 DEF PlaceStep, Snapshot, CreateAdmitted, CreateAnswer, PlaceFails,
           GotoPlace, Early, PlaceMoves
      <4> QED
        BY <3>1, <4>1, <4>2, <4>3
    <3>2. CASE Restart
      BY <3>2 DEF Restart, Early, PlaceMoves
    <3>3. ASSUME NEW c \in Callers, RequestStep(c) PROVE UNCHANGED place
      BY <3>3, RequestOutcome
    <3>4. CASE \/ \E q \in Orders : StartPoll(q) \/ Cancel(q) \/ CancelStep(q) \/ TradeUpdate(q)
               \/ Commit \/ Fill \/ OtherPlaces \/ OtherCancels \/ Tick \/ UNCHANGED vars
      BY <3>0, <3>4 DEF StartPoll, Cancel, CancelStep, CancelAdmitted, CancelAnswer, TradeUpdate,
         Commit, CommitCreate, CommitCancel, Execute, Fill, OtherPlaces, OtherCancels, Tick, vars
    <3> QED
      BY <3>0, <3>1, <3>2, <3>3, <3>4 DEF Next
  <2> QED
    BY <1>1, <1>7, <2>1
<1>8. \/ UNCHANGED txs \/ Commit
      \/ \E q \in Orders : CreateAdmitted(q) \/ CancelAdmitted(q)
  <2>1. ASSUME NEW c \in Callers, RequestStep(c) PROVE UNCHANGED txs
    BY <2>1, RequestOutcome DEF chain
  <2> QED
    BY <2>1 DEF Next, Place, PlaceStep, Snapshot, CreateAnswer, PlaceFails, StartPoll, Cancel,
       CancelStep, CancelAnswer, TradeUpdate, Fill, OtherPlaces, OtherCancels, Tick, Restart,
       vars, chain
<1> QED
  BY <1>3, <1>4, <1>6, <1>7, <1>8

-----------------------------------------------------------------------------
(* The invariants. *)

Own(o, i) == i \in DOMAIN book /\ book[i].owner = o

(* An order on the book that looks like o and is not.                      *)
Twin(i, o) == book[i].spec = SpecOf[o] /\ book[i].owner # o

(* The twins of an order are old, and while the connector remembers the    *)
(* create, those that rest are among the ids from before it.               *)
TwinInv ==
  /\ now \in Nat /\ now >= StartTime
  /\ \A o \in Orders : ost[o] # "none" => createdAt[o] >= StartTime
  /\ \A c \in Callers : req[c].pc # "idle" => ost[req[c].ord] # "none"
  /\ \A o \in Orders : \A i \in DOMAIN book : Twin(i, o) => book[i].at + Tolerance < StartTime
  /\ \A o \in Orders : \A i \in DOMAIN book :
       Twin(i, o) /\ hasSpec[o] /\ Resting(i) => i \in preIds[o]

(* Candidates are on the book, and none that the connector listed with its *)
(* memory of the create is a twin that rests.                              *)
CandidateInv ==
  \A c \in Callers :
    /\ req[c].refs \cup req[c].cands \subseteq DOMAIN book
    /\ \A o \in Orders : \A i \in req[c].cands :
         o = req[c].ord /\ ~req[c].recovered /\ Twin(i, o) => ~Resting(i)

(* What an order holds, a request matched or cancels, and a cancel names,  *)
(* is the order's own.                                                     *)
TargetInv ==
  /\ \A o \in Orders : exId[o].kind = "id" => Own(o, exId[o].n)
  /\ \A c \in Callers : \A o \in Orders : o = req[c].ord =>
       /\ \A i \in req[c].matches : Own(o, i)
       /\ req[c].pc \in {"post", "sent"} => Own(o, req[c].target)
  /\ \A o \in Orders : \A n \in 2..Len(txs[o]) : Own(o, txs[o][n].target)

(* No twin comes to the book.                                              *)
LEMMA NoNewTwin ==
  ASSUME NoTwins, LifecycleAssumption, BookGrows, NEW o \in Orders, NEW i \in DOMAIN book', Twin(i, o)'
  PROVE  i \in DOMAIN book /\ Twin(i, o)
<1>1. i \in DOMAIN book
  BY DEF NoTwins, BookGrows, Twin
<1> QED
  BY <1>1 DEF BookGrows, Twin

(* Without twins the twins of an order stay old and remembered.            *)
LEMMA TwinStep ==
  ASSUME NoTwins, TypeOK, HashInv, TwinInv, [Next]_vars
  PROVE  TwinInv'
<1> USE LifecycleAssumption
<1>1. BookGrows
  BY BookStep
<1>2. now' \in Nat /\ now' >= StartTime
  <2>1. now' = now \/ now' = now + 1
    <3>1. ASSUME NEW c \in Callers, RequestStep(c) PROVE UNCHANGED now
      BY <3>1, RequestOutcome
    <3> QED
      BY <3>1 DEF Next, Place, PlaceStep, Snapshot, CreateAdmitted, CreateAnswer, PlaceFails,
         StartPoll, Cancel, CancelStep, CancelAdmitted, CancelAnswer, TradeUpdate, Commit,
         CommitCreate, CommitCancel, Execute, Fill, OtherPlaces, OtherCancels, Tick, Restart, vars
  <2> QED
    BY <2>1 DEF TwinInv
<1>3. \A o \in Orders : ost'[o] # "none" => createdAt'[o] >= StartTime
  BY TrackerMove DEF TwinInv, TrackMoves
<1>4. \A c \in Callers : req'[c].pc # "idle" => ost'[req'[c].ord] # "none"
  <2> SUFFICES ASSUME NEW c \in Callers, req'[c].pc # "idle"
               PROVE  ost'[req'[c].ord] # "none"
    OBVIOUS
  <2>1. req'[c].ord \in Orders /\ ost[req'[c].ord] # "none"
    BY RequestMove DEF RequestMoves, TwinInv, TypeOK, TaskType, Waits, Idle, Active
  <2> QED
    BY <2>1, TrackerMove DEF TrackMoves
<1>5. ASSUME NEW o \in Orders, NEW i \in DOMAIN book', Twin(i, o)'
      PROVE  /\ book'[i].at + Tolerance < StartTime
             /\ hasSpec'[o] /\ Resting(i)' => i \in preIds'[o]
  <2>1. i \in DOMAIN book /\ Twin(i, o)
    BY <1>1, <1>5, NoNewTwin
  <2>2. book'[i].at = book[i].at /\ (Resting(i)' => Resting(i))
    BY <1>1, <2>1 DEF BookGrows
  <2>3. ASSUME hasSpec'[o], Resting(i)' PROVE i \in preIds'[o]
    <3>1. i \in UserMarketOrders
      BY <2>1, <2>2, <2>3 DEF UserMarketOrders
    <3> QED
      BY <2>1, <2>2, <2>3, <3>1, SpecMove DEF TwinInv
  <2> QED
    BY <2>1, <2>2, <2>3 DEF TwinInv
<1> QED
  BY <1>2, <1>3, <1>4, <1>5 DEF TwinInv

(* A request keeps its candidates on the book and free of resting twins.   *)
LEMMA CandidateStep ==
  ASSUME NoTwins, TypeOK, HashInv, TwinInv, CandidateInv, [Next]_vars
  PROVE  CandidateInv'
<1> USE LifecycleAssumption
<1>1. BookGrows
  BY BookStep
<1>2. UserMarketOrders \subseteq DOMAIN book
  BY DEF UserMarketOrders
<1>3. ASSUME NEW c \in Callers PROVE req'[c].refs \cup req'[c].cands \subseteq DOMAIN book
  BY <1>2, RequestMove DEF RequestMoves, CandidateInv, Fresh, Waits, Candidates, Idle
<1>4. ASSUME NEW c \in Callers, NEW o \in Orders, o = req'[c].ord, ~req'[c].recovered,
             NEW i \in req'[c].cands, Twin(i, o)'
      PROVE  ~Resting(i)'
  <2>1. i \in DOMAIN book
    BY <1>3, <1>4
  <2>2. Twin(i, o)
    BY <1>1, <1>4, <2>1 DEF BookGrows, Twin
  <2>3. \/ i \in req[c].cands /\ o = req[c].ord /\ ~req[c].recovered
        \/ /\ hasSpec[o] /\ i \in Candidates(o, req[c].refs)
    BY <1>4, RequestMove DEF RequestMoves, Fresh, Waits, Idle
  <2>4. ~Resting(i)
    BY <2>1, <2>2, <2>3 DEF CandidateInv, TwinInv, Candidates
  <2> QED
    BY <1>1, <2>1, <2>4 DEF BookGrows
<1> QED
  BY <1>1, <1>3, <1>4 DEF CandidateInv, BookGrows

(* A candidate that looks like the order of the request is that order.     *)
LEMMA MatchIsOwn ==
  ASSUME NoTwins, TypeOK, TwinInv, CandidateInv, TargetInv, NEW c \in Callers,
         NEW o \in Orders, o = req[c].ord, req[c].pc # "idle", NEW i, Matching(c, i)
  PROVE  Own(o, i)
<1> USE LifecycleAssumption
<1>1. CASE i \in req[c].matches
  BY <1>1 DEF TargetInv
<1>2. CASE /\ i \in req[c].cands /\ LooksLike(i, o)
           /\ req[c].recovered => Near(i, o)
  <2>1. i \in DOMAIN book /\ Resting(i) /\ book[i].spec = SpecOf[o]
    BY <1>2 DEF LooksLike, CandidateInv, Resting
  <2>2. ASSUME book[i].owner # o PROVE FALSE
    <3>1. Twin(i, o)
      BY <2>1, <2>2 DEF Twin
    <3>2. Near(i, o)
      BY <1>2, <2>1, <3>1 DEF CandidateInv
    <3>3. book[i].at + Tolerance < StartTime /\ createdAt[o] >= StartTime
      BY <2>1, <3>1 DEF TwinInv
    <3>4. book[i].at \in Nat /\ createdAt[o] \in Nat
      <4>1. book[i] \in MarketOrders
        BY <2>1 DEF TypeOK, ChainType
      <4> QED
        BY <4>1 DEF MarketOrders, TypeOK, TrackerType
    <3> QED
      BY <3>2, <3>3, <3>4 DEF Near
  <2> QED
    BY <2>1, <2>2 DEF Own
<1> QED
  BY <1>1, <1>2 DEF Matching

(* Ids, matches and targets stay the orders' own.                          *)
LEMMA TargetStep ==
  ASSUME NoTwins, TypeOK, HashInv, TwinInv, CandidateInv, TargetInv, [Next]_vars
  PROVE  TargetInv'
<1> USE LifecycleAssumption
<1>0. /\ Poll \in Callers /\ \A o \in Orders : o \in Callers
      /\ \A o \in Orders : req[o].pc # "idle" => req[o].ord = o
  BY DEF Callers, HashInv
<1>1. \A o \in Orders : \A i : Own(o, i) => Own(o, i)'
  BY BookStep DEF BookGrows, Own
<1>2. ASSUME NEW o \in Orders, exId'[o].kind = "id" PROVE Own(o, exId'[o].n)
  <2>1. CASE exId'[o] = exId[o]
    BY <1>2, <2>1 DEF TargetInv
  <2>2. CASE exId'[o] # exId[o]
    <3>1. PICK i \in Nat : /\ req[Poll].pc = "detail" /\ req[Poll].ord = o
                           /\ exId'[o] = NativeId(i) /\ Matching(Poll, i)
      BY <1>2, <2>2, TrackerMove DEF IdMoves
    <3>2. Own(o, i)
      BY <1>0, <3>1, MatchIsOwn
    <3> QED
      BY <3>1, <3>2 DEF NativeId
  <2> QED
    BY <2>1, <2>2
<1>3. ASSUME NEW c \in Callers, NEW o \in Orders, o = req'[c].ord, NEW i \in req'[c].matches
      PROVE  Own(o, i)
  <2>1. \/ i \in req[c].matches /\ o = req[c].ord
        \/ req[c].pc # "idle" /\ o = req[c].ord /\ Matching(c, i)
    BY <1>3, RequestMove DEF RequestMoves, Fresh, Waits, Idle, Matching
  <2> QED
    BY <2>1, MatchIsOwn DEF TargetInv
<1>4. ASSUME NEW c \in Callers, NEW o \in Orders, o = req'[c].ord, req'[c].pc \in {"post", "sent"}
      PROVE  Own(o, req'[c].target)
  <2>1. \/ o = req[c].ord /\ req[c].pc \in {"post", "sent"} /\ req'[c].target = req[c].target
        \/ exId[o] = NativeId(req'[c].target)
        \/ req[c].pc = "detail" /\ o = req[c].ord /\ Matching(c, req'[c].target)
    BY <1>4, RequestMove DEF RequestMoves, Waits, Idle
  <2> QED
    BY <2>1, MatchIsOwn DEF TargetInv, NativeId
<1>5. ASSUME NEW o \in Orders, NEW n \in 2..Len(txs'[o]) PROVE Own(o, txs'[o][n].target)
  <2>1. CASE n \in DOMAIN txs[o] /\ txs'[o][n].target = txs[o][n].target
    BY <1>5, <2>1 DEF TargetInv, TypeOK, ChainType
  <2>2. CASE req[o].pc = "post" /\ txs'[o][n].target = req[o].target
    BY <1>0, <2>2 DEF TargetInv
  <2> QED
    BY <2>1, <2>2, TxMove DEF CancelsMove
<1> QED
  BY <1>1, <1>2, <1>3, <1>4, <1>5 DEF TargetInv

(* Ids, candidates and twins stay like this throughout.                    *)
LEMMA TargetInductive ==
  ASSUME NoTwins
  PROVE  Spec => [](TwinInv /\ CandidateInv /\ TargetInv)
<1> USE LifecycleAssumption
<1>1. Init => TwinInv /\ CandidateInv /\ TargetInv
  <2> SUFFICES ASSUME Init PROVE TwinInv /\ CandidateInv /\ TargetInv
    OBVIOUS
  <2>1. \A i \in DOMAIN book : /\ book[i].at = 0 /\ i \in DOMAIN Foreign
                               /\ book[i].spec = Foreign[i]
    BY DEF Init
  <2>2. TwinInv
    BY <2>1 DEF Init, TwinInv, Twin, NoTwins, Idle
  <2>3. CandidateInv
    BY DEF Init, CandidateInv, Idle
  <2>4. TargetInv
    BY DEF Init, TargetInv, NoId, Idle
  <2> QED
    BY <2>2, <2>3, <2>4
<1>2. /\ TypeOK /\ CancelInv /\ TwinInv /\ CandidateInv /\ TargetInv /\ [Next]_vars
      => TwinInv' /\ CandidateInv' /\ TargetInv'
  BY TwinStep, CandidateStep, TargetStep DEF CancelInv
<1> QED
  BY <1>1, <1>2, TypeCorrect, CancelInductive, PTL DEF Spec

(* Without twins every cancel transaction names the order it is for,       *)
(* through faults, lost answers, stale candidates and restarts. With twins *)
(* it need not: the id that is recovered can be that of another order.     *)
THEOREM CancelsNameTheirOrder ==
  ASSUME NoTwins
  PROVE  Spec => []CancelOnlyOwn
<1>1. TargetInv => CancelOnlyOwn
  BY DEF TargetInv, CancelOnlyOwn, Own
<1> QED
  BY <1>1, TargetInductive, PTL

(* One order on the book for each create that is confirmed, and none       *)
(* before; a confirmed cancel took its target off.                         *)
OffBookInv ==
  /\ \A o \in Orders :
       /\ ost[o] = "none" => place[o] = "idle"
       /\ place[o] \in Early => txs[o][1].st = "none"
       /\ txs[o][1].st # "ok" => \A i \in DOMAIN book : book[i].owner # o
  /\ \A o \in Orders : \A i, j \in DOMAIN book : book[i].owner = o /\ book[j].owner = o => i = j
  /\ \A o \in Orders : \A n \in 2..Len(txs[o]) :
       txs[o][n].st = "ok" => ~Resting(txs[o][n].target)

(* Every step keeps one order per confirmed create, off the book once      *)
(* canceled.                                                               *)
LEMMA OffBookStep ==
  ASSUME TypeOK, HashInv, TargetInv, OffBookInv, [Next]_vars
  PROVE  OffBookInv'
<1> USE LifecycleAssumption
<1>1. BookGrows
  BY BookStep
<1>2. ASSUME NEW o \in Orders, ost'[o] = "none" PROVE place'[o] = "idle"
  BY <1>2, TxMove, TrackerMove DEF OffBookInv, CreateMoves, PlaceMoves, TrackMoves
<1>3. ASSUME NEW o \in Orders, place'[o] \in Early PROVE txs'[o][1].st = "none"
  BY <1>3, TxMove DEF OffBookInv, CreateMoves, PlaceMoves, Early
<1>4. ASSUME NEW o \in Orders, txs'[o][1].st # "ok", NEW i \in DOMAIN book'
      PROVE  book'[i].owner # o
  <2>1. txs[o][1].st # "ok"
    BY <1>4, TxMove DEF OffBookInv, CreateMoves, Early
  <2>2. CASE i \in DOMAIN book
    BY <1>1, <2>1, <2>2 DEF OffBookInv, BookGrows
  <2>3. CASE i \notin DOMAIN book
    BY <1>1, <1>4, <2>3 DEF BookGrows
  <2> QED
    BY <2>2, <2>3
<1>5. ASSUME NEW o \in Orders, NEW i \in DOMAIN book', NEW j \in DOMAIN book',
             book'[i].owner = o, book'[j].owner = o
      PROVE  i = j
  <2>1. ASSUME NEW k \in DOMAIN book', book'[k].owner = o, k \notin DOMAIN book
        PROVE  /\ k = Len(book) + 1
               /\ \A m \in DOMAIN book : book[m].owner # o
    BY <1>1, <2>1 DEF BookGrows, OffBookInv
  <2> QED
    BY <1>1, <1>5, <2>1 DEF BookGrows, OffBookInv
<1>6. ASSUME NEW o \in Orders, NEW n \in 2..Len(txs'[o]), txs'[o][n].st = "ok",
             NEW i, i = txs'[o][n].target
      PROVE  ~Resting(i)'
  <2>1. /\ n \in DOMAIN txs[o] /\ i = txs[o][n].target
        /\ txs[o][n].st = "ok" \/ book' = [book EXCEPT ![i].left = 0]
    BY <1>6, TxMove DEF CancelsMove
  <2>2. n \in 2..Len(txs[o])
    <3>1. DOMAIN txs[o] = 1..Len(txs[o]) /\ Len(txs[o]) \in Nat
      BY DEF TypeOK, ChainType
    <3> QED
      BY <1>6, <2>1, <3>1
  <2>3. i \in DOMAIN book
    BY <2>1, <2>2 DEF TargetInv, Own
  <2>4. CASE txs[o][n].st = "ok"
    BY <1>1, <2>1, <2>2, <2>3, <2>4 DEF OffBookInv, BookGrows
  <2>5. CASE book' = [book EXCEPT ![i].left = 0]
    <3>1. book[i] \in MarketOrders
      BY <2>3 DEF TypeOK, ChainType
    <3>2. book'[i].left = 0
      BY <2>3, <2>5, <3>1 DEF MarketOrders
    <3> QED
      BY <3>2 DEF Resting
  <2> QED
    BY <2>1, <2>4, <2>5
<1>7. \A o \in Orders :
        /\ ost'[o] = "none" => place'[o] = "idle"
        /\ place'[o] \in Early => txs'[o][1].st = "none"
        /\ txs'[o][1].st # "ok" => \A i \in DOMAIN book' : book'[i].owner # o
  BY <1>2, <1>3, <1>4
<1>8. \A o \in Orders : \A i, j \in DOMAIN book' : book'[i].owner = o /\ book'[j].owner = o => i = j
  BY <1>5
<1>9. \A o \in Orders : \A n \in 2..Len(txs'[o]) :
        txs'[o][n].st = "ok" => ~(book'[txs'[o][n].target].left > 0)
  BY <1>6 DEF Resting
<1> QED
  BY <1>7, <1>8, <1>9 DEF OffBookInv, Resting

(* One order for each create, off the book once its cancel is confirmed.   *)
LEMMA OffBookInductive ==
  ASSUME NoTwins
  PROVE  Spec => []OffBookInv
<1> USE LifecycleAssumption
<1>1. Init => OffBookInv
  BY DEF Init, OffBookInv, Early
<1>2. TypeOK /\ CancelInv /\ TargetInv /\ OffBookInv /\ [Next]_vars => OffBookInv'
  BY OffBookStep DEF CancelInv
<1> QED
  BY <1>1, <1>2, TypeCorrect, CancelInductive, TargetInductive, PTL DEF Spec

(* Without twins an order that is reported canceled has nothing left on    *)
(* the book.                                                               *)
THEOREM CanceledOffBook ==
  ASSUME NoTwins
  PROVE  Spec => []CanceledIsOffBook
<1>1. ASSUME CancelInv, TargetInv, OffBookInv PROVE CanceledIsOffBook
  <2> SUFFICES ASSUME NEW o \in Orders, ost[o] = "CANCELED", NEW i \in UserMarketOrders,
                      book[i].owner = o
               PROVE  FALSE
    BY DEF CanceledIsOffBook
  <2>1. PICK n \in 2..Len(txs[o]) : txs[o][n].st = "ok"
    BY <1>1 DEF CancelInv, CanceledIsConfirmed, TxConfirmed
  <2>2. Own(o, txs[o][n].target) /\ ~Resting(txs[o][n].target)
    BY <1>1, <2>1 DEF TargetInv, OffBookInv
  <2>3. i \in DOMAIN book /\ Resting(i)
    BY DEF UserMarketOrders
  <2>4. i = txs[o][n].target
    BY <1>1, <2>2, <2>3 DEF OffBookInv, Own
  <2> QED
    BY <2>2, <2>3, <2>4
<1> QED
  BY <1>1, CancelInductive, TargetInductive, OffBookInductive, PTL
=============================================================================
