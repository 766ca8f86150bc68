---------------------------- MODULE OrderRequest ----------------------------
(***************************************************************************)
(* The numbers of one order on their way to the chain and back: the size   *)
(* check and the conversions of _place_order, the transaction, the order   *)
(* the node reads out of it, its trades, and the amounts credited by       *)
(* _allocate_trade_updates.                                                *)
(*                                                                         *)
(* External: Hummingbot, which rounds prices and amounts to the increments *)
(* of the trading rules; the node, which checks the transaction, the       *)
(* sender's address and the smallest order, shows prices as they were      *)
(* sent, and never changes an exponent.  The account number is not zero.   *)
(***************************************************************************)
EXTENDS Transactions, Bech32, Functions

CONSTANTS
  Markets,          \* records with the id and the exponents
  Steps, Lots,      \* prices in increments, amounts in quanta
  Keys, HashOf,     \* public keys and their hashes
  Hrp,              \* address_prefix
  ClientIds,        \* client order ids
  OrderId,          \* the id the chain gives
  Gas, GasPrice,    \* gas limit and price
  Account,          \* number and sequence
  Names,            \* type URLs, sides, denomination, chain id, memo prefixes
  MaxTrades,        \* bound
  None

ASSUME RequestAssumption ==
  /\ Markets \subseteq [id : Seq(Byte), base : Nat, quote : Nat]
  /\ Steps \subseteq Nat \ {0} /\ Lots \subseteq Nat \ {0}
  /\ Keys \subseteq Seq(Byte) /\ \A k \in Keys : HashOf[k] \in Seq(Byte)
  /\ Hrp \in Seq(0..127) /\ ClientIds \subseteq Seq(Byte) /\ OrderId \in Seq(Byte)
  /\ Gas \in Nat /\ GasPrice \in [c : Nat, e : Int]
  /\ Account \in [number : Nat \ {0}, sequence : Nat]
  /\ DOMAIN Names = {"pubKey", "create", "cancel", "buy", "sell", "native", "chain",
                     "hbot", "hbotCancel"}
  /\ \A name \in DOMAIN Names : Names[name] \in Seq(Byte)
  /\ MaxTrades \in Nat

VARIABLES
  market, key,
  asked,      \* InFlightOrder: side, price and amount
  stage,
  wire,       \* the transaction that was sent last
  book,       \* chain: the order
  history,    \* chain: its trades
  credited,   \* executed_amount_base, in quanta
  polled      \* how many trades the last poll saw

vars == <<market, key, asked, stage, wire, book, history, credited, polled>>

Sides == {"buy", "sell"}
Stages == {"new", "tooSmall", "placed", "open", "canceling", "canceled", "refused"}

Price(m, steps) == Times(Decimal(steps, 0), MinPriceIncrement(m))
Lot(m, lots) == Times(Decimal(lots, 0), Quantum(m.base))

TypeOK ==
  /\ market \in Markets /\ key \in Keys
  /\ asked = None \/ asked \in [side : Sides, steps : Steps, lots : Lots, id : ClientIds]
  /\ stage \in Stages
  /\ wire \in Seq(Byte)
  /\ book = None \/ DOMAIN book = {"side", "price", "amount", "left", "market"}
  /\ history \in Seq([price : Seq(Byte), amount : Seq(Byte)])
  /\ credited \in Nat /\ polled \in 0..Len(history)

Init == /\ market \in Markets /\ key \in Keys
        /\ asked = None /\ stage = "new"
        /\ wire = <<>> /\ book = None /\ history = <<>>
        /\ credited = 0 /\ polled = 0

AskedPrice == Price(market, asked.steps)
AskedAmount == Lot(market, asked.lots)

Address == [k \in Keys |-> Bech32Encode(Hrp, HashOf[k])]

Transaction(message, memo) ==
  SignedTransaction(key, TxBody(message, memo),
    AuthInfo(SignerInfo(Names.pubKey, key, Account.sequence),
             Fee(Names.native, FeeAmountFromGas(Gas, GasPrice), Gas)),
    Names.chain, Account.number)

MsgCreateOrder(side, lots, steps) ==
  AnyMessage(Names.create,
    Strings(<<Address[key], Names[side], DisplayAmountToChain(Lot(market, lots), market.base),
              DisplayPriceToChain(Price(market, steps), market), market.id>>))
MsgCancelOrder(side) ==
  AnyMessage(Names.cancel, Strings(<<Address[key], market.id, OrderId, Names[side]>>))

(* Mutant: the size is checked against the display price.                  *)
SmallDisplay(steps, lots) ==
  Less(Lot(market, lots), MinimumOrderSize(Text(Price(market, steps)), market))

TooSmall(steps, lots) ==
  Less(Lot(market, lots),
       MinimumOrderSize(DisplayPriceToChain(Price(market, steps), market), market))

(* _place_order: the check, and the transaction.                           *)
Place(side, steps, lots, id) ==
  /\ stage = "new"
  /\ asked' = [side |-> side, steps |-> steps, lots |-> lots, id |-> id]
  /\ IF TooSmall(steps, lots)
     THEN stage' = "tooSmall" /\ UNCHANGED wire
     ELSE /\ stage' = "placed"
          /\ wire' = Transaction(MsgCreateOrder(side, lots, steps), Names.hbot \o id)
  /\ UNCHANGED <<market, key, book, history, credited, polled>>

(* _place_cancel, once the id is known.                                    *)
CancelOrder == /\ stage = "open"
               /\ stage' = "canceling"
               /\ wire' = Transaction(MsgCancelOrder(asked.side), Names.hbotCancel \o asked.id)
               /\ UNCHANGED <<market, key, asked, book, history, credited, polled>>

-----------------------------------------------------------------------------
(* The node (external). *)

AddressValid == [k \in Keys |-> Decoded(Hrp, Address[k]) = HashOf[k]]

(* It signs the fields again and wants the smallest fee.                   *)
SignedBy(signer) ==
  /\ Field(Field(Field(signer, 1), 2), 1) = key
  /\ Field(signer, 3) = <<Account.sequence>>
Pays(fee) ==
  /\ Field(fee, 2) = <<Gas>>
  /\ Field(Field(fee, 1), 1) = Names.native
  /\ ~Less(Read(Field(Field(fee, 1), 2)), Times(Decimal(Gas, 0), GasPrice))
SignsFor(raw, document) ==
  /\ Len(Fields(document)) = 4
  /\ Field(document, 1) = Field(raw, 1) /\ Field(document, 2) = Field(raw, 2)
  /\ Field(document, 3) = Names.chain /\ Field(document, 4) = <<Account.number>>
Signs(raw, signature) ==
  /\ SubSeq(signature, 1, Len(key)) = key
  /\ SignsFor(raw, SubSeq(signature, Len(key) + 1, Len(signature)))

Authentic(raw) == /\ SignedBy(Field(Field(raw, 2), 1))
                  /\ Pays(Field(Field(raw, 2), 2))
                  /\ Signs(raw, Field(raw, 3))

Message(raw) == Field(Field(raw, 1), 1)
Sender(message) == Field(Field(message, 2), 1)
Known(message) == AddressValid[key] /\ Sender(message) = Address[key]

(* Half of the amount is worth a unit of the quote token, or more.         *)
WorthIt(price, amount) ==
  \E half \in 0..(amount \div 2) : ~Less(Times(Decimal(half, 0), price), Decimal(1, 0))

(* The fields of a MsgCreateOrder and of a MsgCancelOrder.                 *)
OrderOf(fields) ==
  [side |-> Field(fields, 2), price |-> Field(fields, 4), market |-> Field(fields, 5),
   amount |-> Value(Field(fields, 3)), left |-> Value(Field(fields, 3))]
Takes(message, order) ==
  /\ Field(message, 1) = Names.create /\ Known(message)
  /\ WorthIt(Read(order.price), order.amount)
Cancels(message, fields) ==
  /\ Field(message, 1) = Names.cancel /\ Known(message)
  /\ Field(fields, 2) = book.market /\ Field(fields, 3) = OrderId
  /\ Field(fields, 4) = book.side

DeliverCreate ==
  /\ stage = "placed"
  /\ IF Authentic(wire) /\ Takes(Message(wire), OrderOf(Field(Message(wire), 2)))
     THEN stage' = "open" /\ book' = OrderOf(Field(Message(wire), 2))
     ELSE stage' = "refused" /\ UNCHANGED book
  /\ UNCHANGED <<market, key, asked, wire, history, credited, polled>>

DeliverCancel ==
  /\ stage = "canceling"
  /\ IF Authentic(wire) /\ Cancels(Message(wire), Field(Message(wire), 2))
     THEN stage' = "canceled"
     ELSE stage' = "refused"
  /\ UNCHANGED <<market, key, asked, wire, book, history, credited, polled>>

Trade(n) == /\ n <= book.left /\ Len(history) < MaxTrades
            /\ book' = [book EXCEPT !.left = @ - n]
            /\ history' = Append(history, [price |-> book.price, amount |-> Digits[n]])
            /\ UNCHANGED <<market, key, asked, stage, wire, credited, polled>>

-----------------------------------------------------------------------------
(* _allocate_trade_updates for the sole order of its bucket, with every    *)
(* trade in one history.                                                   *)
Matches(trade) == Text(ChainPriceToDisplay(trade.price, market)) = Text(AskedPrice)

Credit == /\ stage \notin {"new", "tooSmall", "placed", "refused"}
          /\ credited' = SumFunction([i \in {j \in DOMAIN history : Matches(history[j])} |->
                 At(ChainAmountToDisplay(history[i].amount, market.base), -market.base)])
          /\ polled' = Len(history)
          /\ UNCHANGED <<market, key, asked, stage, wire, book, history>>

Next == \/ \E side \in Sides, steps \in Steps, lots \in Lots, id \in ClientIds :
             Place(side, steps, lots, id)
        \/ CancelOrder \/ DeliverCreate \/ DeliverCancel
        \/ stage \in {"open", "canceling"} /\ \E n \in {1, book.left} \ {0} : Trade(n)
        \/ Credit

Spec == Init /\ [][Next]_vars

-----------------------------------------------------------------------------
(* Properties. *)

(* What the node reads out of the transaction is the order Hummingbot      *)
(* tracks, in value: side, market, price and amount, whatever the lengths  *)
(* and numbers that are encoded; and neither the create nor the cancel is  *)
(* refused, not for its signature, its fee, its address or its size.       *)
ArrivesAsAsked ==
  /\ stage # "refused"
  /\ book # None =>
       /\ book.side = Names[asked.side] /\ book.market = market.id
       /\ Same(ChainPriceToDisplay(book.price, market), AskedPrice)
       /\ Same(Times(Decimal(book.amount, 0), Quantum(market.base)), AskedAmount)

(* The size check gives up no order that the chain would take.             *)
RefusesWithTheChain ==
  stage = "tooSmall" =>
    ~WorthIt(Read(DisplayPriceToChain(AskedPrice, market)),
             ToIntegral(Per(AskedAmount, Quantum(market.base))))

(* A credit counts every trade of the order: prices that went to the chain *)
(* and back still have the text of the order's price, and after all of its *)
(* trades the order is complete and not before.                            *)
TradesRecognised ==
  polled = Len(history) /\ book # None =>
    /\ credited = book.amount - book.left
    /\ credited >= asked.lots <=> book.left = 0
=============================================================================
