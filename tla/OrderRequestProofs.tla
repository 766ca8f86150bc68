------------------------- MODULE OrderRequestProofs -------------------------
(***************************************************************************)
(* What Hummingbot asks for is what the chain takes, and what the chain    *)
(* trades is what is credited, for every market, price, amount, key, id    *)
(* and fee.  The transaction that is on its way is fixed by the order that *)
(* is tracked, so that the lemmas of EncodingProofs say what the node      *)
(* reads; the chain's order keeps the price and the amount that were sent, *)
(* and the sum of the trades is what is gone of it.                        *)
(***************************************************************************)
EXTENDS OrderRequest, EncodingProofs

(* What Hummingbot tracks of an order.                                     *)
AskedOrders == [side : Sides, steps : Steps, lots : Lots, id : ClientIds]

(* The text of a price on the chain, and the units of the quote token that *)
(* are worth one unit of it, rounded up.                                   *)
PriceText(steps) == Text(Decimal(steps, -PriceSigDigits))
UnitsWorth(steps) == CeilingOver(TenTo[PriceSigDigits], steps)

(* The transactions of the order that is tracked.                          *)
CreateWire == Transaction(MsgCreateOrder(asked.side, asked.lots, asked.steps), Names.hbot \o asked.id)
CancelWire == Transaction(MsgCancelOrder(asked.side), Names.hbotCancel \o asked.id)

(* The sum of the amounts of trades, and the text of an amount.            *)
Traded(trades) == SumFunction([i \in 1..Len(trades) |-> Value(trades[i].amount)])
IsAmount(text) == Value(text) \in Nat /\ text = Digits[Value(text)]

(* The chain's order, once there is one: as sent, with its trades summing  *)
(* up to what is gone of it, and all of them credited by a poll that saw   *)
(* all of them.                                                            *)
OnBook ==
  /\ book = [side |-> Names[asked.side], price |-> PriceText(asked.steps), market |-> market.id,
             amount |-> asked.lots, left |-> book.left]
  /\ book.left \in 0..asked.lots
  /\ \A i \in 1..Len(history) : history[i].price = book.price /\ IsAmount(history[i].amount)
  /\ Traded(history) = asked.lots - book.left
  /\ polled = Len(history) => credited = Traded(history)

(* The invariant: types, where the create and the cancel are never         *)
(* refused; what is on its way; what is on the chain.                      *)
OrderTyped ==
  /\ market \in Markets /\ key \in Keys
  /\ stage \in Stages \ {"refused"}
  /\ IF stage = "new" THEN asked = None ELSE asked \in AskedOrders
  /\ wire \in Bytes
  /\ history \in Seq([price : Bytes, amount : Bytes])
  /\ credited \in Nat /\ polled \in 0..Len(history)
OrderSent ==
  /\ stage = "tooSmall" => TooSmall(asked.steps, asked.lots)
  /\ stage = "placed" => ~TooSmall(asked.steps, asked.lots) /\ wire = CreateWire
  /\ stage = "canceling" => wire = CancelWire
OrderBooked ==
  IF stage \in {"new", "tooSmall", "placed"}
  THEN book = None /\ history = <<>> /\ credited = 0
  ELSE OnBook
IInv == OrderTyped /\ OrderSent /\ OrderBooked

-----------------------------------------------------------------------------
(* Prices and amounts.                                                     *)

MarketRecords == [id : Bytes, base : Nat, quote : Nat]

(* What the constants are.                                                 *)
LEMMA Constants ==
  /\ Markets \subseteq MarketRecords /\ Steps \subseteq Nat \ {0} /\ Lots \subseteq Nat \ {0}
  /\ Keys \subseteq Bytes /\ \A k \in Keys : HashOf[k] \in Bytes
  /\ Hrp \in Printable /\ ClientIds \subseteq Bytes /\ OrderId \in Bytes
  /\ Gas \in Nat /\ GasPrice.c \in Nat /\ GasPrice.e \in Int
  /\ Account.number \in Nat /\ Account.sequence \in Nat
  /\ PriceSigDigits \in Nat
BY RequestAssumption, ConversionsAssumption DEF MarketRecords, Bytes, Printable, Ascii

(* The names that a transaction carries are bytes.                         *)
LEMMA NamesAreBytes ==
  /\ Names.pubKey \in Bytes /\ Names.create \in Bytes /\ Names.cancel \in Bytes
  /\ Names.native \in Bytes /\ Names.chain \in Bytes /\ Names.hbot \in Bytes
  /\ Names.hbotCancel \in Bytes /\ \A side \in Sides : Names[side] \in Bytes
BY RequestAssumption DEF Bytes, Sides

(* Numbers as texts, with a point or without, are bytes.                   *)
LEMMA TextsAreBytes ==
  \A s : (s \in Seq(46..57) \/ s \in Seq(48..57)) => s \in Bytes
<1>1. 46..57 \subseteq Byte /\ 48..57 \subseteq Byte
  BY DEF Byte
<1> DEFINE A == 46..57
           B == 48..57
<1> HIDE DEF A, B
<1>2. \A s \in Seq(A) : A \subseteq Byte => s \in Bytes
  BY SeqWithin DEF Bytes
<1>3. \A s \in Seq(B) : B \subseteq Byte => s \in Bytes
  BY SeqWithin DEF Bytes
<1> QED
  BY <1>1, <1>2, <1>3 DEF A, B

(* The digits of a number are bytes, and are read as that number.          *)
LEMMA AmountsAreBytes ==
  \A n \in Nat : Digits[n] \in Bytes /\ IsAmount(Digits[n]) /\ Value(Digits[n]) = n
BY DigitsType, ValueOfDigits, TextsAreBytes DEF IsAmount

(* The text of a price is read as the price that was written.              *)
LEMMA PriceTextRead ==
  ASSUME NEW steps \in Nat
  PROVE  /\ PriceText(steps) \in Bytes
         /\ Read(PriceText(steps)) = Decimal(steps, -PriceSigDigits)
         /\ Value(PriceText(steps)) = steps
<1>1. PriceSigDigits \in Nat
  BY ConversionsAssumption
<1>2. PriceText(steps) \in Seq(46..57) /\ Read(PriceText(steps)) = Decimal(steps, -PriceSigDigits)
  BY <1>1, ReadText DEF PriceText
<1>3. Value(PriceText(steps)) = steps
  BY <1>2 DEF Read, Decimal
<1> QED
  BY <1>2, <1>3, TextsAreBytes

(* A price goes to the chain as a number of increments and comes back as   *)
(* the price it was, digit for digit.                                      *)
LEMMA PriceThereAndBack ==
  ASSUME NEW m \in MarketRecords, NEW steps \in Nat
  PROVE  /\ DisplayPriceToChain(Price(m, steps), m) = PriceText(steps)
         /\ ChainPriceToDisplay(PriceText(steps), m) = Price(m, steps)
<1>1. m.base \in Int /\ m.quote \in Int /\ PriceSigDigits \in Int
  BY ConversionsAssumption DEF MarketRecords
<1>2. Price(m, steps) = Decimal(steps, m.base - m.quote - PriceSigDigits)
  BY <1>1 DEF Price, Times, MinPriceIncrement, PowerOfTen, Decimal
<1>3. Times(Price(m, steps), DisplayPriceScaler(m)) = Decimal(steps, -PriceSigDigits)
  <2> DEFINE e == m.base - m.quote - PriceSigDigits
  <2>1. e + (m.quote - m.base) = -PriceSigDigits
    BY <1>1
  <2> HIDE DEF e
  <2> QED
    BY <1>2, <2>1 DEF Times, DisplayPriceScaler, PowerOfTen, Decimal, e
<1>4. ChainPriceScaler(m) = Decimal(1, m.base - m.quote)
  <2>1. 0 - (m.quote - m.base) = m.base - m.quote
    BY <1>1
  <2> QED
    BY <2>1 DEF ChainPriceScaler, Per, DisplayPriceScaler, PowerOfTen, Decimal
<1>5. Times(Decimal(steps, -PriceSigDigits), ChainPriceScaler(m)) = Price(m, steps)
  <2>1. -PriceSigDigits + (m.base - m.quote) = m.base - m.quote - PriceSigDigits
    BY <1>1
  <2> QED
    BY <1>2, <1>4, <2>1 DEF Times, Decimal
<1> QED
  BY <1>3, <1>5, PriceTextRead DEF DisplayPriceToChain, ChainPriceToDisplay, PriceText

(* And so does an amount.                                                  *)
LEMMA AmountThereAndBack ==
  ASSUME NEW m \in MarketRecords, NEW lots \in Nat
  PROVE  /\ Lot(m, lots) = Decimal(lots, -m.base)
         /\ ToIntegral(Per(Lot(m, lots), Quantum(m.base))) = lots
         /\ DisplayAmountToChain(Lot(m, lots), m.base) = Digits[lots]
         /\ At(ChainAmountToDisplay(Digits[lots], m.base), -m.base) = lots
<1>1. m.base \in Nat
  BY DEF MarketRecords
<1> DEFINE b == -m.base
<1>2. b \in Int
  BY <1>1
<1> HIDE DEF b
<1>3. Quantum(m.base) = Decimal(1, b)
  BY DEF Quantum, PowerOfTen, b
<1>4. Times(Decimal(lots, 0), Quantum(m.base)) = Decimal(lots, b)
  BY <1>2, <1>3 DEF Times, Decimal
<1>5. Lot(m, lots) = Decimal(lots, b)
  BY <1>4 DEF Lot
<1>6. Per(Lot(m, lots), Quantum(m.base)) = Decimal(lots, 0)
  <2>1. b - b = 0
    BY <1>2
  <2> QED
    BY <1>3, <1>5, <2>1 DEF Per, Decimal
<1>7. ToIntegral(Decimal(lots, 0)) = lots
  <2>1. TenTo[0 - 0] = 1
    BY TenToPowers
  <2> QED
    BY <2>1 DEF ToIntegral, At, Decimal
<1>8. At(Decimal(lots, b), b) = lots
  <2>1. b - b = 0 /\ TenTo[0] = 1
    BY <1>2, TenToPowers
  <2> QED
    BY <2>1 DEF At, Decimal
<1>9. ChainAmountToDisplay(Digits[lots], m.base) = Decimal(lots, b)
  BY <1>4, ReadDigits DEF ChainAmountToDisplay
<1> QED
  BY <1>5, <1>6, <1>7, <1>8, <1>9 DEF DisplayAmountToChain, b

(* The size check of _place_order in whole numbers.                        *)
LEMMA SizeChecked ==
  ASSUME NEW m \in MarketRecords, m = market, NEW steps \in Nat \ {0}, NEW lots \in Nat
  PROVE  /\ UnitsWorth(steps) \in Nat
         /\ \A k \in Nat : k * steps >= TenTo[PriceSigDigits] <=> k >= UnitsWorth(steps)
         /\ TooSmall(steps, lots) <=> lots < 2 * UnitsWorth(steps)
<1> DEFINE sig == PriceSigDigits
           x == Decimal(steps, -sig)
           u == UnitsWorth(steps)
           t == TenTo[sig]
<1>1. sig \in Nat /\ t \in Nat \ {0}
  BY ConversionsAssumption, TenToPowers
<1>2. u \in Nat /\ \A k \in Nat : k * steps >= t <=> k >= u
  <2>1. u = CeilingOver(t, steps)
    BY DEF UnitsWorth
  <2> HIDE DEF u, t
  <2> QED
    BY <1>1, <2>1, CeilingOverLeast
<1>3. CeilingOfInverse(x) = u
  <2>1. CASE sig = 0
    <3>1. -sig = 0
      <4>1. PICK j \in Int : j = -sig
        BY <1>1
      <4>2. j + sig = 0
        BY <1>1, <4>1
      <4>3. j = 0
        BY <2>1, <4>2
      <4> QED
        BY <4>1, <4>3
    <3>2. x.e = 0 /\ x.c = steps
      BY <3>1 DEF Decimal
    <3>3. TenTo[0 - 0] = 1 /\ TenTo[0] = 1
      BY TenToPowers
    <3>4. At(x, 0) = steps
      BY <3>2, <3>3 DEF At
    <3>5. CeilingOfInverse(x) = CeilingOver(1, steps)
      BY <3>2, <3>4 DEF CeilingOfInverse
    <3> QED
      BY <2>1, <3>3, <3>5 DEF UnitsWorth
  <2>2. CASE sig # 0
    <3> DEFINE e == -sig
    <3>1. ~(e >= 0) /\ -e = sig
      BY <1>1, <2>2
    <3>2. x.e = e /\ x.c = steps
      BY DEF Decimal
    <3> HIDE DEF e, x
    <3>3. CeilingOfInverse(x) = CeilingOver(TenTo[-e], steps)
      BY <3>1, <3>2 DEF CeilingOfInverse
    <3> QED
      BY <3>1, <3>3 DEF UnitsWorth
  <2> QED
    BY <2>1, <2>2
<1>4. TooSmall(steps, lots) <=> lots < 2 * u
  <2> DEFINE text == DisplayPriceToChain(Price(m, steps), m)
             b == -m.base
             o == 2 * u
  <2>1. text = PriceText(steps) /\ Value(text) = steps /\ Read(text) = x
    BY PriceThereAndBack, PriceTextRead
  <2>2. b \in Int /\ Quantum(m.base) = Decimal(1, b) /\ o \in Nat
    BY <1>2 DEF MarketRecords, Quantum, PowerOfTen
  <2> HIDE DEF b, text, o, x, u
  <2>3. MinimumOrderSize(text, m) = Times(Decimal(o, 0), Quantum(m.base))
    BY <1>3, <2>1 DEF MinimumOrderSize, o
  <2>4. Times(Decimal(o, 0), Quantum(m.base)) = Decimal(o, b)
    BY <2>2 DEF Times, Decimal
  <2>5. Lot(m, lots) = Decimal(lots, b)
    BY AmountThereAndBack DEF b
  <2>6. Less(Decimal(lots, b), Decimal(o, b)) <=> lots < o
    <3>1. b - b = 0 /\ TenTo[0] = 1
      BY <2>2, TenToPowers
    <3>2. Low(Decimal(lots, b), Decimal(o, b)) = b
      BY DEF Low, Decimal
    <3>3. At(Decimal(lots, b), b) = lots /\ At(Decimal(o, b), b) = o
      BY <2>2, <3>1 DEF At, Decimal
    <3> QED
      BY <3>2, <3>3 DEF Less
  <2>7. TooSmall(steps, lots) <=> Less(Lot(m, lots), MinimumOrderSize(text, m))
    BY DEF TooSmall, text
  <2> QED
    BY <2>3, <2>4, <2>5, <2>6, <2>7 DEF o, u
<1> QED
  BY <1>2, <1>4

(* And the chain's.                                                        *)
LEMMA ChainTakesSize ==
  ASSUME NEW steps \in Nat \ {0}, NEW lots \in Nat, NEW u \in Nat,
         \A k \in Nat : k * steps >= TenTo[PriceSigDigits] <=> k >= u
  PROVE  WorthIt(Decimal(steps, -PriceSigDigits), lots) <=> lots >= 2 * u
<1> DEFINE sig == PriceSigDigits
           e == -sig
           t == TenTo[sig]
           worth(half) == ~Less(Times(Decimal(half, 0), Decimal(steps, e)), Decimal(1, 0))
<1>1. sig \in Nat /\ t \in Nat \ {0} /\ e \in Int /\ e <= 0
  BY ConversionsAssumption, TenToPowers
<1>2. 0 - e = sig
  BY <1>1
<1> HIDE DEF e
<1>3. ASSUME NEW half \in Nat
      PROVE  worth(half) <=> half >= u
  <2> DEFINE c == half * steps
             x == Decimal(c, e)
             y == Decimal(1, 0)
  <2>1. c \in Nat
    OBVIOUS
  <2> HIDE DEF c
  <2>2. Times(Decimal(half, 0), Decimal(steps, e)) = x
    BY <1>1 DEF Times, Decimal, c
  <2>3. Low(x, y) = e
    BY <1>1 DEF Low, Decimal
  <2>4. At(x, e) = c
    <3>1. e - e = 0 /\ TenTo[0] = 1
      BY <1>1, TenToPowers
    <3> QED
      BY <2>1, <3>1 DEF At, Decimal
  <2>5. At(y, e) = t
    BY <1>1, <1>2 DEF At, Decimal
  <2>6. worth(half) <=> ~(c < t)
    BY <2>2, <2>3, <2>4, <2>5 DEF Less
  <2>7. c >= t <=> half >= u
    BY DEF c
  <2> QED
    BY <1>1, <2>1, <2>6, <2>7
<1>4. WorthIt(Decimal(steps, e), lots) <=> \E half \in 0..(lots \div 2) : worth(half)
  BY DEF WorthIt
<1> HIDE DEF worth
<1> DEFINE h == lots \div 2
<1>5. h \in Nat /\ (h >= u <=> lots >= 2 * u)
  OBVIOUS
<1> HIDE DEF h
<1>6. (\E half \in 0..h : worth(half)) <=> h >= u
  <2>1. h \in 0..h /\ \A half \in 0..h : half \in Nat /\ half <= h
    BY <1>5
  <2> QED
    BY <1>3, <1>5, <2>1
<1> QED
  BY <1>4, <1>5, <1>6 DEF h, e

-----------------------------------------------------------------------------
(* Transactions.                                                           *)

(* Bytes after bytes are bytes.                                            *)
LEMMA JoinedBytes ==
  \A a, b \in Bytes : a \o b \in Bytes
BY ConcatProperties DEF Bytes

(* The fee covers the gas at the gas price.                                *)
LEMMA FeePays ==
  LET amount == FeeAmountFromGas(Gas, GasPrice)
      fee == Fee(Names.native, amount, Gas)
  IN amount \in Bytes /\ fee \in Bytes /\ Pays(fee)
<1> DEFINE amount == FeeAmountFromGas(Gas, GasPrice)
           fee == Fee(Names.native, amount, Gas)
           c == Gas * GasPrice.c
           e == GasPrice.e
           n == Ceiling(Decimal(c, e))
<1>1. c \in Nat /\ e \in Int
  BY Constants
<1>2. Times(Decimal(Gas, 0), GasPrice) = Decimal(c, e)
  BY <1>1 DEF Times, Decimal
<1> HIDE DEF c, e
<1>3. n \in Nat /\ ~Less(Decimal(n, 0), Decimal(c, e))
  BY <1>1, CeilingCovers
<1>4. amount = Digits[n]
  BY <1>2 DEF FeeAmountFromGas
<1> HIDE DEF n, amount
<1>5. amount \in Bytes /\ Read(amount) = Decimal(n, 0)
  BY <1>3, <1>4, AmountsAreBytes, ReadDigits
<1>6. /\ fee \in Bytes /\ Field(Field(fee, 1), 1) = Names.native
      /\ Field(Field(fee, 1), 2) = amount /\ Field(fee, 2) = <<Gas>>
  <2> DEFINE denom == Names.native
  <2>1. denom \in Bytes /\ Gas \in Nat
    BY Constants, NamesAreBytes
  <2> HIDE DEF denom
  <2>2. /\ Fee(denom, amount, Gas) \in Bytes
        /\ Field(Field(Fee(denom, amount, Gas), 1), 1) = denom
        /\ Field(Field(Fee(denom, amount, Gas), 1), 2) = amount
        /\ Field(Fee(denom, amount, Gas), 2) = <<Gas>>
    BY <1>5, <2>1, FeeFields
  <2> QED
    BY <2>2 DEF denom
<1>7. Pays(fee)
  BY <1>2, <1>3, <1>5, <1>6 DEF Pays
<1> QED
  BY <1>5, <1>6, <1>7 DEF amount

(* The node accepts the signature, the sequence and the fee of every       *)
(* transaction, and reads its message.                                     *)
LEMMA TransactionReads ==
  ASSUME key \in Keys, NEW message \in Bytes, NEW memo \in Bytes
  PROVE  /\ Transaction(message, memo) \in Bytes
         /\ Authentic(Transaction(message, memo))
         /\ Message(Transaction(message, memo)) = message
<1> DEFINE fee == Fee(Names.native, FeeAmountFromGas(Gas, GasPrice), Gas)
           signer == SignerInfo(Names.pubKey, key, Account.sequence)
           body == TxBody(message, memo)
           auth == AuthInfo(signer, fee)
           document == SignDoc(body, auth, Names.chain, Account.number)
           signature == Sign(key, document)
           raw == TxRaw(body, auth, signature)
<1>1. raw = Transaction(message, memo)
  BY DEF Transaction, SignedTransaction
<1>2. key \in Bytes /\ Account.sequence \in Nat /\ Account.number \in Nat
  BY Constants
<1>3. fee \in Bytes /\ Pays(fee)
  BY FeePays
<1>4. signer \in Bytes /\ SignedBy(signer)
  BY <1>2, NamesAreBytes, SignerInfoFields DEF SignedBy
<1>5. body \in Bytes /\ Field(body, 1) = message
  BY TxBodyFields
<1> HIDE DEF fee, signer, body
<1>6. auth \in Bytes /\ Field(auth, 1) = signer /\ Field(auth, 2) = fee
  BY <1>3, <1>4, AuthInfoFields
<1> HIDE DEF auth
<1>7. /\ document \in Bytes /\ Len(Fields(document)) = 4
      /\ Field(document, 1) = body /\ Field(document, 2) = auth
      /\ Field(document, 3) = Names.chain /\ Field(document, 4) = <<Account.number>>
  <2> DEFINE chain == Names.chain
             number == Account.number
  <2>1. chain \in Bytes /\ number \in Nat
    BY <1>2, NamesAreBytes
  <2> HIDE DEF chain, number
  <2>2. /\ SignDoc(body, auth, chain, number) \in Bytes
        /\ HasFields(SignDoc(body, auth, chain, number), body, auth, chain, number)
    BY <1>5, <1>6, <2>1, SignDocFields
  <2>3. SignDoc(body, auth, chain, number) = document
    BY DEF chain, number
  <2> HIDE DEF document
  <2>4. document \in Bytes /\ HasFields(document, body, auth, chain, number)
    BY <2>2, <2>3
  <2> QED
    BY <2>4 DEF chain, number, HasFields
<1> HIDE DEF document
<1>8. /\ signature \in Bytes /\ SubSeq(signature, 1, Len(key)) = key
      /\ SubSeq(signature, Len(key) + 1, Len(signature)) = document
  BY <1>2, <1>7, SignSplits
<1> HIDE DEF signature
<1>9. raw \in Bytes /\ Field(raw, 1) = body /\ Field(raw, 2) = auth /\ Field(raw, 3) = signature
  BY <1>5, <1>6, <1>8, TxRawFields
<1> HIDE DEF raw
<1>10. Signs(raw, Field(raw, 3))
  BY <1>7, <1>8, <1>9 DEF Signs, SignsFor
<1>11. Authentic(raw)
  BY <1>3, <1>4, <1>6, <1>9, <1>10 DEF Authentic
<1>12. Message(raw) = message
  BY <1>5, <1>9 DEF Message
<1> QED
  BY <1>1, <1>9, <1>11, <1>12

(* The node knows the sender of a message with the address of the key.     *)
LEMMA AddressKnown ==
  ASSUME key \in Keys
  PROVE  Address[key] \in Bytes /\ AddressValid[key]
<1>1. HashOf[key] \in Bytes /\ Hrp \in Printable
  BY Constants
<1>2. Address[key] = Bech32Encode(Hrp, HashOf[key])
  BY DEF Address
<1> QED
  BY <1>1, <1>2, AddressDecodes DEF AddressValid

(* The order the node reads out of a create is the order that is asked.    *)
LEMMA CreateReads ==
  ASSUME market \in Markets, key \in Keys, NEW side \in Sides, NEW lots \in Lots, NEW steps \in Steps
  PROVE  LET message == MsgCreateOrder(side, lots, steps)
         IN /\ message \in Bytes /\ Field(message, 1) = Names.create /\ Known(message)
            /\ OrderOf(Field(message, 2)) =
                 [side |-> Names[side], price |-> PriceText(steps), market |-> market.id,
                  amount |-> lots, left |-> lots]
<1> DEFINE amount == DisplayAmountToChain(Lot(market, lots), market.base)
           price == DisplayPriceToChain(Price(market, steps), market)
           values == <<Address[key], Names[side], amount, price, market.id>>
           payload == Strings(values)
           message == MsgCreateOrder(side, lots, steps)
<1>1. market \in MarketRecords /\ market.id \in Bytes /\ lots \in Nat /\ steps \in Nat
  BY Constants DEF MarketRecords
<1>2. amount = Digits[lots] /\ price = PriceText(steps)
  BY <1>1, AmountThereAndBack, PriceThereAndBack
<1>3. /\ amount \in Bytes /\ Value(amount) = lots /\ price \in Bytes
  BY <1>1, <1>2, AmountsAreBytes, PriceTextRead
<1>4. Address[key] \in Bytes /\ AddressValid[key] /\ Names[side] \in Bytes
  BY AddressKnown, NamesAreBytes
<1>5. message = AnyMessage(Names.create, payload)
  BY DEF MsgCreateOrder
<1> HIDE DEF amount, price, message
<1> DEFINE a == Address[key]
           b == Names[side]
           m == market.id
<1> HIDE DEF a, b, m
<1>6. <<a, b, amount, price, m>> \in Seq(Bytes)
  BY <1>1, <1>3, <1>4 DEF a, b, m
<1>7. Len(values) = 5 /\ values \in Seq(Bytes)
  BY <1>6 DEF a, b, m
<1>8. payload \in Bytes /\ \A n \in 1..5 : Field(payload, n) = values[n]
  BY <1>7, StringsFields
<1>9. /\ Field(payload, 1) = Address[key] /\ Field(payload, 2) = Names[side]
      /\ Field(payload, 3) = amount /\ Field(payload, 4) = price /\ Field(payload, 5) = market.id
  BY <1>8
<1> HIDE DEF payload
<1>10. message \in Bytes /\ Field(message, 1) = Names.create /\ Field(message, 2) = payload
  BY <1>5, <1>8, NamesAreBytes, AnyFields
<1>11. Known(message)
  BY <1>4, <1>9, <1>10 DEF Known, Sender
<1>12. OrderOf(payload) = [side |-> Names[side], price |-> PriceText(steps), market |-> market.id,
                           amount |-> lots, left |-> lots]
  BY <1>2, <1>3, <1>9 DEF OrderOf
<1> QED
  BY <1>10, <1>11, <1>12 DEF message

(* The order the node reads out of a cancel is the one on its book.        *)
LEMMA CancelReads ==
  ASSUME market \in Markets, key \in Keys, NEW side \in Sides
  PROVE  LET message == MsgCancelOrder(side)
         IN /\ message \in Bytes /\ Field(message, 1) = Names.cancel /\ Known(message)
            /\ Field(Field(message, 2), 2) = market.id
            /\ Field(Field(message, 2), 3) = OrderId
            /\ Field(Field(message, 2), 4) = Names[side]
<1> DEFINE a == Address[key]
           m == market.id
           b == Names[side]
           values == <<a, m, OrderId, b>>
           payload == Strings(values)
           message == MsgCancelOrder(side)
<1>1. m \in Bytes /\ OrderId \in Bytes
  BY Constants DEF MarketRecords
<1>2. a \in Bytes /\ AddressValid[key] /\ b \in Bytes
  BY AddressKnown, NamesAreBytes
<1>3. message = AnyMessage(Names.cancel, payload)
  BY DEF MsgCancelOrder
<1> HIDE DEF message, a, m, b
<1>4. Len(values) = 4 /\ values \in Seq(Bytes)
  BY <1>1, <1>2
<1>5. payload \in Bytes /\ \A n \in 1..4 : Field(payload, n) = values[n]
  BY <1>4, StringsFields
<1>6. /\ Field(payload, 1) = a /\ Field(payload, 2) = m
      /\ Field(payload, 3) = OrderId /\ Field(payload, 4) = b
  BY <1>5
<1> HIDE DEF payload
<1>7. message \in Bytes /\ Field(message, 1) = Names.cancel /\ Field(message, 2) = payload
  BY <1>3, <1>5, NamesAreBytes, AnyFields
<1>8. Known(message)
  BY <1>2, <1>6, <1>7 DEF Known, Sender, a
<1> QED
  BY <1>6, <1>7, <1>8 DEF message, a, m, b

-----------------------------------------------------------------------------
(* Trades.                                                                 *)

TradeRecords == [price : Bytes, amount : Bytes]
AmountsOf(trades) == [i \in 1..Len(trades) |-> Value(trades[i].amount)]

(* What was traded, as a sum over the numbers of the trades.               *)
LEMMA TradedSum ==
  ASSUME NEW trades \in Seq(TradeRecords)
  PROVE  Traded(trades) = SumFunctionOnSet(AmountsOf(trades), 1..Len(trades))
BY DEF Traded, AmountsOf, SumFunction, SumFunctionOnSet, FoldFunction

(* No trades are nothing.                                                  *)
LEMMA TradedNothing ==
  Traded(<<>>) = 0
<1> DEFINE f == AmountsOf(<<>>)
           S == 1..0
<1>1. Traded(<<>>) = SumFunctionOnSet(f, S)
  <2>1. <<>> \in Seq(TradeRecords) /\ Len(<<>>) = 0
    OBVIOUS
  <2> QED
    BY <2>1, TradedSum
<1>2. S = {} /\ IsFiniteSet(S)
  BY FS_EmptySet
<1>3. \A x \in S : f[x] \in Nat
  BY <1>2
<1> HIDE DEF f, S
<1>4. SumFunctionOnSet(f, S) = 0
  BY <1>2, <1>3, SumTakesOut
<1> QED
  BY <1>1, <1>4

(* One more trade is its amount more.                                      *)
LEMMA TradedMore ==
  ASSUME NEW trades \in Seq(TradeRecords), NEW trade \in TradeRecords,
         \A i \in 1..Len(trades) : IsAmount(trades[i].amount), IsAmount(trade.amount)
  PROVE  Traded(Append(trades, trade)) = Traded(trades) + Value(trade.amount) /\ Traded(trades) \in Nat
<1> DEFINE n == Len(trades)
           longer == Append(trades, trade)
           f == AmountsOf(trades)
           g == AmountsOf(longer)
           S == 1..n
           T == 1..(n + 1)
           v == Value(trade.amount)
<1>1. n \in Nat /\ longer \in Seq(TradeRecords) /\ Len(longer) = n + 1
  BY AppendProperties
<1>2. longer[n + 1] = trade /\ \A i \in S : longer[i] = trades[i]
  BY AppendProperties
<1>3. \A i \in S : f[i] \in Nat /\ g[i] = f[i]
  <2>1. \A i \in S : f[i] = Value(trades[i].amount) /\ f[i] \in Nat
    BY DEF AmountsOf, IsAmount
  <2>2. \A i \in S : i \in 1..Len(longer)
    BY <1>1
  <2>3. \A i \in S : g[i] = Value(trades[i].amount)
    BY <1>2, <2>2 DEF AmountsOf
  <2> QED
    BY <2>1, <2>3
<1>4. g[n + 1] = v /\ v \in Nat
  <2>1. n + 1 \in 1..Len(longer)
    BY <1>1
  <2> HIDE DEF longer
  <2> QED
    BY <1>2, <2>1 DEF AmountsOf, IsAmount
<1>5. Traded(trades) = SumFunctionOnSet(f, S) /\ Traded(longer) = SumFunctionOnSet(g, T)
  BY <1>1, TradedSum
<1>6. IsFiniteSet(S) /\ IsFiniteSet(T)
  BY <1>1, FS_Interval
<1>7. T \ {n + 1} = S /\ n + 1 \in T /\ \A x \in T : x \in S \/ x = n + 1
  BY <1>1
<1> HIDE DEF n, longer, f, g, S, T, v
<1>8. \A x \in T : g[x] \in Nat
  BY <1>3, <1>4, <1>7
<1>9. SumFunctionOnSet(g, T) = g[n + 1] + SumFunctionOnSet(g, T \ {n + 1})
  BY <1>6, <1>7, <1>8, SumTakesOut
<1>10. SumFunctionOnSet(f, S) = SumFunctionOnSet(g, S) /\ SumFunctionOnSet(f, S) \in Nat
  BY <1>3, <1>6, SumAgrees, SumTakesOut
<1>11. Traded(longer) = v + Traded(trades) /\ Traded(trades) \in Nat
  BY <1>4, <1>5, <1>7, <1>9, <1>10
<1> QED
  BY <1>4, <1>11 DEF longer, v

(* The credit of _allocate_trade_updates is what was traded, when every    *)
(* trade has the price that was sent.                                      *)
LEMMA CreditCounts ==
  ASSUME market \in Markets, asked \in AskedOrders, history \in Seq(TradeRecords),
         \A i \in 1..Len(history) :
           history[i].price = PriceText(asked.steps) /\ IsAmount(history[i].amount)
  PROVE  SumFunction([i \in {j \in DOMAIN history : Matches(history[j])} |->
           At(ChainAmountToDisplay(history[i].amount, market.base), -market.base)]) = Traded(history)
<1>1. market \in MarketRecords /\ asked.steps \in Nat
  BY Constants DEF AskedOrders
<1>2. \A i \in 1..Len(history) : Matches(history[i])
  <2>1. ChainPriceToDisplay(PriceText(asked.steps), market) = AskedPrice
    BY <1>1, PriceThereAndBack DEF AskedPrice
  <2> QED
    BY <2>1 DEF Matches
<1>3. DOMAIN history = 1..Len(history)
  OBVIOUS
<1>4. \A i \in 1..Len(history) :
         At(ChainAmountToDisplay(history[i].amount, market.base), -market.base)
           = Value(history[i].amount)
  BY <1>1, AmountThereAndBack DEF IsAmount
<1> DEFINE x(i) == At(ChainAmountToDisplay(history[i].amount, market.base), -market.base)
           y(i) == Value(history[i].amount)
           S == {j \in DOMAIN history : Matches(history[j])}
<1>5. S = 1..Len(history) /\ \A i \in 1..Len(history) : x(i) = y(i)
  BY <1>2, <1>3, <1>4
<1> HIDE DEF x, y, S
<1>6. [i \in S |-> x(i)] = [i \in 1..Len(history) |-> y(i)]
  BY <1>5
<1> QED
  BY <1>6 DEF x, y, S, Traded

-----------------------------------------------------------------------------
(* The invariant.                                                          *)

(* While the order, the market and the key stay, so do their transactions. *)
LEMMA SameOrder ==
  ASSUME UNCHANGED <<market, key, asked>>
  PROVE  /\ CreateWire' = CreateWire /\ CancelWire' = CancelWire
         /\ TooSmall(asked.steps, asked.lots)' <=> TooSmall(asked.steps, asked.lots)
<1>1. CreateWire' = CreateWire
  BY DEF CreateWire, Transaction, MsgCreateOrder, Address
<1>2. CancelWire' = CancelWire
  BY DEF CancelWire, Transaction, MsgCancelOrder, Address
<1>3. TooSmall(asked.steps, asked.lots)' <=> TooSmall(asked.steps, asked.lots)
  BY DEF TooSmall
<1> QED
  BY <1>1, <1>2, <1>3

(* The invariant holds at first.                                           *)
LEMMA InitHolds ==
  Init => IInv
<1> SUFFICES ASSUME Init
             PROVE  IInv
  OBVIOUS
<1>1. OrderTyped
  BY DEF Init, OrderTyped, Stages, Bytes
<1>2. OrderSent
  BY DEF Init, OrderSent
<1>3. OrderBooked
  BY DEF Init, OrderBooked
<1> QED
  BY <1>1, <1>2, <1>3 DEF IInv

(* _place_order keeps the order, and sends it or finds it too small.       *)
LEMMA PlaceKeeps ==
  ASSUME IInv, NEW side \in Sides, NEW steps \in Steps, NEW lots \in Lots, NEW id \in ClientIds,
         Place(side, steps, lots, id)
  PROVE  IInv'
<1>1. stage = "new" /\ market' = market /\ key' = key /\ UNCHANGED <<book, history, credited, polled>>
  BY DEF Place
<1>2. asked' = [side |-> side, steps |-> steps, lots |-> lots, id |-> id]
  BY DEF Place
<1>3. asked' \in AskedOrders
  BY <1>2 DEF AskedOrders
<1>4. asked'.side = side /\ asked'.steps = steps /\ asked'.lots = lots /\ asked'.id = id
  BY <1>2
<1>5. TooSmall(asked.steps, asked.lots)' <=> TooSmall(steps, lots)
  BY <1>1, <1>4 DEF TooSmall
<1>6. CreateWire' = Transaction(MsgCreateOrder(side, lots, steps), Names.hbot \o id)
  BY <1>1, <1>4 DEF CreateWire, Transaction, MsgCreateOrder, Address
<1>7. Transaction(MsgCreateOrder(side, lots, steps), Names.hbot \o id) \in Bytes
  <2> DEFINE message == MsgCreateOrder(side, lots, steps)
             memo == Names.hbot \o id
  <2>1. message \in Bytes
    BY CreateReads DEF IInv, OrderTyped
  <2>2. memo \in Bytes
    BY Constants, NamesAreBytes, JoinedBytes
  <2> HIDE DEF message, memo
  <2>3. Transaction(message, memo) \in Bytes
    BY <2>1, <2>2, TransactionReads DEF IInv, OrderTyped
  <2> QED
    BY <2>3 DEF message, memo
<1>8. CASE TooSmall(steps, lots)
  <2>1. stage' = "tooSmall" /\ wire' = wire
    BY <1>8 DEF Place
  <2>2. OrderTyped'
    BY <1>1, <1>3, <2>1 DEF IInv, OrderTyped, Stages
  <2>3. OrderSent'
    BY <1>5, <1>8, <2>1 DEF OrderSent
  <2>4. OrderBooked'
    BY <1>1, <2>1 DEF IInv, OrderBooked
  <2> QED
    BY <2>2, <2>3, <2>4 DEF IInv
<1>9. CASE ~TooSmall(steps, lots)
  <2>1. stage' = "placed" /\ wire' = Transaction(MsgCreateOrder(side, lots, steps), Names.hbot \o id)
    BY <1>9 DEF Place
  <2>2. OrderTyped'
    BY <1>1, <1>3, <1>7, <2>1 DEF IInv, OrderTyped, Stages
  <2>3. OrderSent'
    BY <1>5, <1>6, <1>9, <2>1 DEF OrderSent
  <2>4. OrderBooked'
    BY <1>1, <2>1 DEF IInv, OrderBooked
  <2> QED
    BY <2>2, <2>3, <2>4 DEF IInv
<1> QED
  BY <1>8, <1>9

(* _place_cancel sends the cancel of the order that is tracked.            *)
LEMMA CancelOrderKeeps ==
  ASSUME IInv, CancelOrder
  PROVE  IInv'
<1>1. /\ stage = "open" /\ stage' = "canceling" /\ wire' = CancelWire
      /\ UNCHANGED <<market, key, asked, book, history, credited, polled>>
  BY DEF CancelOrder, CancelWire
<1>2. asked \in AskedOrders /\ market \in Markets /\ key \in Keys
  BY <1>1 DEF IInv, OrderTyped
<1>3. wire' \in Bytes
  <2> DEFINE message == MsgCancelOrder(asked.side)
             memo == Names.hbotCancel \o asked.id
  <2>1. asked.side \in Sides /\ asked.id \in ClientIds
    BY <1>2 DEF AskedOrders
  <2>2. message \in Bytes
    BY <1>2, <2>1, CancelReads
  <2>3. memo \in Bytes
    BY <2>1, Constants, NamesAreBytes, JoinedBytes
  <2> HIDE DEF message, memo
  <2>4. Transaction(message, memo) \in Bytes
    BY <1>2, <2>2, <2>3, TransactionReads
  <2> QED
    BY <1>1, <2>4 DEF message, memo, CancelWire
<1>4. OrderTyped'
  BY <1>1, <1>2, <1>3 DEF IInv, OrderTyped, Stages
<1>5. OrderSent'
  BY <1>1, SameOrder DEF OrderSent
<1>6. OrderBooked'
  BY <1>1 DEF IInv, OrderBooked, OnBook
<1> QED
  BY <1>4, <1>5, <1>6 DEF IInv

(* The node takes what was placed, with the price and the amount that were *)
(* asked.                                                                  *)
LEMMA CreateTaken ==
  ASSUME IInv, stage = "placed"
  PROVE  /\ Authentic(wire) /\ Takes(Message(wire), OrderOf(Field(Message(wire), 2)))
         /\ OrderOf(Field(Message(wire), 2)) =
              [side |-> Names[asked.side], price |-> PriceText(asked.steps), market |-> market.id,
               amount |-> asked.lots, left |-> asked.lots]
<1>1. /\ asked \in AskedOrders /\ market \in Markets /\ key \in Keys
      /\ ~TooSmall(asked.steps, asked.lots) /\ wire = CreateWire
  BY DEF IInv, OrderTyped, OrderSent
<1> DEFINE message == MsgCreateOrder(asked.side, asked.lots, asked.steps)
           memo == Names.hbot \o asked.id
           order == OrderOf(Field(message, 2))
<1>2. asked.side \in Sides /\ asked.lots \in Lots /\ asked.steps \in Steps /\ asked.id \in ClientIds
  BY <1>1 DEF AskedOrders
<1>3. /\ message \in Bytes /\ Field(message, 1) = Names.create /\ Known(message)
      /\ order = [side |-> Names[asked.side], price |-> PriceText(asked.steps),
                  market |-> market.id, amount |-> asked.lots, left |-> asked.lots]
  BY <1>1, <1>2, CreateReads
<1>4. memo \in Bytes
  BY <1>2, Constants, NamesAreBytes, JoinedBytes
<1>5. wire = Transaction(message, memo)
  BY <1>1 DEF CreateWire
<1> HIDE DEF message, memo
<1>6. Authentic(wire) /\ Message(wire) = message
  BY <1>1, <1>3, <1>4, <1>5, TransactionReads
<1>7. WorthIt(Read(order.price), order.amount)
  <2> DEFINE p == asked.steps
             n == asked.lots
             u == UnitsWorth(p)
  <2>1. p \in Nat \ {0} /\ n \in Nat /\ market \in MarketRecords
    BY <1>1, <1>2, Constants
  <2> HIDE DEF p, n, u
  <2>2. /\ u \in Nat /\ \A k \in Nat : k * p >= TenTo[PriceSigDigits] <=> k >= u
        /\ TooSmall(p, n) <=> n < 2 * u
    BY <2>1, SizeChecked DEF u
  <2>3. WorthIt(Decimal(p, -PriceSigDigits), n) <=> n >= 2 * u
    BY <2>1, <2>2, ChainTakesSize
  <2>4. ~(n < 2 * u)
    BY <1>1, <2>2 DEF p, n
  <2>5. WorthIt(Decimal(p, -PriceSigDigits), n)
    BY <2>1, <2>2, <2>3, <2>4
  <2>6. Read(PriceText(p)) = Decimal(p, -PriceSigDigits)
    BY <2>1, PriceTextRead
  <2> QED
    BY <1>3, <2>5, <2>6 DEF p, n
<1>8. Takes(message, order)
  BY <1>3, <1>7 DEF Takes
<1> QED
  BY <1>3, <1>6, <1>8

(* And cancels what is on the book.                                        *)
LEMMA CancelTaken ==
  ASSUME IInv, stage = "canceling"
  PROVE  Authentic(wire) /\ Cancels(Message(wire), Field(Message(wire), 2))
<1>1. /\ asked \in AskedOrders /\ market \in Markets /\ key \in Keys /\ wire = CancelWire
      /\ book.side = Names[asked.side] /\ book.market = market.id
  BY DEF IInv, OrderTyped, OrderSent, OrderBooked, OnBook
<1> DEFINE message == MsgCancelOrder(asked.side)
           memo == Names.hbotCancel \o asked.id
<1>2. asked.side \in Sides /\ asked.id \in ClientIds
  BY <1>1 DEF AskedOrders
<1>3. /\ message \in Bytes /\ Field(message, 1) = Names.cancel /\ Known(message)
      /\ Field(Field(message, 2), 2) = market.id
      /\ Field(Field(message, 2), 3) = OrderId
      /\ Field(Field(message, 2), 4) = Names[asked.side]
  BY <1>1, <1>2, CancelReads
<1>4. memo \in Bytes
  BY <1>2, Constants, NamesAreBytes, JoinedBytes
<1>5. wire = Transaction(message, memo)
  BY <1>1 DEF CancelWire
<1> HIDE DEF message, memo
<1>6. Authentic(wire) /\ Message(wire) = message
  BY <1>1, <1>3, <1>4, <1>5, TransactionReads
<1>7. Cancels(message, Field(message, 2))
  BY <1>1, <1>3 DEF Cancels
<1> QED
  BY <1>6, <1>7

(* The node takes the create, and its order is the one asked for.          *)
LEMMA DeliverCreateKeeps ==
  ASSUME IInv, DeliverCreate
  PROVE  IInv'
<1>1. stage = "placed" /\ UNCHANGED <<market, key, asked, wire, history, credited, polled>>
  BY DEF DeliverCreate
<1>2. stage' = "open" /\ book' = OrderOf(Field(Message(wire), 2))
  BY <1>1, CreateTaken DEF DeliverCreate
<1>3. book' = [side |-> Names[asked.side], price |-> PriceText(asked.steps), market |-> market.id,
               amount |-> asked.lots, left |-> asked.lots]
  BY <1>1, <1>2, CreateTaken
<1>4. OrderTyped'
  BY <1>1, <1>2 DEF IInv, OrderTyped, Stages
<1>5. OrderSent'
  BY <1>2 DEF OrderSent
<1>6. history = <<>> /\ credited = 0 /\ asked.lots \in Nat
  BY <1>1, Constants DEF IInv, OrderTyped, OrderBooked, AskedOrders
<1>7. OnBook'
  <2>1. book'.left = asked.lots
    BY <1>3
  <2>2. book'.left \in 0..asked.lots
    BY <1>6, <2>1
  <2>3. Traded(history)' = 0 /\ credited' = 0 /\ asked.lots - book'.left = 0
    BY <1>1, <1>6, <2>1, TradedNothing
  <2>4. history' = <<>> /\ 1..Len(<<>>) = {}
    BY <1>1, <1>6
  <2> QED
    BY <1>1, <1>3, <2>1, <2>2, <2>3, <2>4 DEF OnBook
<1>8. OrderBooked'
  BY <1>2, <1>7 DEF OrderBooked
<1> QED
  BY <1>4, <1>5, <1>8 DEF IInv

(* The node takes the cancel.                                              *)
LEMMA DeliverCancelKeeps ==
  ASSUME IInv, DeliverCancel
  PROVE  IInv'
<1>1. stage = "canceling" /\ UNCHANGED <<market, key, asked, wire, book, history, credited, polled>>
  BY DEF DeliverCancel
<1>2. stage' = "canceled"
  BY <1>1, CancelTaken DEF DeliverCancel
<1>3. OrderTyped'
  BY <1>1, <1>2 DEF IInv, OrderTyped, Stages
<1>4. OrderSent'
  BY <1>2 DEF OrderSent
<1>5. OrderBooked'
  BY <1>1, <1>2 DEF IInv, OrderBooked, OnBook
<1> QED
  BY <1>3, <1>4, <1>5 DEF IInv

(* A trade takes from the book what it adds to the history.                *)
LEMMA TradeKeeps ==
  ASSUME IInv, stage \in {"open", "canceling"}, NEW n \in {1, book.left} \ {0}, Trade(n)
  PROVE  IInv'
<1>1. /\ UNCHANGED <<market, key, asked, stage, wire, credited, polled>> /\ n <= book.left
      /\ book' = [book EXCEPT !.left = @ - n]
  BY DEF Trade
<1>2. /\ asked \in AskedOrders /\ OnBook /\ history \in Seq(TradeRecords)
      /\ polled \in 0..Len(history)
  BY DEF IInv, OrderTyped, OrderBooked, TradeRecords
<1>3. asked.lots \in Nat /\ asked.steps \in Nat
  BY <1>2, Constants DEF AskedOrders
<1>4. book.left \in Nat /\ n \in Nat /\ n # 0 /\ book.price = PriceText(asked.steps)
  BY <1>2, <1>3 DEF OnBook
<1> DEFINE trade == [price |-> book.price, amount |-> Digits[n]]
           left == book.left
<1>5. /\ trade \in TradeRecords /\ trade.price = book.price
      /\ IsAmount(trade.amount) /\ Value(trade.amount) = n
  BY <1>3, <1>4, AmountsAreBytes, PriceTextRead DEF TradeRecords
<1>6. history' = Append(history, trade)
  BY DEF Trade
<1> HIDE DEF trade
<1>7. /\ history' \in Seq(TradeRecords) /\ Len(history') = Len(history) + 1
      /\ history'[Len(history) + 1] = trade
      /\ \A i \in 1..Len(history) : history'[i] = history[i]
  BY <1>2, <1>5, <1>6, AppendProperties
<1>8. OrderTyped'
  <2> DEFINE k == Len(history)
  <2>1. k \in Nat
    BY <1>2
  <2> HIDE DEF k
  <2>2. polled' \in 0..Len(history')
    BY <1>1, <1>2, <1>7, <2>1 DEF k
  <2> QED
    BY <1>1, <1>7, <2>2 DEF IInv, OrderTyped, TradeRecords
<1>9. OrderSent'
  BY <1>1, SameOrder DEF IInv, OrderSent
<1>10. /\ book' = [side |-> Names[asked.side], price |-> PriceText(asked.steps), market |-> market.id,
                   amount |-> asked.lots, left |-> left - n]
       /\ book'.left = left - n /\ book'.price = book.price
  <2>1. book = [side |-> Names[asked.side], price |-> PriceText(asked.steps), market |-> market.id,
                amount |-> asked.lots, left |-> left]
    BY <1>2 DEF OnBook
  <2> HIDE DEF left
  <2>2. book.left = left
    BY DEF left
  <2>3. book' = [side |-> Names[asked.side], price |-> PriceText(asked.steps), market |-> market.id,
                 amount |-> asked.lots, left |-> left - n]
    BY <1>1, <2>1, <2>2
  <2> QED
    BY <2>1, <2>3
<1>11. Traded(history') = Traded(history) + n
  <2>1. \A i \in 1..Len(history) : IsAmount(history[i].amount)
    BY <1>2 DEF OnBook
  <2> QED
    BY <1>2, <1>5, <1>6, <2>1, TradedMore
<1>12. Traded(history) = asked.lots - left /\ left \in 0..asked.lots
  BY <1>2 DEF OnBook
<1>13. OnBook'
  <2>1. asked' = asked /\ market' = market /\ polled' = polled
    BY <1>1
  <2>2. book'.left \in 0..asked.lots /\ Traded(history') = asked.lots - book'.left
    <3> HIDE DEF left
    <3>1. left \in Nat /\ n <= left
      BY <1>1, <1>4 DEF left
    <3> QED
      BY <1>3, <1>4, <1>10, <1>11, <1>12, <3>1
  <2>3. ASSUME NEW i \in 1..Len(history')
        PROVE  history'[i].price = book'.price /\ IsAmount(history'[i].amount)
    <3>1. CASE i \in 1..Len(history)
      BY <1>2, <1>7, <1>10, <3>1 DEF OnBook
    <3>2. CASE i = Len(history) + 1
      BY <1>5, <1>7, <1>10, <3>2
    <3>3. Len(history) \in Nat
      BY <1>2
    <3> DEFINE k == Len(history)
    <3>4. i \in 1..k \/ i = k + 1
      <4>1. k \in Nat /\ i \in 1..(k + 1)
        BY <1>7, <3>3
      <4> HIDE DEF k
      <4> QED
        BY <4>1
    <3> QED
      BY <3>1, <3>2, <3>4
  <2>4. polled' # Len(history')
    <3> DEFINE k == Len(history)
    <3>1. k \in Nat /\ polled \in 0..k /\ Len(history') = k + 1
      BY <1>2, <1>7
    <3> HIDE DEF k
    <3> QED
      BY <2>1, <3>1
  <2>5. book' = [side |-> Names[asked'.side], price |-> PriceText(asked'.steps),
                 market |-> market'.id, amount |-> asked'.lots, left |-> book'.left]
    BY <1>10, <2>1
  <2> QED
    BY <2>1, <2>2, <2>3, <2>4, <2>5 DEF OnBook
<1>14. OrderBooked'
  BY <1>1, <1>13 DEF OrderBooked
<1> QED
  BY <1>8, <1>9, <1>14 DEF IInv

(* A poll credits what was traded.                                         *)
LEMMA CreditKeeps ==
  ASSUME IInv, Credit
  PROVE  IInv'
<1>1. /\ stage \notin {"new", "tooSmall", "placed", "refused"} /\ polled' = Len(history)
      /\ UNCHANGED <<market, key, asked, stage, wire, book, history>>
  BY DEF Credit
<1>2. market \in Markets /\ asked \in AskedOrders /\ history \in Seq(TradeRecords) /\ OnBook
  BY <1>1 DEF IInv, OrderTyped, OrderBooked, TradeRecords
<1>3. book.price = PriceText(asked.steps)
  BY <1>2 DEF OnBook
<1>4. \A i \in 1..Len(history) :
         history[i].price = PriceText(asked.steps) /\ IsAmount(history[i].amount)
  BY <1>2, <1>3 DEF OnBook
<1>5. credited' = Traded(history)
  BY <1>2, <1>4, CreditCounts DEF Credit
<1>6. Traded(history) \in Nat
  <2> DEFINE n == asked.lots
             k == book.left
  <2>1. n \in Nat /\ k \in 0..n /\ Traded(history) = n - k
    BY <1>2, Constants DEF OnBook, AskedOrders
  <2> HIDE DEF n, k
  <2> QED
    BY <2>1
<1>7. OrderTyped'
  <2>1. Len(history) \in Nat
    BY <1>2
  <2>2. polled' \in 0..Len(history)
    BY <1>1, <2>1
  <2> QED
    BY <1>1, <1>5, <1>6, <2>2 DEF IInv, OrderTyped
<1>8. OrderSent'
  BY <1>1, SameOrder DEF IInv, OrderSent
<1>9. OnBook'
  BY <1>1, <1>2, <1>5 DEF OnBook
<1>10. OrderBooked'
  BY <1>1, <1>9 DEF OrderBooked
<1> QED
  BY <1>7, <1>8, <1>10 DEF IInv

(* Every step keeps the invariant.                                         *)
LEMMA StepKeeps ==
  IInv /\ [Next]_vars => IInv'
<1> SUFFICES ASSUME IInv, [Next]_vars
             PROVE  IInv'
  OBVIOUS
<1>1. ASSUME NEW side \in Sides, NEW steps \in Steps, NEW lots \in Lots, NEW id \in ClientIds,
             Place(side, steps, lots, id)
      PROVE  IInv'
  BY <1>1, PlaceKeeps
<1>2. CASE CancelOrder
  BY <1>2, CancelOrderKeeps
<1>3. CASE DeliverCreate
  BY <1>3, DeliverCreateKeeps
<1>4. CASE DeliverCancel
  BY <1>4, DeliverCancelKeeps
<1>5. ASSUME stage \in {"open", "canceling"}, NEW n \in {1, book.left} \ {0}, Trade(n)
      PROVE  IInv'
  BY <1>5, TradeKeeps
<1>6. CASE Credit
  BY <1>6, CreditKeeps
<1>7. CASE UNCHANGED vars
  <2>1. UNCHANGED <<market, key, asked>>
    BY <1>7 DEF vars
  <2>2. OrderSent'
    BY <1>7, <2>1, SameOrder DEF vars, IInv, OrderSent
  <2> QED
    BY <1>7, <2>2 DEF vars, IInv, OrderTyped, OrderBooked, OnBook
<1> QED
  BY <1>1, <1>2, <1>3, <1>4, <1>5, <1>6, <1>7 DEF Next

(* The invariant holds in every state.                                     *)
THEOREM OrderRequestInvariant == Spec => []IInv
<1>1. Init => IInv
  BY InitHolds
<1>2. IInv /\ [Next]_vars => IInv'
  BY StepKeeps
<1> QED
  BY <1>1, <1>2, PTL DEF Spec

(* Type correctness.                                                       *)
THEOREM OrderRequestTypes == Spec => []TypeOK
<1>1. IInv => TypeOK
  <2> SUFFICES ASSUME IInv
               PROVE  TypeOK
    OBVIOUS
  <2>1. book = None \/ DOMAIN book = {"side", "price", "amount", "left", "market"}
    BY DEF IInv, OrderBooked, OnBook
  <2> QED
    BY <2>1 DEF IInv, OrderTyped, TypeOK, AskedOrders, Bytes
<1> QED
  BY <1>1, OrderRequestInvariant, PTL

(* What the node reads out of the transaction is the order Hummingbot      *)
(* tracks, and neither the create nor the cancel is refused, for every     *)
(* market, price, amount, key, id, gas and gas price.                      *)
THEOREM OrderArrivesAsAsked == Spec => []ArrivesAsAsked
<1>1. IInv => ArrivesAsAsked
  <2> SUFFICES ASSUME IInv, book # None
               PROVE  /\ book.side = Names[asked.side] /\ book.market = market.id
                      /\ Same(ChainPriceToDisplay(book.price, market), AskedPrice)
                      /\ Same(Times(Decimal(book.amount, 0), Quantum(market.base)), AskedAmount)
    BY DEF ArrivesAsAsked, IInv, OrderTyped
  <2>1. OnBook /\ asked \in AskedOrders /\ market \in MarketRecords
    BY Constants DEF IInv, OrderTyped, OrderBooked
  <2>2. /\ book.side = Names[asked.side] /\ book.market = market.id
        /\ book.price = PriceText(asked.steps) /\ book.amount = asked.lots
    BY <2>1 DEF OnBook
  <2>3. asked.steps \in Nat
    BY <2>1, Constants DEF AskedOrders
  <2>4. ChainPriceToDisplay(book.price, market) = AskedPrice
    BY <2>1, <2>2, <2>3, PriceThereAndBack DEF AskedPrice
  <2>5. Times(Decimal(book.amount, 0), Quantum(market.base)) = AskedAmount
    BY <2>2 DEF AskedAmount, Lot
  <2>6. \A x : Same(x, x)
    BY DEF Same
  <2> QED
    BY <2>2, <2>4, <2>5, <2>6
<1> QED
  BY <1>1, OrderRequestInvariant, PTL

(* _place_order finds no order too small that the chain would take, at any *)
(* price, amount and number of digits.                                     *)
THEOREM SizeCheckRefusesWithTheChain == Spec => []RefusesWithTheChain
<1>1. IInv => RefusesWithTheChain
  <2> SUFFICES ASSUME IInv, stage = "tooSmall"
               PROVE  ~WorthIt(Read(DisplayPriceToChain(AskedPrice, market)),
                               ToIntegral(Per(AskedAmount, Quantum(market.base))))
    BY DEF RefusesWithTheChain
  <2> DEFINE p == asked.steps
             n == asked.lots
             u == UnitsWorth(p)
  <2>1. TooSmall(p, n) /\ asked \in AskedOrders /\ market \in MarketRecords
    BY Constants DEF IInv, OrderTyped, OrderSent
  <2>2. p \in Nat \ {0} /\ n \in Nat
    BY <2>1, Constants DEF AskedOrders
  <2>3. /\ Read(DisplayPriceToChain(AskedPrice, market)) = Decimal(p, -PriceSigDigits)
        /\ ToIntegral(Per(AskedAmount, Quantum(market.base))) = n
    BY <2>1, <2>2, PriceThereAndBack, PriceTextRead, AmountThereAndBack DEF AskedPrice, AskedAmount
  <2> HIDE DEF p, n, u
  <2>4. /\ u \in Nat /\ \A k \in Nat : k * p >= TenTo[PriceSigDigits] <=> k >= u
        /\ TooSmall(p, n) <=> n < 2 * u
    BY <2>1, <2>2, SizeChecked DEF u
  <2>5. WorthIt(Decimal(p, -PriceSigDigits), n) <=> n >= 2 * u
    BY <2>2, <2>4, ChainTakesSize
  <2> QED
    BY <2>1, <2>2, <2>3, <2>4, <2>5
<1> QED
  BY <1>1, OrderRequestInvariant, PTL

(* A poll that has seen every trade of an order credits what is gone of    *)
(* it: all of it exactly when nothing is left.                             *)
THEOREM EveryTradeRecognised == Spec => []TradesRecognised
<1>1. IInv => TradesRecognised
  <2> SUFFICES ASSUME IInv, polled = Len(history), book # None
               PROVE  /\ credited = book.amount - book.left
                      /\ credited >= asked.lots <=> book.left = 0
    BY DEF TradesRecognised
  <2> DEFINE n == asked.lots
             k == book.left
  <2>1. OnBook /\ asked \in AskedOrders
    BY DEF IInv, OrderTyped, OrderBooked
  <2>2. n \in Nat /\ k \in 0..n /\ book.amount = n /\ credited = n - k
    BY <2>1, Constants DEF OnBook, AskedOrders
  <2> HIDE DEF n, k
  <2>3. credited = n - k /\ (credited >= n <=> k = 0)
    BY <2>2
  <2> QED
    BY <2>2, <2>3 DEF n, k
<1> QED
  BY <1>1, OrderRequestInvariant, PTL
=============================================================================
