---------------------------- MODULE Transactions ----------------------------
(***************************************************************************)
(* beezee_tx.py: the protobuf encoding of a signed transaction, as         *)
(* sequences of bytes.  The signature is an uninterpreted function of the  *)
(* key and the document; a copy of both stands for it.                     *)
(*                                                                         *)
(* External: the reader of the node, written from the wire format: a       *)
(* message is a sequence of fields, a number of a field is a sequence of   *)
(* one element, and a field that is missing is an empty one.               *)
(***************************************************************************)
EXTENDS Integers, Sequences, FiniteSetsExt, Conversions

Byte == 0..255

Bits7[v \in Nat] == IF v < 128 THEN <<v>> ELSE <<128 + (v % 128)>> \o Bits7[v \div 128]

(* Mutant: a value of 128 is taken for one that fits seven bits.           *)
VarintOf128(v) == IF v = 128 THEN <<v>> ELSE Bits7[v]

(* Mutant: numbers and lengths are taken for single bytes.                *)
VarintPlain(v) == <<v>>

EncodeVarint(v) == Bits7[v]
EncodeKey(field, wireType) == EncodeVarint(8 * field + wireType)
EncodeBytes(field, value) == EncodeKey(field, 2) \o EncodeVarint(Len(value)) \o value
EncodeUint64(field, v) == EncodeKey(field, 0) \o EncodeVarint(v)

(* The string fields 1, 2, ... of a message, in order.                     *)
Strings(values) ==
  LET upTo[i \in 0..Len(values)] ==
        IF i = 0 THEN <<>> ELSE upTo[i - 1] \o EncodeBytes(i, values[i])
  IN upTo[Len(values)]

AnyMessage(url, payload) == Strings(<<url, payload>>)
PubKeyAny(url, key) == AnyMessage(url, EncodeBytes(1, key))
ModeInfo == EncodeBytes(1, EncodeUint64(1, 1))
SignerInfo(url, key, sequence) ==
  EncodeBytes(1, PubKeyAny(url, key)) \o EncodeBytes(2, ModeInfo) \o EncodeUint64(3, sequence)
Fee(denom, amount, gas) == EncodeBytes(1, Strings(<<denom, amount>>)) \o EncodeUint64(2, gas)
AuthInfo(signerInfo, fee) == EncodeBytes(1, signerInfo) \o EncodeBytes(2, fee)
TxBody(message, memo) ==
  EncodeBytes(1, message) \o (IF memo = <<>> THEN <<>> ELSE EncodeBytes(2, memo))
SignDoc(body, auth, chainId, accountNumber) ==
  Strings(<<body, auth, chainId>>) \o EncodeUint64(4, accountNumber)
TxRaw(body, auth, signature) == Strings(<<body, auth, signature>>)

Sign(key, document) == key \o document

SignedTransaction(key, body, auth, chainId, accountNumber) ==
  TxRaw(body, auth, Sign(key, SignDoc(body, auth, chainId, accountNumber)))

FeeAmountFromGas(gas, gasPrice) == Digits[Ceiling(Times(Decimal(gas, 0), gasPrice))]

-----------------------------------------------------------------------------
(* The node's reader (external). *)

VarintAt(bytes, start) ==
  LET at[p \in 1..Len(bytes) + 5] ==
        IF p > Len(bytes) THEN [value |-> 0, next |-> Len(bytes) + 1]
        ELSE IF bytes[p] < 128 THEN [value |-> bytes[p], next |-> p + 1]
        ELSE [value |-> bytes[p] - 128 + 128 * at[p + 1].value, next |-> at[p + 1].next]
  IN at[start]

(* The field whose key and argument were read, and where the next begins.  *)
FieldOf(bytes, key, arg) ==
  CASE key.value % 8 = 0 ->
         [field |-> key.value \div 8, value |-> <<arg.value>>, next |-> arg.next]
    [] key.value % 8 = 2 /\ arg.next + arg.value <= Len(bytes) + 1 ->
         [field |-> key.value \div 8, next |-> arg.next + arg.value,
          value |-> SubSeq(bytes, arg.next, arg.next + arg.value - 1)]
    [] OTHER -> [field |-> 0, value |-> <<>>, next |-> Len(bytes) + 1]

AfterKey(bytes, key) == FieldOf(bytes, key, VarintAt(bytes, key.next))
FieldAt(bytes, p) == AfterKey(bytes, VarintAt(bytes, p))

Plain(f) == [field |-> f.field, value |-> f.value]

Fields(bytes) ==
  LET from[p \in 1..Len(bytes) + 1] ==
        IF p > Len(bytes) THEN <<>>
        ELSE <<Plain(FieldAt(bytes, p))>> \o from[FieldAt(bytes, p).next]
  IN from[1]

Numbered(fields, n) == {i \in DOMAIN fields : fields[i].field = n}
ValueOf(fields, n) == IF Numbered(fields, n) = {} THEN <<>>
                      ELSE fields[Max(Numbered(fields, n))].value
Field(message, n) == ValueOf(Fields(message), n)
=============================================================================
