--------------------------- MODULE MCOrderRequest ---------------------------
(* Instances of OrderRequest for TLC. *)
EXTENDS OrderRequest

Named(n, byte) == [i \in 1..n |-> byte]

(* Exponents apart in both directions, by more than the digits of a price; *)
(* the lengths of the ids take the message and the body past 127 bytes.    *)
Exponents == {<<2, 2>>, <<0, 3>>, <<3, 1>>, <<4, 0>>}
SomeMarkets ==
  {[id |-> Named(8 + e[1], 109), base |-> e[1], quote |-> e[2]] : e \in Exponents}

KeyBytes == {Named(33, 2), [i \in 1..33 |-> (37 * i) % 256]}
Hashes == [k \in KeyBytes |-> IF k[1] = 2 THEN Named(20, 0) ELSE [i \in 1..20 |-> (91 * i) % 256]]
Bze == <<98, 122, 101>>
SomeIds == {Named(n, 105) : n \in {13, 14, 32}}
SomeId == Named(24, 48)
SomeGasPrice == Decimal(25, -3)
SomeAccount == [number |-> 128, sequence |-> 0]
SomeNames == [pubKey |-> Named(31, 47), create |-> Named(28, 46), cancel |-> Named(28, 45),
              buy |-> <<98, 117, 121>>, sell |-> <<115, 101, 108, 108>>,
              native |-> <<117, 98, 122, 101>>, chain |-> Named(8, 99),
              hbot |-> Named(5, 104), hbotCancel |-> Named(12, 104)]
=============================================================================
