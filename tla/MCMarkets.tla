----------------------------- MODULE MCMarkets -----------------------------
(* An instance of Markets for TLC. *)
EXTENDS Markets

TwoTokens == {"alt", "bze", "usdc"}
SameSymbols == [d \in TwoTokens |-> IF d = "usdc" THEN "USDC" ELSE "BZE"]
OwnSymbols == [d \in TwoTokens |-> d]
AltFirst == <<<<"alt", "usdc">>, <<"bze", "usdc">>>>
Holdings == <<"alt", "bze", "alt">>
OneEach == [k \in DOMAIN Holdings |-> 1]
=============================================================================
