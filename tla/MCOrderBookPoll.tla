--------------------------- MODULE MCOrderBookPoll ---------------------------
(* Instances of OrderBookPoll for TLC. *)
EXTENDS OrderBookPoll

TwoPairs == {"BZE-USDC", "ATOM-USDC"}
OneMoving == {<<"BZE-USDC", "bid">>}
BothPairs == <<"BZE-USDC", "ATOM-USDC">>
=============================================================================
