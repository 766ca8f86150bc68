---------------------------- MODULE MarketsProofs ----------------------------
(***************************************************************************)
(* The symbol map and the market cache agree and the variables keep their  *)
(* types, for any markets, symbols, holdings, tasks and failures.          *)
(***************************************************************************)
EXTENDS Markets, FiniteSetTheorems, SequenceTheorems, WellFoundedInduction, TLAPS

Metadata == [Denoms -> Found \cup {"absent"}]

LoadType == /\ listed \subseteq MarketIds
            /\ metadata \in Metadata
            /\ load \in [Tasks -> [pc : {"idle", "listing", "metadata"},
                                   raw : SUBSET MarketIds, denom : Denoms]]

(* A market is the pair of its denominations, and no other market is.      *)
LEMMA ListingPairs ==
  ASSUME NEW m \in MarketIds
  PROVE  /\ Listing[m][1] \in Denoms /\ Listing[m][2] \in Denoms
         /\ Listing[m] = <<Listing[m][1], Listing[m][2]>>
  BY MarketsAssumption DEF MarketIds

LEMMA SymbolsAreNames ==
  ASSUME NEW d \in Denoms, NEW known \in Metadata
  PROVE  SymbolOf(d, known) \in STRING
  BY MarketsAssumption DEF SymbolOf

(* The plain pair and the one with hashes differ in their lengths, and the *)
(* one with hashes names the market.                                       *)
LEMMA HashedPairs ==
  ASSUME NEW m \in MarketIds, NEW k \in MarketIds, NEW known \in Metadata
  PROVE  /\ PlainPair(m, known) # PlainPair(k, known) \o Listing[k]
         /\ PlainPair(m, known) \o Listing[m] = PlainPair(k, known) \o Listing[k] => m = k
<1> DEFINE P(n) == PlainPair(n, known)
           S == STRING \cup Denoms
<1>1. ASSUME NEW n \in MarketIds
      PROVE  /\ P(n) \in Seq(S) /\ Len(P(n)) = 2
             /\ Listing[n] \in Seq(S) /\ Len(Listing[n]) = 2
  <2>1. Listing[n] = <<Listing[n][1], Listing[n][2]>>
        /\ Listing[n][1] \in S /\ Listing[n][2] \in S
    BY ListingPairs
  <2>2. P(n) = <<SymbolOf(Listing[n][1], known), SymbolOf(Listing[n][2], known)>>
    BY DEF PlainPair
  <2>3. SymbolOf(Listing[n][1], known) \in S /\ SymbolOf(Listing[n][2], known) \in S
    BY ListingPairs, SymbolsAreNames
  <2> HIDE DEF S
  <2>4. \A x, y \in S : <<x, y>> \in Seq(S) /\ Len(<<x, y>>) = 2
    OBVIOUS
  <2> QED
    BY <2>1, <2>2, <2>3, <2>4
<1> HIDE DEF S, P
<1>2. ASSUME NEW n \in MarketIds
      PROVE  /\ Len(P(n) \o Listing[n]) = 4
             /\ (P(n) \o Listing[n])[3] = Listing[n][1]
             /\ (P(n) \o Listing[n])[4] = Listing[n][2]
  BY <1>1, ConcatProperties
<1>3. P(m) # P(k) \o Listing[k]
  BY <1>1, <1>2
<1>4. ASSUME P(m) \o Listing[m] = P(k) \o Listing[k]
      PROVE  m = k
  <2>1. Listing[m][1] = Listing[k][1] /\ Listing[m][2] = Listing[k][2]
    BY <1>2, <1>4
  <2>2. Listing[m] = Listing[k]
    BY <2>1, ListingPairs
  <2> QED
    BY <2>2, MarketsAssumption DEF IsInjective, MarketIds
<1> QED
  BY <1>3, <1>4 DEF P

(* unique_market_symbols names no two markets alike.                       *)
LEMMA PairsUnique ==
  ASSUME NEW raw \in SUBSET MarketIds, NEW known \in Metadata,
         NEW m \in raw, NEW k \in raw, PairOf(m, raw, known) = PairOf(k, raw, known)
  PROVE  m = k
<1> DEFINE P(n) == PlainPair(n, known)
           Taken(n) == \E i \in raw : i < n /\ P(i) = P(n)
<1>0. m \in MarketIds /\ k \in MarketIds /\ m \in Nat /\ k \in Nat
  BY MarketsAssumption DEF MarketIds
<1>1. CASE Taken(m) /\ Taken(k)
  BY <1>0, <1>1, HashedPairs DEF PairOf
<1>2. CASE Taken(m) # Taken(k)
  BY <1>0, <1>2, HashedPairs DEF PairOf
<1>3. CASE ~Taken(m) /\ ~Taken(k)
  <2>1. P(m) = P(k)
    BY <1>3 DEF PairOf
  <2> QED
    BY <1>0, <1>3, <2>1
<1> QED
  BY <1>1, <1>2, <1>3

(* A build that knows an entry for every denomination is consistent.       *)
LEMMA CacheBuildsConsistent ==
  ASSUME NEW raw \in SUBSET MarketIds, NEW known \in Metadata, Cache(raw, known)
  PROVE  CacheConsistent'
<1>1. /\ symbols' = [m \in raw |-> PairOf(m, raw, known)]
      /\ markets' = [m \in raw |-> MarketOf(m, raw, known)]
  BY DEF Cache
<1>2. symbols' = [m \in DOMAIN markets' |-> markets'[m].pair]
  BY <1>1 DEF MarketOf
<1>3. IsInjective(symbols')
  BY <1>1, PairsUnique DEF IsInjective
<1>4. ASSUME NEW d \in Denoms
      PROVE  Cardinality({markets'[m].base : m \in {k \in DOMAIN markets' : Listing[k][1] = d}}
                         \cup {markets'[m].quote : m \in {k \in DOMAIN markets' : Listing[k][2] = d}})
               <= 1
  <2> DEFINE S == {markets'[m].base : m \in {k \in DOMAIN markets' : Listing[k][1] = d}}
                  \cup {markets'[m].quote : m \in {k \in DOMAIN markets' : Listing[k][2] = d}}
  <2>1. S \subseteq {known[d]}
    BY <1>1 DEF MarketOf
  <2>2. IsFiniteSet({known[d]}) /\ Cardinality({known[d]}) = 1
    BY FS_Singleton
  <2>3. Cardinality(S) <= Cardinality({known[d]})
    <3> HIDE DEF S
    <3> QED
      BY <2>1, <2>2, FS_Subset
  <2> QED
    BY <2>2, <2>3
<1> QED
  BY <1>2, <1>3, <1>4 DEF CacheConsistent

(* A load goes on with a denomination, or ends.                            *)
LEMMA LoadKeeps ==
  ASSUME LoadType, NEW c \in Tasks, NEW raw \in SUBSET MarketIds,
         NEW known \in Metadata, Continue(c, raw, known)
  PROVE  load' \in [Tasks -> [pc : {"idle", "listing", "metadata"},
                              raw : SUBSET MarketIds, denom : Denoms]]
<1>1. CASE load' = [load EXCEPT ![c] = NoLoad]
  BY <1>1, MarketsAssumption DEF LoadType, NoLoad
<1>2. ASSUME NEW d \in DenomsWithout(raw, known),
             load' = [load EXCEPT ![c] = [pc |-> "metadata", raw |-> raw, denom |-> d]]
      PROVE  load' \in [Tasks -> [pc : {"idle", "listing", "metadata"},
                                  raw : SUBSET MarketIds, denom : Denoms]]
  <2>1. d \in Denoms
    <3>1. PICK m \in raw : d \in Range(Listing[m])
      BY DEF DenomsWithout
    <3>2. Range(<<Listing[m][1], Listing[m][2]>>) \subseteq Denoms
      BY ListingPairs DEF Range
    <3> QED
      BY <3>1, <3>2, ListingPairs
  <2> QED
    BY <1>2, <2>1 DEF LoadType
<1> QED
  BY <1>1, <1>2 DEF Continue

(* From one await of a load to the next, or to its end.                    *)
LEMMA ContinueKeeps ==
  ASSUME CacheConsistent, NEW c \in Tasks, NEW raw \in SUBSET MarketIds,
         NEW known \in Metadata, Continue(c, raw, known)
  PROVE  CacheConsistent'
<1>1. CASE Cache(raw, known)
  BY <1>1, CacheBuildsConsistent
<1>2. CASE UNCHANGED <<symbols, markets>>
  BY <1>2 DEF CacheConsistent
<1> QED
  BY <1>1, <1>2 DEF Continue

(* The symbol map and the cache are of one listing and one state of the    *)
(* metadata, whichever of the overlapping loads was the last to build.     *)
THEOREM CacheAgrees == Spec => []CacheConsistent
<1> DEFINE IInv == LoadType /\ CacheConsistent
<1>1. Init => IInv
  BY MarketsAssumption
     DEF Init, LoadType, Metadata, CacheConsistent, NoLoad, MarketIds, Found
<1>2. IInv /\ [Next]_vars => IInv'
  <2> SUFFICES ASSUME IInv, [Next]_vars
               PROVE  IInv'
    OBVIOUS
  <2> USE DEF LoadType
  <2>0. UNCHANGED <<symbols, markets>> => CacheConsistent'
    BY DEF CacheConsistent
  <2>1. ASSUME NEW c \in Tasks, StartLoad(c)
        PROVE  IInv'
    BY <2>0, <2>1 DEF StartLoad
  <2>2. ASSUME NEW c \in Tasks, ReadListing(c)
        PROVE  IInv'
    BY <2>2, ContinueKeeps, LoadKeeps DEF ReadListing
  <2>3. ASSUME NEW c \in Tasks, ListingFails(c)
        PROVE  IInv'
    BY <2>0, <2>3, MarketsAssumption DEF ListingFails, NoLoad
  <2>4. ASSUME NEW c \in Tasks, ReadMetadata(c)
        PROVE  IInv'
    <3>1. load[c].denom \in Denoms /\ load[c].raw \subseteq MarketIds
      OBVIOUS
    <3>2. PICK answer \in Answers(load[c].denom) :
            /\ metadata' = [metadata EXCEPT ![load[c].denom] = answer]
            /\ Continue(c, load[c].raw, metadata')
      BY <2>4 DEF ReadMetadata
    <3>3. metadata' \in Metadata
      BY <3>1, <3>2 DEF Answers, Metadata, Found
    <3>4. /\ CacheConsistent'
          /\ load' \in [Tasks -> [pc : {"idle", "listing", "metadata"},
                                  raw : SUBSET MarketIds, denom : Denoms]]
      BY <3>1, <3>2, <3>3, ContinueKeeps, LoadKeeps
    <3> QED
      BY <2>4, <3>3, <3>4 DEF ReadMetadata
  <2>5. ASSUME NEW answer \in Found, ValueHolding(answer)
        PROVE  IInv'
    <3>1. metadata' \in Metadata
      BY <2>5 DEF ValueHolding, Metadata
    <3> QED
      BY <2>0, <2>5, <3>1 DEF ValueHolding
  <2>6. CASE UpdateBalances \/ ReadDust \/ DustFails
    BY <2>0, <2>6 DEF UpdateBalances, ReadDust, DustFails
  <2>7. CASE NewMarket
    BY <2>0, <2>7 DEF NewMarket
  <2>8. CASE PayDust
    BY <2>0, <2>8 DEF PayDust
  <2>9. CASE UNCHANGED vars
    BY <2>0, <2>9 DEF vars
  <2> QED
    BY <2>1, <2>2, <2>3, <2>4, <2>5, <2>6, <2>7, <2>8, <2>9
       DEF Next, Get, Refresh, LoadStep, BalanceStep, Tasks
<1> QED
  BY <1>1, <1>2, PTL DEF Spec

-----------------------------------------------------------------------------
(* Type correctness. *)

ValueType == /\ held \in [DOMAIN Wallet -> Nat]
             /\ value \in [pc : {"idle", "dust", "metadata"}, at : Nat,
                           used : Seq(Found), amounts : Seq(Nat)]
             /\ value.pc = "metadata" => value.at \in DOMAIN Wallet
             /\ shown \in [used : Seq(Found), amounts : Seq(Nat)]

MarketType == markets # None => /\ DOMAIN markets \subseteq MarketIds
                                /\ \A m \in DOMAIN markets :
                                     markets[m].base \in Found /\ markets[m].quote \in Found

(* A set of numbers has a least one.                                       *)
LEMMA LeastOne ==
  ASSUME NEW U \in SUBSET Nat, U # {}
  PROVE  Min(U) \in U /\ \A n \in U : Min(U) <= n
<1> DEFINE R == OpToRel(<, Nat)
<1>1. PICK m \in U : \A n \in U : ~(<<n, m>> \in R)
  <2>1. IsWellFoundedOn(R, Nat)
    BY NatLessThanWellFounded
  <2> HIDE DEF R
  <2> QED
    BY <2>1, WFMin
<1>2. R = {ss \in Nat \X Nat : ss[1] < ss[2]}
  BY Zenon DEF OpToRel
<1>3. \A n \in U : ~(n < m)
  BY <1>1, <1>2
<1>4. \A n \in U : m <= n
  BY <1>3
<1> QED
  BY <1>4 DEF Min

(* The metadata of a run of holdings that have an entry is a sequence of   *)
(* entries.                                                                *)
Entries(known, k, n) == [i \in 1..(n - k) |-> known[Wallet[k + i - 1]]]

LEMMA EntriesOf ==
  ASSUME NEW known \in Metadata, NEW k \in Nat, NEW n \in Nat, k <= n,
         \A i \in k..(n - 1) : known[Wallet[i]] = "known"
  PROVE  Entries(known, k, n) \in Seq(Found)
<1>1. Entries(known, k, n) \in [1..(n - k) -> Found]
  BY DEF Found, Entries
<1> QED
  BY <1>1, SeqDef

(* The loops over the holdings keep the types.                             *)
LEMMA GoKeeps ==
  ASSUME ValueType, NEW k \in 1..(Len(Wallet) + 1), NEW used \in Seq(Found),
         NEW amounts \in Seq(Nat), NEW known \in Metadata, Go(k, used, amounts, known)
  PROVE  /\ value' \in [pc : {"idle", "dust", "metadata"}, at : Nat,
                        used : Seq(Found), amounts : Seq(Nat)]
         /\ value'.pc = "metadata" => value'.at \in DOMAIN Wallet
         /\ shown' \in [used : Seq(Found), amounts : Seq(Nat)]
<1>0. Len(Wallet) \in Nat /\ DOMAIN Wallet = 1..Len(Wallet)
  BY MarketsAssumption
<1>1. k \in Nat /\ k <= Len(Wallet) + 1 /\ Len(Wallet) + 1 \in Nat
  BY <1>0
<1>2. CASE Unvalued(known, k) = {}
  <2> DEFINE n == Len(Wallet) + 1
             more == Entries(known, k, n)
  <2>1. n \in Nat /\ k <= n /\ \A i \in k..(n - 1) : i \in k..Len(Wallet)
    BY <1>0, <1>1
  <2>2. \A i \in k..(n - 1) : known[Wallet[i]] = "known"
    BY <1>2, <2>1 DEF Unvalued
  <2>3. value' = NoValue /\ shown' = [used |-> used \o more, amounts |-> amounts]
    <3>1. more = [i \in 1..(Len(Wallet) + 1 - k) |-> known[Wallet[k + i - 1]]]
      BY DEF Entries
    <3> HIDE DEF more
    <3> QED
      BY <1>2, <3>1 DEF Go
  <2>4. more \in Seq(Found)
    <3> HIDE DEF n
    <3> QED
      BY <1>1, <2>1, <2>2, EntriesOf
  <2> HIDE DEF more
  <2>5. used \o more \in Seq(Found)
    BY <2>4, ConcatProperties
  <2>6. <<>> \in Seq(Found) /\ <<>> \in Seq(Nat)
    BY EmptySeq
  <2> QED
    BY <2>3, <2>5, <2>6 DEF NoValue
<1>3. CASE Unvalued(known, k) # {}
  <2> DEFINE n == Min(Unvalued(known, k))
             more == Entries(known, k, n)
  <2>1. value' = [pc |-> "metadata", at |-> n, amounts |-> amounts, used |-> used \o more]
        /\ UNCHANGED shown
    BY <1>3 DEF Go, Entries
  <2>2. n \in Unvalued(known, k) /\ \A i \in Unvalued(known, k) : n <= i
    <3>1. Unvalued(known, k) \subseteq Nat
      BY <1>0 DEF Unvalued
    <3> QED
      BY <1>3, <3>1, LeastOne
  <2> HIDE DEF n
  <2>3. n \in k..Len(Wallet) /\ n \in Nat /\ k <= n
    BY <1>0, <1>1, <2>2 DEF Unvalued
  <2>4. \A i \in k..(n - 1) : known[Wallet[i]] = "known"
    <3>1. \A i \in k..(n - 1) : i \in k..Len(Wallet) /\ ~(n <= i)
      BY <1>0, <2>3
    <3> QED
      BY <2>2, <3>1 DEF Unvalued
  <2>5. more \in Seq(Found)
    BY <1>1, <2>3, <2>4, EntriesOf
  <2> HIDE DEF more
  <2>6. used \o more \in Seq(Found)
    BY <2>5, ConcatProperties
  <2> QED
    BY <1>0, <2>1, <2>3, <2>6 DEF ValueType
<1> QED
  BY <1>2, <1>3

(* What is built from markets whose denominations all have an entry.       *)
LEMMA BuildType ==
  ASSUME NEW c \in Tasks, NEW raw \in SUBSET MarketIds, NEW known \in Metadata,
         MarketType, Continue(c, raw, known)
  PROVE  MarketType'
<1>1. CASE DenomsWithout(raw, known) = {} /\ Cache(raw, known)
  <2>1. ASSUME NEW m \in raw
        PROVE  known[Listing[m][1]] \in Found /\ known[Listing[m][2]] \in Found
    <3>1. Listing[m] = <<Listing[m][1], Listing[m][2]>>
          /\ Listing[m][1] \in Denoms /\ Listing[m][2] \in Denoms
      BY ListingPairs
    <3>2. Listing[m][1] \in Range(Listing[m]) /\ Listing[m][2] \in Range(Listing[m])
      BY <3>1 DEF Range
    <3>3. known[Listing[m][1]] # "absent" /\ known[Listing[m][2]] # "absent"
      BY <1>1, <3>2 DEF DenomsWithout
    <3> QED
      BY <3>1, <3>3 DEF Metadata
  <2>2. markets' = [m \in raw |-> MarketOf(m, raw, known)]
    BY <1>1 DEF Cache
  <2> QED
    BY <2>1, <2>2 DEF MarketType, MarketOf
<1>2. CASE UNCHANGED <<symbols, markets>>
  BY <1>2 DEF MarketType
<1> QED
  BY <1>1, <1>2 DEF Continue

(* The variables keep their types, for any markets, holdings and failures. *)
THEOREM TypeCorrect == Spec => []TypeOK
<1> DEFINE IInv == LoadType /\ ValueType /\ MarketType
<1>0. Len(Wallet) \in Nat /\ DOMAIN Wallet = 1..Len(Wallet)
  BY MarketsAssumption
<1>1. Init => IInv
  <2>1. <<>> \in Seq(Found) /\ <<>> \in Seq(Nat)
    BY EmptySeq
  <2> QED
    BY <2>1, MarketsAssumption
       DEF Init, LoadType, Metadata, ValueType, MarketType, NoLoad, NoValue, MarketIds
<1>2. IInv /\ [Next]_vars => IInv'
  <2> SUFFICES ASSUME IInv, [Next]_vars
               PROVE  IInv'
    OBVIOUS
  <2>1. UNCHANGED markets => MarketType'
    BY DEF MarketType
  <2>2. UNCHANGED <<held, value, shown>> => ValueType'
    BY DEF ValueType
  <2>3. UNCHANGED <<listed, metadata, load>> => LoadType'
    BY DEF LoadType
  <2>4. ASSUME NEW c \in Tasks, StartLoad(c) \/ ListingFails(c)
        PROVE  IInv'
    <3>1. load' \in [Tasks -> [pc : {"idle", "listing", "metadata"},
                              raw : SUBSET MarketIds, denom : Denoms]]
      <4> USE DEF LoadType
      <4>1. CASE StartLoad(c)
        BY <4>1 DEF StartLoad
      <4>2. CASE ListingFails(c)
        BY <4>2, MarketsAssumption DEF ListingFails, NoLoad
      <4> QED
        BY <2>4, <4>1, <4>2
    <3>2. UNCHANGED <<listed, metadata, markets, held, value, shown>>
      BY <2>4 DEF StartLoad, ListingFails
    <3>3. LoadType'
      BY <3>1, <3>2 DEF LoadType
    <3> QED
      BY <2>1, <2>2, <3>2, <3>3
  <2>5. ASSUME NEW c \in Tasks, ReadListing(c)
        PROVE  IInv'
    <3>1. listed \in SUBSET MarketIds /\ metadata \in Metadata
      BY DEF LoadType
    <3>2. MarketType'
      BY <2>5, <3>1, BuildType DEF ReadListing
    <3>3. LoadType'
      BY <2>5, <3>1, LoadKeeps DEF ReadListing, LoadType
    <3> QED
      BY <2>2, <2>5, <3>2, <3>3 DEF ReadListing
  <2>6. ASSUME NEW c \in Tasks, ReadMetadata(c)
        PROVE  IInv'
    <3>1. load[c].denom \in Denoms /\ load[c].raw \in SUBSET MarketIds
      BY DEF LoadType
    <3>2. PICK answer \in Answers(load[c].denom) :
            /\ metadata' = [metadata EXCEPT ![load[c].denom] = answer]
            /\ Continue(c, load[c].raw, metadata')
      BY <2>6 DEF ReadMetadata
    <3>3. metadata' \in Metadata
      BY <3>1, <3>2 DEF Answers, Metadata, Found, LoadType
    <3>4. MarketType'
      BY <3>1, <3>2, <3>3, BuildType
    <3>5. LoadType'
      BY <2>6, <3>1, <3>2, <3>3, LoadKeeps DEF ReadMetadata, LoadType
    <3> QED
      BY <2>2, <2>6, <3>4, <3>5 DEF ReadMetadata
  <2>7. CASE UpdateBalances
    <3> DEFINE first == [k \in 1..Bank |-> held[k]]
    <3>0. Bank \in Nat /\ Bank <= Len(Wallet)
      BY <1>0, MarketsAssumption
    <3>1. first \in [1..Bank -> Nat]
      BY <1>0, <3>0 DEF ValueType
    <3>2. first \in Seq(Nat)
      <4> HIDE DEF first
      <4> QED
        BY <3>0, <3>1, SeqDef
    <3>3. value'.pc = "dust" /\ value' \in [pc : {"idle", "dust", "metadata"}, at : Nat,
                                           used : Seq(Found), amounts : Seq(Nat)]
      BY <2>7, <3>2 DEF UpdateBalances, ValueType
    <3> QED
      BY <2>1, <2>3, <2>7, <3>3 DEF UpdateBalances, ValueType
  <2>8. CASE ReadDust
    <3> DEFINE dust == [k \in 1..(Len(Wallet) - Bank) |-> held[Bank + k]]
    <3>1. dust \in [1..(Len(Wallet) - Bank) -> Nat] /\ Len(Wallet) - Bank \in Nat
      BY <1>0, MarketsAssumption DEF ValueType
    <3>2. dust \in Seq(Nat)
      BY <3>1, SeqDef
    <3>3. Go(1, <<>>, value.amounts \o dust, metadata)
      BY <2>8 DEF ReadDust
    <3> HIDE DEF dust
    <3>4. value.amounts \o dust \in Seq(Nat)
      BY <3>2, ConcatProperties DEF ValueType
    <3>5. <<>> \in Seq(Found) /\ 1 \in 1..(Len(Wallet) + 1) /\ metadata \in Metadata
      BY <1>0, EmptySeq DEF LoadType
    <3>6. /\ value' \in [pc : {"idle", "dust", "metadata"}, at : Nat,
                         used : Seq(Found), amounts : Seq(Nat)]
          /\ value'.pc = "metadata" => value'.at \in DOMAIN Wallet
          /\ shown' \in [used : Seq(Found), amounts : Seq(Nat)]
      BY <3>3, <3>4, <3>5, GoKeeps
    <3> QED
      BY <2>1, <2>3, <2>8, <3>6 DEF ReadDust, ValueType
  <2>9. CASE DustFails
    <3>1. <<>> \in Seq(Found) /\ <<>> \in Seq(Nat)
      BY EmptySeq
    <3> QED
      BY <2>1, <2>3, <2>9, <3>1 DEF DustFails, ValueType, NoValue
  <2>10. ASSUME NEW answer \in Found, ValueHolding(answer)
         PROVE  IInv'
    <3>1. value.at \in DOMAIN Wallet /\ Wallet[value.at] \in Denoms
      BY <2>10, MarketsAssumption DEF ValueHolding, ValueType
    <3>2. metadata' \in Metadata
      BY <2>10 DEF ValueHolding, Metadata, LoadType
    <3>3. Go(value.at + 1, Append(value.used, answer), value.amounts, metadata')
      BY <2>10 DEF ValueHolding
    <3>4. /\ value.at + 1 \in 1..(Len(Wallet) + 1)
          /\ Append(value.used, answer) \in Seq(Found) /\ value.amounts \in Seq(Nat)
      BY <1>0, <3>1 DEF ValueType
    <3>5. /\ value' \in [pc : {"idle", "dust", "metadata"}, at : Nat,
                         used : Seq(Found), amounts : Seq(Nat)]
          /\ value'.pc = "metadata" => value'.at \in DOMAIN Wallet
          /\ shown' \in [used : Seq(Found), amounts : Seq(Nat)]
      BY <3>2, <3>3, <3>4, GoKeeps
    <3> QED
      BY <2>1, <2>10, <3>2, <3>5 DEF ValueHolding, ValueType, LoadType
  <2>11. CASE NewMarket
    BY <2>1, <2>2, <2>11 DEF NewMarket, LoadType
  <2>12. CASE PayDust
    <3>0. PICK k \in (Bank + 1)..Len(Wallet), b \in 1..Bank :
            held[k] > 0 /\ held' = [held EXCEPT ![k] = @ - 1, ![b] = @ + 1]
      BY <2>12 DEF PayDust
    <3>1. held' \in [DOMAIN Wallet -> Nat]
      <4>1. Bank \in Nat /\ Bank <= Len(Wallet) /\ held \in [DOMAIN Wallet -> Nat]
        BY <1>0, MarketsAssumption DEF ValueType
      <4>2. k \in DOMAIN Wallet /\ b \in DOMAIN Wallet /\ k # b
        BY <1>0, <4>1
      <4>3. held[k] - 1 \in Nat /\ held[b] + 1 \in Nat
        BY <3>0, <4>1, <4>2
      <4> QED
        BY <3>0, <4>1, <4>2, <4>3
    <3> QED
      BY <2>1, <2>3, <2>12, <3>1 DEF PayDust, ValueType
  <2>13. CASE UNCHANGED vars
    BY <2>1, <2>2, <2>3, <2>13 DEF vars
  <2> QED
    BY <2>4, <2>5, <2>6, <2>7, <2>8, <2>9, <2>10, <2>11, <2>12, <2>13
       DEF Next, Get, Refresh, LoadStep, BalanceStep, Tasks
<1>3. IInv => TypeOK
  BY DEF LoadType, ValueType, MarketType, TypeOK, Metadata
<1> QED
  BY <1>1, <1>2, <1>3, PTL DEF Spec
=============================================================================
