------------------------------- MODULE Markets -------------------------------
(***************************************************************************)
(* What the connector knows of the chain's markets: get_all_markets, which *)
(* lists the markets, asks for the metadata of their denominations and     *)
(* builds the symbol map and the market cache, run by several tasks at     *)
(* once; and _update_balances, which shares the metadata.                  *)
(*                                                                         *)
(* A denomination without metadata goes by its raw name and the exponent   *)
(* 0.  A symbol has no dash in it, and the hashes in the names of markets  *)
(* with equal symbols differ.  The chain lists a pair of denominations     *)
(* once.                                                                   *)
(*                                                                         *)
(* External: the node, and Hummingbot, which starts the tasks.             *)
(***************************************************************************)
EXTENDS Naturals, Sequences, FiniteSets, FiniteSetsExt, Functions

CONSTANTS
  Listing,        \* markets <<base, quote>> the chain may list, in its order
  AtFirst,        \* those it lists at first, by index
  Denoms,
  Native,         \* _native_denom
  Symbol,         \* symbol of each denomination, in its metadata
  RawSymbol,      \* symbol made of its name
  Getters,        \* tasks that look up a market when nothing is cached yet
  Refresher,      \* the poller of the trading rules
  Wallet,         \* denominations of the account's balances, then of its dust
  Bank,           \* how many of them are balances
  AtStart,        \* amounts of the holdings at first, in units of the display
  RawScale,       \* what an amount grows by when it is taken as raw units
  None,           \* nothing is cached
  Faults          \* whether requests fail

MarketIds == DOMAIN Listing

ASSUME MarketsAssumption ==
  /\ Listing \in Seq(Denoms \X Denoms) /\ IsInjective(Listing)
  /\ AtFirst \subseteq MarketIds
  /\ Native \in Denoms /\ Wallet \in Seq(Denoms)
  /\ Bank \in 0..Len(Wallet) /\ AtStart \in [DOMAIN Wallet -> Nat] /\ RawScale \in Nat
  /\ Symbol \in [Denoms -> STRING] /\ RawSymbol \in [Denoms -> STRING]
  /\ Refresher \notin Getters
  /\ Faults \in BOOLEAN

VARIABLES
  listed,    \* chain: the markets it lists
  metadata,  \* _metadata_by_denom: "absent", "raw" ({}) or "known"
  symbols,   \* _symbol_map
  markets,   \* _markets_by_id
  load,      \* the running get_all_markets of each task
  held,      \* chain: amounts of the account's holdings
  value,     \* the running _update_balances
  shown      \* amounts the balances were published from, and their metadata

vars == <<listed, metadata, symbols, markets, load, held, value, shown>>

Tasks == Getters \cup {Refresher}
NoLoad == [pc |-> "idle", raw |-> {}, denom |-> Native]
NoValue == [pc |-> "idle", at |-> 1, used |-> <<>>, amounts |-> <<>>]

Found == {"raw", "known"}

TypeOK ==
  /\ listed \subseteq MarketIds
  /\ metadata \in [Denoms -> Found \cup {"absent"}]
  /\ markets # None => /\ DOMAIN markets \subseteq MarketIds
                       /\ \A m \in DOMAIN markets :
                            markets[m].base \in Found /\ markets[m].quote \in Found
  /\ load \in [Tasks -> [pc : {"idle", "listing", "metadata"},
                         raw : SUBSET MarketIds, denom : Denoms]]
  /\ held \in [DOMAIN Wallet -> Nat]
  /\ value \in [pc : {"idle", "dust", "metadata"}, at : Nat,
                used : Seq(Found), amounts : Seq(Nat)]
  /\ shown \in [used : Seq(Found), amounts : Seq(Nat)]

Init ==
  /\ listed = AtFirst
  /\ metadata = [d \in Denoms |-> "absent"]
  /\ symbols = None /\ markets = None
  /\ load = [c \in Tasks |-> NoLoad]
  /\ held = AtStart
  /\ value = NoValue
  /\ shown = [used |-> <<>>, amounts |-> <<>>]

-----------------------------------------------------------------------------
(* Names. *)

SymbolOf(d, known) == IF known[d] = "known" THEN Symbol[d] ELSE RawSymbol[d]
PlainPair(m, known) == <<SymbolOf(Listing[m][1], known), SymbolOf(Listing[m][2], known)>>

(* unique_market_symbols: of markets whose symbols are equal, the first    *)
(* gets the plain pair and the others one with hashes of their             *)
(* denominations.                                                          *)
PairOf(m, raw, known) ==
  IF \E k \in raw : k < m /\ PlainPair(k, known) = PlainPair(m, known)
  THEN PlainPair(m, known) \o Listing[m]
  ELSE PlainPair(m, known)

(* market_from_data: its symbols are those of the pair, its exponents come *)
(* from the metadata.                                                      *)
MarketOf(m, raw, known) ==
  [pair |-> PairOf(m, raw, known),
   base |-> known[Listing[m][1]], quote |-> known[Listing[m][2]]]

(* Mutant: a market that is cached already is kept.                        *)
CacheNew(raw, known) ==
  /\ symbols' = [m \in raw |-> PairOf(m, raw, known)]
  /\ markets' = [m \in raw |-> IF markets # None /\ m \in DOMAIN markets THEN markets[m]
                               ELSE MarketOf(m, raw, known)]

Cache(raw, known) ==
  /\ symbols' = [m \in raw |-> PairOf(m, raw, known)]
  /\ markets' = [m \in raw |-> MarketOf(m, raw, known)]

-----------------------------------------------------------------------------
(* get_all_markets. *)

StartLoad(c) == /\ load[c].pc = "idle"
                /\ load' = [load EXCEPT ![c].pc = "listing"]
                /\ UNCHANGED <<listed, metadata, symbols, markets, held, value, shown>>

(* get_symbol_map and get_market_by_trading_pair load what is not there.   *)
Get(c) == symbols = None /\ StartLoad(c)

(* Mutant: what is cached is not loaded again.                             *)
RefreshCached == symbols = None /\ StartLoad(Refresher)

(* _format_trading_rules loads every time.                                 *)
Refresh == StartLoad(Refresher)

(* Mutant: the quote denominations are left out.                           *)
BasesWithout(raw, known) == {d \in {Listing[m][1] : m \in raw} : known[d] = "absent"}

DenomsWithout(raw, known) ==
  {d \in UNION {Range(Listing[m]) : m \in raw} : known[d] = "absent"}

(* The loop over the denominations goes on to one without an entry, or     *)
(* ends.                                                                   *)
Continue(c, raw, known) ==
  \/ /\ DenomsWithout(raw, known) = {}
     /\ Cache(raw, known)
     /\ load' = [load EXCEPT ![c] = NoLoad]
  \/ \E d \in DenomsWithout(raw, known) :
       /\ load' = [load EXCEPT ![c] = [pc |-> "metadata", raw |-> raw, denom |-> d]]
       /\ UNCHANGED <<symbols, markets>>

ReadListing(c) == /\ load[c].pc = "listing"
                  /\ Continue(c, listed, metadata)
                  /\ UNCHANGED <<listed, metadata, held, value, shown>>

ListingFails(c) == /\ Faults
                   /\ load[c].pc = "listing"
                   /\ load' = [load EXCEPT ![c] = NoLoad]
                   /\ UNCHANGED <<listed, metadata, symbols, markets, held, value, shown>>

(* get_denom_metadata: when both requests fail the native denomination has *)
(* synthesized metadata and the others none.  The result replaces what     *)
(* another task may have found meanwhile.                                  *)
Answers(d) == {"known"} \cup (IF Faults /\ d # Native THEN {"raw"} ELSE {})

ReadMetadata(c) ==
  LET d == load[c].denom
  IN /\ load[c].pc = "metadata"
     /\ \E answer \in Answers(d) :
          /\ metadata' = [metadata EXCEPT ![d] = answer]
          /\ Continue(c, load[c].raw, metadata')
     /\ UNCHANGED <<listed, held, value, shown>>

-----------------------------------------------------------------------------
(* _update_balances. *)

(* Mutant: what has no metadata is not asked for again.                    *)
NoEntry(known, k) == {i \in k..Len(Wallet) : known[Wallet[i]] = "absent"}

(* Holdings from the k-th on whose metadata is absent or empty.            *)
Unvalued(known, k) == {i \in k..Len(Wallet) : known[Wallet[i]] # "known"}

(* The loops value each holding with the metadata at hand, up to one that  *)
(* has none, or publish.                                                   *)
Go(k, used, amounts, known) ==
  IF Unvalued(known, k) = {}
  THEN /\ shown' = [used |-> used \o [i \in 1..(Len(Wallet) + 1 - k) |-> known[Wallet[k + i - 1]]],
                    amounts |-> amounts]
       /\ value' = NoValue
  ELSE LET n == Min(Unvalued(known, k))
       IN /\ value' = [pc |-> "metadata", at |-> n, amounts |-> amounts,
                       used |-> used \o [i \in 1..(n - k) |-> known[Wallet[k + i - 1]]]]
          /\ UNCHANGED shown

(* get_balances, then get_user_dust: what moves between them is missed.    *)
UpdateBalances == /\ value.pc = "idle"
                  /\ value' = [value EXCEPT !.pc = "dust",
                                            !.amounts = [k \in 1..Bank |-> held[k]]]
                  /\ UNCHANGED <<listed, metadata, symbols, markets, load, held, shown>>

ReadDust == /\ value.pc = "dust"
            /\ Go(1, <<>>, value.amounts \o [k \in 1..(Len(Wallet) - Bank) |-> held[Bank + k]],
                  metadata)
            /\ UNCHANGED <<listed, metadata, symbols, markets, load, held>>

DustFails == /\ Faults
             /\ value.pc = "dust"
             /\ value' = NoValue
             /\ UNCHANGED <<listed, metadata, symbols, markets, load, held, shown>>

ValueHolding(answer) ==
  LET d == Wallet[value.at]
  IN /\ value.pc = "metadata" /\ answer \in Answers(d)
     /\ metadata' = [metadata EXCEPT ![d] = answer]
     /\ Go(value.at + 1, Append(value.used, answer), value.amounts, metadata')
     /\ UNCHANGED <<listed, symbols, markets, load, held>>

(* The published amount of a symbol, of some of the holdings: every token  *)
(* that goes by the symbol counts, at the scale it was valued with.        *)
NameShown(k) == IF shown.used[k] = "known" THEN Symbol[Wallet[k]] ELSE RawSymbol[Wallet[k]]
Worth(k) == IF shown.used[k] = "known" THEN shown.amounts[k] ELSE RawScale * shown.amounts[k]

(* Mutant: an amount replaces the one before it.                           *)
LastOnly(symbol, holdings) ==
  LET named == {k \in holdings \cap DOMAIN shown.used : NameShown(k) = symbol}
  IN IF named = {} THEN 0 ELSE Worth(Max(named))

Published(symbol, holdings) ==
  MapThenSumSet(Worth, {k \in holdings \cap DOMAIN shown.used : NameShown(k) = symbol})

-----------------------------------------------------------------------------
(* The chain lists another market. *)
NewMarket == \E m \in MarketIds \ listed :
               /\ listed' = listed \cup {m}
               /\ UNCHANGED <<metadata, symbols, markets, load, held, value, shown>>

(* Dust that has grown to a unit is paid out as a balance.                 *)
PayDust == \E k \in (Bank + 1)..Len(Wallet), b \in 1..Bank :
             /\ Wallet[b] = Wallet[k] /\ held[k] > 0
             /\ held' = [held EXCEPT ![k] = @ - 1, ![b] = @ + 1]
             /\ UNCHANGED <<listed, metadata, symbols, markets, load, value, shown>>

LoadStep(c) == ReadListing(c) \/ ListingFails(c) \/ ReadMetadata(c)
BalanceStep == UpdateBalances \/ ReadDust \/ DustFails \/ \E answer \in Found : ValueHolding(answer)

Next == \/ \E c \in Getters : Get(c)
        \/ Refresh
        \/ \E c \in Tasks : LoadStep(c)
        \/ BalanceStep
        \/ NewMarket \/ PayDust

Spec == Init /\ [][Next]_vars

(* The pollers of trading rules and balances never stop and every request  *)
(* ends.  A listing, or the metadata of a denomination, that is asked for  *)
(* again and again is answered some time.                                  *)
FairSpec == /\ Spec
            /\ WF_vars(Refresh) /\ SF_vars(ReadListing(Refresher))
            /\ \A c \in Tasks : WF_vars(LoadStep(c))
            /\ WF_vars(BalanceStep) /\ SF_vars(ReadDust) /\ SF_vars(ValueHolding("known"))

-----------------------------------------------------------------------------
(* Properties. *)

(* The symbol map and the market cache are of one listing and of one state *)
(* of the metadata, whichever load came last: pairs and markets are one to *)
(* one, a market's name is that of the map, and a denomination has one     *)
(* exponent in all markets.                                                *)
CacheConsistent ==
  markets # None =>
    /\ symbols = [m \in DOMAIN markets |-> markets[m].pair]
    /\ IsInjective(symbols)
    /\ \A d \in Denoms :
         Cardinality({markets[m].base : m \in {k \in DOMAIN markets : Listing[k][1] = d}}
                     \cup {markets[m].quote : m \in {k \in DOMAIN markets : Listing[k][2] = d}})
           <= 1

(* A market that is listed is known some time and then stays so: a load    *)
(* that read an older listing cannot drop it for good.                     *)
MarketsStayKnown ==
  \A m \in MarketIds : m \in listed ~> [](markets # None /\ m \in DOMAIN markets)

(* The metadata of a denomination the account holds is found in the end,   *)
(* although requests failed and the answers of concurrent tasks replace    *)
(* one another: its markets come to be scaled by it.                       *)
MetadataHeals ==
  \A m \in {k \in MarketIds : Listing[k][1] \in Range(Wallet)} :
    m \in listed
    ~> [](markets # None /\ m \in DOMAIN markets /\ markets[m].base = "known")

(* The published balances come to be what the account holds, with the dust *)
(* in the totals only: neither a request that failed, a token that was     *)
(* valued in raw units, nor dust paid out between the two requests stays.  *)
BalancesSettle ==
  LET Owned(symbol, holdings) ==
        MapThenSumSet(LAMBDA k : held[k], {k \in holdings : Symbol[Wallet[k]] = symbol})
  IN \A symbol \in Range(Symbol) :
       <>[](/\ Published(symbol, DOMAIN Wallet) = Owned(symbol, DOMAIN Wallet)
            /\ Published(symbol, 1..Bank) = Owned(symbol, 1..Bank))
=============================================================================
