--------------------------- MODULE FillAllocation ---------------------------
(***************************************************************************)
(* Crediting trades to orders: _update_orders_fills and                    *)
(* _allocate_trade_updates.  The chain's trade history names accounts, not *)
(* orders, so the connector deals the account's trades at one side and     *)
(* price (a bucket) to its orders there, oldest order first.               *)
(*                                                                         *)
(* The poll takes the list of fillable orders, awaits the history, and     *)
(* then allocates and applies without another await.  One trading pair is  *)
(* modelled; the account's orders do not trade with one another.           *)
(*                                                                         *)
(* External: the chain, and Hummingbot's tracker, which lists the orders,  *)
(* saves them with their fills and applies a trade update once.            *)
(***************************************************************************)
EXTENDS Naturals, Sequences, FiniteSets, FiniteSetsExt, Functions, Folds

CONSTANTS
  Orders,           \* client order ids, numbered as they are made
  Other, Stranger,  \* another order of the account; other accounts
  Buckets,          \* (side, price)
  BucketOf, Amount, \* of each order
  Sizes,            \* amounts of a trade, in lots
  HistoryLimit,     \* DEFAULT_HISTORY_LIMIT
  MaxTrades, MaxTime, MaxRestarts,  \* bounds
  Faults            \* whether the history request may fail

ASSUME FillsAssumption ==
  /\ Orders \subseteq Nat /\ Other \notin Orders /\ Stranger \notin Orders
  /\ BucketOf \in [Orders -> Buckets] /\ Amount \in [Orders -> Nat \ {0}]
  /\ Sizes \subseteq Nat \ {0} /\ IsFiniteSet(Sizes) /\ HistoryLimit \in Nat
  /\ MaxTrades \in Nat /\ MaxTime \in Nat /\ MaxRestarts \in Nat
  /\ Faults \in BOOLEAN

VARIABLES
  hash,       \* how the hashes of the trades of one second compare: fixed
  trades,     \* chain: its trades, oldest first
  left,       \* chain: what is left of each order
  now,
  createdAt,  \* tracker: creation_timestamp
  placed,     \* tracker: orders placed so far
  listed,     \* tracker: the fillable orders
  fills,      \* tracker: order_fills, by the trade's fingerprint
  processed,  \* _processed_trade_ids_by_order
  poll,       \* the running _update_orders_fills, its history as positions
  restarts

chain == <<hash, trades, left, now>>
tracker == <<createdAt, placed, listed, fills>>
vars == <<chain, tracker, processed, poll, restarts>>

Trades == [owner : Orders \cup {Other, Stranger}, bucket : Buckets,
           amount : Sizes, at : 0..MaxTime]

(* fingerprint_history_trade: the time, the bucket and the amount; between *)
(* the same two accounts nothing else tells two trades apart.              *)
Fingerprints == [bucket : Buckets, amount : Sizes, at : 0..MaxTime]
Fingerprint(t) == [bucket |-> t.bucket, amount |-> t.amount, at |-> t.at]

Fills == [trade : Fingerprints, amount : Nat]
Idle == [pc |-> "idle", orders |-> {}, history |-> {}]

TypeOK ==
  /\ hash \in [Sizes -> Nat]
  /\ trades \in Seq(Trades)
  /\ left \in [Orders -> Nat] /\ \A o \in Orders : left[o] <= Amount[o]
  /\ now \in 0..MaxTime
  /\ createdAt \in [Orders -> 0..MaxTime]
  /\ listed \subseteq placed /\ placed \subseteq Orders
  /\ fills \in [Orders -> SUBSET Fills]
  /\ processed \in [Orders -> SUBSET Fingerprints]
  /\ poll \in [pc : {"idle", "history", "allocate"},
               orders : SUBSET placed, history : SUBSET (DOMAIN trades)]
  /\ restarts \in 0..MaxRestarts

Init ==
  /\ hash \in {h \in [Sizes -> 1..Cardinality(Sizes)] : IsInjective(h)}
  /\ trades = <<>>
  /\ left = [o \in Orders |-> 0]
  /\ now = 0
  /\ createdAt = [o \in Orders |-> 0]
  /\ placed = {} /\ listed = {}
  /\ fills = [o \in Orders |-> {}]
  /\ processed = [o \in Orders |-> {}]
  /\ poll = Idle
  /\ restarts = 0

SumOf(S) == SumFunction([f \in S |-> f.amount])
Executed(o) == SumOf(fills[o])
Traded(o) == SumFunction([k \in {j \in DOMAIN trades : trades[j].owner = o} |-> trades[k].amount])

-----------------------------------------------------------------------------
(* _allocate_trade_updates. *)

(* Mutant: every trade at the price counts, whoever made it.               *)
MatchesAnyone(t, b, since) == t.bucket = b /\ t.at >= since

(* Mutant: a trade in the second of the order's creation is left out.      *)
MatchesAfter(t, b, since) == t.owner # Stranger /\ t.bucket = b /\ t.at > since

(* Mutant: the age of a trade does not matter.                             *)
MatchesEver(t, b, since) == t.owner # Stranger /\ t.bucket = b

(* The account's trades of a bucket since its oldest order was created.    *)
Matches(t, b, since) == t.owner # Stranger /\ t.bucket = b /\ t.at >= since

(* Where the loop over the trades stands: no order before from is looked   *)
(* at, what is left of the trade, whether the inner loop was left by its   *)
(* break, the updates.                                                     *)
Start == [from |-> 0, rest |-> 0, stop |-> FALSE, updates |-> {}]

Remaining(o) == IF Executed(o) < Amount[o] THEN Amount[o] - Executed(o) ELSE 0

(* Mutant: an update takes the whole trade.                                *)
WholeTrade(o, rest) == rest

FillAmount(o, rest) == IF rest < Remaining(o) THEN rest ELSE Remaining(o)

(* Mutant: what was processed is not looked up.                            *)
Reprocess(loop, t, o) == FALSE

Processed(loop, t, o) == \/ Fingerprint(t) \in processed[o]
                         \/ \E u \in loop.updates : u.ord = o /\ u.trade = Fingerprint(t)

(* One pass of the inner loop, at the order o.  What the order executed is *)
(* not advanced by the updates of the same allocation.                     *)
AtOrder(loop, t, o) ==
  IF o < loop.from \/ loop.rest = 0 \/ loop.stop THEN loop
  ELSE IF Processed(loop, t, o) THEN [loop EXCEPT !.stop = TRUE]
  ELSE IF Remaining(o) = 0 THEN [loop EXCEPT !.from = o + 1]
  ELSE LET n == FillAmount(o, loop.rest)
       IN [from |-> IF n >= Remaining(o) THEN o + 1 ELSE o,
           rest |-> loop.rest - n, stop |-> FALSE,
           updates |-> loop.updates \cup
                         {[ord |-> o, trade |-> Fingerprint(t), amount |-> n]}]

(* Every pass leaves the loop, ends the trade or goes to the next order:   *)
(* one visit of each order, oldest first, is the whole inner loop.  They   *)
(* are sorted by creation time, then by client id; ids grow with time.     *)
AtTrade(loop, t, bucket) ==
  MapThenFoldSet(LAMBDA o, l : AtOrder(l, t, o),
                 [loop EXCEPT !.rest = t.amount, !.stop = FALSE],
                 LAMBDA o : o, Max, bucket)

(* Trades are dealt by time, those of one second in the order of their     *)
(* hashes: the latest of them after all the others.                        *)
Before(t, u) == t.at < u.at \/ (t.at = u.at /\ hash[t.amount] < hash[u.amount])
Latest(S) == CHOOSE k \in S : \A j \in S : ~Before(trades[k], trades[j])

AtTrades(bucket, matching) ==
  MapThenFoldSet(LAMBDA k, l : AtTrade(l, trades[k], bucket), Start,
                 LAMBDA k : k, Latest, matching)

Peers(orders, b) == {o \in orders : BucketOf[o] = b}
Matching(history, b, orders) ==
  {k \in history : Matches(trades[k], b, createdAt[Min(Peers(orders, b))])}

BucketUpdates(orders, history, b) ==
  IF Peers(orders, b) = {} THEN {}
  ELSE AtTrades(Peers(orders, b), Matching(history, b, orders)).updates

Updates(orders, history) == UNION {BucketUpdates(orders, history, b) : b \in Buckets}

-----------------------------------------------------------------------------
(* _update_orders_fills, run by the status poller, one poll at a time.     *)

(* Mutant: orders that are not placed yet are polled too.                  *)
PollAll == /\ poll.pc = "idle"
           /\ listed # {}
           /\ poll' = [poll EXCEPT !.pc = "history", !.orders = Orders]
           /\ UNCHANGED <<chain, tracker, processed, restarts>>

StartPoll == /\ poll.pc = "idle"
             /\ listed # {}
             /\ poll' = [poll EXCEPT !.pc = "history", !.orders = listed]
             /\ UNCHANGED <<chain, tracker, processed, restarts>>

(* The trades of a second are those of one block and show together, once   *)
(* it is over; the node returns the last ones.                             *)
Shown == {k \in DOMAIN trades : trades[k].at < now}
LastTrades(n) == {k \in Shown : Cardinality({j \in Shown : j > k}) < n}

ReadHistory == /\ poll.pc = "history"
               /\ poll' = [poll EXCEPT !.pc = "allocate", !.history = LastTrades(HistoryLimit)]
               /\ UNCHANGED <<chain, tracker, processed, restarts>>

(* The tracker applies an update to an order it lists, once per trade id.  *)
Apply(updates) ==
  fills' = [o \in Orders |->
              IF o \notin listed THEN fills[o]
              ELSE fills[o] \cup
                   {[trade |-> u.trade, amount |-> u.amount] :
                      u \in {v \in updates : /\ v.ord = o
                                             /\ \A f \in fills[o] : f.trade # v.trade}}]

Allocate == /\ poll.pc = "allocate"
            /\ LET updates == Updates(poll.orders, poll.history) IN
               /\ processed' = [o \in Orders |-> processed[o] \cup
                                  {u.trade : u \in {v \in updates : v.ord = o}}]
               /\ Apply(updates)
            /\ poll' = Idle
            /\ UNCHANGED <<chain, createdAt, placed, listed, restarts>>

PollFails == /\ Faults
             /\ poll.pc = "history"
             /\ poll' = Idle
             /\ UNCHANGED <<chain, tracker, processed, restarts>>

-----------------------------------------------------------------------------
(* Orders and trades (external). *)

Place(o) == /\ o \notin placed
            /\ \A q \in Orders : q < o => q \in placed
            /\ placed' = placed \cup {o}
            /\ listed' = listed \cup {o}
            /\ createdAt' = [createdAt EXCEPT ![o] = now]
            /\ left' = [left EXCEPT ![o] = Amount[o]]
            /\ UNCHANGED <<hash, trades, now, fills, processed, poll, restarts>>

Execute(owner, b, n) ==
  /\ Len(trades) < MaxTrades
  /\ trades' = Append(trades, [owner |-> owner, bucket |-> b, amount |-> n, at |-> now])
  /\ UNCHANGED <<hash, now, tracker, processed, poll, restarts>>

Trade(o) == \E n \in Sizes : /\ n <= left[o]
                             /\ left' = [left EXCEPT ![o] = @ - n]
                             /\ Execute(o, BucketOf[o], n)

OtherTrade == \E who \in {Other, Stranger}, b \in Buckets, n \in Sizes :
                Execute(who, b, n) /\ UNCHANGED left

Cancel(o) == /\ left[o] > 0
             /\ left' = [left EXCEPT ![o] = 0]
             /\ UNCHANGED <<hash, trades, now, tracker, processed, poll, restarts>>

Done(o) == Executed(o) >= Amount[o] \/ (left[o] = 0 /\ Traded(o) < Amount[o])

(* A done order stays fillable until it leaves the tracker's cache.        *)
Drop(o) == /\ o \in listed
           /\ Done(o)
           /\ listed' = listed \ {o}
           /\ UNCHANGED <<chain, createdAt, placed, fills, processed, poll, restarts>>

Tick == /\ now < MaxTime
        /\ now' = now + 1
        /\ UNCHANGED <<hash, trades, left, tracker, processed, poll, restarts>>

(* The orders that were not done come back with their fills.               *)
Restart == /\ restarts < MaxRestarts
           /\ restarts' = restarts + 1
           /\ listed' = {o \in listed : ~Done(o)}
           /\ processed' = [o \in Orders |-> {}]
           /\ poll' = Idle
           /\ UNCHANGED <<chain, createdAt, placed, fills>>

Next == \/ StartPoll \/ ReadHistory \/ Allocate \/ PollFails
        \/ \E o \in Orders : Place(o) \/ Trade(o) \/ Cancel(o) \/ Drop(o)
        \/ OtherTrade \/ Tick \/ Restart

Spec == Init /\ [][Next]_vars

-----------------------------------------------------------------------------
(* Properties. *)

(* The orders a trade was credited to.                                     *)
Credited(f) == {o \in Orders : \E u \in fills[o] : u.trade = f}
CreditOf(o, f) == SumOf({u \in fills[o] : u.trade = f})
Seen(f) == SumFunction([k \in {j \in DOMAIN trades : /\ trades[j].owner # Stranger
                                                     /\ Fingerprint(trades[j]) = f}
                          |-> trades[k].amount])

(* As long as every order of its bucket that a trade was dealt to is       *)
(* listed and the connector did not restart, no trade is credited beyond   *)
(* its amount (trades that look the same count together), however it is    *)
(* divided between orders and however polls, placements and cancels        *)
(* interleave: what _processed_trade_ids_by_order is for.  It is not       *)
(* enough that the orders credited with this trade are listed: one that    *)
(* left leaves its own trades to the others, which may be full by now and  *)
(* are passed over, and with them the mark that the next trade is theirs.  *)
Undivided(b) == \A o \in Orders : BucketOf[o] = b /\ processed[o] # {} => o \in listed

CreditsWithinTrade ==
  restarts = 0 =>
    \A f \in Fingerprints :
      Undivided(f.bucket) => SumFunction([o \in Credited(f) |-> CreditOf(o, f)]) <= Seen(f)

Sole(o) == \A k \in DOMAIN trades :
             trades[k].bucket = BucketOf[o] => trades[k].owner \in {o, Stranger}

(* An order whose bucket saw no trade of another order of the account was  *)
(* never credited more than it really traded, also across restarts.        *)
SoleOrderNotOvercredited == \A o \in Orders : Sole(o) => Executed(o) <= Traded(o)

(* It takes two trades in one allocation to credit an order beyond its     *)
(* amount: with one, the surplus goes to the next order.                   *)
OneTradeWithinAmount ==
  [][\A o \in Orders :
       Executed(o) <= Amount[o] /\ Cardinality(fills'[o] \ fills[o]) = 1
       => Executed(o)' <= Amount[o]]_vars

(* An allocation leaves no trade of its history out: an order that has its *)
(* bucket for itself is credited with each trade it made, whatever was     *)
(* polled or placed before.  The exception is the first allocation after a *)
(* restart: it deals the trades the tracker already has once more, and     *)
(* they may take the room of the new ones until the next poll.             *)
EveryTradeCredited ==
  [][\A o \in poll.orders \cap listed :
       poll.pc = "allocate" /\ restarts' = restarts /\ poll' = Idle
       /\ {f.trade : f \in fills[o]} \subseteq processed[o]
       /\ Sole(o) /\ (\A q \in placed : BucketOf[q] = BucketOf[o] => q = o)
       => \A k \in poll.history :
            trades[k].owner = o =>
              \E f \in fills'[o] : f.trade = Fingerprint(trades[k])]_vars

(* Release notes 0.3.0: a trade older than the orders of the bucket is not *)
(* credited.  One as old as the bucket can go to an order that is younger  *)
(* than the trade, but only next to an older order at its price that was   *)
(* there in time; whatever left the list and was forgotten in a restart.   *)
FillsFollowBucket ==
  \A o \in Orders : \A f \in fills[o] :
    \E q \in placed : /\ BucketOf[q] = BucketOf[o] /\ q <= o
                      /\ createdAt[q] <= f.trade.at

(* However polls, failures, restarts and orders interleave, what an order  *)
(* was credited with is never taken back, and is never more than what the  *)
(* account traded at its price: what OrderLifecycle takes a trade update   *)
(* to be.                                                                  *)
TradedAt(b) == SumFunction([k \in {j \in DOMAIN trades : /\ trades[j].owner # Stranger
                                                        /\ trades[j].bucket = b}
                              |-> trades[k].amount])
Promise == INSTANCE PriceFills WITH
             traded <- [b \in Buckets |-> TradedAt(b)],
             executed <- [o \in Orders |-> Executed(o)]
ImplementsPriceFills == Promise!Spec
=============================================================================
