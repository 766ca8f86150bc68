----------------------------- MODULE FillProofs -----------------------------
(***************************************************************************)
(* Crediting trades to orders, for any orders, buckets, amounts, trades,   *)
(* restarts and failures: the variables keep their types, no fill is older *)
(* than the orders of its bucket, one trade never overfills an order, an   *)
(* order that has its bucket to itself is credited with its own trades, all*)
(* of them and nothing else, and no trade is credited beyond its amount to *)
(* orders that share a bucket.                                             *)
(***************************************************************************)
EXTENDS FillAllocation, FoldLemmas, SequenceTheorems

(* The hash orders the sizes, all ids are numbers.                         *)
LEMMA Numbers ==
  /\ \A o \in Orders : o \in Nat /\ Amount[o] \in Nat /\ BucketOf[o] \in Buckets
  /\ \A n \in Sizes : n \in Nat /\ n > 0
  BY FillsAssumption

-----------------------------------------------------------------------------
(* The folds of an allocation. *)

(* The inner loop at the orders of s, with the last of them after all the  *)
(* others.                                                                 *)
Visits(iter, t, s) ==
  \E o \in s : /\ \A q \in s : o >= q
               /\ iter[s] = AtOrder(iter[s \ {o}], t, o)

(* The loop as it enters the inner loop with t.                            *)
Enter(loop, t) == [loop EXCEPT !.rest = t.amount, !.stop = FALSE]

(* The inner loop over the orders of a bucket is a function of the orders  *)
(* it visited: entered for none, one visit more for each.                  *)
LEMMA AtTradeUnfolds ==
  ASSUME NEW bucket \in SUBSET Nat, IsFiniteSet(bucket), NEW loop, NEW t, NEW V,
         Enter(loop, t) \in V,
         \A o \in bucket, l \in V : AtOrder(l, t, o) \in V
  PROVE  \E iter \in [SUBSET bucket -> V] :
           /\ iter[{}] = Enter(loop, t)
           /\ \A s \in SUBSET bucket : s # {} => Visits(iter, t, s)
           /\ AtTrade(loop, t, bucket) = iter[bucket]
<1> DEFINE init == Enter(loop, t)
           pick == [s \in SUBSET bucket |-> Max(s)]
           step == [o \in bucket |-> [l \in V |-> AtOrder(l, t, o)]]
           Body(it) == [s \in SUBSET bucket |-> IF s = {} THEN init
                          ELSE AtOrder(it[s \ {Max(s)}], t, Max(s))]
           fold == CHOOSE it : it = Body(it)
<1>1. \A s \in SUBSET bucket : s # {} => Max(s) \in s /\ \A q \in s : Max(s) >= q
  BY GreatestOfFinite DEF Max
<1> HIDE DEF init
<1>2. \A s \in SUBSET bucket : s # {} => pick[s] \in s /\ pick[s] = Max(s)
  BY <1>1
<1>3. step \in [bucket -> [V -> V]] /\ \A o \in bucket, l \in V : step[o][l] = AtOrder(l, t, o)
  OBVIOUS
<1> HIDE DEF pick, step
<1>4. PICK it \in [SUBSET bucket -> V] : Recursion(it, SUBSET bucket, init, step, pick)
  BY <1>2, <1>3, RecursionSolved DEF init
<1>5. it = Body(it)
  <2>1. \A s \in SUBSET bucket : it[s] = Body(it)[s]
    <3> SUFFICES ASSUME NEW s \in SUBSET bucket
                 PROVE  it[s] = Body(it)[s]
      OBVIOUS
    <3>1. CASE s = {}
      BY <1>4, <3>1 DEF Recursion
    <3>2. CASE s # {}
      <4>1. it[s] = step[pick[s]][it[s \ {pick[s]}]]
        BY <1>4, <3>2 DEF Recursion
      <4>2. pick[s] \in bucket /\ it[s \ {pick[s]}] \in V
        BY <1>2, <3>2
      <4> QED
        BY <1>2, <1>3, <3>2, <4>1, <4>2
    <3> QED
      BY <3>1, <3>2
  <2> QED
    BY <2>1
<1>6. fold = Body(fold)
  BY <1>5
<1>7. AtTrade(loop, t, bucket) = fold[bucket]
  BY DEF AtTrade, MapThenFoldSet, Enter, init
<1> HIDE DEF fold
<1>8. fold[{}] = init
  BY <1>6
<1>9. ASSUME NEW s \in SUBSET bucket, s # {}
      PROVE  Visits(fold, t, s)
  <2>1. fold[s] = AtOrder(fold[s \ {Max(s)}], t, Max(s))
    BY <1>6, <1>9
  <2> QED
    BY <1>1, <1>9, <2>1 DEF Visits
<1>10. \A s \in SUBSET bucket : fold[s] \in V
  <2>1. ASSUME NEW s \in SUBSET bucket, s # {}
        PROVE  \E o \in s : fold[s \ {o}] \in V => fold[s] \in V
    BY <1>9, <2>1 DEF Visits
  <2>2. fold[{}] \in V
    BY <1>8 DEF init
  <2> QED
    BY <2>1, <2>2, RecursionStays
<1>11. fold \in [SUBSET bucket -> V]
  BY <1>6, <1>10
<1> QED
  BY <1>7, <1>8, <1>9, <1>11 DEF init

(* The outer loop at the trades of s, with one that no other is before     *)
(* after all the others.                                                   *)
Deals(iter, bucket, s) ==
  \E k \in s : /\ \A j \in s : ~Before(trades[k], trades[j])
               /\ iter[s] = AtTrade(iter[s \ {k}], trades[k], bucket)

TradeType == /\ hash \in [Sizes -> Nat]
             /\ trades \in Seq(Trades)

(* What the fields of a trade are.                                         *)
LEMMA TradeFields ==
  ASSUME TradeType, NEW k \in DOMAIN trades
  PROVE  /\ trades[k] \in Trades
         /\ trades[k].amount \in Sizes /\ trades[k].amount \in Nat /\ trades[k].amount > 0
         /\ trades[k].at \in Nat /\ trades[k].at \in 0..MaxTime
         /\ trades[k].bucket \in Buckets /\ trades[k].owner \in Orders \cup {Other, Stranger}
         /\ hash[trades[k].amount] \in Nat
         /\ k \in Nat
<1>1. trades[k] \in Trades /\ k \in Nat
  BY LenProperties, ElementOfSeq DEF TradeType
<1>2. /\ trades[k].amount \in Sizes /\ trades[k].at \in 0..MaxTime
      /\ trades[k].bucket \in Buckets /\ trades[k].owner \in Orders \cup {Other, Stranger}
  BY <1>1 DEF Trades
<1> QED
  BY <1>1, <1>2, Numbers, FillsAssumption DEF TradeType

(* Some trade of a set is dealt after all the others.                      *)
LEMMA LatestIsLast ==
  ASSUME TradeType, NEW M \in SUBSET (DOMAIN trades), IsFiniteSet(M)
  PROVE  \A s \in SUBSET M : s # {} =>
           Latest(s) \in s /\ \A j \in s : ~Before(trades[Latest(s)], trades[j])
<1> DEFINE Last(k, s) == \A j \in s : ~Before(trades[k], trades[j])
           U == {s \in SUBSET M : s # {} /\ ~\E k \in s : Last(k, s)}
<1>1. U = {}
  <2> SUFFICES ASSUME U # {}
               PROVE  FALSE
    OBVIOUS
  <2>1. PICK s \in U : \A x \in s : s \ {x} \notin U
    <3> HIDE DEF Last
    <3> QED
      BY SmallestSet
  <2>2. PICK x \in s : TRUE
    BY <2>1
  <2>3. CASE s \ {x} = {}
    <3>1. Last(x, s)
      BY <2>1, <2>2, <2>3, TradeFields DEF Before
    <3> QED
      BY <2>1, <3>1
  <2>4. CASE s \ {x} # {}
    <3>1. PICK k \in s \ {x} : Last(k, s \ {x})
      BY <2>1, <2>4
    <3>2. \A j \in s : /\ trades[j].at \in Nat /\ hash[trades[j].amount] \in Nat
      BY <2>1, TradeFields
    <3>3. CASE Before(trades[k], trades[x])
      <4>1. Last(x, s)
        BY <3>1, <3>2, <3>3 DEF Before
      <4> QED
        BY <2>1, <4>1
    <3>4. CASE ~Before(trades[k], trades[x])
      <4>1. Last(k, s)
        BY <3>1, <3>4
      <4> QED
        BY <2>1, <3>1, <4>1
    <3> QED
      BY <3>3, <3>4
  <2> QED
    BY <2>3, <2>4
<1>2. ASSUME NEW s \in SUBSET M, s # {}
      PROVE  \E k \in s : Last(k, s)
  BY <1>1, <1>2
<1> QED
  BY <1>2 DEF Latest

(* The loop over trades is a function of those dealt: one more, the latest, *)
(* for each.                                                               *)
LEMMA AtTradesUnfolds ==
  ASSUME TradeType, NEW M \in SUBSET (DOMAIN trades), IsFiniteSet(M), NEW bucket, NEW V,
         Start \in V,
         \A k \in M, l \in V : AtTrade(l, trades[k], bucket) \in V
  PROVE  \E iter \in [SUBSET M -> V] :
           /\ iter[{}] = Start
           /\ \A s \in SUBSET M : s # {} => Deals(iter, bucket, s)
           /\ AtTrades(bucket, M) = iter[M]
<1> DEFINE pick == [s \in SUBSET M |-> Latest(s)]
           step == [k \in M |-> [l \in V |-> AtTrade(l, trades[k], bucket)]]
           Body(it) == [s \in SUBSET M |-> IF s = {} THEN Start
                          ELSE AtTrade(it[s \ {Latest(s)}], trades[Latest(s)], bucket)]
           fold == CHOOSE it : it = Body(it)
<1>1. \A s \in SUBSET M : s # {} =>
        Latest(s) \in s /\ \A j \in s : ~Before(trades[Latest(s)], trades[j])
  BY LatestIsLast
<1>2. \A s \in SUBSET M : s # {} => pick[s] \in s /\ pick[s] = Latest(s)
  BY <1>1
<1>3. step \in [M -> [V -> V]]
      /\ \A k \in M, l \in V : step[k][l] = AtTrade(l, trades[k], bucket)
  OBVIOUS
<1> HIDE DEF pick, step
<1>4. PICK it \in [SUBSET M -> V] : Recursion(it, SUBSET M, Start, step, pick)
  BY <1>2, <1>3, RecursionSolved
<1>5. it = Body(it)
  <2>1. \A s \in SUBSET M : it[s] = Body(it)[s]
    <3> SUFFICES ASSUME NEW s \in SUBSET M
                 PROVE  it[s] = Body(it)[s]
      OBVIOUS
    <3>1. CASE s = {}
      BY <1>4, <3>1 DEF Recursion
    <3>2. CASE s # {}
      <4>1. it[s] = step[pick[s]][it[s \ {pick[s]}]]
        BY <1>4, <3>2 DEF Recursion
      <4>2. pick[s] \in M /\ it[s \ {pick[s]}] \in V
        BY <1>2, <3>2
      <4> QED
        BY <1>2, <1>3, <3>2, <4>1, <4>2
    <3> QED
      BY <3>1, <3>2
  <2> QED
    BY <2>1
<1>6. fold = Body(fold)
  BY <1>5
<1>7. AtTrades(bucket, M) = fold[M]
  BY DEF AtTrades, MapThenFoldSet
<1> HIDE DEF fold
<1>8. fold[{}] = Start
  BY <1>6
<1>9. ASSUME NEW s \in SUBSET M, s # {}
      PROVE  Deals(fold, bucket, s)
  <2>1. fold[s] = AtTrade(fold[s \ {Latest(s)}], trades[Latest(s)], bucket)
    BY <1>6, <1>9
  <2> QED
    BY <1>1, <1>9, <2>1 DEF Deals
<1>10. \A s \in SUBSET M : fold[s] \in V
  <2>1. ASSUME NEW s \in SUBSET M, s # {}
        PROVE  \E k \in s : fold[s \ {k}] \in V => fold[s] \in V
    BY <1>9, <2>1 DEF Deals
  <2>2. fold[{}] \in V
    BY <1>8
  <2> QED
    BY <2>1, <2>2, RecursionStays
<1>11. fold \in [SUBSET M -> V]
  BY <1>6, <1>10
<1> QED
  BY <1>7, <1>8, <1>9, <1>11

-----------------------------------------------------------------------------
(* What an allocation credits. *)

FillsType == /\ fills \in [Orders -> SUBSET Fills]
             /\ processed \in [Orders -> SUBSET Fingerprints]
             /\ \A o \in Orders : IsFiniteSet(fills[o])

(* A sum of amounts takes an amount more or less into account.             *)
LEMMA SumOfAmounts ==
  ASSUME NEW S, IsFiniteSet(S), \A f \in S : f.amount \in Nat
  PROVE  /\ SumOf(S) \in Nat
         /\ S = {} => SumOf(S) = 0
         /\ \A f \in S : SumOf(S) = f.amount + SumOf(S \ {f})
<1> DEFINE v == [f \in S |-> f.amount]
<1>1. \A f \in S : v[f] \in Nat /\ v[f] = f.amount
  OBVIOUS
<1>2. SumOf(S) = SumFunctionOnSet(v, S)
  BY DEF SumOf, SumFunction
<1>3. ASSUME NEW f \in S
      PROVE  SumOf(S \ {f}) = SumFunctionOnSet(v, S \ {f})
  <2> DEFINE w == [g \in S \ {f} |-> g.amount]
  <2>1. SumOf(S \ {f}) = SumFunctionOnSet(w, S \ {f})
    BY DEF SumOf, SumFunction
  <2>2. IsFiniteSet(S \ {f})
    BY FS_RemoveElement
  <2>3. \A x \in S \ {f} : w[x] \in Nat /\ w[x] = v[x]
    BY <1>1
  <2> HIDE DEF v, w
  <2> QED
    BY <2>1, <2>2, <2>3, SumAgrees
<1> HIDE DEF v
<1>4. /\ SumFunctionOnSet(v, S) \in Nat
      /\ S = {} => SumFunctionOnSet(v, S) = 0
      /\ \A f \in S : SumFunctionOnSet(v, S) = v[f] + SumFunctionOnSet(v, S \ {f})
  BY <1>1, SumTakesOut
<1> QED
  BY <1>1, <1>2, <1>3, <1>4

(* And so does a sum of fills.                                             *)
LEMMA SumOfFills ==
  ASSUME NEW S \in SUBSET Fills, IsFiniteSet(S)
  PROVE  /\ SumOf(S) \in Nat
         /\ S = {} => SumOf(S) = 0
         /\ \A f \in S : SumOf(S) = f.amount + SumOf(S \ {f})
<1>1. \A f \in S : f.amount \in Nat
  BY DEF Fills
<1> QED
  BY <1>1, SumOfAmounts

(* What an order executed and what remains of it.                          *)
LEMMA RemainingType ==
  ASSUME FillsType, NEW o \in Orders
  PROVE  /\ Executed(o) \in Nat /\ Remaining(o) \in Nat
         /\ Executed(o) <= Amount[o] => Executed(o) + Remaining(o) = Amount[o]
<1>1. Executed(o) \in Nat
  BY SumOfFills DEF FillsType, Executed
<1> QED
  BY <1>1, Numbers DEF Remaining

(* An update credits some of a trade of M to an order, no more than the    *)
(* trade has and the order lacks, and nothing that was processed.          *)
Credit(u, M) ==
  /\ \E k \in M : u.trade = Fingerprint(trades[k]) /\ u.amount <= trades[k].amount
  /\ u.amount <= Remaining(u.ord)
  /\ u.trade \notin processed[u.ord]

UpdatesOf(bucket) == [ord : bucket, trade : Fingerprints, amount : Nat]

Loops(bucket, M) ==
  {l \in [from : Nat, rest : Nat, stop : BOOLEAN, updates : SUBSET UpdatesOf(bucket)] :
     /\ IsFiniteSet(l.updates)
     /\ \A u \in l.updates : Credit(u, M)
     /\ \A u, v \in l.updates : u.ord = v.ord /\ u.trade = v.trade => u = v}

(* A pass of the inner loop at an order keeps the loop well-formed.        *)
LEMMA AtOrderStays ==
  ASSUME TradeType, FillsType, NEW bucket \in SUBSET Orders, NEW o \in bucket,
         NEW M \in SUBSET (DOMAIN trades), NEW k \in M,
         NEW l \in Loops(bucket, M), l.rest <= trades[k].amount
  PROVE  /\ AtOrder(l, trades[k], o) \in Loops(bucket, M)
         /\ AtOrder(l, trades[k], o).rest <= trades[k].amount
<1> DEFINE t == trades[k]
           n == FillAmount(o, l.rest)
           u == [ord |-> o, trade |-> Fingerprint(t), amount |-> n]
           pass == [from |-> IF n >= Remaining(o) THEN o + 1 ELSE o,
                    rest |-> l.rest - n, stop |-> FALSE, updates |-> l.updates \cup {u}]
<1>1. /\ l.from \in Nat /\ l.rest \in Nat /\ l.stop \in BOOLEAN
      /\ l.updates \in SUBSET UpdatesOf(bucket) /\ IsFiniteSet(l.updates)
      /\ l = [from |-> l.from, rest |-> l.rest, stop |-> l.stop, updates |-> l.updates]
  BY DEF Loops
<1>2. /\ \A w \in l.updates : Credit(w, M)
      /\ \A v, w \in l.updates : v.ord = w.ord /\ v.trade = w.trade => v = w
  BY DEF Loops
<1>3. o \in Nat /\ o + 1 \in Nat /\ Remaining(o) \in Nat
  <2>1. o \in Orders
    OBVIOUS
  <2>2. o \in Nat
    BY <2>1, Numbers
  <2>3. Remaining(o) \in Nat
    BY <2>1, RemainingType
  <2> QED
    BY <2>2, <2>3
<1>4. CASE AtOrder(l, t, o) = l
  BY <1>4
<1>5. CASE AtOrder(l, t, o) = [l EXCEPT !.stop = TRUE]
  <2>1. AtOrder(l, t, o) = [from |-> l.from, rest |-> l.rest, stop |-> TRUE,
                            updates |-> l.updates]
    BY <1>1, <1>5
  <2> QED
    BY <1>1, <1>2, <2>1 DEF Loops
<1>6. CASE AtOrder(l, t, o) = [l EXCEPT !.from = o + 1]
  <2>1. AtOrder(l, t, o) = [from |-> o + 1, rest |-> l.rest, stop |-> l.stop,
                            updates |-> l.updates]
    BY <1>1, <1>6
  <2> QED
    BY <1>1, <1>2, <1>3, <2>1 DEF Loops
<1>7. CASE ~Processed(l, t, o) /\ AtOrder(l, t, o) = pass
  <2>1. n \in Nat /\ n <= Remaining(o) /\ n <= l.rest /\ l.rest - n \in Nat /\ l.rest - n <= l.rest
    BY <1>1, <1>3 DEF FillAmount
  <2>2. t \in Trades /\ t.amount \in Nat
    BY TradeFields
  <2>3. Fingerprint(t) \in Fingerprints
    BY <2>2 DEF Fingerprint, Fingerprints, Trades
  <2>4. Fingerprint(t) \notin processed[o]
        /\ \A w \in l.updates : ~(w.ord = o /\ w.trade = Fingerprint(t))
    BY <1>7 DEF Processed
  <2>5. n <= t.amount
    BY <1>1, <2>1, <2>2
  <2> HIDE DEF n, t
  <2>6. u \in UpdatesOf(bucket)
    BY <2>1, <2>3 DEF UpdatesOf
  <2>7. Credit(u, M)
    BY <2>1, <2>4, <2>5 DEF Credit, t
  <2>8. IsFiniteSet(l.updates \cup {u})
    BY <1>1, FS_AddElement
  <2>9. \A v, w \in l.updates \cup {u} : v.ord = w.ord /\ v.trade = w.trade => v = w
    BY <1>2, <2>4
  <2>10. pass \in [from : Nat, rest : Nat, stop : BOOLEAN, updates : SUBSET UpdatesOf(bucket)]
    BY <1>1, <1>3, <2>1, <2>6
  <2>11. \A w \in pass.updates : Credit(w, M)
    BY <1>2, <2>7
  <2>12. pass \in Loops(bucket, M)
    BY <2>8, <2>9, <2>10, <2>11 DEF Loops
  <2>13. pass.rest <= t.amount
    BY <1>1, <2>1, <2>2 DEF t
  <2> QED
    BY <1>7, <2>12, <2>13 DEF t
<1> QED
  BY <1>4, <1>5, <1>6, <1>7 DEF AtOrder

(* The inner loop at a trade of M, order by order.                         *)
LEMMA AtTradeVisits ==
  ASSUME TradeType, FillsType, NEW bucket \in SUBSET Orders, IsFiniteSet(bucket),
         NEW M \in SUBSET (DOMAIN trades), NEW k \in M, NEW l \in Loops(bucket, M)
  PROVE  \E iter \in [SUBSET bucket -> Loops(bucket, M)] :
           /\ iter[{}] = Enter(l, trades[k])
           /\ \A s \in SUBSET bucket : s # {} => Visits(iter, trades[k], s)
           /\ AtTrade(l, trades[k], bucket) = iter[bucket]
<1> DEFINE V == {w \in Loops(bucket, M) : w.rest <= trades[k].amount}
           init == [l EXCEPT !.rest = trades[k].amount, !.stop = FALSE]
<1>1. trades[k].amount \in Nat
  BY TradeFields
<1>2. init \in V
  <2>1. /\ l \in [from : Nat, rest : Nat, stop : BOOLEAN, updates : SUBSET UpdatesOf(bucket)]
        /\ IsFiniteSet(l.updates)
        /\ \A u \in l.updates : Credit(u, M)
        /\ \A u, v \in l.updates : u.ord = v.ord /\ u.trade = v.trade => u = v
    BY DEF Loops
  <2>2. init \in [from : Nat, rest : Nat, stop : BOOLEAN, updates : SUBSET UpdatesOf(bucket)]
    BY <1>1, <2>1
  <2>3. init.updates = l.updates /\ init.rest = trades[k].amount
    BY <1>1, <2>1
  <2> HIDE DEF init
  <2> QED
    BY <1>1, <2>1, <2>2, <2>3 DEF Loops
<1>3. \A o \in bucket, w \in V : AtOrder(w, trades[k], o) \in V
  BY AtOrderStays
<1>4. bucket \in SUBSET Nat
  BY Numbers
<1>5. Enter(l, trades[k]) \in V
  BY <1>2 DEF Enter
<1>6. V \subseteq Loops(bucket, M)
  OBVIOUS
<1> HIDE DEF V, init
<1>7. PICK iter \in [SUBSET bucket -> V] :
        /\ iter[{}] = Enter(l, trades[k])
        /\ \A s \in SUBSET bucket : s # {} => Visits(iter, trades[k], s)
        /\ AtTrade(l, trades[k], bucket) = iter[bucket]
  BY <1>3, <1>4, <1>5, AtTradeUnfolds
<1>8. iter \in [SUBSET bucket -> Loops(bucket, M)]
  BY <1>6
<1> QED
  BY <1>7, <1>8

(* The outer loop over M, trade by trade.                                  *)
LEMMA AtTradesDeal ==
  ASSUME TradeType, FillsType, NEW bucket \in SUBSET Orders, IsFiniteSet(bucket),
         NEW M \in SUBSET (DOMAIN trades)
  PROVE  \E iter \in [SUBSET M -> Loops(bucket, M)] :
           /\ iter[{}] = Start
           /\ \A s \in SUBSET M : s # {} => Deals(iter, bucket, s)
           /\ AtTrades(bucket, M) = iter[M]
<1>1. Start \in Loops(bucket, M)
  BY FS_EmptySet DEF Start, Loops
<1>2. ASSUME NEW k \in M, NEW l \in Loops(bucket, M)
      PROVE  AtTrade(l, trades[k], bucket) \in Loops(bucket, M)
  <2>1. PICK iter \in [SUBSET bucket -> Loops(bucket, M)] :
          /\ iter[{}] = Enter(l, trades[k])
          /\ \A s \in SUBSET bucket : s # {} => Visits(iter, trades[k], s)
          /\ AtTrade(l, trades[k], bucket) = iter[bucket]
    BY AtTradeVisits
  <2> QED
    BY <2>1
<1>3. IsFiniteSet(M)
  <2>1. DOMAIN trades = 1..Len(trades) /\ Len(trades) \in Nat
    BY LenProperties DEF TradeType
  <2>2. IsFiniteSet(DOMAIN trades)
    BY <2>1, FS_Interval
  <2> QED
    BY <2>2, FS_Subset
<1> DEFINE V == Loops(bucket, M)
<1>4. Start \in V /\ \A k \in M, l \in V : AtTrade(l, trades[k], bucket) \in V
  BY <1>1, <1>2
<1> HIDE DEF V
<1>5. PICK iter \in [SUBSET M -> V] :
        /\ iter[{}] = Start
        /\ \A s \in SUBSET M : s # {} => Deals(iter, bucket, s)
        /\ AtTrades(bucket, M) = iter[M]
  BY <1>3, <1>4, AtTradesUnfolds
<1> QED
  BY <1>5 DEF V

(* The updates of an allocation credit trades to its orders, each to an    *)
(* order once.                                                             *)
LEMMA UpdatesCredit ==
  ASSUME TradeType, FillsType, NEW orders \in SUBSET Orders, IsFiniteSet(orders),
         NEW history \in SUBSET (DOMAIN trades)
  PROVE  /\ \A u \in Updates(orders, history) :
              /\ u \in UpdatesOf(orders)
              /\ Credit(u, Matching(history, BucketOf[u.ord], orders))
         /\ \A u, v \in Updates(orders, history) : u.ord = v.ord /\ u.trade = v.trade => u = v
         /\ \A o \in Orders : IsFiniteSet({u \in Updates(orders, history) : u.ord = o})
<1> DEFINE Peer(b) == Peers(orders, b)
           Match(b) == Matching(history, b, orders)
           All == Updates(orders, history)
<1>1. \A b : /\ Peer(b) \in SUBSET Orders /\ Peer(b) \in SUBSET orders
             /\ Match(b) \in SUBSET (DOMAIN trades)
  BY DEF Peers, Matching
<1>2. \A b : IsFiniteSet(Peer(b))
  BY <1>1, FS_Subset
<1>3. ASSUME NEW b \in Buckets
      PROVE  \/ BucketUpdates(orders, history, b) = {}
             \/ /\ AtTrades(Peer(b), Match(b)) \in Loops(Peer(b), Match(b))
                /\ BucketUpdates(orders, history, b) = AtTrades(Peer(b), Match(b)).updates
  <2>1. PICK iter \in [SUBSET Match(b) -> Loops(Peer(b), Match(b))] :
          AtTrades(Peer(b), Match(b)) = iter[Match(b)]
    BY <1>1, <1>2, AtTradesDeal
  <2>2. AtTrades(Peer(b), Match(b)) \in Loops(Peer(b), Match(b))
    BY <2>1
  <2> QED
    BY <2>2 DEF BucketUpdates
<1> HIDE DEF Peer, Match
<1>4. ASSUME NEW b \in Buckets
      PROVE  /\ BucketUpdates(orders, history, b) \in SUBSET UpdatesOf(Peer(b))
             /\ IsFiniteSet(BucketUpdates(orders, history, b))
             /\ \A u \in BucketUpdates(orders, history, b) : Credit(u, Match(b))
             /\ \A u, v \in BucketUpdates(orders, history, b) :
                  u.ord = v.ord /\ u.trade = v.trade => u = v
  <2>1. CASE BucketUpdates(orders, history, b) = {}
    BY <2>1, FS_EmptySet
  <2>2. CASE /\ AtTrades(Peer(b), Match(b)) \in Loops(Peer(b), Match(b))
             /\ BucketUpdates(orders, history, b) = AtTrades(Peer(b), Match(b)).updates
    BY <2>2 DEF Loops
  <2> QED
    BY <1>3, <2>1, <2>2
<1>5. ASSUME NEW u \in All
      PROVE  /\ u \in UpdatesOf(orders) /\ BucketOf[u.ord] \in Buckets
             /\ u \in BucketUpdates(orders, history, BucketOf[u.ord])
             /\ Credit(u, Match(BucketOf[u.ord]))
  <2>1. PICK b \in Buckets : u \in BucketUpdates(orders, history, b)
    BY DEF Updates
  <2>2. u \in UpdatesOf(Peer(b)) /\ Credit(u, Match(b))
    BY <1>4, <2>1
  <2>3. u.ord \in Peer(b)
    BY <2>2 DEF UpdatesOf
  <2>4. BucketOf[u.ord] = b
    BY <2>3 DEF Peer, Peers
  <2>5. u \in UpdatesOf(orders)
    BY <1>1, <2>2 DEF UpdatesOf
  <2> QED
    BY <2>1, <2>2, <2>4, <2>5
<1>6. ASSUME NEW u \in All, NEW v \in All, u.ord = v.ord, u.trade = v.trade
      PROVE  u = v
  BY <1>4, <1>5, <1>6
<1>7. ASSUME NEW o \in Orders
      PROVE  IsFiniteSet({u \in All : u.ord = o})
  <2>1. {u \in All : u.ord = o} \subseteq BucketUpdates(orders, history, BucketOf[o])
    BY <1>5
  <2>2. IsFiniteSet(BucketUpdates(orders, history, BucketOf[o]))
    BY <1>4, Numbers
  <2> QED
    BY <2>1, <2>2, FS_Subset
<1> QED
  BY <1>5, <1>6, <1>7 DEF Match

-----------------------------------------------------------------------------
(* Types. *)

OrderType == /\ left \in [Orders -> Nat] /\ \A o \in Orders : left[o] <= Amount[o]
             /\ now \in 0..MaxTime
             /\ createdAt \in [Orders -> 0..MaxTime]
             /\ listed \subseteq placed /\ placed \subseteq Orders /\ IsFiniteSet(placed)
             /\ poll \in [pc : {"idle", "history", "allocate"},
                          orders : SUBSET placed, history : SUBSET (DOMAIN trades)]
             /\ restarts \in 0..MaxRestarts

Types == TradeType /\ OrderType /\ FillsType

(* What an allocation does to the fills and the processed trades: a new    *)
(* fill of a listed order is of an update that credits it.                 *)
LEMMA AllocateCredits ==
  ASSUME Types, Allocate
  PROVE  /\ fills' \in [Orders -> SUBSET Fills]
         /\ processed' \in [Orders -> SUBSET Fingerprints]
         /\ \A o \in Orders :
              /\ fills[o] \subseteq fills'[o] /\ IsFiniteSet(fills'[o])
              /\ \A f \in fills'[o] \ fills[o] :
                   /\ o \in listed /\ o \in poll.orders
                   /\ [ord |-> o, trade |-> f.trade, amount |-> f.amount]
                        \in Updates(poll.orders, poll.history)
                   /\ Credit([ord |-> o, trade |-> f.trade, amount |-> f.amount],
                             Matching(poll.history, BucketOf[o], poll.orders))
                   /\ \A g \in fills'[o] : g.trade = f.trade => g = f
<1> DEFINE all == Updates(poll.orders, poll.history)
           new(o) == {v \in all : v.ord = o /\ \A f \in fills[o] : f.trade # v.trade}
           made(o) == {[trade |-> u.trade, amount |-> u.amount] : u \in new(o)}
<1>1. /\ fills' = [o \in Orders |-> IF o \notin listed THEN fills[o] ELSE fills[o] \cup made(o)]
      /\ processed' = [o \in Orders |->
                           processed[o] \cup {u.trade : u \in {v \in all : v.ord = o}}]
  BY DEF Allocate, Apply
<1>2. poll.orders \in SUBSET Orders /\ IsFiniteSet(poll.orders)
      /\ poll.history \in SUBSET (DOMAIN trades)
  BY FS_Subset DEF Types, OrderType
<1>3. /\ \A u \in all : /\ u \in UpdatesOf(poll.orders)
                        /\ Credit(u, Matching(poll.history, BucketOf[u.ord], poll.orders))
      /\ \A u, v \in all : u.ord = v.ord /\ u.trade = v.trade => u = v
      /\ \A o \in Orders : IsFiniteSet({u \in all : u.ord = o})
  BY <1>2, UpdatesCredit DEF Types
<1> HIDE DEF all
<1>4. \A u \in all : /\ u = [ord |-> u.ord, trade |-> u.trade, amount |-> u.amount]
                     /\ u.ord \in poll.orders /\ u.trade \in Fingerprints /\ u.amount \in Nat
  BY <1>3 DEF UpdatesOf
<1>5. \A o \in Orders : made(o) \in SUBSET Fills
  BY <1>4 DEF Fills
<1>6. ASSUME NEW o \in Orders
      PROVE  IsFiniteSet(made(o))
  <2>1. IsFiniteSet(new(o))
    <3>1. new(o) \subseteq {u \in all : u.ord = o} /\ IsFiniteSet({u \in all : u.ord = o})
      BY <1>3
    <3> QED
      BY <3>1, FS_Subset
  <2> DEFINE image == [u \in new(o) |-> [trade |-> u.trade, amount |-> u.amount]]
  <2>2. image \in Surjection(new(o), made(o))
    BY DEF Surjection
  <2> HIDE DEF image, new, made
  <2> QED
    BY <2>1, <2>2, FS_Surjection
<1>7. fills' \in [Orders -> SUBSET Fills]
  BY <1>1, <1>5 DEF Types, FillsType
<1>8. processed' \in [Orders -> SUBSET Fingerprints]
  BY <1>1, <1>4 DEF Types, FillsType
<1>9. ASSUME NEW o \in Orders
      PROVE  fills[o] \subseteq fills'[o] /\ IsFiniteSet(fills'[o])
  <2>1. IsFiniteSet(fills[o] \cup made(o)) /\ IsFiniteSet(fills[o])
    <3> HIDE DEF made
    <3> QED
      BY <1>6, FS_Union DEF Types, FillsType
  <2> HIDE DEF made
  <2> QED
    BY <1>1, <2>1
<1>10. ASSUME NEW o \in Orders, NEW f \in fills'[o] \ fills[o]
       PROVE  /\ o \in listed /\ o \in poll.orders
              /\ [ord |-> o, trade |-> f.trade, amount |-> f.amount] \in all
              /\ Credit([ord |-> o, trade |-> f.trade, amount |-> f.amount],
                        Matching(poll.history, BucketOf[o], poll.orders))
              /\ \A g \in fills'[o] : g.trade = f.trade => g = f
  <2>1. o \in listed /\ f \in made(o) /\ fills'[o] = fills[o] \cup made(o)
    BY <1>1
  <2>2. PICK u \in new(o) : f = [trade |-> u.trade, amount |-> u.amount]
    BY <2>1
  <2>3. f.trade = u.trade /\ f.amount = u.amount
    BY <2>2
  <2>4. u \in all /\ u.ord = o /\ \A g \in fills[o] : g.trade # u.trade
    OBVIOUS
  <2>5. u = [ord |-> o, trade |-> f.trade, amount |-> f.amount]
    BY <1>4, <2>3, <2>4
  <2>6. Credit(u, Matching(poll.history, BucketOf[o], poll.orders)) /\ o \in poll.orders
    BY <1>3, <1>4, <2>4
  <2>7. ASSUME NEW g \in fills'[o], g.trade = f.trade
        PROVE  g = f
    <3>1. g \in made(o)
      BY <2>1, <2>3, <2>4, <2>7
    <3>2. PICK v \in new(o) : g = [trade |-> v.trade, amount |-> v.amount]
      BY <3>1
    <3>3. v \in all /\ v.ord = o /\ v.trade = u.trade
      BY <2>3, <2>7, <3>2
    <3>4. v = u
      BY <1>3, <2>4, <3>3
    <3> QED
      BY <2>2, <3>2, <3>4
  <2> QED
    BY <2>1, <2>4, <2>5, <2>6, <2>7
<1> QED
  BY <1>7, <1>8, <1>9, <1>10 DEF all

(* Positions stay positions when a trade is made, and a trade is one.      *)
LEMMA ExecuteTypes ==
  ASSUME Types, NEW owner \in Orders \cup {Other, Stranger}, NEW b \in Buckets, NEW n \in Sizes,
         Execute(owner, b, n)
  PROVE  /\ trades' \in Seq(Trades) /\ DOMAIN trades \subseteq DOMAIN trades'
         /\ \A k \in DOMAIN trades : trades'[k] = trades[k]
         /\ DOMAIN trades' = DOMAIN trades \cup {Len(trades) + 1}
         /\ Len(trades) + 1 \notin DOMAIN trades
         /\ trades'[Len(trades) + 1] = [owner |-> owner, bucket |-> b, amount |-> n, at |-> now]
<1> DEFINE t == [owner |-> owner, bucket |-> b, amount |-> n, at |-> now]
<1>1. t \in Trades
  BY DEF Types, OrderType, Trades
<1>2. trades \in Seq(Trades) /\ DOMAIN trades = 1..Len(trades) /\ Len(trades) \in Nat
  BY LenProperties DEF Types, TradeType
<1>3. trades' = Append(trades, t)
  BY DEF Execute
<1> HIDE DEF t
<1>4. /\ trades' \in Seq(Trades) /\ Len(trades') = Len(trades) + 1
      /\ \A k \in 1..Len(trades) : trades'[k] = trades[k]
      /\ trades'[Len(trades) + 1] = t
  BY <1>1, <1>2, <1>3, AppendProperties
<1>5. DOMAIN trades' = 1..(Len(trades) + 1)
  BY <1>4, LenProperties
<1> QED
  BY <1>2, <1>4, <1>5 DEF t

(* A step keeps the types.                                                 *)
LEMMA TypesStay ==
  ASSUME Types, [Next]_vars
  PROVE  Types'
<1> USE DEF Types
<1>1. CASE StartPoll
  <2>1. poll' \in [pc : {"idle", "history", "allocate"},
                   orders : SUBSET placed', history : SUBSET (DOMAIN trades')]
    BY <1>1 DEF StartPoll, OrderType, chain, tracker
  <2> QED
    BY <1>1, <2>1 DEF StartPoll, TradeType, OrderType, FillsType, chain, tracker
<1>2. CASE ReadHistory
  <2>1. LastTrades(HistoryLimit) \in SUBSET (DOMAIN trades)
    BY DEF LastTrades, Shown
  <2>2. poll' \in [pc : {"idle", "history", "allocate"},
                   orders : SUBSET placed', history : SUBSET (DOMAIN trades')]
    BY <1>2, <2>1 DEF ReadHistory, OrderType, chain, tracker
  <2> QED
    BY <1>2, <2>2 DEF ReadHistory, TradeType, OrderType, FillsType, chain, tracker
<1>3. CASE Allocate
  <2>1. FillsType'
    BY <1>3, AllocateCredits DEF FillsType
  <2>2. poll' \in [pc : {"idle", "history", "allocate"},
                   orders : SUBSET placed', history : SUBSET (DOMAIN trades')]
    BY <1>3 DEF Allocate, Idle
  <2> QED
    BY <1>3, <2>1, <2>2 DEF Allocate, TradeType, OrderType, chain
<1>4. CASE PollFails
  <2>1. poll' \in [pc : {"idle", "history", "allocate"},
                   orders : SUBSET placed', history : SUBSET (DOMAIN trades')]
    BY <1>4 DEF PollFails, Idle
  <2> QED
    BY <1>4, <2>1 DEF PollFails, TradeType, OrderType, FillsType, chain, tracker
<1>5. ASSUME NEW o \in Orders, Place(o)
      PROVE  Types'
  <2>1. IsFiniteSet(placed') /\ placed' = placed \cup {o}
    BY <1>5, FS_AddElement DEF Place, OrderType
  <2>2. poll' \in [pc : {"idle", "history", "allocate"},
                   orders : SUBSET placed', history : SUBSET (DOMAIN trades')]
    BY <1>5, <2>1 DEF Place, OrderType
  <2>3. left' \in [Orders -> Nat] /\ \A q \in Orders : left'[q] <= Amount[q]
    BY <1>5, Numbers DEF Place, OrderType
  <2> QED
    BY <1>5, <2>1, <2>2, <2>3 DEF Place, TradeType, OrderType, FillsType
<1>6. ASSUME NEW o \in Orders, Trade(o)
      PROVE  Types'
  <2>1. PICK n \in Sizes : /\ n <= left[o] /\ left' = [left EXCEPT ![o] = left[o] - n]
                           /\ Execute(o, BucketOf[o], n)
    BY <1>6 DEF Trade
  <2>2. trades' \in Seq(Trades) /\ DOMAIN trades \subseteq DOMAIN trades'
    BY <2>1, Numbers, ExecuteTypes
  <2>3. left' \in [Orders -> Nat] /\ \A q \in Orders : left'[q] <= Amount[q]
    BY <2>1, Numbers DEF OrderType
  <2>4. poll' \in [pc : {"idle", "history", "allocate"},
                   orders : SUBSET placed', history : SUBSET (DOMAIN trades')]
    BY <2>1, <2>2 DEF Execute, tracker, OrderType
  <2> QED
    BY <2>1, <2>2, <2>3, <2>4 DEF Execute, tracker, TradeType, OrderType, FillsType
<1>7. CASE OtherTrade
  <2>1. PICK who \in {Other, Stranger}, b \in Buckets, n \in Sizes :
          Execute(who, b, n) /\ UNCHANGED left
    BY <1>7 DEF OtherTrade
  <2>2. trades' \in Seq(Trades) /\ DOMAIN trades \subseteq DOMAIN trades'
    BY <2>1, ExecuteTypes
  <2>3. poll' \in [pc : {"idle", "history", "allocate"},
                   orders : SUBSET placed', history : SUBSET (DOMAIN trades')]
    BY <2>1, <2>2 DEF Execute, tracker, OrderType
  <2> QED
    BY <2>1, <2>2, <2>3 DEF Execute, tracker, TradeType, OrderType, FillsType
<1>8. ASSUME NEW o \in Orders, Cancel(o)
      PROVE  Types'
  <2>1. left' \in [Orders -> Nat] /\ \A q \in Orders : left'[q] <= Amount[q]
    BY <1>8, Numbers DEF Cancel, OrderType
  <2> QED
    BY <1>8, <2>1 DEF Cancel, tracker, TradeType, OrderType, FillsType
<1>9. ASSUME NEW o \in Orders, Drop(o)
      PROVE  Types'
  BY <1>9 DEF Drop, chain, TradeType, OrderType, FillsType
<1>10. CASE Tick
  BY <1>10, FillsAssumption DEF Tick, tracker, TradeType, OrderType, FillsType
<1>11. CASE Restart
  <2>1. poll' \in [pc : {"idle", "history", "allocate"},
                   orders : SUBSET placed', history : SUBSET (DOMAIN trades')]
    BY <1>11 DEF Restart, Idle
  <2>2. restarts' \in 0..MaxRestarts
    BY <1>11, FillsAssumption DEF Restart, OrderType
  <2> QED
    BY <1>11, <2>1, <2>2 DEF Restart, chain, TradeType, OrderType, FillsType
<1>12. CASE UNCHANGED vars
  BY <1>12 DEF vars, chain, tracker, TradeType, OrderType, FillsType
<1> QED
  BY <1>1, <1>2, <1>3, <1>4, <1>5, <1>6, <1>7, <1>8, <1>9, <1>10, <1>11, <1>12 DEF Next

(* Every variable keeps its type, the orders placed and the fills of each  *)
(* are finitely many.                                                      *)
LEMMA TypesInductive == Spec => []Types
<1>1. Init => Types
  <2> SUFFICES ASSUME Init
               PROVE  Types
    OBVIOUS
  <2>1. TradeType
    <3>1. Cardinality(Sizes) \in Nat
      BY FillsAssumption, FS_CardinalityType
    <3>2. hash \in [Sizes -> Nat]
      BY <3>1 DEF Init
    <3> QED
      BY <3>2, EmptySeq DEF Init, TradeType
  <2>2. poll \in [pc : {"idle", "history", "allocate"},
                  orders : SUBSET placed, history : SUBSET (DOMAIN trades)]
    BY DEF Init, Idle
  <2>3. OrderType
    BY <2>2, Numbers, FillsAssumption, FS_EmptySet DEF Init, OrderType
  <2>4. FillsType
    BY FS_EmptySet DEF Init, FillsType
  <2> QED
    BY <2>1, <2>3, <2>4 DEF Types
<1> QED
  BY <1>1, TypesStay, PTL DEF Spec

(* Every variable keeps its type, through polls, trades and restarts.      *)
THEOREM TypesHold == Spec => []TypeOK
<1>1. Types => TypeOK
  BY DEF Types, TradeType, OrderType, FillsType, TypeOK
<1> QED
  BY <1>1, TypesInductive, PTL

-----------------------------------------------------------------------------
(* Which trades are credited. *)

(* An order stays where it is: only one that was not placed is dated.      *)
LEMMA PlacedStays ==
  ASSUME Types, [Next]_vars
  PROVE  /\ placed \subseteq placed'
         /\ \A o \in placed : createdAt'[o] = createdAt[o]
<1>1. ASSUME NEW o \in Orders, Place(o)
      PROVE  placed \subseteq placed' /\ \A q \in placed : createdAt'[q] = createdAt[q]
  BY <1>1 DEF Place, Types, OrderType
<1>2. CASE UNCHANGED <<placed, createdAt>>
  BY <1>2
<1>3. CASE StartPoll \/ ReadHistory \/ PollFails \/ Allocate \/ Tick \/ Restart \/ UNCHANGED vars
  BY <1>2, <1>3 DEF StartPoll, ReadHistory, PollFails, Allocate, Tick, Restart, vars, tracker
<1>4. ASSUME NEW o \in Orders, Trade(o) \/ Cancel(o) \/ Drop(o)
      PROVE  UNCHANGED <<placed, createdAt>>
  BY <1>4 DEF Trade, Cancel, Drop, Execute, tracker
<1>5. CASE OtherTrade
  BY <1>2, <1>5 DEF OtherTrade, Execute, tracker
<1> QED
  BY <1>1, <1>2, <1>3, <1>4, <1>5 DEF Next

(* Only an allocation gives an order a fill.                               *)
LEMMA OnlyAllocateFills ==
  ASSUME [Next]_vars
  PROVE  Allocate \/ fills' = fills
<1>1. CASE StartPoll \/ ReadHistory \/ PollFails \/ Tick \/ Restart \/ UNCHANGED vars
  BY <1>1 DEF StartPoll, ReadHistory, PollFails, Tick, Restart, vars, tracker
<1>2. ASSUME NEW o \in Orders, Place(o) \/ Trade(o) \/ Cancel(o) \/ Drop(o)
      PROVE  fills' = fills
  BY <1>2 DEF Place, Trade, Cancel, Drop, Execute, tracker
<1>3. CASE OtherTrade
  BY <1>3 DEF OtherTrade, Execute, tracker
<1> QED
  BY <1>1, <1>2, <1>3 DEF Next

(* The oldest order of a bucket is not younger than any order there.       *)
LEMMA OldestPeer ==
  ASSUME Types, NEW o \in poll.orders
  PROVE  LET q == Min(Peers(poll.orders, BucketOf[o]))
         IN  q \in placed /\ BucketOf[q] = BucketOf[o] /\ q <= o
<1> DEFINE P == Peers(poll.orders, BucketOf[o])
<1>1. P \in SUBSET Nat /\ o \in P /\ \A q \in P : q \in placed /\ BucketOf[q] = BucketOf[o]
  BY Numbers DEF Peers, Types, OrderType
<1> HIDE DEF P
<1>2. \E q \in P : \A x \in P : q <= x
  BY <1>1, LeastNumber
<1>3. Min(P) \in P /\ \A x \in P : Min(P) <= x
  BY <1>2 DEF Min
<1> QED
  BY <1>1, <1>3 DEF P

(* No fill is older than the oldest order that shares its bucket's trades: *)
(* an order is credited with a trade older than itself only next to an     *)
(* older order at its price that was there in time.                        *)
THEOREM NoEarlyFills == Spec => []FillsFollowBucket
<1>1. Init => FillsFollowBucket
  BY DEF Init, FillsFollowBucket
<1>2. Types /\ FillsFollowBucket /\ [Next]_vars => FillsFollowBucket'
  <2> SUFFICES ASSUME Types, FillsFollowBucket, [Next]_vars,
                      NEW o \in Orders, NEW f \in fills'[o]
               PROVE  \E q \in placed' : /\ BucketOf[q] = BucketOf[o] /\ q <= o
                                         /\ createdAt'[q] <= f.trade.at
    BY DEF FillsFollowBucket
  <2>1. placed \subseteq placed' /\ \A q \in placed : createdAt'[q] = createdAt[q]
    BY PlacedStays
  <2>2. CASE f \in fills[o]
    BY <2>1, <2>2 DEF FillsFollowBucket
  <2>3. CASE f \notin fills[o]
    <3> DEFINE q == Min(Peers(poll.orders, BucketOf[o]))
    <3>1. Allocate
      BY <2>3, OnlyAllocateFills
    <3>2. /\ o \in poll.orders
          /\ Credit([ord |-> o, trade |-> f.trade, amount |-> f.amount],
                    Matching(poll.history, BucketOf[o], poll.orders))
      BY <2>3, <3>1, AllocateCredits
    <3>3. PICK k \in Matching(poll.history, BucketOf[o], poll.orders) :
            f.trade = Fingerprint(trades[k])
      BY <3>2 DEF Credit
    <3>4. trades[k].at >= createdAt[q]
      BY <3>3 DEF Matching, Matches
    <3>5. q \in placed /\ BucketOf[q] = BucketOf[o] /\ q <= o
      BY <3>2, OldestPeer
    <3>6. createdAt[q] \in Nat /\ trades[k].at \in Nat
      <4>1. k \in DOMAIN trades
        BY <3>3 DEF Matching, Types, OrderType
      <4>2. createdAt[q] \in 0..MaxTime
        BY <3>5 DEF Types, OrderType
      <4> QED
        BY <4>1, <4>2, TradeFields DEF Types
    <3> HIDE DEF q
    <3>7. f.trade.at = trades[k].at
      BY <3>3 DEF Fingerprint
    <3> QED
      BY <2>1, <3>4, <3>5, <3>6, <3>7
  <2> QED
    BY <2>2, <2>3
<1> QED
  BY <1>1, <1>2, TypesInductive, PTL DEF Spec

(* An allocation that gives an order one fill does not bring it beyond its *)
(* amount, whatever the trade was; nothing else gives it any.              *)
THEOREM OneTradeNeverOverfills == Spec => OneTradeWithinAmount
<1>1. ASSUME Types, [Next]_vars, NEW o \in Orders,
             Executed(o) <= Amount[o], Cardinality(fills'[o] \ fills[o]) = 1
      PROVE  Executed(o)' <= Amount[o]
  <2>1. CASE fills' = fills
    BY <1>1, <2>1 DEF Executed
  <2>2. CASE Allocate
    <3>1. /\ fills[o] \subseteq fills'[o] /\ IsFiniteSet(fills'[o])
          /\ fills'[o] \in SUBSET Fills
          /\ \A f \in fills'[o] \ fills[o] :
               Credit([ord |-> o, trade |-> f.trade, amount |-> f.amount],
                      Matching(poll.history, BucketOf[o], poll.orders))
      BY <1>1, <2>2, AllocateCredits
    <3>2. IsFiniteSet(fills'[o] \ fills[o])
      BY <3>1, FS_Subset
    <3>3. PICK f : fills'[o] \ fills[o] = {f}
      BY <1>1, <3>2, FS_Singleton
    <3>4. f \in fills'[o] /\ fills'[o] \ {f} = fills[o]
      BY <3>1, <3>3
    <3>5. SumOf(fills'[o]) = f.amount + SumOf(fills[o])
      BY <3>1, <3>4, SumOfFills
    <3>6. f.amount <= Remaining(o)
      BY <3>1, <3>3 DEF Credit
    <3>7. Executed(o)' = SumOf(fills'[o]) /\ Executed(o) = SumOf(fills[o])
      BY DEF Executed
    <3>8. Executed(o) \in Nat /\ Executed(o) + Remaining(o) = Amount[o] /\ Remaining(o) \in Nat
      BY <1>1, RemainingType DEF Types
    <3>9. f.amount \in Nat
      BY <3>1, <3>4 DEF Fills
    <3> QED
      BY <3>5, <3>6, <3>7, <3>8, <3>9, Numbers
  <2> QED
    BY <1>1, <2>1, <2>2, OnlyAllocateFills
<1>2. Types /\ [Next]_vars =>
        [\A o \in Orders : Executed(o) <= Amount[o] /\ Cardinality(fills'[o] \ fills[o]) = 1
                           => Executed(o)' <= Amount[o]]_vars
  BY <1>1
<1> QED
  BY <1>2, TypesInductive, PTL DEF Spec, OneTradeWithinAmount

-----------------------------------------------------------------------------
(* Credits and what was traded. *)

(* A trade stays where it is.                                              *)
LEMMA TradesStay ==
  ASSUME Types, [Next]_vars
  PROVE  /\ DOMAIN trades \subseteq DOMAIN trades'
         /\ \A k \in DOMAIN trades : trades'[k] = trades[k]
<1>1. CASE UNCHANGED trades
  BY <1>1
<1>2. CASE StartPoll \/ ReadHistory \/ PollFails \/ Allocate \/ Tick \/ Restart \/ UNCHANGED vars
  BY <1>1, <1>2 DEF StartPoll, ReadHistory, PollFails, Allocate, Tick, Restart, vars, chain
<1>3. ASSUME NEW o \in Orders, Place(o) \/ Cancel(o) \/ Drop(o)
      PROVE  UNCHANGED trades
  BY <1>3 DEF Place, Cancel, Drop, chain
<1>4. ASSUME NEW o \in Orders, Trade(o)
      PROVE  /\ DOMAIN trades \subseteq DOMAIN trades'
             /\ \A k \in DOMAIN trades : trades'[k] = trades[k]
  BY <1>4, Numbers, ExecuteTypes DEF Trade
<1>5. CASE OtherTrade
  BY <1>5, ExecuteTypes DEF OtherTrade
<1> QED
  BY <1>1, <1>2, <1>3, <1>4, <1>5 DEF Next

(* The trade at k is what the fill f is of, and has its amount.            *)
Backs(k, f) == Fingerprint(trades[k]) = f.trade /\ f.amount <= trades[k].amount

(* Each fill of an order is of a trade at its bucket, a trade its only one. *)
BackedInv ==
  \A o \in Orders : \A f \in fills[o] :
    /\ \E k \in DOMAIN trades : /\ trades[k].owner # Stranger /\ trades[k].bucket = BucketOf[o]
                                /\ Backs(k, f)
    /\ \A g \in fills[o] : g.trade = f.trade => g = f

(* Only an allocation adds fills, and each is of an update that credits.   *)
LEMMA BackedInductive == Spec => []BackedInv
<1>1. Init => BackedInv
  BY DEF Init, BackedInv
<1>2. Types /\ BackedInv /\ [Next]_vars => BackedInv'
  <2> SUFFICES ASSUME Types, BackedInv, [Next]_vars, NEW o \in Orders, NEW f \in fills'[o]
               PROVE  /\ \E k \in DOMAIN trades' : /\ trades'[k].owner # Stranger
                                                   /\ trades'[k].bucket = BucketOf[o]
                                                   /\ Backs(k, f)'
                      /\ \A g \in fills'[o] : g.trade = f.trade => g = f
    BY DEF BackedInv
  <2>1. /\ DOMAIN trades \subseteq DOMAIN trades'
        /\ \A k \in DOMAIN trades : trades'[k] = trades[k]
    BY TradesStay
  <2>2. \A k \in DOMAIN trades : Backs(k, f) => Backs(k, f)'
    BY <2>1 DEF Backs
  <2>3. SUFFICES /\ \E k \in DOMAIN trades : /\ trades[k].owner # Stranger
                                             /\ trades[k].bucket = BucketOf[o] /\ Backs(k, f)
                 /\ \A g \in fills'[o] : g.trade = f.trade => g = f
    BY <2>1, <2>2
  <2>4. CASE f \notin fills[o]
    <3>1. /\ Credit([ord |-> o, trade |-> f.trade, amount |-> f.amount],
                    Matching(poll.history, BucketOf[o], poll.orders))
          /\ \A g \in fills'[o] : g.trade = f.trade => g = f
      BY <2>4, OnlyAllocateFills, AllocateCredits
    <3>2. PICK k \in Matching(poll.history, BucketOf[o], poll.orders) : Backs(k, f)
      BY <3>1 DEF Credit, Backs
    <3>3. k \in DOMAIN trades /\ trades[k].owner # Stranger /\ trades[k].bucket = BucketOf[o]
      BY <3>2 DEF Matching, Matches, Types, OrderType
    <3> QED
      BY <3>1, <3>2, <3>3
  <2>5. CASE f \in fills[o]
    <3>1. ASSUME NEW g \in fills'[o], g.trade = f.trade
          PROVE  g = f
      <4>1. CASE g \in fills[o]
        BY <2>5, <3>1, <4>1 DEF BackedInv
      <4>2. CASE g \notin fills[o]
        <5>1. f \in fills'[o] /\ \A h \in fills'[o] : h.trade = g.trade => h = g
          BY <4>2, OnlyAllocateFills, AllocateCredits
        <5> QED
          BY <3>1, <5>1
      <4> QED
        BY <4>1, <4>2
    <3> QED
      BY <2>5, <3>1 DEF BackedInv
  <2> QED
    BY <2>4, <2>5
<1> QED
  BY <1>1, <1>2, TypesInductive, PTL DEF Spec

(* Fills of different trades that o made sum up to no more than it traded. *)
LEMMA FillsWithinTraded ==
  ASSUME TradeType, NEW o \in Orders, NEW F \in SUBSET Fills, IsFiniteSet(F),
         \A f, g \in F : f.trade = g.trade => f = g,
         \A f \in F : \E k \in DOMAIN trades : trades[k].owner = o /\ Backs(k, f)
  PROVE  SumOf(F) <= Traded(o) /\ Traded(o) \in Nat
<1> DEFINE mine == {j \in DOMAIN trades : trades[j].owner = o}
           v == [f \in F |-> f.amount]
           w == [k \in mine |-> trades[k].amount]
           of == [f \in F |-> CHOOSE k \in mine : Backs(k, f)]
<1>1. \A f \in F : of[f] \in mine /\ Backs(of[f], f)
  OBVIOUS
<1>2. IsFiniteSet(mine)
  <2>1. DOMAIN trades = 1..Len(trades) /\ Len(trades) \in Nat
    BY LenProperties DEF TradeType
  <2>2. IsFiniteSet(DOMAIN trades) /\ mine \in SUBSET (DOMAIN trades)
    BY <2>1, FS_Interval
  <2> HIDE DEF mine
  <2> QED
    BY <2>2, FS_Subset
<1>3. \A k \in mine : w[k] = trades[k].amount /\ w[k] \in Nat
  BY TradeFields
<1>4. \A f \in F : v[f] = f.amount /\ v[f] \in Nat
  BY DEF Fills
<1>5. SumOf(F) = SumFunctionOnSet(v, F) /\ Traded(o) = SumFunctionOnSet(w, mine)
  BY DEF SumOf, Traded, SumFunction
<1>6. of \in [F -> mine]
  BY <1>1
<1> HIDE DEF mine, v, w, of
<1>7. \A f \in F : v[f] <= w[of[f]]
  BY <1>1, <1>3, <1>4 DEF Backs
<1>8. \A f, g \in F : of[f] = of[g] => f = g
  BY <1>1 DEF Backs
<1>9. SumFunctionOnSet(v, F) <= SumFunctionOnSet(w, mine)
  BY <1>2, <1>3, <1>4, <1>6, <1>7, <1>8, SumInjects
<1>10. SumFunctionOnSet(w, mine) \in Nat
  BY <1>2, <1>3, SumTakesOut
<1> QED
  BY <1>5, <1>9, <1>10

(* An order whose bucket no other order of the account traded at is never  *)
(* credited more than it traded, over any polls and restarts.              *)
THEOREM SoleOrderWithinTraded == Spec => []SoleOrderNotOvercredited
<1>1. ASSUME Types, BackedInv, NEW o \in Orders, Sole(o)
      PROVE  Executed(o) <= Traded(o)
  <2>1. fills[o] \in SUBSET Fills /\ IsFiniteSet(fills[o])
    BY <1>1 DEF Types, FillsType
  <2>2. \A f, g \in fills[o] : f.trade = g.trade => f = g
    BY <1>1 DEF BackedInv
  <2>3. \A f \in fills[o] : \E k \in DOMAIN trades : trades[k].owner = o /\ Backs(k, f)
    BY <1>1 DEF BackedInv, Sole
  <2> QED
    BY <1>1, <2>1, <2>2, <2>3, FillsWithinTraded DEF Executed, Types
<1>2. Types /\ BackedInv => SoleOrderNotOvercredited
  BY <1>1 DEF SoleOrderNotOvercredited
<1> QED
  BY <1>2, TypesInductive, BackedInductive, PTL

-----------------------------------------------------------------------------
(* What an order trades is its own. *)

OwnInv ==
  /\ \A o \in Orders : Traded(o) + left[o] <= Amount[o]
  /\ \A o \in placed : createdAt[o] <= now
  /\ \A o \in Orders : o \notin placed => left[o] = 0
  /\ \A k \in DOMAIN trades, o \in Orders :
       trades[k].owner = o => /\ o \in placed /\ trades[k].bucket = BucketOf[o]
                              /\ createdAt[o] <= trades[k].at

(* What an order traded.                                                   *)
LEMMA TradedType ==
  ASSUME TradeType, NEW o \in Orders
  PROVE  /\ Traded(o) \in Nat
         /\ (\A k \in DOMAIN trades : trades[k].owner # o) => Traded(o) = 0
<1> DEFINE mine == {j \in DOMAIN trades : trades[j].owner = o}
           w == [k \in mine |-> trades[k].amount]
<1>1. IsFiniteSet(mine)
  <2>1. DOMAIN trades = 1..Len(trades) /\ Len(trades) \in Nat
    BY LenProperties DEF TradeType
  <2>2. IsFiniteSet(DOMAIN trades) /\ mine \in SUBSET (DOMAIN trades)
    BY <2>1, FS_Interval
  <2> HIDE DEF mine
  <2> QED
    BY <2>2, FS_Subset
<1>2. \A k \in mine : w[k] \in Nat
  BY TradeFields
<1>3. Traded(o) = SumFunctionOnSet(w, mine)
  BY DEF Traded, SumFunction
<1>4. (\A k \in DOMAIN trades : trades[k].owner # o) => mine = {}
  OBVIOUS
<1> HIDE DEF mine, w
<1>5. SumFunctionOnSet(w, mine) \in Nat /\ (mine = {} => SumFunctionOnSet(w, mine) = 0)
  BY <1>1, <1>2, SumTakesOut
<1> QED
  BY <1>3, <1>4, <1>5

(* A trade adds its amount to what its owner traded.                       *)
LEMMA TradedAdds ==
  ASSUME Types, NEW owner \in Orders \cup {Other, Stranger}, NEW b \in Buckets, NEW n \in Sizes,
         Execute(owner, b, n), NEW o \in Orders
  PROVE  Traded(o)' = IF o = owner THEN Traded(o) + n ELSE Traded(o)
<1> DEFINE last == Len(trades) + 1
           mine == {j \in DOMAIN trades : trades[j].owner = o}
           then == {j \in DOMAIN trades' : trades'[j].owner = o}
           w == [k \in mine |-> trades[k].amount]
           v == [k \in then |-> trades'[k].amount]
<1>1. /\ trades' \in Seq(Trades) /\ DOMAIN trades' = DOMAIN trades \cup {last}
      /\ last \notin DOMAIN trades /\ \A k \in DOMAIN trades : trades'[k] = trades[k]
      /\ trades'[last].owner = owner /\ trades'[last].amount = n
  <2>1. /\ trades' \in Seq(Trades) /\ DOMAIN trades' = DOMAIN trades \cup {Len(trades) + 1}
        /\ Len(trades) + 1 \notin DOMAIN trades
        /\ \A k \in DOMAIN trades : trades'[k] = trades[k]
        /\ trades'[Len(trades) + 1] = [owner |-> owner, bucket |-> b, amount |-> n, at |-> now]
    BY ExecuteTypes
  <2> QED
    BY <2>1
<1>2. hash' = hash
  BY DEF Execute
<1>3. TradeType'
  BY <1>1, <1>2 DEF Types, TradeType
<1>4. \A k \in mine : w[k] = trades[k].amount /\ w[k] \in Nat
  BY TradeFields DEF Types
<1>5. \A k \in then : v[k] = trades'[k].amount /\ v[k] \in Nat
  <2>1. \A k \in DOMAIN trades : trades'[k].amount \in Nat
    BY <1>1, TradeFields DEF Types
  <2>2. n \in Nat
    BY Numbers
  <2> QED
    BY <1>1, <2>1, <2>2
<1>6. IsFiniteSet(then)
  <2>1. DOMAIN trades' = 1..Len(trades') /\ Len(trades') \in Nat
    BY <1>1, LenProperties
  <2>2. IsFiniteSet(DOMAIN trades') /\ then \in SUBSET (DOMAIN trades')
    BY <2>1, FS_Interval
  <2> HIDE DEF then
  <2> QED
    BY <2>2, FS_Subset
<1>7. Traded(o) = SumFunctionOnSet(w, mine) /\ Traded(o)' = SumFunctionOnSet(v, then)
  BY DEF Traded, SumFunction
<1>8. /\ mine = then \ {last} /\ (last \in then <=> o = owner)
      /\ v[last] = IF o = owner THEN n ELSE v[last]
  BY <1>1
<1>9. \A k \in mine : w[k] = v[k]
  BY <1>1, <1>8
<1> HIDE DEF last, mine, then, w, v
<1>10. IsFiniteSet(mine)
  BY <1>6, <1>8, FS_RemoveElement
<1>11. SumFunctionOnSet(w, mine) = SumFunctionOnSet(v, mine)
  BY <1>4, <1>9, <1>10, SumAgrees
<1>12. CASE o = owner
  <2>1. SumFunctionOnSet(v, then) = n + SumFunctionOnSet(v, mine)
    BY <1>5, <1>6, <1>8, <1>12, SumTakesOut
  <2>2. n \in Nat /\ Traded(o) \in Nat
    BY Numbers, TradedType DEF Types
  <2> QED
    BY <1>7, <1>11, <1>12, <2>1, <2>2
<1>13. CASE o # owner
  BY <1>7, <1>8, <1>11, <1>13
<1> QED
  BY <1>12, <1>13

(* The trades of an order are at its bucket, from when it was placed on,   *)
(* and with what is left of it they sum up to no more than its amount.     *)
LEMMA OwnInductive == Spec => []OwnInv
<1>1. Init => OwnInv
  <2> SUFFICES ASSUME Init
               PROVE  OwnInv
    OBVIOUS
  <2>1. DOMAIN trades = {}
    BY EmptySeq DEF Init
  <2>2. ASSUME NEW o \in Orders
        PROVE  Traded(o) = 0 /\ left[o] = 0
    <3> DEFINE w == [k \in {j \in DOMAIN trades : trades[j].owner = o} |-> trades[k].amount]
    <3>1. Traded(o) = SumFunctionOnSet(w, {})
      BY <2>1 DEF Traded, SumFunction
    <3>2. SumFunctionOnSet(w, {}) = 0
      <4> HIDE DEF w
      <4> QED
        BY FS_EmptySet, SumTakesOut
    <3> QED
      BY <3>1, <3>2 DEF Init
  <2> QED
    BY <2>1, <2>2, Numbers DEF Init, OwnInv
<1>2. Types /\ OwnInv /\ [Next]_vars => OwnInv'
  <2> SUFFICES ASSUME Types, OwnInv, [Next]_vars
               PROVE  OwnInv'
    OBVIOUS
  <2>0. \A o \in Orders : Traded(o) \in Nat /\ left[o] \in Nat /\ Amount[o] \in Nat
                          /\ createdAt[o] \in Nat
    BY TradedType, Numbers DEF Types, OrderType
  <2>1. CASE UNCHANGED <<trades, left, placed, createdAt, now>>
    BY <2>1 DEF OwnInv, Traded
  <2>2. CASE StartPoll \/ ReadHistory \/ PollFails \/ Allocate \/ Restart \/ UNCHANGED vars
    BY <2>1, <2>2 DEF StartPoll, ReadHistory, PollFails, Allocate, Restart, vars, chain, tracker
  <2>3. ASSUME NEW o \in Orders, Drop(o)
        PROVE  OwnInv'
    BY <2>1, <2>3 DEF Drop, chain
  <2>4. ASSUME NEW o \in Orders, Place(o)
        PROVE  OwnInv'
    <3>1. o \notin placed /\ trades' = trades /\ now' = now
          /\ left' = [left EXCEPT ![o] = Amount[o]] /\ createdAt' = [createdAt EXCEPT ![o] = now]
          /\ placed' = placed \cup {o}
      BY <2>4 DEF Place
    <3>2. \A k \in DOMAIN trades : trades[k].owner # o
      BY <3>1 DEF OwnInv
    <3>3. Traded(o) = 0
      BY <3>2, TradedType DEF Types
    <3>4. \A q \in Orders : Traded(q)' = Traded(q)
      BY <3>1 DEF Traded
    <3>5. \A q \in Orders : Traded(q)' + left'[q] <= Amount[q]
      BY <2>0, <3>1, <3>3, <3>4 DEF OwnInv, Types, OrderType
    <3>6. \A q \in placed' : createdAt'[q] <= now'
      BY <3>1 DEF OwnInv, Types, OrderType
    <3>7. \A q \in Orders : q \notin placed' => left'[q] = 0
      BY <3>1 DEF OwnInv, Types, OrderType
    <3>8. \A k \in DOMAIN trades', q \in Orders :
            trades'[k].owner = q => /\ q \in placed' /\ trades'[k].bucket = BucketOf[q]
                                    /\ createdAt'[q] <= trades'[k].at
      BY <3>1, <3>2 DEF OwnInv, Types, OrderType
    <3> QED
      BY <3>5, <3>6, <3>7, <3>8 DEF OwnInv
  <2>5. ASSUME NEW o \in Orders, Trade(o)
        PROVE  OwnInv'
    <3>1. PICK n \in Sizes : /\ n <= left[o] /\ left' = [left EXCEPT ![o] = left[o] - n]
                             /\ Execute(o, BucketOf[o], n)
      BY <2>5 DEF Trade
    <3>2. n \in Nat /\ n > 0 /\ o \in placed /\ UNCHANGED <<now, placed, createdAt>>
      BY <2>0, <3>1, Numbers DEF OwnInv, Execute, tracker
    <3>3. \A q \in Orders : Traded(q)' = IF q = o THEN Traded(q) + n ELSE Traded(q)
      BY <3>1, Numbers, TradedAdds
    <3>4. \A q \in Orders : Traded(q)' + left'[q] <= Amount[q]
      BY <2>0, <3>1, <3>2, <3>3 DEF OwnInv, Types, OrderType
    <3>5. /\ DOMAIN trades' = DOMAIN trades \cup {Len(trades) + 1}
          /\ \A k \in DOMAIN trades : trades'[k] = trades[k]
          /\ trades'[Len(trades) + 1] =
               [owner |-> o, bucket |-> BucketOf[o], amount |-> n, at |-> now]
      BY <3>1, Numbers, ExecuteTypes
    <3>6. \A k \in DOMAIN trades', q \in Orders :
            trades'[k].owner = q => /\ q \in placed' /\ trades'[k].bucket = BucketOf[q]
                                    /\ createdAt'[q] <= trades'[k].at
      BY <3>2, <3>5 DEF OwnInv
    <3>7. \A q \in Orders : q \notin placed' => left'[q] = 0
      BY <3>1, <3>2 DEF OwnInv, Types, OrderType
    <3> QED
      BY <3>2, <3>4, <3>6, <3>7 DEF OwnInv
  <2>6. CASE OtherTrade
    <3>1. PICK who \in {Other, Stranger}, b \in Buckets, n \in Sizes :
            Execute(who, b, n) /\ UNCHANGED left
      BY <2>6 DEF OtherTrade
    <3>2. who \notin Orders /\ UNCHANGED <<now, placed, createdAt>>
      BY <3>1, FillsAssumption DEF Execute, tracker
    <3>3. \A q \in Orders : Traded(q)' = Traded(q)
      BY <3>1, <3>2, TradedAdds
    <3>4. /\ DOMAIN trades' = DOMAIN trades \cup {Len(trades) + 1}
          /\ \A k \in DOMAIN trades : trades'[k] = trades[k]
          /\ trades'[Len(trades) + 1] = [owner |-> who, bucket |-> b, amount |-> n, at |-> now]
      BY <3>1, ExecuteTypes
    <3> QED
      BY <3>1, <3>2, <3>3, <3>4 DEF OwnInv
  <2>7. ASSUME NEW o \in Orders, Cancel(o)
        PROVE  OwnInv'
    <3>1. UNCHANGED <<trades, placed, createdAt, now>> /\ left' = [left EXCEPT ![o] = 0]
      BY <2>7 DEF Cancel, tracker
    <3>2. \A q \in Orders : Traded(q)' = Traded(q)
      BY <3>1 DEF Traded
    <3>3. \A q \in Orders : left'[q] \in Nat /\ left'[q] <= left[q]
      BY <2>0, <3>1 DEF Types, OrderType
    <3>4. \A q \in Orders : Traded(q)' + left'[q] <= Amount[q]
      BY <2>0, <3>2, <3>3 DEF OwnInv
    <3>5. \A q \in Orders : q \notin placed' => left'[q] = 0
      BY <2>0, <3>1, <3>3 DEF OwnInv
    <3> QED
      BY <3>1, <3>4, <3>5 DEF OwnInv
  <2>8. CASE Tick
    <3>1. UNCHANGED <<trades, left, placed, createdAt>> /\ now' = now + 1
      BY <2>8 DEF Tick, tracker
    <3>2. now \in Nat
      BY DEF Types, OrderType
    <3>3. \A q \in placed : createdAt[q] <= now + 1
      BY <2>0, <3>2 DEF OwnInv, Types, OrderType
    <3>4. \A q \in Orders : Traded(q)' = Traded(q)
      BY <3>1 DEF Traded
    <3> QED
      BY <3>1, <3>3, <3>4 DEF OwnInv
  <2> QED
    BY <2>2, <2>3, <2>4, <2>5, <2>6, <2>7, <2>8 DEF Next
<1> QED
  BY <1>1, <1>2, TypesInductive, PTL DEF Spec

-----------------------------------------------------------------------------
(* No trade is left out. *)

(* What was processed for a listed order is among its fills.               *)
TrackedInv ==
  /\ \A o \in listed : processed[o] \subseteq {f.trade : f \in fills[o]}
  /\ \A o \in Orders : o \notin placed => processed[o] = {}

(* An update of an allocation to a listed order leaves it with a fill.     *)
LEMMA UpdatesFill ==
  ASSUME Types, Allocate, NEW o \in listed, NEW u \in Updates(poll.orders, poll.history),
         u.ord = o
  PROVE  \E f \in fills'[o] : f.trade = u.trade
<1>1. o \in Orders
  BY DEF Types, OrderType
<1> DEFINE new == {v \in Updates(poll.orders, poll.history) :
                     v.ord = o /\ \A f \in fills[o] : f.trade # v.trade}
<1>2. fills'[o] = fills[o] \cup {[trade |-> v.trade, amount |-> v.amount] : v \in new}
  BY <1>1 DEF Allocate, Apply
<1>3. CASE u \in new
  <2>1. [trade |-> u.trade, amount |-> u.amount] \in fills'[o]
    BY <1>2, <1>3
  <2> QED
    BY <2>1
<1>4. CASE u \notin new
  BY <1>2, <1>4
<1> QED
  BY <1>3, <1>4

(* The tracker saves the fills of an order, and the connector forgets what *)
(* it processed: processed trades have fills as long as an order is listed.*)
LEMMA TrackedInductive == Spec => []TrackedInv
<1>1. Init => TrackedInv
  BY DEF Init, TrackedInv
<1>2. Types /\ TrackedInv /\ [Next]_vars => TrackedInv'
  <2> SUFFICES ASSUME Types, TrackedInv, [Next]_vars
               PROVE  TrackedInv'
    OBVIOUS
  <2>1. CASE UNCHANGED <<listed, placed, fills, processed>>
    BY <2>1 DEF TrackedInv
  <2>2. CASE StartPoll \/ ReadHistory \/ PollFails \/ Tick \/ UNCHANGED vars
    BY <2>1, <2>2 DEF StartPoll, ReadHistory, PollFails, Tick, vars, tracker
  <2>3. ASSUME NEW o \in Orders, Trade(o) \/ Cancel(o)
        PROVE  TrackedInv'
    BY <2>1, <2>3 DEF Trade, Cancel, Execute, tracker
  <2>4. CASE OtherTrade
    BY <2>1, <2>4 DEF OtherTrade, Execute, tracker
  <2>5. ASSUME NEW o \in Orders, Place(o)
        PROVE  TrackedInv'
    BY <2>5 DEF Place, TrackedInv
  <2>6. ASSUME NEW o \in Orders, Drop(o)
        PROVE  TrackedInv'
    BY <2>6 DEF Drop, TrackedInv
  <2>7. CASE Restart
    BY <2>7 DEF Restart, TrackedInv, Types, OrderType
  <2>8. CASE Allocate
    <3> DEFINE all == Updates(poll.orders, poll.history)
    <3>1. /\ processed' = [o \in Orders |->
                           processed[o] \cup {u.trade : u \in {v \in all : v.ord = o}}]
          /\ listed' = listed /\ placed' = placed
      BY <2>8 DEF Allocate
    <3>2. \A o \in listed : o \in Orders /\ fills[o] \subseteq fills'[o]
      BY <2>8, AllocateCredits DEF Types, OrderType
    <3>3. \A o \in listed, u \in all : u.ord = o => \E f \in fills'[o] : f.trade = u.trade
      BY <2>8, UpdatesFill
    <3>4. \A u \in all : u.ord \in placed
      <4>1. /\ poll.orders \in SUBSET Orders /\ poll.orders \in SUBSET placed
            /\ poll.history \in SUBSET (DOMAIN trades)
        BY DEF Types, OrderType
      <4>2. IsFiniteSet(poll.orders)
        BY <4>1, FS_Subset DEF Types, OrderType
      <4> QED
        BY <4>1, <4>2, UpdatesCredit DEF Types, UpdatesOf
    <3> HIDE DEF all
    <3> QED
      BY <3>1, <3>2, <3>3, <3>4 DEF TrackedInv
  <2> QED
    BY <2>2, <2>3, <2>4, <2>5, <2>6, <2>7, <2>8 DEF Next
<1> QED
  BY <1>1, <1>2, TypesInductive, PTL DEF Spec

(* Fills of o that are of trades it made: those it has and new ones.  They *)
(* sum up to no more than it traded, and that to no more than its amount.  *)
LEMMA RoomForOne ==
  ASSUME Types, BackedInv, OwnInv, NEW o \in Orders, Sole(o), NEW f \in Fills,
         \E k \in DOMAIN trades : trades[k].owner = o /\ Backs(k, f),
         \A g \in fills[o] : g.trade # f.trade
  PROVE  Executed(o) + f.amount <= Amount[o]
<1> DEFINE F == fills[o] \cup {f}
<1>1. fills[o] \in SUBSET Fills /\ IsFiniteSet(fills[o])
  BY DEF Types, FillsType
<1>2. F \in SUBSET Fills /\ IsFiniteSet(F) /\ f \in F /\ F \ {f} = fills[o]
  BY <1>1, FS_AddElement
<1>3. \A g, h \in F : g.trade = h.trade => g = h
  BY DEF BackedInv
<1>4. \A g \in F : \E k \in DOMAIN trades : trades[k].owner = o /\ Backs(k, g)
  BY DEF BackedInv, Sole
<1> HIDE DEF F
<1>5. SumOf(F) <= Traded(o) /\ Traded(o) \in Nat
  BY <1>2, <1>3, <1>4, FillsWithinTraded DEF Types
<1>6. SumOf(F) = f.amount + SumOf(fills[o]) /\ SumOf(fills[o]) \in Nat
  BY <1>1, <1>2, SumOfFills
<1>7. Traded(o) + left[o] <= Amount[o] /\ left[o] \in Nat /\ f.amount \in Nat /\ Amount[o] \in Nat
  BY Numbers DEF OwnInv, Types, OrderType, Fills
<1> QED
  BY <1>5, <1>6, <1>7 DEF Executed

(* There is room for two trades of an order's own that it has no fills of. *)
LEMMA RoomForTwo ==
  ASSUME Types, BackedInv, OwnInv, NEW o \in Orders, Sole(o), NEW f \in Fills, NEW e \in Fills,
         \E k \in DOMAIN trades : trades[k].owner = o /\ Backs(k, f),
         \E k \in DOMAIN trades : trades[k].owner = o /\ Backs(k, e),
         e.trade # f.trade, \A g \in fills[o] : g.trade # f.trade /\ g.trade # e.trade
  PROVE  Executed(o) + e.amount + f.amount <= Amount[o]
<1> DEFINE E == fills[o] \cup {e}
           F == E \cup {f}
<1>1. fills[o] \in SUBSET Fills /\ IsFiniteSet(fills[o])
  BY DEF Types, FillsType
<1>2. E \in SUBSET Fills /\ IsFiniteSet(E) /\ e \in E /\ E \ {e} = fills[o]
  BY <1>1, FS_AddElement
<1>3. F \in SUBSET Fills /\ IsFiniteSet(F) /\ f \in F /\ F \ {f} = E
  <2>1. E \in SUBSET Fills /\ f \notin E
    BY <1>1
  <2> HIDE DEF E
  <2> QED
    BY <1>2, <2>1, FS_AddElement
<1>4. \A g, h \in F : g.trade = h.trade => g = h
  BY DEF BackedInv
<1>5. \A g \in F : \E k \in DOMAIN trades : trades[k].owner = o /\ Backs(k, g)
  BY DEF BackedInv, Sole
<1> HIDE DEF E, F
<1>6. SumOf(F) <= Traded(o) /\ Traded(o) \in Nat
  BY <1>3, <1>4, <1>5, FillsWithinTraded DEF Types
<1>7. SumOf(F) = f.amount + SumOf(E)
  BY <1>3, SumOfFills
<1>8. SumOf(E) = e.amount + SumOf(fills[o]) /\ SumOf(fills[o]) \in Nat
  BY <1>1, <1>2, SumOfFills
<1>9. /\ Traded(o) + left[o] <= Amount[o] /\ left[o] \in Nat /\ Amount[o] \in Nat
      /\ f.amount \in Nat /\ e.amount \in Nat
  BY Numbers DEF OwnInv, Types, OrderType, Fills
<1> QED
  BY <1>6, <1>7, <1>8, <1>9 DEF Executed

(* What the loop knows of the trades of s, dealt to the one order o: each  *)
(* was processed or is credited, and it left o behind only when it filled  *)
(* it.                                                                     *)
Dealt(l, o, s) ==
  /\ \A j \in s : \/ Fingerprint(trades[j]) \in processed[o]
                  \/ \E u \in l.updates : u.trade = Fingerprint(trades[j])
  /\ l.from <= o \/ \E u \in l.updates : u.amount >= Remaining(o)

(* One more trade k is dealt to o alone.                                   *)
LEMMA DealsOneMore ==
  ASSUME Types, BackedInv, OwnInv, NEW o \in Orders, Sole(o),
         {f.trade : f \in fills[o]} \subseteq processed[o],
         NEW M \in SUBSET {j \in DOMAIN trades : trades[j].owner = o},
         NEW s \in SUBSET M, NEW k \in s,
         NEW l \in Loops({o}, M), Dealt(l, o, s \ {k})
  PROVE  Dealt(AtOrder(Enter(l, trades[k]), trades[k], o), o, s)
<1> DEFINE t == trades[k]
           e == Enter(l, t)
           n == FillAmount(o, e.rest)
           u == [ord |-> o, trade |-> Fingerprint(t), amount |-> n]
           r == AtOrder(e, t, o)
<1>1. /\ t \in Trades /\ t.amount \in Nat /\ t.amount > 0 /\ t.owner = o
      /\ k \in DOMAIN trades
  BY TradeFields DEF Types
<1>2. /\ l.from \in Nat /\ l.updates \in SUBSET UpdatesOf({o})
      /\ l = [from |-> l.from, rest |-> l.rest, stop |-> l.stop, updates |-> l.updates]
      /\ \A v \in l.updates : Credit(v, M)
  BY DEF Loops
<1>3. /\ e \in [from : Nat, rest : Nat, stop : BOOLEAN, updates : SUBSET UpdatesOf({o})]
      /\ e.from = l.from /\ e.updates = l.updates /\ e.rest = t.amount /\ e.stop = FALSE
  <2>1. l \in [from : Nat, rest : Nat, stop : BOOLEAN, updates : SUBSET UpdatesOf({o})]
    BY DEF Loops
  <2> HIDE DEF t
  <2> QED
    BY <1>1, <2>1 DEF Enter
<1>4. \A v \in l.updates : v.ord = o /\ v.trade \in Fingerprints /\ v.amount \in Nat
  BY <1>2 DEF UpdatesOf
<1>5. o \in Nat /\ Remaining(o) \in Nat /\ Executed(o) \in Nat /\ Amount[o] \in Nat
      /\ (Executed(o) <= Amount[o] => Executed(o) + Remaining(o) = Amount[o])
  BY Numbers, RemainingType DEF Types
<1>6. CASE Processed(e, t, o)
  <2>1. r.updates = l.updates /\ r.from = l.from
    <3>1. r = e \/ r = [e EXCEPT !.stop = TRUE]
      BY <1>6 DEF AtOrder
    <3> HIDE DEF r, e, t
    <3> QED
      BY <1>3, <3>1
  <2>2. \/ Fingerprint(t) \in processed[o]
        \/ \E v \in l.updates : v.trade = Fingerprint(t)
    BY <1>3, <1>6 DEF Processed
  <2>3. \A j \in s : \/ Fingerprint(trades[j]) \in processed[o]
                     \/ \E v \in l.updates : v.trade = Fingerprint(trades[j])
    BY <2>2 DEF Dealt
  <2>4. l.from <= o \/ \E v \in l.updates : v.amount >= Remaining(o)
    BY DEF Dealt
  <2> HIDE DEF r, e
  <2> QED
    BY <2>1, <2>3, <2>4 DEF Dealt, r, e
<1>7. CASE ~Processed(e, t, o)
  <2> DEFINE f == [trade |-> Fingerprint(t), amount |-> t.amount]
  <2>1. Fingerprint(t) \notin processed[o] /\ \A v \in l.updates : v.trade # Fingerprint(t)
    BY <1>3, <1>4, <1>7 DEF Processed
  <2>2. /\ f \in Fills /\ \A g \in fills[o] : g.trade # f.trade
        /\ \E j \in DOMAIN trades : trades[j].owner = o /\ Backs(j, f)
    <3>1. Fingerprint(t) \in Fingerprints
      BY <1>1 DEF Fingerprint, Fingerprints, Trades
    <3>2. Backs(k, f)
      BY <1>1 DEF Backs
    <3> QED
      BY <1>1, <2>1, <3>1, <3>2 DEF Fills
  <2>3. f.amount = t.amount /\ f.trade = Fingerprint(t)
    OBVIOUS
  <2> HIDE DEF f
  <2>4. Executed(o) + t.amount <= Amount[o]
    BY <2>2, <2>3, RoomForOne
  <2>5. Executed(o) + Remaining(o) = Amount[o] /\ t.amount <= Remaining(o)
    BY <1>1, <1>5, <2>4
  <2>6. ASSUME NEW v \in l.updates, v.amount >= Remaining(o)
        PROVE  FALSE
    <3> DEFINE g == [trade |-> v.trade, amount |-> v.amount]
    <3>1. Credit(v, M) /\ v.ord = o
      BY <1>2, <1>4
    <3>2. PICK j \in M : v.trade = Fingerprint(trades[j]) /\ v.amount <= trades[j].amount
      BY <3>1 DEF Credit
    <3>3. j \in DOMAIN trades /\ trades[j].owner = o /\ Backs(j, g)
      BY <3>2 DEF Backs
    <3>4. g \in Fills /\ g.trade # f.trade /\ \A h \in fills[o] : h.trade # g.trade
      BY <1>4, <2>1, <2>3, <3>1 DEF Credit, Fills
    <3>5. g.amount = v.amount
      OBVIOUS
    <3> HIDE DEF g
    <3>6. Executed(o) + g.amount + f.amount <= Amount[o]
      BY <2>2, <3>3, <3>4, RoomForTwo
    <3> QED
      BY <1>1, <1>4, <1>5, <2>3, <2>5, <2>6, <3>5, <3>6
  <2>7. l.from <= o
    BY <2>6 DEF Dealt
  <2>8. n = t.amount
    BY <1>1, <1>3, <1>5, <2>5 DEF FillAmount
  <2>9. r = [from |-> IF n >= Remaining(o) THEN o + 1 ELSE o, rest |-> e.rest - n,
             stop |-> FALSE, updates |-> e.updates \cup {u}]
    <3>1. ~(o < e.from \/ e.rest = 0 \/ e.stop) /\ Remaining(o) # 0
      BY <1>1, <1>2, <1>3, <1>5, <2>5, <2>7
    <3> QED
      BY <1>7, <3>1 DEF AtOrder
  <2>10. /\ r.updates = l.updates \cup {u}
         /\ r.from = IF n >= Remaining(o) THEN o + 1 ELSE o
    BY <1>3, <2>9
  <2>11. u.amount = n /\ u.trade = Fingerprint(t)
    OBVIOUS
  <2> HIDE DEF r, u, e, n
  <2>12. r.from <= o \/ \E v \in r.updates : v.amount >= Remaining(o)
    BY <1>5, <2>10, <2>11
  <2>13. \A j \in s : \/ Fingerprint(trades[j]) \in processed[o]
                      \/ \E v \in r.updates : v.trade = Fingerprint(trades[j])
    BY <2>10, <2>11 DEF Dealt
  <2> QED
    BY <2>12, <2>13 DEF Dealt, r, e
<1> QED
  BY <1>6, <1>7

(* With one order in the bucket the inner loop is one pass.                *)
LEMMA AtTradeAlone ==
  ASSUME TradeType, FillsType, NEW o \in Orders, NEW M \in SUBSET (DOMAIN trades),
         NEW k \in M, NEW l \in Loops({o}, M)
  PROVE  AtTrade(l, trades[k], {o}) = AtOrder(Enter(l, trades[k]), trades[k], o)
<1> DEFINE alone == {o}
<1>1. l \in Loops(alone, M) /\ alone \in SUBSET Orders /\ IsFiniteSet(alone)
  BY FS_Singleton
<1> HIDE DEF alone
<1>2. PICK iter \in [SUBSET alone -> Loops(alone, M)] :
        /\ iter[{}] = Enter(l, trades[k])
        /\ \A s \in SUBSET alone : s # {} => Visits(iter, trades[k], s)
        /\ AtTrade(l, trades[k], alone) = iter[alone]
  BY <1>1, AtTradeVisits
<1>3. iter[alone] = AtOrder(iter[alone \ {o}], trades[k], o) /\ alone \ {o} = {}
  BY <1>2 DEF Visits, alone
<1> QED
  BY <1>2, <1>3 DEF alone

(* All trades of M are dealt to o, when the bucket is o's alone.           *)
LEMMA DealsAll ==
  ASSUME Types, BackedInv, OwnInv, NEW o \in Orders, Sole(o),
         {f.trade : f \in fills[o]} \subseteq processed[o],
         NEW M \in SUBSET {j \in DOMAIN trades : trades[j].owner = o}
  PROVE  Dealt(AtTrades({o}, M), o, M) /\ AtTrades({o}, M) \in Loops({o}, M)
<1>1. {o} \in SUBSET Orders /\ IsFiniteSet({o}) /\ M \in SUBSET (DOMAIN trades)
  BY FS_Singleton
<1>2. TradeType /\ FillsType
  BY DEF Types
<1>3. PICK iter \in [SUBSET M -> Loops({o}, M)] :
        /\ iter[{}] = Start
        /\ \A s \in SUBSET M : s # {} => Deals(iter, {o}, s)
        /\ AtTrades({o}, M) = iter[M]
  BY <1>1, <1>2, AtTradesDeal
<1> DEFINE U == {s \in SUBSET M : ~Dealt(iter[s], o, s)}
<1>4. IsFiniteSet(M)
  <2>1. DOMAIN trades = 1..Len(trades) /\ Len(trades) \in Nat
    BY <1>2, LenProperties DEF TradeType
  <2>2. IsFiniteSet(DOMAIN trades)
    BY <2>1, FS_Interval
  <2> QED
    BY <1>1, <2>2, FS_Subset
<1>5. U = {}
  <2> SUFFICES ASSUME U # {}
               PROVE  FALSE
    OBVIOUS
  <2>1. PICK s \in U : \A x \in s : s \ {x} \notin U
    BY <1>4, SmallestSet
  <2>2. CASE s = {}
    <3>1. Dealt(Start, o, {})
      BY Numbers DEF Dealt, Start
    <3> QED
      BY <1>3, <2>1, <2>2, <3>1
  <2>3. CASE s # {}
    <3>1. PICK k \in s : iter[s] = AtTrade(iter[s \ {k}], trades[k], {o})
      BY <1>3, <2>1, <2>3 DEF Deals
    <3> DEFINE l == iter[s \ {k}]
    <3>2. l \in Loops({o}, M) /\ Dealt(l, o, s \ {k}) /\ k \in M /\ s \in SUBSET M
      BY <1>3, <2>1, <3>1
    <3> HIDE DEF l
    <3>3. AtTrade(l, trades[k], {o}) = AtOrder(Enter(l, trades[k]), trades[k], o)
      BY <1>1, <1>2, <3>2, AtTradeAlone
    <3>4. iter[s] = AtOrder(Enter(l, trades[k]), trades[k], o)
      BY <3>1, <3>3 DEF l
    <3>5. Dealt(AtOrder(Enter(l, trades[k]), trades[k], o), o, s)
      BY <3>2, DealsOneMore
    <3> QED
      BY <2>1, <3>4, <3>5
  <2> QED
    BY <2>2, <2>3
<1> QED
  BY <1>3, <1>5

(* A poll is over when its updates are applied: only an allocation ends    *)
(* one that read its history, unless the connector restarts.               *)
LEMMA AllocationEnds ==
  ASSUME Types, [Next]_vars, poll.pc = "allocate", restarts' = restarts, poll' = Idle
  PROVE  Allocate
<1>1. poll' # poll
  BY DEF Idle
<1>2. CASE Restart
  <2>1. restarts \in Nat /\ restarts' = restarts + 1
    BY <1>2 DEF Restart, Types, OrderType
  <2> QED
    BY <2>1
<1>3. CASE StartPoll \/ ReadHistory \/ PollFails
  BY <1>3 DEF StartPoll, ReadHistory, PollFails
<1>4. CASE Tick \/ UNCHANGED vars
  BY <1>1, <1>4 DEF Tick, vars
<1>5. ASSUME NEW o \in Orders, Place(o) \/ Trade(o) \/ Cancel(o) \/ Drop(o)
      PROVE  FALSE
  BY <1>1, <1>5 DEF Place, Trade, Cancel, Drop, Execute
<1>6. CASE OtherTrade
  BY <1>1, <1>6 DEF OtherTrade, Execute
<1> QED
  BY <1>2, <1>3, <1>4, <1>5, <1>6 DEF Next

(* After an allocation an order that has its bucket for itself has a fill  *)
(* of each trade it made that the history showed: with what it was         *)
(* credited before, what it trades never leaves too little room for any.   *)
THEOREM AllTradesCredited == Spec => EveryTradeCredited
<1>1. ASSUME Types, BackedInv, OwnInv, TrackedInv, [Next]_vars,
             NEW o \in poll.orders \cap listed,
             poll.pc = "allocate", restarts' = restarts, poll' = Idle,
             {f.trade : f \in fills[o]} \subseteq processed[o],
             Sole(o), \A q \in placed : BucketOf[q] = BucketOf[o] => q = o,
             NEW k \in poll.history, trades[k].owner = o
      PROVE  \E f \in fills'[o] : f.trade = Fingerprint(trades[k])
  <2> DEFINE b == BucketOf[o]
             M == Matching(poll.history, b, poll.orders)
             last == AtTrades({o}, M)
  <2>1. Allocate
    BY <1>1, AllocationEnds
  <2>2. /\ o \in Orders /\ o \in Nat /\ b \in Buckets
        /\ poll.orders \subseteq placed /\ poll.history \subseteq DOMAIN trades
    BY <1>1, Numbers DEF Types, OrderType
  <2>3. Peers(poll.orders, b) = {o} /\ Min({o}) = o
    <3>1. Peers(poll.orders, b) = {o}
      BY <1>1, <2>2 DEF Peers
    <3>2. Min({o}) = o
      BY <2>2 DEF Min
    <3> QED
      BY <3>1, <3>2
  <2>4. M = {j \in poll.history : Matches(trades[j], b, createdAt[o])}
    BY <2>3 DEF Matching
  <2>5. k \in M
    <3>1. trades[k].bucket = b /\ createdAt[o] <= trades[k].at /\ trades[k].owner # Stranger
      BY <1>1, <2>2, FillsAssumption DEF OwnInv
    <3>2. createdAt[o] \in Nat /\ trades[k].at \in Nat
      BY <1>1, <2>2, TradeFields DEF Types, OrderType
    <3> QED
      BY <2>4, <3>1, <3>2 DEF Matches
  <2>6. M \in SUBSET {j \in DOMAIN trades : trades[j].owner = o}
    BY <1>1, <2>2, <2>4 DEF Matches, Sole
  <2> HIDE DEF M
  <2>7. Dealt(last, o, M) /\ last \in Loops({o}, M)
    BY <1>1, <2>2, <2>6, DealsAll
  <2>8. BucketUpdates(poll.orders, poll.history, b) = last.updates
    BY <2>3 DEF BucketUpdates, M
  <2>9. last.updates \subseteq Updates(poll.orders, poll.history)
    BY <2>2, <2>8 DEF Updates
  <2> HIDE DEF last
  <2>10. \A u \in last.updates : u.ord = o
    BY <2>7 DEF Loops, UpdatesOf
  <2>11. CASE Fingerprint(trades[k]) \in processed[o]
    <3>1. \E f \in fills[o] : f.trade = Fingerprint(trades[k])
      BY <1>1, <2>11 DEF TrackedInv
    <3> QED
      BY <1>1, <2>1, <2>2, <3>1, AllocateCredits
  <2>12. ASSUME NEW u \in last.updates, u.trade = Fingerprint(trades[k])
         PROVE  \E f \in fills'[o] : f.trade = Fingerprint(trades[k])
    <3>1. u \in Updates(poll.orders, poll.history) /\ u.ord = o /\ o \in listed
      BY <2>9, <2>10, <2>12
    <3> QED
      BY <1>1, <2>1, <2>12, <3>1, UpdatesFill
  <2> QED
    BY <2>5, <2>7, <2>11, <2>12 DEF Dealt
<1>2. Types /\ BackedInv /\ OwnInv /\ TrackedInv /\ [Next]_vars =>
        [\A o \in poll.orders \cap listed :
           poll.pc = "allocate" /\ restarts' = restarts /\ poll' = Idle
           /\ {f.trade : f \in fills[o]} \subseteq processed[o]
           /\ Sole(o) /\ (\A q \in placed : BucketOf[q] = BucketOf[o] => q = o)
           => \A k \in poll.history :
                trades[k].owner = o =>
                  \E f \in fills'[o] : f.trade = Fingerprint(trades[k])]_vars
  BY <1>1
<1> QED
  BY <1>2, TypesInductive, BackedInductive, OwnInductive, TrackedInductive, PTL
     DEF Spec, EveryTradeCredited

-----------------------------------------------------------------------------
(***************************************************************************)
(* No trade is credited beyond its amount, for any orders, trades and      *)
(* polls, while the orders it may have been dealt to are listed. The       *)
(* argument compares an allocation with the ones before it: a trade that   *)
(* was dealt meets the order it was dealt to before any other that has     *)
(* room, since every trade dealt ahead of it does too.                     *)
(***************************************************************************)
-----------------------------------------------------------------------------
(* Sums of amounts. *)

(* The amounts of a larger set sum up to no less.                          *)
LEMMA SumGrows ==
  ASSUME NEW T, IsFiniteSet(T), \A f \in T : f.amount \in Nat, NEW S \in SUBSET T
  PROVE  SumOf(S) <= SumOf(T)
<1> DEFINE v == [f \in S |-> f.amount]
           w == [f \in T |-> f.amount]
           id == [f \in S |-> f]
<1>1. IsFiniteSet(S)
  BY FS_Subset
<1>2. SumOf(S) = SumFunctionOnSet(v, S) /\ SumOf(T) = SumFunctionOnSet(w, T)
  BY DEF SumOf, SumFunction
<1>3. /\ id \in [S -> T] /\ \A x, y \in S : id[x] = id[y] => x = y
      /\ \A x \in S : v[x] \in Nat /\ v[x] <= w[id[x]]
      /\ \A y \in T : w[y] \in Nat
  OBVIOUS
<1> HIDE DEF v, w, id
<1>4. SumFunctionOnSet(v, S) <= SumFunctionOnSet(w, T)
  BY <1>1, <1>3, SumInjects
<1> QED
  BY <1>2, <1>4

-----------------------------------------------------------------------------
(* Times. *)

(* Time is what it seems: hashes tell sizes apart, trades are in the order *)
(* of their times, and a history is of seconds that were over when it was  *)
(* read, with all that the node still returns of them.                     *)
HistoryInv ==
  /\ \A m, n \in Sizes : hash[m] = hash[n] => m = n
  /\ \A k \in DOMAIN trades : trades[k].at <= now
  /\ \A k \in poll.history :
       /\ trades[k].at < now
       /\ \A j \in LastTrades(HistoryLimit) : trades[j].at <= trades[k].at => j \in poll.history

(* The trades the node returns are those it returned before and newer ones.*)
LEMMA WindowSlides ==
  ASSUME Types, [Next]_vars
  PROVE  \A j \in LastTrades(HistoryLimit)' :
           \/ j \in LastTrades(HistoryLimit) /\ j \in DOMAIN trades /\ trades'[j] = trades[j]
           \/ j \in DOMAIN trades' /\ trades'[j].at >= now
<1> DEFINE After(j) == {i \in Shown : i > j}
<1>1. IsFiniteSet(DOMAIN trades) /\ DOMAIN trades' \in SUBSET Nat
  <2>1. DOMAIN trades = 1..Len(trades) /\ Len(trades) \in Nat
    BY LenProperties DEF Types, TradeType
  <2>2. trades' \in Seq(Trades)
    BY TypesStay DEF Types, TradeType
  <2>3. DOMAIN trades' = 1..Len(trades') /\ Len(trades') \in Nat
    BY <2>2, LenProperties
  <2> QED
    BY <2>1, <2>3, FS_Interval
<1>2. HistoryLimit \in Nat /\ now \in Nat
  BY FillsAssumption DEF Types, OrderType
<1>3. CASE UNCHANGED <<trades, now>>
  BY <1>3 DEF LastTrades, Shown
<1>4. CASE Tick
  <2>1. trades' = trades /\ now' = now + 1
    BY <1>4 DEF Tick
  <2> SUFFICES ASSUME NEW j \in LastTrades(HistoryLimit)', ~(trades[j].at >= now)
               PROVE  j \in LastTrades(HistoryLimit) /\ j \in DOMAIN trades
    BY <2>1 DEF LastTrades, Shown
  <2>2. /\ j \in Shown' /\ Cardinality({i \in Shown' : i > j}) < HistoryLimit
        /\ j \in DOMAIN trades
    BY <2>1 DEF LastTrades, Shown
  <2>3. \A k \in DOMAIN trades : trades[k].at \in Nat
    BY TradeFields DEF Types
  <2>4. Shown \subseteq Shown' /\ Shown' \subseteq DOMAIN trades
    BY <1>2, <2>1, <2>3 DEF Shown
  <2>5. j \in Shown
    BY <1>2, <2>2, <2>3 DEF Shown
  <2> DEFINE Then == {i \in Shown' : i > j}
  <2>6. IsFiniteSet(Then) /\ After(j) \in SUBSET Then
    BY <1>1, <2>4, FS_Subset
  <2>7. Cardinality(After(j)) <= Cardinality(Then)
    <3> HIDE DEF Then, After
    <3> QED
      BY <2>6, FS_Subset
  <2>8. Cardinality(After(j)) \in Nat /\ Cardinality(Then) \in Nat
    <3> HIDE DEF Then, After
    <3> QED
      BY <2>6, FS_Subset, FS_CardinalityType
  <2>9. Cardinality(After(j)) < HistoryLimit
    BY <1>2, <2>2, <2>7, <2>8
  <2> QED
    BY <2>2, <2>5, <2>9 DEF LastTrades
<1>5. ASSUME NEW owner \in Orders \cup {Other, Stranger}, NEW b \in Buckets, NEW n \in Sizes,
             Execute(owner, b, n)
      PROVE  LastTrades(HistoryLimit)' = LastTrades(HistoryLimit)
             /\ \A j \in LastTrades(HistoryLimit) : j \in DOMAIN trades /\ trades'[j] = trades[j]
  <2>1. /\ DOMAIN trades' = DOMAIN trades \cup {Len(trades) + 1}
        /\ \A k \in DOMAIN trades : trades'[k] = trades[k]
        /\ trades'[Len(trades) + 1] = [owner |-> owner, bucket |-> b, amount |-> n, at |-> now]
        /\ now' = now
    BY <1>5, ExecuteTypes DEF Execute
  <2>2. Shown' = Shown
    BY <1>2, <2>1 DEF Shown
  <2> QED
    BY <2>1, <2>2 DEF LastTrades, Shown
<1>6. ASSUME NEW o \in Orders, Trade(o)
      PROVE  LastTrades(HistoryLimit)' = LastTrades(HistoryLimit)
             /\ \A j \in LastTrades(HistoryLimit) : j \in DOMAIN trades /\ trades'[j] = trades[j]
  BY <1>5, <1>6, Numbers DEF Trade
<1>7. CASE OtherTrade
  BY <1>5, <1>7 DEF OtherTrade
<1>8. CASE StartPoll \/ ReadHistory \/ PollFails \/ Allocate \/ Restart \/ UNCHANGED vars
  BY <1>3, <1>8 DEF StartPoll, ReadHistory, PollFails, Allocate, Restart, vars, chain
<1>9. ASSUME NEW o \in Orders, Place(o) \/ Cancel(o) \/ Drop(o)
      PROVE  UNCHANGED <<trades, now>>
  BY <1>9 DEF Place, Cancel, Drop, chain
<1> QED
  BY <1>3, <1>4, <1>6, <1>7, <1>8, <1>9 DEF Next

(* Only the clock and the read of a history change what the times and the  *)
(* history of a poll are.                                                  *)
LEMMA HistoryInductive == Spec => []HistoryInv
<1>1. Init => HistoryInv
  <2> SUFFICES ASSUME Init
               PROVE  HistoryInv
    OBVIOUS
  <2>1. DOMAIN trades = {} /\ poll.history = {}
    BY EmptySeq DEF Init, Idle
  <2>2. \A m, n \in Sizes : hash[m] = hash[n] => m = n
    BY DEF Init, IsInjective
  <2> QED
    BY <2>1, <2>2 DEF HistoryInv
<1>2. Types /\ HistoryInv /\ [Next]_vars => HistoryInv'
  <2> SUFFICES ASSUME Types, HistoryInv, [Next]_vars
               PROVE  HistoryInv'
    OBVIOUS
  <2>1. /\ now \in Nat /\ now' \in Nat /\ now' >= now /\ hash' = hash
        /\ \/ poll'.history = {} \/ poll'.history = poll.history
           \/ trades' = trades /\ now' = now /\ poll'.history = LastTrades(HistoryLimit)
    <3>1. now \in Nat
      BY DEF Types, OrderType
    <3>2. CASE StartPoll
      <4>1. poll' = [poll EXCEPT !.pc = "history", !.orders = listed] /\ UNCHANGED chain
        BY <3>2 DEF StartPoll
      <4> QED
        BY <3>1, <4>1 DEF chain, Types, OrderType
    <3>6. CASE PollFails \/ Allocate \/ Restart
      BY <3>1, <3>6 DEF PollFails, Allocate, Restart, Idle, chain
    <3>7. CASE Tick \/ UNCHANGED vars
      BY <3>1, <3>7 DEF Tick, vars, chain
    <3>3. CASE ReadHistory
      BY <3>1, <3>3 DEF ReadHistory, chain, Types, OrderType
    <3>4. ASSUME NEW o \in Orders, Place(o) \/ Cancel(o) \/ Drop(o) \/ Trade(o)
          PROVE  now' = now /\ hash' = hash /\ poll' = poll
      BY <3>4 DEF Place, Cancel, Drop, Trade, Execute, chain
    <3>5. CASE OtherTrade
      BY <3>1, <3>5 DEF OtherTrade, Execute
    <3> QED
      BY <3>1, <3>2, <3>3, <3>4, <3>5, <3>6, <3>7 DEF Next
  <2>2. /\ DOMAIN trades \subseteq DOMAIN trades'
        /\ \A k \in DOMAIN trades : trades'[k] = trades[k]
    BY TradesStay
  <2>3. \A k \in DOMAIN trades' : trades'[k].at <= now'
    <3>1. ASSUME NEW k \in DOMAIN trades'
          PROVE  \/ k \in DOMAIN trades
                 \/ trades'[k].at = now
      <4>1. ASSUME NEW owner \in Orders \cup {Other, Stranger}, NEW b \in Buckets, NEW n \in Sizes,
                   Execute(owner, b, n)
            PROVE  k \in DOMAIN trades \/ trades'[k].at = now
        <5>1. /\ DOMAIN trades' = DOMAIN trades \cup {Len(trades) + 1}
              /\ trades'[Len(trades) + 1] = [owner |-> owner, bucket |-> b, amount |-> n, at |-> now]
          BY <4>1, ExecuteTypes
        <5> QED
          BY <5>1
      <4>2. ASSUME NEW o \in Orders, Trade(o)
            PROVE  k \in DOMAIN trades \/ trades'[k].at = now
        BY <4>1, <4>2, Numbers DEF Trade
      <4>3. CASE OtherTrade
        BY <4>1, <4>3 DEF OtherTrade
      <4>4. CASE UNCHANGED trades
        BY <4>4
      <4>5. CASE StartPoll \/ ReadHistory \/ PollFails \/ Allocate \/ Tick \/ Restart \/ UNCHANGED vars
        BY <4>4, <4>5 DEF StartPoll, ReadHistory, PollFails, Allocate, Tick, Restart, vars, chain
      <4>6. ASSUME NEW o \in Orders, Place(o) \/ Cancel(o) \/ Drop(o)
            PROVE  UNCHANGED trades
        BY <4>6 DEF Place, Cancel, Drop, chain
      <4> QED
        BY <4>2, <4>3, <4>4, <4>5, <4>6 DEF Next
    <3>2. \A k \in DOMAIN trades : trades[k].at \in Nat /\ trades[k].at <= now
      BY TradeFields DEF Types, HistoryInv
    <3> QED
      BY <2>1, <2>2, <3>1, <3>2
  <2>4. ASSUME NEW k \in poll'.history
        PROVE  /\ trades'[k].at < now'
               /\ \A j \in LastTrades(HistoryLimit)' :
                    trades'[j].at <= trades'[k].at => j \in poll'.history
    <3>1. \A j \in DOMAIN trades : trades[j].at \in Nat
      BY TradeFields DEF Types
    <3>2. CASE trades' = trades /\ now' = now /\ poll'.history = LastTrades(HistoryLimit)
      <4>1. trades[k].at < now
        BY <2>4, <3>2 DEF LastTrades, Shown
      <4>2. LastTrades(HistoryLimit)' = LastTrades(HistoryLimit)
        BY <3>2 DEF LastTrades, Shown
      <4> QED
        BY <3>2, <4>1, <4>2
    <3>3. CASE poll'.history = poll.history
      <4>1. k \in DOMAIN trades /\ trades[k].at < now /\ trades'[k] = trades[k]
        BY <2>2, <2>4, <3>3 DEF HistoryInv, Types, OrderType
      <4>2. ASSUME NEW j \in LastTrades(HistoryLimit)', trades'[j].at <= trades'[k].at
            PROVE  j \in poll.history
        <5>1. CASE j \in DOMAIN trades' /\ trades'[j].at >= now
          <6>1. trades'[j].at \in Nat
            <7>1. trades' \in Seq(Trades)
              BY TypesStay DEF Types, TradeType
            <7>2. trades'[j] \in Trades
              BY <5>1, <7>1, LenProperties, ElementOfSeq
            <7> QED
              BY <7>2, FillsAssumption DEF Trades
          <6> QED
            BY <2>1, <3>1, <4>1, <4>2, <5>1, <6>1
        <5>2. CASE j \in LastTrades(HistoryLimit) /\ trades'[j] = trades[j]
          BY <2>4, <3>3, <4>1, <4>2, <5>2 DEF HistoryInv
        <5> QED
          BY <5>1, <5>2, WindowSlides
      <4> QED
        BY <2>1, <3>1, <3>3, <4>1, <4>2
    <3> QED
      BY <2>1, <2>4, <3>2, <3>3
  <2> QED
    BY <2>1, <2>3, <2>4 DEF HistoryInv
<1> QED
  BY <1>1, <1>2, TypesInductive, PTL DEF Spec

(* Orders are placed by their ids, one placed after another is no older,   *)
(* and what is listed while a poll runs and not in it was placed since.    *)
AgeInv ==
  /\ \A p \in placed, q \in Orders : q < p => q \in placed
  /\ \A p, q \in placed : p < q => createdAt[p] <= createdAt[q]
  /\ \A q \in listed \ poll.orders, p \in poll.orders : p < q
  /\ poll.pc # "idle" => \A q \in listed \ poll.orders : processed[q] = {}

(* Only a placement adds an order, the youngest one, to the list.          *)
LEMMA AgeInductive == Spec => []AgeInv
<1>1. Init => AgeInv
  BY DEF Init, AgeInv, Idle
<1>2. Types /\ OwnInv /\ TrackedInv /\ AgeInv /\ [Next]_vars => AgeInv'
  <2> SUFFICES ASSUME Types, OwnInv, TrackedInv, AgeInv, [Next]_vars
               PROVE  AgeInv'
    OBVIOUS
  <2>1. poll.orders \subseteq placed /\ listed \subseteq placed /\ placed \subseteq Orders
        /\ \A o \in Orders : o \in Nat
    BY Numbers DEF Types, OrderType
  <2>2. CASE UNCHANGED <<placed, createdAt, listed, processed, poll>>
    BY <2>2 DEF AgeInv
  <2>3. CASE StartPoll
    <3>1. poll'.orders = listed /\ UNCHANGED <<placed, createdAt, listed, processed>>
      BY <2>3 DEF StartPoll, tracker, Types, OrderType
    <3> QED
      BY <3>1 DEF AgeInv
  <2>4. CASE ReadHistory
    <3>1. poll.pc # "idle" /\ poll'.orders = poll.orders
          /\ UNCHANGED <<placed, createdAt, listed, processed>>
      BY <2>4 DEF ReadHistory, tracker, Types, OrderType
    <3> QED
      BY <3>1 DEF AgeInv
  <2>5. CASE Allocate \/ PollFails \/ Restart
    <3>1. poll' = Idle /\ placed' = placed /\ createdAt' = createdAt
      BY <2>5 DEF Allocate, PollFails, Restart, tracker
    <3> QED
      BY <3>1 DEF AgeInv, Idle
  <2>6. ASSUME NEW o \in Orders, Place(o)
        PROVE  AgeInv'
    <3>1. /\ o \notin placed /\ \A q \in Orders : q < o => q \in placed
          /\ placed' = placed \cup {o} /\ listed' = listed \cup {o}
          /\ createdAt' = [createdAt EXCEPT ![o] = now]
          /\ UNCHANGED <<processed, poll>>
      BY <2>6 DEF Place
    <3>2. \A p \in placed : p < o
      <4>1. \A p \in placed : ~(o < p)
        BY <3>1 DEF AgeInv
      <4> QED
        BY <2>1, <3>1, <4>1
    <3>3. createdAt'[o] = now /\ \A p \in placed : createdAt'[p] = createdAt[p] /\ createdAt[p] <= now
      BY <2>1, <3>1 DEF OwnInv, Types, OrderType
    <3>4. \A p \in placed', q \in Orders : q < p => q \in placed'
      BY <3>1 DEF AgeInv
    <3>5. \A p, q \in placed' : p < q => createdAt'[p] <= createdAt'[q]
      <4>1. \A q \in placed : ~(o < q) /\ ~(o < o)
        BY <2>1, <3>2
      <4> QED
        BY <3>1, <3>3, <4>1 DEF AgeInv
    <3>6. \A q \in listed' \ poll'.orders, p \in poll'.orders : p < q
      BY <2>1, <3>1, <3>2 DEF AgeInv
    <3>7. poll'.pc # "idle" => \A q \in listed' \ poll'.orders : processed'[q] = {}
      BY <3>1 DEF AgeInv, TrackedInv
    <3> QED
      BY <3>4, <3>5, <3>6, <3>7 DEF AgeInv
  <2>7. ASSUME NEW o \in Orders, Drop(o)
        PROVE  AgeInv'
    BY <2>7 DEF Drop, AgeInv
  <2>8. ASSUME NEW o \in Orders, Trade(o) \/ Cancel(o)
        PROVE  UNCHANGED <<placed, createdAt, listed, processed, poll>>
    BY <2>8 DEF Trade, Cancel, Execute, tracker
  <2>9. CASE OtherTrade \/ Tick \/ UNCHANGED vars
    BY <2>2, <2>9 DEF OtherTrade, Tick, Execute, vars, tracker
  <2> QED
    BY <2>2, <2>3, <2>4, <2>5, <2>6, <2>7, <2>8, <2>9 DEF Next
<1> QED
  BY <1>1, <1>2, TypesInductive, OwnInductive, TrackedInductive, PTL DEF Spec

(* What was processed is of the order's bucket and of a second that is     *)
(* over, and, unless the connector restarted, holds all of its fills.      *)
MarkInv ==
  \A o \in Orders :
    /\ restarts = 0 => {f.trade : f \in fills[o]} \subseteq processed[o]
    /\ \A f \in processed[o] : f.bucket = BucketOf[o] /\ f.at < now

(* Only an allocation marks and fills, from a history that is over.        *)
LEMMA MarkInductive == Spec => []MarkInv
<1>1. Init => MarkInv
  BY DEF Init, MarkInv
<1>2. Types /\ HistoryInv /\ MarkInv /\ [Next]_vars => MarkInv'
  <2> SUFFICES ASSUME Types, HistoryInv, MarkInv, [Next]_vars
               PROVE  MarkInv'
    OBVIOUS
  <2>1. now \in Nat /\ restarts \in Nat
    BY DEF Types, OrderType
  <2>2. CASE UNCHANGED <<fills, processed, restarts, now>>
    BY <2>2 DEF MarkInv
  <2>3. CASE StartPoll \/ ReadHistory \/ PollFails \/ UNCHANGED vars
    BY <2>2, <2>3 DEF StartPoll, ReadHistory, PollFails, vars, chain, tracker
  <2>4. ASSUME NEW o \in Orders, Place(o) \/ Trade(o) \/ Cancel(o) \/ Drop(o)
        PROVE  UNCHANGED <<fills, processed, restarts, now>>
    BY <2>4 DEF Place, Trade, Cancel, Drop, Execute, chain, tracker
  <2>5. CASE OtherTrade
    BY <2>2, <2>5 DEF OtherTrade, Execute, tracker
  <2>6. CASE Tick
    <3>1. now' = now + 1 /\ UNCHANGED <<fills, processed, restarts>>
      BY <2>6 DEF Tick, tracker
    <3>2. \A o \in Orders : \A f \in processed[o] : f.at \in Nat
      BY FillsAssumption DEF Types, FillsType, Fingerprints
    <3> QED
      BY <2>1, <3>1, <3>2 DEF MarkInv
  <2>7. CASE Restart
    <3>1. restarts' # 0 /\ processed' = [o \in Orders |-> {}]
      BY <2>1, <2>7 DEF Restart
    <3> QED
      BY <3>1 DEF MarkInv
  <2>8. CASE Allocate
    <3> DEFINE all == Updates(poll.orders, poll.history)
    <3>1. /\ processed' = [o \in Orders |->
                           processed[o] \cup {u.trade : u \in {v \in all : v.ord = o}}]
          /\ UNCHANGED <<restarts, now>>
      BY <2>8 DEF Allocate, chain
    <3>2. /\ poll.orders \in SUBSET Orders /\ IsFiniteSet(poll.orders)
          /\ poll.history \in SUBSET (DOMAIN trades)
      BY FS_Subset DEF Types, OrderType
    <3>3. ASSUME NEW u \in all
          PROVE  u.trade.bucket = BucketOf[u.ord] /\ u.trade.at < now
      <4>1. Credit(u, Matching(poll.history, BucketOf[u.ord], poll.orders))
        BY <3>2, UpdatesCredit DEF Types
      <4>2. PICK k \in Matching(poll.history, BucketOf[u.ord], poll.orders) :
              u.trade = Fingerprint(trades[k])
        BY <4>1 DEF Credit
      <4>3. k \in poll.history /\ trades[k].bucket = BucketOf[u.ord]
        BY <4>2 DEF Matching, Matches
      <4> QED
        BY <4>2, <4>3 DEF HistoryInv, Fingerprint
    <3>4. ASSUME NEW o \in Orders, NEW f \in fills'[o], restarts = 0
          PROVE  f.trade \in processed'[o]
      <4>1. CASE f \in fills[o]
        BY <3>1, <3>4, <4>1 DEF MarkInv
      <4>2. CASE f \notin fills[o]
        <5> DEFINE u == [ord |-> o, trade |-> f.trade, amount |-> f.amount]
        <5>1. u \in all /\ u.ord = o /\ u.trade = f.trade
          BY <2>8, <4>2, AllocateCredits
        <5> HIDE DEF all, u
        <5> QED
          BY <3>1, <5>1
      <4> QED
        BY <4>1, <4>2
    <3> HIDE DEF all
    <3>5. \A o \in Orders : \A f \in processed'[o] : f.bucket = BucketOf[o] /\ f.at < now
      BY <3>1, <3>3 DEF MarkInv
    <3> QED
      BY <3>1, <3>4, <3>5 DEF MarkInv
  <2> QED
    BY <2>2, <2>3, <2>4, <2>5, <2>6, <2>7, <2>8 DEF Next
<1> QED
  BY <1>1, <1>2, TypesInductive, HistoryInductive, PTL DEF Spec

-----------------------------------------------------------------------------
(* The inner loop: the trade t meets the orders of the bucket B, v of them *)
(* so far; it entered with the loop at l, which is at w now.               *)

(* The order o was dealt f before or in this allocation.                   *)
Marked(l, o, f) == f \in processed[o] \/ \E u \in l.updates : u.ord = o /\ u.trade = f

(* There is no room left in o, or none after this allocation.              *)
Spent(l, o) == Remaining(o) = 0 \/ \E u \in l.updates : u.ord = o /\ u.amount >= Remaining(o)

(* On the way to p there is an order that was dealt f.                     *)
Met(l, B, p, f) == \E q \in B : q <= p /\ Marked(l, q, f)

(* An order before from is spent; a trade that was stopped or used up met  *)
(* an order it was dealt to, another left all it visited behind; and so it *)
(* does on the way to any order it visited that was not left behind.       *)
Walk(w, l, t, B, v) ==
  /\ l.updates \subseteq w.updates /\ l.from <= w.from
  /\ \A o \in B : o < w.from => Spent(w, o)
  /\ \A u \in w.updates \ l.updates :
       /\ u.trade = Fingerprint(t) /\ u.ord \in B /\ u.ord >= l.from
       /\ \A q \in B : q < u.ord => Spent(w, q) \/ Met(w, B, q, u.trade)
  /\ IF w.stop \/ w.rest = 0 THEN \E q \in v : Marked(w, q, Fingerprint(t))
                             ELSE \A p \in v : p < w.from
  /\ \A p \in v : p >= w.from => Met(w, B, p, Fingerprint(t))

(* A trade that was dealt to p before, with all orders ahead of p full,    *)
(* stops at p at the latest and credits nothing.                           *)
Halt(w, l, t, B, v) ==
  \A p \in B :
    /\ Fingerprint(t) \in processed[p] /\ l.from <= p
    /\ \A q \in B : q < p => Remaining(q) = 0
    => w.updates = l.updates /\ w.from <= p /\ w.rest # 0 /\ (p \in v => w.stop)

(* The updates take no more than the trade has.                            *)
CreditsOf(l, f) == {u \in l.updates : u.trade = f}
Spend(w, l, t) == /\ SumOf(CreditsOf(w, Fingerprint(t))) + w.rest
                       <= SumOf(CreditsOf(l, Fingerprint(t))) + t.amount

(* A pass at o takes the loop from w to r: past, when o is left behind or  *)
(* the trade is used up or stopped, to its stop, past a full order, or to  *)
(* an update of n.                                                         *)
PassBy(w, r, o) == (o < w.from \/ w.rest = 0 \/ w.stop) /\ r = w
Open(w, o) == o >= w.from /\ w.rest # 0 /\ ~w.stop
PassStop(w, r, t, o) == /\ Open(w, o) /\ Marked(w, o, Fingerprint(t))
                        /\ r.updates = w.updates /\ r.from = w.from /\ r.rest = w.rest /\ r.stop
PassFull(w, r, t, o) == /\ Open(w, o) /\ ~Marked(w, o, Fingerprint(t)) /\ Remaining(o) = 0
                        /\ r.updates = w.updates /\ r.from = o + 1 /\ r.rest = w.rest /\ ~r.stop
PassFill(w, r, t, o, n) ==
  /\ Open(w, o) /\ ~Marked(w, o, Fingerprint(t)) /\ Remaining(o) # 0
  /\ n <= w.rest /\ n <= Remaining(o) /\ (n = w.rest \/ n = Remaining(o))
  /\ r.updates = w.updates \cup {[ord |-> o, trade |-> Fingerprint(t), amount |-> n]}
  /\ r.from = IF n >= Remaining(o) THEN o + 1 ELSE o
  /\ r.rest = w.rest - n /\ ~r.stop

Pass(w, r, t, o) == \/ PassBy(w, r, o) \/ PassStop(w, r, t, o) \/ PassFull(w, r, t, o)
                    \/ \E n \in Nat : PassFill(w, r, t, o, n)

(* What the model does at an order is such a pass.                         *)
LEMMA AtOrderPasses ==
  ASSUME TradeType, FillsType, NEW B \in SUBSET Orders, NEW o \in B,
         NEW M \in SUBSET (DOMAIN trades), NEW k \in M, NEW w \in Loops(B, M)
  PROVE  Pass(w, AtOrder(w, trades[k], o), trades[k], o)
<1> DEFINE r == AtOrder(w, trades[k], o)
           n == FillAmount(o, w.rest)
<1>1. w \in [from : Nat, rest : Nat, stop : BOOLEAN, updates : SUBSET UpdatesOf(B)]
  BY DEF Loops
<1>2. o \in Nat /\ Remaining(o) \in Nat
  BY Numbers, RemainingType
<1>3. Processed(w, trades[k], o) <=> Marked(w, o, Fingerprint(trades[k]))
  BY DEF Processed, Marked
<1>4. CASE o < w.from \/ w.rest = 0 \/ w.stop
  BY <1>4 DEF AtOrder, Pass, PassBy
<1>5. CASE ~(o < w.from \/ w.rest = 0 \/ w.stop)
  <2>1. Open(w, o)
    BY <1>1, <1>2, <1>5 DEF Open
  <2>2. CASE Processed(w, trades[k], o)
    <3>1. r = [w EXCEPT !.stop = TRUE]
      BY <1>5, <2>2 DEF AtOrder
    <3>2. r.updates = w.updates /\ r.from = w.from /\ r.rest = w.rest /\ r.stop
      BY <1>1, <3>1
    <3> QED
      BY <1>3, <2>1, <2>2, <3>2 DEF Pass, PassStop
  <2>3. CASE ~Processed(w, trades[k], o) /\ Remaining(o) = 0
    <3>1. r = [w EXCEPT !.from = o + 1]
      BY <1>5, <2>3 DEF AtOrder
    <3>2. r.updates = w.updates /\ r.from = o + 1 /\ r.rest = w.rest /\ ~r.stop
      BY <1>1, <1>5, <3>1
    <3> QED
      BY <1>3, <2>1, <2>3, <3>2 DEF Pass, PassFull
  <2>4. CASE ~Processed(w, trades[k], o) /\ Remaining(o) # 0
    <3>1. r = [from |-> IF n >= Remaining(o) THEN o + 1 ELSE o, rest |-> w.rest - n,
               stop |-> FALSE,
               updates |-> w.updates \cup
                 {[ord |-> o, trade |-> Fingerprint(trades[k]), amount |-> n]}]
      BY <1>5, <2>4 DEF AtOrder
    <3>2. n \in Nat /\ n <= w.rest /\ n <= Remaining(o) /\ (n = w.rest \/ n = Remaining(o))
      BY <1>1, <1>2 DEF FillAmount
    <3>3. /\ r.updates = w.updates \cup
               {[ord |-> o, trade |-> Fingerprint(trades[k]), amount |-> n]}
          /\ r.from = IF n >= Remaining(o) THEN o + 1 ELSE o
          /\ r.rest = w.rest - n /\ ~r.stop
      BY <3>1
    <3> HIDE DEF r, n
    <3>4. PassFill(w, r, trades[k], o, n)
      BY <1>3, <2>1, <2>4, <3>2, <3>3 DEF PassFill
    <3> QED
      BY <3>2, <3>4 DEF Pass, r
  <2> QED
    BY <2>2, <2>3, <2>4
<1> QED
  BY <1>4, <1>5

(* What o was dealt and that it is spent stays.                            *)
LEMMA MarksStay ==
  ASSUME NEW w, NEW r, w.updates \subseteq r.updates
  PROVE  /\ \A o, f : Marked(w, o, f) => Marked(r, o, f)
         /\ \A o : Spent(w, o) => Spent(r, o)
         /\ \A B, p, f : Met(w, B, p, f) => Met(r, B, p, f)
  BY DEF Marked, Spent, Met

(* A pass at the next order of the bucket keeps the walk.                  *)
LEMMA WalkStep ==
  ASSUME NEW B \in SUBSET Nat, NEW v \in SUBSET B, NEW o \in B, \A q \in v : q < o,
         \A q \in B : q < o => q \in v, Remaining(o) \in Nat,
         NEW t, NEW l, l.from \in Nat,
         NEW w, w.from \in Nat, w.rest \in Nat, NEW r, r.rest \in Nat,
         Walk(w, l, t, B, v), Pass(w, r, t, o)
  PROVE  Walk(r, l, t, B, v \cup {o})
<1> DEFINE fp == Fingerprint(t)
           s == v \cup {o}
<1>1. CASE PassBy(w, r, o)
  <2>1. r = w
    BY <1>1 DEF PassBy
  <2>2. IF w.stop \/ w.rest = 0 THEN \E q \in s : Marked(w, q, fp)
                                ELSE \A p \in s : p < w.from
    BY <1>1 DEF Walk, PassBy
  <2>3. \A p \in s : p >= w.from => Met(w, B, p, fp)
    <3>1. CASE o < w.from
      <4>1. ~(o >= w.from) /\ \A p \in v : p >= w.from => Met(w, B, p, fp)
        BY <3>1 DEF Walk
      <4> QED
        BY <4>1
    <3>2. CASE w.rest = 0 \/ w.stop
      <4>1. PICK q \in v : Marked(w, q, fp)
        BY <3>2 DEF Walk
      <4>2. Met(w, B, o, fp)
        BY <4>1 DEF Met
      <4> QED
        BY <4>2 DEF Walk
    <3> QED
      BY <1>1, <3>1, <3>2 DEF PassBy
  <2> QED
    BY <2>1, <2>2, <2>3 DEF Walk
<1>2. CASE PassStop(w, r, t, o)
  <2>1. r.updates = w.updates /\ r.from = w.from /\ Marked(w, o, fp)
    BY <1>2 DEF PassStop
  <2>2. /\ \A q, f : Marked(w, q, f) => Marked(r, q, f)
        /\ \A q : Spent(w, q) => Spent(r, q)
        /\ \A p, f : Met(w, B, p, f) => Met(r, B, p, f)
    BY <2>1, MarksStay
  <2>3. Met(r, B, o, fp) /\ Marked(r, o, fp) /\ r.stop
    BY <1>2, <2>1, <2>2 DEF Met, PassStop
  <2>4. \A p \in s : p >= r.from => Met(r, B, p, fp)
    BY <2>1, <2>2, <2>3 DEF Walk
  <2>5. IF r.stop \/ r.rest = 0 THEN \E q \in s : Marked(r, q, fp)
                                ELSE \A p \in s : p < r.from
    BY <2>3
  <2>6. \A u \in r.updates \ l.updates :
          /\ u.trade = fp /\ u.ord \in B /\ u.ord >= l.from
          /\ \A q \in B : q < u.ord => Spent(r, q) \/ Met(r, B, q, u.trade)
    BY <2>1, <2>2 DEF Walk
  <2>7. /\ l.updates \subseteq r.updates /\ l.from <= r.from
        /\ \A q \in B : q < r.from => Spent(r, q)
    BY <2>1, <2>2 DEF Walk
  <2> HIDE DEF s
  <2>8. Walk(r, l, t, B, s)
    BY <2>4, <2>5, <2>6, <2>7 DEF Walk
  <2> QED
    BY <2>8 DEF s
<1>3. CASE PassFull(w, r, t, o)
  <2>1. /\ r.updates = w.updates /\ r.from = o + 1 /\ r.rest = w.rest /\ ~r.stop
        /\ Remaining(o) = 0 /\ w.rest # 0 /\ w.from <= o
    BY <1>3 DEF PassFull, Open
  <2>2. /\ \A q : Spent(w, q) => Spent(r, q)
        /\ \A p, f : Met(w, B, p, f) => Met(r, B, p, f)
    BY <2>1, MarksStay
  <2>3. Spent(r, o)
    BY <2>1 DEF Spent
  <2>4. \A p \in v : p < w.from
    BY <1>3 DEF Walk, PassFull, Open
  <2>5. \A q \in B : q < o + 1 => Spent(r, q)
    <3>1. \A q \in B : q < o => Spent(w, q)
      BY <2>4 DEF Walk
    <3>2. \A q \in B : q < o + 1 => q < o \/ q = o
      OBVIOUS
    <3> QED
      BY <2>2, <2>3, <3>1, <3>2
  <2>6. \A p \in s : p < o + 1 /\ ~(p >= o + 1)
    OBVIOUS
  <2> QED
    BY <2>1, <2>2, <2>5, <2>6 DEF Walk
<1>4. ASSUME NEW n \in Nat, PassFill(w, r, t, o, n)
      PROVE  Walk(r, l, t, B, s)
  <2> DEFINE u == [ord |-> o, trade |-> fp, amount |-> n]
  <2>1. /\ r.updates = w.updates \cup {u} /\ r.rest = w.rest - n /\ ~r.stop
        /\ r.from = IF n >= Remaining(o) THEN o + 1 ELSE o
        /\ w.rest # 0 /\ ~w.stop /\ w.from <= o
        /\ n = w.rest \/ n = Remaining(o)
    BY <1>4 DEF PassFill, Open
  <2>2. u.ord = o /\ u.trade = fp /\ u.amount = n
    OBVIOUS
  <2> HIDE DEF u
  <2>3. /\ \A q : Spent(w, q) => Spent(r, q)
        /\ \A p, f : Met(w, B, p, f) => Met(r, B, p, f)
    BY <2>1, MarksStay
  <2>4. Marked(r, o, fp) /\ Met(r, B, o, fp)
    <3>1. u \in r.updates
      BY <2>1
    <3>2. Marked(r, o, fp)
      BY <2>2, <3>1 DEF Marked
    <3> QED
      BY <3>2 DEF Met
  <2>5. n >= Remaining(o) => Spent(r, o)
    BY <2>1, <2>2 DEF Spent
  <2>6. \A q \in B : q < o => Spent(w, q)
    BY <2>1 DEF Walk
  <2>7. \A q \in B : q < r.from => Spent(r, q)
    <3>1. \A q \in B : q < o + 1 => q < o \/ q = o
      OBVIOUS
    <3> QED
      BY <2>1, <2>3, <2>5, <2>6, <3>1
  <2>8. \A x \in r.updates \ l.updates :
          /\ x.trade = fp /\ x.ord \in B /\ x.ord >= l.from
          /\ \A q \in B : q < x.ord => Spent(r, q) \/ Met(r, B, q, x.trade)
    <3>1. o >= l.from
      BY <2>1 DEF Walk
    <3>2. ASSUME NEW x \in r.updates \ l.updates
          PROVE  \/ x \in w.updates \ l.updates
                 \/ x = u
      BY <2>1
    <3> QED
      BY <2>2, <2>3, <2>6, <3>1, <3>2 DEF Walk
  <2>9. l.updates \subseteq r.updates /\ l.from <= r.from
    BY <2>1 DEF Walk
  <2>10. IF r.stop \/ r.rest = 0 THEN \E q \in s : Marked(r, q, fp)
                                 ELSE \A p \in s : p < r.from
    <3>1. r.rest # 0 => r.from = o + 1
      BY <2>1
    <3>2. \A p \in s : p < o + 1
      OBVIOUS
    <3>3. r.rest = 0 => \E q \in s : Marked(r, q, fp)
      BY <2>4
    <3> QED
      BY <2>1, <3>1, <3>2, <3>3
  <2>11. \A p \in s : p >= r.from => Met(r, B, p, fp)
    <3>1. \A p \in v : ~(p >= r.from)
      BY <2>1
    <3> QED
      BY <2>4, <3>1
  <2> QED
    BY <2>7, <2>8, <2>9, <2>10, <2>11 DEF Walk
<1> QED
  BY <1>1, <1>2, <1>3, <1>4 DEF Pass

(* And so does a trade that was dealt before stay halted.                  *)
LEMMA HaltStep ==
  ASSUME NEW B \in SUBSET Nat, NEW v \in SUBSET B, NEW o \in B, \A q \in v : q < o,
         \A q \in B : q < o => q \in v,
         NEW t, NEW l, NEW w, w.from \in Nat, NEW r,
         Halt(w, l, t, B, v), Pass(w, r, t, o)
  PROVE  Halt(r, l, t, B, v \cup {o})
<1> SUFFICES ASSUME NEW p \in B, Fingerprint(t) \in processed[p], l.from <= p,
                    \A q \in B : q < p => Remaining(q) = 0
             PROVE  /\ r.updates = l.updates /\ r.from <= p /\ r.rest # 0
                    /\ p \in v \cup {o} => r.stop
  BY DEF Halt
<1>1. w.updates = l.updates /\ w.from <= p /\ w.rest # 0 /\ (p \in v => w.stop)
  BY DEF Halt
<1>2. p \in v \/ p = o \/ o < p
  OBVIOUS
<1>3. CASE PassBy(w, r, o)
  BY <1>1, <1>3 DEF PassBy
<1>4. CASE PassStop(w, r, t, o)
  BY <1>1, <1>4 DEF PassStop
<1>5. ASSUME ~w.stop, ~Marked(w, o, Fingerprint(t))
      PROVE  o < p /\ p \notin v \cup {o}
  <2>1. p # o /\ p \notin v
    BY <1>1, <1>5 DEF Marked
  <2> QED
    BY <1>2, <2>1
<1>6. CASE PassFull(w, r, t, o)
  BY <1>1, <1>5, <1>6 DEF PassFull, Open
<1>7. ASSUME NEW n \in Nat, PassFill(w, r, t, o, n)
      PROVE  FALSE
  BY <1>5, <1>7 DEF PassFill, Open
<1> QED
  BY <1>3, <1>4, <1>6, <1>7 DEF Pass

(* What is credited is taken from the trade.                               *)
LEMMA SpendStep ==
  ASSUME NEW B, NEW M, NEW w \in Loops(B, M), NEW o \in B, NEW t, NEW l, NEW r,
         t.amount \in Nat, SumOf(CreditsOf(l, Fingerprint(t))) \in Nat,
         Spend(w, l, t), Pass(w, r, t, o)
  PROVE  Spend(r, l, t)
<1> DEFINE fp == Fingerprint(t)
           C == CreditsOf(w, fp)
<1>1. /\ IsFiniteSet(C) /\ \A u \in C : u.amount \in Nat
      /\ w.rest \in Nat
  <2>1. /\ IsFiniteSet(w.updates) /\ C \subseteq w.updates /\ w.rest \in Nat
        /\ w.updates \subseteq UpdatesOf(B)
    BY DEF Loops, CreditsOf
  <2> QED
    BY <2>1, FS_Subset DEF UpdatesOf
<1>2. CASE r.updates = w.updates /\ r.rest = w.rest
  BY <1>2 DEF Spend, CreditsOf
<1>3. ASSUME NEW n \in Nat, PassFill(w, r, t, o, n)
      PROVE  Spend(r, l, t)
  <2> DEFINE u == [ord |-> o, trade |-> fp, amount |-> n]
             D == CreditsOf(r, fp)
  <2>1. r.updates = w.updates \cup {u} /\ r.rest = w.rest - n /\ n <= w.rest /\ ~Marked(w, o, fp)
    BY <1>3 DEF PassFill
  <2>2. u.ord = o /\ u.trade = fp /\ u.amount = n
    OBVIOUS
  <2>3. u \notin C
    BY <2>1, <2>2 DEF Marked, CreditsOf
  <2>4. D = C \cup {u}
    BY <2>1 DEF CreditsOf
  <2> HIDE DEF u, C, D
  <2>5. IsFiniteSet(D) /\ D \ {u} = C /\ u \in D /\ \A x \in D : x.amount \in Nat
    BY <1>1, <2>2, <2>3, <2>4, FS_AddElement
  <2>6. SumOf(D) = n + SumOf(C)
    BY <2>2, <2>5, SumOfAmounts
  <2>7. SumOf(C) \in Nat
    BY <1>1, SumOfAmounts
  <2>8. SumOf(C) + w.rest <= SumOf(CreditsOf(l, fp)) + t.amount
    BY DEF Spend, C
  <2>9. SumOf(D) + r.rest <= SumOf(CreditsOf(l, fp)) + t.amount
    BY <1>1, <2>1, <2>6, <2>7, <2>8
  <2> QED
    BY <2>9 DEF Spend, D
<1> QED
  BY <1>2, <1>3 DEF Pass, PassBy, PassStop, PassFull

(* The orders that were left behind are spent.                             *)
Behind(l, B) == \A o \in B : o < l.from => Spent(l, o)

(* The inner loop keeps all of this, for a trade of M.                     *)
Inner(w, l, t, B, v) == Walk(w, l, t, B, v) /\ Halt(w, l, t, B, v) /\ Spend(w, l, t)

(* By the orders visited, oldest first: entered, then a pass at each.      *)
LEMMA InnerLoop ==
  ASSUME TradeType, FillsType, NEW B \in SUBSET Orders, IsFiniteSet(B),
         NEW M \in SUBSET (DOMAIN trades), NEW k \in M, NEW l \in Loops(B, M),
         Behind(l, B)
  PROVE  Inner(AtTrade(l, trades[k], B), l, trades[k], B, B)
<1>1. PICK iter \in [SUBSET B -> Loops(B, M)] :
        /\ iter[{}] = Enter(l, trades[k])
        /\ \A s \in SUBSET B : s # {} => Visits(iter, trades[k], s)
        /\ AtTrade(l, trades[k], B) = iter[B]
  BY AtTradeVisits
<1> DEFINE t == trades[k]
           First(s) == \A o \in s, q \in B : q < o => q \in s
           U == {s \in SUBSET B : First(s) /\ ~Inner(iter[s], l, t, B, s)}
<1>2. B \in SUBSET Nat /\ \A o \in B : Remaining(o) \in Nat
  BY Numbers, RemainingType
<1>3. t.amount \in Nat /\ t.amount # 0
  BY TradeFields
<1>4. SumOf(CreditsOf(l, Fingerprint(t))) \in Nat
  <2>1. /\ IsFiniteSet(l.updates) /\ CreditsOf(l, Fingerprint(t)) \subseteq l.updates
        /\ l.updates \subseteq UpdatesOf(B)
    BY DEF Loops, CreditsOf
  <2>2. \A u \in CreditsOf(l, Fingerprint(t)) : u.amount \in Nat
    BY <2>1 DEF UpdatesOf
  <2>3. IsFiniteSet(CreditsOf(l, Fingerprint(t)))
    BY <2>1, FS_Subset
  <2> QED
    BY <2>2, <2>3, SumOfAmounts
<1>5. l.from \in Nat
  BY DEF Loops
<1>6. Inner(iter[{}], l, t, B, {})
  <2> DEFINE e == iter[{}]
  <2>1. e.from = l.from /\ e.updates = l.updates /\ e.rest = t.amount /\ e.stop = FALSE
    <3>1. l \in [from : Nat, rest : Nat, stop : BOOLEAN, updates : SUBSET UpdatesOf(B)]
      BY DEF Loops
    <3>2. e = Enter(l, t)
      BY <1>1
    <3> HIDE DEF t, e
    <3> QED
      BY <3>1, <3>2 DEF Enter
  <2> HIDE DEF t, e
  <2>2. \A o : Spent(l, o) => Spent(e, o)
    BY <2>1 DEF Spent
  <2>3. Walk(e, l, t, B, {})
    BY <1>3, <1>5, <2>1, <2>2 DEF Walk, Behind
  <2>4. Halt(e, l, t, B, {})
    BY <1>3, <2>1 DEF Halt
  <2>5. Spend(e, l, t)
    BY <1>3, <1>4, <2>1 DEF Spend, CreditsOf
  <2> QED
    BY <2>3, <2>4, <2>5 DEF Inner, e
<1>7. U = {}
  <2> SUFFICES ASSUME U # {}
               PROVE  FALSE
    OBVIOUS
  <2>1. PICK s \in U : \A x \in s : s \ {x} \notin U
    <3>1. U \in SUBSET (SUBSET B)
      OBVIOUS
    <3> HIDE DEF U
    <3> QED
      BY <3>1, SmallestSet
  <2>2. s \in SUBSET B /\ First(s) /\ ~Inner(iter[s], l, t, B, s) /\ s # {}
    BY <1>6, <2>1
  <2>3. PICK o \in s : (\A q \in s : o >= q) /\ iter[s] = AtOrder(iter[s \ {o}], t, o)
    BY <1>1, <2>2 DEF Visits
  <2> DEFINE v == s \ {o}
             w == iter[v]
  <2>4. /\ v \in SUBSET B /\ o \in B /\ \A q \in v : q < o
        /\ \A q \in B : q < o => q \in v
    BY <1>2, <2>2, <2>3
  <2>5. First(v)
    BY <1>2, <2>2, <2>4
  <2>6. Inner(w, l, t, B, v) /\ w \in Loops(B, M) /\ iter[s] \in Loops(B, M)
    BY <1>1, <2>1, <2>2, <2>3, <2>5
  <2>7. v \cup {o} = s
    BY <2>3
  <2>8. w.from \in Nat /\ w.rest \in Nat /\ iter[s].rest \in Nat
    BY <2>6 DEF Loops
  <2> HIDE DEF v, w, U, First
  <2>9. iter[s] = AtOrder(w, t, o)
    BY <2>3 DEF v, w
  <2>10. Pass(w, iter[s], t, o)
    BY <2>4, <2>6, <2>9, AtOrderPasses
  <2> HIDE DEF t
  <2>11. Walk(iter[s], l, t, B, v \cup {o})
    BY <1>2, <1>5, <2>4, <2>6, <2>8, <2>10, WalkStep DEF Inner
  <2>12. Halt(iter[s], l, t, B, v \cup {o})
    BY <1>2, <2>4, <2>6, <2>8, <2>10, HaltStep DEF Inner
  <2>13. Spend(iter[s], l, t)
    BY <1>3, <1>4, <2>4, <2>6, <2>10, SpendStep DEF Inner
  <2> QED
    BY <2>2, <2>7, <2>11, <2>12, <2>13 DEF Inner
<1>8. First(B)
  OBVIOUS
<1> QED
  BY <1>1, <1>7, <1>8

-----------------------------------------------------------------------------
(* The outer loop: the trades s of M are dealt to the orders of B. *)

(* The trade j is of the second of f or an earlier one, in the order in    *)
(* which trades are dealt.                                                 *)
NotAfter(j, f) == ~Before(f, Fingerprint(trades[j]))

(* What the allocations before this one leave to it: an order ahead of one *)
(* that was dealt f has no room or has an order ahead of it, or itself,    *)
(* that was dealt f as well; and every trade of M that comes before f was  *)
(* dealt to an order no further back.                                      *)
Settled(B, M) ==
  \A p \in B : \A f \in processed[p] :
    /\ \A q \in B : q < p => Remaining(q) = 0 \/ \E r \in B : r <= q /\ f \in processed[r]
    /\ \A j \in M : NotAfter(j, f) =>
                      \E r \in B : r <= p /\ Fingerprint(trades[j]) \in processed[r]

TradeSum(s, f) == SumFunction([k \in {j \in s : Fingerprint(trades[j]) = f} |-> trades[k].amount])

(* An update is of a trade of s that no order was dealt before; who is     *)
(* ahead of it has no room left or met the trade, and a trade of s that    *)
(* comes before met an order on the way.                                   *)
Sound(u, l, B, s) ==
  /\ \E j \in s : u.trade = Fingerprint(trades[j])
  /\ \A o \in B : u.trade \notin processed[o]
  /\ \A q \in B : q < u.ord => Spent(l, q) \/ Met(l, B, q, u.trade)
  /\ \A j \in s : NotAfter(j, u.trade) => Met(l, B, u.ord, Fingerprint(trades[j]))

(* The trades of s meet an order on the way to any that is not left        *)
(* behind; an order that was dealt a later trade of M is not left behind;  *)
(* no trade is credited beyond its amount.                                 *)
Outer(l, B, M, s) ==
  /\ Behind(l, B)
  /\ \A j \in s, p \in B : p >= l.from => Met(l, B, p, Fingerprint(trades[j]))
  /\ \A u \in l.updates : Sound(u, l, B, s)
  /\ \A k \in M, p \in B :
       /\ \A j \in s : ~Before(trades[k], trades[j])
       /\ Fingerprint(trades[k]) \in processed[p]
       => l.from <= p
  /\ \A f \in Fingerprints : SumOf(CreditsOf(l, f)) <= TradeSum(s, f)

(* Trades of one bucket of which neither is dealt before the other look    *)
(* the same.                                                               *)
LEMMA TiesLookTheSame ==
  ASSUME TradeType, \A m, n \in Sizes : hash[m] = hash[n] => m = n,
         NEW j \in DOMAIN trades, NEW k \in DOMAIN trades, trades[j].bucket = trades[k].bucket,
         ~Before(trades[j], trades[k]), ~Before(trades[k], trades[j])
  PROVE  Fingerprint(trades[j]) = Fingerprint(trades[k])
<1>1. /\ trades[j].at \in Nat /\ trades[k].at \in Nat
      /\ trades[j].amount \in Sizes /\ trades[k].amount \in Sizes
      /\ hash[trades[j].amount] \in Nat /\ hash[trades[k].amount] \in Nat
  BY TradeFields
<1>2. trades[j].at = trades[k].at /\ hash[trades[j].amount] = hash[trades[k].amount]
  BY <1>1 DEF Before
<1>3. trades[j].amount = trades[k].amount
  BY <1>1, <1>2
<1> QED
  BY <1>2, <1>3 DEF Fingerprint

(* The amounts of the trades that look like f add up trade by trade.       *)
LEMMA TradeSums ==
  ASSUME TradeType, NEW s \in SUBSET (DOMAIN trades), NEW f
  PROVE  /\ TradeSum(s, f) \in Nat
         /\ \A k \in s : TradeSum(s, f) = IF Fingerprint(trades[k]) = f
                                          THEN trades[k].amount + TradeSum(s \ {k}, f)
                                          ELSE TradeSum(s \ {k}, f)
<1> DEFINE same == {j \in s : Fingerprint(trades[j]) = f}
           v == [k \in same |-> trades[k].amount]
<1>1. IsFiniteSet(same)
  <2>1. DOMAIN trades = 1..Len(trades) /\ Len(trades) \in Nat
    BY LenProperties DEF TradeType
  <2>2. IsFiniteSet(DOMAIN trades)
    BY <2>1, FS_Interval
  <2> QED
    BY <2>2, FS_Subset
<1>2. \A k \in same : v[k] \in Nat /\ v[k] = trades[k].amount
  BY TradeFields
<1>3. TradeSum(s, f) = SumFunctionOnSet(v, same)
  BY DEF TradeSum, SumFunction
<1>4. /\ SumFunctionOnSet(v, same) \in Nat
      /\ \A k \in same : SumFunctionOnSet(v, same) = v[k] + SumFunctionOnSet(v, same \ {k})
  <2> HIDE DEF v, same
  <2> QED
    BY <1>1, <1>2, SumTakesOut
<1>5. ASSUME NEW k \in s
      PROVE  TradeSum(s, f) = IF Fingerprint(trades[k]) = f
                              THEN trades[k].amount + TradeSum(s \ {k}, f)
                              ELSE TradeSum(s \ {k}, f)
  <2> DEFINE rest == {j \in s \ {k} : Fingerprint(trades[j]) = f}
             w == [j \in rest |-> trades[j].amount]
  <2>1. TradeSum(s \ {k}, f) = SumFunctionOnSet(w, rest)
    BY DEF TradeSum, SumFunction
  <2>2. CASE Fingerprint(trades[k]) # f
    <3>1. rest = same
      BY <2>2
    <3>2. TradeSum(s \ {k}, f) = TradeSum(s, f)
      BY <3>1, <2>1, <1>3
    <3> QED
      BY <2>2, <3>2
  <2>3. CASE Fingerprint(trades[k]) = f
    <3>1. rest = same \ {k} /\ k \in same
      BY <2>3
    <3>2. \A x \in rest : w[x] \in Nat /\ w[x] = v[x]
      BY <1>2, <3>1
    <3>3. IsFiniteSet(rest)
      BY <1>1, <3>1, FS_Subset
    <3>4. v[k] = trades[k].amount
      BY <3>1
    <3> HIDE DEF v, w, same, rest
    <3>5. SumFunctionOnSet(w, rest) = SumFunctionOnSet(v, rest)
      BY <3>2, <3>3, SumAgrees
    <3> QED
      BY <1>3, <1>4, <2>1, <2>3, <3>1, <3>4, <3>5
  <2> QED
    BY <2>2, <2>3
<1> QED
  BY <1>3, <1>4, <1>5

OneBucket(M) == \A j, k \in M : trades[j].bucket = trades[k].bucket
HashesDiffer == \A m, n \in Sizes : hash[m] = hash[n] => m = n

(* A later trade of M is dealt: when it was dealt before it halts and      *)
(* nothing changes; else what was dealt after it was not dealt before.     *)
LEMMA OuterStep ==
  ASSUME TradeType, FillsType, HashesDiffer, NEW B \in SUBSET Orders, IsFiniteSet(B),
         NEW M \in SUBSET (DOMAIN trades), OneBucket(M), Settled(B, M),
         NEW s \in SUBSET M, NEW k \in s, \A j \in s : ~Before(trades[k], trades[j]),
         NEW l \in Loops(B, M), Outer(l, B, M, s \ {k}),
         NEW r \in Loops(B, M), Inner(r, l, trades[k], B, B)
  PROVE  Outer(r, B, M, s)
<1> DEFINE t == trades[k]
           fp == Fingerprint(trades[k])
           s0 == s \ {k}
<1>1. /\ B \in SUBSET Nat /\ l.from \in Nat /\ r.from \in Nat /\ r.rest \in Nat
      /\ k \in M /\ s0 \in SUBSET s /\ s = s0 \cup {k}
  BY Numbers DEF Loops
<1>2. l.updates \subseteq r.updates /\ l.from <= r.from
  BY DEF Inner, Walk
<1>3. /\ \A o : Spent(l, o) => Spent(r, o)
      /\ \A p, f : Met(l, B, p, f) => Met(r, B, p, f)
  BY <1>2, MarksStay
<1>4. Behind(r, B)
  BY DEF Inner, Walk, Behind
<1>5. \A j \in s, p \in B : p >= r.from => Met(r, B, p, Fingerprint(trades[j]))
  <2>1. \A p \in B : p >= r.from => Met(r, B, p, fp)
    BY DEF Inner, Walk
  <2>2. \A j \in s0, p \in B : p >= r.from => Met(r, B, p, Fingerprint(trades[j]))
    <3>1. \A p \in B : p >= r.from => p >= l.from
      BY <1>1, <1>2
    <3> QED
      BY <1>3, <3>1 DEF Outer
  <2> QED
    BY <1>1, <2>1, <2>2
<1>6. ASSUME NEW p \in B, fp \in processed[p]
      PROVE  \E m \in B : /\ r.updates = l.updates /\ r.from <= m
                          /\ \A q \in B : fp \in processed[q] => m <= q
  <2> DEFINE D == {q \in B : fp \in processed[q]}
  <2>1. PICK m \in D : \A q \in D : m <= q
    <3>1. D \in SUBSET Nat /\ D # {}
      BY <1>1, <1>6
    <3> HIDE DEF D
    <3> QED
      BY <3>1, LeastNumber
  <2>2. l.from <= m
    <3>1. \A j \in s0 : ~Before(trades[k], trades[j])
      BY <1>1
    <3> QED
      BY <1>1, <2>1, <3>1 DEF Outer
  <2>3. \A q \in B : q < m => Remaining(q) = 0
    <3>1. ASSUME NEW q \in B, q < m
          PROVE  \A o \in B : ~(o <= q /\ fp \in processed[o])
      <4>1. \A o \in B : fp \in processed[o] => m <= o
        BY <2>1
      <4> QED
        BY <1>1, <3>1, <4>1
    <3> QED
      BY <2>1, <3>1 DEF Settled
  <2>4. r.updates = l.updates /\ r.from <= m
    BY <2>1, <2>2, <2>3 DEF Inner, Halt
  <2> QED
    BY <2>1, <2>4
<1>7. ASSUME NEW u \in r.updates
      PROVE  Sound(u, r, B, s)
  <2>1. CASE u \in l.updates
    <3>1. Sound(u, l, B, s0)
      BY <2>1 DEF Outer
    <3>2. PICK i \in s0 : u.trade = Fingerprint(trades[i])
      BY <3>1 DEF Sound
    <3>3. \A o \in B : u.trade \notin processed[o]
      BY <3>1 DEF Sound
    <3>4. \A q \in B : q < u.ord => Spent(r, q) \/ Met(r, B, q, u.trade)
      BY <1>3, <3>1 DEF Sound
    <3>5. ASSUME NEW j \in s, NotAfter(j, u.trade)
          PROVE  Met(r, B, u.ord, Fingerprint(trades[j]))
      <4>1. CASE j \in s0
        BY <1>3, <3>1, <3>5, <4>1 DEF Sound
      <4>2. CASE j = k
        <5>1. ~Before(trades[i], trades[k])
          BY <3>2, <3>5, <4>2 DEF NotAfter, Before, Fingerprint
        <5>2. fp = u.trade
          <6>1. ~Before(trades[k], trades[i]) /\ i \in DOMAIN trades /\ k \in DOMAIN trades
                /\ trades[i].bucket = trades[k].bucket
            BY <1>1, <3>2 DEF OneBucket
          <6> QED
            BY <3>2, <5>1, <6>1, TiesLookTheSame DEF HashesDiffer
        <5>3. u.ord \in B /\ u \in r.updates
          BY DEF Loops, UpdatesOf
        <5>4. Marked(r, u.ord, u.trade)
          BY <5>3, Zenon DEF Marked
        <5>5. \A q \in B : q <= q
          BY <1>1
        <5>6. Met(r, B, u.ord, u.trade)
          BY <5>3, <5>4, <5>5, Zenon DEF Met
        <5> QED
          BY <4>2, <5>2, <5>6
      <4> QED
        BY <1>1, <4>1, <4>2
    <3> QED
      BY <1>1, <3>2, <3>3, <3>4, <3>5 DEF Sound
  <2>2. CASE u \notin l.updates
    <3>1. /\ u.trade = fp /\ u.ord \in B /\ u.ord >= l.from
          /\ \A q \in B : q < u.ord => Spent(r, q) \/ Met(r, B, q, u.trade)
      BY <2>2 DEF Inner, Walk
    <3>2. \A o \in B : u.trade \notin processed[o]
      BY <1>6, <2>2, <3>1
    <3>3. ASSUME NEW j \in s
          PROVE  Met(r, B, u.ord, Fingerprint(trades[j]))
      <4>1. CASE j \in s0
        BY <1>3, <3>1, <4>1 DEF Outer
      <4>2. CASE j = k
        BY <1>1, <3>1, <4>2 DEF Met, Marked
      <4> QED
        BY <1>1, <4>1, <4>2
    <3> QED
      BY <3>1, <3>2, <3>3 DEF Sound
  <2> QED
    BY <2>1, <2>2
<1>8. ASSUME NEW i \in M, NEW p \in B, \A j \in s : ~Before(trades[i], trades[j]),
             Fingerprint(trades[i]) \in processed[p]
      PROVE  r.from <= p
  <2>1. NotAfter(k, Fingerprint(trades[i]))
    BY <1>8 DEF NotAfter, Before, Fingerprint
  <2>2. PICK q \in B : q <= p /\ fp \in processed[q]
    BY <1>1, <1>8, <2>1 DEF Settled
  <2>3. PICK m \in B : r.from <= m /\ m <= q
    BY <1>6, <2>2
  <2> QED
    BY <1>1, <2>2, <2>3
<1>9. ASSUME NEW f \in Fingerprints
      PROVE  SumOf(CreditsOf(r, f)) <= TradeSum(s, f)
  <2>1. SumOf(CreditsOf(l, f)) <= TradeSum(s0, f)
    BY DEF Outer
  <2>2. /\ TradeSum(s, f) = IF fp = f THEN t.amount + TradeSum(s0, f) ELSE TradeSum(s0, f)
        /\ TradeSum(s, f) \in Nat /\ TradeSum(s0, f) \in Nat /\ t.amount \in Nat
    <3>1. s \in SUBSET (DOMAIN trades) /\ s0 \in SUBSET (DOMAIN trades)
      OBVIOUS
    <3> QED
      BY <3>1, TradeSums, TradeFields
  <2>3. \A w \in Loops(B, M) : SumOf(CreditsOf(w, f)) \in Nat
    <3> SUFFICES ASSUME NEW w \in Loops(B, M)
                 PROVE  SumOf(CreditsOf(w, f)) \in Nat
      OBVIOUS
    <3>1. /\ IsFiniteSet(w.updates) /\ CreditsOf(w, f) \subseteq w.updates
          /\ w.updates \subseteq UpdatesOf(B)
      BY DEF Loops, CreditsOf
    <3>2. \A u \in CreditsOf(w, f) : u.amount \in Nat
      BY <3>1 DEF UpdatesOf
    <3>3. IsFiniteSet(CreditsOf(w, f))
      BY <3>1, FS_Subset
    <3> QED
      BY <3>2, <3>3, SumOfAmounts
  <2>4. CASE fp = f
    <3>1. SumOf(CreditsOf(r, f)) + r.rest <= SumOf(CreditsOf(l, f)) + t.amount
      BY <2>4 DEF Inner, Spend
    <3> HIDE DEF fp, s0, t
    <3> QED
      BY <1>1, <2>1, <2>2, <2>3, <2>4, <3>1
  <2>5. CASE fp # f
    <3>1. CreditsOf(r, f) = CreditsOf(l, f)
      <4>1. \A u \in r.updates \ l.updates : u.trade # f
        BY <2>5 DEF Inner, Walk
      <4> QED
        BY <1>2, <4>1 DEF CreditsOf
    <3> HIDE DEF fp, s0, t
    <3> QED
      BY <2>1, <2>2, <2>5, <3>1
  <2> QED
    BY <2>4, <2>5
<1> QED
  BY <1>4, <1>5, <1>7, <1>8, <1>9 DEF Outer

(* An allocation to the orders of B is one walk of the trades of M.        *)
LEMMA OuterLoop ==
  ASSUME TradeType, FillsType, HashesDiffer, NEW B \in SUBSET Orders, IsFiniteSet(B),
         NEW M \in SUBSET (DOMAIN trades), OneBucket(M), Settled(B, M)
  PROVE  AtTrades(B, M) \in Loops(B, M) /\ Outer(AtTrades(B, M), B, M, M)
<1>1. PICK iter \in [SUBSET M -> Loops(B, M)] :
        /\ iter[{}] = Start
        /\ \A s \in SUBSET M : s # {} => Deals(iter, B, s)
        /\ AtTrades(B, M) = iter[M]
  BY AtTradesDeal
<1> DEFINE U == {s \in SUBSET M : ~Outer(iter[s], B, M, s)}
<1>2. Outer(iter[{}], B, M, {})
  <2>1. Start.from = 0 /\ Start.updates = {}
    BY DEF Start
  <2>2. \A p \in B : p \in Nat
    BY Numbers
  <2>3. Behind(Start, B)
    BY <2>1, <2>2 DEF Behind
  <2>4. \A f \in Fingerprints : SumOf(CreditsOf(Start, f)) <= TradeSum({}, f)
    <3> SUFFICES ASSUME NEW f \in Fingerprints
                 PROVE  SumOf(CreditsOf(Start, f)) <= TradeSum({}, f)
      OBVIOUS
    <3>1. CreditsOf(Start, f) = {}
      BY <2>1 DEF CreditsOf
    <3>2. SumOf({}) = 0
      BY FS_EmptySet, SumOfAmounts
    <3>3. TradeSum({}, f) \in Nat
      BY TradeSums
    <3> QED
      BY <3>1, <3>2, <3>3
  <2> QED
    BY <1>1, <2>1, <2>2, <2>3, <2>4 DEF Outer
<1>3. U = {}
  <2> SUFFICES ASSUME U # {}
               PROVE  FALSE
    OBVIOUS
  <2>1. IsFiniteSet(M)
    <3>1. DOMAIN trades = 1..Len(trades) /\ Len(trades) \in Nat
      BY LenProperties DEF TradeType
    <3>2. IsFiniteSet(DOMAIN trades)
      BY <3>1, FS_Interval
    <3> QED
      BY <3>2, FS_Subset
  <2>2. PICK s \in U : \A x \in s : s \ {x} \notin U
    <3>1. U \in SUBSET (SUBSET M)
      OBVIOUS
    <3> HIDE DEF U
    <3> QED
      BY <2>1, <3>1, SmallestSet
  <2>3. s \in SUBSET M /\ ~Outer(iter[s], B, M, s) /\ s # {}
    BY <1>2, <2>2
  <2>4. PICK k \in s : /\ \A j \in s : ~Before(trades[k], trades[j])
                       /\ iter[s] = AtTrade(iter[s \ {k}], trades[k], B)
    BY <1>1, <2>3 DEF Deals
  <2> DEFINE l == iter[s \ {k}]
  <2>5. Outer(l, B, M, s \ {k}) /\ l \in Loops(B, M) /\ iter[s] \in Loops(B, M)
    BY <1>1, <2>2, <2>3
  <2> HIDE DEF l, U
  <2>6. Inner(iter[s], l, trades[k], B, B)
    <3>1. Behind(l, B) /\ k \in M /\ iter[s] = AtTrade(l, trades[k], B)
      BY <2>3, <2>4, <2>5 DEF Outer, l
    <3> QED
      BY <2>5, <3>1, InnerLoop
  <2>7. Outer(iter[s], B, M, s)
    BY <2>3, <2>4, <2>5, <2>6, OuterStep
  <2> QED
    BY <2>3, <2>7
<1> QED
  BY <1>1, <1>3

-----------------------------------------------------------------------------
(* What an allocation leaves. *)

(* The orders of a bucket that were polled, the trades dealt to them and   *)
(* where the loop over these ends.                                         *)
Polled(b) == Peers(poll.orders, b)
DealtTo(b) == Matching(poll.history, b, poll.orders)
End(b) == AtTrades(Polled(b), DealtTo(b))

(* What is polled and dealt are finitely many orders, and trades.          *)
LEMMA PolledTypes ==
  ASSUME Types, NEW b
  PROVE  /\ Polled(b) \in SUBSET Orders /\ IsFiniteSet(Polled(b))
         /\ DealtTo(b) \in SUBSET (DOMAIN trades)
<1>1. /\ poll.orders \in SUBSET Orders /\ IsFiniteSet(poll.orders)
      /\ poll.history \in SUBSET (DOMAIN trades)
  BY FS_Subset DEF Types, OrderType
<1> QED
  BY <1>1, FS_Subset DEF Polled, DealtTo, Peers, Matching

(* The updates of an allocation to an order are those of its bucket.       *)
LEMMA UpdatesOfBucket ==
  ASSUME Types, NEW u
  PROVE  u \in Updates(poll.orders, poll.history) <=>
           /\ u.ord \in Orders /\ Polled(BucketOf[u.ord]) # {}
           /\ u \in End(BucketOf[u.ord]).updates
<1>1. ASSUME NEW b, Polled(b) # {}, NEW v \in End(b).updates
      PROVE  v.ord \in Polled(b) /\ v.ord \in Orders /\ BucketOf[v.ord] = b
  <2>1. PICK iter \in [SUBSET DealtTo(b) -> Loops(Polled(b), DealtTo(b))] :
          AtTrades(Polled(b), DealtTo(b)) = iter[DealtTo(b)]
    BY PolledTypes, AtTradesDeal DEF Types
  <2>2. End(b) \in Loops(Polled(b), DealtTo(b))
    BY <2>1 DEF End
  <2>3. v.ord \in Polled(b)
    BY <2>2 DEF Loops, UpdatesOf
  <2> QED
    BY <2>3, PolledTypes DEF Polled, Peers
<1>2. \A b : BucketUpdates(poll.orders, poll.history, b)
               = IF Polled(b) = {} THEN {} ELSE End(b).updates
  BY DEF BucketUpdates, Polled, DealtTo, End
<1>3. ASSUME u \in Updates(poll.orders, poll.history)
      PROVE  /\ u.ord \in Orders /\ Polled(BucketOf[u.ord]) # {}
             /\ u \in End(BucketOf[u.ord]).updates
  <2>1. PICK b \in Buckets : u \in BucketUpdates(poll.orders, poll.history, b)
    BY <1>3 DEF Updates
  <2>2. Polled(b) # {} /\ u \in End(b).updates
    BY <1>2, <2>1
  <2> QED
    BY <1>1, <2>2
<1>4. ASSUME u.ord \in Orders, Polled(BucketOf[u.ord]) # {}, u \in End(BucketOf[u.ord]).updates
      PROVE  u \in Updates(poll.orders, poll.history)
  <2>1. u \in BucketUpdates(poll.orders, poll.history, BucketOf[u.ord])
    BY <1>2, <1>4
  <2>2. BucketOf[u.ord] \in Buckets
    BY <1>4, Numbers
  <2> QED
    BY <2>1, <2>2 DEF Updates
<1> QED
  BY <1>3, <1>4

(* An order is marked with what its bucket's loop marked it with.          *)
LEMMA AllocateMarks ==
  ASSUME Types, Allocate, NEW o \in Orders
  PROVE  IF Polled(BucketOf[o]) = {}
         THEN processed'[o] = processed[o] /\ fills'[o] = fills[o]
         ELSE /\ \A f : f \in processed'[o] <=> Marked(End(BucketOf[o]), o, f)
              /\ \A f \in fills'[o] \ fills[o] :
                   \E u \in End(BucketOf[o]).updates :
                     u.ord = o /\ u.trade = f.trade /\ u.amount = f.amount
<1> DEFINE all == Updates(poll.orders, poll.history)
<1>1. processed'[o] = processed[o] \cup {u.trade : u \in {v \in all : v.ord = o}}
  BY DEF Allocate
<1>2. ASSUME NEW f \in fills'[o] \ fills[o]
      PROVE  \E u \in all : u.ord = o /\ u.trade = f.trade /\ u.amount = f.amount
  <2> DEFINE u == [ord |-> o, trade |-> f.trade, amount |-> f.amount]
  <2>1. u \in all
    BY AllocateCredits
  <2>2. u.ord = o /\ u.trade = f.trade /\ u.amount = f.amount
    OBVIOUS
  <2> HIDE DEF u, all
  <2> QED
    BY <2>1, <2>2
<1>3. \A u : u \in all => /\ Polled(BucketOf[u.ord]) # {}
                          /\ u \in End(BucketOf[u.ord]).updates
  BY UpdatesOfBucket
<1>4. Polled(BucketOf[o]) # {} => \A u \in End(BucketOf[o]).updates : u.ord = o => u \in all
  BY UpdatesOfBucket
<1> HIDE DEF all
<1>5. CASE Polled(BucketOf[o]) = {}
  <2>1. \A u \in all : u.ord # o
    BY <1>3, <1>5
  <2>2. fills'[o] = fills[o]
    <3>1. fills[o] \subseteq fills'[o]
      BY AllocateCredits
    <3> QED
      BY <1>2, <2>1, <3>1
  <2>3. processed'[o] = processed[o]
    BY <1>1, <2>1
  <2> QED
    BY <1>5, <2>2, <2>3
<1>6. CASE Polled(BucketOf[o]) # {}
  <2>1. \A u : u \in all /\ u.ord = o <=> u \in End(BucketOf[o]).updates /\ u.ord = o
    BY <1>3, <1>4, <1>6
  <2>2. \A f : f \in processed'[o] <=> Marked(End(BucketOf[o]), o, f)
    BY <1>1, <2>1 DEF Marked
  <2> QED
    BY <1>2, <1>6, <2>1, <2>2
<1> QED
  BY <1>5, <1>6

(* An order without room stays so, and so is a listed one that is spent.   *)
LEMMA SpentHasNoRoom ==
  ASSUME Types, MarkInv, restarts = 0, Allocate, NEW o \in listed,
         \/ Remaining(o) = 0
         \/ Polled(BucketOf[o]) # {} /\ Spent(End(BucketOf[o]), o)
  PROVE  Remaining(o)' = 0
<1>1. /\ o \in Orders /\ Amount[o] \in Nat
      /\ fills[o] \subseteq fills'[o] /\ IsFiniteSet(fills'[o]) /\ fills'[o] \subseteq Fills
      /\ IsFiniteSet(fills[o]) /\ fills[o] \subseteq Fills
  BY AllocateCredits, Numbers DEF Types, OrderType, FillsType
<1>2. /\ SumOf(fills[o]) \in Nat /\ SumOf(fills'[o]) \in Nat
      /\ SumOf(fills[o]) <= SumOf(fills'[o])
  <2>1. \A f \in fills'[o] : f.amount \in Nat
    BY <1>1 DEF Fills
  <2> QED
    BY <1>1, <2>1, SumOfFills, SumGrows
<1>3. Executed(o) = SumOf(fills[o]) /\ Executed(o)' = SumOf(fills'[o])
  BY DEF Executed
<1>4. CASE Remaining(o) = 0
  BY <1>1, <1>2, <1>3, <1>4 DEF Remaining
<1>5. ASSUME Polled(BucketOf[o]) # {}, Remaining(o) # 0, Spent(End(BucketOf[o]), o)
      PROVE  Remaining(o)' = 0
  <2>1. PICK u \in End(BucketOf[o]).updates : u.ord = o /\ u.amount >= Remaining(o)
    BY <1>5 DEF Spent
  <2>2. u \in Updates(poll.orders, poll.history)
    BY <1>1, <1>5, <2>1, UpdatesOfBucket
  <2> DEFINE f == [trade |-> u.trade, amount |-> u.amount]
             new == {v \in Updates(poll.orders, poll.history) :
                       v.ord = o /\ \A g \in fills[o] : g.trade # v.trade}
  <2>3. u.trade \notin processed[o] /\ u \in UpdatesOf(poll.orders)
    <3>1. poll.orders \in SUBSET Orders /\ IsFiniteSet(poll.orders)
          /\ poll.history \in SUBSET (DOMAIN trades)
      BY FS_Subset DEF Types, OrderType
    <3> QED
      BY <2>1, <2>2, <3>1, UpdatesCredit DEF Types, Credit
  <2>4. \A g \in fills[o] : g.trade # u.trade
    BY <1>1, <2>3 DEF MarkInv
  <2>5. f \in fills'[o] /\ f \notin fills[o] /\ f.amount = u.amount /\ u.amount \in Nat
    <3>1. fills'[o] = fills[o] \cup {[trade |-> v.trade, amount |-> v.amount] : v \in new}
      BY <1>1 DEF Allocate, Apply
    <3>2. u \in new
      BY <2>1, <2>2, <2>4
    <3>3. f.trade = u.trade /\ u.amount \in Nat
      BY <2>3 DEF UpdatesOf
    <3> QED
      BY <2>4, <3>1, <3>2, <3>3
  <2> HIDE DEF f
  <2>6. SumOf(fills'[o]) = u.amount + SumOf(fills'[o] \ {f})
    BY <1>1, <2>5, SumOfFills
  <2>7. SumOf(fills[o]) <= SumOf(fills'[o] \ {f}) /\ SumOf(fills'[o] \ {f}) \in Nat
    <3> DEFINE T == fills'[o] \ {f}
    <3>1. IsFiniteSet(T) /\ T \in SUBSET Fills /\ fills[o] \in SUBSET T
      BY <1>1, <2>5, FS_RemoveElement
    <3>2. \A g \in T : g.amount \in Nat
      BY <3>1 DEF Fills
    <3> HIDE DEF T
    <3>3. SumOf(fills[o]) <= SumOf(T) /\ SumOf(T) \in Nat
      BY <3>1, <3>2, SumGrows, SumOfFills
    <3> QED
      BY <3>3 DEF T
  <2> QED
    BY <1>1, <1>2, <1>3, <2>1, <2>5, <2>6, <2>7 DEF Remaining
<1> QED
  BY <1>4, <1>5

-----------------------------------------------------------------------------
(* From one allocation to the next. *)

(* The orders of a bucket that a poll deals to or will deal to next, and   *)
(* the trades these may still be dealt.                                    *)
Pool(b) == Peers(listed \cup poll.orders, b)
Lately(b) == {j \in poll.history \cup LastTrades(HistoryLimit) :
                /\ trades[j].owner # Stranger /\ trades[j].bucket = b
                /\ \E q \in Pool(b) : createdAt[q] <= trades[j].at}

(* As long as the orders of a bucket that were dealt a trade are listed,   *)
(* the allocations so far leave it settled.                                *)
DealtInv == restarts = 0 => \A b \in Buckets : Undivided(b) => Settled(Pool(b), Lately(b))

(* A step that is no allocation and no restart adds to the pool only what  *)
(* it places, and to the history of a poll only what the node returns.     *)
LEMMA OtherSteps ==
  ASSUME Types, [Next]_vars, ~Allocate, restarts' = 0
  PROVE  /\ UNCHANGED <<hash, fills, processed, restarts>>
         /\ \A q \in listed' \cup poll'.orders :
              \/ q \in listed \cup poll.orders
              \/ q \in Orders /\ q \notin placed /\ createdAt'[q] = now
         /\ \/ poll'.history \subseteq poll.history
            \/ poll'.history = LastTrades(HistoryLimit)
<1>1. poll.orders \subseteq placed /\ restarts \in Nat
  BY DEF Types, OrderType
<1>2. CASE UNCHANGED <<hash, fills, processed, restarts, listed, poll>>
  BY <1>2
<1>3. CASE StartPoll
  <2>1. poll'.orders = listed /\ poll'.history = poll.history
    BY <1>3 DEF StartPoll, Types, OrderType
  <2> QED
    BY <1>3, <2>1 DEF StartPoll, chain, tracker
<1>4. CASE ReadHistory
  <2>1. poll'.orders = poll.orders /\ poll'.history = LastTrades(HistoryLimit)
    BY <1>4 DEF ReadHistory, Types, OrderType
  <2> QED
    BY <1>4, <2>1 DEF ReadHistory, chain, tracker
<1>5. CASE PollFails
  <2>1. poll'.orders = {} /\ poll'.history = {}
    BY <1>5 DEF PollFails, Idle
  <2> QED
    BY <1>5, <2>1 DEF PollFails, chain, tracker
<1>6. ASSUME NEW o \in Orders, Place(o)
      PROVE  /\ UNCHANGED <<hash, fills, processed, restarts, poll>>
             /\ listed' = listed \cup {o} /\ o \notin placed /\ createdAt'[o] = now
  BY <1>6 DEF Place, Types, OrderType
<1>7. ASSUME NEW o \in Orders, Drop(o)
      PROVE  UNCHANGED <<hash, fills, processed, restarts, poll>> /\ listed' \subseteq listed
  BY <1>7 DEF Drop, chain
<1>8. ASSUME NEW o \in Orders, Trade(o) \/ Cancel(o)
      PROVE  UNCHANGED <<hash, fills, processed, restarts, listed, poll>>
  BY <1>8 DEF Trade, Cancel, Execute, tracker
<1>9. CASE OtherTrade \/ Tick \/ UNCHANGED vars
  BY <1>2, <1>9 DEF OtherTrade, Tick, Execute, vars, chain, tracker
<1>10. CASE Restart
  BY <1>1, <1>10 DEF Restart
<1> QED
  BY <1>2, <1>3, <1>4, <1>5, <1>6, <1>7, <1>8, <1>9, <1>10 DEF Next

(* Only an order that is listed is dealt a trade, and it is new to none.   *)
LEMMA UndividedBefore ==
  ASSUME Types, TrackedInv, [Next]_vars, restarts' = 0, NEW b, Undivided(b)'
  PROVE  restarts = 0 /\ Undivided(b)
<1>1. restarts \in Nat /\ placed \subseteq Orders /\ poll.orders \subseteq placed
      /\ listed \subseteq placed
  BY DEF Types, OrderType
<1>2. \A o \in Orders : BucketOf[o] = b /\ processed'[o] # {} => o \in listed'
  BY DEF Undivided
<1>3. CASE Allocate
  <2>1. \A o \in Orders : processed[o] \subseteq processed'[o]
    BY <1>3 DEF Allocate
  <2>2. listed' = listed /\ restarts' = restarts
    BY <1>3 DEF Allocate
  <2> QED
    BY <1>2, <2>1, <2>2 DEF Undivided
<1>4. CASE ~Allocate
  <2>1. UNCHANGED <<processed, restarts>>
    BY <1>4, OtherSteps
  <2>2. \A o \in listed' : o \in placed => o \in listed
    <3>1. CASE UNCHANGED listed
      BY <3>1
    <3>2. CASE StartPoll \/ ReadHistory \/ PollFails \/ Tick \/ UNCHANGED vars
      BY <3>1, <3>2 DEF StartPoll, ReadHistory, PollFails, Tick, vars, tracker
    <3>3. CASE Restart
      BY <3>3 DEF Restart
    <3>4. ASSUME NEW o \in Orders, Place(o) \/ Drop(o)
          PROVE  \A q \in listed' : q \in placed => q \in listed
      BY <3>4 DEF Place, Drop
    <3>5. ASSUME NEW o \in Orders, Trade(o) \/ Cancel(o)
          PROVE  UNCHANGED listed
      BY <3>5 DEF Trade, Cancel, Execute, tracker
    <3>6. CASE OtherTrade
      BY <3>1, <3>6 DEF OtherTrade, Execute, tracker
    <3> QED
      BY <1>4, <3>1, <3>2, <3>3, <3>4, <3>5, <3>6 DEF Next
  <2>3. \A o \in Orders : processed[o] # {} => o \in placed
    BY DEF TrackedInv
  <2> QED
    BY <1>2, <2>1, <2>2, <2>3 DEF Undivided
<1> QED
  BY <1>3, <1>4

(* Between two allocations a settled bucket stays so: what is placed is    *)
(* younger than all that was dealt, and what trades is later.              *)
LEMMA SettledBetween ==
  ASSUME Types, HistoryInv, AgeInv, MarkInv, TrackedInv, [Next]_vars, ~Allocate, restarts' = 0,
         NEW b \in Buckets, Undivided(b), Undivided(b)', Settled(Pool(b), Lately(b))
  PROVE  Settled(Pool(b), Lately(b))'
<1>1. /\ UNCHANGED <<hash, fills, processed, restarts>>
      /\ \A q \in Pool(b)' : q \in Pool(b) \/ (q \in Orders /\ q \notin placed /\ createdAt'[q] = now)
  <2>1. /\ UNCHANGED <<hash, fills, processed, restarts>>
        /\ \A q \in listed' \cup poll'.orders :
             \/ q \in listed \cup poll.orders
             \/ q \in Orders /\ q \notin placed /\ createdAt'[q] = now
    BY OtherSteps
  <2>2. ASSUME NEW q \in Pool(b)'
        PROVE  q \in Pool(b) \/ (q \in Orders /\ q \notin placed /\ createdAt'[q] = now)
    <3>1. q \in listed' \cup poll'.orders /\ BucketOf[q] = b
      BY DEF Pool, Peers
    <3>2. q \in listed \cup poll.orders => q \in Pool(b)
      BY <3>1 DEF Pool, Peers
    <3> QED
      BY <2>1, <3>1, <3>2
  <2> QED
    BY <2>1, <2>2
<1>2. /\ placed \subseteq Orders /\ listed \subseteq placed /\ poll.orders \subseteq placed
      /\ \A o \in Orders : o \in Nat
      /\ now \in Nat
  BY Numbers DEF Types, OrderType
<1>3. \A o \in Orders : BucketOf[o] = b /\ processed[o] # {} => o \in Pool(b) /\ o \in Pool(b)'
  BY <1>1 DEF Undivided, Pool, Peers
<1>4. \A q \in Orders : Remaining(q)' = Remaining(q)
  BY <1>1 DEF Remaining, Executed, SumOf
<1>5. Pool(b) \subseteq placed /\ \A q \in Pool(b) : q \in Orders /\ BucketOf[q] = b
  BY <1>2 DEF Pool, Peers
<1>6. ASSUME NEW p \in Pool(b)', NEW f \in processed[p]
      PROVE  /\ p \in Pool(b) /\ p \in placed /\ f.at < now /\ f.at \in Nat
             /\ BucketOf[p] = b
  <2>1. p \in Orders /\ BucketOf[p] = b
    BY <1>1, <1>5 DEF Pool, Peers
  <2>2. f.at \in Nat
    BY <2>1, FillsAssumption DEF Types, FillsType, Fingerprints
  <2> QED
    BY <1>3, <1>5, <2>1, <2>2 DEF MarkInv
<1>7. ASSUME NEW p \in Pool(b)', NEW f \in processed[p], NEW q \in Pool(b)', q < p
      PROVE  Remaining(q)' = 0 \/ \E r \in Pool(b)' : r <= q /\ f \in processed[r]
  <2>1. p \in Pool(b) /\ p \in placed
    BY <1>6
  <2>2. q \in Pool(b)
    BY <1>1, <1>7, <2>1 DEF AgeInv
  <2>3. Remaining(q) = 0 \/ \E r \in Pool(b) : r <= q /\ f \in processed[r]
    BY <1>7, <2>1, <2>2 DEF Settled
  <2> QED
    BY <1>3, <1>4, <1>5, <2>2, <2>3
<1>8. ASSUME NEW p \in Pool(b)', NEW f \in processed[p],
             NEW j \in Lately(b)', NotAfter(j, f)'
      PROVE  \E r \in Pool(b)' : r <= p /\ Fingerprint(trades[j])' \in processed[r]
  <2>1. p \in Pool(b) /\ f.at < now /\ f.at \in Nat
    BY <1>6
  <2>2. trades'[j].at \in Nat => ~(trades'[j].at >= now)
    BY <1>2, <1>8, <2>1 DEF NotAfter, Before, Fingerprint
  <2>3. /\ trades'[j].owner # Stranger /\ trades'[j].bucket = b
        /\ \E q \in Pool(b)' : createdAt'[q] <= trades'[j].at
        /\ j \in poll'.history \/ j \in LastTrades(HistoryLimit)'
    BY DEF Lately
  <2>4. trades'[j].at \in Nat
    <3>1. j \in DOMAIN trades'
      <4>1. j \in LastTrades(HistoryLimit)' => j \in DOMAIN trades'
        BY DEF LastTrades, Shown
      <4>2. poll'.history \subseteq DOMAIN trades'
        BY TypesStay DEF Types, OrderType
      <4> QED
        BY <2>3, <4>1, <4>2
    <3>2. trades' \in Seq(Trades)
      BY TypesStay DEF Types, TradeType
    <3>3. trades'[j] \in Trades
      BY <3>1, <3>2, LenProperties, ElementOfSeq
    <3> QED
      BY <3>3, FillsAssumption DEF Trades
  <2>5. /\ j \in poll.history \cup LastTrades(HistoryLimit)
        /\ trades'[j] = trades[j]
    <3>1. CASE j \in LastTrades(HistoryLimit)'
      BY <2>2, <2>4, <3>1, WindowSlides
    <3>2. CASE j \in poll'.history
      <4>1. j \in poll.history \cup LastTrades(HistoryLimit)
        BY <3>2, OtherSteps
      <4>2. j \in DOMAIN trades
        BY <4>1 DEF LastTrades, Shown, Types, OrderType
      <4> QED
        BY <4>1, <4>2, TradesStay
    <3> QED
      BY <2>3, <3>1, <3>2
  <2>6. \E q \in Pool(b) : createdAt[q] <= trades[j].at
    <3>1. PICK q \in Pool(b)' : createdAt'[q] <= trades'[j].at
      BY <2>3
    <3>2. q \in Pool(b)
      BY <1>1, <1>2, <2>2, <2>4, <3>1
    <3>3. createdAt'[q] = createdAt[q]
      BY <1>5, <3>2, PlacedStays
    <3> QED
      BY <2>5, <3>1, <3>2, <3>3
  <2>7. j \in Lately(b) /\ NotAfter(j, f)
    BY <1>1, <1>8, <2>3, <2>5, <2>6 DEF Lately, NotAfter, Before, Fingerprint
  <2>8. PICK r \in Pool(b) : r <= p /\ Fingerprint(trades[j]) \in processed[r]
    BY <2>1, <2>7 DEF Settled
  <2>9. r \in Pool(b)' /\ Fingerprint(trades[j])' = Fingerprint(trades[j])
    BY <1>3, <1>5, <2>5, <2>8 DEF Fingerprint
  <2> QED
    BY <2>8, <2>9
<1> QED
  BY <1>1, <1>7, <1>8 DEF Settled

(* The oldest of the polled orders of a bucket.                            *)
LEMMA OldestPolled ==
  ASSUME Types, NEW b, Polled(b) # {}
  PROVE  /\ Min(Polled(b)) \in Polled(b)
         /\ \A q \in Polled(b) : Min(Polled(b)) <= q
<1> DEFINE P == Polled(b)
<1>1. P \in SUBSET Nat /\ P # {}
  BY PolledTypes, Numbers
<1> HIDE DEF P
<1>2. \E q \in P : \A x \in P : q <= x
  BY <1>1, LeastNumber
<1>3. Min(P) \in P /\ \A x \in P : Min(P) <= x
  BY <1>2 DEF Min
<1> QED
  BY <1>3 DEF P

(* In a settled bucket an allocation ends as the outer loop does.          *)
LEMMA BucketEnds ==
  ASSUME Types, HistoryInv, AgeInv, Allocate, NEW b \in Buckets, Polled(b) # {},
         Settled(Pool(b), Lately(b))
  PROVE  /\ End(b) \in Loops(Polled(b), DealtTo(b))
         /\ Outer(End(b), Polled(b), DealtTo(b), DealtTo(b))
<1>1. /\ Polled(b) \in SUBSET Orders /\ IsFiniteSet(Polled(b))
      /\ DealtTo(b) \in SUBSET (DOMAIN trades)
  BY PolledTypes
<1>2. Polled(b) \subseteq Pool(b)
  BY DEF Polled, Pool, Peers
<1>3. DealtTo(b) \subseteq Lately(b)
  <2>1. Min(Polled(b)) \in Pool(b)
    BY <1>2, OldestPolled
  <2>2. \A q \in placed : createdAt[q] \in Nat
    BY DEF Types, OrderType
  <2> SUFFICES ASSUME NEW j \in DealtTo(b)
               PROVE  j \in Lately(b)
    OBVIOUS
  <2>3. /\ j \in poll.history /\ trades[j].owner # Stranger /\ trades[j].bucket = b
        /\ trades[j].at >= createdAt[Min(Polled(b))]
    BY DEF DealtTo, Matching, Matches, Polled
  <2>4. trades[j].at \in Nat /\ createdAt[Min(Polled(b))] \in Nat
    <3>1. Polled(b) \subseteq placed
      BY DEF Polled, Peers, Types, OrderType
    <3>2. trades[j].at \in Nat
      BY <1>1, TradeFields DEF Types
    <3> QED
      BY <2>2, <3>1, <3>2, OldestPolled
  <2>5. createdAt[Min(Polled(b))] <= trades[j].at
    BY <2>3, <2>4
  <2> QED
    BY <2>1, <2>3, <2>5 DEF Lately
<1>4. \A r \in Pool(b) : processed[r] # {} => r \in Polled(b)
  <2>1. \A r \in listed \ poll.orders : processed[r] = {}
    BY DEF Allocate, AgeInv
  <2> QED
    BY <2>1 DEF Pool, Polled, Peers
<1>5. Settled(Polled(b), DealtTo(b))
  <2> SUFFICES ASSUME NEW p \in Polled(b), NEW f \in processed[p]
               PROVE  /\ \A q \in Polled(b) :
                           q < p => \/ Remaining(q) = 0
                                    \/ \E r \in Polled(b) : r <= q /\ f \in processed[r]
                      /\ \A j \in DealtTo(b) :
                           NotAfter(j, f) => \E r \in Polled(b) :
                             r <= p /\ Fingerprint(trades[j]) \in processed[r]
    BY DEF Settled
  <2>1. \A q \in Polled(b) : q < p => \/ Remaining(q) = 0
                                      \/ \E r \in Pool(b) : r <= q /\ f \in processed[r]
    BY <1>2 DEF Settled
  <2>2. \A j \in DealtTo(b) :
          NotAfter(j, f) => \E r \in Pool(b) :
            r <= p /\ Fingerprint(trades[j]) \in processed[r]
    BY <1>2, <1>3 DEF Settled
  <2> QED
    BY <1>4, <2>1, <2>2
<1>6. OneBucket(DealtTo(b)) /\ HashesDiffer
  BY DEF OneBucket, HashesDiffer, DealtTo, Matching, Matches, HistoryInv
<1> QED
  BY <1>1, <1>5, <1>6, OuterLoop DEF End, Types

(* An allocation leaves a bucket settled: what it deals follows what was   *)
(* dealt before, and what the node may show next is part of its history or *)
(* comes later.                                                            *)
LEMMA SettledAfter ==
  ASSUME Types, HistoryInv, AgeInv, MarkInv, Allocate, restarts = 0,
         NEW b \in Buckets, Undivided(b), Undivided(b)', Settled(Pool(b), Lately(b))
  PROVE  Settled(Pool(b), Lately(b))'
<1>1. /\ listed' = listed /\ poll'.orders = {} /\ poll'.history = {}
      /\ UNCHANGED <<hash, trades, now, createdAt>>
      /\ poll.pc # "idle"
  BY DEF Allocate, Idle, chain
<1>2. /\ placed \subseteq Orders /\ listed \subseteq placed /\ poll.orders \subseteq placed
      /\ \A o \in Orders : o \in Nat
      /\ \A q \in placed : createdAt[q] \in Nat
  BY Numbers DEF Types, OrderType
<1>3. /\ Pool(b)' = Peers(listed, b) /\ Pool(b)' \subseteq Pool(b)
      /\ Pool(b) \subseteq placed
      /\ \A q \in Pool(b) : q \in Orders /\ BucketOf[q] = b
  BY <1>1, <1>2 DEF Pool, Peers
<1>4. Lately(b)' \subseteq Lately(b) /\ Lately(b)' \subseteq LastTrades(HistoryLimit)
  <2>1. LastTrades(HistoryLimit)' = LastTrades(HistoryLimit)
    BY <1>1 DEF LastTrades, Shown
  <2> QED
    BY <1>1, <1>3, <2>1 DEF Lately
<1>5. \A o \in Orders : BucketOf[o] = b /\ processed'[o] # {} => o \in Pool(b)'
  BY <1>1, <1>3 DEF Undivided, Peers
<1>6. \A o \in Orders : processed[o] \subseteq processed'[o]
  BY DEF Allocate
<1>7. \A q \in Pool(b)' : Remaining(q) = 0 => Remaining(q)' = 0
  BY <1>3, SpentHasNoRoom DEF Peers
<1>8. \A j, f : NotAfter(j, f)' <=> NotAfter(j, f)
  BY <1>1 DEF NotAfter, Before, Fingerprint
<1>9. ASSUME NEW p \in Pool(b)', NEW f \in processed[p]
      PROVE  /\ \A q \in Pool(b)' :
                  q < p => \/ Remaining(q)' = 0
                           \/ \E r \in Pool(b)' : r <= q /\ f \in processed'[r]
             /\ \A j \in Lately(b)' :
                  NotAfter(j, f) => \E r \in Pool(b)' :
                    r <= p /\ Fingerprint(trades[j]) \in processed'[r]
  <2>1. \A r \in Pool(b) : processed[r] # {} => r \in Pool(b)'
    BY <1>3, <1>5, <1>6
  <2>2. \A q \in Pool(b)' :
          q < p => Remaining(q) = 0 \/ \E r \in Pool(b) : r <= q /\ f \in processed[r]
    BY <1>3 DEF Settled
  <2>3. \A j \in Lately(b)' :
          NotAfter(j, f) => \E r \in Pool(b) :
            r <= p /\ Fingerprint(trades[j]) \in processed[r]
    BY <1>3, <1>4 DEF Settled
  <2>4. \A r \in Pool(b) : processed[r] \subseteq processed'[r]
    BY <1>3, <1>6
  <2> QED
    BY <1>7, <2>1, <2>2, <2>3, <2>4
<1>10. ASSUME NEW p \in Pool(b)', NEW f \in processed'[p], f \notin processed[p]
       PROVE  /\ \A q \in Pool(b)' :
                   q < p => \/ Remaining(q)' = 0
                            \/ \E r \in Pool(b)' : r <= q /\ f \in processed'[r]
              /\ \A j \in Lately(b)' :
                   NotAfter(j, f) => \E r \in Pool(b)' :
                     r <= p /\ Fingerprint(trades[j]) \in processed'[r]
  <2> DEFINE l == End(b)
             P == Polled(b)
             M == DealtTo(b)
  <2>1. p \in Orders /\ BucketOf[p] = b
    BY <1>3
  <2>2. P # {} /\ Marked(l, p, f)
    BY <1>10, <2>1, AllocateMarks
  <2>3. Outer(l, P, M, M) /\ l \in Loops(P, M)
    BY <2>2, BucketEnds
  <2>4. \A o \in P : /\ o \in Orders /\ BucketOf[o] = b
                     /\ \A g : Marked(l, o, g) => g \in processed'[o] /\ o \in Pool(b)'
    <3>1. \A o \in P : o \in Orders /\ BucketOf[o] = b
      BY PolledTypes DEF Polled, Peers
    <3>2. \A o \in P : \A g : Marked(l, o, g) => g \in processed'[o]
      BY <2>2, <3>1, AllocateMarks
    <3> QED
      BY <1>5, <3>1, <3>2
  <2>5. PICK u \in l.updates : u.ord = p /\ u.trade = f
    BY <1>10, <2>2 DEF Marked
  <2>6. Sound(u, l, P, M) /\ p \in P
    BY <2>3, <2>5 DEF Outer, Loops, UpdatesOf
  <2>7. ASSUME NEW q \in Pool(b)', q < p
        PROVE  Remaining(q)' = 0 \/ \E r \in Pool(b)' : r <= q /\ f \in processed'[r]
    <3>1. q \in P
      <4>1. q \in listed /\ q \in Orders /\ BucketOf[q] = b /\ p \in poll.orders
        BY <1>3, <2>6 DEF Peers, Polled
      <4>2. q \in poll.orders
        BY <1>2, <2>1, <2>7, <4>1 DEF AgeInv
      <4> QED
        BY <4>1, <4>2 DEF Polled, Peers
    <3>2. Spent(l, q) \/ Met(l, P, q, f)
      BY <2>5, <2>6, <2>7, <3>1 DEF Sound
    <3>3. CASE Spent(l, q)
      <4>1. q \in listed /\ BucketOf[q] = b
        BY <1>3 DEF Peers
      <4> QED
        BY <2>2, <3>3, <4>1, SpentHasNoRoom
    <3>4. CASE Met(l, P, q, f)
      BY <2>4, <3>4 DEF Met
    <3> QED
      BY <3>2, <3>3, <3>4
  <2>8. ASSUME NEW j \in Lately(b)', NotAfter(j, f)
        PROVE  \E r \in Pool(b)' : r <= p /\ Fingerprint(trades[j]) \in processed'[r]
    <3>1. PICK k \in M : f = Fingerprint(trades[k])
      BY <2>5, <2>6 DEF Sound
    <3>2. /\ k \in poll.history /\ k \in DOMAIN trades /\ j \in LastTrades(HistoryLimit)
          /\ j \in DOMAIN trades
      BY <1>4, PolledTypes DEF DealtTo, Matching, LastTrades, Shown
    <3>3. trades[k].at \in Nat /\ trades[j].at \in Nat
      BY <3>2, TradeFields DEF Types
    <3>4. trades[j].at <= trades[k].at
      BY <2>8, <3>1, <3>3 DEF NotAfter, Before, Fingerprint
    <3>5. j \in poll.history
      BY <3>2, <3>4 DEF HistoryInv
    <3>6. /\ trades[j].owner # Stranger /\ trades[j].bucket = b
          /\ \E q \in Pool(b)' : createdAt[q] <= trades[j].at
      BY <1>1 DEF Lately
    <3>7. createdAt[Min(P)] <= trades[j].at
      <4>1. PICK q \in Pool(b)' : createdAt[q] <= trades[j].at
        BY <3>6
      <4>2. Min(P) \in P /\ \A o \in P : Min(P) <= o
        BY <2>2, OldestPolled
      <4>3. /\ q \in listed /\ q \in placed /\ q \in Orders /\ BucketOf[q] = b
            /\ Min(P) \in poll.orders /\ Min(P) \in placed /\ Min(P) \in Orders
        BY <1>2, <1>3, <4>2 DEF Peers, Polled
      <4>4. q \in P \/ Min(P) < q
        BY <4>3 DEF AgeInv, Polled, Peers
      <4>5. Min(P) = q \/ Min(P) < q
        BY <1>2, <4>2, <4>3, <4>4
      <4>6. createdAt[Min(P)] = createdAt[q] \/ createdAt[Min(P)] <= createdAt[q]
        BY <4>3, <4>5 DEF AgeInv
      <4>7. createdAt[Min(P)] \in Nat /\ createdAt[q] \in Nat
        BY <1>2, <4>3
      <4> HIDE DEF P
      <4> QED
        BY <3>3, <4>1, <4>6, <4>7
    <3>8. j \in M
      <4>1. createdAt[Min(P)] \in Nat
        BY <1>2, <2>2, OldestPolled DEF Polled, Peers
      <4>2. trades[j].at >= createdAt[Min(P)]
        BY <3>3, <3>7, <4>1
      <4> QED
        BY <3>5, <3>6, <4>2 DEF DealtTo, Matching, Matches, Polled
    <3>9. Met(l, P, p, Fingerprint(trades[j]))
      BY <2>5, <2>6, <2>8, <3>8 DEF Sound
    <3> QED
      BY <2>4, <3>9 DEF Met
  <2> QED
    BY <2>7, <2>8
<1>11. \A j : Fingerprint(trades[j])' = Fingerprint(trades[j])
  BY <1>1
<1> QED
  BY <1>8, <1>9, <1>10, <1>11 DEF Settled

(* Settled from one allocation to the next, and through each.              *)
LEMMA DealtInductive == Spec => []DealtInv
<1>1. Init => DealtInv
  <2> SUFFICES ASSUME Init, NEW b \in Buckets
               PROVE  Settled(Pool(b), Lately(b))
    BY DEF DealtInv
  <2>1. \A p \in Pool(b) : processed[p] = {}
    BY DEF Init, Idle, Pool, Peers
  <2> QED
    BY <2>1 DEF Settled
<1>2. Types /\ HistoryInv /\ AgeInv /\ MarkInv /\ TrackedInv /\ DealtInv /\ [Next]_vars
      => DealtInv'
  <2> SUFFICES ASSUME Types, HistoryInv, AgeInv, MarkInv, TrackedInv, DealtInv, [Next]_vars,
                      restarts' = 0, NEW b \in Buckets, Undivided(b)'
               PROVE  Settled(Pool(b), Lately(b))'
    BY DEF DealtInv
  <2>1. restarts = 0 /\ Undivided(b)
    BY UndividedBefore
  <2>2. Settled(Pool(b), Lately(b))
    BY <2>1 DEF DealtInv
  <2>3. CASE Allocate
    BY <2>1, <2>2, <2>3, SettledAfter
  <2>4. CASE ~Allocate
    BY <2>1, <2>2, <2>4, SettledBetween
  <2> QED
    BY <2>3, <2>4
<1> QED
  BY <1>1, <1>2, TypesInductive, HistoryInductive, AgeInductive, MarkInductive,
     TrackedInductive, PTL DEF Spec

-----------------------------------------------------------------------------
(* What is credited of a trade. *)

CreditSum(f) == SumFunction([o \in Credited(f) |-> CreditOf(o, f)])

(* Of trades that look like f the chain only gets more.                    *)
LEMMA SeenGrows ==
  ASSUME Types, [Next]_vars, NEW f
  PROVE  Seen(f) \in Nat /\ Seen(f)' \in Nat /\ Seen(f) <= Seen(f)'
<1> DEFINE S == {j \in DOMAIN trades : /\ trades[j].owner # Stranger
                                       /\ Fingerprint(trades[j]) = f}
           T == {j \in DOMAIN trades' : /\ trades'[j].owner # Stranger
                                        /\ Fingerprint(trades'[j]) = f}
           v == [k \in S |-> trades[k].amount]
           w == [k \in T |-> trades'[k].amount]
           id == [k \in S |-> k]
<1>1. IsFiniteSet(S) /\ IsFiniteSet(T)
  <2>1. trades \in Seq(Trades) /\ trades' \in Seq(Trades)
    BY TypesStay DEF Types, TradeType
  <2>2. /\ DOMAIN trades = 1..Len(trades) /\ Len(trades) \in Nat
        /\ DOMAIN trades' = 1..Len(trades') /\ Len(trades') \in Nat
    BY <2>1, LenProperties
  <2>3. IsFiniteSet(DOMAIN trades) /\ IsFiniteSet(DOMAIN trades')
    BY <2>2, FS_Interval
  <2>4. S \subseteq DOMAIN trades /\ T \subseteq DOMAIN trades'
    OBVIOUS
  <2> QED
    BY <2>3, <2>4, FS_Subset
<1>2. /\ \A k \in DOMAIN trades : trades[k].amount \in Nat
      /\ \A k \in DOMAIN trades' : trades'[k].amount \in Nat
  <2>1. trades' \in Seq(Trades)
    BY TypesStay DEF Types, TradeType
  <2>2. \A k \in DOMAIN trades' : trades'[k] \in Trades
    BY <2>1, LenProperties, ElementOfSeq
  <2>3. \A k \in DOMAIN trades' : trades'[k].amount \in Sizes
    BY <2>2 DEF Trades
  <2> QED
    BY <2>3, Numbers, TradeFields DEF Types
<1>3. /\ id \in [S -> T] /\ \A x, y \in S : id[x] = id[y] => x = y
      /\ \A x \in S : v[x] \in Nat /\ v[x] <= w[id[x]]
      /\ \A y \in T : w[y] \in Nat
  <2>1. /\ DOMAIN trades \subseteq DOMAIN trades'
        /\ \A k \in DOMAIN trades : trades'[k] = trades[k]
    BY TradesStay
  <2>2. S \subseteq T
    BY <2>1
  <2>3. \A x \in S : /\ v[x] = trades[x].amount /\ w[x] = trades[x].amount /\ id[x] = x
                     /\ x \in DOMAIN trades
    BY <2>1, <2>2
  <2>4. \A y \in T : w[y] = trades'[y].amount /\ y \in DOMAIN trades'
    OBVIOUS
  <2>5. id \in [S -> T]
    BY <2>2
  <2> HIDE DEF S, T, v, w, id
  <2>6. \A x \in S : v[x] \in Nat /\ v[x] <= w[id[x]]
    BY <1>2, <2>3
  <2> QED
    BY <1>2, <2>3, <2>4, <2>5, <2>6
<1>4. Seen(f) = SumFunctionOnSet(v, S) /\ Seen(f)' = SumFunctionOnSet(w, T)
  BY DEF Seen, SumFunction, Fingerprint
<1> HIDE DEF S, T, v, w, id
<1>5. SumFunctionOnSet(v, S) <= SumFunctionOnSet(w, T)
  BY <1>1, <1>3, SumInjects
<1>6. SumFunctionOnSet(v, S) \in Nat /\ SumFunctionOnSet(w, T) \in Nat
  BY <1>1, <1>3, SumTakesOut
<1> QED
  BY <1>4, <1>5, <1>6

(* What is dealt of f is no more than the account traded.                  *)
LEMMA DealtIsSeen ==
  ASSUME Types, NEW b, NEW f
  PROVE  TradeSum(DealtTo(b), f) <= Seen(f)
<1> DEFINE S == {j \in DealtTo(b) : Fingerprint(trades[j]) = f}
           T == {j \in DOMAIN trades : /\ trades[j].owner # Stranger
                                       /\ Fingerprint(trades[j]) = f}
           v == [k \in S |-> trades[k].amount]
           w == [k \in T |-> trades[k].amount]
           id == [k \in S |-> k]
<1>1. S \subseteq T /\ T \subseteq DOMAIN trades
  BY PolledTypes DEF DealtTo, Matching, Matches
<1>2. IsFiniteSet(S) /\ IsFiniteSet(T)
  <2>1. DOMAIN trades = 1..Len(trades) /\ Len(trades) \in Nat
    BY LenProperties DEF Types, TradeType
  <2>2. IsFiniteSet(DOMAIN trades)
    BY <2>1, FS_Interval
  <2>3. IsFiniteSet(T)
    BY <1>1, <2>2, FS_Subset
  <2> QED
    BY <1>1, <2>3, FS_Subset
<1>3. \A k \in T : trades[k].amount \in Nat
  BY <1>1, TradeFields DEF Types
<1>4. /\ id \in [S -> T] /\ \A x, y \in S : id[x] = id[y] => x = y
      /\ \A x \in S : v[x] \in Nat /\ v[x] <= w[id[x]]
      /\ \A y \in T : w[y] \in Nat
  <2>1. \A x \in S : v[x] = trades[x].amount /\ w[x] = trades[x].amount /\ id[x] = x
    BY <1>1
  <2> QED
    BY <1>1, <1>3, <2>1
<1>5. TradeSum(DealtTo(b), f) = SumFunctionOnSet(v, S) /\ Seen(f) = SumFunctionOnSet(w, T)
  BY DEF TradeSum, Seen, SumFunction
<1> HIDE DEF S, T, v, w, id
<1> QED
  BY <1>2, <1>4, <1>5, SumInjects

(* An allocation that credits f credits it for the first time, out of the  *)
(* updates of its bucket.                                                  *)
LEMMA CreditsAreUpdates ==
  ASSUME Types, HistoryInv, AgeInv, MarkInv, Allocate, restarts = 0, NEW b \in Buckets,
         Undivided(b), Settled(Pool(b), Lately(b)),
         NEW f \in Fingerprints, f.bucket = b,
         NEW o \in Orders, NEW g \in fills'[o] \ fills[o], g.trade = f
  PROVE  /\ Polled(b) # {}
         /\ \A q \in Orders : \A e \in fills[q] : e.trade # f
         /\ \A q \in Orders : \A e \in fills'[q] : e.trade = f =>
              \E u \in End(b).updates : u.ord = q /\ u.trade = f /\ u.amount = e.amount
<1>1. ASSUME NEW q \in Orders, NEW e \in fills'[q] \ fills[q], e.trade = f
      PROVE  /\ BucketOf[q] = b /\ Polled(b) # {}
             /\ \E u \in End(b).updates : u.ord = q /\ u.trade = f /\ u.amount = e.amount
  <2>1. PICK k \in Matching(poll.history, BucketOf[q], poll.orders) : e.trade = Fingerprint(trades[k])
    <3> DEFINE u == [ord |-> q, trade |-> e.trade, amount |-> e.amount]
    <3>1. Credit(u, Matching(poll.history, BucketOf[q], poll.orders))
      BY AllocateCredits
    <3>2. u.trade = e.trade
      OBVIOUS
    <3> HIDE DEF u
    <3> QED
      BY <3>1, <3>2 DEF Credit
  <2>2. BucketOf[q] = b
    BY <1>1, <2>1 DEF Matching, Matches, Fingerprint
  <2>3. /\ Polled(b) # {}
        /\ \E u \in End(b).updates : u.ord = q /\ u.trade = e.trade /\ u.amount = e.amount
    BY <2>2, AllocateMarks
  <2> QED
    BY <1>1, <2>2, <2>3
<1>2. PICK u \in End(b).updates : u.ord = o /\ u.trade = f
  BY <1>1
<1>3. Polled(b) # {} /\ \A q \in Polled(b) : f \notin processed[q]
  <2>1. Polled(b) # {}
    BY <1>1
  <2>2. Sound(u, End(b), Polled(b), DealtTo(b))
    BY <2>1, BucketEnds DEF Outer
  <2> QED
    BY <1>2, <2>1, <2>2 DEF Sound
<1>4. ASSUME NEW q \in Orders
      PROVE  f \notin processed[q]
  <2> SUFFICES ASSUME f \in processed[q]
               PROVE  FALSE
    OBVIOUS
  <2>1. BucketOf[q] = b
    BY DEF MarkInv
  <2>2. q \in listed
    BY <2>1 DEF Undivided
  <2>3. q \in poll.orders
    BY <2>2 DEF AgeInv, Allocate
  <2> QED
    BY <1>3, <2>1, <2>3 DEF Polled, Peers
<1>5. \A q \in Orders : \A e \in fills[q] : e.trade # f
  BY <1>4 DEF MarkInv
<1> QED
  BY <1>1, <1>3, <1>5

(* And so what is credited of f is within what the loop spent of it.       *)
LEMMA FirstCredit ==
  ASSUME Types, HistoryInv, AgeInv, MarkInv, Allocate, restarts = 0, NEW b \in Buckets,
         Undivided(b), Settled(Pool(b), Lately(b)),
         NEW f \in Fingerprints, f.bucket = b,
         NEW o \in Orders, NEW g \in fills'[o] \ fills[o], g.trade = f
  PROVE  CreditSum(f)' <= Seen(f)
<1> DEFINE S == {q \in Orders : \E e \in fills'[q] : e.trade = f}
           C == CreditsOf(End(b), f)
           v == [q \in S |-> SumOf({e \in fills'[q] : e.trade = f})]
           w == [u \in C |-> u.amount]
           h == [q \in S |-> CHOOSE u \in C :
                               /\ u.ord = q
                               /\ \A e \in fills'[q] : e.trade = f => e.amount = u.amount]
<1>1. /\ Polled(b) # {}
      /\ \A q \in Orders : \A e \in fills[q] : e.trade # f
      /\ \A q \in Orders : \A e \in fills'[q] : e.trade = f =>
           \E u \in End(b).updates : u.ord = q /\ u.trade = f /\ u.amount = e.amount
  BY CreditsAreUpdates
<1>2. End(b) \in Loops(Polled(b), DealtTo(b)) /\ SumOf(C) <= TradeSum(DealtTo(b), f)
  BY <1>1, BucketEnds DEF Outer
<1>3. IsFiniteSet(C) /\ \A u \in C : u.amount \in Nat
  <2>1. /\ IsFiniteSet(End(b).updates) /\ C \subseteq End(b).updates
        /\ End(b).updates \subseteq UpdatesOf(Polled(b))
    BY <1>2 DEF Loops, CreditsOf
  <2> QED
    BY <2>1, FS_Subset DEF UpdatesOf
<1>4. \A q \in S : /\ q \in listed
                   /\ \A d, e \in fills'[q] : d.trade = f /\ e.trade = f => d = e
  <2>1. \A q \in Orders : \A e \in fills'[q] : e.trade = f => e \in fills'[q] \ fills[q]
    BY <1>1
  <2>2. \A q \in Orders : \A e \in fills'[q] \ fills[q] :
          q \in listed /\ \A d \in fills'[q] : d.trade = e.trade => d = e
    BY AllocateCredits
  <2> QED
    BY <2>1, <2>2
<1>5. IsFiniteSet(S)
  <2>1. S \subseteq placed /\ IsFiniteSet(placed)
    BY <1>4 DEF Types, OrderType
  <2> QED
    BY <2>1, FS_Subset
<1>6. ASSUME NEW q \in S
      PROVE  h[q] \in C /\ h[q].ord = q /\ v[q] \in Nat /\ v[q] = h[q].amount
  <2>1. PICK e \in fills'[q] : e.trade = f
    OBVIOUS
  <2>2. PICK u \in C : u.ord = q /\ u.amount = e.amount
    BY <1>1, <2>1 DEF CreditsOf
  <2>3. \A d \in fills'[q] : d.trade = f => d = e
    BY <1>4, <2>1
  <2>4. u.ord = q /\ \A d \in fills'[q] : d.trade = f => d.amount = u.amount
    BY <2>2, <2>3
  <2>5. h[q] \in C /\ h[q].ord = q /\ \A d \in fills'[q] : d.trade = f => d.amount = h[q].amount
    BY <2>4
  <2>6. {d \in fills'[q] : d.trade = f} = {e}
    BY <2>1, <2>3
  <2>7. SumOf({e}) = e.amount /\ e.amount \in Nat
    <3> DEFINE one == {e}
               rest == one \ {e}
    <3>1. e \in Fills
      BY AllocateCredits
    <3>2. one \in SUBSET Fills /\ IsFiniteSet(one) /\ e \in one /\ e.amount \in Nat
      BY <3>1, FS_Singleton DEF Fills
    <3>3. rest \in SUBSET Fills /\ IsFiniteSet(rest) /\ rest = {}
      BY FS_EmptySet
    <3> HIDE DEF one, rest
    <3>4. SumOf(one) = e.amount + SumOf(one \ {e}) /\ SumOf(rest) = 0
      BY <3>2, <3>3, SumOfFills
    <3>5. SumOf(one) = e.amount + 0
      BY <3>4 DEF rest
    <3> QED
      BY <3>2, <3>5 DEF one
  <2>8. v[q] = SumOf({d \in fills'[q] : d.trade = f})
    OBVIOUS
  <2>9. e.amount = h[q].amount
    BY <2>1, <2>5
  <2> HIDE DEF v, h, C, S
  <2> QED
    BY <2>5, <2>6, <2>7, <2>8, <2>9
<1>7. CreditSum(f)' = SumFunctionOnSet(v, S)
  BY DEF CreditSum, Credited, CreditOf, SumFunction, SumOf
<1>8. SumOf(C) = SumFunctionOnSet(w, C)
  BY DEF SumOf, SumFunction
<1>9. /\ h \in [S -> C] /\ \A x, y \in S : h[x] = h[y] => x = y
      /\ \A x \in S : v[x] \in Nat /\ v[x] <= w[h[x]]
      /\ \A u \in C : w[u] \in Nat
  <2>1. \A u \in C : w[u] = u.amount
    OBVIOUS
  <2>2. h \in [S -> C]
    BY <1>6
  <2> HIDE DEF v, w, h, C, S
  <2>3. \A x \in S : v[x] = w[h[x]]
    BY <1>6, <2>1
  <2>4. \A x \in S : h[x].ord = x
    BY <1>6
  <2> QED
    BY <1>3, <1>6, <2>1, <2>2, <2>3, <2>4
<1> HIDE DEF v, w, h, C, S
<1>10. SumFunctionOnSet(v, S) <= SumFunctionOnSet(w, C)
  BY <1>3, <1>5, <1>9, SumInjects
<1>11. /\ SumFunctionOnSet(v, S) \in Nat /\ SumFunctionOnSet(w, C) \in Nat
       /\ TradeSum(DealtTo(b), f) \in Nat /\ Seen(f) \in Nat
  <2>1. SumFunctionOnSet(v, S) \in Nat /\ SumFunctionOnSet(w, C) \in Nat
    BY <1>3, <1>5, <1>9, SumTakesOut
  <2>2. TradeSum(DealtTo(b), f) \in Nat
    BY PolledTypes, TradeSums DEF Types
  <2>3. Seen(f) \in Nat
    BY SeenGrows DEF Next
  <2> QED
    BY <2>1, <2>2, <2>3
<1> QED
  BY <1>2, <1>7, <1>8, <1>10, <1>11, DealtIsSeen

(* The sum of the credits is one of finitely many amounts, as long as all  *)
(* fills are of processed trades.                                          *)
LEMMA CreditSumType ==
  ASSUME Types, MarkInv, TrackedInv, restarts = 0, NEW f
  PROVE  CreditSum(f) \in Nat
<1> DEFINE S == Credited(f)
           v == [o \in S |-> CreditOf(o, f)]
<1>1. IsFiniteSet(S)
  <2>1. S \subseteq placed /\ IsFiniteSet(placed)
    BY DEF Credited, MarkInv, TrackedInv, Types, OrderType
  <2> QED
    BY <2>1, FS_Subset
<1>2. ASSUME NEW o \in S
      PROVE  v[o] \in Nat
  <2> DEFINE F == {u \in fills[o] : u.trade = f}
  <2>1. o \in Orders /\ F \subseteq fills[o]
    BY DEF Credited
  <2>2. fills[o] \in SUBSET Fills /\ IsFiniteSet(fills[o])
    BY <2>1 DEF Types, FillsType
  <2>3. F \in SUBSET Fills /\ IsFiniteSet(F)
    BY <2>1, <2>2, FS_Subset
  <2>4. v[o] = SumOf(F)
    BY DEF CreditOf
  <2> HIDE DEF F, v
  <2> QED
    BY <2>3, <2>4, SumOfFills
<1>3. CreditSum(f) = SumFunctionOnSet(v, S)
  BY DEF CreditSum, SumFunction
<1> HIDE DEF S, v
<1> QED
  BY <1>1, <1>2, <1>3, SumTakesOut

(* No trade is credited beyond its amount while every order of its bucket  *)
(* that was dealt a trade is listed and the connector did not restart, for *)
(* any number of orders, trades, polls, placements and cancels.            *)
THEOREM NoTradeOvercredited == Spec => []CreditsWithinTrade
<1>1. Init => CreditsWithinTrade
  <2> SUFFICES ASSUME Init, NEW f \in Fingerprints
               PROVE  CreditSum(f) <= Seen(f)
    BY DEF CreditsWithinTrade, CreditSum
  <2> DEFINE v == [o \in Credited(f) |-> CreditOf(o, f)]
             S == {j \in DOMAIN trades : trades[j].owner # Stranger /\ Fingerprint(trades[j]) = f}
             w == [k \in S |-> trades[k].amount]
  <2>1. Credited(f) = {} /\ S = {}
    BY EmptySeq DEF Init, Credited
  <2>2. CreditSum(f) = SumFunctionOnSet(v, {}) /\ Seen(f) = SumFunctionOnSet(w, {})
    BY <2>1 DEF CreditSum, Seen, SumFunction
  <2> HIDE DEF v, w
  <2>3. SumFunctionOnSet(v, {}) = 0 /\ SumFunctionOnSet(w, {}) = 0
    <3> DEFINE none == {}
    <3>1. IsFiniteSet(none) /\ none = {} /\ \A x \in none : FALSE
      BY FS_EmptySet
    <3> HIDE DEF none
    <3> QED
      BY <3>1, SumTakesOut
  <2> QED
    BY <2>2, <2>3
<1>2. Types /\ HistoryInv /\ AgeInv /\ MarkInv /\ TrackedInv /\ DealtInv
      /\ CreditsWithinTrade /\ [Next]_vars => CreditsWithinTrade'
  <2> SUFFICES ASSUME Types, HistoryInv, AgeInv, MarkInv, TrackedInv, DealtInv,
                      CreditsWithinTrade, [Next]_vars, restarts' = 0,
                      NEW f \in Fingerprints, Undivided(f.bucket)'
               PROVE  CreditSum(f)' <= Seen(f)'
    BY DEF CreditsWithinTrade, CreditSum
  <2> DEFINE b == f.bucket
  <2>1. restarts = 0 /\ Undivided(b) /\ b \in Buckets
    BY UndividedBefore DEF Fingerprints
  <2>2. CreditSum(f) <= Seen(f)
    BY <2>1 DEF CreditsWithinTrade, CreditSum
  <2>3. Seen(f) \in Nat /\ Seen(f)' \in Nat /\ Seen(f) <= Seen(f)'
    BY SeenGrows
  <2>4. CASE \A o \in Orders : {e \in fills'[o] : e.trade = f} = {e \in fills[o] : e.trade = f}
    <3>1. Credited(f)' = Credited(f)
      BY <2>4 DEF Credited
    <3>2. \A o \in Credited(f) : CreditOf(o, f)' = CreditOf(o, f)
      BY <2>4 DEF Credited, CreditOf, SumOf
    <3>3. CreditSum(f)' = CreditSum(f)
      BY <3>1, <3>2 DEF CreditSum
    <3>4. CreditSum(f) \in Nat
      BY <2>1, CreditSumType
    <3> QED
      BY <2>2, <2>3, <3>3, <3>4
  <2>5. CASE ~\A o \in Orders : {e \in fills'[o] : e.trade = f} = {e \in fills[o] : e.trade = f}
    <3>1. Allocate
      BY <2>5, OnlyAllocateFills
    <3>2. \A o \in Orders : fills[o] \subseteq fills'[o]
      BY <3>1, AllocateCredits
    <3>3. PICK o \in Orders : \E g \in fills'[o] \ fills[o] : g.trade = f
      BY <2>5, <3>2
    <3>4. Settled(Pool(b), Lately(b))
      BY <2>1 DEF DealtInv
    <3>5. CreditSum(f)' <= Seen(f)
      BY <2>1, <3>1, <3>3, <3>4, FirstCredit
    <3>6. Seen(f)' = Seen(f)
      BY <3>1 DEF Allocate, chain, Seen, Fingerprint
    <3> QED
      BY <3>5, <3>6
  <2> QED
    BY <2>4, <2>5
<1> QED
  BY <1>1, <1>2, TypesInductive, HistoryInductive, AgeInductive, MarkInductive,
     TrackedInductive, DealtInductive, PTL DEF Spec

-----------------------------------------------------------------------------
(* The promise of the polls.                                               *)

(* The trades of the account at a price.                                   *)
AccountTrades(b) == {j \in DOMAIN trades : trades[j].owner # Stranger /\ trades[j].bucket = b}

(* What the account traded at a price is a number, 0 without trades.       *)
LEMMA TradedAtType ==
  ASSUME TradeType, NEW b
  PROVE  /\ TradedAt(b) \in Nat /\ IsFiniteSet(AccountTrades(b))
         /\ DOMAIN trades = {} => TradedAt(b) = 0
<1> DEFINE S == AccountTrades(b)
           w == [k \in S |-> trades[k].amount]
<1>1. IsFiniteSet(S)
  <2>1. DOMAIN trades = 1..Len(trades) /\ Len(trades) \in Nat
    BY LenProperties DEF TradeType
  <2>2. IsFiniteSet(DOMAIN trades) /\ S \in SUBSET (DOMAIN trades)
    BY <2>1, FS_Interval DEF AccountTrades
  <2> HIDE DEF S
  <2> QED
    BY <2>2, FS_Subset
<1>2. \A k \in S : w[k] \in Nat
  BY TradeFields DEF AccountTrades
<1>3. TradedAt(b) = SumFunctionOnSet(w, S)
  BY DEF TradedAt, AccountTrades, SumFunction
<1>4. DOMAIN trades = {} => S = {}
  BY DEF AccountTrades
<1> HIDE DEF S, w
<1>5. SumFunctionOnSet(w, S) \in Nat /\ (S = {} => SumFunctionOnSet(w, S) = 0)
  BY <1>1, <1>2, SumTakesOut
<1> QED
  BY <1>1, <1>3, <1>4, <1>5 DEF S

(* A trade adds its amount at its price if it is the account's.            *)
LEMMA TradedAtAdds ==
  ASSUME Types, NEW owner \in Orders \cup {Other, Stranger}, NEW b \in Buckets, NEW n \in Sizes,
         Execute(owner, b, n), NEW c \in Buckets
  PROVE  TradedAt(c)' = IF owner # Stranger /\ c = b THEN TradedAt(c) + n ELSE TradedAt(c)
<1> DEFINE last == Len(trades) + 1
           S == AccountTrades(c)
           T == AccountTrades(c)'
           w == [k \in S |-> trades[k].amount]
           v == [k \in T |-> trades'[k].amount]
<1>1. /\ trades' \in Seq(Trades) /\ DOMAIN trades' = DOMAIN trades \cup {last}
      /\ last \notin DOMAIN trades /\ \A k \in DOMAIN trades : trades'[k] = trades[k]
      /\ trades'[last].owner = owner /\ trades'[last].amount = n /\ trades'[last].bucket = b
  <2>1. /\ trades' \in Seq(Trades) /\ DOMAIN trades' = DOMAIN trades \cup {Len(trades) + 1}
        /\ Len(trades) + 1 \notin DOMAIN trades
        /\ \A k \in DOMAIN trades : trades'[k] = trades[k]
        /\ trades'[Len(trades) + 1] = [owner |-> owner, bucket |-> b, amount |-> n, at |-> now]
    BY ExecuteTypes
  <2> QED
    BY <2>1
<1>2. TradeType /\ TradeType'
  <2>1. hash' = hash
    BY DEF Execute
  <2> QED
    BY <1>1, <2>1 DEF Types, TradeType
<1>3. IsFiniteSet(S) /\ TradedAt(c) \in Nat
  BY <1>2, TradedAtType
<1>4. \A k \in S : w[k] = trades[k].amount /\ w[k] \in Nat
  BY <1>2, TradeFields DEF AccountTrades
<1>5. \A k \in T : v[k] = trades'[k].amount /\ v[k] \in Nat
  <2>1. \A k \in DOMAIN trades : trades'[k].amount \in Nat
    BY <1>1, <1>2, TradeFields
  <2>2. n \in Nat
    BY Numbers
  <2>3. T \subseteq DOMAIN trades \cup {last}
    BY <1>1 DEF AccountTrades
  <2> QED
    BY <1>1, <2>1, <2>2, <2>3
<1>6. TradedAt(c) = SumFunctionOnSet(w, S) /\ TradedAt(c)' = SumFunctionOnSet(v, T)
  BY DEF TradedAt, AccountTrades, SumFunction
<1>7. S = T \ {last} /\ (last \in T <=> owner # Stranger /\ c = b)
  BY <1>1 DEF AccountTrades
<1>8. v[last] = n \/ last \notin T
  BY <1>1
<1>9. \A k \in S : w[k] = v[k]
  <2>1. \A k \in S : k \in T /\ k \in DOMAIN trades
    BY <1>7 DEF AccountTrades
  <2> QED
    BY <1>1, <2>1
<1> HIDE DEF last, S, T, w, v
<1>10. T = S \cup {last} \/ (last \notin T /\ T = S)
  BY <1>7
<1>11. IsFiniteSet(T)
  BY <1>3, <1>10, FS_AddElement
<1>12. SumFunctionOnSet(w, S) = SumFunctionOnSet(v, S)
  BY <1>3, <1>4, <1>9, SumAgrees
<1>13. CASE owner # Stranger /\ c = b
  <2>1. SumFunctionOnSet(v, T) = n + SumFunctionOnSet(v, S)
    BY <1>5, <1>7, <1>8, <1>11, <1>13, SumTakesOut
  <2>2. n \in Nat
    BY Numbers
  <2> QED
    BY <1>3, <1>6, <1>12, <1>13, <2>1, <2>2
<1>14. CASE ~(owner # Stranger /\ c = b)
  BY <1>6, <1>7, <1>10, <1>12, <1>14
<1> QED
  BY <1>13, <1>14

(* An order is credited with no more than the account traded at its price: *)
(* each fill has a trade of its own there.                                 *)
LEMMA ExecutedWithinTraded ==
  ASSUME Types, BackedInv, NEW o \in Orders
  PROVE  Executed(o) <= TradedAt(BucketOf[o])
<1> DEFINE b == BucketOf[o]
           F == fills[o]
           T == AccountTrades(b)
           v == [f \in F |-> f.amount]
           w == [k \in T |-> trades[k].amount]
           of == [f \in F |-> CHOOSE k \in T : Backs(k, f)]
<1>1. F \in SUBSET Fills /\ IsFiniteSet(F)
  BY DEF Types, FillsType
<1>2. \A f \in F : of[f] \in T /\ Backs(of[f], f)
  BY DEF BackedInv, AccountTrades
<1>3. \A f, g \in F : f.trade = g.trade => f = g
  BY DEF BackedInv
<1>4. IsFiniteSet(T)
  BY TradedAtType DEF Types
<1>5. \A k \in T : w[k] = trades[k].amount /\ w[k] \in Nat
  BY TradeFields DEF Types, AccountTrades
<1>6. \A f \in F : v[f] = f.amount /\ v[f] \in Nat
  BY <1>1 DEF Fills
<1>7. Executed(o) = SumFunctionOnSet(v, F) /\ TradedAt(b) = SumFunctionOnSet(w, T)
  BY DEF Executed, SumOf, TradedAt, AccountTrades, SumFunction
<1>8. of \in [F -> T]
  BY <1>2
<1> HIDE DEF b, F, T, v, w, of
<1>9. \A f \in F : v[f] <= w[of[f]]
  BY <1>2, <1>5, <1>6 DEF Backs
<1>10. \A f, g \in F : of[f] = of[g] => f = g
  BY <1>2, <1>3 DEF Backs
<1>11. SumFunctionOnSet(v, F) <= SumFunctionOnSet(w, T)
  BY <1>1, <1>4, <1>5, <1>6, <1>8, <1>9, <1>10, SumInjects
<1> QED
  BY <1>7, <1>11 DEF b

WithinTraded == \A o \in Orders : Executed(o) <= TradedAt(BucketOf[o])

(* So it is in every state.                                                *)
LEMMA AlwaysWithinTraded == Spec => []WithinTraded
<1>1. Types /\ BackedInv => WithinTraded
  BY ExecutedWithinTraded DEF WithinTraded
<1> QED
  BY <1>1, TypesInductive, BackedInductive, PTL

(* The amount executed of an order is a number that never goes down.       *)
LEMMA ExecutedGrows ==
  ASSUME Types, [Next]_vars, NEW o \in Orders
  PROVE  Executed(o) \in Nat /\ Executed(o)' \in Nat /\ Executed(o) <= Executed(o)'
<1>1. fills[o] \subseteq fills'[o]
  BY OnlyAllocateFills, AllocateCredits
<1>2. /\ fills[o] \in SUBSET Fills /\ IsFiniteSet(fills[o])
      /\ fills'[o] \in SUBSET Fills /\ IsFiniteSet(fills'[o])
  BY TypesStay DEF Types, FillsType
<1>3. SumOf(fills[o]) \in Nat /\ SumOf(fills'[o]) \in Nat
  BY <1>2, SumOfFills
<1>4. \A f \in fills'[o] : f.amount \in Nat
  BY <1>2 DEF Fills
<1>5. SumOf(fills[o]) <= SumOf(fills'[o])
  BY <1>1, <1>2, <1>4, SumGrows
<1>6. Executed(o) = SumOf(fills[o]) /\ Executed(o)' = SumOf(fills'[o])
  BY DEF Executed
<1> QED
  BY <1>3, <1>5, <1>6

(* What is executed of an order only grows, and stays within what the      *)
(* account traded at its price, for any orders, buckets, trades, windows,  *)
(* failures and restarts: a step of FillAllocation is a trade, a poll that *)
(* credits, or nothing.                                                    *)
THEOREM ImplementsPromise == Spec => ImplementsPriceFills
<1> DEFINE traded == [b \in Buckets |-> TradedAt(b)]
           executed == [o \in Orders |-> Executed(o)]
<1>1. Init => Promise!Init
  <2> SUFFICES ASSUME Init
               PROVE  traded = [b \in Buckets |-> 0] /\ executed = [o \in Orders |-> 0]
    BY DEF Promise!Init
  <2>1. trades = <<>> /\ DOMAIN trades = {} /\ hash \in [Sizes -> Nat]
    BY EmptySeq DEF Init
  <2>2. TradeType
    BY <2>1, EmptySeq DEF TradeType
  <2>3. \A b \in Buckets : TradedAt(b) = 0
    BY <2>1, <2>2, TradedAtType
  <2>4. \A o \in Orders : fills[o] = {}
    BY DEF Init
  <2>5. \A o \in Orders : Executed(o) = 0
    BY <2>4, SumOfFills, FS_EmptySet DEF Executed
  <2> QED
    BY <2>3, <2>5
<1>2. Types /\ WithinTraded' /\ [Next]_vars => [Promise!Next]_Promise!vars
  <2> SUFFICES ASSUME Types, WithinTraded', [Next]_vars
               PROVE  Promise!Next \/ UNCHANGED <<traded, executed>>
    BY DEF Promise!vars
  <2>1. CASE Allocate
    <3>1. UNCHANGED trades
      BY <2>1 DEF Allocate, chain
    <3>2. traded' = traded
      BY <3>1 DEF TradedAt
    <3>3. \A o \in Orders : /\ Executed(o) \in Nat /\ Executed(o)' \in Nat
                            /\ Executed(o) <= Executed(o)'
      BY ExecutedGrows
    <3>4. \A o \in Orders : Executed(o)' <= TradedAt(BucketOf[o])'
      BY DEF WithinTraded
    <3>5. \A o \in Orders : BucketOf[o] \in Buckets
      BY Numbers
    <3>6. \A o \in Orders : TradedAt(BucketOf[o]) \in Nat
      BY TradedAtType DEF Types
    <3>7. executed' = [o \in Orders |-> Executed(o)']
      OBVIOUS
    <3>8. executed' \in [Orders -> Nat]
      BY <3>3, <3>7
    <3>9. \A o \in Orders : TradedAt(BucketOf[o])' = TradedAt(BucketOf[o])
      BY <3>1 DEF TradedAt
    <3>10. \A o \in Orders : executed'[o] \in executed[o]..traded[BucketOf[o]]
      BY <3>3, <3>4, <3>5, <3>6, <3>7, <3>9
    <3> QED
      BY <3>2, <3>8, <3>10 DEF Promise!Next, Promise!Credit
  <2>2. CASE UNCHANGED <<trades, fills>>
    BY <2>2 DEF TradedAt, Executed, SumOf
  <2>3. ASSUME NEW owner \in Orders \cup {Other, Stranger}, NEW b \in Buckets, NEW n \in Sizes,
               Execute(owner, b, n)
        PROVE  Promise!Next \/ UNCHANGED <<traded, executed>>
    <3>1. UNCHANGED fills
      BY <2>3 DEF Execute, tracker
    <3>2. executed' = executed
      BY <3>1 DEF Executed, SumOf
    <3>3. \A c \in Buckets :
            TradedAt(c)' = IF owner # Stranger /\ c = b THEN TradedAt(c) + n ELSE TradedAt(c)
      BY <2>3, TradedAtAdds
    <3>4. traded' = [c \in Buckets |-> TradedAt(c)']
      OBVIOUS
    <3>5. CASE owner = Stranger
      BY <3>2, <3>3, <3>4, <3>5
    <3>6. CASE owner # Stranger
      <4>1. traded' = [traded EXCEPT ![b] = @ + n]
        BY <3>3, <3>4, <3>6
      <4> QED
        BY <3>2, <4>1 DEF Promise!Next, Promise!Trade
    <3> QED
      BY <3>5, <3>6
  <2>4. CASE StartPoll \/ ReadHistory \/ PollFails \/ Tick \/ Restart \/ UNCHANGED vars
    BY <2>2, <2>4 DEF StartPoll, ReadHistory, PollFails, Tick, Restart, vars, chain, tracker
  <2>5. ASSUME NEW o \in Orders, Place(o) \/ Cancel(o) \/ Drop(o)
        PROVE  UNCHANGED <<trades, fills>>
    BY <2>5 DEF Place, Cancel, Drop, chain, tracker
  <2>6. ASSUME NEW o \in Orders, Trade(o)
        PROVE  Promise!Next \/ UNCHANGED <<traded, executed>>
    BY <2>3, <2>6, Numbers DEF Trade
  <2>7. CASE OtherTrade
    BY <2>3, <2>7 DEF OtherTrade
  <2> QED
    BY <2>1, <2>2, <2>4, <2>5, <2>6, <2>7 DEF Next
<1> QED
  BY <1>1, <1>2, TypesInductive, AlwaysWithinTraded, PTL
  DEF Spec, ImplementsPriceFills, Promise!Spec
=============================================================================
