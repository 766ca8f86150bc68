----------------------------- MODULE FoldLemmas -----------------------------
(***************************************************************************)
(* Facts about least elements, finite sets, folds, sums and recursion that *)
(* the proofs about components rest on.  A fold over a finite set is       *)
(* defined by recursion over its subsets, and other recursive functions by *)
(* recursion over numbers or over a measure: the lemmas say that such a    *)
(* recursion has a solution and what all of its values are, with functions *)
(* and sets in the place of operators.                                     *)
(***************************************************************************)
EXTENDS Naturals, FiniteSets, Functions, FiniteSetTheorems, WellFoundedInduction, TLAPS

(* Every nonempty set of numbers has a least one.                          *)
LEMMA LeastNumber ==
  ASSUME NEW U \in SUBSET Nat, U # {}
  PROVE  \E m \in U : \A n \in U : m <= n
<1> DEFINE R == OpToRel(<, Nat)
<1>1. PICK m \in U : \A n \in U : ~(<<n, m>> \in R)
  <2>1. IsWellFoundedOn(R, Nat)
    BY NatLessThanWellFounded
  <2> HIDE DEF R
  <2> QED
    BY <2>1, WFMin
<1>2. R = {ss \in Nat \X Nat : ss[1] < ss[2]}
  BY Zenon DEF OpToRel
<1>3. \A n \in U : ~(n < m)
  BY <1>1, <1>2
<1> QED
  BY <1>3

(* Among sets of elements of a finite set there is a smallest: none that   *)
(* lacks one of its elements is among them.                                *)
LEMMA SmallestSet ==
  ASSUME NEW S, IsFiniteSet(S), NEW U \in SUBSET (SUBSET S), U # {}
  PROVE  \E s \in U : \A x \in s : s \ {x} \notin U
<1> DEFINE Sizes == {Cardinality(s) : s \in U}
<1>1. \A s \in SUBSET S : IsFiniteSet(s) /\ Cardinality(s) \in Nat
  BY FS_Subset, FS_CardinalityType
<1>2. Sizes \in SUBSET Nat /\ Sizes # {}
  BY <1>1
<1>3. PICK n \in Sizes : \A k \in Sizes : n <= k
  <2> HIDE DEF Sizes
  <2> QED
    BY <1>2, LeastNumber
<1>4. PICK s \in U : n = Cardinality(s)
  BY <1>3
<1>5. ASSUME NEW x \in s, s \ {x} \in U
      PROVE  FALSE
  <2>1. Cardinality(s \ {x}) = Cardinality(s) - 1
    BY <1>1, FS_RemoveElement
  <2>2. Cardinality(s \ {x}) \in Sizes
    BY <1>5
  <2>3. Cardinality(s) <= Cardinality(s \ {x})
    BY <1>3, <1>4, <2>2
  <2>4. Cardinality(s) \in Nat
    BY <1>1
  <2> QED
    BY <2>1, <2>3, <2>4
<1> QED
  BY <1>5

(* Every nonempty finite set of numbers has a greatest one.                *)
LEMMA GreatestOfFinite ==
  ASSUME NEW S \in SUBSET Nat, IsFiniteSet(S)
  PROVE  \A s \in SUBSET S : s # {} => \E m \in s : \A n \in s : m >= n
<1> DEFINE U == {s \in SUBSET S : s # {} /\ ~\E m \in s : \A n \in s : m >= n}
<1>1. SUFFICES ASSUME U # {}
               PROVE  FALSE
  OBVIOUS
<1>2. PICK s \in U : \A x \in s : s \ {x} \notin U
  BY <1>1, SmallestSet
<1>3. PICK x \in s : TRUE
  BY <1>2
<1>4. s \ {x} # {}
  BY <1>2, <1>3
<1>5. PICK m \in s \ {x} : \A n \in s \ {x} : m >= n
  BY <1>2, <1>4
<1>6. \A n \in s : n \in Nat
  BY <1>2
<1>7. CASE x >= m
  <2>1. \A n \in s : x >= n
    BY <1>5, <1>6, <1>7
  <2> QED
    BY <1>2, <2>1
<1>8. CASE ~(x >= m)
  <2>1. \A n \in s : m >= n
    BY <1>5, <1>6, <1>8
  <2> QED
    BY <1>2, <2>1
<1> QED
  BY <1>7, <1>8

-----------------------------------------------------------------------------
(* Recursion over the subsets of S: pick[s] is the element of s that is    *)
(* dealt with last, step[x][v] what x makes of the value v.                *)

Recursion(iter, D, base, step, pick) ==
  \A s \in D : iter[s] = IF s = {} THEN base ELSE step[pick[s]][iter[s \ {pick[s]}]]

(* The recursion has a solution on all subsets, with values in V.          *)
LEMMA RecursionSolved ==
  ASSUME NEW S, IsFiniteSet(S), NEW V, NEW base \in V, NEW step \in [S -> [V -> V]],
         NEW pick, \A s \in SUBSET S : s # {} => pick[s] \in s
  PROVE  \E iter \in [SUBSET S -> V] : Recursion(iter, SUBSET S, base, step, pick)
<1> DEFINE D(n) == {s \in SUBSET S : Cardinality(s) <= n}
           Solved(n) == \E iter \in [D(n) -> V] : Recursion(iter, D(n), base, step, pick)
           U == {n \in Nat : ~Solved(n)}
<1>1. \A s \in SUBSET S : IsFiniteSet(s) /\ Cardinality(s) \in Nat
  BY FS_Subset, FS_CardinalityType
<1>2. \A s \in SUBSET S : Cardinality(s) <= 0 => s = {}
  BY <1>1, FS_EmptySet
<1>3. ASSUME NEW n \in Nat, Solved(n)
      PROVE  Solved(n + 1)
  <2>1. PICK f \in [D(n) -> V] : Recursion(f, D(n), base, step, pick)
    BY <1>3
  <2> DEFINE g == [s \in D(n + 1) |->
                     IF s = {} THEN base ELSE step[pick[s]][f[s \ {pick[s]}]]]
  <2>2. ASSUME NEW s \in D(n + 1), s # {}
        PROVE  pick[s] \in S /\ s \ {pick[s]} \in D(n)
    <3>1. pick[s] \in s
      BY <2>2
    <3>2. Cardinality(s \ {pick[s]}) = Cardinality(s) - 1
      BY <1>1, <3>1, FS_RemoveElement
    <3> QED
      BY <1>1, <3>1, <3>2
  <2>3. \A s \in D(n) : s \in D(n + 1)
    BY <1>1
  <2>4. \A s \in D(n) : f[s] = IF s = {} THEN base ELSE step[pick[s]][f[s \ {pick[s]}]]
    BY <2>1 DEF Recursion
  <2> HIDE DEF D
  <2>5. g \in [D(n + 1) -> V]
    BY <2>2
  <2>6. \A s \in D(n) : g[s] = f[s]
    BY <2>3, <2>4
  <2>7. Recursion(g, D(n + 1), base, step, pick)
    BY <2>2, <2>6 DEF Recursion
  <2> QED
    BY <2>5, <2>7
<1>4. Solved(0)
  <2> DEFINE g == [s \in D(0) |-> base]
  <2>1. \A s \in D(0) : s = {}
    BY <1>2
  <2> HIDE DEF D
  <2>2. g \in [D(0) -> V] /\ Recursion(g, D(0), base, step, pick)
    BY <2>1 DEF Recursion
  <2> QED
    BY <2>2
<1>5. ASSUME NEW n \in Nat
      PROVE  Solved(n)
  <2> HIDE DEF Solved
  <2> SUFFICES ASSUME U # {}
               PROVE  FALSE
    OBVIOUS
  <2>1. PICK m \in U : \A k \in U : m <= k
    BY LeastNumber
  <2>2. m \in Nat /\ m # 0 /\ m - 1 \in Nat
    BY <1>4, <2>1
  <2>3. Solved(m - 1)
    BY <2>1, <2>2
  <2>4. Solved((m - 1) + 1)
    BY <1>3, <2>2, <2>3
  <2>5. (m - 1) + 1 = m
    BY <2>2
  <2> QED
    BY <2>1, <2>4, <2>5
<1>6. Cardinality(S) \in Nat /\ D(Cardinality(S)) = SUBSET S
  BY FS_Subset, FS_CardinalityType
<1>7. Solved(Cardinality(S))
  BY <1>5, <1>6
<1>8. PICK iter \in [D(Cardinality(S)) -> V] :
        Recursion(iter, D(Cardinality(S)), base, step, pick)
  BY <1>7
<1> HIDE DEF D
<1> QED
  BY <1>6, <1>8

(* A solution whose base is in V and whose steps stay in V is in V.        *)
LEMMA RecursionStays ==
  ASSUME NEW S, IsFiniteSet(S), NEW V, NEW iter, iter[{}] \in V,
         \A s \in SUBSET S : s # {} => \E x \in s : iter[s \ {x}] \in V => iter[s] \in V
  PROVE  \A s \in SUBSET S : iter[s] \in V
<1> DEFINE U == {s \in SUBSET S : iter[s] \notin V}
<1>1. SUFFICES ASSUME U # {}
               PROVE  FALSE
  OBVIOUS
<1>2. PICK s \in U : \A x \in s : s \ {x} \notin U
  BY <1>1, SmallestSet
<1>3. s # {}
  BY <1>2
<1>4. PICK x \in s : iter[s \ {x}] \in V => iter[s] \in V
  BY <1>2, <1>3
<1>5. s \ {x} \in SUBSET S
  BY <1>2
<1> QED
  BY <1>2, <1>4, <1>5

-----------------------------------------------------------------------------
(* Sums. *)

Sums(iter, f, S) ==
  \A s \in SUBSET S : iter[s] = IF s = {} THEN 0
                                ELSE f[CHOOSE x \in s : TRUE] + iter[s \ {CHOOSE x \in s : TRUE}]

(* A sum is the value of the recursion at the whole set.                   *)
LEMMA SumUnfolds ==
  ASSUME NEW S, IsFiniteSet(S), NEW f, \A x \in S : f[x] \in Nat
  PROVE  \E iter : /\ Sums(iter, f, S) /\ SumFunctionOnSet(f, S) = iter[S]
                   /\ \A s \in SUBSET S : iter[s] \in Nat
<1> DEFINE pick == [s \in SUBSET S |-> CHOOSE x \in s : TRUE]
           step == [x \in S |-> [v \in Nat |-> f[x] + v]]
           Body(it) == [s \in SUBSET S |-> IF s = {} THEN 0
                          ELSE f[CHOOSE x \in s : TRUE] + it[s \ {CHOOSE x \in s : TRUE}]]
           sum == CHOOSE it : it = Body(it)
<1>1. \A s \in SUBSET S : s # {} => pick[s] \in s /\ pick[s] = CHOOSE x \in s : TRUE
  OBVIOUS
<1>2. step \in [S -> [Nat -> Nat]] /\ \A x \in S, v \in Nat : step[x][v] = f[x] + v
  OBVIOUS
<1> HIDE DEF pick, step
<1>3. PICK it \in [SUBSET S -> Nat] : Recursion(it, SUBSET S, 0, step, pick)
  BY <1>1, <1>2, RecursionSolved
<1>4. it = Body(it)
  <2>1. \A s \in SUBSET S : it[s] = Body(it)[s]
    <3> SUFFICES ASSUME NEW s \in SUBSET S
                 PROVE  it[s] = Body(it)[s]
      OBVIOUS
    <3>1. CASE s = {}
      BY <1>3, <3>1 DEF Recursion
    <3>2. CASE s # {}
      <4>1. it[s] = step[pick[s]][it[s \ {pick[s]}]]
        BY <1>3, <3>2 DEF Recursion
      <4>2. pick[s] \in S /\ it[s \ {pick[s]}] \in Nat
        BY <1>1, <3>2
      <4>3. it[s] = f[pick[s]] + it[s \ {pick[s]}]
        BY <1>2, <4>1, <4>2
      <4> QED
        BY <1>1, <3>2, <4>3
    <3> QED
      BY <3>1, <3>2
  <2> QED
    BY <2>1
<1>5. sum = Body(sum)
  BY <1>4
<1>6. SumFunctionOnSet(f, S) = sum[S]
  BY DEF SumFunctionOnSet, FoldFunctionOnSet, MapThenFoldSet
<1>7. Sums(sum, f, S)
  <2> HIDE DEF sum
  <2> QED
    BY <1>5 DEF Sums
<1> HIDE DEF sum
<1>8. ASSUME NEW s \in SUBSET S, s # {}
      PROVE  \E x \in s : sum[s \ {x}] \in Nat => sum[s] \in Nat
  <2> DEFINE y == CHOOSE x \in s : TRUE
  <2>1. y \in s /\ sum[s] = f[y] + sum[s \ {y}]
    BY <1>7, <1>8 DEF Sums
  <2> HIDE DEF y
  <2>2. f[y] \in Nat
    BY <2>1
  <2>3. sum[s \ {y}] \in Nat => sum[s] \in Nat
    BY <2>1, <2>2
  <2> QED
    BY <2>1, <2>3
<1>9. \A s \in SUBSET S : sum[s] \in Nat
  <2>1. sum[{}] \in Nat
    BY <1>7 DEF Sums
  <2> QED
    BY <1>8, <2>1, RecursionStays
<1> QED
  BY <1>6, <1>7, <1>9

(* Recursions that agree on what is added agree.                           *)
LEMMA SumsAgree ==
  ASSUME NEW S, IsFiniteSet(S), NEW f, NEW g, \A x \in S : f[x] = g[x],
         NEW A, NEW B, S \subseteq A, S \subseteq B,
         NEW iter, Sums(iter, f, A), NEW other, Sums(other, g, B)
  PROVE  \A s \in SUBSET S : iter[s] = other[s]
<1> DEFINE U == {s \in SUBSET S : iter[s] # other[s]}
<1>1. SUFFICES ASSUME U # {}
               PROVE  FALSE
  OBVIOUS
<1>2. PICK s \in U : \A x \in s : s \ {x} \notin U
  BY <1>1, SmallestSet
<1>3. s \in SUBSET S /\ s \in SUBSET A /\ s \in SUBSET B
  BY <1>2
<1>4. s # {}
  BY <1>2, <1>3 DEF Sums
<1> DEFINE x == CHOOSE x \in s : TRUE
<1>5. x \in s
  BY <1>4
<1>6. iter[s] = f[x] + iter[s \ {x}] /\ other[s] = g[x] + other[s \ {x}]
  BY <1>3, <1>4 DEF Sums
<1> HIDE DEF x
<1>7. iter[s \ {x}] = other[s \ {x}]
  BY <1>2, <1>3, <1>5
<1> QED
  BY <1>2, <1>3, <1>5, <1>6, <1>7

(* The order in which the elements are added does not matter.              *)
LEMMA SumsCommute ==
  ASSUME NEW S, IsFiniteSet(S), NEW f, \A x \in S : f[x] \in Nat,
         NEW iter, Sums(iter, f, S), \A s \in SUBSET S : iter[s] \in Nat
  PROVE  \A s \in SUBSET S : \A x \in s : iter[s] = f[x] + iter[s \ {x}]
<1> DEFINE U == {s \in SUBSET S : \E x \in s : iter[s] # f[x] + iter[s \ {x}]}
<1>1. SUFFICES ASSUME U # {}
               PROVE  FALSE
  OBVIOUS
<1>2. PICK s \in U : \A x \in s : s \ {x} \notin U
  BY <1>1, SmallestSet
<1>3. PICK x \in s : iter[s] # f[x] + iter[s \ {x}]
  BY <1>2
<1> DEFINE y == CHOOSE y \in s : TRUE
<1>4. y \in s
  BY <1>3
<1>5. iter[s] = f[y] + iter[s \ {y}]
  BY <1>2, <1>3 DEF Sums
<1> HIDE DEF y
<1>6. x # y
  BY <1>3, <1>5
<1>7. iter[s \ {y}] = f[x] + iter[(s \ {y}) \ {x}]
  BY <1>2, <1>4, <1>6
<1>8. iter[s \ {x}] = f[y] + iter[(s \ {x}) \ {y}]
  BY <1>2, <1>4, <1>6
<1>9. (s \ {x}) \ {y} = (s \ {y}) \ {x}
  OBVIOUS
<1>10. /\ f[x] \in Nat /\ f[y] \in Nat /\ iter[s \ {x}] \in Nat /\ iter[s \ {y}] \in Nat
       /\ iter[(s \ {y}) \ {x}] \in Nat
  BY <1>2, <1>4
<1>11. iter[s] = f[x] + (f[y] + iter[(s \ {y}) \ {x}])
  <2>1. iter[s] = f[y] + (f[x] + iter[(s \ {y}) \ {x}])
    BY <1>5, <1>7
  <2> QED
    BY <1>10, <2>1
<1> QED
  BY <1>3, <1>8, <1>9, <1>11

(* A sum over a finite set is a number, 0 over the empty set, and any      *)
(* element can be taken out of it.                                         *)
LEMMA SumTakesOut ==
  ASSUME NEW S, IsFiniteSet(S), NEW f, \A x \in S : f[x] \in Nat
  PROVE  /\ SumFunctionOnSet(f, S) \in Nat
         /\ S = {} => SumFunctionOnSet(f, S) = 0
         /\ \A x \in S : SumFunctionOnSet(f, S) = f[x] + SumFunctionOnSet(f, S \ {x})
<1>1. PICK iter : /\ Sums(iter, f, S) /\ SumFunctionOnSet(f, S) = iter[S]
                  /\ \A s \in SUBSET S : iter[s] \in Nat
  BY SumUnfolds
<1>2. ASSUME NEW x \in S
      PROVE  SumFunctionOnSet(f, S) = f[x] + SumFunctionOnSet(f, S \ {x})
  <2>1. IsFiniteSet(S \ {x})
    BY FS_RemoveElement
  <2>2. PICK part : Sums(part, f, S \ {x}) /\ SumFunctionOnSet(f, S \ {x}) = part[S \ {x}]
    BY <2>1, SumUnfolds
  <2>3. part[S \ {x}] = iter[S \ {x}]
    BY <1>1, <2>1, <2>2, SumsAgree
  <2>4. iter[S] = f[x] + iter[S \ {x}]
    BY <1>1, SumsCommute
  <2> QED
    BY <1>1, <2>2, <2>3, <2>4
<1>3. S = {} => iter[S] = 0
  BY <1>1 DEF Sums
<1> QED
  BY <1>1, <1>2, <1>3

(* Functions that agree on a set have the same sum over it.                *)
LEMMA SumAgrees ==
  ASSUME NEW S, IsFiniteSet(S), NEW f, NEW g, \A x \in S : f[x] \in Nat /\ f[x] = g[x]
  PROVE  SumFunctionOnSet(f, S) = SumFunctionOnSet(g, S)
<1>1. PICK iter : Sums(iter, f, S) /\ SumFunctionOnSet(f, S) = iter[S]
  BY SumUnfolds
<1>2. PICK other : Sums(other, g, S) /\ SumFunctionOnSet(g, S) = other[S]
  BY SumUnfolds
<1> QED
  BY <1>1, <1>2, SumsAgree

(* When each element of S has one of T of its own that counts no less, the *)
(* sum over T is no less.                                                  *)
LEMMA SumInjects ==
  ASSUME NEW S, IsFiniteSet(S), NEW T, IsFiniteSet(T), NEW f, NEW g, NEW h \in [S -> T],
         \A x \in S : f[x] \in Nat /\ f[x] <= g[h[x]],
         \A y \in T : g[y] \in Nat, \A x, y \in S : h[x] = h[y] => x = y
  PROVE  SumFunctionOnSet(f, S) <= SumFunctionOnSet(g, T)
<1> DEFINE Image(s) == {h[x] : x \in s}
           U == {s \in SUBSET S : \E B \in SUBSET T :
                   /\ Image(s) \subseteq B
                   /\ ~(SumFunctionOnSet(f, s) <= SumFunctionOnSet(g, B))}
<1>1. SUFFICES ASSUME U # {}
               PROVE  FALSE
  <2>1. Image(S) \subseteq T
    OBVIOUS
  <2> QED
    BY <2>1
<1>2. PICK s \in U : \A x \in s : s \ {x} \notin U
  BY <1>1, SmallestSet
<1>3. PICK B \in SUBSET T : /\ Image(s) \subseteq B
                            /\ ~(SumFunctionOnSet(f, s) <= SumFunctionOnSet(g, B))
  BY <1>2
<1>4. s \in SUBSET S /\ IsFiniteSet(s) /\ IsFiniteSet(B)
  BY <1>2, FS_Subset
<1>5. SumFunctionOnSet(g, B) \in Nat
  BY <1>4, SumTakesOut
<1>6. s # {}
  BY <1>3, <1>4, <1>5, SumTakesOut
<1>7. PICK x \in s : TRUE
  BY <1>6
<1>8. h[x] \in B /\ Image(s \ {x}) \subseteq B \ {h[x]} /\ B \ {h[x]} \in SUBSET T
  BY <1>3, <1>4
<1>9. SumFunctionOnSet(f, s \ {x}) <= SumFunctionOnSet(g, B \ {h[x]})
  BY <1>2, <1>4, <1>8
<1>10. SumFunctionOnSet(f, s) = f[x] + SumFunctionOnSet(f, s \ {x})
  BY <1>4, SumTakesOut
<1>11. SumFunctionOnSet(g, B) = g[h[x]] + SumFunctionOnSet(g, B \ {h[x]})
  BY <1>4, <1>8, SumTakesOut
<1>12. SumFunctionOnSet(f, s \ {x}) \in Nat /\ SumFunctionOnSet(g, B \ {h[x]}) \in Nat
  <2>1. IsFiniteSet(s \ {x}) /\ IsFiniteSet(B \ {h[x]})
    BY <1>4, FS_RemoveElement
  <2> QED
    BY <1>4, <2>1, SumTakesOut
<1>13. f[x] \in Nat /\ g[h[x]] \in Nat /\ f[x] <= g[h[x]]
  BY <1>4, <1>8
<1> QED
  BY <1>3, <1>9, <1>10, <1>11, <1>12, <1>13

-----------------------------------------------------------------------------
(* Recursion and iteration.                                                *)

(* Induction over the numbers, with a set of numbers in place of a formula.*)
LEMMA InductionBySet ==
  ASSUME NEW S, 0 \in S, \A n \in Nat : n \in S => n + 1 \in S
  PROVE  \A n \in Nat : n \in S
<1> DEFINE U == {n \in Nat : n \notin S}
<1> SUFFICES ASSUME U # {}
             PROVE  FALSE
  OBVIOUS
<1>1. PICK m \in U : \A k \in U : m <= k
  BY LeastNumber
<1>2. m # 0 /\ m - 1 \in Nat /\ (m - 1) + 1 = m
  BY <1>1
<1>3. m - 1 \in S
  BY <1>1, <1>2
<1> QED
  BY <1>1, <1>2, <1>3

(* And when a number is in the set because all smaller ones are.           *)
LEMMA StrongInductionBySet ==
  ASSUME NEW S, \A n \in Nat : (\A k \in Nat : k < n => k \in S) => n \in S
  PROVE  \A n \in Nat : n \in S
<1> DEFINE U == {n \in Nat : n \notin S}
<1> SUFFICES ASSUME U # {}
             PROVE  FALSE
  OBVIOUS
<1>1. PICK m \in U : \A k \in U : m <= k
  BY LeastNumber
<1>2. \A k \in Nat : k < m => k \in S
  BY <1>1
<1> QED
  BY <1>1, <1>2

-----------------------------------------------------------------------------
(* Recursion over D, each value from those of smaller measure: step[x][g]  *)
(* is the value at x when g holds the values below x.                      *)

Below(D, measure, x) == {y \in D : measure[y] < measure[x]}
Follows(f, D, measure, step) ==
  \A x \in D : f[x] = step[x][[y \in Below(D, measure, x) |-> f[y]]]

(* Two solutions agree wherever both are defined.                          *)
LEMMA SolutionsAgree ==
  ASSUME NEW D, NEW measure, \A x \in D : measure[x] \in Nat, NEW step,
         NEW A \in SUBSET D, NEW B \in SUBSET D,
         \A x \in A : Below(D, measure, x) \subseteq A,
         \A x \in B : Below(D, measure, x) \subseteq B,
         NEW f, Follows(f, A, measure, step), NEW g, Follows(g, B, measure, step)
  PROVE  \A x \in A \cap B : f[x] = g[x]
<1> DEFINE S == {n \in Nat : \A x \in A \cap B : measure[x] = n => f[x] = g[x]}
<1>1. ASSUME NEW n \in Nat, \A k \in Nat : k < n => k \in S
      PROVE  n \in S
  <2> SUFFICES ASSUME NEW x \in A \cap B, measure[x] = n
               PROVE  f[x] = g[x]
    OBVIOUS
  <2>1. Below(A, measure, x) = Below(B, measure, x)
    BY DEF Below
  <2>2. \A y \in Below(A, measure, x) : f[y] = g[y]
    BY <1>1, <2>1, <2>1 DEF Below
  <2>3. [y \in Below(A, measure, x) |-> f[y]] = [y \in Below(B, measure, x) |-> g[y]]
    BY <2>1, <2>2
  <2> QED
    BY <2>3 DEF Follows
<1> HIDE DEF S
<1>2. \A n \in Nat : n \in S
  BY <1>1, StrongInductionBySet
<1> QED
  BY <1>2 DEF S

(* Such a recursion has a solution, with values in V.                      *)
LEMMA RecursionByMeasure ==
  ASSUME NEW D, NEW measure, \A x \in D : measure[x] \in Nat, NEW V, NEW step,
         \A x \in D : \A g \in [Below(D, measure, x) -> V] : step[x][g] \in V
  PROVE  \E f \in [D -> V] : Follows(f, D, measure, step)
<1> DEFINE Upto(n) == {x \in D : measure[x] < n}
           Solves(f, n) == f \in [Upto(n) -> V] /\ Follows(f, Upto(n), measure, step)
           S == {n \in Nat : \E f : Solves(f, n)}
<1>1. \A n \in Nat : \A x \in Upto(n) : /\ Below(Upto(n), measure, x) = Below(D, measure, x)
                                        /\ Below(D, measure, x) \subseteq Upto(n)
  BY DEF Below
<1>2. 0 \in S
  <2>1. Upto(0) = {}
    OBVIOUS
  <2>2. Solves([x \in {} |-> x], 0)
    BY <2>1 DEF Follows
  <2> QED
    BY <2>2
<1>3. ASSUME NEW n \in Nat, n \in S
      PROVE  n + 1 \in S
  <2>1. PICK f : Solves(f, n)
    BY <1>3
  <2> DEFINE g == [x \in Upto(n + 1) |->
                     step[x][[y \in Below(D, measure, x) |-> f[y]]]]
  <2>2. \A x \in Upto(n + 1) : Below(D, measure, x) \subseteq Upto(n)
    BY DEF Below
  <2>3. \A x \in Upto(n + 1) : [y \in Below(D, measure, x) |-> f[y]] \in [Below(D, measure, x) -> V]
    BY <2>1, <2>2
  <2>4. g \in [Upto(n + 1) -> V]
    BY <2>3
  <2>5. \A x \in Upto(n) : x \in Upto(n + 1) /\ f[x] = g[x]
    <3>1. \A x \in Upto(n) : x \in Upto(n + 1)
      OBVIOUS
    <3>2. \A x \in Upto(n) : f[x] = step[x][[y \in Below(D, measure, x) |-> f[y]]]
      BY <1>1, <2>1 DEF Follows
    <3> HIDE DEF Upto
    <3> QED
      BY <3>1, <3>2
  <2> HIDE DEF g
  <2>6. \A x \in Upto(n + 1) : [y \in Below(Upto(n + 1), measure, x) |-> g[y]]
                                 = [y \in Below(D, measure, x) |-> f[y]]
    BY <1>1, <2>2, <2>5
  <2>7. Follows(g, Upto(n + 1), measure, step)
    BY <2>6 DEF Follows, g
  <2>8. Solves(g, n + 1)
    BY <2>4, <2>7
  <2> HIDE DEF Solves
  <2> QED
    BY <2>8
<1>4. \A n \in Nat : n \in S
  <2> HIDE DEF S
  <2> QED
    BY <1>2, <1>3, InductionBySet
<1> DEFINE G(n) == CHOOSE f : Solves(f, n)
           F == [x \in D |-> G(measure[x] + 1)[x]]
<1>5. \A n \in Nat : Solves(G(n), n)
  BY <1>4
<1> HIDE DEF G
<1>6. F \in [D -> V]
  <2>1. \A x \in D : measure[x] + 1 \in Nat /\ x \in Upto(measure[x] + 1)
    OBVIOUS
  <2> QED
    BY <1>5, <2>1
<1>7. ASSUME NEW x \in D
      PROVE  F[x] = step[x][[y \in Below(D, measure, x) |-> F[y]]]
  <2> DEFINE n == measure[x] + 1
  <2>1. n \in Nat /\ x \in Upto(n) /\ Solves(G(n), n)
    BY <1>5
  <2>2. G(n)[x] = step[x][[y \in Below(D, measure, x) |-> G(n)[y]]]
    BY <1>1, <2>1 DEF Follows
  <2>3. ASSUME NEW y \in Below(D, measure, x)
        PROVE  F[y] = G(n)[y]
    <3> DEFINE k == measure[y] + 1
    <3>1. k \in Nat /\ y \in D /\ y \in Upto(k) /\ y \in Upto(n)
      BY DEF Below
    <3>2. Upto(k) \in SUBSET D /\ Upto(n) \in SUBSET D
      OBVIOUS
    <3>3. /\ \A z \in Upto(k) : Below(D, measure, z) \subseteq Upto(k)
          /\ \A z \in Upto(n) : Below(D, measure, z) \subseteq Upto(n)
      BY <1>1, <2>1, <3>1
    <3>4. Follows(G(k), Upto(k), measure, step) /\ Follows(G(n), Upto(n), measure, step)
      BY <1>5, <2>1, <3>1
    <3>5. y \in Upto(k) \cap Upto(n) /\ F[y] = G(k)[y]
      BY <3>1
    <3> HIDE DEF n, k, Upto, F
    <3>6. \A z \in Upto(k) \cap Upto(n) : G(k)[z] = G(n)[z]
      BY <3>2, <3>3, <3>4, SolutionsAgree
    <3> QED
      BY <3>5, <3>6
  <2> QED
    BY <2>2, <2>3
<1> HIDE DEF F
<1> QED
  BY <1>6, <1>7 DEF Follows

-----------------------------------------------------------------------------
(* Iteration: n steps from base, step[i] being the function of step i.     *)

Iterates(f, n, base, step) == f[0] = base /\ \A i \in 1..n : f[i] = step[i][f[i - 1]]
StepsAgree(s, t, k) == \A i \in 1..k : s[i] = t[i]
StepsWithin(step, n, V) == \A i \in 1..n : \A v \in V : step[i][v] \in V
(* A function that is defined by such steps as far as its values are in V. *)
Unfolds(f, n, V, base, step) ==
  /\ f = [i \in 0..n |-> f[i]] /\ f[0] = base
  /\ \A i \in 1..n : f[i - 1] \in V => f[i] = step[i][f[i - 1]]

(* An iteration exists, with values in V.                                  *)
LEMMA IterationSolved ==
  ASSUME NEW n \in Nat, NEW V, NEW base \in V, NEW step, StepsWithin(step, n, V)
  PROVE  \E f \in [0..n -> V] : Iterates(f, n, base, step)
<1> DEFINE D == 0..n
           measure == [i \in D |-> i]
           next == [i \in D |-> [g \in [Below(D, measure, i) -> V] |->
                      IF i = 0 THEN base ELSE step[i][g[i - 1]]]]
<1>1. \A i \in D : measure[i] = i /\ measure[i] \in Nat /\ i \in Nat
  OBVIOUS
<1>2. \A i \in D : i # 0 => i - 1 \in Below(D, measure, i) /\ i \in 1..n
  BY DEF Below
<1>3. \A i \in D : \A g \in [Below(D, measure, i) -> V] :
         next[i][g] = IF i = 0 THEN base ELSE step[i][g[i - 1]]
  OBVIOUS
<1> HIDE DEF D, measure, next
<1>4. \A i \in D : \A g \in [Below(D, measure, i) -> V] : next[i][g] \in V
  BY <1>2, <1>3 DEF StepsWithin
<1>5. PICK f \in [D -> V] : Follows(f, D, measure, next)
  BY <1>1, <1>4, RecursionByMeasure
<1>6. ASSUME NEW i \in D
      PROVE  f[i] = IF i = 0 THEN base ELSE step[i][f[i - 1]]
  <2> DEFINE g == [y \in Below(D, measure, i) |-> f[y]]
  <2>1. g \in [Below(D, measure, i) -> V]
    BY <1>5 DEF Below
  <2>2. f[i] = next[i][g]
    BY <1>5 DEF Follows
  <2>3. i # 0 => g[i - 1] = f[i - 1]
    BY <1>2
  <2> HIDE DEF g
  <2> QED
    BY <1>3, <2>1, <2>2, <2>3
<1> QED
  BY <1>5, <1>6 DEF D, Iterates

(* Steps that lead from V into V make such a function an iteration.        *)
LEMMA IterationUnfolded ==
  ASSUME NEW n \in Nat, NEW V, NEW base \in V, NEW step, StepsWithin(step, n, V),
         NEW f, Unfolds(f, n, V, base, step)
  PROVE  f \in [0..n -> V] /\ Iterates(f, n, base, step)
<1> DEFINE S == {i \in Nat : i <= n => f[i] \in V}
<1>1. 0 \in S
  BY DEF Unfolds
<1>2. ASSUME NEW i \in Nat, i \in S
      PROVE  i + 1 \in S
  <2> SUFFICES ASSUME i + 1 <= n
               PROVE  f[i + 1] \in V
    OBVIOUS
  <2>1. i + 1 \in 1..n /\ (i + 1) - 1 = i /\ f[i] \in V
    BY <1>2
  <2> QED
    BY <2>1 DEF Unfolds, StepsWithin
<1> HIDE DEF S
<1>3. \A i \in Nat : i \in S
  BY <1>1, <1>2, InductionBySet
<1>4. \A i \in 0..n : f[i] \in V
  BY <1>3 DEF S
<1>5. \A i \in 1..n : i - 1 \in 0..n
  OBVIOUS
<1> QED
  BY <1>4, <1>5 DEF Unfolds, Iterates

(* Two iterations with the same base agree as far as their steps do.       *)
LEMMA IterationsAgree ==
  ASSUME NEW m \in Nat, NEW n \in Nat, NEW k \in Nat, k <= m, k <= n, NEW base,
         NEW s, NEW t, StepsAgree(s, t, k),
         NEW f, Iterates(f, m, base, s), NEW g, Iterates(g, n, base, t)
  PROVE  \A i \in 0..k : f[i] = g[i]
<1> DEFINE S == {i \in Nat : i <= k => f[i] = g[i]}
<1>1. 0 \in S
  BY DEF Iterates
<1>2. ASSUME NEW i \in Nat, i \in S
      PROVE  i + 1 \in S
  <2> SUFFICES ASSUME i + 1 <= k
               PROVE  f[i + 1] = g[i + 1]
    OBVIOUS
  <2>1. i + 1 \in 1..k /\ i + 1 \in 1..m /\ i + 1 \in 1..n /\ (i + 1) - 1 = i /\ f[i] = g[i]
    BY <1>2
  <2> QED
    BY <2>1 DEF Iterates, StepsAgree
<1> HIDE DEF S
<1>3. \A i \in Nat : i \in S
  BY <1>1, <1>2, InductionBySet
<1> QED
  BY <1>3 DEF S

-----------------------------------------------------------------------------
(* The powers of a number b can be defined by recursion.                   *)
LEMMA PowersExist ==
  ASSUME NEW b \in Nat \ {0}
  PROVE  \E t : t = [n \in Nat |-> IF n = 0 THEN 1 ELSE b * t[n - 1]]
<1> DEFINE V == Nat \ {0}
           measure == [n \in Nat |-> n]
           next == [n \in Nat |-> [g \in [Below(Nat, measure, n) -> V] |->
                      IF n = 0 THEN 1 ELSE b * g[n - 1]]]
<1>1. \A n \in Nat : n # 0 => n - 1 \in Below(Nat, measure, n)
  BY DEF Below
<1>2. \A n \in Nat : \A g \in [Below(Nat, measure, n) -> V] :
         next[n][g] = IF n = 0 THEN 1 ELSE b * g[n - 1]
  OBVIOUS
<1>3. \A n \in Nat : \A g \in [Below(Nat, measure, n) -> V] : next[n][g] \in V
  BY <1>1, <1>2
<1>4. PICK f \in [Nat -> V] : Follows(f, Nat, measure, next)
  <2> HIDE DEF next
  <2> QED
    BY <1>3, RecursionByMeasure
<1>5. ASSUME NEW n \in Nat
      PROVE  f[n] = IF n = 0 THEN 1 ELSE b * f[n - 1]
  <2> DEFINE g == [y \in Below(Nat, measure, n) |-> f[y]]
  <2> HIDE DEF next
  <2>1. g \in [Below(Nat, measure, n) -> V]
    BY <1>4 DEF Below
  <2>2. f[n] = next[n][g]
    BY <1>4 DEF Follows
  <2>3. n # 0 => g[n - 1] = f[n - 1]
    BY <1>1
  <2> HIDE DEF g
  <2> QED
    BY <1>2, <2>1, <2>2, <2>3
<1> QED
  BY <1>4, <1>5

(* And are positive, and multiply when exponents are added.                *)
LEMMA PowersGrow ==
  ASSUME NEW b \in Nat \ {0}, NEW t, t = [n \in Nat |-> IF n = 0 THEN 1 ELSE b * t[n - 1]]
  PROVE  /\ t[0] = 1
         /\ \A n \in Nat : t[n + 1] = b * t[n] /\ t[n] \in Nat \ {0}
         /\ \A m, n \in Nat : t[m + n] = t[m] * t[n]
<1>1. t[0] = 1
  OBVIOUS
<1>2. \A n \in Nat : t[n + 1] = b * t[n]
  OBVIOUS
<1>3. \A n \in Nat : t[n] \in Nat \ {0}
  <2> DEFINE S == {n \in Nat : t[n] \in Nat \ {0}}
  <2>1. 0 \in S
    BY <1>1
  <2>2. \A n \in Nat : n \in S => n + 1 \in S
    BY <1>2
  <2> HIDE DEF S
  <2>3. \A n \in Nat : n \in S
    BY <2>1, <2>2, InductionBySet
  <2> QED
    BY <2>3 DEF S
<1>4. ASSUME NEW m \in Nat
      PROVE  \A n \in Nat : t[m + n] = t[m] * t[n]
  <2> DEFINE S == {n \in Nat : t[m + n] = t[m] * t[n]}
  <2>1. 0 \in S
    BY <1>1, <1>3
  <2>2. ASSUME NEW n \in Nat, n \in S
        PROVE  n + 1 \in S
    <3>1. t[m + (n + 1)] = b * t[m + n]
      <4>1. m + (n + 1) = (m + n) + 1
        OBVIOUS
      <4> QED
        BY <1>2, <4>1
    <3>2. t[m + n] = t[m] * t[n] /\ t[n + 1] = b * t[n]
      BY <1>2, <2>2
    <3>3. \A x, y \in Nat : b * (x * y) = x * (b * y)
      OBVIOUS
    <3>4. b * (t[m] * t[n]) = t[m] * (b * t[n])
      BY <1>3, <3>3
    <3> QED
      BY <3>1, <3>2, <3>4
  <2> HIDE DEF S
  <2>3. \A n \in Nat : n \in S
    BY <2>1, <2>2, InductionBySet
  <2> QED
    BY <2>3 DEF S
<1> QED
  BY <1>1, <1>2, <1>3, <1>4
=============================================================================
