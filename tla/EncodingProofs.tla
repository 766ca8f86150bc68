--------------------------- MODULE EncodingProofs ---------------------------
(***************************************************************************)
(* The conversions, the transactions and the addresses, for every input:   *)
(* what the node reads out of them is what was put in. A recursive         *)
(* function is shown to have a solution first (RecursionByMeasure and      *)
(* IterationSolved of FoldLemmas), and then what its values are.           *)
(***************************************************************************)
EXTENDS FoldLemmas, Transactions, Bech32, SequenceTheorems

-----------------------------------------------------------------------------
(* Decimal texts.                                                          *)

(* Powers of ten.                                                          *)
LEMMA TenToPowers ==
  /\ TenTo[0] = 1
  /\ \A n \in Nat : TenTo[n + 1] = 10 * TenTo[n] /\ TenTo[n] \in Nat \ {0}
  /\ \A m, n \in Nat : TenTo[m + n] = TenTo[m] * TenTo[n]
<1>1. \E t : t = [n \in Nat |-> IF n = 0 THEN 1 ELSE 10 * t[n - 1]]
  BY PowersExist
<1>2. TenTo = [n \in Nat |-> IF n = 0 THEN 1 ELSE 10 * TenTo[n - 1]]
  BY <1>1, Zenon DEF TenTo
<1> DEFINE t == TenTo
           b == 10
<1>3. b \in Nat \ {0} /\ t = [n \in Nat |-> IF n = 0 THEN 1 ELSE b * t[n - 1]]
  BY <1>2
<1> HIDE DEF t, b
<1>4. /\ t[0] = 1
      /\ \A n \in Nat : t[n + 1] = b * t[n] /\ t[n] \in Nat \ {0}
      /\ \A m, n \in Nat : t[m + n] = t[m] * t[n]
  BY <1>3, PowersGrow
<1> QED
  BY <1>4 DEF t, b

-----------------------------------------------------------------------------
(* The digits of a number, one by one.                                     *)
LEMMA DigitsSolved ==
  Digits = [n \in Nat |-> IF n < 10 THEN <<Zero + n>>
                          ELSE Append(Digits[n \div 10], Zero + (n % 10))]
<1> DEFINE V == Seq(Nat)
           measure == [n \in Nat |-> n]
           next == [n \in Nat |-> [g \in [Below(Nat, measure, n) -> V] |->
                      IF n < 10 THEN <<Zero + n>> ELSE Append(g[n \div 10], Zero + (n % 10))]]
<1>1. \A n \in Nat : ~(n < 10) => n \div 10 \in Below(Nat, measure, n)
  BY DEF Below
<1>2. \A n \in Nat : \A g \in [Below(Nat, measure, n) -> V] :
         next[n][g] = IF n < 10 THEN <<Zero + n>> ELSE Append(g[n \div 10], Zero + (n % 10))
  OBVIOUS
<1>3. ASSUME NEW n \in Nat, NEW g \in [Below(Nat, measure, n) -> V]
      PROVE  next[n][g] \in V
  <2>1. CASE n < 10
    <3>1. Zero + n \in Nat
      BY DEF Zero
    <3> QED
      BY <1>2, <2>1, <3>1
  <2>2. CASE ~(n < 10)
    <3>1. g[n \div 10] \in V
      BY <1>1, <2>2
    <3>2. Zero + (n % 10) \in Nat
      BY DEF Zero
    <3>3. Append(g[n \div 10], Zero + (n % 10)) \in V
      BY <3>1, <3>2
    <3> HIDE DEF next
    <3> QED
      BY <1>2, <2>2, <3>3
  <2> QED
    BY <2>1, <2>2
<1>4. PICK f \in [Nat -> V] : Follows(f, Nat, measure, next)
  <2> HIDE DEF next, V
  <2> QED
    BY <1>3, RecursionByMeasure
<1>5. ASSUME NEW n \in Nat
      PROVE  f[n] = IF n < 10 THEN <<Zero + n>> ELSE Append(f[n \div 10], Zero + (n % 10))
  <2> DEFINE g == [y \in Below(Nat, measure, n) |-> f[y]]
  <2> HIDE DEF next
  <2>1. g \in [Below(Nat, measure, n) -> V]
    BY <1>4 DEF Below
  <2>2. f[n] = next[n][g]
    BY <1>4 DEF Follows
  <2>3. ~(n < 10) => g[n \div 10] = f[n \div 10]
    BY <1>1
  <2> HIDE DEF g
  <2> QED
    BY <1>2, <2>1, <2>2, <2>3
<1>6. \E d : d = [n \in Nat |-> IF n < 10 THEN <<Zero + n>>
                             ELSE Append(d[n \div 10], Zero + (n % 10))]
  BY <1>4, <1>5
<1> QED
  BY <1>6, Zenon DEF Digits

(* They are characters of digits.                                          *)
LEMMA DigitsType ==
  \A n \in Nat : Digits[n] \in Seq(48..57)
<1> DEFINE S == {n \in Nat : Digits[n] \in Seq(48..57)}
<1>1. ASSUME NEW n \in Nat, \A k \in Nat : k < n => k \in S
      PROVE  n \in S
  <2>1. CASE n < 10
    <3>1. Digits[n] = <<Zero + n>>
      BY <2>1, DigitsSolved
    <3>2. Zero + n \in 48..57
      BY <2>1 DEF Zero
    <3>3. <<Zero + n>> \in Seq(48..57)
      BY <3>2
    <3> QED
      BY <3>1, <3>3
  <2>2. CASE ~(n < 10)
    <3>1. Digits[n] = Append(Digits[n \div 10], Zero + (n % 10))
      BY <2>2, DigitsSolved
    <3>2. n \div 10 \in Nat /\ n \div 10 < n /\ Zero + (n % 10) \in 48..57
      BY <2>2 DEF Zero
    <3>3. Digits[n \div 10] \in Seq(48..57)
      BY <1>1, <3>2
    <3>4. Append(Digits[n \div 10], Zero + (n % 10)) \in Seq(48..57)
      BY <3>2, <3>3
    <3> QED
      BY <3>1, <3>4
  <2> QED
    BY <2>1, <2>2
<1> HIDE DEF S
<1>2. \A n \in Nat : n \in S
  BY <1>1, StrongInductionBySet
<1> QED
  BY <1>2 DEF S

-----------------------------------------------------------------------------
(* The value of a text, one character at a time.                           *)

ValueStep(text) == [i \in 1..Len(text) |-> [v \in Int |->
                      IF text[i] = Dot THEN v ELSE 10 * v + text[i] - Zero]]

(* The value of a text is what an iteration over its characters ends with. *)
LEMMA ValueSolved ==
  ASSUME NEW text \in Seq(Nat)
  PROVE  \E n \in [0..Len(text) -> Int] :
           Iterates(n, Len(text), 0, ValueStep(text)) /\ Value(text) = n[Len(text)]
<1> DEFINE L == Len(text)
           V == Int
           base == 0
           step == ValueStep(text)
           Solves(n) == n = [i \in 0..Len(text) |->
                               IF i = 0 THEN 0
                               ELSE IF text[i] = Dot THEN n[i - 1]
                               ELSE 10 * n[i - 1] + text[i] - Zero]
           N == CHOOSE n : Solves(n)
<1>1. L \in Nat /\ base \in V /\ base = 0
  OBVIOUS
<1>2. \A i \in 1..L : text[i] \in Nat
  OBVIOUS
<1>3. \A i \in 1..L : \A v \in V :
         step[i][v] = IF text[i] = Dot THEN v ELSE 10 * v + text[i] - Zero
  BY DEF ValueStep
<1>4. Value(text) = N[L]
  BY DEF Value
<1> HIDE DEF L, N, step, base
<1>5. StepsWithin(step, L, V)
  <2>1. \A v \in V, c \in Nat : 10 * v + c - Zero \in V
    BY DEF Zero
  <2> HIDE DEF V
  <2> QED
    BY <1>2, <1>3, <2>1 DEF StepsWithin
<1> HIDE DEF V
<1>6. PICK f \in [0..L -> V] : Iterates(f, L, base, step)
  BY <1>1, <1>5, IterationSolved
<1>7. Solves(f)
  <2>1. f = [i \in 0..L |-> f[i]] /\ \A i \in 1..L : f[i - 1] \in V
    BY <1>1, <1>6
  <2>2. \A i \in 0..L : i # 0 => i \in 1..L
    BY <1>1
  <2>3. \A i \in 0..L : f[i] = IF i = 0 THEN 0 ELSE IF text[i] = Dot THEN f[i - 1]
                               ELSE 10 * f[i - 1] + text[i] - Zero
    BY <1>1, <1>3, <1>6, <2>1, <2>2 DEF Iterates
  <2> QED
    BY <2>1, <2>3 DEF L
<1>8. Solves(N)
  BY <1>7, Zenon DEF N
<1>9. Unfolds(N, L, V, base, step)
  <2>1. N = [i \in 0..L |-> N[i]]
    BY <1>8 DEF L
  <2>2. \A i \in 0..L : N[i] = IF i = 0 THEN 0 ELSE IF text[i] = Dot THEN N[i - 1]
                               ELSE 10 * N[i - 1] + text[i] - Zero
    BY <1>8 DEF L
  <2>3. \A i \in 1..L : i \in 0..L /\ i # 0
    BY <1>1
  <2> HIDE DEF Solves
  <2>4. N[0] = base
    BY <1>1, <2>2
  <2>5. \A i \in 1..L : N[i - 1] \in V => N[i] = step[i][N[i - 1]]
    BY <1>3, <2>2, <2>3
  <2> QED
    BY <2>1, <2>4, <2>5 DEF Unfolds
<1>10. N \in [0..L -> V] /\ Iterates(N, L, base, step)
  BY <1>1, <1>5, <1>9, IterationUnfolded
<1> QED
  BY <1>4, <1>10 DEF L, V, base, step

(* One more character.                                                     *)
LEMMA ValueAppend ==
  ASSUME NEW text \in Seq(Nat), NEW c \in Nat
  PROVE  /\ Value(text) \in Int
         /\ Value(Append(text, c)) = IF c = Dot THEN Value(text) ELSE 10 * Value(text) + c - Zero
<1> DEFINE L == Len(text)
           longer == Append(text, c)
           s == ValueStep(text)
           t == ValueStep(longer)
<1>1. L \in Nat /\ longer \in Seq(Nat) /\ Len(longer) = L + 1 /\ longer[L + 1] = c
  OBVIOUS
<1>2. \A i \in 1..L : longer[i] = text[i]
  OBVIOUS
<1>3. StepsAgree(s, t, L)
  BY <1>1, <1>2 DEF ValueStep, StepsAgree
<1>4. \A v \in Int : t[L + 1][v] = IF c = Dot THEN v ELSE 10 * v + c - Zero
  BY <1>1 DEF ValueStep
<1>5. PICK f \in [0..L -> Int] : Iterates(f, L, 0, s) /\ Value(text) = f[L]
  BY ValueSolved
<1>6. PICK g \in [0..Len(longer) -> Int] : Iterates(g, Len(longer), 0, t) /\ Value(longer) = g[Len(longer)]
  BY <1>1, ValueSolved
<1> HIDE DEF L, longer, s, t
<1>7. \A i \in 0..L : f[i] = g[i]
  <2> DEFINE M == L + 1
             base == 0
  <2>1. L \in Nat /\ M \in Nat /\ L <= L /\ L <= M
    BY <1>1
  <2>2. Iterates(f, L, base, s) /\ Iterates(g, M, base, t)
    BY <1>1, <1>5, <1>6
  <2> HIDE DEF M, base
  <2> QED
    BY <1>3, <2>1, <2>2, IterationsAgree
<1>8. g[L] = f[L] /\ f[L] \in Int
  BY <1>1, <1>5, <1>7
<1>9. g[L + 1] = t[L + 1][g[L]]
  <2>1. L + 1 \in 1..Len(longer) /\ (L + 1) - 1 = L
    BY <1>1
  <2> QED
    BY <1>6, <2>1 DEF Iterates
<1> QED
  BY <1>1, <1>4, <1>5, <1>6, <1>8, <1>9 DEF longer

(* The empty text has the value zero.                                      *)
LEMMA ValueOfNothing ==
  Value(<<>>) = 0
<1>1. <<>> \in Seq(Nat) /\ Len(<<>>) = 0
  OBVIOUS
<1> QED
  BY <1>1, ValueSolved DEF Iterates

(* Texts of digits are sequences of numbers.                               *)
LEMMA DigitsNumbers ==
  \A n \in Nat : Digits[n] \in Seq(Nat)
<1>1. 48..57 \subseteq Nat
  OBVIOUS
<1> QED
  BY <1>1, DigitsType, SeqMonotonic

(* What the digits of a number are read as is the number.                  *)
LEMMA ValueOfDigits ==
  \A n \in Nat : Value(Digits[n]) = n
<1> DEFINE S == {n \in Nat : Value(Digits[n]) = n}
<1>1. ASSUME NEW n \in Nat, \A k \in Nat : k < n => k \in S
      PROVE  n \in S
  <2>1. CASE n < 10
    <3>1. Digits[n] = <<Zero + n>> /\ Zero + n \in Nat /\ Zero + n # Dot
      BY <2>1, DigitsSolved DEF Zero, Dot
    <3>2. <<Zero + n>> = Append(<<>>, Zero + n) /\ <<>> \in Seq(Nat)
      BY <3>1
    <3>3. Value(Append(<<>>, Zero + n)) = 10 * 0 + (Zero + n) - Zero
      BY <3>1, <3>2, ValueAppend, ValueOfNothing
    <3>4. 10 * 0 + (Zero + n) - Zero = n
      BY DEF Zero
    <3> QED
      BY <3>1, <3>2, <3>3, <3>4
  <2>2. CASE ~(n < 10)
    <3> DEFINE q == n \div 10
               r == n % 10
    <3>1. q \in Nat /\ q < n /\ r \in 0..9 /\ n = 10 * q + r
      BY <2>2
    <3>2. Digits[n] = Append(Digits[q], Zero + r)
      BY <2>2, DigitsSolved
    <3> HIDE DEF q, r
    <3>3. Value(Digits[q]) = q
      BY <1>1, <3>1
    <3>4. Zero + r \in Nat /\ Zero + r # Dot
      BY <3>1 DEF Zero, Dot
    <3>5. Value(Append(Digits[q], Zero + r)) = 10 * q + (Zero + r) - Zero
      BY <3>1, <3>3, <3>4, DigitsNumbers, ValueAppend
    <3>6. 10 * q + (Zero + r) - Zero = n
      BY <3>1 DEF Zero
    <3> QED
      BY <3>2, <3>5, <3>6
  <2> QED
    BY <2>1, <2>2
<1> HIDE DEF S
<1>2. \A n \in Nat : n \in S
  BY <1>1, StrongInductionBySet
<1> QED
  BY <1>2 DEF S

-----------------------------------------------------------------------------
(* Texts with a point.                                                     *)

(* One more place splits the last digit off.                               *)
LEMMA DivideByTen ==
  \A c \in Nat, d \in Nat \ {0} :
    /\ c \div d \in Nat /\ c \div (10 * d) \in Nat
    /\ c \div d = 10 * (c \div (10 * d)) + ((c \div d) % 10)
<1> SUFFICES ASSUME NEW c \in Nat, NEW d \in Nat \ {0}
             PROVE  /\ c \div d \in Nat /\ c \div (10 * d) \in Nat
                    /\ c \div d = 10 * (c \div (10 * d)) + ((c \div d) % 10)
  OBVIOUS
<1> DEFINE q == c \div d
           r == c % d
           u == q \div 10
           v == q % 10
<1>1. q \in Nat /\ r \in Nat /\ r < d /\ c = d * q + r
  OBVIOUS
<1>2. u \in Nat /\ v \in 0..9 /\ q = 10 * u + v
  BY <1>1
<1> HIDE DEF q, r, u, v
<1>3. d * q = d * (10 * u + v)
  BY <1>2
<1>4. d * (10 * u + v) = (10 * d) * u + d * v
  BY <1>2
<1>5. d * v \in Nat /\ d * v <= 9 * d
  BY <1>2
<1>6. d * v + r \in Nat /\ d * v + r < 10 * d
  BY <1>1, <1>5
<1>7. c = (10 * d) * u + (d * v + r)
  BY <1>1, <1>2, <1>3, <1>4, <1>5
<1>8. c \div (10 * d) = u
  <2> DEFINE D == 10 * d
             w == d * v + r
  <2>1. D \in Nat /\ D > 0 /\ w \in Nat /\ w < D /\ c = D * u + w
    BY <1>6, <1>7
  <2> HIDE DEF D, w
  <2>2. c \div D = u
    BY <1>2, <2>1
  <2> QED
    BY <2>2 DEF D
<1> QED
  BY <1>1, <1>2, <1>8 DEF q, u, v

(* Powers of ten are positive, and each is ten times the one before.       *)
LEMMA TenToType ==
  \A n \in Nat : TenTo[n] \in Nat \ {0} /\ TenTo[n + 1] = 10 * TenTo[n]
BY TenToPowers

(* A text with a point is read as the number it was made of.               *)
LEMMA PointText ==
  ASSUME NEW c \in Nat, NEW k \in Nat \ {0}
  PROVE  LET text == Digits[c \div TenTo[k]] \o <<Dot>> \o Fraction(c, k)
         IN text \in Seq(46..57) /\ Value(text) = c /\ Places(text) = k
<1> DEFINE d == Digits[c \div TenTo[k]]
           F == Fraction(c, k)
           upTo(i) == d \o <<Dot>> \o [j \in 1..i |-> F[j]]
           D == 46..57
           S == {i \in Nat : i <= k => Value(upTo(i)) = c \div TenTo[k - i]}
<1>1. c \div TenTo[k] \in Nat
  <2>1. TenTo[k] \in Nat \ {0}
    BY TenToType
  <2> QED
    BY <2>1
<1>2. d \in Seq(48..57) /\ Value(d) = c \div TenTo[k]
  BY <1>1, DigitsType, ValueOfDigits
<1>3. \A i \in 1..k : F[i] \in 48..57 /\ F[i] = Zero + ((c \div TenTo[k - i]) % 10)
  <2> SUFFICES ASSUME NEW i \in 1..k
               PROVE  F[i] \in 48..57 /\ F[i] = Zero + ((c \div TenTo[k - i]) % 10)
    OBVIOUS
  <2>1. k - i \in Nat
    OBVIOUS
  <2>2. TenTo[k - i] \in Nat \ {0}
    BY <2>1, TenToType
  <2>3. c \div TenTo[k - i] \in Nat
    BY <2>2
  <2>4. F[i] = Zero + ((c \div TenTo[k - i]) % 10)
    BY DEF Fraction
  <2> QED
    BY <2>3, <2>4 DEF Zero
<1>4. F \in Seq(48..57) /\ Len(F) = k /\ F = [j \in 1..k |-> F[j]]
  BY <1>3 DEF Fraction
<1>5. 48..57 \subseteq D /\ D \subseteq Nat /\ Dot \in D
  BY DEF Dot
<1> HIDE DEF d, F, D
<1>6. d \in Seq(D) /\ <<Dot>> \in Seq(D) /\ d \o <<Dot>> \in Seq(D)
  BY <1>2, <1>5, SeqMonotonic
<1>7. \A i \in 0..k : [j \in 1..i |-> F[j]] \in Seq(D)
  BY <1>3, <1>5
<1>8. \A i \in 0..k : upTo(i) \in Seq(D)
  BY <1>6, <1>7
<1>9. \A i \in 0..k : upTo(i) \in Seq(Nat)
  BY <1>5, <1>8, SeqMonotonic
<1>10. upTo(0) = d \o <<Dot>>
  OBVIOUS
<1>11. \A i \in 0..(k - 1) : upTo(i + 1) = Append(upTo(i), F[i + 1])
  OBVIOUS
<1>12. 0 \in S
  <2>1. upTo(0) = Append(d, Dot) /\ d \in Seq(Nat) /\ Dot \in Nat
    BY <1>2, <1>5, <1>6, <1>10, SeqMonotonic
  <2>2. Value(upTo(0)) = Value(d)
    BY <2>1, ValueAppend
  <2> QED
    BY <1>2, <2>2
<1>13. ASSUME NEW i \in Nat, i \in S
       PROVE  i + 1 \in S
  <2> SUFFICES ASSUME i + 1 <= k
               PROVE  Value(upTo(i + 1)) = c \div TenTo[k - (i + 1)]
    OBVIOUS
  <2> DEFINE j == k - (i + 1)
             t == TenTo[j]
  <2>1. j \in Nat /\ k - i = j + 1 /\ i + 1 \in 1..k /\ k - (i + 1) = j
    OBVIOUS
  <2>2. t \in Nat \ {0} /\ TenTo[k - i] = 10 * t
    BY <2>1, TenToType
  <2>3. F[i + 1] = Zero + ((c \div t) % 10) /\ F[i + 1] \in 48..57
    BY <1>3, <2>1
  <2>4. Value(upTo(i)) = c \div (10 * t)
    BY <1>13, <2>1, <2>2
  <2> HIDE DEF j, t, upTo
  <2>5. F[i + 1] \in Nat /\ F[i + 1] # Dot
    BY <2>3 DEF Dot
  <2>6. Value(Append(upTo(i), F[i + 1])) = 10 * Value(upTo(i)) + F[i + 1] - Zero
    BY <1>9, <2>5, ValueAppend
  <2>7. Value(upTo(i + 1)) = 10 * (c \div (10 * t)) + (Zero + ((c \div t) % 10)) - Zero
    <3>1. i \in 0..(k - 1)
      OBVIOUS
    <3>2. upTo(i + 1) = Append(upTo(i), F[i + 1])
      BY <1>11, <3>1 DEF upTo
    <3> QED
      BY <2>3, <2>4, <2>6, <3>2
  <2>8. /\ c \div t \in Nat /\ c \div (10 * t) \in Nat
        /\ c \div t = 10 * (c \div (10 * t)) + ((c \div t) % 10)
    BY <2>2, DivideByTen
  <2>9. c \div t = 10 * (c \div (10 * t)) + (Zero + ((c \div t) % 10)) - Zero
    BY <2>8 DEF Zero
  <2> QED
    BY <2>7, <2>9 DEF t, j
<1> HIDE DEF S
<1>14. \A i \in Nat : i \in S
  BY <1>12, <1>13, InductionBySet
<1> DEFINE text == d \o <<Dot>> \o F
<1>15. text = upTo(k) /\ k \in 0..k
  BY <1>4
<1>16. text \in Seq(D)
  BY <1>8, <1>15
<1>17. Value(text) = c
  <2>1. Value(text) = c \div TenTo[k - k]
    <3>1. k <= k => Value(upTo(k)) = c \div TenTo[k - k]
      BY <1>14 DEF S
    <3> HIDE DEF text, upTo
    <3> QED
      BY <1>15, <3>1
  <2>2. k - k = 0 /\ TenTo[0] = 1
    BY TenToPowers
  <2> QED
    BY <2>1, <2>2
<1>18. Places(text) = k
  <2>1. Len(d) \in Nat /\ Len(text) = Len(d) + 1 + k
    BY <1>2, <1>4
  <2>2. \A i \in 1..Len(d) : text[i] # Dot
    <3>1. \A i \in 1..Len(d) : text[i] = d[i] /\ d[i] \in 48..57
      BY <1>2, <1>4
    <3> HIDE DEF text
    <3> QED
      BY <3>1 DEF Dot
  <2>3. text[Len(d) + 1] = Dot
    BY <1>2, <1>4
  <2>4. \A i \in Len(d) + 2..Len(d) + 1 + k : text[i] # Dot
    <3> SUFFICES ASSUME NEW i \in Len(d) + 2..Len(d) + 1 + k
                 PROVE  text[i] # Dot
      OBVIOUS
    <3>1. i - (Len(d) + 1) \in 1..k
      BY <2>1
    <3>2. text[i] = F[i - (Len(d) + 1)]
      BY <1>2, <1>4, <2>1
    <3>3. F[i - (Len(d) + 1)] \in 48..57
      BY <1>3, <3>1
    <3> HIDE DEF text
    <3> QED
      BY <3>2, <3>3 DEF Dot
  <2> HIDE DEF text
  <2>5. {i \in 1..Len(text) : text[i] = Dot} = {Len(d) + 1}
    BY <2>1, <2>2, <2>3, <2>4
  <2>6. (CHOOSE i \in {Len(d) + 1} : TRUE) = Len(d) + 1
    OBVIOUS
  <2>7. Places(text) = Len(text) - (Len(d) + 1)
    BY <2>5, <2>6 DEF Places
  <2> QED
    BY <2>1, <2>7
<1> QED
  BY <1>16, <1>17, <1>18 DEF d, F, D

(* The digits of a number are read as the number, without a point.         *)
LEMMA ReadDigits ==
  ASSUME NEW n \in Nat
  PROVE  Read(Digits[n]) = Decimal(n, 0)
<1> DEFINE d == Digits[n]
<1>1. d \in Seq(48..57)
  BY DigitsType
<1>2. \A i \in 1..Len(d) : d[i] \in 48..57
  BY <1>1
<1> HIDE DEF d
<1>3. {i \in 1..Len(d) : d[i] = Dot} = {}
  BY <1>2 DEF Dot
<1>4. Places(d) = 0
  BY <1>3 DEF Places
<1>5. Value(d) = n
  BY ValueOfDigits DEF d
<1>6. -Places(d) = 0
  <2>1. Places(d) \in Int /\ -Places(d) \in Int
    BY <1>4
  <2>2. PICK j \in Int : j = -Places(d)
    BY <2>1
  <2>3. j + Places(d) = 0
    BY <2>1, <2>2
  <2>4. j = 0
    BY <1>4, <2>3
  <2> QED
    BY <2>2, <2>4
<1> QED
  BY <1>4, <1>5, <1>6 DEF Read, d

(* What the text of a Decimal with an exponent of at most 0 is read as is  *)
(* that Decimal, its exponent included.                                    *)
THEOREM ReadText ==
  ASSUME NEW c \in Nat, NEW k \in Nat
  PROVE  Text(Decimal(c, -k)) \in Seq(46..57) /\ Read(Text(Decimal(c, -k))) = Decimal(c, -k)
<1> DEFINE x == Decimal(c, -k)
<1>1. x.c = c /\ x.e = -k /\ -(-k) = k
  BY DEF Decimal
<1>2. CASE k = 0
  <2>1. x.e >= 0 /\ x.e - 0 = 0 /\ -k = 0
    BY <1>1, <1>2
  <2>2. At(x, 0) = c
    <3>1. TenTo[0] = 1
      BY TenToPowers
    <3>2. At(x, 0) = c * 1
      BY <1>1, <2>1, <3>1 DEF At
    <3> QED
      BY <3>2
  <2> HIDE DEF x
  <2>3. Text(x) = Digits[c]
    BY <2>1, <2>2 DEF Text
  <2>4. 48..57 \subseteq 46..57
    OBVIOUS
  <2>5. Text(x) \in Seq(46..57)
    BY <2>3, <2>4, DigitsType, SeqMonotonic
  <2>6. Read(Text(x)) = Decimal(c, 0)
    BY <2>3, ReadDigits
  <2> QED
    BY <2>1, <2>5, <2>6 DEF x
<1>3. CASE k # 0
  <2>1. ~(x.e >= 0) /\ k \in Nat \ {0}
    BY <1>1, <1>3
  <2> DEFINE text == Digits[c \div TenTo[k]] \o <<Dot>> \o Fraction(c, k)
  <2> HIDE DEF x
  <2>2. Text(x) = text
    BY <1>1, <2>1 DEF Text
  <2>3. text \in Seq(46..57) /\ Value(text) = c /\ Places(text) = k
    BY <2>1, PointText
  <2> HIDE DEF text
  <2> QED
    BY <2>2, <2>3 DEF Read, x
<1> QED
  BY <1>2, <1>3

-----------------------------------------------------------------------------
(* Rounding up.                                                            *)

(* CeilingOver is the least multiple that reaches.                         *)
LEMMA CeilingOverLeast ==
  ASSUME NEW n \in Nat, NEW d \in Nat \ {0}
  PROVE  CeilingOver(n, d) \in Nat /\ \A k \in Nat : k * d >= n <=> k >= CeilingOver(n, d)
<1> DEFINE m == n + d - 1
           q == m \div d
           r == m % d
<1>1. m \in Nat /\ q \in Nat /\ r \in Nat /\ r < d /\ m = q * d + r
  OBVIOUS
<1>2. CeilingOver(n, d) = q
  BY DEF CeilingOver
<1>3. m = n + d - 1
  OBVIOUS
<1> HIDE DEF m, q, r
<1>4. q * d \in Nat /\ q * d >= n /\ q * d <= n + d - 1
  BY <1>1, <1>3
<1>5. ASSUME NEW k \in Nat
      PROVE  k * d >= n <=> k >= q
  <2>1. CASE k >= q
    <3>1. k * d >= q * d
      BY <1>1, <2>1
    <3> QED
      BY <1>4, <2>1, <3>1
  <2>2. CASE ~(k >= q)
    <3>1. k + 1 <= q
      BY <1>1, <2>2
    <3>2. (k + 1) * d <= q * d
      BY <1>1, <3>1
    <3>3. (k + 1) * d = k * d + d /\ k * d \in Nat
      OBVIOUS
    <3>4. k * d + d <= n + d - 1
      BY <1>4, <3>2, <3>3
    <3> QED
      BY <2>2, <3>3, <3>4
  <2> QED
    BY <2>1, <2>2
<1> QED
  BY <1>1, <1>2, <1>5

(* A Decimal rounded up is no less than it.                                *)
LEMMA CeilingCovers ==
  ASSUME NEW c \in Nat, NEW e \in Int
  PROVE  /\ Ceiling(Decimal(c, e)) \in Nat
         /\ ~Less(Decimal(Ceiling(Decimal(c, e)), 0), Decimal(c, e))
<1> DEFINE x == Decimal(c, e)
           u == Ceiling(x)
           y == Decimal(u, 0)
<1>1. x.c = c /\ x.e = e /\ y.c = u /\ y.e = 0
  BY DEF Decimal
<1>2. TenTo[0] = 1
  BY TenToPowers
<1>3. CASE e >= 0
  <2>1. e \in Nat /\ e - 0 = e /\ 0 - 0 = 0
    BY <1>3
  <2>2. TenTo[e] \in Nat
    BY <2>1, TenToType
  <2>3. c * TenTo[e] \in Nat
    BY <2>2
  <2>4. u = c * TenTo[e]
    BY <1>1, <1>3, <2>1 DEF Ceiling, At
  <2> HIDE DEF x, u, y
  <2>5. Low(y, x) = 0
    BY <1>1, <1>3 DEF Low
  <2>6. At(y, 0) = u * 1 /\ At(x, 0) = c * TenTo[e]
    BY <1>1, <1>2, <2>1 DEF At
  <2>7. ~Less(y, x)
    BY <2>3, <2>4, <2>5, <2>6 DEF Less
  <2> QED
    BY <2>3, <2>4, <2>7 DEF x, u, y
<1>4. CASE ~(e >= 0)
  <2> DEFINE k == -e
             d == TenTo[k]
  <2>1. k \in Nat /\ 0 - e = k /\ e - e = 0 /\ e < 0
    BY <1>4
  <2>2. d \in Nat \ {0}
    BY <2>1, TenToType
  <2>3. u = CeilingOver(c, d)
    BY <1>1, <1>4 DEF Ceiling
  <2> HIDE DEF x, u, y, k
  <2>4. At(y, e) = u * d /\ At(x, e) = c * 1
    BY <1>1, <1>2, <2>1 DEF At
  <2> HIDE DEF d
  <2>5. Low(y, x) = e
    BY <1>1, <2>1 DEF Low
  <2>6. u \in Nat /\ u * d >= c
    BY <2>2, <2>3, CeilingOverLeast
  <2>7. u * d \in Nat
    BY <2>2, <2>6
  <2>8. ~Less(y, x)
    BY <2>4, <2>5, <2>6, <2>7 DEF Less
  <2> QED
    BY <2>6, <2>8 DEF x, u, y
<1> QED
  BY <1>3, <1>4

-----------------------------------------------------------------------------
(* Messages.                                                               *)

(* The bytes of a varint, seven bits at a time.                            *)
LEMMA Bits7Solved ==
  Bits7 = [v \in Nat |-> IF v < 128 THEN <<v>> ELSE <<128 + (v % 128)>> \o Bits7[v \div 128]]
<1> DEFINE V == Seq(Nat)
           measure == [v \in Nat |-> v]
           Next(v, rest) == IF v < 128 THEN <<v>> ELSE <<128 + (v % 128)>> \o rest
           next == [v \in Nat |-> [g \in [Below(Nat, measure, v) -> V] |->
                      Next(v, g[v \div 128])]]
<1>1. \A v \in Nat : ~(v < 128) => v \div 128 \in Below(Nat, measure, v)
  BY DEF Below
<1>2. \A v \in Nat : \A rest \in V : Next(v, rest) \in V
  <2> SUFFICES ASSUME NEW v \in Nat, NEW rest \in V
               PROVE  Next(v, rest) \in V
    OBVIOUS
  <2>1. <<v>> \in V /\ 128 + (v % 128) \in Nat
    OBVIOUS
  <2>2. <<128 + (v % 128)>> \in V
    BY <2>1
  <2>3. <<128 + (v % 128)>> \o rest \in V
    BY <2>2
  <2> QED
    BY <2>1, <2>3
<1>3. ASSUME NEW v \in Nat, NEW g \in [Below(Nat, measure, v) -> V]
      PROVE  next[v][g] = Next(v, g[v \div 128]) /\ next[v][g] \in V
  <2>1. next[v][g] = Next(v, g[v \div 128])
    BY Zenon
  <2>2. CASE v < 128
    <3>1. Next(v, g[v \div 128]) = <<v>> /\ <<v>> \in V
      BY <2>2
    <3> HIDE DEF Next, next
    <3> QED
      BY <2>1, <3>1
  <2>3. CASE ~(v < 128)
    <3>1. g[v \div 128] \in V
      BY <1>1, <2>3
    <3> HIDE DEF Next, next
    <3> QED
      BY <1>2, <2>1, <3>1
  <2> QED
    BY <2>1, <2>2, <2>3
<1>4. PICK f \in [Nat -> V] : Follows(f, Nat, measure, next)
  <2> HIDE DEF next, V
  <2> QED
    BY <1>3, RecursionByMeasure
<1>5. ASSUME NEW v \in Nat
      PROVE  f[v] = Next(v, f[v \div 128])
  <2> DEFINE g == [y \in Below(Nat, measure, v) |-> f[y]]
  <2>1. g \in [Below(Nat, measure, v) -> V]
    BY <1>4 DEF Below
  <2>2. f[v] = next[v][g]
    BY <1>4 DEF Follows
  <2>3. ~(v < 128) => g[v \div 128] = f[v \div 128]
    BY <1>1
  <2> HIDE DEF g, next
  <2>4. f[v] = Next(v, g[v \div 128])
    BY <1>3, <2>1, <2>2
  <2> QED
    BY <2>3, <2>4
<1>6. \E d : d = [v \in Nat |-> IF v < 128 THEN <<v>> ELSE <<128 + (v % 128)>> \o d[v \div 128]]
  BY <1>4, <1>5
<1> QED
  BY <1>6, Zenon DEF Bits7

(* An encoded number is a sequence of bytes and never empty.               *)
LEMMA Bits7Type ==
  \A v \in Nat : Bits7[v] \in Seq(Byte) /\ Len(Bits7[v]) >= 1
<1> DEFINE S == {v \in Nat : Bits7[v] \in Seq(Byte) /\ Len(Bits7[v]) >= 1}
<1>1. ASSUME NEW v \in Nat, \A k \in Nat : k < v => k \in S
      PROVE  v \in S
  <2> SUFFICES Bits7[v] \in Seq(Byte) /\ Len(Bits7[v]) >= 1
    OBVIOUS
  <2>1. CASE v < 128
    <3>1. Bits7[v] = <<v>> /\ v \in Byte
      BY <2>1, Bits7Solved DEF Byte
    <3>2. <<v>> \in Seq(Byte) /\ Len(<<v>>) = 1
      BY <3>1
    <3> QED
      BY <3>1, <3>2
  <2>2. CASE ~(v < 128)
    <3> DEFINE c == 128 + (v % 128)
               rest == Bits7[v \div 128]
    <3>1. Bits7[v] = <<c>> \o rest
      BY <2>2, Bits7Solved
    <3>2. v \div 128 \in Nat /\ v \div 128 < v /\ c \in Byte
      BY <2>2 DEF Byte
    <3>3. rest \in Seq(Byte)
      BY <1>1, <3>2
    <3> HIDE DEF c, rest
    <3>4. <<c>> \in Seq(Byte) /\ Len(<<c>>) = 1
      BY <3>2
    <3>5. <<c>> \o rest \in Seq(Byte) /\ Len(<<c>> \o rest) = 1 + Len(rest) /\ Len(rest) \in Nat
      BY <3>3, <3>4
    <3> QED
      BY <3>1, <3>5
  <2> QED
    BY <2>1, <2>2
<1> HIDE DEF S
<1>2. \A v \in Nat : v \in S
  BY <1>1, StrongInductionBySet
<1> QED
  BY <1>2 DEF S

(* The elements of bytes are numbers below 256.                            *)
LEMMA ByteOfSeq ==
  ASSUME NEW bytes \in Seq(Byte)
  PROVE  Len(bytes) \in Nat /\ \A p \in 1..Len(bytes) : bytes[p] \in 0..255 /\ bytes[p] \in Nat
<1>1. \A p \in 1..Len(bytes) : bytes[p] \in Byte
  OBVIOUS
<1>2. \A b \in Byte : b \in 0..255 /\ b \in Nat
  BY DEF Byte
<1> QED
  BY <1>1, <1>2

(* A byte with the high bit adds its low seven bits.                       *)
LEMMA VarintSum ==
  \A b \in 0..255, v \in Nat : ~(b < 128) => b - 128 + 128 * v \in Nat
OBVIOUS

-----------------------------------------------------------------------------
(* The node's reader, at a position of a message.                          *)

Varint == [value : Nat, next : Nat]

(* The number at a place, unfolded.                                        *)
LEMMA VarintAtSolved ==
  ASSUME NEW bytes \in Seq(Byte), NEW p \in 1..Len(bytes) + 1
  PROVE  VarintAt(bytes, p) =
           IF p > Len(bytes) THEN [value |-> 0, next |-> Len(bytes) + 1]
           ELSE IF bytes[p] < 128 THEN [value |-> bytes[p], next |-> p + 1]
           ELSE [value |-> bytes[p] - 128 + 128 * VarintAt(bytes, p + 1).value,
                 next |-> VarintAt(bytes, p + 1).next]
<1> DEFINE L == Len(bytes)
           D == 1..Len(bytes) + 5
           Next(q, v) == IF q > Len(bytes) THEN [value |-> 0, next |-> Len(bytes) + 1]
                         ELSE IF bytes[q] < 128 THEN [value |-> bytes[q], next |-> q + 1]
                         ELSE [value |-> bytes[q] - 128 + 128 * v.value, next |-> v.next]
           measure == [q \in D |-> L + 5 - q]
           next == [q \in D |-> [g \in [Below(D, measure, q) -> Varint] |-> Next(q, g[q + 1])]]
           Solves(at) == at = [q \in 1..Len(bytes) + 5 |->
               IF q > Len(bytes) THEN [value |-> 0, next |-> Len(bytes) + 1]
               ELSE IF bytes[q] < 128 THEN [value |-> bytes[q], next |-> q + 1]
               ELSE [value |-> bytes[q] - 128 + 128 * at[q + 1].value, next |-> at[q + 1].next]]
           A == CHOOSE at : Solves(at)
<1>1. L \in Nat /\ L = Len(bytes)
  OBVIOUS
<1>2. \A q \in 1..L : bytes[q] \in 0..255 /\ bytes[q] \in Nat
  BY ByteOfSeq
<1>3. \A q \in D : q <= L => q \in 1..L /\ q + 1 \in Below(D, measure, q)
  BY DEF Below
<1>4. \A q \in D : measure[q] \in Nat
  OBVIOUS
<1>5. \A q \in D : ~(q > L) => q <= L
  BY <1>1
<1>6. ASSUME NEW q \in D, NEW v, q <= L => v \in Varint
      PROVE  Next(q, v) \in Varint
  <2>1. CASE q > L
    BY <2>1, <1>1 DEF Varint
  <2>2. CASE ~(q > L)
    <3>1. bytes[q] \in 0..255 /\ bytes[q] \in Nat /\ v.value \in Nat /\ v.next \in Nat
      BY <1>2, <1>3, <1>5, <1>6, <2>2 DEF Varint
    <3>2. ~(bytes[q] < 128) => bytes[q] - 128 + 128 * v.value \in Nat
      BY <3>1, VarintSum
    <3>3. bytes[q] < 128 => [value |-> bytes[q], next |-> q + 1] \in Varint
      <4>1. q + 1 \in Nat /\ bytes[q] \in Nat
        BY <1>1, <3>1
      <4> QED
        BY <4>1 DEF Varint
    <3>4. ~(bytes[q] < 128) => [value |-> bytes[q] - 128 + 128 * v.value, next |-> v.next] \in Varint
      <4> DEFINE n == bytes[q] - 128 + 128 * v.value
      <4> HIDE DEF n
      <4>1. n \in Nat /\ v.next \in Nat => [value |-> n, next |-> v.next] \in Varint
        BY DEF Varint
      <4> QED
        BY <3>1, <3>2, <4>1 DEF n
    <3> QED
      BY <3>3, <3>4, <2>2
  <2> QED
    BY <2>1, <2>2
<1>7. ASSUME NEW q \in D, NEW g \in [Below(D, measure, q) -> Varint]
      PROVE  next[q][g] = Next(q, g[q + 1]) /\ next[q][g] \in Varint
  <2>1. next[q][g] = Next(q, g[q + 1])
    BY Zenon
  <2>2. q <= L => g[q + 1] \in Varint
    BY <1>3
  <2> HIDE DEF Next, next, D, L
  <2> QED
    BY <1>6, <2>1, <2>2
<1>8. PICK f \in [D -> Varint] : Follows(f, D, measure, next)
  <2> HIDE DEF D, measure, next
  <2> QED
    BY <1>4, <1>7, RecursionByMeasure
<1>9. ASSUME NEW q \in D
      PROVE  f[q] = Next(q, f[q + 1])
  <2> DEFINE g == [y \in Below(D, measure, q) |-> f[y]]
  <2>1. g \in [Below(D, measure, q) -> Varint]
    BY <1>8 DEF Below
  <2>2. f[q] = next[q][g]
    BY <1>8 DEF Follows
  <2>3. q <= L => g[q + 1] = f[q + 1]
    BY <1>3
  <2> HIDE DEF g, next
  <2>4. f[q] = Next(q, g[q + 1])
    BY <1>7, <2>1, <2>2
  <2> QED
    BY <1>1, <1>5, <2>3, <2>4
<1>10. Solves(f)
  BY <1>8, <1>9
<1>11. Solves(A)
  BY <1>10, Zenon
<1>12. VarintAt(bytes, p) = A[p] /\ VarintAt(bytes, p + 1) = A[p + 1]
  BY DEF VarintAt
<1>13. p \in D
  BY <1>1
<1> HIDE DEF A
<1> QED
  BY <1>11, <1>12, <1>13

(* It goes forward, and not past the end.                                  *)
LEMMA VarintAtType ==
  ASSUME NEW bytes \in Seq(Byte)
  PROVE  /\ \A p \in 1..Len(bytes) : /\ VarintAt(bytes, p).value \in Nat
                                     /\ VarintAt(bytes, p).next \in p + 1..Len(bytes) + 1
         /\ VarintAt(bytes, Len(bytes) + 1) = [value |-> 0, next |-> Len(bytes) + 1]
<1> DEFINE L == Len(bytes)
           at(p) == VarintAt(bytes, p)
           Good(p) == at(p).value \in Nat /\ at(p).next \in p + 1..L + 1
           S == {n \in Nat : \A p \in 1..L : p = L - n => Good(p)}
<1>1. L \in Nat /\ \A p \in 1..L : bytes[p] \in 0..255 /\ bytes[p] \in Nat
  BY ByteOfSeq
<1>2. at(L + 1) = [value |-> 0, next |-> L + 1]
  <2>1. L + 1 \in 1..Len(bytes) + 1 /\ L + 1 > Len(bytes)
    BY <1>1
  <2> QED
    BY <2>1, VarintAtSolved
<1>3. \A p \in 1..L : at(p) = IF bytes[p] < 128 THEN [value |-> bytes[p], next |-> p + 1]
                            ELSE [value |-> bytes[p] - 128 + 128 * at(p + 1).value, next |-> at(p + 1).next]
  <2>1. \A p \in 1..L : p \in 1..Len(bytes) + 1 /\ ~(p > Len(bytes))
    BY <1>1
  <2> QED
    BY <2>1, VarintAtSolved
<1> HIDE DEF at, L
<1>4. ASSUME NEW p \in 1..L, at(p + 1).value \in Nat, at(p + 1).next \in p + 1..L + 1
      PROVE  Good(p)
  <2>1. CASE bytes[p] < 128
    <3>1. at(p) = [value |-> bytes[p], next |-> p + 1]
      BY <1>3, <2>1
    <3>2. bytes[p] \in Nat /\ p + 1 \in p + 1..L + 1
      BY <1>1
    <3> QED
      BY <3>1, <3>2
  <2>2. CASE ~(bytes[p] < 128)
    <3>1. bytes[p] - 128 + 128 * at(p + 1).value \in Nat
      BY <1>1, <1>4, <2>2, VarintSum
    <3>2. at(p) = [value |-> bytes[p] - 128 + 128 * at(p + 1).value, next |-> at(p + 1).next]
      BY <1>3, <2>2
    <3>3. at(p).value \in Nat /\ at(p).next = at(p + 1).next
      BY <3>1, <3>2
    <3> QED
      BY <1>4, <3>3
  <2> QED
    BY <2>1, <2>2
<1>5. 0 \in S
  <2> SUFFICES ASSUME NEW p \in 1..L, p = L - 0
               PROVE  Good(p)
    OBVIOUS
  <2>1. p = L /\ p + 1 \in p + 1..L + 1
    BY <1>1
  <2> QED
    BY <1>2, <1>4, <2>1
<1>6. ASSUME NEW n \in Nat, n \in S
      PROVE  n + 1 \in S
  <2> SUFFICES ASSUME NEW p \in 1..L, p = L - (n + 1)
               PROVE  Good(p)
    OBVIOUS
  <2>1. p + 1 \in 1..L /\ p + 1 = L - n
    BY <1>1
  <2>2. Good(p + 1)
    BY <1>6, <2>1
  <2>3. at(p + 1).next \in p + 1..L + 1
    BY <1>1, <2>1, <2>2
  <2> QED
    BY <1>4, <2>2, <2>3
<1> HIDE DEF S
<1>7. \A n \in Nat : n \in S
  BY <1>5, <1>6, InductionBySet
<1>8. ASSUME NEW p \in 1..L
      PROVE  Good(p)
  <2>1. L - p \in Nat /\ p = L - (L - p)
    BY <1>1
  <2> QED
    BY <1>7, <2>1 DEF S
<1> QED
  BY <1>2, <1>8 DEF at, L

(* The bytes b are in a message at position p.                             *)
Occurs(b, bytes, p) ==
  p + Len(b) <= Len(bytes) + 1 /\ \A i \in 1..Len(b) : bytes[p + i - 1] = b[i]

(* Where two parts stand together, each stands in its place.               *)
LEMMA OccursConcat ==
  ASSUME NEW a \in Seq(Byte), NEW b \in Seq(Byte), NEW bytes \in Seq(Byte), NEW p \in Nat \ {0},
         Occurs(a \o b, bytes, p)
  PROVE  Occurs(a, bytes, p) /\ Occurs(b, bytes, p + Len(a))
<1> DEFINE m == Len(a)
           n == Len(b)
           c == a \o b
<1>1. m \in Nat /\ n \in Nat /\ Len(c) = m + n /\ Len(bytes) \in Nat
  OBVIOUS
<1>2. \A i \in 1..m : c[i] = a[i]
  OBVIOUS
<1>3. \A i \in 1..n : c[m + i] = b[i]
  OBVIOUS
<1>4. p + (m + n) <= Len(bytes) + 1 /\ \A i \in 1..(m + n) : bytes[p + i - 1] = c[i]
  BY <1>1 DEF Occurs
<1> HIDE DEF m, n, c
<1>5. p + m <= Len(bytes) + 1 /\ (p + m) + n <= Len(bytes) + 1
  BY <1>1, <1>4
<1>6. \A i \in 1..m : bytes[p + i - 1] = a[i]
  <2>1. \A i \in 1..m : i \in 1..(m + n)
    BY <1>1
  <2> QED
    BY <1>2, <1>4, <2>1
<1>7. ASSUME NEW i \in 1..n
      PROVE  bytes[(p + m) + i - 1] = b[i]
  <2>1. m + i \in 1..(m + n) /\ p + (m + i) - 1 = (p + m) + i - 1
    BY <1>1
  <2> QED
    BY <1>3, <1>4, <2>1
<1> QED
  BY <1>5, <1>6, <1>7 DEF Occurs, m, n

(* What occurs at a place is the subsequence there.                        *)
LEMMA OccursSubSeq ==
  ASSUME NEW b \in Seq(Byte), NEW bytes \in Seq(Byte), NEW p \in Nat \ {0},
         Occurs(b, bytes, p)
  PROVE  SubSeq(bytes, p, p + Len(b) - 1) = b
<1> DEFINE n == Len(b)
           m == p + n - 1
           s == SubSeq(bytes, p, m)
<1>1. n \in Nat /\ Len(bytes) \in Nat
  BY ByteOfSeq
<1>2. p + n <= Len(bytes) + 1 /\ \A i \in 1..n : bytes[p + i - 1] = b[i]
  BY DEF Occurs
<1>3. m \in Int /\ m <= Len(bytes) /\ m - p + 1 = n /\ (n # 0 => p <= m) /\ (n = 0 => ~(p <= m))
  BY <1>1, <1>2
<1> HIDE DEF m
<1>4. \A i \in p..m : i \in 1..Len(bytes)
  BY <1>1, <1>3
<1>5. \A i \in p..m : bytes[i] \in Byte
  BY <1>4
<1>6. p \in Int
  OBVIOUS
<1> HIDE DEF n
<1>7. /\ s \in Seq(Byte)
      /\ Len(s) = IF p <= m THEN m - p + 1 ELSE 0
      /\ \A i \in 1..m - p + 1 : s[i] = bytes[p + i - 1]
  BY <1>3, <1>5, <1>6, SubSeqProperties
<1> HIDE DEF s
<1>8. Len(s) = n /\ \A i \in 1..n : s[i] = b[i]
  BY <1>1, <1>2, <1>3, <1>7
<1>9. s = b
  BY <1>7, <1>8, SeqEqual DEF n
<1> QED
  BY <1>9 DEF s, m, n

(* The varint that was written is the number that is read.                 *)
LEMMA VarintRead ==
  ASSUME NEW bytes \in Seq(Byte)
  PROVE  \A v \in Nat, p \in Nat \ {0} : Occurs(Bits7[v], bytes, p) =>
           VarintAt(bytes, p) = [value |-> v, next |-> p + Len(Bits7[v])]
<1> DEFINE Read1(v, p) == VarintAt(bytes, p) = [value |-> v, next |-> p + Len(Bits7[v])]
           S == {v \in Nat : \A p \in Nat \ {0} : Occurs(Bits7[v], bytes, p) => Read1(v, p)}
<1>1. ASSUME NEW v \in Nat, \A k \in Nat : k < v => k \in S
      PROVE  v \in S
  <2> SUFFICES ASSUME NEW p \in Nat \ {0}, Occurs(Bits7[v], bytes, p)
               PROVE  Read1(v, p)
    OBVIOUS
  <2>1. Len(bytes) \in Nat /\ \A q \in 1..Len(bytes) : bytes[q] \in Nat
    BY ByteOfSeq
  <2>2. CASE v < 128
    <3>1. Bits7[v] = <<v>>
      BY <2>2, Bits7Solved
    <3>2. Len(<<v>>) = 1 /\ <<v>>[1] = v
      OBVIOUS
    <3>3. Len(Bits7[v]) = 1 /\ p + 1 <= Len(bytes) + 1 /\ bytes[p + 1 - 1] = v
      BY <3>1, <3>2 DEF Occurs
    <3>4. p \in 1..Len(bytes) + 1 /\ ~(p > Len(bytes)) /\ bytes[p] = v
      BY <2>1, <3>3
    <3>5. VarintAt(bytes, p) = [value |-> v, next |-> p + 1]
      BY <2>2, <3>4, VarintAtSolved
    <3> QED
      BY <3>3, <3>5
  <2>3. CASE ~(v < 128)
    <3> DEFINE c == 128 + (v % 128)
               u == v \div 128
               rest == Bits7[u]
    <3>1. Bits7[v] = <<c>> \o rest
      BY <2>3, Bits7Solved
    <3>2. u \in Nat /\ u < v /\ c \in Byte /\ c \in Nat /\ ~(c < 128) /\ c - 128 + 128 * u = v
      BY <2>3 DEF Byte
    <3>3. rest \in Seq(Byte) /\ Len(rest) \in Nat /\ Len(rest) >= 1
      BY <3>2, Bits7Type
    <3> HIDE DEF c, u, rest
    <3>4. <<c>> \in Seq(Byte) /\ Len(<<c>>) = 1 /\ <<c>>[1] = c
      BY <3>2
    <3>5. Occurs(<<c>>, bytes, p) /\ Occurs(rest, bytes, p + 1)
      BY <3>1, <3>3, <3>4, OccursConcat
    <3>6. bytes[p + 1 - 1] = c /\ p + 1 + Len(rest) <= Len(bytes) + 1
      BY <3>4, <3>5 DEF Occurs
    <3>7. p \in 1..Len(bytes) + 1 /\ ~(p > Len(bytes)) /\ bytes[p] = c
      BY <2>1, <3>3, <3>6
    <3>8. VarintAt(bytes, p + 1) = [value |-> u, next |-> p + 1 + Len(rest)]
      <4>1. p + 1 \in Nat \ {0}
        OBVIOUS
      <4>2. u \in S
        BY <1>1, <3>2
      <4> QED
        BY <3>5, <4>1, <4>2 DEF rest
    <3>9. VarintAt(bytes, p) = [value |-> c - 128 + 128 * u, next |-> p + 1 + Len(rest)]
      BY <3>2, <3>7, <3>8, VarintAtSolved
    <3>10. Len(Bits7[v]) = 1 + Len(rest)
      BY <3>1, <3>3, <3>4
    <3>11. p + 1 + Len(rest) = p + (1 + Len(rest))
      BY <3>3
    <3> QED
      BY <3>2, <3>9, <3>10, <3>11
  <2> QED
    BY <2>2, <2>3
<1> HIDE DEF S
<1>2. \A v \in Nat : v \in S
  BY <1>1, StrongInductionBySet
<1> QED
  BY <1>2 DEF S

-----------------------------------------------------------------------------
(* The fields of a message from position p on.                             *)

FieldRecord == [field : Nat, value : Seq(Nat)]
From(bytes) ==
  CHOOSE from : from = [p \in 1..Len(bytes) + 1 |->
    IF p > Len(bytes) THEN <<>>
    ELSE <<Plain(FieldAt(bytes, p))>> \o from[FieldAt(bytes, p).next]]

(* A field ends after it begins, and not past the end of the message.      *)
LEMMA FieldAtType ==
  ASSUME NEW bytes \in Seq(Byte), NEW p \in 1..Len(bytes)
  PROVE  Plain(FieldAt(bytes, p)) \in FieldRecord /\ FieldAt(bytes, p).next \in p + 1..Len(bytes) + 1
<1> DEFINE L == Len(bytes)
           key == VarintAt(bytes, p)
           arg == VarintAt(bytes, key.next)
           f == FieldOf(bytes, key, arg)
<1>1. L \in Nat /\ p \in 1..L
  BY ByteOfSeq
<1>2. key.value \in Nat /\ key.next \in p + 1..L + 1
  BY VarintAtType
<1>3. arg.value \in Nat /\ arg.next \in p + 1..L + 1
  <2>1. CASE key.next = L + 1
    <3>1. arg = [value |-> 0, next |-> L + 1]
      BY <2>1, VarintAtType
    <3> QED
      BY <1>1, <3>1
  <2>2. CASE key.next # L + 1
    <3>1. key.next \in 1..L
      BY <1>1, <1>2, <2>2
    <3>2. arg.value \in Nat /\ arg.next \in key.next + 1..L + 1
      BY <3>1, VarintAtType
    <3> HIDE DEF key, arg
    <3> QED
      BY <1>1, <1>2, <3>2
  <2> QED
    BY <2>1, <2>2
<1>4. FieldAt(bytes, p) = f
  BY DEF FieldAt, AfterKey
<1> HIDE DEF key, arg
<1>5. key.value \div 8 \in Nat
  BY <1>2
<1>6. CASE key.value % 8 = 0
  <2>1. f = [field |-> key.value \div 8, value |-> <<arg.value>>, next |-> arg.next]
    BY <1>6 DEF FieldOf
  <2>2. <<arg.value>> \in Seq(Nat)
    BY <1>3
  <2>3. Plain(f) = [field |-> key.value \div 8, value |-> <<arg.value>>] /\ f.next = arg.next
    BY <2>1 DEF Plain
  <2> HIDE DEF f
  <2> QED
    BY <1>3, <1>4, <1>5, <2>2, <2>3 DEF FieldRecord
<1>7. CASE key.value % 8 # 0 /\ key.value % 8 = 2 /\ arg.next + arg.value <= Len(bytes) + 1
  <2> DEFINE m == arg.next
             n == arg.next + arg.value - 1
             v == SubSeq(bytes, m, n)
  <2>1. f = [field |-> key.value \div 8, next |-> arg.next + arg.value, value |-> v]
    BY <1>7 DEF FieldOf
  <2>2. m \in Int /\ n \in Int /\ n <= L /\ 1 <= m
    BY <1>1, <1>3, <1>7
  <2>3. \A i \in m..n : bytes[i] \in Nat
    <3>1. \A i \in m..n : i \in 1..L
      <4> HIDE DEF m, n
      <4> QED
        BY <1>1, <2>2
    <3> QED
      BY <3>1, ByteOfSeq
  <2>4. v \in Seq(Nat)
    <3> HIDE DEF m, n
    <3> QED
      BY <2>2, <2>3, SubSeqProperties
  <2>5. arg.next + arg.value \in p + 1..L + 1
    BY <1>1, <1>3, <1>7
  <2> HIDE DEF v
  <2>6. Plain(f) = [field |-> key.value \div 8, value |-> v] /\ f.next = arg.next + arg.value
    BY <2>1 DEF Plain
  <2> HIDE DEF f
  <2> QED
    BY <1>4, <1>5, <2>4, <2>5, <2>6 DEF FieldRecord
<1>8. CASE key.value % 8 # 0 /\ ~(key.value % 8 = 2 /\ arg.next + arg.value <= Len(bytes) + 1)
  <2>1. f = [field |-> 0, value |-> <<>>, next |-> Len(bytes) + 1]
    BY <1>8 DEF FieldOf
  <2>2. <<>> \in Seq(Nat) /\ L + 1 \in p + 1..L + 1
    BY <1>1
  <2>3. Plain(f) = [field |-> 0, value |-> <<>>] /\ f.next = L + 1
    BY <2>1 DEF Plain
  <2> HIDE DEF f
  <2> QED
    BY <1>4, <2>2, <2>3 DEF FieldRecord
<1> QED
  BY <1>6, <1>7, <1>8

(* The fields from a place on: the one there and those after it.           *)
LEMMA FromSolved ==
  ASSUME NEW bytes \in Seq(Byte)
  PROVE  /\ From(bytes) \in [1..Len(bytes) + 1 -> Seq(FieldRecord)]
         /\ From(bytes)[Len(bytes) + 1] = <<>>
         /\ \A p \in 1..Len(bytes) : From(bytes)[p] =
              <<Plain(FieldAt(bytes, p))>> \o From(bytes)[FieldAt(bytes, p).next]
         /\ Fields(bytes) = From(bytes)[1]
<1> DEFINE L == Len(bytes)
           D == 1..L + 1
           V == Seq(FieldRecord)
           first(p) == Plain(FieldAt(bytes, p))
           after(p) == FieldAt(bytes, p).next
           Next(p, rest) == IF p > L THEN <<>> ELSE <<first(p)>> \o rest
           measure == [p \in D |-> L + 1 - p]
           next == [p \in D |-> [g \in [Below(D, measure, p) -> V] |-> Next(p, g[after(p)])]]
           F == From(bytes)
<1>1. L \in Nat /\ \A p \in D : p \in Nat /\ measure[p] \in Nat
  BY ByteOfSeq
<1>2. \A p \in D : ~(p > L) => p \in 1..L
  BY <1>1
<1>3. \A p \in 1..L : first(p) \in FieldRecord /\ after(p) \in p + 1..L + 1
  BY FieldAtType
<1>4. Fields(bytes) = F[1]
  BY DEF Fields, From
<1> DEFINE Solves(from) == from = [p \in D |-> Next(p, from[after(p)])]
<1>5. From(bytes) = CHOOSE from : Solves(from)
  BY DEF From
<1> HIDE DEF first, after, L, F
<1>6. \A p \in D : ~(p > L) => after(p) \in D /\ after(p) \in Below(D, measure, p)
  <2> SUFFICES ASSUME NEW p \in D, ~(p > L)
               PROVE  after(p) \in D /\ after(p) \in Below(D, measure, p)
    OBVIOUS
  <2>1. p \in 1..L /\ after(p) \in p + 1..L + 1
    BY <1>2, <1>3
  <2>2. after(p) \in D
    BY <1>1, <2>1
  <2>3. measure[after(p)] < measure[p]
    BY <1>1, <2>1, <2>2
  <2> QED
    BY <2>2, <2>3 DEF Below
<1>7. ASSUME NEW p \in D, NEW rest, ~(p > L) => rest \in V
      PROVE  Next(p, rest) \in V
  <2>1. CASE p > L
    BY <2>1
  <2>2. CASE ~(p > L)
    <3>1. first(p) \in FieldRecord
      BY <1>2, <1>3, <2>2
    <3>2. <<first(p)>> \in V
      BY <3>1
    <3> QED
      BY <1>7, <2>2, <3>2
  <2> QED
    BY <2>1, <2>2
<1> HIDE DEF D
<1>8. ASSUME NEW p \in D, NEW g \in [Below(D, measure, p) -> V]
      PROVE  next[p][g] = Next(p, g[after(p)]) /\ next[p][g] \in V
  <2>1. next[p][g] = Next(p, g[after(p)])
    BY Zenon
  <2>2. ~(p > L) => g[after(p)] \in V
    BY <1>6
  <2> HIDE DEF next, Next
  <2> QED
    BY <1>7, <2>1, <2>2
<1>9. PICK f \in [D -> V] : Follows(f, D, measure, next)
  <2> HIDE DEF next, measure, V
  <2> QED
    BY <1>1, <1>8, RecursionByMeasure
<1>10. ASSUME NEW p \in D
       PROVE  f[p] = Next(p, f[after(p)])
  <2> DEFINE g == [y \in Below(D, measure, p) |-> f[y]]
  <2>1. g \in [Below(D, measure, p) -> V]
    BY <1>9 DEF Below
  <2>2. f[p] = next[p][g]
    BY <1>9 DEF Follows
  <2>3. ~(p > L) => g[after(p)] = f[after(p)]
    BY <1>6
  <2> HIDE DEF g, next
  <2>4. f[p] = Next(p, g[after(p)])
    BY <1>8, <2>1, <2>2
  <2> QED
    BY <2>3, <2>4
<1>11. Solves(f)
  BY <1>9, <1>10
<1>12. Solves(F)
  BY <1>5, <1>11, Zenon DEF F
<1>13. \A p \in D : F[p] = Next(p, F[after(p)])
  BY <1>12
<1>14. \A n \in Nat : \A p \in D : measure[p] = n => F[p] \in V
  <2> DEFINE S == {n \in Nat : \A p \in D : measure[p] = n => F[p] \in V}
  <2>1. ASSUME NEW n \in Nat, \A k \in Nat : k < n => k \in S
        PROVE  n \in S
    <3> SUFFICES ASSUME NEW p \in D, measure[p] = n
                 PROVE  F[p] \in V
      OBVIOUS
    <3>1. ASSUME ~(p > L)
          PROVE  F[after(p)] \in V
      <4>1. after(p) \in D /\ measure[after(p)] < n /\ measure[after(p)] \in Nat
        BY <1>1, <1>6, <3>1 DEF Below
      <4> QED
        BY <2>1, <4>1
    <3> HIDE DEF Next, V
    <3> QED
      BY <1>7, <1>13, <3>1
  <2> HIDE DEF S
  <2>2. \A n \in Nat : n \in S
    BY <2>1, StrongInductionBySet
  <2> QED
    BY <2>2 DEF S
<1>15. F \in [D -> V]
  <2>1. \A p \in D : F[p] \in V
    BY <1>1, <1>14
  <2>2. F = [p \in D |-> F[p]]
    BY <1>12
  <2> HIDE DEF V
  <2> QED
    BY <2>1, <2>2
<1>16. F[L + 1] = <<>>
  <2>1. L + 1 \in D /\ L + 1 > L
    BY <1>1 DEF D
  <2> QED
    BY <1>13, <2>1
<1>17. \A p \in 1..L : F[p] = <<first(p)>> \o F[after(p)]
  <2>1. \A p \in 1..L : p \in D /\ ~(p > L)
    BY <1>1 DEF D
  <2> QED
    BY <1>13, <2>1
<1> QED
  BY <1>4, <1>15, <1>16, <1>17 DEF D, F, L, first, after

-----------------------------------------------------------------------------
(* The bytes b read as the fields fs, wherever in a message they are.      *)

Reads(b, fs) ==
  \A bytes \in Seq(Byte), p \in Nat \ {0} : Occurs(b, bytes, p) =>
    From(bytes)[p] = fs \o From(bytes)[p + Len(b)]
Encodes(b, fs) == b \in Seq(Byte) /\ fs \in Seq(FieldRecord) /\ Reads(b, fs)

One(field, value) == <<[field |-> field, value |-> value]>>

(* No bytes encode no fields.                                              *)
LEMMA EncodesNothing ==
  Encodes(<<>>, <<>>)
<1>1. <<>> \in Seq(Byte) /\ <<>> \in Seq(FieldRecord) /\ Len(<<>>) = 0
  OBVIOUS
<1>2. ASSUME NEW bytes \in Seq(Byte), NEW p \in Nat \ {0}, Occurs(<<>>, bytes, p)
      PROVE  From(bytes)[p] = <<>> \o From(bytes)[p + 0]
  <2>1. p \in 1..Len(bytes) + 1 /\ p + 0 = p
    BY <1>1, <1>2, ByteOfSeq DEF Occurs
  <2>2. From(bytes)[p] \in Seq(FieldRecord)
    BY <2>1, FromSolved
  <2> QED
    BY <2>1, <2>2
<1> QED
  BY <1>1, <1>2 DEF Encodes, Reads

(* Fields follow each other as their bytes do.                             *)
LEMMA EncodesConcat ==
  ASSUME NEW b, NEW fs, Encodes(b, fs), NEW c, NEW gs, Encodes(c, gs)
  PROVE  Encodes(b \o c, fs \o gs)
<1>1. /\ b \in Seq(Byte) /\ c \in Seq(Byte) /\ b \o c \in Seq(Byte)
      /\ fs \in Seq(FieldRecord) /\ gs \in Seq(FieldRecord) /\ fs \o gs \in Seq(FieldRecord)
  BY DEF Encodes
<1>2. Len(b) \in Nat /\ Len(c) \in Nat /\ Len(b \o c) = Len(b) + Len(c)
  BY <1>1
<1>3. ASSUME NEW bytes \in Seq(Byte), NEW p \in Nat \ {0}, Occurs(b \o c, bytes, p)
      PROVE  From(bytes)[p] = (fs \o gs) \o From(bytes)[p + Len(b \o c)]
  <2> DEFINE q == p + Len(b)
             r == p + Len(b \o c)
             F == From(bytes)
  <2>1. q \in Nat \ {0} /\ r = q + Len(c)
    BY <1>2
  <2>2. Occurs(b, bytes, p) /\ Occurs(c, bytes, q)
    BY <1>1, <1>3, OccursConcat
  <2>3. r \in 1..Len(bytes) + 1
    BY <1>2, <1>3, ByteOfSeq DEF Occurs
  <2>4. F[r] \in Seq(FieldRecord)
    BY <2>3, FromSolved
  <2> HIDE DEF F, q, r
  <2>5. F[p] = fs \o F[q]
    BY <2>2 DEF Encodes, Reads, F, q
  <2>6. F[q] = gs \o F[r]
    BY <2>1, <2>2 DEF Encodes, Reads, F
  <2>7. fs \o (gs \o F[r]) = (fs \o gs) \o F[r]
    <3> DEFINE R == FieldRecord
               hs == F[r]
    <3>1. fs \in Seq(R) /\ gs \in Seq(R) /\ hs \in Seq(R)
      BY <1>1, <2>4
    <3> HIDE DEF R, hs
    <3>2. fs \o (gs \o hs) = (fs \o gs) \o hs
      BY <3>1, ConcatAssociative
    <3> QED
      BY <3>2 DEF hs
  <2> QED
    BY <2>5, <2>6, <2>7 DEF F, r
<1> QED
  BY <1>1, <1>3 DEF Encodes, Reads

(* The fields of a message that is nothing else.                           *)
LEMMA FieldsRead ==
  ASSUME NEW b, NEW fs, Encodes(b, fs)
  PROVE  Fields(b) = fs
<1>1. b \in Seq(Byte) /\ fs \in Seq(FieldRecord) /\ Len(b) \in Nat
  BY DEF Encodes
<1>2. Occurs(b, b, 1)
  <2>1. \A i \in 1..Len(b) : 1 + i - 1 = i
    BY <1>1
  <2> QED
    BY <1>1, <2>1 DEF Occurs
<1>3. 1 \in Nat \ {0} /\ 1 + Len(b) = Len(b) + 1
  BY <1>1
<1>4. From(b)[1] = fs \o From(b)[Len(b) + 1]
  BY <1>1, <1>2, <1>3 DEF Encodes, Reads
<1>5. From(b)[Len(b) + 1] = <<>> /\ Fields(b) = From(b)[1]
  BY <1>1, FromSolved
<1> QED
  BY <1>1, <1>4, <1>5

(* A field with a value of bytes.                                          *)
LEMMA EncodesBytes ==
  ASSUME NEW field \in Nat, NEW value \in Seq(Byte)
  PROVE  Encodes(EncodeBytes(field, value), One(field, value))
<1> DEFINE n == Len(value)
           K == Bits7[8 * field + 2]
           A == Bits7[n]
           k == Len(K)
           a == Len(A)
           b == EncodeBytes(field, value)
<1>1. n \in Nat /\ 8 * field + 2 \in Nat
  OBVIOUS
<1>2. K \in Seq(Byte) /\ A \in Seq(Byte) /\ k \in Nat /\ a \in Nat /\ k >= 1
  BY <1>1, Bits7Type
<1>3. b = (K \o A) \o value
  BY DEF EncodeBytes, EncodeKey, EncodeVarint
<1>4. K \o A \in Seq(Byte) /\ Len(K \o A) = k + a
  BY <1>2
<1>5. b \in Seq(Byte) /\ Len(b) = k + a + n
  BY <1>1, <1>2, <1>3, <1>4
<1>6. value \in Seq(Nat)
  <2>1. Byte \subseteq Nat
    BY DEF Byte
  <2> QED
    BY <2>1, SeqMonotonic
<1>7. [field |-> field, value |-> value] \in FieldRecord /\ One(field, value) \in Seq(FieldRecord)
  <2>1. [field |-> field, value |-> value] \in FieldRecord
    BY <1>6 DEF FieldRecord
  <2> QED
    BY <2>1 DEF One
<1>8. (8 * field + 2) % 8 = 2 /\ (8 * field + 2) \div 8 = field
  OBVIOUS
<1> HIDE DEF k, a
<1>9. ASSUME NEW bytes \in Seq(Byte), NEW p \in Nat \ {0}, Occurs(b, bytes, p)
      PROVE  From(bytes)[p] = One(field, value) \o From(bytes)[p + Len(b)]
  <2> DEFINE q == p + k
             r == q + a
  <2>1. Occurs(K \o A, bytes, p) /\ Occurs(value, bytes, p + Len(K \o A))
    BY <1>3, <1>4, <1>9, OccursConcat
  <2>2. Occurs(K, bytes, p) /\ Occurs(A, bytes, q) /\ Occurs(value, bytes, r)
    <3>1. Occurs(K, bytes, p) /\ Occurs(A, bytes, q)
      BY <1>2, <2>1, OccursConcat DEF k
    <3>2. p + Len(K \o A) = r
      BY <1>2, <1>4
    <3> QED
      BY <2>1, <3>1, <3>2
  <2>3. q \in Nat \ {0} /\ r \in Nat \ {0} /\ p + Len(b) = r + n
    BY <1>1, <1>2, <1>5
  <2>4. VarintAt(bytes, p) = [value |-> 8 * field + 2, next |-> q]
    BY <1>1, <2>2, VarintRead DEF k
  <2>5. VarintAt(bytes, q) = [value |-> n, next |-> r]
    BY <1>1, <2>2, <2>3, VarintRead DEF a
  <2>6. Len(bytes) \in Nat /\ r + n <= Len(bytes) + 1 /\ p \in 1..Len(bytes)
    <3>1. Len(bytes) \in Nat /\ r + n <= Len(bytes) + 1
      BY <2>2, ByteOfSeq DEF Occurs
    <3> QED
      BY <1>1, <1>2, <3>1
  <2>7. SubSeq(bytes, r, r + n - 1) = value
    <3> HIDE DEF r
    <3>1. Occurs(value, bytes, r)
      BY <2>2
    <3> QED
      BY <2>3, <3>1, OccursSubSeq
  <2> HIDE DEF K, A, b, n, q, r
  <2> DEFINE key == [value |-> 8 * field + 2, next |-> q]
             arg == [value |-> n, next |-> r]
  <2>8. FieldAt(bytes, p) = FieldOf(bytes, key, arg)
    BY <2>4, <2>5 DEF FieldAt, AfterKey
  <2>9. FieldOf(bytes, key, arg) = [field |-> field, next |-> r + n, value |-> value]
    <3>1. key.value % 8 # 0 /\ key.value % 8 = 2 /\ key.value \div 8 = field
      BY <1>8
    <3>2. arg.next = r /\ arg.value = n /\ arg.next + arg.value <= Len(bytes) + 1
      BY <2>6
    <3> HIDE DEF key, arg
    <3> QED
      BY <2>7, <3>1, <3>2 DEF FieldOf
  <2>10. Plain(FieldAt(bytes, p)) = [field |-> field, value |-> value] /\ FieldAt(bytes, p).next = r + n
    BY <2>8, <2>9 DEF Plain
  <2>11. From(bytes)[p] = <<Plain(FieldAt(bytes, p))>> \o From(bytes)[FieldAt(bytes, p).next]
    BY <2>6, FromSolved
  <2> QED
    BY <2>3, <2>10, <2>11 DEF One
<1> QED
  BY <1>5, <1>7, <1>9 DEF Encodes, Reads

(* A field with a number.                                                  *)
LEMMA EncodesUint64 ==
  ASSUME NEW field \in Nat, NEW v \in Nat
  PROVE  Encodes(EncodeUint64(field, v), One(field, <<v>>))
<1> DEFINE K == Bits7[8 * field + 0]
           A == Bits7[v]
           k == Len(K)
           a == Len(A)
           b == EncodeUint64(field, v)
<1>1. 8 * field + 0 \in Nat
  OBVIOUS
<1>2. K \in Seq(Byte) /\ A \in Seq(Byte) /\ k \in Nat /\ a \in Nat /\ k >= 1
  BY <1>1, Bits7Type
<1>3. b = K \o A
  BY DEF EncodeUint64, EncodeKey, EncodeVarint
<1>4. b \in Seq(Byte) /\ Len(b) = k + a
  BY <1>2, <1>3
<1>5. [field |-> field, value |-> <<v>>] \in FieldRecord /\ One(field, <<v>>) \in Seq(FieldRecord)
  <2>1. <<v>> \in Seq(Nat)
    OBVIOUS
  <2>2. [field |-> field, value |-> <<v>>] \in FieldRecord
    BY <2>1 DEF FieldRecord
  <2> QED
    BY <2>2 DEF One
<1>6. (8 * field + 0) % 8 = 0 /\ (8 * field + 0) \div 8 = field
  OBVIOUS
<1> HIDE DEF k, a
<1>7. ASSUME NEW bytes \in Seq(Byte), NEW p \in Nat \ {0}, Occurs(b, bytes, p)
      PROVE  From(bytes)[p] = One(field, <<v>>) \o From(bytes)[p + Len(b)]
  <2> DEFINE q == p + k
             r == q + a
  <2>1. Occurs(K, bytes, p) /\ Occurs(A, bytes, q)
    BY <1>2, <1>3, <1>7, OccursConcat DEF k
  <2>2. q \in Nat \ {0} /\ r \in Nat \ {0} /\ p + Len(b) = r
    BY <1>2, <1>4
  <2>3. VarintAt(bytes, p) = [value |-> 8 * field + 0, next |-> q]
    BY <1>1, <2>1, VarintRead DEF k
  <2>4. VarintAt(bytes, q) = [value |-> v, next |-> r]
    BY <2>1, <2>2, VarintRead DEF a
  <2>5. p \in 1..Len(bytes)
    <3>1. Len(bytes) \in Nat /\ q + a <= Len(bytes) + 1
      BY <2>1, ByteOfSeq DEF Occurs, a
    <3> QED
      BY <1>2, <3>1
  <2> HIDE DEF K, A, b, q, r
  <2> DEFINE key == [value |-> 8 * field + 0, next |-> q]
             arg == [value |-> v, next |-> r]
  <2>6. FieldAt(bytes, p) = FieldOf(bytes, key, arg)
    BY <2>3, <2>4 DEF FieldAt, AfterKey
  <2>7. FieldOf(bytes, key, arg) = [field |-> field, value |-> <<v>>, next |-> r]
    <3>1. key.value % 8 = 0 /\ key.value \div 8 = field
      BY <1>6
    <3>2. arg.next = r /\ arg.value = v
      OBVIOUS
    <3> HIDE DEF key, arg
    <3> QED
      BY <3>1, <3>2 DEF FieldOf
  <2>8. Plain(FieldAt(bytes, p)) = [field |-> field, value |-> <<v>>] /\ FieldAt(bytes, p).next = r
    BY <2>6, <2>7 DEF Plain
  <2>9. From(bytes)[p] = <<Plain(FieldAt(bytes, p))>> \o From(bytes)[FieldAt(bytes, p).next]
    BY <2>5, FromSolved
  <2> QED
    BY <2>2, <2>8, <2>9 DEF One
<1> QED
  BY <1>4, <1>5, <1>7 DEF Encodes, Reads

(* String fields are numbered in order.                                    *)
StringFields(values) == [i \in 1..Len(values) |-> [field |-> i, value |-> values[i]]]

(* Strings is what an iteration over its values ends with.                 *)
LEMMA StringsSolved ==
  ASSUME NEW values \in Seq(Seq(Byte))
  PROVE  \E up \in [0..Len(values) -> Seq(Byte)] :
           /\ up[0] = <<>> /\ Strings(values) = up[Len(values)]
           /\ \A i \in 1..Len(values) : up[i] = up[i - 1] \o EncodeBytes(i, values[i])
<1> DEFINE L == Len(values)
           V == Seq(Byte)
           base == <<>>
           piece(i) == EncodeBytes(i, values[i])
           step == [i \in 1..L |-> [v \in V |-> v \o piece(i)]]
           Solves(up) == up = [i \in 0..Len(values) |->
                                 IF i = 0 THEN <<>> ELSE up[i - 1] \o EncodeBytes(i, values[i])]
           N == CHOOSE up : Solves(up)
<1>1. L \in Nat /\ base \in V /\ base = <<>>
  OBVIOUS
<1>2. \A i \in 1..L : piece(i) \in V
  <2>1. \A i \in 1..L : i \in Nat /\ values[i] \in Seq(Byte)
    OBVIOUS
  <2> QED
    BY <2>1, EncodesBytes DEF Encodes
<1>3. Strings(values) = N[L]
  BY DEF Strings
<1>4. \A i \in 1..L : \A v \in V : step[i][v] = v \o piece(i)
  OBVIOUS
<1>5. \A i \in 1..L : \A v \in V : v \o piece(i) \in V
  BY <1>2
<1>6. \A up : Solves(up) <=> up = [i \in 0..L |-> IF i = 0 THEN base ELSE up[i - 1] \o piece(i)]
  OBVIOUS
<1> HIDE DEF L, N, step, base, piece, Solves
<1>7. StepsWithin(step, L, V)
  BY <1>4, <1>5 DEF StepsWithin
<1> HIDE DEF V
<1>8. PICK f \in [0..L -> V] : Iterates(f, L, base, step)
  BY <1>1, <1>7, IterationSolved
<1>9. Solves(f)
  <2>1. f = [i \in 0..L |-> f[i]] /\ \A i \in 1..L : f[i - 1] \in V
    BY <1>1, <1>8
  <2>2. \A i \in 0..L : i # 0 => i \in 1..L
    BY <1>1
  <2>3. \A i \in 0..L : f[i] = IF i = 0 THEN base ELSE f[i - 1] \o piece(i)
    BY <1>4, <1>8, <2>1, <2>2 DEF Iterates
  <2> QED
    BY <1>6, <2>1, <2>3
<1>10. Solves(N)
  BY <1>9, Zenon DEF N
<1>11. Unfolds(N, L, V, base, step)
  <2>1. N = [i \in 0..L |-> IF i = 0 THEN base ELSE N[i - 1] \o piece(i)]
    BY <1>6, <1>10
  <2>2. N = [i \in 0..L |-> N[i]]
    BY <2>1
  <2>3. \A i \in 0..L : N[i] = IF i = 0 THEN base ELSE N[i - 1] \o piece(i)
    BY <2>1
  <2>4. \A i \in 1..L : i \in 0..L /\ i # 0
    BY <1>1
  <2>5. N[0] = base
    BY <1>1, <2>3
  <2>6. \A i \in 1..L : N[i - 1] \in V => N[i] = step[i][N[i - 1]]
    BY <1>4, <2>3, <2>4
  <2> QED
    BY <2>2, <2>5, <2>6 DEF Unfolds
<1>12. N \in [0..L -> V] /\ Iterates(N, L, base, step)
  BY <1>1, <1>7, <1>11, IterationUnfolded
<1>13. \A i \in 1..L : N[i - 1] \in V
  BY <1>1, <1>12
<1>14. N[0] = <<>> /\ \A i \in 1..L : N[i] = N[i - 1] \o piece(i)
  BY <1>1, <1>4, <1>12, <1>13 DEF Iterates
<1> QED
  BY <1>3, <1>12, <1>14 DEF L, V, piece

(* Strings encodes its values as the fields 1, 2, and so on.               *)
LEMMA EncodesStrings ==
  ASSUME NEW values \in Seq(Seq(Byte))
  PROVE  Encodes(Strings(values), StringFields(values))
<1> DEFINE L == Len(values)
           fs(n) == [i \in 1..n |-> [field |-> i, value |-> values[i]]]
<1>1. L \in Nat /\ \A i \in 1..L : i \in Nat /\ values[i] \in Seq(Byte)
  OBVIOUS
<1>2. PICK up \in [0..L -> Seq(Byte)] :
        /\ up[0] = <<>> /\ Strings(values) = up[L]
        /\ \A i \in 1..L : up[i] = up[i - 1] \o EncodeBytes(i, values[i])
  BY StringsSolved
<1> DEFINE S == {n \in Nat : n <= L => Encodes(up[n], fs(n))}
<1>3. 0 \in S
  <2>1. fs(0) = <<>>
    OBVIOUS
  <2> QED
    BY <1>2, <2>1, EncodesNothing
<1>4. ASSUME NEW n \in Nat, n \in S
      PROVE  n + 1 \in S
  <2> SUFFICES ASSUME n + 1 <= L
               PROVE  Encodes(up[n + 1], fs(n + 1))
    OBVIOUS
  <2>1. n + 1 \in 1..L /\ (n + 1) - 1 = n /\ n <= L /\ n + 1 \in Nat
    BY <1>1
  <2>2. Encodes(up[n], fs(n))
    BY <1>4, <2>1
  <2>3. Encodes(EncodeBytes(n + 1, values[n + 1]), One(n + 1, values[n + 1]))
    BY <1>1, <2>1, EncodesBytes
  <2>4. up[n + 1] = up[n] \o EncodeBytes(n + 1, values[n + 1])
    BY <1>2, <2>1
  <2>5. fs(n + 1) = fs(n) \o One(n + 1, values[n + 1])
    <3> DEFINE one == [field |-> n + 1, value |-> values[n + 1]]
    <3>1. fs(n) \in Seq(FieldRecord) /\ Len(fs(n)) = n /\ one \in FieldRecord
      <4>1. fs(n) \in Seq(FieldRecord)
        BY <2>2 DEF Encodes
      <4>2. One(n + 1, values[n + 1])[1] \in FieldRecord
        BY <2>3 DEF Encodes, One
      <4> QED
        BY <4>1, <4>2 DEF One
    <3>2. \A i \in 1..n : fs(n + 1)[i] = fs(n)[i]
      OBVIOUS
    <3>3. fs(n + 1)[n + 1] = one
      OBVIOUS
    <3>4. fs(n + 1) = [i \in 1..n + 1 |-> fs(n + 1)[i]]
      OBVIOUS
    <3> HIDE DEF fs, one
    <3>5. fs(n) \o <<one>> = [i \in 1..n + 1 |-> (fs(n) \o <<one>>)[i]]
      BY <3>1
    <3>6. \A i \in 1..n + 1 : (fs(n) \o <<one>>)[i] = fs(n + 1)[i]
      BY <3>1, <3>2, <3>3
    <3> QED
      BY <3>4, <3>5, <3>6 DEF One, one
  <2> HIDE DEF fs
  <2> QED
    BY <2>2, <2>3, <2>4, <2>5, EncodesConcat
<1> HIDE DEF S
<1>5. \A n \in Nat : n \in S
  BY <1>3, <1>4, InductionBySet
<1>6. Encodes(up[L], fs(L))
  BY <1>1, <1>5 DEF S
<1> QED
  BY <1>2, <1>6 DEF StringFields

-----------------------------------------------------------------------------
(* The value of a field, by its number.                                    *)

(* An element that no other exceeds is the maximum.                        *)
LEMMA MaxOf ==
  ASSUME NEW S \in SUBSET Int, NEW m \in S, \A n \in S : m >= n
  PROVE  Max(S) = m
<1>1. \A k \in S : (\A n \in S : k >= n) => k = m
  OBVIOUS
<1> QED
  BY <1>1 DEF Max

(* The value of a field whose number occurs once.                          *)
LEMMA ValueOfOnly ==
  ASSUME NEW fields \in Seq(FieldRecord), NEW i \in 1..Len(fields), NEW n,
         \A j \in 1..Len(fields) : fields[j].field = n <=> j = i
  PROVE  ValueOf(fields, n) = fields[i].value
<1>1. Numbered(fields, n) = {i}
  BY DEF Numbered
<1>2. Max({i}) = i
  <2> DEFINE S == {i}
  <2>1. S \in SUBSET Int /\ i \in S /\ \A j \in S : i >= j
    OBVIOUS
  <2> HIDE DEF S
  <2>2. Max(S) = i
    BY <2>1, MaxOf
  <2> QED
    BY <2>2 DEF S
<1> QED
  BY <1>1, <1>2 DEF ValueOf

(* The values of the fields 1, 2, and so on.                               *)
LEMMA StringOf ==
  ASSUME NEW values \in Seq(Seq(Byte)), NEW n \in 1..Len(values)
  PROVE  ValueOf(StringFields(values), n) = values[n]
<1> DEFINE fs == StringFields(values)
<1>1. fs \in Seq(FieldRecord)
  BY EncodesStrings DEF Encodes
<1>2. Len(fs) = Len(values) /\ \A i \in 1..Len(values) : fs[i].field = i /\ fs[i].value = values[i]
  BY DEF StringFields
<1> HIDE DEF fs
<1>3. n \in 1..Len(fs) /\ fs[n].value = values[n] /\ \A j \in 1..Len(fs) : fs[j].field = n <=> j = n
  BY <1>2
<1>4. ValueOf(fs, n) = fs[n].value
  BY <1>1, <1>3, ValueOfOnly
<1> QED
  BY <1>3, <1>4 DEF fs

(* The last field with a number counts.                                    *)
LEMMA ValueOfLast ==
  ASSUME NEW fields \in Seq(FieldRecord), NEW k \in Nat, NEW v \in Seq(Nat), NEW n
  PROVE  ValueOf(fields \o One(k, v), n) = IF n = k THEN v ELSE ValueOf(fields, n)
<1> DEFINE L == Len(fields)
           one == [field |-> k, value |-> v]
           more == fields \o <<one>>
<1>1. L \in Nat /\ one \in FieldRecord
  BY DEF FieldRecord
<1> HIDE DEF one
<1>2. more \in Seq(FieldRecord) /\ Len(more) = L + 1 /\ more[L + 1] = one
  BY <1>1
<1>3. \A i \in 1..L : more[i] = fields[i]
  BY <1>1
<1>4. DOMAIN more = 1..L + 1 /\ DOMAIN fields = 1..L
  BY <1>1, <1>2
<1> HIDE DEF more, L
<1>5. one.field = k /\ one.value = v
  BY DEF one
<1>6. CASE n = k
  <2>1. L + 1 \in Numbered(more, n) /\ Numbered(more, n) \subseteq 1..L + 1
    BY <1>1, <1>2, <1>4, <1>5, <1>6 DEF Numbered
  <2>2. Max(Numbered(more, n)) = L + 1
    BY <1>1, <2>1, MaxOf
  <2>3. ValueOf(more, n) = v
    BY <1>2, <1>5, <2>1, <2>2 DEF ValueOf
  <2> QED
    BY <1>6, <2>3 DEF more, One, one
<1>7. CASE n # k
  <2>1. Numbered(more, n) = Numbered(fields, n) /\ Numbered(fields, n) \subseteq 1..L
    BY <1>1, <1>2, <1>3, <1>4, <1>5, <1>7 DEF Numbered
  <2>2. Numbered(fields, n) # {} => Max(Numbered(fields, n)) \in 1..L
    <3> DEFINE S == Numbered(fields, n)
    <3> SUFFICES ASSUME S # {}
                 PROVE  Max(S) \in S
      BY <2>1
    <3>1. 1..L \in SUBSET Nat /\ IsFiniteSet(1..L) /\ S \in SUBSET (1..L)
      BY <1>1, <2>1, FS_Interval
    <3> HIDE DEF S
    <3>2. PICK m \in S : \A j \in S : m >= j
      BY <3>1, GreatestOfFinite
    <3> QED
      BY <3>1, <3>2, MaxOf
  <2>3. ValueOf(more, n) = ValueOf(fields, n)
    BY <1>3, <2>1, <2>2 DEF ValueOf
  <2> QED
    BY <1>7, <2>3 DEF more, One, one
<1> QED
  BY <1>6, <1>7

(* The value of the only field.                                            *)
LEMMA ValueOfFirst ==
  ASSUME NEW k \in Nat, NEW v \in Seq(Nat)
  PROVE  ValueOf(One(k, v), k) = v
<1>1. <<>> \in Seq(FieldRecord) /\ One(k, v) = <<>> \o One(k, v)
  <2>1. [field |-> k, value |-> v] \in FieldRecord
    BY DEF FieldRecord
  <2> QED
    BY <2>1 DEF One
<1>2. ValueOf(<<>> \o One(k, v), k) = v
  BY <1>1, ValueOfLast
<1> QED
  BY <1>1, <1>2

-----------------------------------------------------------------------------
(* What the node reads out of the messages of a transaction.               *)

Bytes == Seq(Byte)

(* Bytes are sequences of numbers.                                         *)
LEMMA BytesAreNumbers ==
  Bytes \subseteq Seq(Nat)
<1>1. Byte \subseteq Nat
  BY DEF Byte
<1> QED
  BY <1>1, SeqMonotonic DEF Bytes

(* The node reads the values of Strings back.                              *)
THEOREM StringsFields ==
  ASSUME NEW values \in Seq(Bytes)
  PROVE  /\ Strings(values) \in Bytes
         /\ Fields(Strings(values)) = StringFields(values)
         /\ \A n \in 1..Len(values) : Field(Strings(values), n) = values[n]
<1>1. Encodes(Strings(values), StringFields(values))
  BY EncodesStrings DEF Bytes
<1>2. Fields(Strings(values)) = StringFields(values)
  BY <1>1, FieldsRead
<1>3. \A n \in 1..Len(values) : Field(Strings(values), n) = values[n]
  BY <1>2, StringOf DEF Field, Bytes
<1> QED
  BY <1>1, <1>2, <1>3 DEF Encodes, Bytes

(* The same for two values.                                                *)
LEMMA PairFields ==
  ASSUME NEW a \in Bytes, NEW b \in Bytes
  PROVE  /\ Strings(<<a, b>>) \in Bytes
         /\ Field(Strings(<<a, b>>), 1) = a /\ Field(Strings(<<a, b>>), 2) = b
<1> DEFINE values == <<a, b>>
<1>1. values \in Seq(Bytes) /\ Len(values) = 2 /\ values[1] = a /\ values[2] = b
  OBVIOUS
<1> HIDE DEF values
<1>2. 1 \in 1..Len(values) /\ 2 \in 1..Len(values)
  BY <1>1
<1>3. /\ Strings(values) \in Bytes
      /\ Field(Strings(values), 1) = a /\ Field(Strings(values), 2) = b
  BY <1>1, <1>2, StringsFields
<1> QED
  BY <1>3 DEF values

(* The node reads the type URL and the payload of AnyMessage.              *)
LEMMA AnyFields ==
  ASSUME NEW url \in Bytes, NEW payload \in Bytes
  PROVE  /\ AnyMessage(url, payload) \in Bytes
         /\ Field(AnyMessage(url, payload), 1) = url /\ Field(AnyMessage(url, payload), 2) = payload
BY PairFields DEF AnyMessage

(* The node reads the value of a field of bytes.                           *)
LEMMA BytesField ==
  ASSUME NEW k \in Nat, NEW v \in Bytes
  PROVE  /\ EncodeBytes(k, v) \in Bytes /\ Encodes(EncodeBytes(k, v), One(k, v))
         /\ Field(EncodeBytes(k, v), k) = v
<1>1. Encodes(EncodeBytes(k, v), One(k, v))
  BY EncodesBytes DEF Bytes
<1>2. Fields(EncodeBytes(k, v)) = One(k, v) /\ EncodeBytes(k, v) \in Bytes
  BY <1>1, FieldsRead DEF Encodes, Bytes
<1>3. v \in Seq(Nat)
  BY BytesAreNumbers
<1> QED
  BY <1>1, <1>2, <1>3, ValueOfFirst DEF Field

(* The encoding of a numbered field with a number in it.                   *)
LEMMA NumberField ==
  ASSUME NEW k \in Nat, NEW v \in Nat
  PROVE  EncodeUint64(k, v) \in Bytes /\ Encodes(EncodeUint64(k, v), One(k, <<v>>)) /\ <<v>> \in Seq(Nat)
BY EncodesUint64 DEF Encodes, Bytes

(* A message and one more field.                                           *)
LEMMA OneMore ==
  ASSUME NEW b, NEW fs, Encodes(b, fs), NEW k \in Nat, NEW v \in Seq(Nat), NEW c, Encodes(c, One(k, v))
  PROVE  /\ Encodes(b \o c, fs \o One(k, v))
         /\ \A n : ValueOf(fs \o One(k, v), n) = IF n = k THEN v ELSE ValueOf(fs, n)
<1>1. fs \in Seq(FieldRecord)
  BY DEF Encodes
<1> QED
  BY <1>1, EncodesConcat, ValueOfLast

(* The node reads the key and the sequence of SignerInfo.                  *)
LEMMA SignerInfoFields ==
  ASSUME NEW url \in Bytes, NEW key \in Bytes, NEW sequence \in Nat
  PROVE  /\ SignerInfo(url, key, sequence) \in Bytes
         /\ Field(Field(Field(SignerInfo(url, key, sequence), 1), 2), 1) = key
         /\ Field(SignerInfo(url, key, sequence), 3) = <<sequence>>
<1> DEFINE p == PubKeyAny(url, key)
           a == EncodeBytes(1, p)
           m == EncodeBytes(2, ModeInfo)
           s == EncodeUint64(3, sequence)
           q == <<sequence>>
           two == One(1, p) \o One(2, ModeInfo)
           fs == two \o One(3, q)
<1>1. EncodeBytes(1, key) \in Bytes /\ Field(EncodeBytes(1, key), 1) = key
  BY BytesField
<1>2. p \in Bytes /\ Field(p, 2) = EncodeBytes(1, key)
  BY <1>1, AnyFields DEF PubKeyAny
<1>3. ModeInfo \in Bytes
  <2>1. EncodeUint64(1, 1) \in Bytes
    BY NumberField
  <2> QED
    BY <2>1, BytesField DEF ModeInfo
<1> HIDE DEF p
<1>4. Encodes(a, One(1, p)) /\ Encodes(m, One(2, ModeInfo)) /\ Encodes(s, One(3, q))
  BY <1>2, <1>3, BytesField, NumberField
<1>5. p \in Seq(Nat) /\ ModeInfo \in Seq(Nat) /\ q \in Seq(Nat)
  BY <1>2, <1>3, BytesAreNumbers
<1> HIDE DEF a, m, s, q
<1>6. ValueOf(One(1, p), 1) = p
  BY <1>5, ValueOfFirst
<1>7. Encodes(a \o m, two) /\ ValueOf(two, 1) = p
  BY <1>4, <1>5, <1>6, OneMore
<1> HIDE DEF two
<1>8. Encodes((a \o m) \o s, fs) /\ ValueOf(fs, 1) = p /\ ValueOf(fs, 3) = q
  BY <1>4, <1>5, <1>7, OneMore
<1>9. SignerInfo(url, key, sequence) = (a \o m) \o s
  BY DEF SignerInfo, a, m, s, p
<1> HIDE DEF fs
<1>10. Fields(SignerInfo(url, key, sequence)) = fs /\ SignerInfo(url, key, sequence) \in Bytes
  BY <1>8, <1>9, FieldsRead DEF Encodes, Bytes
<1> QED
  BY <1>1, <1>2, <1>8, <1>10 DEF Field, q

(* The node reads the token, the amount and the gas of Fee.                *)
LEMMA FeeFields ==
  ASSUME NEW denom \in Bytes, NEW amount \in Bytes, NEW gas \in Nat
  PROVE  /\ Fee(denom, amount, gas) \in Bytes
         /\ Field(Field(Fee(denom, amount, gas), 1), 1) = denom
         /\ Field(Field(Fee(denom, amount, gas), 1), 2) = amount
         /\ Field(Fee(denom, amount, gas), 2) = <<gas>>
<1> DEFINE p == Strings(<<denom, amount>>)
           a == EncodeBytes(1, p)
           s == EncodeUint64(2, gas)
           q == <<gas>>
           fs == One(1, p) \o One(2, q)
<1>1. p \in Bytes /\ Field(p, 1) = denom /\ Field(p, 2) = amount
  BY PairFields
<1> HIDE DEF p
<1>2. Encodes(a, One(1, p)) /\ Encodes(s, One(2, q))
  BY <1>1, BytesField, NumberField
<1>3. p \in Seq(Nat) /\ q \in Seq(Nat)
  BY <1>1, BytesAreNumbers
<1> HIDE DEF a, s, q
<1>4. ValueOf(One(1, p), 1) = p
  BY <1>3, ValueOfFirst
<1>5. Encodes(a \o s, fs) /\ ValueOf(fs, 1) = p /\ ValueOf(fs, 2) = q
  BY <1>2, <1>3, <1>4, OneMore
<1>6. Fee(denom, amount, gas) = a \o s
  BY DEF Fee, a, s, p
<1> HIDE DEF fs
<1>7. Fields(Fee(denom, amount, gas)) = fs /\ Fee(denom, amount, gas) \in Bytes
  BY <1>5, <1>6, FieldsRead DEF Encodes, Bytes
<1> QED
  BY <1>1, <1>5, <1>7 DEF Field, q

(* The node reads the two parts of AuthInfo.                               *)
LEMMA AuthInfoFields ==
  ASSUME NEW signer \in Bytes, NEW fee \in Bytes
  PROVE  /\ AuthInfo(signer, fee) \in Bytes
         /\ Field(AuthInfo(signer, fee), 1) = signer /\ Field(AuthInfo(signer, fee), 2) = fee
<1> DEFINE a == EncodeBytes(1, signer)
           s == EncodeBytes(2, fee)
           fs == One(1, signer) \o One(2, fee)
<1>1. Encodes(a, One(1, signer)) /\ Encodes(s, One(2, fee))
  BY BytesField
<1>2. signer \in Seq(Nat) /\ fee \in Seq(Nat)
  BY BytesAreNumbers
<1> HIDE DEF a, s
<1>3. ValueOf(One(1, signer), 1) = signer
  BY <1>2, ValueOfFirst
<1>4. Encodes(a \o s, fs) /\ ValueOf(fs, 1) = signer /\ ValueOf(fs, 2) = fee
  BY <1>1, <1>2, <1>3, OneMore
<1>5. AuthInfo(signer, fee) = a \o s
  BY DEF AuthInfo, a, s
<1> HIDE DEF fs
<1>6. Fields(AuthInfo(signer, fee)) = fs /\ AuthInfo(signer, fee) \in Bytes
  BY <1>4, <1>5, FieldsRead DEF Encodes, Bytes
<1> QED
  BY <1>4, <1>6 DEF Field

(* The node reads the message of TxBody, whatever the memo is.             *)
LEMMA TxBodyFields ==
  ASSUME NEW message \in Bytes, NEW memo \in Bytes
  PROVE  TxBody(message, memo) \in Bytes /\ Field(TxBody(message, memo), 1) = message
<1> DEFINE a == EncodeBytes(1, message)
           s == EncodeBytes(2, memo)
           fs == One(1, message) \o One(2, memo)
           b == TxBody(message, memo)
<1>1. Encodes(a, One(1, message)) /\ Encodes(s, One(2, memo)) /\ a \in Bytes
  BY BytesField
<1>2. message \in Seq(Nat) /\ memo \in Seq(Nat)
  BY BytesAreNumbers
<1>3. b = IF memo = <<>> THEN a \o <<>> ELSE a \o s
  BY DEF TxBody
<1> HIDE DEF a, s, b
<1>4. ValueOf(One(1, message), 1) = message
  BY <1>2, ValueOfFirst
<1>5. Encodes(a \o s, fs) /\ ValueOf(fs, 1) = message
  BY <1>1, <1>2, <1>4, OneMore
<1>6. a \o <<>> = a
  BY <1>1 DEF Bytes
<1> HIDE DEF fs
<1>7. PICK gs : Encodes(b, gs) /\ ValueOf(gs, 1) = message
  BY <1>1, <1>3, <1>4, <1>5, <1>6
<1>8. Fields(b) = gs /\ b \in Bytes
  BY <1>7, FieldsRead DEF Encodes, Bytes
<1> QED
  BY <1>7, <1>8 DEF Field, b

(* The four fields of a document that is signed.                           *)
HasFields(document, body, auth, chain, number) ==
  /\ Len(Fields(document)) = 4
  /\ Field(document, 1) = body /\ Field(document, 2) = auth
  /\ Field(document, 3) = chain /\ Field(document, 4) = <<number>>

(* The node reads the four fields of SignDoc.                              *)
LEMMA SignDocFields ==
  ASSUME NEW body \in Bytes, NEW auth \in Bytes, NEW chain \in Bytes, NEW number \in Nat
  PROVE  /\ SignDoc(body, auth, chain, number) \in Bytes
         /\ HasFields(SignDoc(body, auth, chain, number), body, auth, chain, number)
<1> DEFINE values == <<body, auth, chain>>
           a == Strings(values)
           gs == StringFields(values)
           s == EncodeUint64(4, number)
           q == <<number>>
           fs == gs \o One(4, q)
           document == SignDoc(body, auth, chain, number)
<1>1. /\ values \in Seq(Bytes) /\ Len(values) = 3
      /\ values[1] = body /\ values[2] = auth /\ values[3] = chain
  OBVIOUS
<1>2. document = a \o s
  BY DEF SignDoc
<1> HIDE DEF values, document
<1>3. Encodes(a, gs)
  BY <1>1, EncodesStrings DEF Bytes
<1>4. Encodes(s, One(4, q)) /\ q \in Seq(Nat)
  BY NumberField
<1>5. ValueOf(gs, 1) = body /\ ValueOf(gs, 2) = auth /\ ValueOf(gs, 3) = chain
  <2>1. 1 \in 1..Len(values) /\ 2 \in 1..Len(values) /\ 3 \in 1..Len(values)
    BY <1>1
  <2> QED
    BY <1>1, <2>1, StringOf DEF Bytes
<1>6. Len(gs) = 3 /\ gs \in Seq(FieldRecord)
  BY <1>1, <1>3 DEF StringFields, Encodes
<1> HIDE DEF a, gs, s, q
<1>7. /\ Encodes(a \o s, fs)
      /\ \A n : ValueOf(fs, n) = IF n = 4 THEN q ELSE ValueOf(gs, n)
  BY <1>3, <1>4, OneMore
<1>8. Len(fs) = 4
  <2>1. One(4, q) \in Seq(FieldRecord)
    BY <1>4 DEF Encodes
  <2>2. Len(One(4, q)) = 1
    BY DEF One
  <2>3. Len(fs) = Len(gs) + Len(One(4, q))
    <3> DEFINE one == One(4, q)
               R == FieldRecord
    <3>1. gs \in Seq(R) /\ one \in Seq(R)
      BY <1>6, <2>1
    <3> HIDE DEF one, R
    <3>2. Len(gs \o one) = Len(gs) + Len(one)
      BY <3>1
    <3> QED
      BY <3>2 DEF one
  <2> DEFINE m == Len(gs)
             n == Len(One(4, q))
  <2>4. m = 3 /\ n = 1 /\ Len(fs) = m + n
    BY <1>6, <2>2, <2>3
  <2> HIDE DEF fs, m, n
  <2> QED
    BY <2>4
<1> HIDE DEF fs
<1>9. Fields(document) = fs /\ document \in Bytes
  BY <1>2, <1>7, FieldsRead DEF Encodes, Bytes
<1>10. /\ Field(document, 1) = body /\ Field(document, 2) = auth
       /\ Field(document, 3) = chain /\ Field(document, 4) = q
  BY <1>5, <1>7, <1>9 DEF Field
<1> QED
  BY <1>8, <1>9, <1>10 DEF document, q, HasFields

(* The node reads the three parts of TxRaw.                                *)
LEMMA TxRawFields ==
  ASSUME NEW body \in Bytes, NEW auth \in Bytes, NEW signature \in Bytes
  PROVE  LET raw == TxRaw(body, auth, signature)
         IN /\ raw \in Bytes
            /\ Field(raw, 1) = body /\ Field(raw, 2) = auth /\ Field(raw, 3) = signature
<1> DEFINE values == <<body, auth, signature>>
<1>1. /\ values \in Seq(Bytes) /\ Len(values) = 3
      /\ values[1] = body /\ values[2] = auth /\ values[3] = signature
  OBVIOUS
<1> HIDE DEF values
<1>2. 1 \in 1..Len(values) /\ 2 \in 1..Len(values) /\ 3 \in 1..Len(values)
  BY <1>1
<1>3. /\ Strings(values) \in Bytes
      /\ Field(Strings(values), 1) = body /\ Field(Strings(values), 2) = auth
      /\ Field(Strings(values), 3) = signature
  BY <1>1, <1>2, StringsFields
<1> QED
  BY <1>3 DEF values, TxRaw

(* The signature splits into the key and the document again.               *)
LEMMA SignSplits ==
  ASSUME NEW key \in Bytes, NEW document \in Bytes
  PROVE  LET signature == Sign(key, document)
         IN /\ signature \in Bytes
            /\ SubSeq(signature, 1, Len(key)) = key
            /\ SubSeq(signature, Len(key) + 1, Len(signature)) = document
<1> DEFINE s == key \o document
<1>1. s \in Seq(Byte) /\ key \in Seq(Byte) /\ document \in Seq(Byte)
  BY DEF Bytes
<1>2. Len(key) \in Nat /\ Len(document) \in Nat /\ Len(s) = Len(key) + Len(document)
  BY <1>1
<1>3. Occurs(s, s, 1)
  <2>1. \A i \in 1..Len(s) : 1 + i - 1 = i
    BY <1>1
  <2>2. 1 + Len(s) <= Len(s) + 1
    BY <1>2
  <2> HIDE DEF s
  <2> QED
    BY <2>1, <2>2 DEF Occurs
<1>4. Occurs(key, s, 1) /\ Occurs(document, s, 1 + Len(key))
  <2>1. 1 \in Nat \ {0} /\ Occurs(key \o document, s, 1)
    BY <1>3
  <2> HIDE DEF s
  <2> QED
    BY <1>1, <2>1, OccursConcat
<1>5. SubSeq(s, 1, 1 + Len(key) - 1) = key
  <2>1. 1 \in Nat \ {0}
    OBVIOUS
  <2> HIDE DEF s
  <2> QED
    BY <1>1, <1>4, <2>1, OccursSubSeq
<1> DEFINE p == 1 + Len(key)
<1>6. SubSeq(s, p, p + Len(document) - 1) = document
  <2>1. p \in Nat \ {0} /\ Occurs(document, s, p)
    BY <1>2, <1>4
  <2> HIDE DEF s, p
  <2> QED
    BY <1>1, <2>1, OccursSubSeq
<1>7. /\ 1 + Len(key) - 1 = Len(key) /\ p = Len(key) + 1
      /\ p + Len(document) - 1 = Len(s)
  BY <1>2
<1> QED
  BY <1>1, <1>5, <1>6, <1>7 DEF Sign, Bytes

-----------------------------------------------------------------------------
(* Addresses.                                                              *)

(* Powers of two.                                                          *)
LEMMA TwoToPowers ==
  /\ TwoTo[0] = 1
  /\ \A n \in Nat : TwoTo[n + 1] = 2 * TwoTo[n] /\ TwoTo[n] \in Nat \ {0}
  /\ \A m, n \in Nat : TwoTo[m + n] = TwoTo[m] * TwoTo[n]
<1>1. \E t : t = [n \in Nat |-> IF n = 0 THEN 1 ELSE 2 * t[n - 1]]
  BY PowersExist
<1>2. TwoTo = [n \in Nat |-> IF n = 0 THEN 1 ELSE 2 * TwoTo[n - 1]]
  BY <1>1, Zenon DEF TwoTo
<1> DEFINE t == TwoTo
           b == 2
<1>3. b \in Nat \ {0} /\ t = [n \in Nat |-> IF n = 0 THEN 1 ELSE b * t[n - 1]]
  BY <1>2
<1> HIDE DEF t, b
<1>4. /\ t[0] = 1
      /\ \A n \in Nat : t[n + 1] = b * t[n] /\ t[n] \in Nat \ {0}
      /\ \A m, n \in Nat : t[m + n] = t[m] * t[n]
  BY <1>3, PowersGrow
<1> QED
  BY <1>4 DEF t, b

(* The powers of two that a group and a byte need.                         *)
LEMMA TwoToSmall ==
  /\ TwoTo[0] = 1 /\ TwoTo[1] = 2 /\ TwoTo[2] = 4 /\ TwoTo[3] = 8 /\ TwoTo[4] = 16
  /\ TwoTo[5] = 32 /\ TwoTo[6] = 64 /\ TwoTo[7] = 128
  /\ \A n \in Nat : n >= 5 => TwoTo[n] \in Nat /\ TwoTo[n] >= 32
<1>1. TwoTo[0] = 1 /\ \A n \in Nat : TwoTo[n + 1] = 2 * TwoTo[n]
  BY TwoToPowers
<1>2. TwoTo[1] = 2 /\ TwoTo[2] = 4 /\ TwoTo[3] = 8 /\ TwoTo[4] = 16
  <2>1. TwoTo[0 + 1] = 2 * TwoTo[0] /\ TwoTo[1 + 1] = 2 * TwoTo[1]
    BY <1>1
  <2>2. TwoTo[2 + 1] = 2 * TwoTo[2] /\ TwoTo[3 + 1] = 2 * TwoTo[3]
    BY <1>1
  <2> QED
    BY <1>1, <2>1, <2>2
<1>3. TwoTo[5] = 32 /\ TwoTo[6] = 64 /\ TwoTo[7] = 128
  <2>1. TwoTo[4 + 1] = 2 * TwoTo[4] /\ TwoTo[5 + 1] = 2 * TwoTo[5] /\ TwoTo[6 + 1] = 2 * TwoTo[6]
    BY <1>1
  <2> QED
    BY <1>2, <2>1
<1>4. ASSUME NEW n \in Nat, n >= 5
      PROVE  TwoTo[n] \in Nat /\ TwoTo[n] >= 32
  <2>1. n - 5 \in Nat /\ 5 + (n - 5) = n
    BY <1>4
  <2>2. TwoTo[n - 5] \in Nat \ {0} /\ TwoTo[n] = TwoTo[5] * TwoTo[n - 5]
    BY <2>1, TwoToPowers
  <2> DEFINE u == TwoTo[n - 5]
  <2>3. u \in Nat /\ u >= 1 /\ TwoTo[n] = 32 * u
    BY <1>3, <2>2
  <2> HIDE DEF u
  <2> QED
    BY <2>3
<1> QED
  BY <1>1, <1>2, <1>3, <1>4

-----------------------------------------------------------------------------
(* The checksum.                                                           *)

(* A bit of a sum is a bit of one of the two.                              *)
LEMMA XorMember ==
  ASSUME NEW a, NEW b
  PROVE  \A x : x \in Xor(a, b) <=> ~(x \in a <=> x \in b)
BY DEF Xor

(* Sums of checksums can be regrouped.                                     *)
LEMMA XorAssociative ==
  ASSUME NEW a, NEW b, NEW c
  PROVE  Xor(a, Xor(b, c)) = Xor(Xor(a, b), c)
BY DEF Xor

(* What is added twice is gone.                                            *)
LEMMA XorTwice ==
  ASSUME NEW a, NEW b
  PROVE  Xor(a, Xor(a, b)) = b
BY DEF Xor

(* Bits are among the thirty of a checksum.                                *)
LEMMA BitsType ==
  \A v : Bits(v) \in SUBSET (0..29)
BY DEF Bits

(* Zero has no bits.                                                       *)
LEMMA BitsZero ==
  Bits(0) = {}
<1>1. \A i \in 0..29 : TwoTo[i] \in Nat \ {0}
  <2>1. \A i \in 0..29 : i \in Nat
    OBVIOUS
  <2> QED
    BY <2>1, TwoToPowers
<1>2. \A d \in Nat \ {0} : (0 \div d) % 2 # 1
  OBVIOUS
<1> QED
  BY <1>1, <1>2 DEF Bits

(* The bits of a group and its value.                                      *)
IsSum(v, a, b, c, d, e) == v = 16 * a + 8 * b + 4 * c + 2 * d + e

(* The five bits of a group are those it was put together from.            *)
LEMMA SumOfBits ==
  ASSUME NEW a \in 0..1, NEW b \in 0..1, NEW c \in 0..1, NEW d \in 0..1, NEW e \in 0..1, NEW v,
         IsSum(v, a, b, c, d, e)
  PROVE  /\ v \in 0..31
         /\ (v \div 1) % 2 = e /\ (v \div 2) % 2 = d /\ (v \div 4) % 2 = c
         /\ (v \div 8) % 2 = b /\ (v \div 16) % 2 = a
<1> USE DEF IsSum
<1>1. v \in Int /\ v \in 0..31
  OBVIOUS
<1>2. (v \div 1) % 2 = e
  <2>1. v = 2 * (8 * a + 4 * b + 2 * c + d) + e
    OBVIOUS
  <2> QED
    BY <1>1, <2>1
<1>3. (v \div 2) % 2 = d
  BY <1>1
<1>4. (v \div 4) % 2 = c
  BY <1>1
<1>5. (v \div 8) % 2 = b
  BY <1>1
<1>6. (v \div 16) % 2 = a
  BY <1>1
<1> QED
  BY <1>1, <1>2, <1>3, <1>4, <1>5, <1>6

(* The bits of a group are those of the checksum it was taken from.        *)
LEMMA BitsOfGroup ==
  ASSUME NEW c, NEW low \in Nat
  PROVE  Bits(Group(c, low)) = {i \in 0..4 : low + i \in c}
<1> DEFINE b(i) == Bit(c, low + i)
           v == Group(c, low)
<1>1. \A i \in 0..4 : b(i) \in 0..1 /\ (b(i) = 1 <=> low + i \in c)
  BY DEF Bit
<1>2. IsSum(v, b(4), b(3), b(2), b(1), b(0))
  <2>1. low + 0 = low
    OBVIOUS
  <2> QED
    BY <2>1 DEF Group, IsSum
<1>3. /\ b(0) \in 0..1 /\ b(1) \in 0..1 /\ b(2) \in 0..1 /\ b(3) \in 0..1 /\ b(4) \in 0..1
  BY <1>1
<1> HIDE DEF b, v
<1>4. v \in 0..31
  BY <1>2, <1>3, SumOfBits
<1>5. /\ (v \div 1) % 2 = b(0) /\ (v \div 2) % 2 = b(1) /\ (v \div 4) % 2 = b(2)
      /\ (v \div 8) % 2 = b(3) /\ (v \div 16) % 2 = b(4)
  BY <1>2, <1>3, SumOfBits
<1>6. \A i \in 0..4 : (v \div TwoTo[i]) % 2 = b(i)
  BY <1>5, TwoToSmall
<1>7. ASSUME NEW i \in 0..29, i \notin 0..4
      PROVE  (v \div TwoTo[i]) % 2 # 1
  <2> DEFINE t == TwoTo[i]
  <2>1. t \in Nat /\ t >= 32
    BY <1>7, TwoToSmall
  <2> HIDE DEF t
  <2>2. v \div t = 0
    BY <1>4, <2>1
  <2> QED
    BY <2>2 DEF t
<1>8. Bits(v) = {i \in 0..29 : (v \div TwoTo[i]) % 2 = 1}
  BY DEF Bits
<1>9. Bits(v) = {i \in 0..4 : b(i) = 1}
  <2>1. \A i \in 0..4 : i \in 0..29
    OBVIOUS
  <2> QED
    BY <1>6, <1>7, <1>8, <2>1
<1> QED
  BY <1>1, <1>9 DEF v

(* A checksum one group on, and the generator that bit i selects.          *)
Moved(c) == {i + 5 : i \in c \cap 0..24}
Selected(c, i) == IF 24 + i \in c THEN Generator[i] ELSE {}

(* PolymodStep with names for its parts.                                   *)
LEMMA StepUnfolded ==
  ASSUME NEW c, NEW v
  PROVE  PolymodStep(c, v) =
           Xor(Selected(c, 1), Xor(Selected(c, 2), Xor(Selected(c, 3), Xor(Selected(c, 4),
             Xor(Selected(c, 5), Xor(Moved(c), Bits(v)))))))
BY DEF PolymodStep, Selected, Moved

(* Generators are checksums.                                               *)
LEMMA SelectedType ==
  ASSUME NEW c, NEW i \in 1..5
  PROVE  Selected(c, i) \in SUBSET (0..29)
<1>1. Generator[i] \in SUBSET (0..29)
  BY BitsType DEF Generator
<1> QED
  BY <1>1 DEF Selected

(* A sum has no bits that its parts have not.                              *)
LEMMA XorType ==
  ASSUME NEW S, NEW a \in SUBSET S, NEW b \in SUBSET S
  PROVE  Xor(a, b) \in SUBSET S
BY DEF Xor

(* A step leads to a checksum.                                             *)
LEMMA StepType ==
  ASSUME NEW c, NEW v
  PROVE  PolymodStep(c, v) \in SUBSET (0..29)
<1> DEFINE S == 0..29
<1>1. Moved(c) \in SUBSET S
  BY DEF Moved
<1>2. Bits(v) \in SUBSET S
  BY BitsType
<1>3. /\ Selected(c, 1) \in SUBSET S /\ Selected(c, 2) \in SUBSET S /\ Selected(c, 3) \in SUBSET S
      /\ Selected(c, 4) \in SUBSET S /\ Selected(c, 5) \in SUBSET S
  BY SelectedType
<1> HIDE DEF S
<1>4. Xor(Moved(c), Bits(v)) \in SUBSET S
  BY <1>1, <1>2, XorType
<1>5. Xor(Selected(c, 5), Xor(Moved(c), Bits(v))) \in SUBSET S
  BY <1>3, <1>4, XorType
<1>6. Xor(Selected(c, 4), Xor(Selected(c, 5), Xor(Moved(c), Bits(v)))) \in SUBSET S
  BY <1>3, <1>5, XorType
<1>7. Xor(Selected(c, 3), Xor(Selected(c, 4), Xor(Selected(c, 5), Xor(Moved(c), Bits(v))))) \in SUBSET S
  BY <1>3, <1>6, XorType
<1>8. Xor(Selected(c, 2), Xor(Selected(c, 3), Xor(Selected(c, 4), Xor(Selected(c, 5),
         Xor(Moved(c), Bits(v)))))) \in SUBSET S
  BY <1>3, <1>7, XorType
<1>9. PolymodStep(c, v) \in SUBSET S
  BY <1>3, <1>8, XorType, StepUnfolded
<1> QED
  BY <1>9 DEF S

(* Two checksums that differ in no bit that falls out differ, a step       *)
(* later, in the moved bits and in what was added to one of them only.     *)
LEMMA StepDiffers ==
  ASSUME NEW z, NEW d \in SUBSET (0..24), NEW v, Bits(v) \in SUBSET (0..4)
  PROVE  PolymodStep(Xor(z, d), v) = Xor(PolymodStep(z, 0), {i + 5 : i \in d} \cup Bits(v))
<1> DEFINE y == Xor(z, d)
           e == {i + 5 : i \in d} \cup Bits(v)
           X == Xor(Moved(y), Bits(v))
           Z == Xor(Moved(z), Bits(0))
<1>1. \A i \in 1..5 : Selected(y, i) = Selected(z, i)
  <2>1. \A i \in 1..5 : 24 + i \notin d
    OBVIOUS
  <2>2. \A i \in 1..5 : 24 + i \in y <=> 24 + i \in z
    BY <2>1, XorMember
  <2> QED
    BY <2>2 DEF Selected
<1>2. X = Xor(Z, e)
  <2>1. ASSUME NEW x
        PROVE  x \in X <=> x \in Xor(Z, e)
    <3>1. x \in Z <=> x \in Moved(z)
      BY BitsZero, XorMember
    <3>2. x \in Moved(y) <=> ~(x \in Moved(z) <=> x \in {i + 5 : i \in d})
      <4>1. \A i \in 0..24 : i \in y <=> ~(i \in z <=> i \in d)
        BY XorMember
      <4>2. x \in Moved(y) <=> \E i \in 0..24 : x = i + 5 /\ i \in y
        BY DEF Moved
      <4>3. x \in Moved(z) <=> \E i \in 0..24 : x = i + 5 /\ i \in z
        BY DEF Moved
      <4>4. x \in {i + 5 : i \in d} <=> \E i \in 0..24 : x = i + 5 /\ i \in d
        OBVIOUS
      <4>5. \A i, j \in 0..24 : i + 5 = j + 5 => i = j
        OBVIOUS
      <4> HIDE DEF y
      <4> QED
        BY <4>1, <4>2, <4>3, <4>4, <4>5
    <3>3. x \in Bits(v) => ~(x \in {i + 5 : i \in d})
      <4>1. x \in Bits(v) => x \in 0..4
        OBVIOUS
      <4>2. \A i \in d : i + 5 \notin 0..4
        OBVIOUS
      <4> QED
        BY <4>1, <4>2
    <3>4. x \in Xor(Z, e) <=> ~(x \in Z <=> x \in e)
      BY XorMember
    <3>5. x \in X <=> ~(x \in Moved(y) <=> x \in Bits(v))
      BY XorMember
    <3>6. x \in e <=> x \in {i + 5 : i \in d} \/ x \in Bits(v)
      OBVIOUS
    <3> HIDE DEF X, Z, e, y
    <3> QED
      BY <3>1, <3>2, <3>3, <3>4, <3>5, <3>6
  <2> QED
    BY <2>1
<1>3. PolymodStep(y, v) = Xor(Selected(z, 1), Xor(Selected(z, 2), Xor(Selected(z, 3),
                            Xor(Selected(z, 4), Xor(Selected(z, 5), X)))))
  BY <1>1, StepUnfolded
<1>4. PolymodStep(z, 0) = Xor(Selected(z, 1), Xor(Selected(z, 2), Xor(Selected(z, 3),
                            Xor(Selected(z, 4), Xor(Selected(z, 5), Z)))))
  BY StepUnfolded
<1> HIDE DEF y, e, X, Z
<1> QED
  BY <1>2, <1>3, <1>4, XorAssociative DEF y, e

(* All checksums.                                                          *)
Checksums == SUBSET (0..29)

(* Polymod is what an iteration over its values ends with.                 *)
LEMMA PolymodSolved ==
  ASSUME NEW values \in Seq(Int)
  PROVE  \E f \in [0..Len(values) -> Checksums] :
           /\ f[0] = Bits(1) /\ Polymod(values) = f[Len(values)]
           /\ \A i \in 1..Len(values) : f[i] = PolymodStep(f[i - 1], values[i])
<1> DEFINE L == Len(values)
           V == Checksums
           base == Bits(1)
           Next(i, c) == PolymodStep(c, values[i])
           step == [i \in 1..L |-> [c \in V |-> Next(i, c)]]
           Solves(f) == f = [i \in 0..Len(values) |->
                               IF i = 0 THEN Bits(1) ELSE PolymodStep(f[i - 1], values[i])]
           N == CHOOSE f : Solves(f)
<1>1. L \in Nat /\ base \in V
  BY BitsType DEF Checksums
<1>2. \A i \in 1..L : \A c \in V : Next(i, c) \in V
  BY StepType DEF Checksums
<1>3. Polymod(values) = N[L]
  BY DEF Polymod
<1>4. \A i \in 1..L : \A c \in V : step[i][c] = Next(i, c)
  OBVIOUS
<1>5. \A f : Solves(f) <=> f = [i \in 0..L |-> IF i = 0 THEN base ELSE Next(i, f[i - 1])]
  OBVIOUS
<1> HIDE DEF L, N, step, base, Next, Solves, V
<1>6. StepsWithin(step, L, V)
  BY <1>2, <1>4 DEF StepsWithin
<1>7. PICK f \in [0..L -> V] : Iterates(f, L, base, step)
  BY <1>1, <1>6, IterationSolved
<1>8. Solves(f)
  <2>1. f = [i \in 0..L |-> f[i]] /\ \A i \in 1..L : f[i - 1] \in V
    BY <1>1, <1>7
  <2>2. \A i \in 0..L : i # 0 => i \in 1..L
    BY <1>1
  <2>3. \A i \in 0..L : f[i] = IF i = 0 THEN base ELSE Next(i, f[i - 1])
    BY <1>4, <1>7, <2>1, <2>2 DEF Iterates
  <2> QED
    BY <1>5, <2>1, <2>3
<1>9. Solves(N)
  BY <1>8, Zenon DEF N
<1>10. Unfolds(N, L, V, base, step)
  <2>1. N = [i \in 0..L |-> IF i = 0 THEN base ELSE Next(i, N[i - 1])]
    BY <1>5, <1>9
  <2>2. N = [i \in 0..L |-> N[i]]
    BY <2>1
  <2>3. \A i \in 0..L : N[i] = IF i = 0 THEN base ELSE Next(i, N[i - 1])
    BY <2>1
  <2>4. \A i \in 1..L : i \in 0..L /\ i # 0
    BY <1>1
  <2>5. N[0] = base
    BY <1>1, <2>3
  <2>6. \A i \in 1..L : N[i - 1] \in V => N[i] = step[i][N[i - 1]]
    BY <1>4, <2>3, <2>4
  <2> QED
    BY <2>2, <2>5, <2>6 DEF Unfolds
<1>11. N \in [0..L -> V] /\ Iterates(N, L, base, step)
  BY <1>1, <1>6, <1>10, IterationUnfolded
<1>12. \A i \in 1..L : N[i - 1] \in V
  BY <1>1, <1>11
<1>13. N[0] = base /\ \A i \in 1..L : N[i] = Next(i, N[i - 1])
  BY <1>1, <1>4, <1>11, <1>12 DEF Iterates
<1> QED
  BY <1>3, <1>11, <1>13 DEF L, V, base, Next

(* The groups of the checksum, in place of the six zeros it was computed   *)
(* with, make the whole an address that the node's check lets pass.        *)
THEOREM ChecksumVerifies ==
  ASSUME NEW head \in Seq(Int), NEW p, p = Xor(Polymod(head \o [i \in 1..6 |-> 0]), Bits(1)),
         NEW sum, sum = [i \in 1..6 |-> Group(p, 5 * (6 - i))], sum \in Seq(Int)
  PROVE  Polymod(head \o sum) = Bits(1)
<1> DEFINE L == Len(head)
           zeros == [i \in 1..6 |-> 0]
           s == head \o zeros
           t == head \o sum
<1>1. L \in Nat /\ zeros \in Seq(Int) /\ Len(zeros) = 6 /\ Len(sum) = 6
  OBVIOUS
<1>2. s \in Seq(Int) /\ Len(s) = L + 6 /\ t \in Seq(Int) /\ Len(t) = L + 6
  BY <1>1
<1>3. \A i \in 1..L : s[i] = t[i]
  BY <1>1
<1>4. \A k \in 1..6 : s[L + k] = 0 /\ t[L + k] = sum[k]
  BY <1>1
<1>5. PICK f \in [0..Len(s) -> Checksums] :
        /\ f[0] = Bits(1) /\ Polymod(s) = f[Len(s)]
        /\ \A i \in 1..Len(s) : f[i] = PolymodStep(f[i - 1], s[i])
  BY <1>2, PolymodSolved
<1>6. PICK g \in [0..Len(t) -> Checksums] :
        /\ g[0] = Bits(1) /\ Polymod(t) = g[Len(t)]
        /\ \A i \in 1..Len(t) : g[i] = PolymodStep(g[i - 1], t[i])
  BY <1>2, PolymodSolved
<1>7. p = Xor(f[L + 6], Bits(1)) /\ Polymod(t) = g[L + 6]
  BY <1>2, <1>5, <1>6
<1>8. \A k \in 1..6 : sum[k] = Group(p, 5 * (6 - k))
  OBVIOUS
<1> HIDE DEF L, s, t, zeros
<1>9. f[L] = g[L]
  <2> DEFINE S == {i \in Nat : i <= L => f[i] = g[i]}
  <2>1. 0 \in S
    BY <1>5, <1>6
  <2>2. ASSUME NEW i \in Nat, i \in S
        PROVE  i + 1 \in S
    <3> SUFFICES ASSUME i + 1 <= L
                 PROVE  f[i + 1] = g[i + 1]
      OBVIOUS
    <3>1. i + 1 \in 1..L /\ i + 1 \in 1..L + 6 /\ (i + 1) - 1 = i /\ f[i] = g[i]
      BY <1>1, <2>2
    <3> QED
      BY <1>2, <1>3, <1>5, <1>6, <3>1
  <2> HIDE DEF S
  <2>3. \A i \in Nat : i \in S
    BY <2>1, <2>2, InductionBySet
  <2> QED
    BY <1>1, <2>3 DEF S
<1> DEFINE D(k) == {i \in 0..(5 * k - 1) : i + 5 * (6 - k) \in p}
           R == {k \in Nat : k <= 6 => g[L + k] = Xor(f[L + k], D(k))}
<1>10. 0 \in R
  <2>1. D(0) = {} /\ L + 0 = L
    BY <1>1
  <2>2. Xor(f[L], {}) = f[L]
    BY DEF Xor
  <2> QED
    BY <1>9, <2>1, <2>2
<1>11. ASSUME NEW k \in Nat, k \in R
       PROVE  k + 1 \in R
  <2> SUFFICES ASSUME k + 1 <= 6
               PROVE  g[L + (k + 1)] = Xor(f[L + (k + 1)], D(k + 1))
    OBVIOUS
  <2>1. /\ k + 1 \in 1..6 /\ L + (k + 1) \in 1..L + 6 /\ (L + (k + 1)) - 1 = L + k /\ k <= 5
    BY <1>1
  <2>2. g[L + k] = Xor(f[L + k], D(k))
    BY <1>11, <2>1
  <2>3. f[L + (k + 1)] = PolymodStep(f[L + k], 0)
    BY <1>2, <1>4, <1>5, <2>1
  <2>4. g[L + (k + 1)] = PolymodStep(g[L + k], sum[k + 1])
    BY <1>2, <1>4, <1>6, <2>1
  <2> DEFINE low == 5 * (6 - (k + 1))
             v == sum[k + 1]
  <2>5. low \in Nat /\ v = Group(p, low)
    BY <1>8, <2>1
  <2> HIDE DEF v
  <2>6. Bits(v) = {i \in 0..4 : low + i \in p}
    <3> HIDE DEF low
    <3> QED
      BY <2>5, BitsOfGroup
  <2>7. D(k) \in SUBSET (0..24) /\ Bits(v) \in SUBSET (0..4)
    <3>1. \A i \in 0..(5 * k - 1) : i \in 0..24
      BY <2>1
    <3>2. \A i \in D(k) : i \in 0..(5 * k - 1)
      OBVIOUS
    <3> HIDE DEF D, low
    <3>3. D(k) \in SUBSET (0..24)
      BY <3>1, <3>2
    <3>4. Bits(v) \in SUBSET (0..4)
      BY <2>6
    <3> QED
      BY <3>3, <3>4
  <2>8. D(k + 1) = {i + 5 : i \in D(k)} \cup Bits(v)
    <3>1. ASSUME NEW x \in D(k + 1)
          PROVE  x \in {i + 5 : i \in D(k)} \cup Bits(v)
      <4>1. x \in 0..(5 * (k + 1) - 1) /\ x + 5 * (6 - (k + 1)) \in p
        BY <3>1
      <4>2. CASE x >= 5
        <5>1. x - 5 \in 0..(5 * k - 1) /\ (x - 5) + 5 * (6 - k) = x + 5 * (6 - (k + 1)) /\ (x - 5) + 5 = x
          BY <4>1, <4>2
        <5>2. x - 5 \in D(k)
          BY <4>1, <5>1
        <5> HIDE DEF D
        <5> QED
          BY <5>1, <5>2
      <4>3. CASE ~(x >= 5)
        <5>1. x \in 0..4 /\ low + x = x + 5 * (6 - (k + 1))
          BY <4>1, <4>3
        <5> HIDE DEF D, low
        <5> QED
          BY <2>6, <4>1, <5>1
      <4> QED
        BY <4>2, <4>3
    <3>2. ASSUME NEW i \in D(k)
          PROVE  i + 5 \in D(k + 1)
      <4>1. i \in 0..(5 * k - 1) /\ i + 5 * (6 - k) \in p
        BY <3>2
      <4>2. i + 5 \in 0..(5 * (k + 1) - 1) /\ (i + 5) + 5 * (6 - (k + 1)) = i + 5 * (6 - k)
        BY <4>1
      <4> QED
        BY <4>1, <4>2
    <3>3. ASSUME NEW i \in Bits(v)
          PROVE  i \in D(k + 1)
      <4>1. i \in 0..4 /\ low + i \in p
        BY <2>6, <3>3
      <4>2. i \in 0..(5 * (k + 1) - 1) /\ i + 5 * (6 - (k + 1)) = low + i
        BY <4>1
      <4> QED
        BY <4>1, <4>2
    <3> HIDE DEF D
    <3> QED
      BY <3>1, <3>2, <3>3
  <2> HIDE DEF D
  <2>9. PolymodStep(Xor(f[L + k], D(k)), v)
          = Xor(PolymodStep(f[L + k], 0), {i + 5 : i \in D(k)} \cup Bits(v))
    BY <2>7, StepDiffers
  <2> QED
    BY <2>2, <2>3, <2>4, <2>8, <2>9 DEF v
<1> HIDE DEF R
<1>12. \A k \in Nat : k \in R
  BY <1>10, <1>11, InductionBySet
<1>13. g[L + 6] = Xor(f[L + 6], D(6))
  <2>1. 6 \in R /\ 6 \in Nat /\ 6 <= 6
    BY <1>12
  <2> HIDE DEF D
  <2>2. \A k \in R : k <= 6 => g[L + k] = Xor(f[L + k], D(k))
    BY DEF R
  <2> QED
    BY <2>1, <2>2
<1>14. D(6) = p
  <2>1. p \in SUBSET (0..29)
    <3>1. L + 6 \in 0..Len(s)
      BY <1>1, <1>2
    <3> DEFINE S == 0..29
               q == f[L + 6]
    <3>2. q \in SUBSET S /\ Bits(1) \in SUBSET S
      BY <1>5, <3>1, BitsType DEF Checksums
    <3>3. p = Xor(q, Bits(1))
      BY <1>7
    <3> HIDE DEF S, q
    <3>4. p \in SUBSET S
      BY <3>2, <3>3 DEF Xor
    <3> QED
      BY <3>4 DEF S
  <2>2. \A i \in 0..29 : i \in 0..(5 * 6 - 1) /\ i + 5 * (6 - 6) = i
    OBVIOUS
  <2>3. \A i \in 0..(5 * 6 - 1) : i \in 0..29
    OBVIOUS
  <2> QED
    BY <2>1, <2>2, <2>3
<1> HIDE DEF D
<1> QED
  BY <1>7, <1>13, <1>14, XorTwice DEF t

(* The accumulator of _convertbits, and a group of five bits.              *)
Register == 0..4095
Quintet == 0..31

(* Dividing twice is dividing by the product.                              *)
LEMMA DivideTwice ==
  ASSUME NEW x \in Nat, NEW a \in Nat \ {0}, NEW b \in Nat \ {0}
  PROVE  (x \div a) \div b = x \div (a * b)
<1> DEFINE u == x \div a
           r == x % a
           w == u \div b
           s == u % b
<1>1. u \in Nat /\ r \in 0..(a - 1) /\ x = a * u + r
  OBVIOUS
<1>2. w \in Nat /\ s \in 0..(b - 1) /\ u = b * w + s
  BY <1>1
<1> HIDE DEF u, r, w, s
<1>3. x = (a * b) * w + (a * s + r)
  <2>1. a * u = a * (b * w) + a * s
    BY <1>2
  <2>2. a * (b * w) = (a * b) * w
    BY <1>2
  <2> QED
    BY <1>1, <1>2, <2>1, <2>2
<1>4. a * s + r \in 0..(a * b - 1)
  <2>1. a * s <= a * (b - 1)
    BY <1>2
  <2>2. a * (b - 1) = a * b - a
    OBVIOUS
  <2>3. a * s \in Nat /\ a * b \in Nat
    BY <1>2
  <2> QED
    BY <1>1, <1>2, <2>1, <2>2, <2>3
<1> DEFINE d == a * b
           m == a * s + r
<1>5. d \in Nat \ {0} /\ m \in 0..(d - 1) /\ x = d * w + m
  BY <1>3, <1>4
<1> HIDE DEF d, m
<1>6. x \div d = w
  BY <1>2, <1>5
<1> QED
  BY <1>6 DEF d, w, u

(* The remainder of 32 keeps the low five bits.                            *)
LEMMA LowBits ==
  ASSUME NEW y \in Nat, NEW q \in 0..4
  PROVE  ((y % 32) \div TwoTo[q]) % 2 = (y \div TwoTo[q]) % 2
<1>1. ((y % 32) \div 1) % 2 = (y \div 1) % 2
  OBVIOUS
<1>2. ((y % 32) \div 2) % 2 = (y \div 2) % 2
  OBVIOUS
<1>3. ((y % 32) \div 4) % 2 = (y \div 4) % 2
  OBVIOUS
<1>4. ((y % 32) \div 8) % 2 = (y \div 8) % 2
  OBVIOUS
<1>5. ((y % 32) \div 16) % 2 = (y \div 16) % 2
  OBVIOUS
<1>6. q = 0 \/ q = 1 \/ q = 2 \/ q = 3 \/ q = 4
  OBVIOUS
<1> QED
  BY <1>1, <1>2, <1>3, <1>4, <1>5, <1>6, TwoToSmall

(* The powers of two that the accumulator needs.                           *)
LEMMA TwoToLarger ==
  TwoTo[8] = 256 /\ TwoTo[9] = 512 /\ TwoTo[10] = 1024 /\ TwoTo[11] = 2048
<1>1. \A n \in Nat : TwoTo[n + 1] = 2 * TwoTo[n]
  BY TwoToPowers
<1>2. TwoTo[7 + 1] = 2 * TwoTo[7] /\ TwoTo[8 + 1] = 2 * TwoTo[8]
      /\ TwoTo[9 + 1] = 2 * TwoTo[9] /\ TwoTo[10 + 1] = 2 * TwoTo[10]
  BY <1>1
<1> QED
  BY <1>2, TwoToSmall

(* The bits of the accumulator after a byte.                               *)
LEMMA BitsOfByte ==
  ASSUME NEW acc \in Register, NEW byte \in Byte, NEW t \in 0..7
  PROVE  (((acc * 256 + byte) % 4096) \div TwoTo[t]) % 2 = (byte \div TwoTo[t]) % 2
<1> USE DEF Register, Byte
<1> DEFINE a == (acc * 256 + byte) % 4096
           h == acc % 16
<1>1. a = 256 * h + byte /\ h \in 0..15
  OBVIOUS
<1> HIDE DEF a, h
<1>2. (a \div 1) % 2 = (byte \div 1) % 2
  BY <1>1
<1>3. (a \div 2) % 2 = (byte \div 2) % 2
  BY <1>1
<1>4. (a \div 4) % 2 = (byte \div 4) % 2
  BY <1>1
<1>5. (a \div 8) % 2 = (byte \div 8) % 2
  BY <1>1
<1>6. (a \div 16) % 2 = (byte \div 16) % 2
  BY <1>1
<1>7. (a \div 32) % 2 = (byte \div 32) % 2
  BY <1>1
<1>8. (a \div 64) % 2 = (byte \div 64) % 2
  BY <1>1
<1>9. (a \div 128) % 2 = (byte \div 128) % 2
  BY <1>1
<1>10. t = 0 \/ t = 1 \/ t = 2 \/ t = 3 \/ t = 4 \/ t = 5 \/ t = 6 \/ t = 7
  OBVIOUS
<1>11. (a \div TwoTo[t]) % 2 = (byte \div TwoTo[t]) % 2
  BY <1>2, <1>3, <1>4, <1>5, <1>6, <1>7, <1>8, <1>9, <1>10, TwoToSmall
<1> QED
  BY <1>11 DEF a

(* The bits that were there move up by eight.                              *)
LEMMA BitsKept ==
  ASSUME NEW acc \in Register, NEW byte \in Byte, NEW t \in 0..3
  PROVE  (((acc * 256 + byte) % 4096) \div TwoTo[t + 8]) % 2 = (acc \div TwoTo[t]) % 2
<1> USE DEF Register, Byte
<1> DEFINE a == (acc * 256 + byte) % 4096
           h == acc % 16
           d == acc \div 16
<1>1. a = 256 * h + byte /\ h \in 0..15 /\ acc = 16 * d + h /\ d \in Nat
  OBVIOUS
<1> HIDE DEF a, h, d
<1>2. (a \div 256) % 2 = (acc \div 1) % 2
  <2>1. a \div 256 = h \div 1
    BY <1>1
  <2>2. (h \div 1) % 2 = (acc \div 1) % 2
    BY <1>1
  <2> QED
    BY <2>1, <2>2
<1>3. (a \div 512) % 2 = (acc \div 2) % 2
  <2>1. a \div 512 = h \div 2
    BY <1>1
  <2>2. (h \div 2) % 2 = (acc \div 2) % 2
    BY <1>1
  <2> QED
    BY <2>1, <2>2
<1>4. (a \div 1024) % 2 = (acc \div 4) % 2
  <2>1. a \div 1024 = h \div 4
    BY <1>1
  <2>2. (h \div 4) % 2 = (acc \div 4) % 2
    BY <1>1
  <2> QED
    BY <2>1, <2>2
<1>5. (a \div 2048) % 2 = (acc \div 8) % 2
  <2>1. a \div 2048 = h \div 8
    BY <1>1
  <2>2. (h \div 8) % 2 = (acc \div 8) % 2
    BY <1>1
  <2> QED
    BY <2>1, <2>2
<1>6. t = 0 \/ t = 1 \/ t = 2 \/ t = 3
  OBVIOUS
<1>7. (a \div TwoTo[t + 8]) % 2 = (acc \div TwoTo[t]) % 2
  BY <1>2, <1>3, <1>4, <1>5, <1>6, TwoToSmall, TwoToLarger
<1> QED
  BY <1>7 DEF a

(* The bits of the last group, which zeros fill up.                        *)
Padded(acc, bits, q) ==
  (((acc * TwoTo[5 - bits]) % 32) \div TwoTo[q]) % 2 = (acc \div TwoTo[q - (5 - bits)]) % 2

(* Its bits are those of the accumulator, moved up.                        *)
LEMMA BitsPadded ==
  ASSUME NEW acc \in Register, NEW bits \in 1..4, NEW q \in 0..4, q >= 5 - bits
  PROVE  Padded(acc, bits, q)
<1> USE DEF Register
<1>1. CASE bits = 1
  <2> DEFINE g == (acc * 16) % 32
             h == acc % 2
             d == acc \div 2
  <2>1. g = 16 * h /\ h \in 0..1 /\ acc = 2 * d + h /\ d \in Nat
    OBVIOUS
  <2>2. g = (acc * TwoTo[5 - bits]) % 32
    <3>1. 5 - bits = 4
      BY <1>1
    <3>2. TwoTo[5 - bits] = 16
      BY <3>1, TwoToSmall
    <3> QED
      BY <3>2
  <2> HIDE DEF g, h, d
  <2>3. CASE q = 4
    <3>1. (g \div 16) % 2 = (acc \div 1) % 2
      BY <2>1
    <3>2. q - (5 - bits) = 0
      BY <1>1, <2>3
    <3>3. TwoTo[q] = 16 /\ TwoTo[q - (5 - bits)] = 1
      BY <2>3, <3>2, TwoToSmall
    <3> QED
      BY <2>2, <3>1, <3>3 DEF Padded
  <2>4. q = 4
    BY <1>1
  <2> QED
    BY <2>3, <2>4
<1>2. CASE bits = 2
  <2> DEFINE g == (acc * 8) % 32
             h == acc % 4
             d == acc \div 4
  <2>1. g = 8 * h /\ h \in 0..3 /\ acc = 4 * d + h /\ d \in Nat
    OBVIOUS
  <2>2. g = (acc * TwoTo[5 - bits]) % 32
    <3>1. 5 - bits = 3
      BY <1>2
    <3>2. TwoTo[5 - bits] = 8
      BY <3>1, TwoToSmall
    <3> QED
      BY <3>2
  <2> HIDE DEF g, h, d
  <2>3. CASE q = 3
    <3>1. (g \div 8) % 2 = (acc \div 1) % 2
      BY <2>1
    <3>2. q - (5 - bits) = 0
      BY <1>2, <2>3
    <3>3. TwoTo[q] = 8 /\ TwoTo[q - (5 - bits)] = 1
      BY <2>3, <3>2, TwoToSmall
    <3> QED
      BY <2>2, <3>1, <3>3 DEF Padded
  <2>4. CASE q = 4
    <3>1. (g \div 16) % 2 = (acc \div 2) % 2
      BY <2>1
    <3>2. q - (5 - bits) = 1
      BY <1>2, <2>4
    <3>3. TwoTo[q] = 16 /\ TwoTo[q - (5 - bits)] = 2
      BY <2>4, <3>2, TwoToSmall
    <3> QED
      BY <2>2, <3>1, <3>3 DEF Padded
  <2>5. q = 3 \/ q = 4
    BY <1>2
  <2> QED
    BY <2>3, <2>4, <2>5
<1>3. CASE bits = 3
  <2> DEFINE g == (acc * 4) % 32
             h == acc % 8
             d == acc \div 8
  <2>1. g = 4 * h /\ h \in 0..7 /\ acc = 8 * d + h /\ d \in Nat
    OBVIOUS
  <2>2. g = (acc * TwoTo[5 - bits]) % 32
    <3>1. 5 - bits = 2
      BY <1>3
    <3>2. TwoTo[5 - bits] = 4
      BY <3>1, TwoToSmall
    <3> QED
      BY <3>2
  <2> HIDE DEF g, h, d
  <2>3. CASE q = 2
    <3>1. (g \div 4) % 2 = (acc \div 1) % 2
      BY <2>1
    <3>2. q - (5 - bits) = 0
      BY <1>3, <2>3
    <3>3. TwoTo[q] = 4 /\ TwoTo[q - (5 - bits)] = 1
      BY <2>3, <3>2, TwoToSmall
    <3> QED
      BY <2>2, <3>1, <3>3 DEF Padded
  <2>4. CASE q = 3
    <3>1. (g \div 8) % 2 = (acc \div 2) % 2
      BY <2>1
    <3>2. q - (5 - bits) = 1
      BY <1>3, <2>4
    <3>3. TwoTo[q] = 8 /\ TwoTo[q - (5 - bits)] = 2
      BY <2>4, <3>2, TwoToSmall
    <3> QED
      BY <2>2, <3>1, <3>3 DEF Padded
  <2>5. CASE q = 4
    <3>1. (g \div 16) % 2 = (acc \div 4) % 2
      BY <2>1
    <3>2. q - (5 - bits) = 2
      BY <1>3, <2>5
    <3>3. TwoTo[q] = 16 /\ TwoTo[q - (5 - bits)] = 4
      BY <2>5, <3>2, TwoToSmall
    <3> QED
      BY <2>2, <3>1, <3>3 DEF Padded
  <2>6. q = 2 \/ q = 3 \/ q = 4
    BY <1>3
  <2> QED
    BY <2>3, <2>4, <2>5, <2>6
<1>4. CASE bits = 4
  <2> DEFINE g == (acc * 2) % 32
             h == acc % 16
             d == acc \div 16
  <2>1. g = 2 * h /\ h \in 0..15 /\ acc = 16 * d + h /\ d \in Nat
    OBVIOUS
  <2>2. g = (acc * TwoTo[5 - bits]) % 32
    <3>1. 5 - bits = 1
      BY <1>4
    <3>2. TwoTo[5 - bits] = 2
      BY <3>1, TwoToSmall
    <3> QED
      BY <3>2
  <2> HIDE DEF g, h, d
  <2>3. CASE q = 1
    <3>1. (g \div 2) % 2 = (acc \div 1) % 2
      BY <2>1
    <3>2. q - (5 - bits) = 0
      BY <1>4, <2>3
    <3>3. TwoTo[q] = 2 /\ TwoTo[q - (5 - bits)] = 1
      BY <2>3, <3>2, TwoToSmall
    <3> QED
      BY <2>2, <3>1, <3>3 DEF Padded
  <2>4. CASE q = 2
    <3>1. (g \div 4) % 2 = (acc \div 2) % 2
      BY <2>1
    <3>2. q - (5 - bits) = 1
      BY <1>4, <2>4
    <3>3. TwoTo[q] = 4 /\ TwoTo[q - (5 - bits)] = 2
      BY <2>4, <3>2, TwoToSmall
    <3> QED
      BY <2>2, <3>1, <3>3 DEF Padded
  <2>5. CASE q = 3
    <3>1. (g \div 8) % 2 = (acc \div 4) % 2
      BY <2>1
    <3>2. q - (5 - bits) = 2
      BY <1>4, <2>5
    <3>3. TwoTo[q] = 8 /\ TwoTo[q - (5 - bits)] = 4
      BY <2>5, <3>2, TwoToSmall
    <3> QED
      BY <2>2, <3>1, <3>3 DEF Padded
  <2>6. CASE q = 4
    <3>1. (g \div 16) % 2 = (acc \div 8) % 2
      BY <2>1
    <3>2. q - (5 - bits) = 3
      BY <1>4, <2>6
    <3>3. TwoTo[q] = 16 /\ TwoTo[q - (5 - bits)] = 8
      BY <2>6, <3>2, TwoToSmall
    <3> QED
      BY <2>2, <3>1, <3>3 DEF Padded
  <2>7. q = 1 \/ q = 2 \/ q = 3 \/ q = 4
    BY <1>4
  <2> QED
    BY <2>3, <2>4, <2>5, <2>6, <2>7
<1>5. bits = 1 \/ bits = 2 \/ bits = 3 \/ bits = 4
  OBVIOUS
<1> QED
  BY <1>1, <1>2, <1>3, <1>4, <1>5

(* The states of _convertbits, and the first of them.                      *)
Groups == Seq(Quintet)
States == [acc : Register, bits : 0..4, out : Groups]
Empty == [acc |-> 0, bits |-> 0, out |-> <<>>]

(* The groups that the bits of the accumulator fill.                       *)
Accumulated(v, byte) == (v.acc * 256 + byte) % 4096
NewGroups(v, byte) == TakenGroups(Accumulated(v, byte), v.bits + 8)

(* ConvertStep with names for its parts.                                   *)
LEMMA StepOfConvert ==
  ASSUME NEW v, NEW byte
  PROVE  ConvertStep(v, byte) = [acc |-> Accumulated(v, byte), bits |-> (v.bits + 8) % 5,
                                 out |-> v.out \o NewGroups(v, byte)]
BY DEF ConvertStep, Accumulated, NewGroups

(* The parts of a state of the conversion.                                 *)
LEMMA StateParts ==
  ASSUME NEW v \in States
  PROVE  v.acc \in Register /\ v.bits \in 0..4 /\ v.out \in Groups
BY DEF States

(* The groups that are taken from the accumulator.                         *)
LEMMA TakenGroupsType ==
  ASSUME NEW a \in Register, NEW b \in 8..12
  PROVE  /\ TakenGroups(a, b) \in Groups /\ Len(TakenGroups(a, b)) = b \div 5
         /\ \A k \in 1..(b \div 5) : TakenGroups(a, b)[k] = (a \div TwoTo[b - 5 * k]) % 32
<1> DEFINE m == b \div 5
           x(k) == (a \div TwoTo[b - 5 * k]) % 32
<1>1. m \in Nat /\ 5 * m <= b
  OBVIOUS
<1>2. TakenGroups(a, b) = [k \in 1..m |-> x(k)]
  BY DEF TakenGroups
<1> HIDE DEF m
<1>3. ASSUME NEW k \in 1..m
      PROVE  x(k) \in Quintet
  <2> DEFINE t == TwoTo[b - 5 * k]
             u == a \div t
  <2>1. b - 5 * k \in Nat
    BY <1>1
  <2>2. t \in Nat \ {0}
    BY <2>1, TwoToPowers
  <2> HIDE DEF t
  <2>3. u \in Nat
    BY <2>2 DEF Register
  <2> HIDE DEF u
  <2>4. u % 32 \in Quintet
    BY <2>3 DEF Quintet
  <2> QED
    BY <2>4 DEF u, t
<1> HIDE DEF x
<1>4. [k \in 1..m |-> x(k)] \in Seq(Quintet) /\ Len([k \in 1..m |-> x(k)]) = m
  BY <1>1, <1>3
<1>5. \A k \in 1..m : TakenGroups(a, b)[k] = x(k)
  BY <1>2
<1> QED
  BY <1>2, <1>4, <1>5 DEF m, x, Groups

(* The same in a step of the conversion.                                   *)
LEMMA NewGroupsType ==
  ASSUME NEW v \in States, NEW byte \in Byte
  PROVE  NewGroups(v, byte) \in Groups /\ Accumulated(v, byte) \in Register
<1>1. v.acc \in Register /\ v.bits \in 0..4
  BY StateParts
<1>2. \A x \in Register, b \in Byte : (x * 256 + b) % 4096 \in Register
  BY DEF Register, Byte
<1>3. Accumulated(v, byte) \in Register
  BY <1>1, <1>2 DEF Accumulated
<1>4. v.bits + 8 \in 8..12
  BY <1>1
<1> QED
  BY <1>3, <1>4, TakenGroupsType DEF NewGroups

(* A step leads from a state to a state.                                   *)
LEMMA ConvertStepType ==
  ASSUME NEW v \in States, NEW byte \in Byte
  PROVE  ConvertStep(v, byte) \in States
<1>1. v.acc \in Register /\ v.bits \in 0..4 /\ v.out \in Groups
  BY StateParts
<1>2. NewGroups(v, byte) \in Groups /\ Accumulated(v, byte) \in Register
  BY NewGroupsType
<1>3. v.out \o NewGroups(v, byte) \in Groups
  BY <1>1, <1>2, ConcatProperties DEF Groups
<1>4. (v.bits + 8) % 5 \in 0..4
  BY <1>1
<1> QED
  BY <1>2, <1>3, <1>4, StepOfConvert DEF States

(* The padded group at the end, and all groups of a payload.               *)
LastGroup(v) == (v.acc * TwoTo[5 - v.bits]) % 32
Closed(v) == IF v.bits = 0 THEN v.out ELSE Append(v.out, LastGroup(v))

(* ConvertBits is what an iteration over the payload ends with.            *)
LEMMA ConvertSolved ==
  ASSUME NEW payload \in Bytes
  PROVE  \E f \in [0..Len(payload) -> States] :
           /\ f[0] = Empty /\ ConvertBits(payload) = Closed(f[Len(payload)])
           /\ \A i \in 1..Len(payload) : f[i] = ConvertStep(f[i - 1], payload[i])
<1> DEFINE L == Len(payload)
           V == States
           base == Empty
           Next(i, c) == ConvertStep(c, payload[i])
           step == [i \in 1..L |-> [c \in V |-> Next(i, c)]]
           Solves(f) == f = [i \in 0..Len(payload) |->
                               IF i = 0 THEN [acc |-> 0, bits |-> 0, out |-> <<>>]
                               ELSE ConvertStep(f[i - 1], payload[i])]
           N == CHOOSE f : Solves(f)
<1>1. L \in Nat /\ base \in V
  <2>1. <<>> \in Groups
    BY DEF Groups
  <2>2. 0 \in Register /\ 0 \in 0..4
    BY DEF Register
  <2> QED
    BY <2>1, <2>2 DEF States, Empty, Bytes
<1>2. \A i \in 1..L : \A c \in V : Next(i, c) \in V
  <2>1. \A i \in 1..L : payload[i] \in Byte
    BY DEF Bytes
  <2> QED
    BY <2>1, ConvertStepType
<1>3. ConvertBits(payload) = Closed(N[L])
  BY DEF ConvertBits, Closed, LastGroup
<1>4. \A i \in 1..L : \A c \in V : step[i][c] = Next(i, c)
  OBVIOUS
<1>5. \A f : Solves(f) <=> f = [i \in 0..L |-> IF i = 0 THEN base ELSE Next(i, f[i - 1])]
  BY DEF Empty
<1> HIDE DEF L, N, step, base, Next, Solves, V
<1>6. StepsWithin(step, L, V)
  BY <1>2, <1>4 DEF StepsWithin
<1>7. PICK f \in [0..L -> V] : Iterates(f, L, base, step)
  BY <1>1, <1>6, IterationSolved
<1>8. Solves(f)
  <2>1. f = [i \in 0..L |-> f[i]] /\ \A i \in 1..L : f[i - 1] \in V
    BY <1>1, <1>7
  <2>2. \A i \in 0..L : i # 0 => i \in 1..L
    BY <1>1
  <2>3. \A i \in 0..L : f[i] = IF i = 0 THEN base ELSE Next(i, f[i - 1])
    BY <1>4, <1>7, <2>1, <2>2 DEF Iterates
  <2> QED
    BY <1>5, <2>1, <2>3
<1>9. Solves(N)
  BY <1>8, Zenon DEF N
<1>10. Unfolds(N, L, V, base, step)
  <2>1. N = [i \in 0..L |-> IF i = 0 THEN base ELSE Next(i, N[i - 1])]
    BY <1>5, <1>9
  <2>2. N = [i \in 0..L |-> N[i]]
    BY <2>1
  <2>3. \A i \in 0..L : N[i] = IF i = 0 THEN base ELSE Next(i, N[i - 1])
    BY <2>1
  <2>4. \A i \in 1..L : i \in 0..L /\ i # 0
    BY <1>1
  <2>5. N[0] = base
    BY <1>1, <2>3
  <2>6. \A i \in 1..L : N[i - 1] \in V => N[i] = step[i][N[i - 1]]
    BY <1>4, <2>3, <2>4
  <2> QED
    BY <2>2, <2>5, <2>6 DEF Unfolds
<1>11. N \in [0..L -> V] /\ Iterates(N, L, base, step)
  BY <1>1, <1>6, <1>10, IterationUnfolded
<1>12. \A i \in 1..L : N[i - 1] \in V
  BY <1>1, <1>11
<1>13. N[0] = base /\ \A i \in 1..L : N[i] = Next(i, N[i - 1])
  BY <1>1, <1>4, <1>11, <1>12 DEF Iterates
<1> QED
  BY <1>3, <1>11, <1>13 DEF L, V, base, Next

-----------------------------------------------------------------------------
(* The bit n of a payload, the highest of the first byte at 1.             *)
BitOf(payload, n) == (payload[(n - 1) \div 8 + 1] \div TwoTo[7 - ((n - 1) % 8)]) % 2

(* What has been taken of a payload after i bytes.                         *)
Kept(v, payload, n) == \A t \in 0..(v.bits - 1) : (v.acc \div TwoTo[t]) % 2 = BitOf(payload, n - t)
Carries(out, payload) ==
  \A j \in 1..Len(out) : \A q \in 0..4 : (out[j] \div TwoTo[q]) % 2 = BitOf(payload, 5 * j - q)
Taken(v, payload, i) ==
  5 * Len(v.out) + v.bits = 8 * i /\ Kept(v, payload, 8 * i) /\ Carries(v.out, payload)

(* The bits of the accumulator once a byte has come in.                    *)
LEMMA BitsAccumulated ==
  ASSUME NEW payload, NEW i \in Nat, NEW v \in States, Kept(v, payload, 8 * i),
         payload[i + 1] \in Byte, NEW t \in 0..(v.bits + 7)
  PROVE  (Accumulated(v, payload[i + 1]) \div TwoTo[t]) % 2 = BitOf(payload, 8 * (i + 1) - t)
<1> DEFINE byte == payload[i + 1]
           a == Accumulated(v, byte)
<1>1. v.acc \in Register /\ v.bits \in 0..4
  BY StateParts
<1>2. a = (v.acc * 256 + byte) % 4096
  BY DEF Accumulated
<1> HIDE DEF a
<1>3. CASE t \in 0..7
  <2>1. (a \div TwoTo[t]) % 2 = (byte \div TwoTo[t]) % 2
    BY <1>1, <1>2, <1>3, BitsOfByte
  <2> DEFINE n == 8 * (i + 1) - t
  <2>2. (n - 1) \div 8 = i /\ (n - 1) % 8 = 7 - t
    BY <1>3
  <2>3. (n - 1) \div 8 + 1 = i + 1 /\ 7 - ((n - 1) % 8) = t
    BY <1>3, <2>2
  <2> HIDE DEF n
  <2>4. BitOf(payload, n) = (byte \div TwoTo[t]) % 2
    BY <2>3 DEF BitOf
  <2> QED
    BY <2>1, <2>4 DEF n, a
<1>4. CASE t \notin 0..7
  <2> DEFINE s == t - 8
  <2>1. s \in 0..3 /\ s \in 0..(v.bits - 1) /\ t = s + 8
    BY <1>1, <1>4
  <2>2. 8 * (i + 1) - t = 8 * i - s
    BY <2>1
  <2> HIDE DEF s
  <2>3. (a \div TwoTo[s + 8]) % 2 = (v.acc \div TwoTo[s]) % 2
    BY <1>1, <1>2, <2>1, BitsKept
  <2>4. (v.acc \div TwoTo[s]) % 2 = BitOf(payload, 8 * i - s)
    BY <2>1 DEF Kept
  <2> QED
    BY <2>1, <2>2, <2>3, <2>4 DEF a
<1> QED
  BY <1>3, <1>4

(* A bit of a group that was taken is a bit of the accumulator.            *)
LEMMA GroupBits ==
  ASSUME NEW a \in Register, NEW s \in Nat, NEW q \in 0..4
  PROVE  (((a \div TwoTo[s]) % 32) \div TwoTo[q]) % 2 = (a \div TwoTo[s + q]) % 2
<1> DEFINE y == a \div TwoTo[s]
<1>1. TwoTo[s] \in Nat \ {0} /\ TwoTo[q] \in Nat \ {0} /\ TwoTo[s + q] = TwoTo[s] * TwoTo[q] /\ a \in Nat
  <2>1. q \in Nat /\ a \in Nat
    BY DEF Register
  <2> QED
    BY <2>1, TwoToPowers
<1>2. y \in Nat
  BY <1>1
<1>3. y \div TwoTo[q] = a \div TwoTo[s + q]
  BY <1>1, DivideTwice
<1> HIDE DEF y
<1>4. ((y % 32) \div TwoTo[q]) % 2 = (y \div TwoTo[q]) % 2
  BY <1>2, LowBits
<1> QED
  BY <1>3, <1>4 DEF y

(* A step takes one more byte and loses no bit.                            *)
LEMMA TakenStep ==
  ASSUME NEW payload, NEW i \in Nat, NEW v \in States, Taken(v, payload, i),
         payload[i + 1] \in Byte
  PROVE  Taken(ConvertStep(v, payload[i + 1]), payload, i + 1)
<1> DEFINE byte == payload[i + 1]
           a == Accumulated(v, byte)
           b == v.bits + 8
           new == TakenGroups(a, b)
           out == v.out
           w == ConvertStep(v, byte)
<1>1. v.bits \in 0..4 /\ out \in Groups /\ a \in Register /\ b \in 8..12
  <2>1. v.bits \in 0..4 /\ out \in Groups
    BY StateParts
  <2>2. a \in Register
    BY NewGroupsType
  <2> QED
    BY <2>1, <2>2
<1>2. w = [acc |-> a, bits |-> b % 5, out |-> out \o new]
  BY StepOfConvert DEF NewGroups
<1>5. 5 * Len(out) + v.bits = 8 * i /\ Kept(v, payload, 8 * i) /\ Carries(out, payload)
  BY DEF Taken
<1>0. b = v.bits + 8
  OBVIOUS
<1> HIDE DEF w, a, b, out
<1>4. /\ new \in Groups /\ Len(new) = b \div 5
      /\ \A k \in 1..(b \div 5) : new[k] = (a \div TwoTo[b - 5 * k]) % 32
  BY <1>1, TakenGroupsType
<1> HIDE DEF new
<1>3. w.acc = a /\ w.bits = b % 5 /\ w.out = out \o new
  BY <1>2
<1>6. \A t \in 0..(b - 1) : (a \div TwoTo[t]) % 2 = BitOf(payload, 8 * (i + 1) - t)
  <2>1. \A t \in 0..(b - 1) : t \in 0..(v.bits + 7)
    BY <1>0, <1>1
  <2> QED
    BY <1>5, <2>1, BitsAccumulated DEF a
<1> DEFINE m == Len(out)
           h == v.bits
<1>7. m \in Nat /\ Len(out \o new) = m + (b \div 5) /\ h \in 0..4 /\ b = h + 8 /\ 5 * m + h = 8 * i
  <2>1. m \in Nat /\ Len(out \o new) = Len(out) + Len(new)
    BY <1>1, <1>4, ConcatProperties DEF Groups
  <2> QED
    BY <1>0, <1>1, <1>4, <1>5, <2>1
<1>8. /\ \A j \in 1..m : (out \o new)[j] = out[j]
      /\ \A k \in 1..(b \div 5) : (out \o new)[m + k] = new[k]
  <2> DEFINE n == b \div 5
  <2>1. out \in Seq(Quintet) /\ new \in Seq(Quintet) /\ Len(new) = n
    BY <1>1, <1>4 DEF Groups
  <2> HIDE DEF n
  <2>2. \A k \in 1..n : (m + k) - m = k /\ m + k \in (m + 1)..(m + n)
    <3>1. n \in Nat
      BY <2>1
    <3> QED
      BY <1>7, <3>1
  <2>3. \A j \in 1..m : (out \o new)[j] = out[j]
    BY <2>1
  <2>4. \A k \in 1..n : (out \o new)[m + k] = new[k]
    BY <2>1, <2>2, <1>7
  <2> QED
    BY <2>3, <2>4 DEF n
<1> DEFINE both == out \o new
<1> HIDE DEF a, b, new, w, m, h, byte, both
<1>9. 5 * Len(w.out) + w.bits = 8 * (i + 1)
  <2>1. 5 * (m + (b \div 5)) + (b % 5) = 8 * (i + 1)
    <3>1. b \in Nat /\ b = 5 * (b \div 5) + (b % 5)
      BY <1>7
    <3> QED
      BY <1>7, <3>1
  <2> QED
    BY <1>3, <1>7, <2>1
<1>10. Kept(w, payload, 8 * (i + 1))
  <2>1. \A t \in 0..((b % 5) - 1) : t \in 0..(b - 1)
    BY <1>7
  <2> QED
    BY <1>3, <1>6, <2>1 DEF Kept
<1>11. Carries(both, payload)
  <2> SUFFICES ASSUME NEW j \in 1..(m + (b \div 5)), NEW q \in 0..4
               PROVE  (both[j] \div TwoTo[q]) % 2 = BitOf(payload, 5 * j - q)
    BY <1>7 DEF Carries, both
  <2>1. CASE j <= m
    <3>1. j \in 1..m
      BY <2>1
    <3>2. both[j] = out[j]
      BY <1>8, <3>1 DEF both
    <3> QED
      BY <1>5, <3>1, <3>2 DEF Carries, m
  <2>2. CASE ~(j <= m)
    <3> DEFINE k == j - m
               s == b - 5 * k
    <3>1. k \in 1..(b \div 5) /\ m + k = j
      BY <1>7, <2>2
    <3>2. s \in Nat /\ s + q \in 0..(b - 1) /\ 8 * (i + 1) - (s + q) = 5 * j - q
      BY <1>7, <3>1
    <3>3. both[j] = (a \div TwoTo[s]) % 32
      <4>1. both[m + k] = new[k]
        BY <1>8, <3>1 DEF both
      <4> QED
        BY <1>4, <3>1, <4>1
    <3> HIDE DEF k, s
    <3>4. (both[j] \div TwoTo[q]) % 2 = (a \div TwoTo[s + q]) % 2
      BY <1>1, <3>2, <3>3, GroupBits
    <3> QED
      BY <1>6, <3>2, <3>4
  <2> QED
    BY <2>1, <2>2
<1> QED
  BY <1>3, <1>9, <1>10, <1>11 DEF Taken, w, byte, both, out

(* After the last byte everything has been taken.                          *)
LEMMA TakenAll ==
  ASSUME NEW payload \in Bytes
  PROVE  \E v \in States : Taken(v, payload, Len(payload)) /\ ConvertBits(payload) = Closed(v)
<1> DEFINE L == Len(payload)
<1>1. L \in Nat /\ \A i \in 1..L : payload[i] \in Byte
  BY DEF Bytes
<1>2. PICK f \in [0..L -> States] :
        /\ f[0] = Empty /\ ConvertBits(payload) = Closed(f[L])
        /\ \A i \in 1..L : f[i] = ConvertStep(f[i - 1], payload[i])
  BY ConvertSolved
<1> DEFINE S == {i \in Nat : i <= L => Taken(f[i], payload, i)}
<1> HIDE DEF L
<1>3. 0 \in S
  <2>1. Empty.bits = 0 /\ Empty.out = <<>>
    BY DEF Empty
  <2>2. Taken(Empty, payload, 0)
    BY <2>1 DEF Taken, Kept, Carries
  <2> QED
    BY <1>2, <2>2
<1>4. ASSUME NEW i \in Nat, i \in S
      PROVE  i + 1 \in S
  <2> SUFFICES ASSUME i + 1 <= L
               PROVE  Taken(f[i + 1], payload, i + 1)
    OBVIOUS
  <2>1. i + 1 \in 1..L /\ (i + 1) - 1 = i /\ i \in 0..L /\ i <= L
    BY <1>1
  <2>2. f[i + 1] = ConvertStep(f[i], payload[i + 1]) /\ f[i] \in States /\ payload[i + 1] \in Byte
    BY <1>1, <1>2, <2>1
  <2>3. Taken(f[i], payload, i)
    BY <1>4, <2>1
  <2> QED
    BY <2>2, <2>3, TakenStep
<1> HIDE DEF S
<1>5. \A i \in Nat : i \in S
  BY <1>3, <1>4, InductionBySet
<1>6. Taken(f[L], payload, L) /\ f[L] \in States
  BY <1>1, <1>2, <1>5 DEF S
<1> QED
  BY <1>2, <1>6 DEF L

(* The last group is a group.                                              *)
LEMMA LastGroupType ==
  ASSUME NEW v \in States, v.bits # 0
  PROVE  LastGroup(v) \in Quintet
<1> DEFINE p == TwoTo[5 - v.bits]
           x == v.acc * p
<1>1. v.acc \in Nat /\ 5 - v.bits \in Nat
  <2>1. v.acc \in Register /\ v.bits \in 0..4
    BY StateParts
  <2>2. Register \subseteq Nat
    BY DEF Register
  <2>3. \A b \in 0..4 : 5 - b \in Nat
    OBVIOUS
  <2> QED
    BY <2>1, <2>2, <2>3
<1>2. p \in Nat
  BY <1>1, TwoToPowers
<1> HIDE DEF p
<1>3. x \in Nat
  BY <1>1, <1>2
<1> HIDE DEF x
<1>4. x % 32 \in Quintet
  BY <1>3 DEF Quintet
<1> QED
  BY <1>4 DEF LastGroup, x, p

(* The groups hold the bits of the payload, all of them and in order.      *)
LEMMA ConvertBitsCarries ==
  ASSUME NEW payload \in Bytes
  PROVE  /\ ConvertBits(payload) \in Groups
         /\ 5 * Len(ConvertBits(payload)) \in 8 * Len(payload)..(8 * Len(payload) + 4)
         /\ \A n \in 1..(8 * Len(payload)) : BitAt(ConvertBits(payload), n) = BitOf(payload, n)
<1> DEFINE L == Len(payload)
           data == ConvertBits(payload)
<1>1. L \in Nat
  BY DEF Bytes
<1>2. PICK v \in States : Taken(v, payload, L) /\ data = Closed(v)
  BY TakenAll
<1> DEFINE out == v.out
           h == v.bits
           m == Len(out)
<1>3. h \in 0..4 /\ out \in Groups /\ v.acc \in Register
  BY StateParts
<1>4. 5 * m + h = 8 * L /\ Kept(v, payload, 8 * L) /\ Carries(out, payload)
  BY <1>2 DEF Taken
<1>5. m \in Nat
  BY <1>3 DEF Groups
<1>6. h # 0 => LastGroup(v) \in Quintet /\ data = Append(out, LastGroup(v))
  BY <1>2, LastGroupType DEF Closed
<1>7. h = 0 => data = out
  BY <1>2 DEF Closed
<1> HIDE DEF data, L, out, m
<1>8. data \in Groups /\ 5 * Len(data) \in 8 * L..(8 * L + 4)
  <2>1. CASE h = 0
    BY <1>1, <1>3, <1>4, <1>5, <1>7, <2>1 DEF m
  <2>2. CASE h # 0
    <3>1. data \in Groups /\ Len(data) = m + 1
      BY <1>3, <1>6, <2>2 DEF Groups, m
    <3> HIDE DEF h
    <3> QED
      BY <1>1, <1>3, <1>4, <1>5, <2>2, <3>1
  <2> QED
    BY <2>1, <2>2
<1>9. \A j \in 1..m : data[j] = out[j]
  <2>1. CASE h = 0
    BY <1>7, <2>1
  <2>2. CASE h # 0
    BY <1>3, <1>6, <2>2 DEF Groups, m
  <2> QED
    BY <2>1, <2>2
<1>10. ASSUME NEW n \in 1..(8 * L)
       PROVE  BitAt(data, n) = BitOf(payload, n)
  <2> DEFINE j == (n - 1) \div 5 + 1
             q == 4 - ((n - 1) % 5)
  <2>1. j \in Nat \ {0} /\ q \in 0..4 /\ 5 * j - q = n
    BY <1>1
  <2>2. BitAt(data, n) = (data[j] \div TwoTo[q]) % 2
    BY DEF BitAt
  <2> HIDE DEF j, q
  <2>3. CASE j <= m
    <3>1. j \in 1..m
      BY <1>5, <2>1, <2>3
    <3> QED
      BY <1>4, <1>9, <2>1, <2>2, <3>1 DEF Carries, m
  <2>4. CASE ~(j <= m)
    <3> HIDE DEF h
    <3>1. j = m + 1 /\ h \in 1..4 /\ q >= 5 - h
      BY <1>1, <1>3, <1>4, <1>5, <2>1, <2>4
    <3>2. data[j] = LastGroup(v)
      BY <1>3, <1>6, <3>1 DEF Groups, m
    <3>3. (LastGroup(v) \div TwoTo[q]) % 2 = (v.acc \div TwoTo[q - (5 - h)]) % 2
      <4>1. Padded(v.acc, h, q)
        BY <1>3, <2>1, <3>1, BitsPadded
      <4> QED
        BY <4>1 DEF Padded, LastGroup, h
    <3> DEFINE t == q - (5 - h)
    <3>4. t \in 0..(h - 1) /\ 8 * L - t = n
      BY <1>1, <1>3, <1>4, <1>5, <2>1, <3>1
    <3> HIDE DEF t
    <3>5. (v.acc \div TwoTo[t]) % 2 = BitOf(payload, 8 * L - t)
      BY <1>4, <3>4 DEF Kept, h
    <3> QED
      BY <2>2, <3>2, <3>3, <3>4, <3>5 DEF t
  <2> QED
    BY <2>3, <2>4
<1> QED
  BY <1>8, <1>10 DEF data, L

(* A byte is the sum of its bits.                                          *)
LEMMA ByteIsItsBits ==
  ASSUME NEW x \in Byte
  PROVE  128 * ((x \div 128) % 2) + 64 * ((x \div 64) % 2) + 32 * ((x \div 32) % 2)
           + 16 * ((x \div 16) % 2) + 8 * ((x \div 8) % 2) + 4 * ((x \div 4) % 2)
           + 2 * ((x \div 2) % 2) + ((x \div 1) % 2) = x
<1> DEFINE a == x \div 2
           b == x \div 4
           c == x \div 8
           d == x \div 16
           e == x \div 32
           f == x \div 64
           g == x \div 128
<1>1. x \in Nat /\ x <= 255
  BY DEF Byte
<1>2. x = 2 * a + (x % 2) /\ a = 2 * b + (a % 2) /\ b = 2 * c + (b % 2) /\ c = 2 * d + (c % 2)
  BY <1>1
<1>3. d = 2 * e + (d % 2) /\ e = 2 * f + (e % 2) /\ f = 2 * g + (f % 2)
  BY <1>1
<1>4. g \in 0..1
  BY <1>1
<1>5. a \in Nat /\ b \in Nat /\ c \in Nat /\ d \in Nat /\ e \in Nat /\ f \in Nat
  BY <1>1
<1>6. x \div 1 = x
  BY <1>1
<1> HIDE DEF a, b, c, d, e, f, g
<1>7. g % 2 = g
  BY <1>4
<1>8. /\ x % 2 \in 0..1 /\ a % 2 \in 0..1 /\ b % 2 \in 0..1 /\ c % 2 \in 0..1
      /\ d % 2 \in 0..1 /\ e % 2 \in 0..1 /\ f % 2 \in 0..1
  BY <1>1, <1>5
<1>9. 128 * (g % 2) + 64 * (f % 2) + 32 * (e % 2) + 16 * (d % 2) + 8 * (c % 2) + 4 * (b % 2)
        + 2 * (a % 2) + (x % 2) = x
  BY <1>1, <1>2, <1>3, <1>4, <1>5, <1>7, <1>8
<1> QED
  BY <1>6, <1>9 DEF a, b, c, d, e, f, g

(* Groups with the bits of a payload have its bytes.                       *)
LEMMA ByteOfBits ==
  ASSUME NEW groups, NEW payload, NEW k \in Nat \ {0}, payload[k] \in Byte,
         \A m \in 1..8 : BitAt(groups, 8 * k - 8 + m) = BitOf(payload, 8 * k - 8 + m)
  PROVE  ByteAt(groups, k) = payload[k]
<1> DEFINE x == payload[k]
           bit(m) == BitAt(groups, 8 * k - 8 + m)
<1>1. ASSUME NEW m \in 1..8
      PROVE  bit(m) = (x \div TwoTo[8 - m]) % 2
  <2> DEFINE n == 8 * k - 8 + m
  <2>1. (n - 1) \div 8 = k - 1 /\ (n - 1) % 8 = m - 1
    OBVIOUS
  <2>2. (n - 1) \div 8 + 1 = k /\ 7 - ((n - 1) % 8) = 8 - m
    BY <2>1
  <2>3. bit(m) = BitOf(payload, n)
    OBVIOUS
  <2> HIDE DEF n, bit
  <2> QED
    BY <2>2, <2>3 DEF BitOf
<1> HIDE DEF bit
<1>2. /\ bit(1) = (x \div 128) % 2 /\ bit(2) = (x \div 64) % 2 /\ bit(3) = (x \div 32) % 2
      /\ bit(4) = (x \div 16) % 2 /\ bit(5) = (x \div 8) % 2 /\ bit(6) = (x \div 4) % 2
      /\ bit(7) = (x \div 2) % 2 /\ bit(8) = (x \div 1) % 2
  BY <1>1, TwoToSmall
<1>3. ByteAt(groups, k) = 128 * bit(1) + 64 * bit(2) + 32 * bit(3) + 16 * bit(4) + 8 * bit(5)
                            + 4 * bit(6) + 2 * bit(7) + bit(8)
  BY DEF ByteAt, bit
<1> HIDE DEF x
<1>4. x \in Byte
  BY DEF x
<1>5. ByteAt(groups, k) = x
  BY <1>2, <1>3, <1>4, ByteIsItsBits
<1> QED
  BY <1>5 DEF x

(* A sequence over a smaller set is one over a larger set.                 *)
LEMMA SeqWithin ==
  ASSUME NEW S, NEW T, S \subseteq T, NEW s \in Seq(S)
  PROVE  s \in Seq(T)
<1>1. Len(s) \in Nat /\ s = [i \in 1..Len(s) |-> s[i]] /\ \A i \in 1..Len(s) : s[i] \in T
  OBVIOUS
<1> QED
  BY <1>1

(* Concatenation of numbers.                                               *)
LEMMA ConcatInts ==
  ASSUME NEW a \in Seq(Int), NEW b \in Seq(Int)
  PROVE  /\ a \o b \in Seq(Int) /\ Len(a \o b) = Len(a) + Len(b)
         /\ \A i \in 1..Len(a) : (a \o b)[i] = a[i]
<1>1. a \o b \in Seq(Int) /\ Len(a \o b) = Len(a) + Len(b)
  BY ConcatProperties
<1>2. \A i \in 1..Len(a) : (a \o b)[i] = a[i]
  OBVIOUS
<1> QED
  BY <1>1, <1>2

(* It can be regrouped.                                                    *)
LEMMA ConcatIntsAssociative ==
  ASSUME NEW a \in Seq(Int), NEW b \in Seq(Int), NEW c \in Seq(Int)
  PROVE  (a \o b) \o c = a \o (b \o c)
<1> DEFINE S == Int
<1>1. a \in Seq(S) /\ b \in Seq(S) /\ c \in Seq(S)
  OBVIOUS
<1> HIDE DEF S
<1> QED
  BY <1>1, ConcatAssociative

(* Groups are numbers, and bytes.                                          *)
LEMMA QuintetSeqs ==
  Groups \subseteq Seq(Int) /\ Groups \subseteq Bytes
<1>1. Quintet \subseteq Int /\ Quintet \subseteq Byte
  BY DEF Quintet, Byte
<1> QED
  BY <1>1, SeqWithin DEF Groups, Bytes

(* The bytes of the groups before the checksum are the payload.            *)
LEMMA DecodedBytes ==
  ASSUME NEW payload \in Bytes, NEW sum \in Seq(Int), Len(sum) = 6
  PROVE  [k \in 1..((5 * (Len(ConvertBits(payload) \o sum) - 6)) \div 8)
            |-> ByteAt(ConvertBits(payload) \o sum, k)] = payload
<1> DEFINE L == Len(payload)
           data == ConvertBits(payload)
           G == Len(data)
           all == data \o sum
<1>1. L \in Nat /\ \A k \in 1..L : payload[k] \in Byte
  BY DEF Bytes
<1>2. /\ data \in Groups /\ 5 * G \in 8 * L..(8 * L + 4)
      /\ \A n \in 1..(8 * L) : BitAt(data, n) = BitOf(payload, n)
  BY ConvertBitsCarries
<1> HIDE DEF L, data
<1>3. G \in Nat /\ Len(all) = G + 6 /\ \A j \in 1..G : all[j] = data[j]
  <2>1. data \in Seq(Int)
    BY <1>2, QuintetSeqs
  <2>2. Len(all) = Len(data) + Len(sum) /\ \A j \in 1..Len(data) : all[j] = data[j]
    BY <2>1, ConcatInts
  <2>3. Len(data) \in Nat
    BY <2>1
  <2> QED
    BY <2>2, <2>3
<1> HIDE DEF G, all
<1>4. (5 * (Len(all) - 6)) \div 8 = L
  BY <1>1, <1>2, <1>3
<1>5. ASSUME NEW n \in 1..(8 * L)
      PROVE  BitAt(all, n) = BitOf(payload, n)
  <2> DEFINE j == (n - 1) \div 5 + 1
  <2>1. j \in 1..G
    BY <1>1, <1>2, <1>3
  <2>2. BitAt(data, n) = BitAt(all, n)
    BY <1>3, <2>1 DEF BitAt
  <2> QED
    BY <1>2, <2>2
<1>6. ASSUME NEW k \in 1..L
      PROVE  ByteAt(all, k) = payload[k]
  <2>1. \A m \in 1..8 : 8 * k - 8 + m \in 1..(8 * L)
    BY <1>1
  <2>2. k \in Nat \ {0} /\ payload[k] \in Byte
    BY <1>1
  <2> QED
    BY <1>5, <2>1, <2>2, ByteOfBits
<1>7. payload = [k \in 1..L |-> payload[k]]
  BY DEF L, Bytes
<1>8. [k \in 1..((5 * (Len(all) - 6)) \div 8) |-> ByteAt(all, k)] = payload
  BY <1>4, <1>6, <1>7
<1> QED
  BY <1>8 DEF all, data

(* A group of a checksum is a group.                                       *)
LEMMA GroupType ==
  ASSUME NEW c, NEW low
  PROVE  Group(c, low) \in Quintet
<1> DEFINE a == Bit(c, low + 4)
           b == Bit(c, low + 3)
           d == Bit(c, low + 2)
           e == Bit(c, low + 1)
           f == Bit(c, low)
<1>1. a \in 0..1 /\ b \in 0..1 /\ d \in 0..1 /\ e \in 0..1 /\ f \in 0..1
  BY DEF Bit
<1>2. Group(c, low) = 16 * a + 8 * b + 4 * d + 2 * e + f
  BY DEF Group
<1> HIDE DEF a, b, d, e, f
<1>3. 16 * a + 8 * b + 4 * d + 2 * e + f \in 0..31
  BY <1>1
<1> QED
  BY <1>2, <1>3 DEF Quintet

(* A checksum has six groups.                                              *)
LEMMA ChecksumType ==
  ASSUME NEW hrp, NEW data
  PROVE  CreateChecksum(hrp, data) \in Groups /\ Len(CreateChecksum(hrp, data)) = 6
<1> DEFINE p == Xor(Polymod(HrpExpand(hrp) \o data \o [i \in 1..6 |-> 0]), Bits(1))
           x(i) == Group(p, 5 * (6 - i))
<1>1. CreateChecksum(hrp, data) = [i \in 1..6 |-> x(i)]
  BY DEF CreateChecksum
<1> HIDE DEF p
<1>2. \A i \in 1..6 : x(i) \in Quintet
  BY GroupType
<1> HIDE DEF x
<1>3. [i \in 1..6 |-> x(i)] \in Seq(Quintet) /\ Len([i \in 1..6 |-> x(i)]) = 6
  BY <1>2
<1> QED
  BY <1>1, <1>3 DEF Groups

(* The characters of an address prefix.                                    *)
Ascii == 0..127
Printable == Seq(Ascii)

(* The expanded prefix consists of numbers.                                *)
LEMMA HrpExpandType ==
  ASSUME NEW hrp \in Printable
  PROVE  HrpExpand(hrp) \in Seq(Int)
<1> DEFINE n == Len(hrp)
           a == [i \in 1..n |-> hrp[i] \div 32]
           b == [i \in 1..n |-> hrp[i] % 32]
<1>1. n \in Nat /\ \A i \in 1..n : hrp[i] \in Int
  <2>1. n \in Nat /\ \A i \in 1..n : hrp[i] \in Ascii
    BY DEF Printable
  <2>2. Ascii \subseteq Int
    BY DEF Ascii
  <2> QED
    BY <2>1, <2>2
<1> HIDE DEF n
<1>2. a \in Seq(Int)
  <2>1. \A i \in 1..n : hrp[i] \div 32 \in Int
    BY <1>1
  <2> QED
    BY <1>1, <2>1
<1>3. b \in Seq(Int)
  <2>1. \A i \in 1..n : hrp[i] % 32 \in Int
    BY <1>1
  <2> QED
    BY <1>1, <2>1
<1>4. HrpExpand(hrp) = a \o <<0>> \o b
  BY DEF HrpExpand, n
<1> HIDE DEF a, b
<1>5. <<0>> \in Seq(Int)
  OBVIOUS
<1> QED
  BY <1>2, <1>3, <1>4, <1>5, ConcatProperties

(* The node reads the payload out of the address that was made of it.      *)
THEOREM AddressDecodes ==
  ASSUME NEW hrp \in Printable, NEW payload \in Bytes
  PROVE  Decoded(hrp, Bech32Encode(hrp, payload)) = payload /\ Bech32Encode(hrp, payload) \in Bytes
<1> DEFINE data == ConvertBits(payload)
           sum == CreateChecksum(hrp, data)
           address == Bech32Encode(hrp, payload)
           H == HrpExpand(hrp)
           zeros == [i \in 1..6 |-> 0]
           p == Xor(Polymod(H \o data \o zeros), Bits(1))
           head == H \o data
<1>1. data \in Groups /\ sum \in Groups /\ Len(sum) = 6 /\ H \in Seq(Int)
  BY ConvertBitsCarries, ChecksumType, HrpExpandType
<1>2. address = hrp \o <<Separator>> \o data \o sum
  BY DEF Bech32Encode
<1>3. sum = [i \in 1..6 |-> Group(p, 5 * (6 - i))]
  BY DEF CreateChecksum
<1> HIDE DEF data, sum, address, H
<1>4. data \in Seq(Int) /\ sum \in Seq(Int)
  BY <1>1, QuintetSeqs
<1>5. head \in Seq(Int) /\ H \o (data \o sum) = head \o sum
  <2>1. H \in Seq(Int) /\ data \in Seq(Int) /\ sum \in Seq(Int)
    BY <1>1, <1>4
  <2> QED
    BY <2>1, ConcatInts, ConcatIntsAssociative
<1>6. p = Xor(Polymod(head \o [i \in 1..6 |-> 0]), Bits(1))
  OBVIOUS
<1> HIDE DEF p, head
<1>7. Polymod(head \o sum) = Bits(1)
  BY <1>3, <1>4, <1>5, <1>6, ChecksumVerifies
<1>8. /\ hrp \in Seq(Int) /\ hrp \in Bytes /\ <<Separator>> \in Seq(Int) /\ <<Separator>> \in Bytes
  <2>1. Ascii \subseteq Int /\ Ascii \subseteq Byte /\ Separator \in Int /\ Separator \in Byte
    BY DEF Byte, Separator, Ascii
  <2>2. hrp \in Seq(Int) /\ hrp \in Seq(Byte)
    BY <2>1, SeqWithin DEF Printable
  <2>3. \A T : Separator \in T => <<Separator>> \in Seq(T)
    OBVIOUS
  <2> QED
    BY <2>1, <2>2, <2>3 DEF Bytes
<1> DEFINE front == hrp \o <<Separator>>
           all == data \o sum
<1>9. front \in Seq(Int) /\ Len(front) = Len(hrp) + 1 /\ all \in Seq(Int) /\ Len(hrp) \in Nat
  BY <1>4, <1>8
<1>10. address = front \o all
  BY <1>2, <1>4, <1>8, ConcatInts, ConcatIntsAssociative
<1> HIDE DEF front, all
<1>11. SubSeq(address, Len(hrp) + 2, Len(address)) = all
  <2> DEFINE n == Len(hrp)
             k == Len(all)
  <2>1. Len(front) = n + 1 /\ n \in Nat /\ k \in Nat /\ Len(address) = n + 1 + k
    <3>1. Len(front \o all) = Len(front) + Len(all) /\ Len(all) \in Nat
      BY <1>9, ConcatInts
    <3> QED
      BY <1>9, <1>10, <3>1
  <2> HIDE DEF n, k
  <2>2. SubSeq(address, n + 2, n + 1 + k) = all
    <3>1. address \in Seq(Int)
      BY <1>9, <1>10
    <3>2. \A i \in 1..k : address[n + 1 + i] = all[i]
      BY <1>9, <1>10, <2>1 DEF k
    <3>3. SubSeq(address, n + 2, n + 1 + k) = [i \in 1..k |-> address[n + 1 + i]]
      BY <2>1, <3>1
    <3>4. all = [i \in 1..k |-> all[i]]
      BY <1>9 DEF k
    <3> QED
      BY <3>2, <3>3, <3>4
  <2> QED
    BY <2>1, <2>2 DEF n
<1>12. [k \in 1..((5 * (Len(all) - 6)) \div 8) |-> ByteAt(all, k)] = payload
  BY <1>1, <1>4, DecodedBytes DEF data, all
<1>13. Polymod(H \o all) = Bits(1)
  BY <1>5, <1>7 DEF all
<1>14. Decoded(hrp, address) = payload
  BY <1>11, <1>12, <1>13 DEF Decoded, H
<1>15. address \in Bytes
  <2>1. data \in Bytes /\ sum \in Bytes
    BY <1>1, QuintetSeqs
  <2> QED
    BY <1>2, <1>8, <2>1, ConcatProperties DEF Bytes
<1> QED
  BY <1>14, <1>15 DEF address
=============================================================================
