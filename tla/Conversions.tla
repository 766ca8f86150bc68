----------------------------- MODULE Conversions -----------------------------
(***************************************************************************)
(* The decimal arithmetic of beezee_utils.py: amounts and prices between   *)
(* what a user sees (display) and what the chain stores.  A Decimal is a   *)
(* coefficient and a power of ten; both matter, because orders and trades  *)
(* are compared by their text.  Text is a sequence of character codes.     *)
(* Values are positive and short of Decimal's 28 digits.                   *)
(***************************************************************************)
EXTENDS Integers, Sequences

CONSTANT PriceSigDigits   \* DEFAULT_PRICE_SIG_DIGITS

ASSUME ConversionsAssumption == PriceSigDigits \in Nat

Decimal(c, e) == [c |-> c, e |-> e]
Times(x, y) == Decimal(x.c * y.c, x.e + y.e)
PowerOfTen(n) == Decimal(1, n)
Per(x, power) == Decimal(x.c, x.e - power.e)

TenTo[n \in Nat] == IF n = 0 THEN 1 ELSE 10 * TenTo[n - 1]

Low(x, y) == IF x.e < y.e THEN x.e ELSE y.e
At(x, e) == x.c * TenTo[x.e - e]
Less(x, y) == At(x, Low(x, y)) < At(y, Low(x, y))
Same(x, y) == At(x, Low(x, y)) = At(y, Low(x, y))

CeilingOver(n, d) == (n + d - 1) \div d

(* The integer nearest to n/d, an even one when two are.                   *)
HalfEven(n, d) == IF \/ 2 * (n % d) > d
                     \/ 2 * (n % d) = d /\ (n \div d) % 2 = 1
                  THEN n \div d + 1 ELSE n \div d

ToIntegral(x) == IF x.e >= 0 THEN At(x, 0) ELSE HalfEven(x.c, TenTo[-x.e])
Ceiling(x) == IF x.e >= 0 THEN At(x, 0) ELSE CeilingOver(x.c, TenTo[-x.e])
CeilingOfInverse(x) == IF x.e >= 0 THEN CeilingOver(1, At(x, 0))
                       ELSE CeilingOver(TenTo[-x.e], x.c)

-----------------------------------------------------------------------------
(* str and format(x, "f"), and the Decimal a text is read as. *)

Zero == 48
Dot == 46

Digits[n \in Nat] == IF n < 10 THEN <<Zero + n>>
                     ELSE Append(Digits[n \div 10], Zero + (n % 10))

Fraction(n, places) == [i \in 1..places |-> Zero + ((n \div TenTo[places - i]) % 10)]

Text(x) == IF x.e >= 0 THEN Digits[At(x, 0)]
           ELSE Digits[x.c \div TenTo[-x.e]] \o <<Dot>> \o Fraction(x.c, -x.e)

Value(text) ==
  LET n[i \in 0..Len(text)] == IF i = 0 THEN 0
                               ELSE IF text[i] = Dot THEN n[i - 1]
                               ELSE 10 * n[i - 1] + text[i] - Zero
  IN n[Len(text)]

Places(text) == LET dots == {i \in 1..Len(text) : text[i] = Dot}
                IN IF dots = {} THEN 0 ELSE Len(text) - CHOOSE i \in dots : TRUE

Read(text) == Decimal(Value(text), -Places(text))

-----------------------------------------------------------------------------
(* A market has the exponents of its base and quote tokens. *)

Quantum(exponent) == PowerOfTen(-exponent)
DisplayPriceScaler(m) == PowerOfTen(m.quote - m.base)
ChainPriceScaler(m) == Per(PowerOfTen(0), DisplayPriceScaler(m))

(* Mutant: the increment of the chain price is taken for that of the       *)
(* display price.                                                          *)
IncrementOfChain(m) == PowerOfTen(-PriceSigDigits)

MinPriceIncrement(m) == PowerOfTen(m.base - m.quote - PriceSigDigits)

DisplayAmountToChain(amount, exponent) == Digits[ToIntegral(Per(amount, Quantum(exponent)))]
ChainAmountToDisplay(text, exponent) == Times(Read(text), Quantum(exponent))
DisplayPriceToChain(price, m) == Text(Times(price, DisplayPriceScaler(m)))
ChainPriceToDisplay(text, m) == Times(Read(text), ChainPriceScaler(m))

MinimumOrderSize(text, m) ==
  IF Value(text) = 0 THEN Quantum(m.base)
  ELSE Times(Decimal(2 * CeilingOfInverse(Read(text)), 0), Quantum(m.base))
=============================================================================
