----------------------------- MODULE DomainProofs -----------------------------
(***************************************************************************)
(* Lemmas about the arithmetic of Domain, for every width of the integers  *)
(* and every scale: what wrapping keeps and what a division gives back.    *)
(***************************************************************************)
EXTENDS Domain, SumTheorems, TLAPS

\* Whatever an operation computes, what Go keeps of it is an int64.
LEMMA WrapRange == \A n \in Int : Wrap(n) \in Int64
<1> SUFFICES ASSUME NEW n \in Int PROVE Wrap(n) \in Int64
  OBVIOUS
<1> DEFINE w == 2 * (IntMax + 1)
<1>1. w \in Nat \ {0}
  BY WidthAssumption
<1>2. \A a \in Int : a % w \in 0 .. w - 1
  BY <1>1
<1> QED
  BY <1>2, WidthAssumption DEF Wrap, Int64, IntMin

\* What int64 can hold is computed without loss.
LEMMA WrapIdentity == \A n \in Int64 : Wrap(n) = n
<1> SUFFICES ASSUME NEW n \in Int64 PROVE Wrap(n) = n
  OBVIOUS
<1> DEFINE w == 2 * (IntMax + 1)
<1>1. w \in Nat \ {0} /\ n + IntMax + 1 \in 0 .. w - 1
  BY WidthAssumption DEF Int64, IntMin
<1>2. \A a \in 0 .. w - 1 : a % w = a
  BY <1>1
<1> QED
  BY <1>1, <1>2, WidthAssumption DEF Wrap, Int64, IntMin

\* A remainder and its quotient.
LEMMA Division ==
    ASSUME NEW a \in Int, NEW d \in Nat \ {0}
    PROVE  /\ a \div d \in Int /\ a % d \in 0 .. d - 1
           /\ a = (a \div d) * d + (a % d)
OBVIOUS

LEMMA DivisionUnique ==
    ASSUME NEW d \in Nat \ {0}, NEW k \in Int, NEW r \in 0 .. d - 1
    PROVE  (k * d + r) \div d = k /\ (k * d + r) % d = r
OBVIOUS

\* A quotient is no farther from zero.
LEMMA QuotientBetween ==
    ASSUME NEW a \in Int, NEW d \in Nat \ {0}, NEW low \in Int, NEW high \in Nat,
           low < 0, low <= a, a <= high
    PROVE  low <= a \div d /\ a \div d <= high
<1>1. PICK k \in Int : k = a \div d
  BY Division
<1>2. PICK r \in 0 .. d - 1 : a = k * d + r
  BY <1>1, Division
<1>3. k >= 0 => k <= k * d
  OBVIOUS
<1>4. k < 0 => (k + 1) * d <= k + 1
  OBVIOUS
<1>5. (k + 1) * d = k * d + d
  OBVIOUS
<1> QED
  BY <1>1, <1>2, <1>3, <1>4, <1>5

\* Wrapping forgets multiples of 2^w, so it may be left to the end of a sum.
LEMMA WrapLater == \A m, n \in Int : Wrap(m + Wrap(n)) = Wrap(m + n)
<1> SUFFICES ASSUME NEW m \in Int, NEW n \in Int PROVE Wrap(m + Wrap(n)) = Wrap(m + n)
  OBVIOUS
<1> DEFINE w == 2 * (IntMax + 1)
           a == n + IntMax + 1
           b == m + n + IntMax + 1
<1>1. w \in Nat \ {0} /\ a \in Int /\ b \in Int
  BY WidthAssumption
<1>2. PICK k \in Int : a = k * w + (a % w)
  BY <1>1, Division
<1>3. PICK l \in Int, r \in 0 .. w - 1 : b = l * w + r
  BY <1>1, Division
<1>4. b - k * w = (l - k) * w + r
  BY <1>1, <1>2, <1>3
<1>5. b % w = r /\ (b - k * w) % w = r
  <2>1. l - k \in Int
    OBVIOUS
  <2> HIDE DEF w, b
  <2> QED
    BY <1>1, <1>3, <1>4, <2>1, DivisionUnique
<1>6. m + Wrap(n) + IntMax + 1 = b - k * w
  <2>1. Wrap(n) = (a % w) - IntMax - 1 /\ IntMax \in Int
    BY WidthAssumption DEF Wrap
  <2>2. PICK z \in Int : z = k * w
    BY <1>1
  <2>3. PICK q : q = a % w
    OBVIOUS
  <2>4. n + IntMax + 1 = z + q /\ q \in Int
    BY <1>1, <1>2, <2>2, <2>3, Division
  <2> HIDE DEF w
  <2> QED
    BY <2>1, <2>2, <2>3, <2>4
<1> QED
  BY <1>5, <1>6 DEF Wrap

\* Whole multiples add up, and so do their quotients.
LEMMA WholeSum ==
    ASSUME NEW a \in Int, NEW b \in Int, NEW d \in Nat \ {0}, a % d = 0, b % d = 0
    PROVE  (a + b) % d = 0 /\ (a + b) \div d = (a \div d) + (b \div d)
<1>1. a = (a \div d) * d /\ b = (b \div d) * d /\ a \div d \in Int /\ b \div d \in Int
  BY Division
<1>2. a + b = ((a \div d) + (b \div d)) * d + 0
  BY <1>1
<1> QED
  BY <1>1, <1>2, DivisionUnique

\* A product that fits has an exact value, or none.
LEMMA MarketValueExact ==
    ASSUME NEW q \in Int, NEW price, price.minor \in Int, q * price.minor \in Int64
    PROVE  /\ MarketValue(q, price) = {} <=> (q * price.minor) % Scale # 0
           /\ \A value \in MarketValue(q, price) :
                /\ (q * price.minor) % Scale = 0
                /\ value.minor = (q * price.minor) \div Scale
                /\ value.minor * Scale = q * price.minor
<1> DEFINE product == q * price.minor
<1>1. product \in Int /\ Scale \in Nat \ {0}
  BY WidthAssumption, ScaleAssumption DEF Int64, IntMin
<1>2. MarketValue(q, price) =
        IF product % Scale = 0
        THEN {[minor |-> product \div Scale, currency |-> price.currency]}
        ELSE {}
  BY WrapIdentity DEF MarketValue
<1> HIDE DEF product
<1>3. product % Scale = 0 => (product \div Scale) * Scale = product
  BY <1>1, Division
<1>4. MarketValue(q, price) = {} <=> product % Scale # 0
  BY <1>2
<1>5. ASSUME NEW value \in MarketValue(q, price)
      PROVE  /\ product % Scale = 0
             /\ value.minor = product \div Scale
             /\ value.minor * Scale = product
  BY <1>2, <1>3
<1> QED
  BY <1>4, <1>5 DEF product

-----------------------------------------------------------------------------
(* Powers of ten.                                                          *)

\* The powers up to that of n, a function that the definition determines.
PowersUpto(g, n) == g = [k \in 0 .. n |-> IF k = 0 THEN 1 ELSE 10 * g[k - 1]]

LEMMA PowersExist == \A n \in Nat : \E g : PowersUpto(g, n)
<1> DEFINE S == {n \in Nat : \E g : PowersUpto(g, n)}
<1>1. 0 \in S
  <2> DEFINE g == [k \in 0 .. 0 |-> 1]
  <2>1. PowersUpto(g, 0)
    BY DEF PowersUpto
  <2> HIDE DEF g
  <2> QED
    BY <2>1
<1>2. ASSUME NEW n \in Nat, n \in S PROVE n + 1 \in S
  <2>1. PICK g : PowersUpto(g, n)
    BY <1>2
  <2> DEFINE h == [k \in 0 .. n + 1 |-> IF k = 0 THEN 1 ELSE 10 * g[k - 1]]
  <2>2. \A k \in 0 .. n : h[k] = g[k]
    BY <2>1 DEF PowersUpto
  <2>3. PowersUpto(h, n + 1)
    <3>1. \A k \in 0 .. n + 1 : k # 0 => k - 1 \in 0 .. n
      OBVIOUS
    <3>2. h = [k \in 0 .. n + 1 |-> IF k = 0 THEN 1 ELSE 10 * h[k - 1]]
      BY <2>2, <3>1
    <3> QED
      BY <3>2 DEF PowersUpto
  <2> HIDE DEF h
  <2> QED
    BY <2>3
<1> HIDE DEF S
<1>3. Nat \subseteq S
  BY <1>1, <1>2, Induction
<1> QED
  BY <1>3 DEF S

LEMMA PowersUnique ==
    ASSUME NEW m \in Nat, NEW g, PowersUpto(g, m), NEW n \in Nat, NEW h, PowersUpto(h, n)
    PROVE  \A k \in 0 .. m : k <= n => g[k] = h[k]
<1> DEFINE S == {k \in Nat : k <= m /\ k <= n => g[k] = h[k]}
<1>1. 0 \in S
  BY DEF PowersUpto
<1>2. ASSUME NEW k \in Nat, k \in S PROVE k + 1 \in S
  BY <1>2 DEF PowersUpto
<1> HIDE DEF S
<1>3. Nat \subseteq S
  BY <1>1, <1>2, Induction
<1> QED
  BY <1>3 DEF S

LEMMA PowerDefined ==
    PowerOfTen = [n \in Nat |-> IF n = 0 THEN 1 ELSE 10 * PowerOfTen[n - 1]]
<1> DEFINE g(n) == CHOOSE g : PowersUpto(g, n)
           f == [n \in Nat |-> g(n)[n]]
<1>1. \A n \in Nat : PowersUpto(g(n), n)
  BY PowersExist
<1>2. ASSUME NEW n \in Nat PROVE f[n] = IF n = 0 THEN 1 ELSE 10 * f[n - 1]
  <2>1. f[n] = IF n = 0 THEN 1 ELSE 10 * g(n)[n - 1]
    <3>1. f[n] = g(n)[n] /\ n \in 0 .. n
      OBVIOUS
    <3>2. PowersUpto(g(n), n)
      BY <1>1
    <3> HIDE DEF g, f
    <3> QED
      BY <3>1, <3>2 DEF PowersUpto
  <2>2. n # 0 => g(n)[n - 1] = g(n - 1)[n - 1]
    <3> SUFFICES ASSUME n # 0 PROVE g(n)[n - 1] = g(n - 1)[n - 1]
      OBVIOUS
    <3>1. n - 1 \in Nat /\ n - 1 \in 0 .. n /\ n - 1 <= n - 1
      OBVIOUS
    <3> HIDE DEF g
    <3> QED
      BY <1>1, <3>1, PowersUnique
  <2> HIDE DEF g
  <2> QED
    BY <2>1, <2>2
<1>3. f = [n \in Nat |-> IF n = 0 THEN 1 ELSE 10 * f[n - 1]]
  <2>1. f = [n \in Nat |-> f[n]]
    OBVIOUS
  <2> HIDE DEF f
  <2> QED
    BY <1>2, <2>1
<1> HIDE DEF f
<1> QED
  BY <1>3 DEF PowerOfTen

LEMMA PowerPositive == PowerOfTen[0] = 1 /\ \A n \in Nat : PowerOfTen[n] \in Nat \ {0}
<1> DEFINE S == {n \in Nat : PowerOfTen[n] \in Nat \ {0}}
<1>1. PowerOfTen[0] = 1
  BY PowerDefined
<1>2. ASSUME NEW n \in Nat, n \in S PROVE n + 1 \in S
  <2>1. PowerOfTen[n + 1] = 10 * PowerOfTen[n]
    BY PowerDefined
  <2> QED
    BY <1>2, <2>1
<1>3. 0 \in S
  BY <1>1
<1> HIDE DEF S
<1>4. Nat \subseteq S
  BY <1>2, <1>3, Induction
<1> QED
  BY <1>1, <1>4 DEF S

-----------------------------------------------------------------------------
(* The public text of a quantity.                                          *)

\* A set of naturals that is not empty has a least member.
LEMMA Least ==
    ASSUME NEW S, S \subseteq Nat, S # {}
    PROVE  \E x \in S : \A y \in S : x <= y
<1>1. PICK x \in S : \A y \in S : <<y, x>> \notin OpToRel(<, Nat)
  BY NatLessThanWellFounded, WFMin
<1>2. \A y \in S : y < x => <<y, x>> \in OpToRel(<, Nat)
  BY DEF OpToRel
<1>3. ASSUME NEW y \in S PROVE x <= y
  <2>1. ~(y < x)
    BY <1>1, <1>2
  <2> QED
    BY <2>1
<1> QED
  BY <1>3

\* The digits of a fraction without the zeros at its end, and what they stand for.
LEMMA Trimmed ==
    ASSUME NEW fraction \in Int
    PROVE  LET digits == CHOOSE d \in 0 .. Places :
                   /\ fraction % PowerOfTen[Places - d] = 0
                   /\ \A e \in 0 .. d - 1 : fraction % PowerOfTen[Places - e] # 0
           IN  /\ digits \in 0 .. Places /\ fraction % PowerOfTen[Places - digits] = 0
               /\ (fraction \div PowerOfTen[Places - digits]) * PowerOfTen[Places - digits] = fraction
<1> DEFINE S == {d \in 0 .. Places : fraction % PowerOfTen[Places - d] = 0}
<1>1. Places \in Nat /\ \A d \in 0 .. Places : PowerOfTen[Places - d] \in Nat \ {0}
  <2>1. Places \in Nat /\ \A d \in 0 .. Places : Places - d \in Nat
    BY ScaleAssumption
  <2> QED
    BY <2>1, PowerPositive
<1>2. Places \in S
  <2>1. Places - Places = 0 /\ fraction % 1 = 0
    BY <1>1
  <2> QED
    BY <1>1, <2>1, PowerPositive
<1>3. PICK d \in S : \A e \in S : d <= e
  <2>1. S \subseteq Nat
    <3>1. 0 .. Places \subseteq Nat
      BY <1>1
    <3> QED
      BY <3>1
  <2> HIDE DEF S
  <2> QED
    BY <1>2, <2>1, Least
<1>4. \A e \in 0 .. d - 1 : e \in 0 .. Places /\ e \notin S
  BY <1>1, <1>3
<1> DEFINE digits == CHOOSE x \in 0 .. Places :
               /\ fraction % PowerOfTen[Places - x] = 0
               /\ \A e \in 0 .. x - 1 : fraction % PowerOfTen[Places - e] # 0
<1>5. digits \in 0 .. Places /\ fraction % PowerOfTen[Places - digits] = 0
  BY <1>4
<1> HIDE DEF digits
<1>6. PowerOfTen[Places - digits] \in Nat \ {0}
  BY <1>1, <1>5
<1>7. (fraction \div PowerOfTen[Places - digits]) * PowerOfTen[Places - digits] = fraction
  <2>1. PICK p \in Nat \ {0} : p = PowerOfTen[Places - digits]
    BY <1>6
  <2>2. fraction = (fraction \div p) * p + (fraction % p) /\ fraction % p = 0
    <3>1. fraction \in Int
      OBVIOUS
    <3> QED
      BY <1>5, <2>1, <3>1, Division
  <2>3. (fraction \div p) * p \in Int
    BY <2>1
  <2> QED
    BY <2>1, <2>2, <2>3
<1> QED
  BY <1>5, <1>7 DEF digits

\* What divides is divided exactly, on either side of zero.
LEMMA QuoExact ==
    ASSUME NEW a \in Int, NEW d \in Nat \ {0}, a % d = 0
    PROVE  Quo(a, d) \in Int /\ Quo(a, d) * d = a
<1>1. PICK k \in Int : a = k * d
  <2>1. a = (a \div d) * d + (a % d) /\ a \div d \in Int
    BY Division
  <2> QED
    BY <2>1
<1>2. CASE a < 0
  <2>1. -a = (-k) * d + 0
    BY <1>1
  <2>2. (-a) \div d = -k
    BY <2>1, DivisionUnique
  <2>3. Quo(a, d) = k
    BY <1>1, <1>2, <2>2 DEF Quo
  <2> QED
    BY <1>1, <2>3
<1>3. CASE ~(a < 0)
  <2>1. a = k * d + 0
    BY <1>1
  <2>2. a \div d = k
    BY <2>1, DivisionUnique
  <2>3. Quo(a, d) = k
    BY <1>3, <2>2 DEF Quo
  <2> QED
    BY <1>1, <2>3
<1> QED
  BY <1>2, <1>3

\* The public text of a quantity stands for the quantity, whatever its sign.
LEMMA TextOfQuantity ==
    ASSUME NEW q \in Int
    PROVE  QuantityString(q).whole * Scale + Fraction(QuantityString(q)) = q
<1> DEFINE whole == Quo(q, Scale)
           fraction == q - Scale * whole
           digits == CHOOSE d \in 0 .. Places :
               /\ fraction % PowerOfTen[Places - d] = 0
               /\ \A e \in 0 .. d - 1 : fraction % PowerOfTen[Places - e] # 0
           power == PowerOfTen[Places - digits]
           text == QuantityString(q)
<1>1. Scale \in Nat \ {0} /\ Places \in Nat
  BY ScaleAssumption
<1>2. whole \in Int
  BY <1>1 DEF Quo
<1>3. fraction \in Int /\ whole * Scale + fraction = q
  <2> HIDE DEF whole
  <2>1. PICK product \in Int : product = whole * Scale /\ Scale * whole = product
    BY <1>1, <1>2
  <2> QED
    BY <2>1
<1>4. digits \in 0 .. Places /\ fraction % power = 0
  BY <1>3, Trimmed
<1>5. power \in Nat \ {0}
  <2> HIDE DEF digits
  <2>1. Places - digits \in Nat
    BY <1>1, <1>4
  <2> QED
    BY <2>1, PowerPositive
<1>6. text.whole = whole /\ text.digits = digits /\ text.fraction = Quo(fraction, power)
  BY Zenon DEF QuantityString
<1> HIDE DEF whole, fraction, digits, text
<1>7. Fraction(text) = Quo(fraction, power) * power
  BY <1>6 DEF Fraction
<1> HIDE DEF power
<1>8. Fraction(text) = fraction
  BY <1>3, <1>4, <1>5, <1>7, QuoExact
<1> QED
  BY <1>3, <1>6, <1>8 DEF text

\* The public text of a quantity reads back as the quantity.
LEMMA ReadsBack == \A q \in 0 .. IntMax : ParseQuantity(QuantityString(q)) = {q}
<1> SUFFICES ASSUME NEW q \in 0 .. IntMax PROVE ParseQuantity(QuantityString(q)) = {q}
  OBVIOUS
<1> DEFINE whole == q \div Scale
           fraction == q - Scale * Quo(q, Scale)
           digits == CHOOSE d \in 0 .. Places :
               /\ fraction % PowerOfTen[Places - d] = 0
               /\ \A e \in 0 .. d - 1 : fraction % PowerOfTen[Places - e] # 0
           power == PowerOfTen[Places - digits]
           text == QuantityString(q)
<1>1. /\ Scale \in Nat \ {0} /\ Places \in Nat /\ IntMax \in Nat
      /\ q \in Int64
  BY ScaleAssumption, WidthAssumption DEF Int64, IntMin
<1>2. /\ Quo(q, Scale) = whole /\ whole \in Nat /\ whole <= q
      /\ fraction \in Nat /\ whole * Scale + fraction = q
  <2>1. q = whole * Scale + (q % Scale) /\ q % Scale \in Nat /\ whole \in Int
    BY <1>1, Division
  <2>2. whole \in Nat /\ whole <= q
    BY <1>1
  <2>3. Quo(q, Scale) = whole
    BY <1>1 DEF Quo
  <2>4. PICK product \in Int : product = whole * Scale /\ Scale * whole = product
    BY <1>1, <2>1
  <2> HIDE DEF whole
  <2> QED
    BY <2>1, <2>2, <2>3, <2>4
<1>3. digits \in 0 .. Places /\ (fraction \div power) * power = fraction /\ power \in Nat \ {0}
  <2>1. digits \in 0 .. Places /\ (fraction \div power) * power = fraction
    <3>1. fraction \in Int
      BY <1>2
    <3> QED
      BY <3>1, Trimmed
  <2>2. Places - digits \in Nat
    BY <1>1, <2>1
  <2> QED
    BY <2>1, <2>2, PowerPositive
<1>4. Quo(fraction, power) = fraction \div power
  BY <1>2 DEF Quo
<1>5. /\ text.whole = whole /\ text.digits = digits /\ text.fraction = fraction \div power
      /\ text.sign = NoSign /\ text.points \in {0, 1} /\ ~text.junk
  <2>1. text = [padded |-> FALSE, sign |-> IF Quo(q, Scale) < 0 THEN "-" ELSE NoSign,
                whole |-> Quo(q, Scale), points |-> IF fraction = 0 THEN 0 ELSE 1,
                digits |-> digits, fraction |-> Quo(fraction, power), junk |-> fraction < 0]
    BY DEF QuantityString
  <2> HIDE DEF fraction, digits, power, text, whole
  <2>2. ~(Quo(q, Scale) < 0) /\ ~(fraction < 0)
    BY <1>2
  <2> QED
    BY <1>2, <1>4, <2>1, <2>2
<1>6. Fraction(text) = fraction
  BY <1>3, <1>5 DEF Fraction
<1>7. NoSign # "-"
  BY Zenon DEF NoSign
<1>8. ParseInt(text)
  BY <1>1, <1>2, <1>5 DEF ParseInt
<1>9. ParseQuantity(text) = {Wrap(text.whole * Scale + Fraction(text))}
  BY <1>3, <1>5, <1>7, <1>8 DEF ParseQuantity
<1>10. text.whole * Scale + Fraction(text) = q
  BY <1>2, <1>5, <1>6
<1> QED
  BY <1>1, <1>9, <1>10, WrapIdentity

=============================================================================
