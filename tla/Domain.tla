-------------------------------- MODULE Domain --------------------------------
(***************************************************************************)
(* The exact arithmetic of internal/domain/money.go on int64 values.       *)
(*                                                                         *)
(* An operation that can fail returns the set of its results: one value,   *)
(* or none for an error.  Go's integers wrap, so every product and sum     *)
(* goes through Wrap.                                                      *)
(*                                                                         *)
(* Texts are what the parsers tell apart.  A currency text has the code    *)
(* that trimming and upper-casing make of it; a quantity text has its      *)
(* sign, its whole number, its points and its fraction digits.             *)
(***************************************************************************)
EXTENDS Integers

CONSTANTS
    IntMax,     \* the largest int64
    Places,     \* decimal places of a quantity: 6
    Scale,      \* units of a quantity per whole: 1_000_000
    Letters     \* the currency codes that consist of upper-case letters

PowerOfTen[n \in Nat] == IF n = 0 THEN 1 ELSE 10 * PowerOfTen[n - 1]

ASSUME WidthAssumption == IntMax \in Nat \ {0}
ASSUME ScaleAssumption == Places \in Nat /\ Scale \in 1 .. IntMax /\ Scale = PowerOfTen[Places]

IntMin == -IntMax - 1
Int64 == IntMin .. IntMax

\* Two's complement.
Wrap(n) == ((n + IntMax + 1) % (2 * (IntMax + 1))) - IntMax - 1

NoSign == ""

-----------------------------------------------------------------------------
(* Money: [minor, currency].                                               *)

NewMoney(minor, text) ==
    IF text.length = 3 THEN {[minor |-> minor, currency |-> text.code]} ELSE {}

\* Bug: currencies are not compared.
MoneyAddAny(m, n) == {[minor |-> Wrap(m.minor + n.minor), currency |-> m.currency]}

MoneyAdd(m, n) ==
    IF m.currency = n.currency
    THEN {[minor |-> Wrap(m.minor + n.minor), currency |-> m.currency]}
    ELSE {}

\* Integer division truncates towards zero.
Quo(n, d) == IF n < 0 THEN -((-n) \div d) ELSE n \div d

\* Bug: the sign is taken from the units, so an amount between -1 and 0 loses it.
AmountUnits(minor) ==
    LET size == IF minor < 0 THEN Wrap(-minor) ELSE minor
    IN  [sign |-> IF Quo(minor, 100) < 0 THEN "-" ELSE NoSign,
         units |-> Quo(size, 100), cents |-> size - 100 * Quo(size, 100)]

\* Money.Amount.  The smallest int64 has no opposite: its size stays negative.
Amount(minor) ==
    LET size == IF minor < 0 THEN Wrap(-minor) ELSE minor
    IN  [sign |-> IF minor < 0 THEN "-" ELSE NoSign,
         units |-> Quo(size, 100), cents |-> size - 100 * Quo(size, 100)]

-----------------------------------------------------------------------------
(* Quantities, in millionths.                                              *)

\* The fraction digits, padded with zeros to all places.
Fraction(text) == text.fraction * PowerOfTen[Places - text.digits]

ParseInt(text) == text.whole \in 0 .. IntMax /\ ~text.junk

ParseQuantity(text) ==
    IF text.sign # "-" /\ text.points < 2 /\ ParseInt(text) /\ text.digits <= Places
    THEN {Wrap(text.whole * Scale + Fraction(text))}
    ELSE {}

\* Bug: the zeros that pad the fraction are not put back.
QuantityStringUnpadded(q) ==
    LET fraction == q - Scale * Quo(q, Scale)
        digits == CHOOSE d \in 0 .. Places :
            /\ fraction < PowerOfTen[d]
            /\ \A e \in 0 .. d - 1 : fraction >= PowerOfTen[e]
    IN  [padded |-> FALSE, sign |-> IF Quo(q, Scale) < 0 THEN "-" ELSE NoSign, whole |-> Quo(q, Scale),
         points |-> IF fraction = 0 THEN 0 ELSE 1, digits |-> digits,
         fraction |-> fraction, junk |-> fraction < 0]

\* Quantity.String: the fraction without the zeros at its end.  A negative
\* fraction keeps its sign behind the point.
QuantityString(q) ==
    LET fraction == q - Scale * Quo(q, Scale)
        digits == CHOOSE d \in 0 .. Places :
            /\ fraction % PowerOfTen[Places - d] = 0
            /\ \A e \in 0 .. d - 1 : fraction % PowerOfTen[Places - e] # 0
    IN  [padded |-> FALSE, sign |-> IF Quo(q, Scale) < 0 THEN "-" ELSE NoSign, whole |-> Quo(q, Scale),
         points |-> IF fraction = 0 THEN 0 ELSE 1, digits |-> digits,
         fraction |-> Quo(fraction, PowerOfTen[Places - digits]), junk |-> fraction < 0]

\* Bug: what does not divide is rounded down.
MarketValueRounded(quantity, price) ==
    {[minor    |-> Wrap(quantity * price.minor) \div Scale,
      currency |-> price.currency]}

MarketValue(quantity, price) ==
    LET product == Wrap(quantity * price.minor)
    IN  IF product % Scale = 0
        THEN {[minor |-> product \div Scale, currency |-> price.currency]}
        ELSE {}

=============================================================================
