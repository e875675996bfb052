-------------------------- MODULE MCPortfolioService --------------------------
(***************************************************************************)
(* PortfolioService on 8-bit integers and quantities of one decimal place: *)
(* amounts from -128 to 127, products that wrap, fractions of a minor      *)
(* unit, two currencies, and prices for all, some or none of the symbols.  *)
(***************************************************************************)
EXTENDS PortfolioService, TLC

Codes == {"USD", "EUR"}

Cash == [minor : {0, -128, 100}, currency : {"USD", "EUR"}]
Holds == [symbol : {"AAA", "BBB"}, quantity : {5, 20}]
\* The id tells accounts of different cash apart.
Account(cash, positions) ==
    [id |-> ToString(cash.minor), type |-> "BROKERAGE", cash |-> cash, positions |-> positions]

Singles == {<<Account(c, ps)>> : c \in Cash, ps \in {<<>>} \cup (Holds \X Holds)}
Small == {Account(c, ps) : c \in Cash \ [minor : {-128}, currency : {"EUR"}],
                           ps \in {<<>>} \cup {<<h>> : h \in Holds}}
Pairs == Small \X Small

Texts == Codes \cup {"AAA", "BBB", "BROKERAGE"} \cup {ToString(cash.minor) : cash \in Cash}

Lists == {<<>>} \cup Singles \cup Pairs

\* 2 x 5 tenths and 3 x 5 tenths tell whole from fractional values; 20 x 60
\* wraps to -80, which divides by ten although the value is -8, not 120.
Quotes == [value : [minor : {2, 3, 60}, currency : {"USD"}], asOf : {1}]
    \cup [value : [minor : {2}, currency : {"EUR"}], asOf : {2}]
    \cup [value : [minor : {2}, currency : {"USD"}], asOf : {2}]

Tables == {<<>>} \cup UNION {[S -> Quotes] : S \in {{"AAA"}, {"BBB"}, {"AAA", "BBB"}}}
=============================================================================
