---------------------------- MODULE MCCoreAdapter ----------------------------
(***************************************************************************)
(* CoreAdapter on narrow integers.  With IntMax = 1279 and two places,     *)
(* 12.79 is the largest quantity.  Responses vary one part at a time       *)
(* around a well-formed one: the envelope, an account, or a position.      *)
(***************************************************************************)
EXTENDS CoreAdapter

Asked == {"cust"}
Codes == {"USD", "EUR"}
Types == {"BROKERAGE", "RETIREMENT"}
V1Keys == {"customer_id", "accounts"}
V2Keys == {"client", "portfolios"}

Currencies == {
    [code |-> "USD", canonical |-> TRUE,  length |-> 3],
    [code |-> "USD", canonical |-> FALSE, length |-> 3],    \* " usd "
    [code |-> "U$D", canonical |-> TRUE,  length |-> 3],
    [code |-> "US",  canonical |-> TRUE,  length |-> 2]}

\* The last fraction in range beside the largest whole number and the first
\* beyond, a digit that is not the last, a zero before one, and one digit too many.
Fractions == {<<0, 0>>, <<1, 7>>, <<Places, 5>>, <<Places + 1, 0>>,
              <<Places, IntMax % Scale>>, <<Places, (IntMax % Scale) + 1>>}

Wholes == {-1, 0, 3, IntMax \div Scale, IntMax \div Scale + 1, IntMax, IntMax + 1}

Quantities == {
    [padded |-> pad, sign |-> sg, whole |-> w, points |-> n,
     digits |-> f[1], fraction |-> f[2], junk |-> j] :
        pad \in BOOLEAN, sg \in {"", "+", "-"}, w \in Wholes,
        n \in 0 .. 2, f \in Fractions, j \in BOOLEAN}

\* Without a point there are no fraction digits; without digits nothing is junk.
QuantityTexts == {t \in Quantities :
    (t.points = 0 => t.digits = 0) /\ (t.junk => t.whole >= 0)}

OneAndAHalf == [padded |-> FALSE, sign |-> "", whole |-> 1, points |-> 1,
                digits |-> 1, fraction |-> 5, junk |-> FALSE]
Dollars(n) == [minor |-> {n}, currency |-> {[code |-> "USD", canonical |-> TRUE, length |-> 3]}]
Stock(s, t) == [symbol |-> s, quantity |-> t]

GoodItem == [id |-> {"acct"}, type |-> {"BROKERAGE"}, cash |-> {Dollars(-128)},
             positions |-> {<<Stock({"AAA"}, {OneAndAHalf})>>}]

Cashes == {{}} \cup {{[minor |-> m, currency |-> c]} :
            m \in {{}, {0}, {127}}, c \in {{}} \cup {{t} : t \in Currencies}}

Items ==
    {[GoodItem EXCEPT !.id = i, !.type = t, !.cash = c] :
        i \in {{}, {""}, {"other"}}, t \in {{}, {""}, {"RETIREMENT"}, {"MARGIN"}}, c \in Cashes}
    \cup {[GoodItem EXCEPT !.positions = {<<Stock({"BBB"}, {t})>>}] : t \in QuantityTexts}
    \cup {[GoodItem EXCEPT !.positions = p] : p \in
            {{}, {<<>>}, {<<Stock({}, {OneAndAHalf})>>}, {<<Stock({""}, {OneAndAHalf})>>},
             {<<Stock({"BBB"}, {})>>}, {<<Stock({"AAA"}, {OneAndAHalf}), Stock({}, {})>>},
             {<<Stock({"BBB"}, {OneAndAHalf}), Stock({"AAA"}, {OneAndAHalf})>>}}}

Lists == {{}, {<<>>}}
    \cup {{<<GoodItem, item>>} : item \in Items}
    \cup {{<<item, GoodItem>>} : item \in Items}

Body(keys, list) == [json |-> TRUE, keys |-> keys, strict |-> TRUE, id |-> {"cust"}, list |-> list]
Response(body) == [status |-> 200, size |-> 10, body |-> body]

Envelopes ==
    {[status |-> st, size |-> n, body |->
        [json |-> js, keys |-> ks, strict |-> sd, id |-> i, list |-> {<<GoodItem>>}]] :
        st \in {200, 404, 500}, n \in {10, 11}, js \in BOOLEAN, sd \in BOOLEAN,
        ks \in SUBSET (V1Keys \cup V2Keys), i \in {{}, {"cust"}, {"someone else"}}}

Responses == Envelopes \cup {Response(Body(keys, list)) : keys \in {V1Keys, V2Keys}, list \in Lists}
=============================================================================
