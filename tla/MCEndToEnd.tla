----------------------------- MODULE MCEndToEnd -----------------------------
(***************************************************************************)
(* EndToEnd with the data of the mocks in real minor units, quantities of  *)
(* one decimal place, and integers wide enough for both.  Responses vary   *)
(* around those of the mocks; sizes are around a limit of ten.             *)
(***************************************************************************)
EXTENDS EndToEnd

Codes == {"USD", "EUR"}
Types == {"BROKERAGE", "RETIREMENT"}
Asked == {Seeded, "cust-2002"}

Texts == Codes \cup Types \cup Asked \cup {"acct-brokerage-01", "acct-retirement-01", "a"}
    \cup {"AAPL", "BND", "CASH", "MARGIN"}

Currency == {USD, [USD EXCEPT !.canonical = FALSE], [USD EXCEPT !.code = "EUR"], [USD EXCEPT !.length = 2]}
QuantityTexts == {Units(0), [Units(12) EXCEPT !.points = 1, !.digits = 1, !.fraction = 4],
          [Units(1) EXCEPT !.points = 1, !.digits = 1, !.fraction = 5], [Units(3) EXCEPT !.padded = TRUE]}

\* The second account of the seed, with other members.
Item == CoreItem("acct-retirement-01", "RETIREMENT", 260000, "BND", 200)
Others ==
    {[Item EXCEPT !.cash = {[minor |-> {n}, currency |-> {c}]}] :
        n \in {0, -50, -250000, IntMin}, c \in Currency}
    \cup {[Item EXCEPT !.positions = {p}] : p \in {<<>>} \cup
            UNION {{<<[symbol |-> {s}, quantity |-> {t}]>>} : s \in {"AAPL", "CASH"}, t \in QuantityTexts}}
    \cup {[Item EXCEPT !.type = {"MARGIN"}], [Item EXCEPT !.id = {}]}

Bodies == {V1Response, V2Response}
CoreFaults ==
    {[status |-> 200, size |-> 10, body |-> [b EXCEPT !.list = {<<item, o>>}]] :
        b \in Bodies, item \in {Item, CoreItem("a", "BROKERAGE", 0, "AAPL", 1)}, o \in Others}
    \cup {[status |-> st, size |-> n, body |-> [b EXCEPT !.strict = sd, !.id = id, !.list = list]] :
            st \in {200, 404, 500}, n \in {10, 11}, b \in Bodies, sd \in BOOLEAN,
            id \in {{}, {Seeded}, {"cust-2002"}}, list \in {{}, {<<>>}, {<<Item>>}}}

Entry(s) == [symbol |-> s, minor |-> {5}, currency |-> {USD}, asOf |-> 2]
EntrySet == [symbol : {"", "AAPL", "BND"}, minor : {{}, {5}, {-5}},
             currency : {{}} \cup {{c} : c \in Currency}, asOf : 0 .. 2]
EntryLists ==
    {<<Entry("AAPL"), Entry("BND"), e>> : e \in EntrySet}
    \cup {<<e, Entry("AAPL"), Entry("BND")>> : e \in EntrySet}
    \cup {<<>>} \cup {<<e>> : e \in EntrySet}

ASSUME SeedAssumption == SeedFits

MarketFaults ==
    {[status |-> 200, json |-> TRUE, strict |-> TRUE, end |-> 9, size |-> 9, entries |-> es] :
        es \in EntryLists}
    \cup {r \in [status : {200, 404, 500}, json : BOOLEAN, strict : BOOLEAN,
                 end : {10, 11}, size : {10, 11}, entries : {<<Entry("AAPL"), Entry("BND")>>}] :
            r.end <= r.size}
=============================================================================
