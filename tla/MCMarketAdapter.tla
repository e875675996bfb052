--------------------------- MODULE MCMarketAdapter ---------------------------
(* MarketAdapter on answers of up to two entries around the size limit of 10. *)
EXTENDS MarketAdapter

Codes == {"USD"}
Currencies == {
    [code |-> "USD", canonical |-> TRUE,  length |-> 3],
    [code |-> "USD", canonical |-> FALSE, length |-> 3],
    [code |-> "US",  canonical |-> TRUE,  length |-> 2]}

EntrySet == [symbol : {"", "AAA", "BBB"}, minor : {{}, {5}, {-128}},
             currency : {{}} \cup {{t} : t \in Currencies}, asOf : 0 .. 2]

Usual == [symbol |-> "AAA", minor |-> {7}, currency |-> {[code |-> "USD", canonical |-> TRUE, length |-> 3]},
          asOf |-> 1]

EntryLists == {<<>>} \cup {<<e>> : e \in EntrySet}
    \cup {<<Usual, e>> : e \in EntrySet} \cup {<<e, Usual>> : e \in EntrySet}

Responses ==
    {[status |-> 200, json |-> TRUE, strict |-> TRUE, end |-> 9, size |-> 9, entries |-> es] :
        es \in EntryLists}
    \cup {r \in [status : {200, 404, 500}, json : BOOLEAN, strict : BOOLEAN,
                 end : {10, 11}, size : {10, 11, 12}, entries : {<<Usual>>}] : r.end <= r.size}

Lists == {<<>>, <<"AAA">>, <<"AAA", "BBB">>}
=============================================================================
