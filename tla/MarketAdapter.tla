---------------------------- MODULE MarketAdapter ----------------------------
(***************************************************************************)
(* MarketClient.Prices: from a Market response to prices by symbol.        *)
(*                                                                         *)
(* A body is a JSON value that ends at byte "end" of "size" bytes; the     *)
(* decoder reads one value and looks no further.  Members are sets as in   *)
(* CoreAdapter: empty when missing or null.  A missing symbol is "", a     *)
(* missing time is the zero time 0.                                        *)
(***************************************************************************)
EXTENDS Domain, Sequences

CONSTANTS
    MaxResponseBytes,   \* maxResponseBytes
    MarketResponses,    \* the responses Market can send
    SymbolLists         \* the lists of symbols Prices is called with

VARIABLES
    symbols,    \* the symbols asked for
    response,   \* Market's response
    outcome,    \* pending, prices or failed
    prices      \* the prices by symbol

NoText == ""

marketVars == <<symbols, response, outcome, prices>>

\* The entries the decoder makes of the body, if the value ends within the limit.
Decoded(r) == IF r.json /\ r.strict /\ r.end <= MaxResponseBytes THEN {r.entries} ELSE {}

\* Absent members decode to Go's zero values: the amount to 0, the currency to "".
PriceOf(entry) ==
    IF entry.symbol = NoText \/ entry.asOf = 0 THEN {}
    ELSE UNION {{[value |-> money, asOf |-> entry.asOf] : money \in NewMoney(minor, text)} :
                  minor \in IF entry.minor = {} THEN {0} ELSE entry.minor,
                  text \in entry.currency}

\* Bug: an entry that fails its validation is passed over.
PricesOfSkipping(entries) ==
    LET good == SelectSeq(entries, LAMBDA e : PriceOf(e) # {})
        last(s) == CHOOSE k \in DOMAIN good :
            good[k].symbol = s /\ \A j \in DOMAIN good : good[j].symbol = s => j <= k
    IN  {[s \in {good[k].symbol : k \in DOMAIN good} |->
            CHOOSE price \in PriceOf(good[last(s)]) : TRUE]}

\* Bug: the first entry for a symbol stays.
PricesOfFirst(entries) ==
    LET first(s) == CHOOSE k \in DOMAIN entries :
            entries[k].symbol = s /\ \A j \in DOMAIN entries : entries[j].symbol = s => k <= j
    IN  IF \E k \in DOMAIN entries : PriceOf(entries[k]) = {} THEN {}
        ELSE {[s \in {entries[k].symbol : k \in DOMAIN entries} |->
                CHOOSE price \in PriceOf(entries[first(s)]) : TRUE]}

\* Every entry must be valid, asked for or not; the last one for a symbol stays.
PricesOf(entries) ==
    LET last(s) == CHOOSE k \in DOMAIN entries :
            entries[k].symbol = s /\ \A j \in DOMAIN entries : entries[j].symbol = s => j <= k
    IN  IF \E k \in DOMAIN entries : PriceOf(entries[k]) = {} THEN {}
        ELSE {[s \in {entries[k].symbol : k \in DOMAIN entries} |->
                CHOOSE price \in PriceOf(entries[last(s)]) : TRUE]}

Translate(r) ==
    IF r.status = 200 THEN UNION {PricesOf(entries) : entries \in Decoded(r)} ELSE {}

-----------------------------------------------------------------------------
MarketInit ==
    /\ symbols \in SymbolLists
    /\ response \in MarketResponses
    /\ outcome = "pending"
    /\ prices = <<>>

\* No symbols: an empty map, and no request leaves.
MarketSkipped ==
    /\ outcome = "pending"
    /\ symbols = <<>>
    /\ outcome' = "prices"
    /\ UNCHANGED <<symbols, response, prices>>

MarketRejected ==
    /\ outcome = "pending"
    /\ symbols # <<>>
    /\ Translate(response) = {}
    /\ outcome' = "failed"
    /\ UNCHANGED <<symbols, response, prices>>

MarketMapped ==
    /\ outcome = "pending"
    /\ symbols # <<>>
    /\ \E table \in Translate(response) : prices' = table
    /\ outcome' = "prices"
    /\ UNCHANGED <<symbols, response>>

MarketNext == MarketSkipped \/ MarketRejected \/ MarketMapped

MarketSpec == MarketInit /\ [][MarketNext]_marketVars

-----------------------------------------------------------------------------
(* Properties.                                                             *)

\* One entry without symbol, time or currency rejects the whole answer, even
\* if it is for a symbol nobody asked for: there are no half-read price lists.
MarketFailsClosed ==
    outcome = "prices" /\ symbols # <<>> =>
        /\ response.status = 200
        /\ \A k \in DOMAIN response.entries :
              /\ response.entries[k].symbol # NoText
              /\ response.entries[k].asOf > 0
              /\ \E text \in response.entries[k].currency : text.length = 3

\* architecture.md:67: "Responses larger than 1 MiB are not decoded."
OversizeNotDecoded ==
    outcome = "prices" /\ symbols # <<>> => response.size <= MaxResponseBytes

\* api/market-mock.openapi.yaml:65 requires amount_minor; architecture.md:69
\* has invalid upstream data fail closed.
AmountsGiven ==
    outcome = "prices" /\ symbols # <<>> =>
        \A k \in DOMAIN response.entries : response.entries[k].minor # {}

=============================================================================
