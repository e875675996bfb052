------------------------------- MODULE EndToEnd -------------------------------
(***************************************************************************)
(* One request through the whole demo stack: the Core and Market mocks,    *)
(* both adapters, the service, and the public response.                    *)
(*                                                                         *)
(* The components are the modules of their own, put together by what one   *)
(* hands the next.  An upstream answers as its mock does, or with a        *)
(* response from a set of others.                                          *)
(***************************************************************************)
EXTENDS Domain, SequencesExt

CONSTANTS
    Names,              \* ids, account types, symbols and currencies
    MaxResponseBytes,   \* maxResponseBytes
    Categories,         \* coreCategories
    Customers,          \* the customers asked for
    CoreResponses,      \* other responses of Core than the mock's
    MarketResponses     \* other responses of Market than the mock's

VARIABLES
    customerID, coreResponse, coreOutcome, coreAccounts,        \* Core adapter
    symbols, marketResponse, marketOutcome, marketPrices,       \* Market adapter
    pc, accounts, prices, i, j, accountValue, holdings, result, \* service
    answer                                                      \* the response, none at first

Core == INSTANCE CoreAdapter
    WITH response <- coreResponse, outcome <- coreOutcome, accounts <- coreAccounts
Market == INSTANCE MarketAdapter
    WITH response <- marketResponse, outcome <- marketOutcome, prices <- marketPrices, SymbolLists <- {}
Service == INSTANCE PortfolioService WITH AccountLists <- {}, PriceTables <- {}

coreVars == <<customerID, coreResponse, coreOutcome, coreAccounts>>
marketVars == <<symbols, marketResponse, marketOutcome, marketPrices>>
serviceVars == <<pc, accounts, prices, i, j, accountValue, holdings, result>>
vars == <<coreVars, marketVars, serviceVars, answer>>

-----------------------------------------------------------------------------
(* The mocks.                                                              *)

Seeded == "cust-1001"
USD == [code |-> "USD", canonical |-> TRUE, length |-> 3]
Units(n) == [padded |-> FALSE, sign |-> NoSign, whole |-> n, points |-> 0,
             digits |-> 0, fraction |-> 0, junk |-> FALSE]

CoreItem(id, type, minor, symbol, n) ==
    [id |-> {id}, type |-> {type}, cash |-> {[minor |-> {minor}, currency |-> {USD}]},
     positions |-> {<<[symbol |-> {symbol}, quantity |-> {Units(n)}]>>}]

V1Response ==
    [json |-> TRUE, strict |-> TRUE, keys |-> {"customer_id", "accounts"}, id |-> {Seeded},
     list |-> {<<CoreItem("acct-brokerage-01", "BROKERAGE", 250000, "AAPL", 100),
                 CoreItem("acct-retirement-01", "RETIREMENT", 260000, "BND", 200)>>}]

\* Bug: the second release reports the cash of the accounts the other way round.
V2ResponseSwapped ==
    [json |-> TRUE, strict |-> TRUE, keys |-> {"client", "portfolios"}, id |-> {Seeded},
     list |-> {<<CoreItem("acct-brokerage-01", "BROKERAGE", 260000, "AAPL", 100),
                 CoreItem("acct-retirement-01", "RETIREMENT", 250000, "BND", 200)>>}]

V2Response ==
    [json |-> TRUE, strict |-> TRUE, keys |-> {"client", "portfolios"}, id |-> {Seeded},
     list |-> {<<CoreItem("acct-brokerage-01", "BROKERAGE", 250000, "AAPL", 100),
                 CoreItem("acct-retirement-01", "RETIREMENT", 260000, "BND", 200)>>}]

\* The versions parseContractVersion lets the mock start with.
ContractVersions == {"v1", "v2"}

CoreMock(version, customer) ==
    [status |-> IF customer = Seeded THEN 200 ELSE 404, size |-> 1,
     body |-> IF version = "v2" THEN V2Response ELSE V1Response]

MarketData == [AAPL |-> 18525, BND |-> 5375]

MarketMock(list) ==
    LET known == \A k \in DOMAIN list : list[k] \in DOMAIN MarketData IN
    [status |-> IF known THEN 200 ELSE 404, json |-> TRUE, strict |-> known, end |-> 1, size |-> 1,
     entries |-> IF known
        THEN [k \in DOMAIN list |->
            [symbol |-> list[k], minor |-> {MarketData[list[k]]}, currency |-> {USD}, asOf |-> 1]]
        ELSE <<>>]

MockTexts ==
    {Seeded, "acct-brokerage-01", "acct-retirement-01", "BROKERAGE", "RETIREMENT",
     "AAPL", "BND", "USD"}

-----------------------------------------------------------------------------
(* Responses are typed as the adapters' structs are: amounts are int64, and  *)
(* a currency of three letters is not empty.                                 *)

CurrencyOK(text) == text.length = 3 => text.code \in Names \ {Service!NoCurrency}

CoreItemTyped(item) ==
    /\ item.id \cup item.type \subseteq Names
    /\ \A cash \in item.cash : cash.minor \subseteq Int64 /\ \A text \in cash.currency : CurrencyOK(text)
    /\ \A texts \in item.positions : \A p \in DOMAIN texts : texts[p].symbol \subseteq Names

CoreResponseOK(r) ==
    /\ Core!ResponseOK(r)
    /\ \A list \in r.body.list : \A k \in DOMAIN list : CoreItemTyped(list[k])

EntryOK(entry) ==
    /\ entry.symbol \in Names \cup {Market!NoText} /\ entry.asOf \in Nat
    /\ Core!AtMostOne(entry.minor) /\ entry.minor \subseteq Int64
    /\ Core!AtMostOne(entry.currency) /\ \A text \in entry.currency : CurrencyOK(text)

MarketResponseOK(r) ==
    Core!IsList(r.entries) /\ \A k \in DOMAIN r.entries : EntryOK(r.entries[k])

ASSUME MocksAssumption == MockTexts \subseteq Names \ {Service!NoCurrency} /\ 260000 <= IntMax
ASSUME AdapterAssumption == MaxResponseBytes \in Nat /\ Core!NoText \notin Categories
ASSUME CoreAssumption == \A r \in CoreResponses : CoreResponseOK(r)
ASSUME MarketAssumption == \A r \in MarketResponses : MarketResponseOK(r)

-----------------------------------------------------------------------------
(* The public response.                                                    *)

MapMoney(m) == [amount |-> Amount(m.minor), currency |-> m.currency]

MapHolding(h) ==
    [symbol |-> h.symbol, quantity |-> QuantityString(h.quantity),
     unitPrice |-> MapMoney(h.unitPrice), marketValue |-> MapMoney(h.marketValue)]

MapAccount(a) ==
    [accountId |-> a.id, accountType |-> a.type, cashBalance |-> MapMoney(a.cash),
     marketValue |-> MapMoney(a.marketValue),
     holdings |-> [k \in DOMAIN a.holdings |-> MapHolding(a.holdings[k])]]

MapPortfolio(value) ==
    [customerId |-> customerID, asOf |-> value.asOf, totalMarketValue |-> MapMoney(value.total),
     accounts |-> [k \in DOMAIN value.accounts |-> MapAccount(value.accounts[k])]]

-----------------------------------------------------------------------------
Init ==
    /\ customerID \in Customers
    /\ coreResponse \in CoreResponses \cup {CoreMock(version, customerID) : version \in ContractVersions}
    /\ coreOutcome = "pending"
    /\ coreAccounts = <<>>
    /\ symbols = <<>>
    /\ marketResponse = <<>>
    /\ marketOutcome = "none"
    /\ marketPrices = <<>>
    /\ Service!ServiceInit
    /\ answer = <<>>

CoreAnswers ==
    /\ Core!CoreNext
    /\ UNCHANGED <<marketVars, serviceVars, answer>>

LoadAccounts ==
    /\ coreOutcome = "accounts"
    /\ Service!LoadAccounts(coreAccounts)
    /\ UNCHANGED <<coreVars, marketVars, answer>>

AccountsUnavailable ==
    /\ coreOutcome \in {"notFound", "failed"}
    /\ Service!AccountsUnavailable
    /\ UNCHANGED <<coreVars, marketVars, answer>>

\* The symbols come sorted; only that each comes once matters.
CallMarket ==
    /\ pc = "prices"
    /\ marketOutcome = "none"
    /\ symbols' = SetToSeq(Service!UniqueSymbols(accounts))
    /\ marketResponse' \in MarketResponses \cup {MarketMock(symbols')}
    /\ marketOutcome' = "pending"
    /\ UNCHANGED <<coreVars, marketPrices, serviceVars, answer>>

MarketAnswers ==
    /\ Market!MarketNext
    /\ UNCHANGED <<coreVars, serviceVars, answer>>

LoadPrices ==
    /\ marketOutcome = "prices"
    /\ Service!LoadPrices(marketPrices)
    /\ UNCHANGED <<coreVars, marketVars, answer>>

PricesUnavailable ==
    /\ marketOutcome = "failed"
    /\ Service!PricesUnavailable
    /\ UNCHANGED <<coreVars, marketVars, answer>>

Value ==
    /\ \/ Service!BeginAccount \/ Service!ValuePosition \/ Service!PositionFails
       \/ Service!EndAccount \/ Service!TotalFails \/ Service!Return
    /\ UNCHANGED <<coreVars, marketVars, answer>>

RespondPortfolio ==
    /\ pc = "done"
    /\ answer = <<>>
    /\ answer' = [status |-> 200, body |-> MapPortfolio(result)]
    /\ UNCHANGED <<coreVars, marketVars, serviceVars>>

\* Bug: any upstream 404 becomes one of the API.
RespondErrorAny404 ==
    /\ pc \in {"failed", "unavailable"}
    /\ answer = <<>>
    /\ answer' = [status |-> IF 404 \in {coreResponse.status}
                                    \cup {marketResponse.status : o \in {marketOutcome} \cap {"failed"}}
                             THEN 404 ELSE 502]
    /\ UNCHANGED <<coreVars, marketVars, serviceVars>>

\* The error code tells ErrCustomerNotFound from everything else.
RespondError ==
    /\ pc \in {"failed", "unavailable"}
    /\ answer = <<>>
    /\ answer' = [status |-> IF coreOutcome = "notFound" THEN 404 ELSE 502]
    /\ UNCHANGED <<coreVars, marketVars, serviceVars>>

Next ==
    \/ CoreAnswers \/ LoadAccounts \/ AccountsUnavailable
    \/ CallMarket \/ MarketAnswers \/ LoadPrices \/ PricesUnavailable
    \/ Value \/ RespondPortfolio \/ RespondError

Spec == Init /\ [][Next]_vars

-----------------------------------------------------------------------------
(* Properties.                                                             *)

\* One malformed entry rejects the whole answer, also for a symbol not asked for.
MarketFailsClosed == Market!MarketFailsClosed

Served == answer # <<>> /\ answer.status = 200

MocksAnswered ==
    /\ \E version \in ContractVersions : coreResponse = CoreMock(version, customerID)
    /\ symbols # <<>> => marketResponse = MarketMock(symbols)

Dollars(n) == [amount |-> [sign |-> NoSign, units |-> n, cents |-> 0], currency |-> "USD"]

\* The seed passes the checks on its way.  The shipped constants are such: int64,
\* millionths, the two categories, upper-case letters and a limit of 1 MiB.
SeedFits ==
    /\ 1852500 * Scale <= IntMax /\ 3437500 <= IntMax
    /\ {"BROKERAGE", "RETIREMENT"} \subseteq Categories /\ "USD" \in Letters
    /\ 1 <= MaxResponseBytes

\* scripts/e2e.sh:11-13, architecture.md:53-60: the seeded customer is worth
\* 34375.00 USD, and a switch of Core to v2 changes nothing in the answer.
SeededAnswer ==
    answer # <<>> /\ MocksAnswered /\ customerID = Seeded =>
        /\ answer.status = 200
        /\ answer.body.customerId = Seeded
        /\ answer.body.totalMarketValue = Dollars(34375)
        /\ [k \in DOMAIN answer.body.accounts |-> answer.body.accounts[k].marketValue]
            = <<Dollars(21025), Dollars(13350)>>

\* The numbers a client reads in the public texts.  The text of the smallest
\* int64 has two signs and is none (money.go:39-44).
ReadAmount(m) ==
    (IF m.amount.sign = "-" THEN -1 ELSE 1) * (100 * m.amount.units + m.amount.cents)
ReadQuantity(text) == text.whole * Scale + Fraction(text)

Amounts ==
    {result.total.minor} \cup UNION {
        {a.cash.minor, a.marketValue.minor}
            \cup UNION {{h.unitPrice.minor, h.marketValue.minor} : h \in Range(a.holdings)} :
        a \in Range(result.accounts)}

\* A 200 adds up for the client that reads it: quantity times unit price is the
\* value of a holding, cash and holdings are the value of an account, accounts
\* are the total, and all of them are in the currency of the total.
PublicAnswerAddsUp ==
    Served /\ Service!InRange /\ IntMin \notin Amounts =>
        LET body == answer.body
            total(list) == SumFunction([k \in DOMAIN list |-> ReadAmount(list[k].marketValue)])
        IN  /\ ReadAmount(body.totalMarketValue) = total(body.accounts)
            /\ \A a \in Range(body.accounts) :
                 /\ ReadAmount(a.marketValue) = ReadAmount(a.cashBalance) + total(a.holdings)
                 /\ a.marketValue.currency = body.totalMarketValue.currency
                 /\ \A h \in Range(a.holdings) :
                      Scale * ReadAmount(h.marketValue)
                        = ReadQuantity(h.quantity) * ReadAmount(h.unitPrice)

\* A response of Core after its contract, under the names of either version.
CoreDocumented ==
    LET body == coreResponse.body IN
    /\ coreResponse.status = 200 /\ coreResponse.size <= MaxResponseBytes
    /\ Core!DetectCoreVersion(body) # {} /\ body.strict
    /\ body.id = {customerID}
    /\ \E list \in body.list : \A k \in DOMAIN list : Core!V2Account(list[k])

\* A response of Market with a valid entry for every symbol asked for.  An
\* amount may be missing from it: it is read as zero (client.go:494).
MarketDocumented ==
    symbols # <<>> =>
        /\ marketResponse.status = 200 /\ marketResponse.json /\ marketResponse.strict
        /\ marketResponse.end <= MaxResponseBytes
        /\ \A e \in Range(marketResponse.entries) :
              e.symbol # Market!NoText /\ e.asOf > 0 /\ \E text \in e.currency : text.length = 3
        /\ \A s \in Range(symbols) : \E e \in Range(marketResponse.entries) : e.symbol = s

\* Priced positions have whole values in the currency of all the others.
Valuable ==
    Service!Priced =>
        /\ Service!ProductsInRange
        /\ \A p \in Service!Positions : Service!Product(p) % Scale = 0
        /\ \A c, d \in Service!Currencies : c = d

\* The status is decided by what the upstreams sent, and by nothing on the way.
\* A customer is unknown exactly when Core says so: not for a symbol Market does
\* not know.  What follows both contracts and can be valued is served, and what
\* is served is of that customer and does follow them, except that v1 is lenient
\* and a product may wrap.
StatusDecided ==
    answer # <<>> =>
        /\ answer.status = 404 <=> coreResponse.status = 404
        /\ CoreDocumented /\ MarketDocumented /\ Valuable => answer.status = 200
        /\ answer.status = 200 =>
              /\ coreResponse.body.id = {customerID}
              /\ CoreDocumented \/ Core!DetectCoreVersion(coreResponse.body) = {"v1"}
              /\ MarketDocumented /\ Service!Priced
              /\ Service!ProductsInRange => Valuable

\* Where Market names a symbol for the last time.
LastNamed(s) ==
    LET entries == marketResponse.entries
    IN  {k \in DOMAIN entries :
            entries[k].symbol = s /\ \A l \in DOMAIN entries : entries[l].symbol = s => l <= k}

\* What Core and Market sent is what the client gets: the accounts of the
\* payload in its order with their cash, and for each symbol the price of the
\* last of Market's entries for it (client.go:498), through five
\* representations.  Left out are the smallest int64 and the quantities that v1
\* lets wrap.
PayloadReachesClient ==
    Served => \A list \in coreResponse.body.list :
        /\ Len(answer.body.accounts) = Len(list)
        /\ \A k \in DOMAIN list :
              LET a == answer.body.accounts[k] IN
              /\ {a.accountId} = list[k].id
              /\ {a.accountType} = list[k].type
              /\ \A cash \in list[k].cash : cash.minor \in {{IntMin}, {ReadAmount(a.cashBalance)}}
              /\ \A texts \in list[k].positions :
                    /\ Len(a.holdings) = Len(texts)
                    /\ \A p \in DOMAIN texts :
                          /\ {a.holdings[p].symbol} = texts[p].symbol
                          /\ \A text \in texts[p].quantity :
                                ReadQuantity(text) <= IntMax =>
                                    ReadQuantity(a.holdings[p].quantity) = ReadQuantity(text)
                          /\ \E l \in LastNamed(a.holdings[p].symbol) :
                                LET e == marketResponse.entries[l] IN
                                /\ \/ e.minor \in {{IntMin}, {ReadAmount(a.holdings[p].unitPrice)}}
                                   \/ e.minor = {} /\ ReadAmount(a.holdings[p].unitPrice) = 0
                                /\ e.asOf <= answer.body.asOf

=============================================================================
