--------------------------- MODULE PortfolioService ---------------------------
(***************************************************************************)
(* Service.Get: from accounts and prices to a valued portfolio.            *)
(*                                                                         *)
(* The two sources are the adapters; what they can return is a constant.   *)
(* One step per position and one per account follow the two nested loops.  *)
(***************************************************************************)
EXTENDS Domain, Sequences, FiniteSets, Functions

CONSTANTS
    Names,          \* ids, account types, symbols and currencies
    AccountLists,   \* the lists AccountSource can return
    PriceTables     \* the maps PriceSource can return for a list of symbols

\* A currency, or that of Go's zero value.
NoCurrency == ""
CurrencySet == Names \cup {NoCurrency}

\* domain.Money, domain.Position, domain.Account and domain.Price.
MoneySet == [minor : Int64, currency : CurrencySet]
PositionSet == [symbol : Names, quantity : Int64]
AccountSet == [id : Names, type : Names, cash : MoneySet, positions : Seq(PositionSet)]
PriceSet == [value : MoneySet, asOf : Nat]

\* NewMoney (money.go:22-28) makes no amount without a currency.
ASSUME SourcesAssumption ==
    /\ AccountLists \subseteq Seq(AccountSet)
    /\ \A list \in AccountLists : \A k \in DOMAIN list : list[k].cash.currency # NoCurrency
    /\ \A table \in PriceTables : \A s \in DOMAIN table : table[s] \in PriceSet

VARIABLES
    pc,             \* accounts, prices, account, positions, done, failed or unavailable
    accounts,       \* []domain.Account
    prices,         \* map[string]domain.Price
    i,              \* the account of the outer loop
    j,              \* the position of the inner loop
    accountValue,   \* value of account i so far
    holdings,       \* holdings of account i so far
    result          \* domain.Portfolio

serviceVars == <<pc, accounts, prices, i, j, accountValue, holdings, result>>

NoMoney == [minor |-> 0, currency |-> NoCurrency]

ServiceInit ==
    /\ pc = "accounts"
    /\ accounts = <<>>
    /\ prices = <<>>
    /\ i = 1 /\ j = 1
    /\ accountValue = NoMoney
    /\ holdings = <<>>
    /\ result = [asOf |-> 0, total |-> NoMoney, accounts |-> <<>>]

UniqueSymbols(list) ==
    UNION {{list[k].positions[p].symbol : p \in DOMAIN list[k].positions} : k \in DOMAIN list}

\* An error return: no portfolio leaves the service.
Abort(end) == pc' = end /\ UNCHANGED <<accounts, prices, i, j, accountValue, holdings, result>>

LoadAccounts(list) ==
    /\ pc = "accounts"
    /\ accounts' = list
    /\ pc' = "prices"
    /\ UNCHANGED <<prices, i, j, accountValue, holdings, result>>

AccountsUnavailable == pc = "accounts" /\ Abort("unavailable")

\* Without symbols the price source returns an empty map.
LoadPrices(table) ==
    /\ pc = "prices"
    /\ UniqueSymbols(accounts) = {} => table = <<>>
    /\ prices' = table
    /\ pc' = "account"
    /\ UNCHANGED <<accounts, i, j, accountValue, holdings, result>>

PricesUnavailable == pc = "prices" /\ UniqueSymbols(accounts) # {} /\ Abort("unavailable")

BeginAccount ==
    /\ pc = "account"
    /\ i <= Len(accounts)
    /\ accountValue' = accounts[i].cash
    /\ holdings' = <<>>
    /\ j' = 1
    /\ pc' = "positions"
    /\ UNCHANGED <<accounts, prices, i, result>>

Return ==
    /\ pc = "account"
    /\ i > Len(accounts)
    /\ pc' = "done"
    /\ UNCHANGED <<accounts, prices, i, j, accountValue, holdings, result>>

Position == accounts[i].positions[j]

\* The values of the position in hand, none on an error.
PositionValue ==
    UNION {MarketValue(Position.quantity, prices[s].value) : s \in {Position.symbol} \cap DOMAIN prices}

\* Bug: the time of the last position stands.
NewerOfLast(asOf, time) == time

NewerOf(asOf, time) == IF time > asOf THEN time ELSE asOf

ValuePosition ==
    /\ pc = "positions"
    /\ j <= Len(accounts[i].positions)
    /\ \E value \in PositionValue :
         /\ accountValue' \in MoneyAdd(accountValue, value)
         /\ holdings' = Append(holdings,
              [symbol |-> Position.symbol, quantity |-> Position.quantity,
               unitPrice |-> prices[Position.symbol].value, marketValue |-> value])
    /\ result' = [result EXCEPT !.asOf = NewerOf(@, prices[Position.symbol].asOf)]
    /\ j' = j + 1
    /\ UNCHANGED <<pc, accounts, prices, i>>

\* No price, a fraction of a minor unit, or another currency.
PositionFails ==
    /\ pc = "positions"
    /\ j <= Len(accounts[i].positions)
    /\ \A value \in PositionValue : MoneyAdd(accountValue, value) = {}
    /\ Abort("failed")

\* Bug: the first account is told by an amount of zero.
NewTotalByAmount(total) ==
    IF total.minor = 0 THEN {accountValue} ELSE MoneyAdd(total, accountValue)

\* The first account is told by the missing currency of the zero value.
NewTotal(total) ==
    IF total.currency = NoCurrency THEN {accountValue} ELSE MoneyAdd(total, accountValue)

EndAccount ==
    /\ pc = "positions"
    /\ j > Len(accounts[i].positions)
    /\ \E total \in NewTotal(result.total) :
         result' = [result EXCEPT !.total = total,
                      !.accounts = Append(@, [id |-> accounts[i].id, type |-> accounts[i].type,
                          cash |-> accounts[i].cash, marketValue |-> accountValue,
                          holdings |-> holdings])]
    /\ i' = i + 1
    /\ pc' = "account"
    /\ UNCHANGED <<accounts, prices, j, accountValue, holdings>>

TotalFails ==
    /\ pc = "positions"
    /\ j > Len(accounts[i].positions)
    /\ NewTotal(result.total) = {}
    /\ Abort("failed")

ServiceNext ==
    \/ \E list \in AccountLists : LoadAccounts(list)
    \/ \E table \in PriceTables : LoadPrices(table)
    \/ AccountsUnavailable \/ PricesUnavailable
    \/ BeginAccount \/ ValuePosition \/ PositionFails \/ EndAccount \/ TotalFails
    \/ Return

ServiceSpec == ServiceInit /\ [][ServiceNext]_serviceVars

-----------------------------------------------------------------------------
(* What a portfolio is worth, without int64: in minor units times Scale.   *)

Product(position) == position.quantity * prices[position.symbol].value.minor

ExactAccount(account) ==
    account.cash.minor * Scale
        + SumFunction([p \in DOMAIN account.positions |-> Product(account.positions[p])])

ExactTotal == SumFunction([k \in DOMAIN accounts |-> ExactAccount(accounts[k])])

Priced == UniqueSymbols(accounts) \subseteq DOMAIN prices

Positions == UNION {Range(accounts[k].positions) : k \in DOMAIN accounts}

Reportable(n) == n >= IntMin * Scale /\ n <= IntMax * Scale

ProductsInRange == \A p \in Positions : Product(p) \in Int64

\* No product leaves int64, and no value the portfolio reports does.  Sums on
\* the way may: they wrap back.
InRange ==
    /\ ProductsInRange
    /\ \A k \in DOMAIN accounts : Reportable(ExactAccount(accounts[k]))
    /\ Reportable(ExactTotal)

Currencies ==
    {accounts[k].cash.currency : k \in DOMAIN accounts}
        \cup {prices[s].value.currency : s \in UniqueSymbols(accounts)}

-----------------------------------------------------------------------------
(* Properties.                                                             *)

ExactHolding(h, p) ==
    /\ h.symbol = p.symbol /\ h.quantity = p.quantity
    /\ h.unitPrice = prices[p.symbol].value
    /\ h.marketValue.minor * Scale = Product(p)

\* The portfolio in hand is the exact valuation of the accounts loaded: every
\* account and every position is there, in order, with its exact value.
Exact ==
    /\ Len(result.accounts) = Len(accounts)
    /\ result.total.minor * Scale = ExactTotal
    /\ \A k \in DOMAIN accounts :
         LET account == result.accounts[k] IN
         /\ <<account.id, account.type, account.cash>>
                = <<accounts[k].id, accounts[k].type, accounts[k].cash>>
         /\ account.marketValue.minor * Scale = ExactAccount(accounts[k])
         /\ Len(account.holdings) = Len(accounts[k].positions)
         /\ \A p \in DOMAIN account.holdings :
              ExactHolding(account.holdings[p], accounts[k].positions[p])

\* As long as the products and the values it reports fit int64, a portfolio is
\* exact, although its sums are taken modulo 2^64 on the way.
ExactInRange == pc = "done" /\ InRange => Exact

\* The valuation loops refuse a portfolio for a missing price, a fraction of a
\* minor unit or a second currency, and for nothing else, wherever in the
\* nested loops the reason is met.
RefusesExactly ==
    pc \in {"done", "failed"} =>
        IF Priced /\ ProductsInRange
        THEN pc = "done" <=> /\ \A p \in Positions : Product(p) % Scale = 0
                             /\ \A c, d \in Currencies : c = d
        ELSE Priced \/ pc = "failed"

\* Amounts of two currencies never meet in one portfolio, overflow or not.
OneCurrency ==
    pc = "done" =>
        \A k \in DOMAIN result.accounts :
            LET account == result.accounts[k] IN
            /\ account.cash.currency = result.total.currency
            /\ account.marketValue.currency = result.total.currency
            /\ \A h \in Range(account.holdings) :
                 h.unitPrice.currency = result.total.currency

\* asOf is the time of the newest price used; a price nobody holds has no say.
AsOfNewestHeld ==
    pc = "done" =>
        /\ \A s \in UniqueSymbols(accounts) : prices[s].asOf <= result.asOf
        /\ result.asOf \in {prices[s].asOf : s \in UniqueSymbols(accounts)} \/ result.asOf = 0

\* docs/adr/002-integer-money.md:13-15: quantities "must produce an exact
\* minor-unit market value".  The product of money.go:100 is not checked.
HoldingsExact ==
    pc = "done" =>
        \A k \in DOMAIN accounts : \A p \in DOMAIN accounts[k].positions :
            result.accounts[k].holdings[p].marketValue.minor * Scale
                = Product(accounts[k].positions[p])

=============================================================================
