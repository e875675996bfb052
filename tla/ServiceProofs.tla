---------------------------- MODULE ServiceProofs ----------------------------
(***************************************************************************)
(* Proofs about PortfolioService for every account list and price table    *)
(* of its assumption, and for every width of the integers.                 *)
(***************************************************************************)
EXTENDS PortfolioService, DomainProofs, SumTheorems, TLAPS

\* A sum is in the currency of both its terms.
LEMMA MoneyAddType ==
    ASSUME NEW m \in MoneySet, NEW n \in MoneySet, NEW sum \in MoneyAdd(m, n)
    PROVE  /\ sum \in MoneySet
           /\ sum.currency = m.currency /\ sum.currency = n.currency
<1>1. m.minor + n.minor \in Int
  BY DEF MoneySet, Int64, IntMin
<1>2. Wrap(m.minor + n.minor) \in Int64
  BY <1>1, WrapRange
<1> QED
  BY <1>2 DEF MoneyAdd, MoneySet

\* A value is in the currency of its price.
LEMMA MarketValueType ==
    ASSUME NEW q \in Int64, NEW price \in MoneySet, NEW value \in MarketValue(q, price)
    PROVE  value \in MoneySet /\ value.currency = price.currency
<1>1. q * price.minor \in Int
  BY WidthAssumption DEF MoneySet, Int64, IntMin
<1>2. Wrap(q * price.minor) \in Int64
  BY <1>1, WrapRange
<1>3. Wrap(q * price.minor) \div Scale \in Int64
  <2>1. Scale \in Nat \ {0} /\ IntMin \in Int /\ IntMax \in Nat /\ IntMin < 0
    BY ScaleAssumption, WidthAssumption DEF IntMin
  <2> QED
    BY <1>2, <2>1, QuotientBetween DEF Int64
<1> QED
  BY <1>3 DEF MarketValue, MoneySet

-----------------------------------------------------------------------------
(* Types.                                                                  *)

HoldingSet == [symbol : Names, quantity : Int64, unitPrice : MoneySet,
               marketValue : MoneySet]
ValuedSet == [id : Names, type : Names, cash : MoneySet, marketValue : MoneySet,
              holdings : Seq(HoldingSet)]

TypeInv ==
    /\ accounts \in Seq(AccountSet)
    /\ \A k \in DOMAIN accounts : accounts[k].cash.currency # NoCurrency
    /\ \A s \in DOMAIN prices : prices[s] \in PriceSet
    /\ i \in Nat \ {0} /\ j \in Nat \ {0}
    /\ accountValue \in MoneySet
    /\ holdings \in Seq(HoldingSet)
    /\ result \in [asOf : Nat, total : MoneySet, accounts : Seq(ValuedSet)]
    /\ pc = "positions" => i \in DOMAIN accounts

\* Everything an account reports is in the currency.
Uniform(account, currency) ==
    /\ account.cash.currency = currency
    /\ account.marketValue.currency = currency
    /\ \A k \in DOMAIN account.holdings : account.holdings[k].unitPrice.currency = currency

\* The account in hand has one currency, the accounts done have that of the
\* total, and only a total of no account has none.
CurrencyInv ==
    /\ pc = "positions" =>
         /\ accountValue.currency = accounts[i].cash.currency
         /\ \A k \in DOMAIN holdings : holdings[k].unitPrice.currency = accountValue.currency
    /\ \A k \in DOMAIN result.accounts : Uniform(result.accounts[k], result.total.currency)
    /\ result.total.currency = NoCurrency => result.accounts = <<>>

\* The initial state.
LEMMA InitInv == ServiceInit => TypeInv /\ CurrencyInv
<1> SUFFICES ASSUME ServiceInit PROVE TypeInv /\ CurrencyInv
  OBVIOUS
<1>1. NoMoney \in MoneySet
  BY WidthAssumption DEF NoMoney, MoneySet, CurrencySet, Int64, IntMin
<1> QED
  BY <1>1 DEF ServiceInit, TypeInv, CurrencyInv, NoMoney

\* The position in hand is valued at its price.
LEMMA ValuedPosition ==
    ASSUME TypeInv, pc = "positions", j <= Len(accounts[i].positions), NEW value \in PositionValue
    PROVE  /\ Position \in PositionSet
           /\ Position.symbol \in DOMAIN prices
           /\ prices[Position.symbol] \in PriceSet
           /\ value \in MoneySet
           /\ value.currency = prices[Position.symbol].value.currency
<1>1. accounts[i] \in AccountSet
  BY DEF TypeInv
<1>2. accounts[i].positions \in Seq(PositionSet)
  BY <1>1 DEF AccountSet
<1>3. Position \in PositionSet
  BY <1>2 DEF Position, TypeInv
<1>4. /\ Position.symbol \in DOMAIN prices
      /\ value \in MarketValue(Position.quantity, prices[Position.symbol].value)
  BY DEF PositionValue
<1>5. prices[Position.symbol] \in PriceSet
  BY <1>4 DEF TypeInv
<1> QED
  BY <1>3, <1>4, <1>5, MarketValueType DEF PositionSet, PriceSet

\* Types hold, and so does one currency at a time.
LEMMA NextInv == TypeInv /\ CurrencyInv /\ [ServiceNext]_serviceVars => TypeInv' /\ CurrencyInv'
<1> SUFFICES ASSUME TypeInv, CurrencyInv, [ServiceNext]_serviceVars PROVE TypeInv' /\ CurrencyInv'
  OBVIOUS
<1>1. CASE UNCHANGED serviceVars
  BY <1>1 DEF serviceVars, TypeInv, CurrencyInv
<1>2. ASSUME NEW list \in AccountLists, LoadAccounts(list) PROVE TypeInv' /\ CurrencyInv'
  BY <1>2, SourcesAssumption DEF LoadAccounts, TypeInv, CurrencyInv
<1>3. ASSUME NEW table \in PriceTables, LoadPrices(table) PROVE TypeInv' /\ CurrencyInv'
  BY <1>3, SourcesAssumption DEF LoadPrices, TypeInv, CurrencyInv
<1>4. CASE AccountsUnavailable \/ PricesUnavailable \/ PositionFails \/ TotalFails
  BY <1>4 DEF AccountsUnavailable, PricesUnavailable, PositionFails, TotalFails, Abort, TypeInv, CurrencyInv
<1>5. CASE BeginAccount
  <2>1. accounts[i] \in AccountSet /\ i \in DOMAIN accounts
    BY <1>5 DEF BeginAccount, TypeInv
  <2> QED
    BY <1>5, <2>1 DEF BeginAccount, TypeInv, CurrencyInv, AccountSet
<1>6. CASE Return
  BY <1>6 DEF Return, TypeInv, CurrencyInv
<1>7. CASE ValuePosition
  <2>1. PICK value \in PositionValue :
          /\ accountValue' \in MoneyAdd(accountValue, value)
          /\ holdings' = Append(holdings,
               [symbol |-> Position.symbol, quantity |-> Position.quantity,
                unitPrice |-> prices[Position.symbol].value, marketValue |-> value])
    BY <1>7 DEF ValuePosition
  <2>2. pc = "positions" /\ j <= Len(accounts[i].positions)
    BY <1>7 DEF ValuePosition
  <2> DEFINE price == prices[Position.symbol]
             holding == [symbol |-> Position.symbol, quantity |-> Position.quantity,
                         unitPrice |-> price.value, marketValue |-> value]
  <2>3. /\ Position \in PositionSet /\ price \in PriceSet
        /\ value \in MoneySet
        /\ value.currency = price.value.currency
    BY <2>2, ValuedPosition
  <2>4. accountValue \in MoneySet
    BY DEF TypeInv
  <2>5. /\ accountValue' \in MoneySet
        /\ accountValue'.currency = accountValue.currency
        /\ accountValue'.currency = price.value.currency
    BY <2>1, <2>3, <2>4, MoneyAddType
  <2>6. holding \in HoldingSet
    BY <2>3 DEF PositionSet, PriceSet, HoldingSet
  <2>7. holdings' \in Seq(HoldingSet) /\ Len(holdings') = Len(holdings) + 1
    BY <2>1, <2>6 DEF TypeInv
  <2>8. \A k \in DOMAIN holdings' :
          holdings'[k] = holding \/ (k \in DOMAIN holdings /\ holdings'[k] = holdings[k])
    BY <2>1, <2>6, <2>7 DEF TypeInv
  <2>9. result' \in [asOf : Nat, total : MoneySet, accounts : Seq(ValuedSet)]
        /\ result'.total = result.total /\ result'.accounts = result.accounts
    BY <1>7, <2>3 DEF ValuePosition, NewerOf, TypeInv, PriceSet
  <2>10. UNCHANGED <<pc, accounts, prices, i>> /\ j' = j + 1
    BY <1>7 DEF ValuePosition
  <2>11. TypeInv'
    BY <2>5, <2>7, <2>9, <2>10 DEF TypeInv
  <2>12. \A k \in DOMAIN holdings' : holdings'[k].unitPrice.currency = accountValue'.currency
    BY <2>2, <2>5, <2>8 DEF CurrencyInv
  <2>13. CurrencyInv'
    BY <2>2, <2>5, <2>9, <2>10, <2>12 DEF CurrencyInv
  <2> QED
    BY <2>11, <2>13
<1>8. CASE EndAccount
  <2> DEFINE account == [id |-> accounts[i].id, type |-> accounts[i].type,
                         cash |-> accounts[i].cash, marketValue |-> accountValue,
                         holdings |-> holdings]
  <2>1. PICK total \in NewTotal(result.total) :
          result' = [result EXCEPT !.total = total, !.accounts = Append(@, account)]
    BY <1>8 DEF EndAccount
  <2>2. pc = "positions" /\ pc' = "account" /\ i' = i + 1
        /\ UNCHANGED <<accounts, prices, j, accountValue, holdings>>
    BY <1>8 DEF EndAccount
  <2>3. accounts[i] \in AccountSet /\ accounts[i].cash.currency # NoCurrency
    BY <2>2 DEF TypeInv
  <2>4. account \in ValuedSet
    BY <2>3 DEF ValuedSet, AccountSet, TypeInv
  <2>5. /\ total \in MoneySet /\ total.currency = accountValue.currency
        /\ result.total.currency # NoCurrency => total.currency = result.total.currency
    <3>1. accountValue \in MoneySet /\ result.total \in MoneySet
      BY DEF TypeInv
    <3>2. CASE result.total.currency = NoCurrency
      BY <3>1, <3>2 DEF NewTotal
    <3>3. CASE result.total.currency # NoCurrency
      <4>1. total \in MoneyAdd(result.total, accountValue)
        BY <3>3 DEF NewTotal
      <4> QED
        BY <3>1, <4>1, MoneyAddType
    <3> QED
      BY <3>2, <3>3
  <2>6. /\ result' \in [asOf : Nat, total : MoneySet, accounts : Seq(ValuedSet)]
        /\ result'.total = total
        /\ result'.accounts = Append(result.accounts, account)
    <3>1. result \in [asOf : Nat, total : MoneySet, accounts : Seq(ValuedSet)]
      BY DEF TypeInv
    <3>2. Append(result.accounts, account) \in Seq(ValuedSet)
      BY <2>4, <3>1
    <3> HIDE DEF account
    <3> QED
      BY <2>1, <2>5, <3>1, <3>2
  <2>7. TypeInv'
    BY <2>2, <2>6 DEF TypeInv
  <2>8. result.accounts \in Seq(ValuedSet)
    BY DEF TypeInv
  <2>9. \A k \in DOMAIN result'.accounts :
          \/ result'.accounts[k] = account
          \/ k \in DOMAIN result.accounts /\ result'.accounts[k] = result.accounts[k]
    BY <2>4, <2>6, <2>8
  <2>10. Uniform(account, total.currency)
    BY <2>2, <2>5 DEF Uniform, CurrencyInv
  <2>11. \A k \in DOMAIN result.accounts : Uniform(result.accounts[k], total.currency)
    <3>1. CASE result.total.currency = NoCurrency
      BY <2>8, <3>1 DEF CurrencyInv
    <3>2. CASE result.total.currency # NoCurrency
      BY <2>5, <3>2 DEF CurrencyInv
    <3> QED
      BY <3>1, <3>2
  <2>12. total.currency # NoCurrency
    BY <2>2, <2>3, <2>5 DEF CurrencyInv
  <2>13. CurrencyInv'
    BY <2>2, <2>6, <2>9, <2>10, <2>11, <2>12 DEF CurrencyInv
  <2> QED
    BY <2>7, <2>13
<1> QED
  BY <1>1, <1>2, <1>3, <1>4, <1>5, <1>6, <1>7, <1>8 DEF ServiceNext

\* One currency per portfolio, for every account list and price table, in range
\* or not: the empty currency of Go's zero value (service.go:84) stands for no
\* account only, so it never lets a second currency in.
THEOREM CurrenciesNeverMix == ServiceSpec => []OneCurrency
<1>1. TypeInv /\ CurrencyInv => OneCurrency
  BY DEF TypeInv, CurrencyInv, Uniform, OneCurrency, Range
<1> QED
  BY <1>1, InitInv, NextInv, PTL DEF ServiceSpec

-----------------------------------------------------------------------------
(* The time of a portfolio.                                                *)

\* A symbol is priced, and no later than the portfolio says.
Covered(symbol) == symbol \in DOMAIN prices /\ prices[symbol].asOf <= result.asOf

\* Every symbol the loops have passed is covered, and the time is one of them.
AsOfInv ==
    /\ \A k \in DOMAIN accounts : k < i =>
          \A p \in DOMAIN accounts[k].positions : Covered(accounts[k].positions[p].symbol)
    /\ pc = "positions" =>
          \A p \in DOMAIN accounts[i].positions : p < j => Covered(accounts[i].positions[p].symbol)
    /\ pc \in {"accounts", "prices"} => i = 1 /\ result.asOf = 0
    /\ pc = "done" => i > Len(accounts)
    /\ \/ result.asOf = 0
       \/ \E s \in UniqueSymbols(accounts) : s \in DOMAIN prices /\ prices[s].asOf = result.asOf

\* The initial state has passed nothing.
LEMMA InitAsOf == ServiceInit => AsOfInv
BY DEF ServiceInit, AsOfInv

\* A position covers its symbol and uncovers none.
LEMMA NextAsOf == TypeInv /\ AsOfInv /\ [ServiceNext]_serviceVars => AsOfInv'
<1> SUFFICES ASSUME TypeInv, AsOfInv, [ServiceNext]_serviceVars PROVE AsOfInv'
  OBVIOUS
<1>1. CASE UNCHANGED serviceVars
  BY <1>1 DEF serviceVars, AsOfInv, Covered, UniqueSymbols
<1>2. ASSUME NEW list \in AccountLists, LoadAccounts(list) PROVE AsOfInv'
  <2>1. \A k \in DOMAIN list : k \in Nat \ {0}
    BY <1>2, SourcesAssumption
  <2> QED
    BY <1>2, <2>1 DEF LoadAccounts, AsOfInv
<1>3. ASSUME NEW table \in PriceTables, LoadPrices(table) PROVE AsOfInv'
  <2>1. \A k \in DOMAIN accounts : k \in Nat \ {0}
    BY DEF TypeInv
  <2> QED
    BY <1>3, <2>1 DEF LoadPrices, AsOfInv
<1>4. CASE AccountsUnavailable \/ PricesUnavailable \/ PositionFails \/ TotalFails
  BY <1>4 DEF AccountsUnavailable, PricesUnavailable, PositionFails, TotalFails, Abort,
     AsOfInv, Covered, UniqueSymbols
<1>5. CASE BeginAccount
  <2>1. i \in DOMAIN accounts
    BY <1>5 DEF BeginAccount, TypeInv
  <2>2. accounts[i] \in AccountSet
    BY <2>1 DEF TypeInv
  <2>3. \A p \in DOMAIN accounts[i].positions : p \in Nat \ {0}
    BY <2>2 DEF AccountSet
  <2> QED
    BY <1>5, <2>3 DEF BeginAccount, AsOfInv, Covered, UniqueSymbols
<1>6. CASE Return
  BY <1>6 DEF Return, AsOfInv, Covered, UniqueSymbols
<1>7. CASE ValuePosition
  <2> DEFINE Now(s) == s \in DOMAIN prices /\ prices[s].asOf <= result'.asOf
  <2>1. PICK symbol : symbol = Position.symbol
    OBVIOUS
  <2>2. /\ pc = "positions" /\ j <= Len(accounts[i].positions)
        /\ symbol \in DOMAIN prices /\ prices[symbol] \in PriceSet
    BY <1>7, <2>1, ValuedPosition DEF ValuePosition
  <2>3. i \in DOMAIN accounts /\ accounts[i] \in AccountSet
    BY <2>2 DEF TypeInv
  <2>4. accounts[i].positions \in Seq(PositionSet) /\ j \in DOMAIN accounts[i].positions
    BY <2>2, <2>3 DEF AccountSet, TypeInv
  <2>5. /\ UNCHANGED <<pc, accounts, prices, i>> /\ j' = j + 1
        /\ result'.asOf = NewerOf(result.asOf, prices[symbol].asOf)
    BY <1>7, <2>1 DEF ValuePosition, TypeInv
  <2>6. /\ result.asOf \in Nat /\ prices[symbol].asOf \in Nat
        /\ result.asOf <= result'.asOf /\ prices[symbol].asOf <= result'.asOf
        /\ result'.asOf \in {result.asOf, prices[symbol].asOf}
    BY <2>2, <2>5 DEF NewerOf, TypeInv, PriceSet
  <2>7. \A s : Covered(s) => Now(s)
    BY <2>6 DEF Covered, TypeInv, PriceSet
  <2>8. Now(symbol) /\ symbol = accounts[i].positions[j].symbol
    BY <2>1, <2>2, <2>6 DEF Position
  <2>9. symbol \in UniqueSymbols(accounts)
    BY <2>3, <2>4, <2>8 DEF UniqueSymbols
  <2>10. \A p \in DOMAIN accounts[i].positions : p < j' => p < j \/ p = j
    BY <2>4, <2>5
  <2>11. \A p \in DOMAIN accounts[i].positions : p < j' => Now(accounts[i].positions[p].symbol)
    BY <2>2, <2>7, <2>8, <2>10 DEF AsOfInv
  <2>12. \A k \in DOMAIN accounts : k < i =>
           \A p \in DOMAIN accounts[k].positions : Now(accounts[k].positions[p].symbol)
    BY <2>7 DEF AsOfInv
  <2>13. \/ result'.asOf = 0
         \/ \E s \in UniqueSymbols(accounts) : s \in DOMAIN prices /\ prices[s].asOf = result'.asOf
    BY <2>2, <2>6, <2>9 DEF AsOfInv
  <2>14. UniqueSymbols(accounts)' = UniqueSymbols(accounts)
    BY <2>5 DEF UniqueSymbols
  <2> QED
    BY <2>2, <2>5, <2>11, <2>12, <2>13, <2>14 DEF AsOfInv, Covered
<1>8. CASE EndAccount
  <2>1. /\ pc = "positions" /\ pc' = "account" /\ i' = i + 1 /\ i \in DOMAIN accounts
        /\ UNCHANGED <<accounts, prices, j>> /\ j > Len(accounts[i].positions)
    BY <1>8 DEF EndAccount, TypeInv
  <2>2. result'.asOf = result.asOf
    BY <1>8 DEF EndAccount, TypeInv
  <2>3. \A p \in DOMAIN accounts[i].positions : p < j
    BY <2>1 DEF TypeInv, AccountSet
  <2>4. \A k \in DOMAIN accounts : k < i' => k < i \/ k = i
    BY <2>1 DEF TypeInv
  <2>5. \A s : Covered(s)' <=> Covered(s)
    BY <2>1, <2>2 DEF Covered
  <2>6. UniqueSymbols(accounts)' = UniqueSymbols(accounts)
    BY <2>1 DEF UniqueSymbols
  <2> QED
    BY <2>1, <2>2, <2>3, <2>4, <2>5, <2>6 DEF AsOfInv
<1> QED
  BY <1>1, <1>2, <1>3, <1>4, <1>5, <1>6, <1>7, <1>8 DEF ServiceNext

\* The time of a portfolio is that of the newest price it used, for every list
\* and table; a price that nobody holds has no say (service.go:72-74).
THEOREM AsOfIsNewestHeld == ServiceSpec => []AsOfNewestHeld
<1>1. TypeInv /\ AsOfInv => AsOfNewestHeld
  <2> SUFFICES ASSUME TypeInv, AsOfInv, pc = "done" PROVE AsOfNewestHeld
    BY DEF AsOfNewestHeld
  <2>1. \A k \in DOMAIN accounts : k < i
    BY DEF AsOfInv, TypeInv
  <2>2. \A s \in UniqueSymbols(accounts) : Covered(s)
    BY <2>1 DEF UniqueSymbols, AsOfInv
  <2> QED
    BY <2>2 DEF AsOfNewestHeld, AsOfInv, Covered
<1> QED
  BY <1>1, InitInv, NextInv, InitAsOf, NextAsOf, PTL DEF ServiceSpec

-----------------------------------------------------------------------------
(* What a portfolio is refused for.                                        *)

\* A position the loops accept: priced, valued in whole minor units, and in the
\* currency of its account.
Accepted(k, p) ==
    /\ accounts[k].positions[p].symbol \in DOMAIN prices
    /\ Wrap(Product(accounts[k].positions[p])) % Scale = 0
    /\ prices[accounts[k].positions[p].symbol].value.currency = accounts[k].cash.currency

\* A reason to refuse the accounts.
Reason ==
    \/ ~Priced
    \/ \E p \in Positions : Wrap(Product(p)) % Scale # 0
    \/ \E c, d \in Currencies : c # d

\* What the loops have passed is accepted, and of the currency of the total; a
\* portfolio is only refused for a reason.
RefuseInv ==
    /\ \A k \in DOMAIN accounts : k < i =>
         /\ accounts[k].cash.currency = result.total.currency
         /\ \A p \in DOMAIN accounts[k].positions : Accepted(k, p)
    /\ pc = "positions" =>
         \A p \in DOMAIN accounts[i].positions : p < j => Accepted(i, p)
    /\ i = 1 <=> result.total.currency = NoCurrency
    /\ pc \in {"accounts", "prices"} => i = 1
    /\ pc = "done" => i > Len(accounts)
    /\ pc = "failed" => Reason

\* The position in hand is one of the positions, and its currencies are there.
LEMMA PositionInHand ==
    ASSUME TypeInv, pc = "positions", j <= Len(accounts[i].positions)
    PROVE  /\ i \in DOMAIN accounts /\ j \in DOMAIN accounts[i].positions
           /\ Position \in Positions
           /\ Position.symbol \in UniqueSymbols(accounts)
           /\ accounts[i].cash.currency \in Currencies
           /\ prices[Position.symbol].value.currency \in Currencies
<1>1. i \in DOMAIN accounts /\ accounts[i] \in AccountSet
  BY DEF TypeInv
<1>2. j \in DOMAIN accounts[i].positions
  BY <1>1 DEF TypeInv, AccountSet
<1>3. Position.symbol \in UniqueSymbols(accounts)
  BY <1>1, <1>2 DEF UniqueSymbols, Position
<1> QED
  BY <1>1, <1>2, <1>3 DEF Positions, Position, Currencies, Range

\* The initial state has accepted nothing.
LEMMA InitRefuse == ServiceInit => RefuseInv
BY DEF ServiceInit, RefuseInv, NoMoney

\* A position is accepted when it is valued, and refused for a reason.
LEMMA NextRefuse == TypeInv /\ CurrencyInv /\ RefuseInv /\ [ServiceNext]_serviceVars => RefuseInv'
<1> SUFFICES ASSUME TypeInv, CurrencyInv, RefuseInv, [ServiceNext]_serviceVars PROVE RefuseInv'
  OBVIOUS
<1>0. ASSUME UNCHANGED <<accounts, prices>>
      PROVE  (Reason' <=> Reason) /\ \A k, p : Accepted(k, p)' <=> Accepted(k, p)
  BY <1>0 DEF Reason, Priced, Positions, Currencies, UniqueSymbols, Product, Accepted
<1>1. CASE UNCHANGED serviceVars
  BY <1>0, <1>1 DEF serviceVars, RefuseInv
<1>2. ASSUME NEW list \in AccountLists, LoadAccounts(list) PROVE RefuseInv'
  <2>1. \A k \in DOMAIN list : k \in Nat \ {0}
    BY <1>2, SourcesAssumption
  <2> QED
    BY <1>2, <2>1 DEF LoadAccounts, RefuseInv
<1>3. ASSUME NEW table \in PriceTables, LoadPrices(table) PROVE RefuseInv'
  <2>1. \A k \in DOMAIN accounts : k \in Nat \ {0}
    BY DEF TypeInv
  <2> QED
    BY <1>3, <2>1 DEF LoadPrices, RefuseInv
<1>4. CASE AccountsUnavailable \/ PricesUnavailable
  BY <1>0, <1>4 DEF AccountsUnavailable, PricesUnavailable, Abort, RefuseInv
<1>5. CASE PositionFails
  <2>1. pc = "positions" /\ j <= Len(accounts[i].positions) /\ pc' = "failed"
        /\ UNCHANGED <<accounts, prices, i, j, result>>
    BY <1>5 DEF PositionFails, Abort
  <2>2. Reason
    <3>1. CASE Position.symbol \notin DOMAIN prices
      BY <2>1, <3>1, PositionInHand DEF Reason, Priced
    <3>2. CASE Position.symbol \in DOMAIN prices /\ PositionValue = {}
      <4>1. MarketValue(Position.quantity, prices[Position.symbol].value) = {}
        BY <3>2 DEF PositionValue
      <4>2. Wrap(Product(Position)) % Scale # 0
        BY <4>1 DEF MarketValue, Product
      <4> QED
        BY <2>1, <4>2, PositionInHand DEF Reason
    <3>3. CASE PositionValue # {}
      <4>1. PICK value \in PositionValue : MoneyAdd(accountValue, value) = {}
        BY <1>5, <3>3 DEF PositionFails
      <4>2. value.currency # accountValue.currency
        BY <4>1 DEF MoneyAdd
      <4>3. value.currency = prices[Position.symbol].value.currency
        BY <2>1, ValuedPosition
      <4>4. accountValue.currency = accounts[i].cash.currency
        BY <2>1 DEF CurrencyInv
      <4> QED
        BY <2>1, <4>2, <4>3, <4>4, PositionInHand DEF Reason
    <3> QED
      BY <3>1, <3>2, <3>3
  <2> QED
    BY <1>0, <2>1, <2>2 DEF RefuseInv
<1>6. CASE TotalFails
  <2>1. pc = "positions" /\ pc' = "failed" /\ UNCHANGED <<accounts, prices, i, j, result>>
    BY <1>6 DEF TotalFails, Abort
  <2>2. result.total.currency # NoCurrency /\ result.total.currency # accountValue.currency
    BY <1>6 DEF TotalFails, NewTotal, MoneyAdd
  <2>3. i \in DOMAIN accounts /\ accountValue.currency = accounts[i].cash.currency
    BY <2>1 DEF CurrencyInv, TypeInv
  <2>4. 1 \in DOMAIN accounts /\ 1 < i
    BY <2>2, <2>3 DEF RefuseInv, TypeInv
  <2>5. accounts[1].cash.currency = result.total.currency
    BY <2>4 DEF RefuseInv
  <2>6. Reason
    BY <2>2, <2>3, <2>4, <2>5 DEF Reason, Currencies
  <2> QED
    BY <1>0, <2>1, <2>6 DEF RefuseInv
<1>7. CASE BeginAccount
  <2>1. i \in DOMAIN accounts /\ accounts[i] \in AccountSet
    BY <1>7 DEF BeginAccount, TypeInv
  <2>2. \A p \in DOMAIN accounts[i].positions : p \in Nat \ {0}
    BY <2>1 DEF AccountSet
  <2> QED
    BY <1>0, <1>7, <2>2 DEF BeginAccount, RefuseInv
<1>8. CASE Return
  BY <1>0, <1>8 DEF Return, RefuseInv
<1>9. CASE ValuePosition
  <2>1. /\ pc = "positions" /\ j <= Len(accounts[i].positions) /\ j' = j + 1
        /\ UNCHANGED <<pc, accounts, prices, i>> /\ result'.total = result.total
    BY <1>9 DEF ValuePosition, TypeInv
  <2>2. PICK value \in PositionValue : accountValue' \in MoneyAdd(accountValue, value)
    BY <1>9 DEF ValuePosition
  <2>3. Position.symbol \in DOMAIN prices /\ value.currency = prices[Position.symbol].value.currency
    BY <2>1, ValuedPosition
  <2>4. value.currency = accountValue.currency
    BY <2>2 DEF MoneyAdd
  <2>5. Wrap(Product(Position)) % Scale = 0
    BY DEF PositionValue, MarketValue, Product
  <2>6. Accepted(i, j)
    BY <2>1, <2>3, <2>4, <2>5 DEF Accepted, Position, CurrencyInv
  <2>7. \A p \in DOMAIN accounts[i].positions : p < j' => p < j \/ p = j
    <3>1. accounts[i] \in AccountSet /\ j \in Nat
      BY <2>1 DEF TypeInv
    <3> QED
      BY <2>1, <3>1 DEF AccountSet
  <2> QED
    BY <1>0, <2>1, <2>6, <2>7 DEF RefuseInv
<1>10. CASE EndAccount
  <2>1. /\ pc = "positions" /\ pc' = "account" /\ i' = i + 1
        /\ j > Len(accounts[i].positions) /\ UNCHANGED <<accounts, prices>>
    BY <1>10 DEF EndAccount
  <2>2. PICK total \in NewTotal(result.total) : result'.total = total
    BY <1>10 DEF EndAccount, TypeInv
  <2>3. /\ i \in DOMAIN accounts /\ accounts[i].cash.currency # NoCurrency
        /\ accounts[i].cash.currency = accountValue.currency
    BY <2>1 DEF CurrencyInv, TypeInv
  <2>4. /\ total.currency = accountValue.currency
        /\ result.total.currency \in {NoCurrency, total.currency}
    BY <2>2 DEF NewTotal, MoneyAdd
  <2>5. \A p \in DOMAIN accounts[i].positions : p < j
    BY <2>1 DEF TypeInv, AccountSet
  <2>6. \A k \in DOMAIN accounts : k < i' => (k < i /\ i # 1) \/ k = i
    BY <2>1 DEF TypeInv
  <2>7. ASSUME NEW k \in DOMAIN accounts, k < i'
        PROVE  /\ accounts[k].cash.currency = total.currency
               /\ \A p \in DOMAIN accounts[k].positions : Accepted(k, p)
    <3>1. CASE k = i
      BY <2>1, <2>3, <2>4, <2>5, <3>1 DEF RefuseInv
    <3>2. CASE k < i /\ i # 1
      BY <2>4, <3>2 DEF RefuseInv
    <3> QED
      BY <2>6, <2>7, <3>1, <3>2
  <2>8. i' # 1
    BY <2>1 DEF TypeInv
  <2> QED
    BY <1>0, <2>1, <2>2, <2>3, <2>4, <2>7, <2>8 DEF RefuseInv
<1> QED
  BY <1>1, <1>2, <1>3, <1>4, <1>5, <1>6, <1>7, <1>8, <1>9, <1>10 DEF ServiceNext

\* For every list and table the loops refuse a portfolio for a missing price, a
\* fraction of a minor unit or a second currency, and for nothing else, wherever
\* the reason is met (service.go:48-93).
THEOREM RefusedForAReason == ServiceSpec => []RefusesExactly
<1>1. TypeInv /\ RefuseInv => RefusesExactly
  <2> SUFFICES ASSUME TypeInv, RefuseInv, pc \in {"done", "failed"}
      PROVE  /\ Priced /\ ProductsInRange =>
                  (pc = "done" <=> /\ \A p \in Positions : Product(p) % Scale = 0
                                   /\ \A c, d \in Currencies : c = d)
             /\ ~Priced => pc = "failed"
    BY DEF RefusesExactly
  <2>1. ASSUME pc = "done"
        PROVE  /\ Priced /\ \A p \in Positions : Wrap(Product(p)) % Scale = 0
               /\ \A c \in Currencies : c = result.total.currency
    <3>1. \A k \in DOMAIN accounts :
            /\ accounts[k].cash.currency = result.total.currency
            /\ \A p \in DOMAIN accounts[k].positions : Accepted(k, p)
      BY <2>1 DEF RefuseInv, TypeInv
    <3>2. \A s \in UniqueSymbols(accounts) :
            s \in DOMAIN prices /\ prices[s].value.currency = result.total.currency
      BY <3>1 DEF UniqueSymbols, Accepted
    <3>3. \A p \in Positions : Wrap(Product(p)) % Scale = 0
      BY <3>1 DEF Positions, Range, Accepted
    <3> QED
      BY <3>1, <3>2, <3>3 DEF Priced, Currencies
  <2>2. pc = "failed" => Reason
    BY DEF RefuseInv
  <2>3. ProductsInRange => \A p \in Positions : Wrap(Product(p)) = Product(p)
    BY WrapIdentity DEF ProductsInRange
  <2> QED
    BY <2>1, <2>2, <2>3 DEF Reason
<1> QED
  BY <1>1, InitInv, NextInv, InitRefuse, NextRefuse, PTL DEF ServiceSpec

-----------------------------------------------------------------------------
(* The values of a portfolio.                                              *)

\* An amount that is an exact value in whole minor units, taken modulo 2^w.
Keeps(minor, exact) == exact % Scale = 0 /\ minor = Wrap(exact \div Scale)

\* The cash of an account with its first n positions, and the first n accounts.
FirstPositions(k, n) ==
    accounts[k].cash.minor * Scale
        + SumFunction([p \in 1 .. n |-> Product(accounts[k].positions[p])])
FirstAccounts(n) == SumFunction([k \in 1 .. n |-> ExactAccount(accounts[k])])

HoldingsFor(list, k) == \A p \in DOMAIN list : ExactHolding(list[p], accounts[k].positions[p])

\* The portfolio so far: the accounts done, the account in hand and its
\* holdings are exact, but for the multiples of 2^w the sums have lost.
ExactInv ==
    /\ pc = "positions" =>
         /\ Keeps(accountValue.minor, FirstPositions(i, j - 1))
         /\ Len(holdings) = j - 1 /\ j <= Len(accounts[i].positions) + 1
         /\ HoldingsFor(holdings, i)
    /\ i <= Len(accounts) + 1
    /\ Len(result.accounts) = i - 1
    /\ Keeps(result.total.minor, FirstAccounts(i - 1))
    /\ \A k \in DOMAIN result.accounts :
         LET account == result.accounts[k] IN
         /\ <<account.id, account.type, account.cash>>
                = <<accounts[k].id, accounts[k].type, accounts[k].cash>>
         /\ Keeps(account.marketValue.minor, ExactAccount(accounts[k]))
         /\ Len(account.holdings) = Len(accounts[k].positions)
         /\ HoldingsFor(account.holdings, k)

\* Accounts all of whose positions have a value.
Valued == Priced /\ ProductsInRange

\* Before the prices are there, nothing is valued.
ValueInv ==
    IF pc \in {"accounts", "prices"}
    THEN i = 1 /\ result.total.minor = 0 /\ result.accounts = <<>>
    ELSE Valued => ExactInv

\* Terms of the sums.
LEMMA Terms ==
    ASSUME TypeInv, Valued, NEW k \in DOMAIN accounts
    PROVE  /\ accounts[k] \in AccountSet /\ accounts[k].cash.minor \in Int
           /\ DOMAIN accounts[k].positions = 1 .. Len(accounts[k].positions)
           /\ Len(accounts[k].positions) \in Nat
           /\ \A p \in DOMAIN accounts[k].positions :
                /\ accounts[k].positions[p] \in PositionSet
                /\ Product(accounts[k].positions[p]) \in Int64
           /\ ExactAccount(accounts[k]) \in Int
<1>1. accounts[k] \in AccountSet /\ accounts[k].positions \in Seq(PositionSet)
  <2>1. accounts[k] \in AccountSet
    BY DEF TypeInv
  <2> QED
    BY <2>1 DEF AccountSet
<1>2. /\ DOMAIN accounts[k].positions = 1 .. Len(accounts[k].positions)
      /\ Len(accounts[k].positions) \in Nat
  BY <1>1
<1>3. ASSUME NEW p \in DOMAIN accounts[k].positions
      PROVE  /\ accounts[k].positions[p] \in PositionSet
             /\ Product(accounts[k].positions[p]) \in Int64
  <2>1. accounts[k].positions[p] \in Positions
    BY DEF Positions, Range
  <2> QED
    BY <1>1, <2>1 DEF Valued, ProductsInRange
<1>4. accounts[k].cash.minor \in Int /\ accounts[k].cash.minor * Scale \in Int
  BY <1>1, ScaleAssumption, WidthAssumption DEF AccountSet, MoneySet, Int64, IntMin
<1>5. SumFunction([p \in DOMAIN accounts[k].positions |-> Product(accounts[k].positions[p])]) \in Int
  <2> DEFINE f == [p \in DOMAIN accounts[k].positions |-> Product(accounts[k].positions[p])]
  <2>1. IsFiniteSet(DOMAIN f) /\ \A p \in DOMAIN f : f[p] \in Int
    BY <1>2, <1>3, FS_Interval, WidthAssumption DEF Int64, IntMin
  <2> HIDE DEF f
  <2>2. SumFunction(f) \in Int
    BY <2>1, SumInt
  <2> QED
    BY <2>2 DEF f
<1> QED
  BY <1>1, <1>2, <1>3, <1>4, <1>5 DEF ExactAccount

\* An amount starts at no money, and keeps what it is while it grows.
LEMMA KeepsNothing == Keeps(0, 0)
<1>1. 0 \div Scale = 0 /\ 0 % Scale = 0
  BY ScaleAssumption
<1>2. 0 \in Int64
  BY WidthAssumption DEF Int64, IntMin
<1> QED
  BY <1>1, <1>2, WrapIdentity DEF Keeps

LEMMA KeepsCash == \A m \in Int64 : Keeps(m, m * Scale)
<1> SUFFICES ASSUME NEW m \in Int64 PROVE Keeps(m, m * Scale)
  OBVIOUS
<1>1. m \in Int /\ Scale \in Nat \ {0} /\ 0 \in 0 .. Scale - 1
  BY ScaleAssumption, WidthAssumption DEF Int64, IntMin
<1>2. (m * Scale + 0) \div Scale = m /\ (m * Scale + 0) % Scale = 0
  BY <1>1, DivisionUnique
<1>3. m * Scale + 0 = m * Scale
  BY <1>1
<1> QED
  BY <1>2, <1>3, WrapIdentity DEF Keeps

LEMMA KeepsSum ==
    ASSUME NEW m \in Int, NEW a \in Int, NEW n \in Int, NEW b \in Int,
           Keeps(m, a), Keeps(n, b)
    PROVE  Keeps(Wrap(m + n), a + b)
<1>1. Scale \in Nat \ {0} /\ a % Scale = 0 /\ b % Scale = 0
  BY ScaleAssumption DEF Keeps
<1>2. (a + b) % Scale = 0 /\ (a + b) \div Scale = (a \div Scale) + (b \div Scale)
  BY <1>1, WholeSum
<1>3. a \div Scale \in Int /\ b \div Scale \in Int
  BY <1>1
<1>4. Wrap(m + n) = Wrap(m + (b \div Scale))
  BY <1>3, WrapLater DEF Keeps
<1>5. Wrap(m + (b \div Scale)) = Wrap((b \div Scale) + (a \div Scale))
  <2>1. m = Wrap(a \div Scale) /\ m + (b \div Scale) = (b \div Scale) + m
    BY <1>3 DEF Keeps
  <2> QED
    BY <1>3, <2>1, WrapLater
<1> QED
  BY <1>2, <1>3, <1>4, <1>5 DEF Keeps

\* Adding an exact value that was not wrapped.
LEMMA KeepsValue ==
    ASSUME NEW m \in Int, NEW a \in Int, NEW v \in Int, NEW b \in Int,
           Keeps(m, a), b % Scale = 0, v = b \div Scale
    PROVE  Keeps(Wrap(m + v), a + b)
<1>1. Scale \in Nat \ {0} /\ a % Scale = 0
  BY ScaleAssumption DEF Keeps
<1>2. (a + b) % Scale = 0 /\ (a + b) \div Scale = (a \div Scale) + (b \div Scale)
  BY <1>1, WholeSum
<1>3. a \div Scale \in Int
  BY <1>1
<1>4. Wrap(v + m) = Wrap(v + (a \div Scale))
  BY <1>3, WrapLater DEF Keeps
<1> QED
  BY <1>2, <1>3, <1>4 DEF Keeps

\* One position more, and all of them.
LEMMA FirstPositionsGrow ==
    ASSUME TypeInv, Valued, NEW k \in DOMAIN accounts
    PROVE  /\ FirstPositions(k, 0) = accounts[k].cash.minor * Scale
           /\ FirstPositions(k, Len(accounts[k].positions)) = ExactAccount(accounts[k])
           /\ \A n \in DOMAIN accounts[k].positions :
                /\ FirstPositions(k, n - 1) \in Int
                /\ FirstPositions(k, n) = FirstPositions(k, n - 1) + Product(accounts[k].positions[n])
<1> DEFINE f(n) == [p \in 1 .. n |-> Product(accounts[k].positions[p])]
           c == accounts[k].cash.minor * Scale
<1>0. /\ c \in Int
      /\ DOMAIN accounts[k].positions = 1 .. Len(accounts[k].positions)
      /\ \A p \in DOMAIN accounts[k].positions : Product(accounts[k].positions[p]) \in Int
  BY Terms, ScaleAssumption, WidthAssumption DEF Int64, IntMin
<1>1. FirstPositions(k, 0) = c
  <2>1. DOMAIN f(0) = {}
    OBVIOUS
  <2> HIDE DEF f
  <2>2. SumFunction(f(0)) = 0
    BY <2>1, SumEmpty
  <2> QED
    BY <1>0, <2>2 DEF FirstPositions, f
<1>2. FirstPositions(k, Len(accounts[k].positions)) = ExactAccount(accounts[k])
  BY <1>0 DEF FirstPositions, ExactAccount
<1>3. ASSUME NEW n \in DOMAIN accounts[k].positions
      PROVE  /\ FirstPositions(k, n - 1) \in Int
             /\ FirstPositions(k, n) = FirstPositions(k, n - 1) + Product(accounts[k].positions[n])
  <2>1. n - 1 \in Nat /\ n \in Nat /\ n \in 1 .. n /\ 1 .. n \subseteq DOMAIN accounts[k].positions
    BY <1>0
  <2>2. DOMAIN f(n) = 1 .. (n - 1) + 1 /\ \A p \in 1 .. (n - 1) + 1 : f(n)[p] \in Int
    BY <1>0, <2>1
  <2>3. f(n - 1) = [p \in 1 .. n - 1 |-> f(n)[p]] /\ f(n)[n] = Product(accounts[k].positions[n])
    BY <2>1
  <2>4. IsFiniteSet(DOMAIN f(n - 1)) /\ \A p \in DOMAIN f(n - 1) : f(n - 1)[p] \in Int
    BY <1>0, <2>1, FS_Interval
  <2>5. FirstPositions(k, n) = c + SumFunction(f(n)) /\ FirstPositions(k, n - 1) = c + SumFunction(f(n - 1))
    BY DEF FirstPositions
  <2> HIDE DEF f, c
  <2>6. SumFunction(f(n)) = SumFunction(f(n - 1)) + f(n)[(n - 1) + 1]
    BY <2>1, <2>2, <2>3, SumAppend
  <2>7. SumFunction(f(n - 1)) \in Int
    BY <2>4, SumInt
  <2> QED
    BY <1>0, <2>1, <2>3, <2>5, <2>6, <2>7
<1> QED
  BY <1>1, <1>2, <1>3

\* One account more, and all of them.
LEMMA FirstAccountsGrow ==
    ASSUME TypeInv, Valued
    PROVE  /\ FirstAccounts(0) = 0
           /\ FirstAccounts(Len(accounts)) = ExactTotal
           /\ \A n \in DOMAIN accounts :
                /\ FirstAccounts(n - 1) \in Int
                /\ FirstAccounts(n) = FirstAccounts(n - 1) + ExactAccount(accounts[n])
<1> DEFINE f(n) == [k \in 1 .. n |-> ExactAccount(accounts[k])]
<1>0. DOMAIN accounts = 1 .. Len(accounts) /\ \A k \in DOMAIN accounts : ExactAccount(accounts[k]) \in Int
  BY Terms DEF TypeInv
<1>1. FirstAccounts(0) = 0
  <2>1. DOMAIN f(0) = {}
    OBVIOUS
  <2> HIDE DEF f
  <2>2. SumFunction(f(0)) = 0
    BY <2>1, SumEmpty
  <2> QED
    BY <2>2 DEF FirstAccounts, f
<1>2. FirstAccounts(Len(accounts)) = ExactTotal
  BY <1>0 DEF FirstAccounts, ExactTotal
<1>3. ASSUME NEW n \in DOMAIN accounts
      PROVE  /\ FirstAccounts(n - 1) \in Int
             /\ FirstAccounts(n) = FirstAccounts(n - 1) + ExactAccount(accounts[n])
  <2>1. n - 1 \in Nat /\ n \in Nat /\ n \in 1 .. n /\ 1 .. n \subseteq DOMAIN accounts
    BY <1>0 DEF TypeInv
  <2>2. DOMAIN f(n) = 1 .. (n - 1) + 1 /\ \A k \in 1 .. (n - 1) + 1 : f(n)[k] \in Int
    BY <1>0, <2>1
  <2>3. f(n - 1) = [k \in 1 .. n - 1 |-> f(n)[k]] /\ f(n)[n] = ExactAccount(accounts[n])
    BY <2>1
  <2>4. IsFiniteSet(DOMAIN f(n - 1)) /\ \A k \in DOMAIN f(n - 1) : f(n - 1)[k] \in Int
    <3>1. \A k \in 1 .. n - 1 : ExactAccount(accounts[k]) \in Int
      BY <1>0, <2>1
    <3>2. IsFiniteSet(1 .. n - 1)
      BY <2>1, FS_Interval
    <3> QED
      BY <3>1, <3>2
  <2>5. FirstAccounts(n) = SumFunction(f(n)) /\ FirstAccounts(n - 1) = SumFunction(f(n - 1))
    BY DEF FirstAccounts
  <2> HIDE DEF f
  <2>6. SumFunction(f(n)) = SumFunction(f(n - 1)) + f(n)[(n - 1) + 1]
    BY <2>1, <2>2, <2>3, SumAppend
  <2>7. SumFunction(f(n - 1)) \in Int
    BY <2>4, SumInt
  <2> QED
    BY <2>1, <2>3, <2>5, <2>6, <2>7
<1> QED
  BY <1>1, <1>2, <1>3

\* The initial state is of no value.
LEMMA InitValue == ServiceInit => ValueInv
BY DEF ServiceInit, ValueInv, NoMoney

\* What an account keeps does not depend on the account in hand.
LEMMA ValuedAlike ==
    ASSUME UNCHANGED <<accounts, prices>>
    PROVE  /\ Valued' <=> Valued
           /\ \A k : ExactAccount(accounts[k])' = ExactAccount(accounts[k])
           /\ \A k, n : FirstPositions(k, n)' = FirstPositions(k, n)
           /\ \A n : FirstAccounts(n)' = FirstAccounts(n)
           /\ \A list, k : HoldingsFor(list, k)' <=> HoldingsFor(list, k)
BY DEF Valued, Priced, ProductsInRange, Positions, UniqueSymbols, Product, ExactAccount,
   FirstPositions, FirstAccounts, HoldingsFor, ExactHolding

\* Each step of the loops adds its exact value and keeps what is done.
LEMMA NextValue ==
    TypeInv /\ CurrencyInv /\ RefuseInv /\ ValueInv /\ [ServiceNext]_serviceVars => ValueInv'
<1> SUFFICES ASSUME TypeInv, CurrencyInv, RefuseInv, ValueInv, [ServiceNext]_serviceVars
    PROVE  ValueInv'
  OBVIOUS
<1>1. CASE UNCHANGED serviceVars
  BY <1>1, ValuedAlike DEF serviceVars, ValueInv, ExactInv
<1>2. ASSUME NEW list \in AccountLists, LoadAccounts(list) PROVE ValueInv'
  BY <1>2 DEF LoadAccounts, ValueInv
<1>3. ASSUME NEW table \in PriceTables, LoadPrices(table) PROVE ValueInv'
  <2>1. /\ i' = 1 /\ result'.total.minor = 0 /\ result'.accounts = <<>>
        /\ pc' = "account" /\ accounts' \in Seq(AccountSet)
    BY <1>3 DEF LoadPrices, ValueInv, TypeInv
  <2>2. TypeInv'
    BY NextInv
  <2>3. Valued' => FirstAccounts(0)' = 0
    <3> SUFFICES ASSUME Valued' PROVE FirstAccounts(0)' = 0
      OBVIOUS
    <3>1. DOMAIN [k \in 1 .. 0 |-> ExactAccount(accounts[k])]' = {}
      OBVIOUS
    <3> QED
      BY <3>1, SumEmpty DEF FirstAccounts
  <2>4. Valued' => Keeps(result.total.minor, FirstAccounts(i - 1))'
    <3>1. FirstAccounts(i - 1)' = FirstAccounts(0)'
      BY <2>1 DEF FirstAccounts
    <3> QED
      BY <2>1, <2>3, <3>1, KeepsNothing DEF Keeps
  <2>5. i' <= Len(accounts') + 1 /\ Len(result'.accounts) = i' - 1
    BY <2>1
  <2> QED
    BY <2>1, <2>4, <2>5 DEF ValueInv, ExactInv
<1>4. CASE AccountsUnavailable \/ PricesUnavailable \/ PositionFails \/ TotalFails
  <2>1. pc' \in {"unavailable", "failed"} /\ UNCHANGED <<accounts, prices, i, j, accountValue, holdings, result>>
    BY <1>4 DEF AccountsUnavailable, PricesUnavailable, PositionFails, TotalFails, Abort
  <2>2. CASE pc \in {"accounts", "prices"}
    <3>1. Valued => FirstAccounts(0) = 0
      BY FirstAccountsGrow
    <3>2. Valued => Keeps(result.total.minor, FirstAccounts(i - 1))
      BY <2>2, <3>1, KeepsNothing DEF ValueInv
    <3> QED
      BY <2>1, <2>2, <3>2, ValuedAlike DEF ValueInv, ExactInv, TypeInv
  <2>3. CASE pc \notin {"accounts", "prices"}
    BY <2>1, <2>3, ValuedAlike DEF ValueInv, ExactInv
  <2> QED
    BY <2>2, <2>3
<1>5. CASE BeginAccount
  <2>1. /\ pc = "account" /\ pc' = "positions" /\ i \in DOMAIN accounts /\ j' = 1
        /\ accountValue' = accounts[i].cash /\ holdings' = <<>>
        /\ UNCHANGED <<accounts, prices, i, result>>
    BY <1>5 DEF BeginAccount, TypeInv
  <2> SUFFICES ASSUME Valued PROVE ExactInv'
    BY <2>1, ValuedAlike DEF ValueInv
  <2>2. ExactInv
    BY <2>1 DEF ValueInv
  <2>3. FirstPositions(i, 0) = accounts[i].cash.minor * Scale /\ accounts[i] \in AccountSet
    BY <2>1, Terms, FirstPositionsGrow
  <2>4. Keeps(accountValue'.minor, FirstPositions(i, 0))
    BY <2>1, <2>3, KeepsCash DEF AccountSet, MoneySet
  <2>5. HoldingsFor(holdings', i) /\ 1 <= Len(accounts[i].positions) + 1
    BY <2>1, Terms DEF HoldingsFor
  <2> QED
    BY <2>1, <2>2, <2>4, <2>5, ValuedAlike DEF ExactInv
<1>6. CASE Return
  BY <1>6, ValuedAlike DEF Return, ValueInv, ExactInv
<1>7. CASE ValuePosition
  <2>1. /\ pc = "positions" /\ j <= Len(accounts[i].positions) /\ j' = j + 1 /\ i \in DOMAIN accounts
        /\ UNCHANGED <<pc, accounts, prices, i>>
        /\ result'.total = result.total /\ result'.accounts = result.accounts
    BY <1>7 DEF ValuePosition, TypeInv
  <2>2. PICK value \in PositionValue :
          /\ accountValue' \in MoneyAdd(accountValue, value)
          /\ holdings' = Append(holdings,
               [symbol |-> Position.symbol, quantity |-> Position.quantity,
                unitPrice |-> prices[Position.symbol].value, marketValue |-> value])
    BY <1>7 DEF ValuePosition
  <2> SUFFICES ASSUME Valued PROVE ExactInv'
    BY <2>1, ValuedAlike DEF ValueInv
  <2>3. ExactInv
    BY <2>1 DEF ValueInv
  <2> DEFINE price == prices[Position.symbol]
             holding == [symbol |-> Position.symbol, quantity |-> Position.quantity,
                         unitPrice |-> price.value, marketValue |-> value]
  <2>4. j \in DOMAIN accounts[i].positions /\ Product(Position) \in Int64 /\ Product(Position) \in Int
    <3>1. j \in DOMAIN accounts[i].positions
      BY <2>1, PositionInHand
    <3> QED
      BY <2>1, <3>1, Terms, WidthAssumption DEF Position, Int64, IntMin
  <2>5. /\ Position \in PositionSet /\ price \in PriceSet
        /\ value \in MoneySet
        /\ value \in MarketValue(Position.quantity, price.value)
    BY <2>1, ValuedPosition DEF PositionValue
  <2>6. /\ Product(Position) % Scale = 0
        /\ value.minor = Product(Position) \div Scale
        /\ value.minor * Scale = Product(Position)
    <3>1. Position.quantity \in Int /\ price.value.minor \in Int
      BY <2>5, WidthAssumption DEF PositionSet, PriceSet, MoneySet, Int64, IntMin
    <3> QED
      BY <2>4, <2>5, <3>1, MarketValueExact DEF Product
  <2>7. accountValue'.minor = Wrap(accountValue.minor + value.minor)
    BY <2>2 DEF MoneyAdd
  <2>8. accountValue.minor \in Int /\ value.minor \in Int
    BY <2>5, WidthAssumption DEF TypeInv, MoneySet, Int64, IntMin
  <2>9. /\ FirstPositions(i, j) = FirstPositions(i, j - 1) + Product(Position)
        /\ FirstPositions(i, j - 1) \in Int
    BY <2>1, <2>4, FirstPositionsGrow DEF Position
  <2>10. Keeps(accountValue'.minor, FirstPositions(i, j))
    BY <2>1, <2>3, <2>4, <2>6, <2>7, <2>8, <2>9, KeepsValue DEF ExactInv
  <2>11. holdings \in Seq(HoldingSet) /\ holding \in HoldingSet /\ Len(holdings) = j - 1 /\ j \in Nat
    BY <2>1, <2>3, <2>5 DEF ExactInv, TypeInv, PositionSet, PriceSet, HoldingSet
  <2>12. ExactHolding(holding, accounts[i].positions[j])
    BY <2>6 DEF ExactHolding, Position
  <2>13. Len(holdings') = j /\ HoldingsFor(holdings', i)
    <3>1. holdings' = Append(holdings, holding)
      BY <2>2
    <3> HIDE DEF holding
    <3>2. Len(holdings') = j /\ DOMAIN holdings' = 1 .. j
          /\ \A p \in 1 .. j : holdings'[p] = IF p = j THEN holding ELSE holdings[p]
      BY <2>11, <3>1
    <3>3. \A p \in 1 .. j : p # j => p \in DOMAIN holdings
      BY <2>11
    <3> QED
      BY <2>1, <2>3, <2>12, <3>2, <3>3 DEF ExactInv, HoldingsFor
  <2>14. j' - 1 = j /\ j' <= Len(accounts[i].positions) + 1
    <3>1. Len(accounts[i].positions) \in Nat
      BY <2>1, Terms
    <3> QED
      BY <2>1, <2>11, <3>1
  <2> QED
    BY <2>1, <2>3, <2>10, <2>13, <2>14, ValuedAlike DEF ExactInv
<1>8. CASE EndAccount
  <2> DEFINE account == [id |-> accounts[i].id, type |-> accounts[i].type,
                         cash |-> accounts[i].cash, marketValue |-> accountValue,
                         holdings |-> holdings]
  <2>1. /\ pc = "positions" /\ pc' = "account" /\ i' = i + 1 /\ i \in DOMAIN accounts
        /\ j > Len(accounts[i].positions) /\ UNCHANGED <<accounts, prices, j, accountValue, holdings>>
    BY <1>8 DEF EndAccount, TypeInv
  <2>2. PICK total \in NewTotal(result.total) :
          result'.total = total /\ result'.accounts = Append(result.accounts, account)
    BY <1>8 DEF EndAccount, TypeInv
  <2> SUFFICES ASSUME Valued PROVE ExactInv'
    BY <2>1, ValuedAlike DEF ValueInv
  <2>3. ExactInv
    BY <2>1 DEF ValueInv
  <2>4. /\ Len(accounts[i].positions) \in Nat /\ ExactAccount(accounts[i]) \in Int
        /\ FirstPositions(i, Len(accounts[i].positions)) = ExactAccount(accounts[i])
    BY <2>1, Terms, FirstPositionsGrow
  <2>5. j - 1 = Len(accounts[i].positions)
    <3>1. j \in Nat
      BY DEF TypeInv
    <3>2. j <= Len(accounts[i].positions) + 1
      BY <2>1, <2>3 DEF ExactInv
    <3> QED
      BY <2>1, <2>4, <3>1, <3>2
  <2>6. Keeps(accountValue.minor, ExactAccount(accounts[i]))
    BY <2>1, <2>3, <2>4, <2>5 DEF ExactInv
  <2>7. /\ FirstAccounts(i) = FirstAccounts(i - 1) + ExactAccount(accounts[i])
        /\ FirstAccounts(i - 1) \in Int /\ FirstAccounts(0) = 0
    BY <2>1, FirstAccountsGrow
  <2>8. accountValue.minor \in Int /\ result.total.minor \in Int
    BY WidthAssumption DEF TypeInv, MoneySet, Int64, IntMin
  <2>9. Keeps(total.minor, FirstAccounts(i))
    <3>1. CASE result.total.currency = NoCurrency
      <4>1. i = 1 /\ total = accountValue
        BY <2>2, <3>1 DEF NewTotal, RefuseInv
      <4> QED
        BY <2>4, <2>6, <2>7, <4>1
    <3>2. CASE result.total.currency # NoCurrency
      <4>1. total.minor = Wrap(result.total.minor + accountValue.minor)
        BY <2>2, <3>2 DEF NewTotal, MoneyAdd
      <4>2. Keeps(result.total.minor, FirstAccounts(i - 1))
        BY <2>3 DEF ExactInv
      <4> QED
        BY <2>4, <2>6, <2>7, <2>8, <4>1, <4>2, KeepsSum
    <3> QED
      BY <3>1, <3>2
  <2>10. result.accounts \in Seq(ValuedSet) /\ Len(result.accounts) = i - 1 /\ i \in Nat \ {0}
    BY <2>3 DEF ExactInv, TypeInv
  <2>11. /\ Len(result'.accounts) = i /\ DOMAIN result'.accounts = 1 .. i
         /\ \A k \in 1 .. i : result'.accounts[k] = IF k = i THEN account ELSE result.accounts[k]
    <3> HIDE DEF account
    <3> QED
      BY <2>2, <2>10
  <2>12. Len(holdings) = Len(accounts[i].positions) /\ HoldingsFor(holdings, i)
    BY <2>1, <2>3, <2>5 DEF ExactInv
  <2>13. i' <= Len(accounts) + 1 /\ i' - 1 = i
    BY <2>1, <2>10 DEF TypeInv
  <2>14. ASSUME NEW k \in DOMAIN result'.accounts
         PROVE  LET done == result'.accounts[k] IN
                /\ <<done.id, done.type, done.cash>>
                       = <<accounts[k].id, accounts[k].type, accounts[k].cash>>
                /\ Keeps(done.marketValue.minor, ExactAccount(accounts[k]))
                /\ Len(done.holdings) = Len(accounts[k].positions)
                /\ HoldingsFor(done.holdings, k)
    <3>1. CASE k = i
      BY <2>6, <2>10, <2>11, <2>12, <3>1
    <3>2. CASE k # i
      <4>1. k \in DOMAIN result.accounts /\ result'.accounts[k] = result.accounts[k]
        BY <2>10, <2>11, <3>2
      <4> QED
        BY <2>3, <4>1 DEF ExactInv
    <3> QED
      BY <3>1, <3>2
  <2> QED
    BY <2>1, <2>2, <2>9, <2>11, <2>13, <2>14, ValuedAlike DEF ExactInv
<1> QED
  BY <1>1, <1>2, <1>3, <1>4, <1>5, <1>6, <1>7, <1>8 DEF ServiceNext

\* For every list and table a portfolio whose products and values fit int64 is
\* the exact valuation of the accounts, whole and in order, although the sums on
\* the way wrap (service.go:66-93, money.go:30-35, money.go:93-110).
THEOREM PortfolioIsExact == ServiceSpec => []ExactInRange
<1>1. TypeInv /\ RefuseInv /\ ValueInv => ExactInRange
  <2> SUFFICES ASSUME TypeInv, RefuseInv, ValueInv, pc = "done", InRange PROVE Exact
    BY DEF ExactInRange
  <2>1. \A k \in DOMAIN accounts : \A p \in DOMAIN accounts[k].positions : Accepted(k, p)
    BY DEF RefuseInv, TypeInv
  <2>2. Valued
    BY <2>1 DEF Valued, Priced, UniqueSymbols, Accepted, InRange
  <2>3. ExactInv
    BY <2>2 DEF ValueInv
  <2>4. i - 1 = Len(accounts) /\ DOMAIN result.accounts = DOMAIN accounts
    BY <2>3 DEF RefuseInv, ExactInv, TypeInv
  <2>5. \A m, a \in Int : Keeps(m, a) /\ Reportable(a) => m * Scale = a
    <3> SUFFICES ASSUME NEW m \in Int, NEW a \in Int, Keeps(m, a), Reportable(a) PROVE m * Scale = a
      OBVIOUS
    <3>1. (a \div Scale) * Scale = a /\ a \div Scale \in Int /\ Scale \in Nat \ {0}
      <4>1. a % Scale = 0 /\ Scale \in Nat \ {0}
        BY ScaleAssumption DEF Keeps
      <4> QED
        BY <4>1, Division
    <3>2. IntMax \in Int /\ IntMin \in Int
      BY WidthAssumption DEF IntMin
    <3>3. \A q, n \in Int : /\ q * Scale <= n * Scale => q <= n
                            /\ n * Scale <= q * Scale => n <= q
      BY <3>1
    <3>4. a \div Scale \in Int64
      <4>1. PICK q \in Int : q = a \div Scale
        BY <3>1
      <4> QED
        BY <3>1, <3>2, <3>3, <4>1 DEF Reportable, Int64
    <3> QED
      BY <3>1, <3>4, WrapIdentity DEF Keeps
  <2>6. result.total.minor * Scale = ExactTotal
    <3>1. FirstAccounts(Len(accounts)) = ExactTotal
      BY <2>2, FirstAccountsGrow
    <3>2. ExactTotal \in Int
      <4>1. Len(accounts) = 0 => FirstAccounts(Len(accounts)) = 0
        BY <2>2, FirstAccountsGrow
      <4>2. Len(accounts) \in DOMAIN accounts => FirstAccounts(Len(accounts)) \in Int
        BY <2>2, Terms, FirstAccountsGrow
      <4>3. Len(accounts) = 0 \/ Len(accounts) \in DOMAIN accounts
        BY DEF TypeInv
      <4> QED
        BY <3>1, <4>1, <4>2, <4>3
    <3>3. result.total.minor \in Int
      BY WidthAssumption DEF TypeInv, MoneySet, Int64, IntMin
    <3> QED
      BY <2>3, <2>4, <2>5, <3>1, <3>2, <3>3 DEF ExactInv, InRange
  <2>7. ASSUME NEW k \in DOMAIN accounts
        PROVE  result.accounts[k].marketValue.minor * Scale = ExactAccount(accounts[k])
    <3>1. result.accounts[k].marketValue.minor \in Int
      <4>1. result.accounts[k] \in ValuedSet
        BY <2>4 DEF TypeInv
      <4> QED
        BY <4>1, WidthAssumption DEF ValuedSet, MoneySet, Int64, IntMin
    <3> QED
      BY <2>2, <2>3, <2>4, <2>5, <3>1, Terms DEF ExactInv, InRange
  <2> QED
    BY <2>3, <2>4, <2>6, <2>7 DEF Exact, ExactInv, HoldingsFor, TypeInv
<1> QED
  BY <1>1, InitInv, NextInv, InitRefuse, NextRefuse, InitValue, NextValue, PTL DEF ServiceSpec

-----------------------------------------------------------------------------
(* What a portfolio lists, in range or not.                                *)

HoldingListed(h, p) ==
    /\ h.symbol = p.symbol /\ h.quantity = p.quantity
    /\ p.symbol \in DOMAIN prices /\ h.unitPrice = prices[p.symbol].value

HoldingsListed(list, k) == \A p \in DOMAIN list : HoldingListed(list[p], accounts[k].positions[p])

AccountListed(account, k) ==
    /\ account.id = accounts[k].id /\ account.type = accounts[k].type
    /\ account.cash = accounts[k].cash
    /\ Len(account.holdings) = Len(accounts[k].positions)
    /\ HoldingsListed(account.holdings, k)

\* Every account and position the loops have passed is listed in its place.
ListInv ==
    /\ pc \in {"accounts", "prices"} => i = 1
    /\ pc = "positions" =>
         /\ Len(holdings) = j - 1 /\ j <= Len(accounts[i].positions) + 1
         /\ HoldingsListed(holdings, i)
    /\ i <= Len(accounts) + 1
    /\ Len(result.accounts) = i - 1
    /\ \A k \in DOMAIN result.accounts : AccountListed(result.accounts[k], k)

\* Nothing is listed at first.
LEMMA InitList == ServiceInit => ListInv
BY DEF ServiceInit, ListInv

\* What is listed depends on the accounts and the prices only.
LEMMA ListedAlike ==
    ASSUME UNCHANGED <<accounts, prices>>
    PROVE  /\ \A list, k : HoldingsListed(list, k)' <=> HoldingsListed(list, k)
           /\ \A account, k : AccountListed(account, k)' <=> AccountListed(account, k)
BY DEF HoldingsListed, HoldingListed, AccountListed

\* Each step of the loops lists what it passes.
LEMMA NextList == TypeInv /\ ListInv /\ [ServiceNext]_serviceVars => ListInv'
<1> SUFFICES ASSUME TypeInv, ListInv, [ServiceNext]_serviceVars PROVE ListInv'
  OBVIOUS
<1>1. CASE UNCHANGED serviceVars
  BY <1>1, ListedAlike DEF serviceVars, ListInv
<1>2. ASSUME NEW list \in AccountLists, LoadAccounts(list) PROVE ListInv'
  <2>1. /\ i' = 1 /\ result' = result /\ pc' = "prices" /\ accounts' = list
        /\ Len(result.accounts) = 0 /\ result.accounts \in Seq(ValuedSet)
    BY <1>2 DEF LoadAccounts, ListInv, TypeInv
  <2>2. 1 <= Len(accounts') + 1 /\ DOMAIN result.accounts = {}
    BY <1>2, <2>1, SourcesAssumption
  <2> QED
    BY <2>1, <2>2 DEF ListInv
<1>3. ASSUME NEW table \in PriceTables, LoadPrices(table) PROVE ListInv'
  <2>1. /\ i' = 1 /\ result' = result /\ pc' = "account" /\ accounts' = accounts
        /\ Len(result.accounts) = 0 /\ result.accounts \in Seq(ValuedSet)
    BY <1>3 DEF LoadPrices, ListInv, TypeInv
  <2>2. DOMAIN result.accounts = {} /\ 1 <= Len(accounts) + 1
    BY <2>1 DEF TypeInv
  <2> QED
    BY <2>1, <2>2 DEF ListInv
<1>4. CASE AccountsUnavailable \/ PricesUnavailable \/ PositionFails \/ TotalFails \/ Return
  <2>1. pc' \in {"unavailable", "failed", "done"} /\ UNCHANGED <<accounts, prices, i, result>>
    BY <1>4 DEF AccountsUnavailable, PricesUnavailable, PositionFails, TotalFails, Return, Abort
  <2> QED
    BY <2>1, ListedAlike DEF ListInv
<1>5. CASE BeginAccount
  <2>1. /\ pc' = "positions" /\ i \in DOMAIN accounts /\ j' = 1 /\ holdings' = <<>>
        /\ UNCHANGED <<accounts, prices, i, result>>
    BY <1>5 DEF BeginAccount, TypeInv
  <2>2. accounts[i] \in AccountSet
    BY <2>1 DEF TypeInv
  <2>3. 1 <= Len(accounts[i].positions) + 1 /\ HoldingsListed(holdings', i) /\ Len(holdings') = j' - 1
    BY <2>1, <2>2 DEF HoldingsListed, AccountSet
  <2> QED
    BY <2>1, <2>3, ListedAlike DEF ListInv
<1>6. CASE ValuePosition
  <2> DEFINE price == prices[Position.symbol]
             holding(value) == [symbol |-> Position.symbol, quantity |-> Position.quantity,
                                unitPrice |-> price.value, marketValue |-> value]
  <2>1. /\ pc = "positions" /\ j <= Len(accounts[i].positions) /\ j' = j + 1
        /\ UNCHANGED <<pc, accounts, prices, i>> /\ result'.accounts = result.accounts
    BY <1>6 DEF ValuePosition, TypeInv
  <2>2. PICK value \in PositionValue : holdings' = Append(holdings, holding(value))
    BY <1>6 DEF ValuePosition
  <2>3. /\ Position \in PositionSet /\ price \in PriceSet /\ Position.symbol \in DOMAIN prices
        /\ value \in MoneySet
    BY <2>1, ValuedPosition
  <2>4. holdings \in Seq(HoldingSet) /\ holding(value) \in HoldingSet /\ Len(holdings) = j - 1 /\ j \in Nat
    BY <2>1, <2>3 DEF ListInv, TypeInv, PositionSet, PriceSet, HoldingSet
  <2>5. HoldingListed(holding(value), accounts[i].positions[j])
    BY <2>3 DEF HoldingListed, Position
  <2>6. Len(holdings') = j /\ HoldingsListed(holdings', i)
    <3> DEFINE new == holding(value)
    <3>1. holdings' = Append(holdings, new) /\ new \in HoldingSet /\ HoldingListed(new, accounts[i].positions[j])
      BY <2>2, <2>4, <2>5
    <3> HIDE DEF holding, new
    <3>2. Len(holdings') = j /\ DOMAIN holdings' = 1 .. j
          /\ \A p \in 1 .. j : holdings'[p] = IF p = j THEN new ELSE holdings[p]
      BY <2>4, <3>1
    <3>3. \A p \in 1 .. j : p # j => p \in DOMAIN holdings
      BY <2>4
    <3> QED
      BY <2>1, <3>1, <3>2, <3>3 DEF ListInv, HoldingsListed
  <2>7. j' - 1 = j /\ j' <= Len(accounts[i].positions) + 1
    <3>1. accounts[i] \in AccountSet
      BY <2>1 DEF TypeInv
    <3>2. Len(accounts[i].positions) \in Nat
      BY <3>1 DEF AccountSet
    <3> QED
      BY <2>1, <2>4, <3>2
  <2> QED
    BY <2>1, <2>6, <2>7, ListedAlike DEF ListInv
<1>7. CASE EndAccount
  <2> DEFINE account == [id |-> accounts[i].id, type |-> accounts[i].type,
                         cash |-> accounts[i].cash, marketValue |-> accountValue,
                         holdings |-> holdings]
  <2>1. /\ pc = "positions" /\ pc' = "account" /\ i' = i + 1 /\ i \in DOMAIN accounts
        /\ j > Len(accounts[i].positions) /\ UNCHANGED <<accounts, prices>>
        /\ result'.accounts = Append(result.accounts, account)
    BY <1>7 DEF EndAccount, TypeInv
  <2>2. result.accounts \in Seq(ValuedSet) /\ Len(result.accounts) = i - 1 /\ i \in Nat \ {0}
    BY DEF ListInv, TypeInv
  <2>3. /\ Len(result'.accounts) = i /\ DOMAIN result'.accounts = 1 .. i
        /\ \A k \in 1 .. i : result'.accounts[k] = IF k = i THEN account ELSE result.accounts[k]
    <3> HIDE DEF account
    <3> QED
      BY <2>1, <2>2
  <2>4. AccountListed(account, i)
    <3>1. accounts[i] \in AccountSet
      BY <2>1 DEF TypeInv
    <3>2. Len(accounts[i].positions) \in Nat
      BY <3>1 DEF AccountSet
    <3>3. Len(holdings) = Len(accounts[i].positions) /\ HoldingsListed(holdings, i)
      BY <2>1, <3>2 DEF ListInv, TypeInv
    <3> QED
      BY <3>3 DEF AccountListed
  <2>5. i' <= Len(accounts) + 1 /\ i' - 1 = i
    BY <2>1, <2>2 DEF TypeInv
  <2>6. ASSUME NEW k \in DOMAIN result'.accounts PROVE AccountListed(result'.accounts[k], k)
    <3>1. CASE k = i
      BY <2>2, <2>3, <2>4, <3>1
    <3>2. CASE k # i
      <4>1. k \in DOMAIN result.accounts /\ result'.accounts[k] = result.accounts[k]
        BY <2>2, <2>3, <3>2
      <4> QED
        BY <4>1 DEF ListInv
    <3> QED
      BY <3>1, <3>2
  <2> QED
    BY <2>1, <2>3, <2>5, <2>6, ListedAlike DEF ListInv
<1> QED
  BY <1>1, <1>2, <1>3, <1>4, <1>5, <1>6, <1>7 DEF ServiceNext

\* A finished portfolio lists every account with its cash and every position with
\* its quantity and its price, in order, whether or not their values fit int64.
Listed == pc = "done" => /\ Len(result.accounts) = Len(accounts)
                         /\ \A k \in DOMAIN accounts : AccountListed(result.accounts[k], k)

\* That is so for every list and table (service.go:66-93): Listed.
THEOREM PortfolioIsWhole == ServiceSpec => []Listed
<1>1. TypeInv /\ RefuseInv /\ ListInv => Listed
  <2> SUFFICES ASSUME TypeInv, RefuseInv, ListInv, pc = "done"
      PROVE  Len(result.accounts) = Len(accounts) /\ DOMAIN result.accounts = DOMAIN accounts
    BY DEF ListInv, Listed
  <2>1. i > Len(accounts) /\ i <= Len(accounts) + 1 /\ Len(result.accounts) = i - 1
    BY DEF RefuseInv, ListInv
  <2> QED
    BY <2>1 DEF TypeInv
<1> QED
  BY <1>1, InitInv, NextInv, InitRefuse, NextRefuse, InitList, NextList, PTL DEF ServiceSpec

-----------------------------------------------------------------------------
(* The loops end.                                                          *)

\* The calls that are left, the accounts that are left, and the positions that are
\* left of the account in hand.
CallsLeft ==
    IF pc = "accounts" THEN 3 ELSE IF pc = "prices" THEN 2
    ELSE IF pc \in {"account", "positions"} THEN 1 ELSE 0

\* An account that is not begun counts twice: it is begun, and it is ended.
AccountsLeft ==
    IF pc = "account" THEN 2 * (Len(accounts) + 1 - i) + 1
    ELSE IF pc = "positions" THEN 2 * (Len(accounts) + 1 - i) ELSE 0

PositionsLeft == IF pc = "positions" THEN Len(accounts[i].positions) + 1 - j ELSE 0

Left == <<CallsLeft, AccountsLeft, PositionsLeft>>

\* The order of the dictionary, in which no sequence of naturals falls for ever.
Below(m, n) ==
    \/ m[1] < n[1]
    \/ m[1] = n[1] /\ m[2] < n[2]
    \/ m[1] = n[1] /\ m[2] = n[2] /\ m[3] < n[3]

\* What is left is never negative.
LEMMA LeftTyped == TypeInv /\ ListInv => Left \in Nat \X Nat \X Nat
<1> SUFFICES ASSUME TypeInv, ListInv PROVE CallsLeft \in Nat /\ AccountsLeft \in Nat /\ PositionsLeft \in Nat
  BY DEF Left
<1>1. Len(accounts) \in Nat /\ i \in Nat /\ j \in Nat
  BY DEF TypeInv
<1>2. pc = "positions" => Len(accounts[i].positions) \in Nat
  BY DEF TypeInv, AccountSet
<1> QED
  BY <1>1, <1>2 DEF CallsLeft, AccountsLeft, PositionsLeft, ListInv

\* Every step does some of it.
LEMMA StepLowers == TypeInv /\ [ServiceNext]_serviceVars => [Below(Left', Left)]_serviceVars
<1> SUFFICES ASSUME TypeInv, ServiceNext PROVE Below(Left', Left)
  OBVIOUS
<1>1. Len(accounts) \in Nat /\ i \in Nat /\ j \in Nat
  BY DEF TypeInv
<1>2. pc = "positions" => Len(accounts[i].positions) \in Nat
  BY DEF TypeInv, AccountSet
<1>3. ASSUME CallsLeft' < CallsLeft PROVE Below(Left', Left)
  BY <1>3 DEF Below, Left
<1>4. ASSUME CallsLeft' = CallsLeft, AccountsLeft' < AccountsLeft PROVE Below(Left', Left)
  BY <1>4 DEF Below, Left
<1>5. CASE \/ \E list \in AccountLists : LoadAccounts(list)
           \/ \E table \in PriceTables : LoadPrices(table)
  BY <1>3, <1>5 DEF LoadAccounts, LoadPrices, CallsLeft
<1>6. CASE AccountsUnavailable \/ PricesUnavailable \/ PositionFails \/ TotalFails \/ Return
  <2>1. /\ pc \in {"accounts", "prices", "account", "positions"}
        /\ pc' \in {"unavailable", "failed", "done"}
    BY <1>6 DEF AccountsUnavailable, PricesUnavailable, PositionFails, TotalFails, Return, Abort
  <2> QED
    BY <1>3, <2>1 DEF CallsLeft
<1>7. CASE BeginAccount
  <2>1. pc = "account" /\ pc' = "positions" /\ UNCHANGED <<accounts, i>>
    BY <1>7 DEF BeginAccount
  <2> QED
    BY <1>1, <1>4, <2>1 DEF CallsLeft, AccountsLeft
<1>8. CASE ValuePosition
  <2>1. pc = "positions" /\ UNCHANGED <<pc, accounts, i>> /\ j' = j + 1
    BY <1>8, Zenon DEF ValuePosition
  <2>2. CallsLeft' = CallsLeft /\ AccountsLeft' = AccountsLeft
    BY <2>1 DEF CallsLeft, AccountsLeft
  <2>3. PositionsLeft' < PositionsLeft
    <3> DEFINE n == Len(accounts[i].positions)
    <3>1. pc' = "positions" /\ n' = n /\ j' = j + 1
      BY <2>1
    <3>2. n \in Nat
      BY <1>2, <2>1
    <3>3. PositionsLeft = n + 1 - j /\ PositionsLeft' = n' + 1 - j'
      BY <2>1, <3>1 DEF PositionsLeft
    <3> HIDE DEF n
    <3> QED
      BY <1>1, <3>1, <3>2, <3>3
  <2> QED
    BY <2>2, <2>3 DEF Below, Left
<1>9. CASE EndAccount
  <2>1. pc = "positions" /\ pc' = "account" /\ accounts' = accounts /\ i' = i + 1
    BY <1>9, Zenon DEF EndAccount
  <2> QED
    BY <1>1, <1>4, <2>1 DEF CallsLeft, AccountsLeft
<1> QED
  BY <1>5, <1>6, <1>7, <1>8, <1>9 DEF ServiceNext

\* Service.Get returns for every list and table, on an error or not
\* (service.go:66-93): each of its steps lowers what is left to do, and that cannot
\* go on for ever.
THEOREM LoopsEnd ==
    ServiceSpec => [](Left \in Nat \X Nat \X Nat) /\ [][Below(Left', Left)]_serviceVars
<1>1. ServiceInit => TypeInv /\ CurrencyInv /\ ListInv
  BY InitInv, InitList
<1>2. TypeInv /\ CurrencyInv /\ ListInv /\ [ServiceNext]_serviceVars => (TypeInv /\ CurrencyInv /\ ListInv)'
  BY NextInv, NextList
<1> QED
  BY <1>1, <1>2, LeftTyped, StepLowers, PTL DEF ServiceSpec

=============================================================================
