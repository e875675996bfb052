---------------------------- MODULE EndToEndProofs ----------------------------
(***************************************************************************)
(* Proofs about EndToEnd for every width, set of customers and set of      *)
(* responses that its assumptions allow.  The composition is shown to      *)
(* implement the specifications of its components, and their theorems are  *)
(* used from there.                                                        *)
(***************************************************************************)
EXTENDS EndToEnd, DomainProofs, SumTheorems, FiniteSetTheorems, TLAPS

\* All that Core can answer, and the adapter for it.
CoreSent == CoreResponses \cup {CoreMock(version, c) : version \in ContractVersions, c \in Customers}

Adapter == INSTANCE CoreAdapterProofs
    WITH response <- coreResponse, outcome <- coreOutcome, accounts <- coreAccounts,
         CoreResponses <- CoreSent

\* All the lists and tables that an adapter could return, and the service for them.
Lists == {list \in Seq(Service!AccountSet) :
             \A k \in DOMAIN list : list[k].cash.currency # Service!NoCurrency}
Tables == UNION {[S -> Service!PriceSet] : S \in SUBSET Names}

Valuation == INSTANCE ServiceProofs WITH AccountLists <- Lists, PriceTables <- Tables

-----------------------------------------------------------------------------
(* The instances of one module have the same definitions.                  *)

\* Arithmetic.
LEMMA SameDomain ==
    /\ Core!PowerOfTen = PowerOfTen /\ Adapter!PowerOfTen = PowerOfTen
    /\ \A n : Core!Wrap(n) = Wrap(n) /\ Adapter!Wrap(n) = Wrap(n)
    /\ \A n : Service!Wrap(n) = Wrap(n) /\ Valuation!Wrap(n) = Wrap(n)
    /\ \A t : Core!Fraction(t) = Fraction(t) /\ Adapter!Fraction(t) = Fraction(t)
    /\ \A t : Core!ParseQuantity(t) = ParseQuantity(t) /\ Adapter!ParseQuantity(t) = ParseQuantity(t)
    /\ \A q : QuantityString(q) = Adapter!QuantityString(q)
<1>1. Core!PowerOfTen = PowerOfTen /\ Adapter!PowerOfTen = PowerOfTen
  BY DEF PowerOfTen, Core!PowerOfTen, Adapter!PowerOfTen
<1>2. /\ \A n : Core!Wrap(n) = Wrap(n) /\ Adapter!Wrap(n) = Wrap(n)
      /\ \A n : Service!Wrap(n) = Wrap(n) /\ Valuation!Wrap(n) = Wrap(n)
  BY DEF Wrap, Core!Wrap, Adapter!Wrap, Service!Wrap, Valuation!Wrap
<1>3. \A t : Core!Fraction(t) = Fraction(t) /\ Adapter!Fraction(t) = Fraction(t)
  BY <1>1 DEF Fraction, Core!Fraction, Adapter!Fraction
<1>4. \A t : /\ Core!ParseInt(t) <=> ParseInt(t)
             /\ Adapter!ParseInt(t) <=> ParseInt(t)
  BY DEF ParseInt, Core!ParseInt, Adapter!ParseInt
<1>5. \A t : Core!ParseQuantity(t) = ParseQuantity(t) /\ Adapter!ParseQuantity(t) = ParseQuantity(t)
  BY <1>2, <1>3, <1>4 DEF ParseQuantity, Core!ParseQuantity, Adapter!ParseQuantity
<1>6. \A q : QuantityString(q) = Adapter!QuantityString(q)
  BY <1>1 DEF QuantityString, Adapter!QuantityString, Quo, Adapter!Quo, NoSign, Adapter!NoSign
<1> QED
  BY <1>1, <1>2, <1>3, <1>5, <1>6

\* The mapping of a Core body.
LEMMA SameMapping == \A body : Core!Translate(body) = Adapter!Translate(body)
<1>1. Core!NoText = Adapter!NoText
  BY Zenon DEF Core!NoText, Adapter!NoText
<1>2. \A results : Core!AllOf(results) = Adapter!AllOf(results)
  BY Zenon DEF Core!AllOf, Adapter!AllOf
<1>3. \A text : Core!ValidCoreV2Quantity(text) <=> Adapter!ValidCoreV2Quantity(text)
  <2>1. \A text : Core!ParseInt(text) <=> Adapter!ParseInt(text)
    BY Zenon DEF Core!ParseInt, Adapter!ParseInt
  <2>2. \A text : Core!CoreV2QuantityOverflows(text) <=> Adapter!CoreV2QuantityOverflows(text)
    BY Zenon, <2>1, SameDomain DEF Core!CoreV2QuantityOverflows, Adapter!CoreV2QuantityOverflows
  <2> QED
    BY Zenon, <2>2 DEF Core!ValidCoreV2Quantity, Adapter!ValidCoreV2Quantity
<1>4. ASSUME NEW item, NEW types, NEW strict
      PROVE  Core!MapAccount(item, types, strict) = Adapter!MapAccount(item, types, strict)
  <2> DEFINE Made(ids, known, amounts, lists) ==
               {[id |-> id, type |-> type, cash |-> money, positions |-> positions] :
                  id \in ids, type \in known, money \in amounts, positions \in lists}
             M(cash) == Core!CoreParseMoney(cash, strict)
             N(cash) == Adapter!CoreParseMoney(cash, strict)
             P(position) == Core!CoreParsePosition(position, strict)
             Q(position) == Adapter!CoreParsePosition(position, strict)
             F(list) == Core!AllOf([k \in DOMAIN list |-> P(list[k])])
             G(list) == Adapter!AllOf([k \in DOMAIN list |-> Q(list[k])])
  <2>1. Core!MapAccount(item, types, strict)
             = Made(item.id \ {Core!NoText}, item.type \cap types,
                    UNION {M(cash) : cash \in item.cash}, UNION {F(list) : list \in item.positions})
    BY DEF Core!MapAccount
  <2>2. Adapter!MapAccount(item, types, strict)
             = Made(item.id \ {Adapter!NoText}, item.type \cap types,
                    UNION {N(cash) : cash \in item.cash}, UNION {G(list) : list \in item.positions})
    BY DEF Adapter!MapAccount
  <2>3. \A cash : M(cash) = N(cash)
    BY DEF Core!CoreParseMoney, Adapter!CoreParseMoney, Core!NewMoney, Adapter!NewMoney
  <2>4. \A position : P(position) = Q(position)
    BY <1>1, <1>3, SameDomain DEF Core!CoreParsePosition, Adapter!CoreParsePosition
  <2>5. \A list : F(list) = G(list)
    <3> HIDE DEF P, Q
    <3>1. \A list : [k \in DOMAIN list |-> P(list[k])] = [k \in DOMAIN list |-> Q(list[k])]
      BY <2>4
    <3> QED
      BY <1>2, <3>1
  <2> HIDE DEF Made, M, N, F, G
  <2>6. /\ UNION {M(cash) : cash \in item.cash} = UNION {N(cash) : cash \in item.cash}
        /\ UNION {F(list) : list \in item.positions} = UNION {G(list) : list \in item.positions}
    BY <2>3, <2>5
  <2> QED
    BY <1>1, <2>1, <2>2, <2>6, Zenon
<1>5. \A item, types, strict : Core!MapAccount(item, types, strict) = Adapter!MapAccount(item, types, strict)
  BY <1>4, Zenon
<1>6. \A item : Core!MapCoreV1Account(item) = Adapter!MapCoreV1Account(item)
  BY <1>1, <1>5, Zenon DEF Core!MapCoreV1Account, Adapter!MapCoreV1Account
<1>7. \A item : Core!MapCoreV2Portfolio(item) = Adapter!MapCoreV2Portfolio(item)
  BY <1>5, Zenon DEF Core!MapCoreV2Portfolio, Adapter!MapCoreV2Portfolio
<1>8. \A body : Core!MapCoreV1(body) = Adapter!MapCoreV1(body)
  <2> DEFINE F(list) == Core!AllOf([k \in DOMAIN list |-> Core!MapCoreV1Account(list[k])])
             G(list) == Adapter!AllOf([k \in DOMAIN list |-> Adapter!MapCoreV1Account(list[k])])
  <2>1. \A list : F(list) = G(list)
    <3>1. \A list : [k \in DOMAIN list |-> Core!MapCoreV1Account(list[k])]
                    = [k \in DOMAIN list |-> Adapter!MapCoreV1Account(list[k])]
      BY <1>6
    <3> QED
      BY <1>2, <3>1
  <2> HIDE DEF F, G
  <2>2. \A lists : UNION {F(list) : list \in lists} = UNION {G(list) : list \in lists}
    BY <2>1
  <2>3. \A lists :
          UNION {Core!AllOf([k \in DOMAIN list |-> Core!MapCoreV1Account(list[k])]) : list \in lists}
            = UNION {Adapter!AllOf([k \in DOMAIN list |-> Adapter!MapCoreV1Account(list[k])]) : list \in lists}
    BY <2>2, Zenon DEF F, G
  <2> QED
    BY <2>3 DEF Core!MapCoreV1, Adapter!MapCoreV1
<1>9. \A body : Core!MapCoreV2(body) = Adapter!MapCoreV2(body)
  <2> DEFINE F(list) == Core!AllOf([k \in DOMAIN list |-> Core!MapCoreV2Portfolio(list[k])])
             G(list) == Adapter!AllOf([k \in DOMAIN list |-> Adapter!MapCoreV2Portfolio(list[k])])
  <2>1. \A list : F(list) = G(list)
    <3>1. \A list : [k \in DOMAIN list |-> Core!MapCoreV2Portfolio(list[k])]
                    = [k \in DOMAIN list |-> Adapter!MapCoreV2Portfolio(list[k])]
      BY <1>7
    <3> QED
      BY <1>2, <3>1
  <2> HIDE DEF F, G
  <2>2. \A lists : UNION {F(list) : list \in lists} = UNION {G(list) : list \in lists}
    BY <2>1
  <2>3. \A lists :
          UNION {Core!AllOf([k \in DOMAIN list |-> Core!MapCoreV2Portfolio(list[k])]) : list \in lists}
            = UNION {Adapter!AllOf([k \in DOMAIN list |-> Adapter!MapCoreV2Portfolio(list[k])]) : list \in lists}
    BY <2>2, Zenon DEF F, G
  <2> QED
    BY <2>3 DEF Core!MapCoreV2, Adapter!MapCoreV2
<1>10. \A body : Core!DetectCoreVersion(body) = Adapter!DetectCoreVersion(body)
  BY Zenon DEF Core!DetectCoreVersion, Adapter!DetectCoreVersion, Core!Signature, Adapter!Signature
<1> QED
  BY <1>8, <1>9, <1>10 DEF Core!Translate, Adapter!Translate

\* The call of the Core adapter.
LEMMA SameCall == Core!CoreNext <=> Adapter!CoreNext
BY SameMapping DEF Core!CoreNext, Adapter!CoreNext, Core!CoreNotFound, Adapter!CoreNotFound,
   Core!CoreStatusError, Adapter!CoreStatusError, Core!CoreTooLarge, Adapter!CoreTooLarge,
   Core!CoreRejected, Adapter!CoreRejected, Core!CoreMapped, Adapter!CoreMapped, Core!Fails, Adapter!Fails

\* The types of the service.
LEMMA SameTypes ==
    /\ Valuation!AccountSet = Service!AccountSet /\ Valuation!PriceSet = Service!PriceSet
    /\ Valuation!NoCurrency = Service!NoCurrency
BY Zenon DEF Valuation!AccountSet, Service!AccountSet, Valuation!PriceSet, Service!PriceSet,
   Valuation!MoneySet, Service!MoneySet, Valuation!PositionSet, Service!PositionSet, Valuation!CurrencySet,
   Service!CurrencySet, Valuation!NoCurrency, Service!NoCurrency, Valuation!Int64, Service!Int64,
   Valuation!IntMin, Service!IntMin

\* The steps of the service.
LEMMA SameValuation ==
    /\ Service!ServiceInit <=> Valuation!ServiceInit
    /\ \A list : Service!LoadAccounts(list) <=> Valuation!LoadAccounts(list)
    /\ \A table : Service!LoadPrices(table) <=> Valuation!LoadPrices(table)
    /\ Service!AccountsUnavailable <=> Valuation!AccountsUnavailable
    /\ Service!PricesUnavailable <=> Valuation!PricesUnavailable
    /\ Service!BeginAccount <=> Valuation!BeginAccount
    /\ Service!ValuePosition <=> Valuation!ValuePosition
    /\ Service!PositionFails <=> Valuation!PositionFails
    /\ Service!EndAccount <=> Valuation!EndAccount
    /\ Service!TotalFails <=> Valuation!TotalFails
    /\ Service!Return <=> Valuation!Return
<1> USE DEF Service!Abort, Valuation!Abort
<1>0. Service!NoCurrency = Valuation!NoCurrency /\ Service!NoMoney = Valuation!NoMoney
  BY Zenon DEF Service!NoCurrency, Valuation!NoCurrency, Service!NoMoney, Valuation!NoMoney
<1>1. \A list : Service!UniqueSymbols(list) = Valuation!UniqueSymbols(list)
  BY DEF Service!UniqueSymbols, Valuation!UniqueSymbols
<1>2. \A m, n : Service!MoneyAdd(m, n) = Valuation!MoneyAdd(m, n)
  BY DEF Service!MoneyAdd, Valuation!MoneyAdd, Service!Wrap, Valuation!Wrap
<1>3. Service!PositionValue = Valuation!PositionValue /\ Service!Position = Valuation!Position
  BY DEF Service!PositionValue, Valuation!PositionValue, Service!Position, Valuation!Position,
     Service!MarketValue, Valuation!MarketValue, Service!Wrap, Valuation!Wrap
<1>4. Service!ServiceInit <=> Valuation!ServiceInit
  BY <1>0 DEF Service!ServiceInit, Valuation!ServiceInit
<1>5. /\ \A list : Service!LoadAccounts(list) <=> Valuation!LoadAccounts(list)
      /\ \A table : Service!LoadPrices(table) <=> Valuation!LoadPrices(table)
  BY <1>1 DEF Service!LoadAccounts, Valuation!LoadAccounts, Service!LoadPrices, Valuation!LoadPrices
<1>6. /\ Service!AccountsUnavailable <=> Valuation!AccountsUnavailable
      /\ Service!PricesUnavailable <=> Valuation!PricesUnavailable
  BY <1>1 DEF Service!AccountsUnavailable, Valuation!AccountsUnavailable,
     Service!PricesUnavailable, Valuation!PricesUnavailable
<1>7. /\ Service!BeginAccount <=> Valuation!BeginAccount
      /\ Service!Return <=> Valuation!Return
  BY DEF Service!BeginAccount, Valuation!BeginAccount, Service!Return, Valuation!Return
<1>8. /\ Service!ValuePosition <=> Valuation!ValuePosition
      /\ Service!PositionFails <=> Valuation!PositionFails
  BY <1>2, <1>3 DEF Service!ValuePosition, Valuation!ValuePosition, Service!PositionFails,
     Valuation!PositionFails, Service!NewerOf, Valuation!NewerOf
<1>9. /\ Service!EndAccount <=> Valuation!EndAccount
      /\ Service!TotalFails <=> Valuation!TotalFails
  <2>1. Service!NewTotal(result.total) = Valuation!NewTotal(result.total)
    BY <1>0, <1>2 DEF Service!NewTotal, Valuation!NewTotal
  <2> QED
    BY <2>1 DEF Service!EndAccount, Valuation!EndAccount, Service!TotalFails, Valuation!TotalFails
<1> QED
  BY <1>4, <1>5, <1>6, <1>7, <1>8, <1>9

-----------------------------------------------------------------------------
(* What the upstreams send.                                                *)

\* An account of the seed.
LEMMA SeededItem ==
    ASSUME NEW id \in Names, NEW type \in Names, NEW minor \in Nat, minor <= IntMax,
           NEW symbol \in Names, NEW n \in Nat
    PROVE  LET item == CoreItem(id, type, minor, symbol, n) IN Core!ItemOK(item) /\ CoreItemTyped(item)
<1> DEFINE text == Units(n)
           position == [symbol |-> {symbol}, quantity |-> {text}]
           item == CoreItem(id, type, minor, symbol, n)
           money == [minor |-> {minor}, currency |-> {USD}]
<1>1. Core!QuantityTextOK(text)
  <2>1. text.sign \in {Core!NoText, "+", "-"}
    BY Zenon DEF Units, NoSign, Core!NoText
  <2>2. text.whole = n /\ text.points = 0 /\ text.digits = 0 /\ text.fraction = 0
    BY DEF Units
  <2>3. Core!Fraction(text) = 0
    <3>1. PowerOfTen[Places] \in Int
      BY ScaleAssumption
    <3> HIDE DEF text
    <3> QED
      BY <2>2, <3>1, ScaleAssumption, SameDomain DEF Fraction
  <2>4. 0 \in 0 .. Scale - 1
    BY ScaleAssumption
  <2> HIDE DEF text
  <2> QED
    BY <2>1, <2>2, <2>3, <2>4 DEF Core!QuantityTextOK
<1>2. /\ item.id = {id} /\ item.type = {type} /\ item.cash = {money} /\ item.positions = {<<position>>}
      /\ money.minor = {minor} /\ money.currency = {USD}
  BY DEF CoreItem
<1>3. position.symbol = {symbol} /\ position.quantity = {text}
  OBVIOUS
<1>4. DOMAIN <<position>> = {1} /\ <<position>>[1] = position /\ Core!IsList(<<position>>)
  BY DEF Core!IsList
<1>5. minor \in Int64 /\ CurrencyOK(USD)
  BY MocksAssumption, WidthAssumption DEF Int64, IntMin, CurrencyOK, USD, MockTexts
<1> HIDE DEF text, position, item, money
<1>6. Core!ItemOK(item)
  BY <1>1, <1>2, <1>3, <1>4 DEF Core!ItemOK, Core!AtMostOne
<1>7. CoreItemTyped(item)
  BY <1>2, <1>3, <1>4, <1>5 DEF CoreItemTyped
<1> QED
  BY <1>6, <1>7 DEF item

\* The Core mock keeps to the types, in either version.
LEMMA CoreMockOK == \A version, c : CoreResponseOK(CoreMock(version, c))
<1> DEFINE first == CoreItem("acct-brokerage-01", "BROKERAGE", 250000, "AAPL", 100)
           second == CoreItem("acct-retirement-01", "RETIREMENT", 260000, "BND", 200)
<1>1. /\ Core!ItemOK(first) /\ CoreItemTyped(first)
      /\ Core!ItemOK(second) /\ CoreItemTyped(second)
  <2>1. 250000 <= IntMax /\ 260000 <= IntMax
    BY MocksAssumption, WidthAssumption
  <2> QED
    BY <2>1, MocksAssumption, SeededItem DEF MockTexts
<1>2. V1Response.list = {<<first, second>>} /\ V2Response.list = {<<first, second>>}
  BY DEF V1Response, V2Response
<1> HIDE DEF first, second
<1>3. \A k \in DOMAIN <<first, second>> : <<first, second>>[k] \in {first, second}
  OBVIOUS
<1>4. Core!IsList(<<first, second>>)
  BY DEF Core!IsList
<1>5. ASSUME NEW version, NEW c PROVE CoreResponseOK(CoreMock(version, c))
  <2> DEFINE r == CoreMock(version, c)
  <2>1. r.size = 1 /\ r.body.list = {<<first, second>>}
    BY <1>2 DEF CoreMock
  <2> HIDE DEF r
  <2>2. CoreResponseOK(r)
    BY <1>1, <1>3, <1>4, <2>1 DEF CoreResponseOK, Core!ResponseOK, Core!AtMostOne
  <2> QED
    BY <2>2 DEF r
<1> QED
  BY <1>5

\* So does everything Core sends.
LEMMA CoreSentOK == \A r \in CoreSent : CoreResponseOK(r)
BY CoreMockOK, CoreAssumption DEF CoreSent

\* The Market mock keeps to the types for every list of symbols.
LEMMA MarketMockOK == ASSUME NEW list, Core!IsList(list) PROVE MarketResponseOK(MarketMock(list))
<1> DEFINE r == MarketMock(list)
           known == \A k \in DOMAIN list : list[k] \in DOMAIN MarketData
<1>1. CASE ~known
  <2>1. r.entries = <<>>
    BY <1>1 DEF MarketMock
  <2> HIDE DEF r
  <2> QED
    BY <2>1 DEF r, MarketResponseOK, Core!IsList
<1>2. CASE known
  <2> DEFINE entry(k) == [symbol |-> list[k], minor |-> {MarketData[list[k]]}, currency |-> {USD}, asOf |-> 1]
  <2>1. r.entries = [k \in DOMAIN list |-> entry(k)]
    BY <1>2 DEF MarketMock
  <2>2. ASSUME NEW k \in DOMAIN list PROVE EntryOK(entry(k))
    <3>1. list[k] \in Names /\ MarketData[list[k]] \in Nat /\ MarketData[list[k]] <= IntMax
      <4>1. list[k] \in {"AAPL", "BND"}
        BY <1>2 DEF MarketData
      <4>2. MarketData["AAPL"] = 18525 /\ MarketData["BND"] = 5375
        BY DEF MarketData
      <4>3. 18525 <= IntMax /\ 5375 <= IntMax
        BY MocksAssumption, WidthAssumption
      <4> QED
        BY <4>1, <4>2, <4>3, MocksAssumption DEF MockTexts
    <3>2. MarketData[list[k]] \in Int64 /\ CurrencyOK(USD)
      BY <3>1, MocksAssumption, WidthAssumption DEF Int64, IntMin, CurrencyOK, USD, MockTexts
    <3>3. /\ entry(k).symbol = list[k] /\ entry(k).minor = {MarketData[list[k]]}
          /\ entry(k).currency = {USD} /\ entry(k).asOf = 1
      OBVIOUS
    <3> HIDE DEF entry
    <3> QED
      BY <3>1, <3>2, <3>3 DEF EntryOK, Core!AtMostOne
  <2> HIDE DEF r, entry
  <2>3. Core!IsList(r.entries)
    BY <2>1 DEF Core!IsList
  <2>4. MarketResponseOK(r)
    BY <2>1, <2>2, <2>3 DEF MarketResponseOK
  <2> QED
    BY <2>4 DEF r
<1> QED
  BY <1>1, <1>2

-----------------------------------------------------------------------------
(* The Core adapter in the stack.                                          *)

\* The adapter's own assumptions hold of what Core sends here.
LEMMA AdapterAssumptions ==
    /\ Adapter!PowerOfTen = PowerOfTen
    /\ Adapter!NoText \notin Categories
    /\ \A r \in CoreSent : Adapter!ResponseOK(r)
<1>1. Adapter!NoText = Core!NoText
  BY Zenon DEF Core!NoText, Adapter!NoText
<1>2. /\ \A list : Core!IsList(list) <=> Adapter!IsList(list)
      /\ \A set : Core!AtMostOne(set) <=> Adapter!AtMostOne(set)
  BY Zenon DEF Core!IsList, Adapter!IsList, Core!AtMostOne, Adapter!AtMostOne
<1>3. \A text : Core!QuantityTextOK(text) <=> Adapter!QuantityTextOK(text)
  BY Zenon, <1>1, SameDomain DEF Core!QuantityTextOK, Adapter!QuantityTextOK
<1>4. \A item : Core!ItemOK(item) <=> Adapter!ItemOK(item)
  BY <1>2, <1>3 DEF Core!ItemOK, Adapter!ItemOK
<1>5. \A r : Core!ResponseOK(r) <=> Adapter!ResponseOK(r)
  BY <1>2, <1>4 DEF Core!ResponseOK, Adapter!ResponseOK
<1> QED
  BY <1>1, <1>5, SameDomain, CoreSentOK, AdapterAssumption DEF CoreResponseOK

\* Whatever the rest of the stack does, the calls to Core are those of the
\* adapter's specification, with the mock's responses among Core's.
THEOREM CoreAsSpecified == Spec => Adapter!CoreSpec
<1>1. Init => Adapter!CoreInit
  BY DEF Init, Adapter!CoreInit, CoreSent
<1>2. [Next]_vars => [Adapter!CoreNext]_(Adapter!coreVars)
  BY SameCall DEF vars, Next, coreVars, Adapter!coreVars, CoreAnswers, LoadAccounts, AccountsUnavailable,
     CallMarket, MarketAnswers, LoadPrices, PricesUnavailable, Value, RespondPortfolio, RespondError
<1> QED
  BY <1>1, <1>2, PTL DEF Spec, Adapter!CoreSpec

\* What a mapped response is made of, in the stack.
LEMMA AccountsWhole == Spec => []Adapter!WholeInv
<1>1. Adapter!CoreInit => Adapter!WholeInv
  BY DEF Adapter!CoreInit, Adapter!WholeInv
<1>2. Adapter!WholeInv /\ [Adapter!CoreNext]_(Adapter!coreVars) => Adapter!WholeInv'
  BY AdapterAssumptions, AdapterAssumption, WidthAssumption, ScaleAssumption, Adapter!NextWhole
<1> QED
  BY <1>1, <1>2, CoreAsSpecified, PTL DEF Adapter!CoreSpec

\* What Core sends is mapped to a list the service can take.
LEMMA AccountsTyped ==
    ASSUME Adapter!WholeInv, coreOutcome = "accounts"
    PROVE  coreAccounts \in Lists
<1>1. PICK list \in coreResponse.body.list : TRUE
  BY DEF Adapter!WholeInv
<1>2. coreResponse \in CoreSent /\ coreAccounts \in Adapter!Translate(coreResponse.body)
  BY DEF Adapter!WholeInv
<1>3. /\ coreAccounts = [k \in 1 .. Len(list) |-> coreAccounts[k]]
      /\ \A k \in DOMAIN list : Adapter!MadeOf(coreAccounts[k], list[k])
  BY <1>1, <1>2, AdapterAssumptions, AdapterAssumption, WidthAssumption, ScaleAssumption, Adapter!TranslatedWhole
<1>4. /\ Core!IsList(list) /\ \A k \in DOMAIN list : CoreItemTyped(list[k])
  BY <1>1, <1>2, CoreSentOK DEF CoreResponseOK, Core!ResponseOK
<1>5. ASSUME NEW k \in DOMAIN list
      PROVE  coreAccounts[k] \in Service!AccountSet /\ coreAccounts[k].cash.currency # Service!NoCurrency
  <2> DEFINE account == coreAccounts[k]
  <2>1. Adapter!MadeOf(account, list[k]) /\ CoreItemTyped(list[k])
    BY <1>3, <1>4
  <2> HIDE DEF account
  <2>2. account.id \in Names /\ account.type \in Names
    BY <2>1 DEF Adapter!MadeOf, CoreItemTyped
  <2>3. PICK cash : list[k].cash = {cash} /\ Adapter!MoneyOf(account.cash, cash)
    BY <2>1 DEF Adapter!MadeOf
  <2>4. account.cash \in Service!MoneySet /\ account.cash.currency # Service!NoCurrency
    <3>1. account.cash.minor \in Int64
      BY <2>1, <2>3 DEF Adapter!MoneyOf, CoreItemTyped
    <3>2. account.cash.currency \in Names \ {Service!NoCurrency}
      BY <2>1, <2>3 DEF Adapter!MoneyOf, CoreItemTyped, CurrencyOK
    <3>3. account.cash = [minor |-> account.cash.minor, currency |-> account.cash.currency]
      BY <2>3 DEF Adapter!MoneyOf
    <3> QED
      BY <3>1, <3>2, <3>3 DEF Service!MoneySet, Service!CurrencySet, Service!Int64, Service!IntMin, Int64, IntMin
  <2>5. PICK texts : /\ list[k].positions = {texts} /\ Adapter!IsList(texts)
                     /\ account.positions = [p \in 1 .. Len(texts) |-> account.positions[p]]
                     /\ \A p \in DOMAIN texts : Adapter!PositionOf(account.positions[p], texts[p])
    BY <2>1 DEF Adapter!MadeOf
  <2>6. ASSUME NEW p \in 1 .. Len(texts) PROVE account.positions[p] \in Service!PositionSet
    <3>1. Adapter!PositionOf(account.positions[p], texts[p]) /\ texts[p].symbol \subseteq Names
      BY <2>1, <2>5 DEF Adapter!IsList, CoreItemTyped
    <3> QED
      BY <3>1 DEF Adapter!PositionOf, Service!PositionSet, Adapter!Int64, Adapter!IntMin,
         Service!Int64, Service!IntMin
  <2>7. account.positions \in Seq(Service!PositionSet)
    <3>1. Len(texts) \in Nat
      BY <2>5 DEF Adapter!IsList
    <3> QED
      BY <2>5, <2>6, <3>1
  <2>8. account = [id |-> account.id, type |-> account.type, cash |-> account.cash,
                   positions |-> account.positions]
    BY <2>1 DEF Adapter!MadeOf
  <2>9. account \in Service!AccountSet
    BY <2>2, <2>4, <2>7, <2>8 DEF Service!AccountSet
  <2> QED
    BY <2>4, <2>9 DEF account
<1>6. Len(list) \in Nat /\ DOMAIN list = 1 .. Len(list)
  BY <1>4 DEF Core!IsList
<1>7. coreAccounts \in Seq(Service!AccountSet) /\ DOMAIN coreAccounts = DOMAIN list
  BY <1>3, <1>5, <1>6
<1> QED
  BY <1>5, <1>7 DEF Lists

-----------------------------------------------------------------------------
(* The Market adapter in the stack.                                        *)

\* An entry has one price at most, of the types the service takes.
LEMMA PriceTyped ==
    ASSUME NEW entry, EntryOK(entry), NEW price \in Market!PriceOf(entry)
    PROVE  /\ price \in Service!PriceSet /\ price.asOf = entry.asOf
           /\ entry.symbol \in Names /\ entry.symbol # Market!NoText /\ entry.asOf > 0
           /\ price.value.minor \in IF entry.minor = {} THEN {0} ELSE entry.minor
           /\ \E text : /\ entry.currency = {text} /\ text.length = 3
                        /\ price.value.currency = text.code
<1>1. PICK minor \in (IF entry.minor = {} THEN {0} ELSE entry.minor), text \in entry.currency :
        /\ text.length = 3
        /\ price = [value |-> [minor |-> minor, currency |-> text.code], asOf |-> entry.asOf]
  BY DEF Market!PriceOf, Market!NewMoney
<1>2. entry.symbol # Market!NoText /\ entry.asOf # 0
  BY DEF Market!PriceOf
<1>3. minor \in Int64
  BY <1>1, WidthAssumption DEF EntryOK, Int64, IntMin
<1>4. text.code \in Names /\ entry.currency = {text}
  BY <1>1 DEF EntryOK, CurrencyOK, Core!AtMostOne
<1>5. price \in Service!PriceSet
  BY <1>1, <1>3, <1>4 DEF EntryOK, Service!PriceSet, Service!MoneySet, Service!CurrencySet,
     Service!Int64, Service!IntMin, Int64, IntMin
<1> QED
  BY <1>1, <1>2, <1>4, <1>5 DEF EntryOK

\* The place a symbol is last named at.
Newest(entries, s, k) ==
    entries[k].symbol = s /\ \A l \in DOMAIN entries : entries[l].symbol = s => l <= k

\* The table has a price for every symbol the entries name, from the last that
\* names it; every entry has a price.
TableOf(table, entries) ==
    /\ DOMAIN table = {entries[k].symbol : k \in DOMAIN entries}
    /\ \A k \in DOMAIN entries : EntryOK(entries[k]) /\ Market!PriceOf(entries[k]) # {}
    /\ \A s \in DOMAIN table : \E k \in DOMAIN entries :
          Newest(entries, s, k) /\ table[s] \in Market!PriceOf(entries[k])

LEMMA TableOfEntries ==
    ASSUME NEW r, MarketResponseOK(r), NEW table \in Market!PricesOf(r.entries)
    PROVE  table \in Tables /\ TableOf(table, r.entries)
<1> DEFINE entries == r.entries
           last(s) == CHOOSE k \in DOMAIN entries :
               entries[k].symbol = s /\ \A l \in DOMAIN entries : entries[l].symbol = s => l <= k
           D == {entries[k].symbol : k \in DOMAIN entries}
<1>1. \A k \in DOMAIN entries : Market!PriceOf(entries[k]) # {}
  BY DEF Market!PricesOf
<1>2. table = [s \in D |-> CHOOSE price \in Market!PriceOf(entries[last(s)]) : TRUE]
  BY <1>1 DEF Market!PricesOf
<1>3. ASSUME NEW s \in D PROVE last(s) \in DOMAIN entries /\ Newest(entries, s, last(s))
  <2> DEFINE K == {k \in DOMAIN entries : entries[k].symbol = s}
  <2>1. Len(entries) \in Nat /\ DOMAIN entries = 1 .. Len(entries)
    BY DEF MarketResponseOK, Core!IsList
  <2>2. K \in SUBSET (1 .. Len(entries)) /\ K # {}
    BY <2>1
  <2>3. \E k \in K : \A l \in K : l <= k
    <3> HIDE DEF K
    <3> QED
      BY <2>1, <2>2, Extremes
  <2>4. \E k \in DOMAIN entries : Newest(entries, s, k)
    BY <2>3 DEF Newest
  <2> QED
    BY <2>4 DEF Newest
<1>4. \A s \in D : table[s] \in Market!PriceOf(entries[last(s)])
  BY <1>1, <1>2, <1>3
<1>5. \A s \in D : table[s] \in Service!PriceSet /\ s \in Names
  <2> SUFFICES ASSUME NEW s \in D PROVE table[s] \in Service!PriceSet /\ s \in Names
    OBVIOUS
  <2>1. /\ last(s) \in DOMAIN entries /\ entries[last(s)].symbol = s
        /\ table[s] \in Market!PriceOf(entries[last(s)])
    BY <1>3, <1>4 DEF Newest
  <2>2. EntryOK(entries[last(s)])
    BY <2>1 DEF MarketResponseOK
  <2> HIDE DEF entries, last
  <2> QED
    BY <2>1, <2>2, PriceTyped
<1>6. DOMAIN table = D /\ table \in [D -> Service!PriceSet] /\ D \in SUBSET Names
  BY <1>2, <1>5
<1> HIDE DEF last
<1>7. table \in Tables
  BY <1>6 DEF Tables
<1>8. \A k \in DOMAIN entries : EntryOK(entries[k])
  BY DEF MarketResponseOK
<1>9. TableOf(table, entries)
  <2> HIDE DEF entries
  <2> QED
    BY <1>1, <1>3, <1>4, <1>6, <1>8 DEF TableOf
<1> QED
  BY <1>7, <1>9

\* The symbols of a typed list of accounts are finitely many.
LEMMA SymbolsFinite ==
    ASSUME NEW list \in Seq(Service!AccountSet)
    PROVE  IsFiniteSet(Service!UniqueSymbols(list))
<1>0. ASSUME NEW S, IsFiniteSet(S), NEW f PROVE IsFiniteSet({f[x] : x \in S})
  <2> DEFINE T == {f[x] : x \in S}
             g == [x \in S |-> f[x]]
  <2>1. g \in Surjection(S, T)
    BY DEF Surjection
  <2> HIDE DEF g, T
  <2>2. IsFiniteSet(T)
    BY <1>0, <2>1, FS_Surjection
  <2> QED
    BY <2>2 DEF T
<1>1. \A k \in DOMAIN list : list[k].positions \in Seq(Service!PositionSet)
  <2>1. \A k \in DOMAIN list : list[k] \in Service!AccountSet
    OBVIOUS
  <2> QED
    BY <2>1 DEF Service!AccountSet
<1>2. \A sequence, S : sequence \in Seq(S) => IsFiniteSet(DOMAIN sequence)
  <2> SUFFICES ASSUME NEW S, NEW sequence \in Seq(S) PROVE IsFiniteSet(DOMAIN sequence)
    OBVIOUS
  <2>1. Len(sequence) \in Nat /\ DOMAIN sequence = 1 .. Len(sequence)
    OBVIOUS
  <2> QED
    BY <2>1, FS_Interval
<1> DEFINE named(k) == {list[k].positions[p].symbol : p \in DOMAIN list[k].positions}
           sets == {named(k) : k \in DOMAIN list}
<1>3. ASSUME NEW k \in DOMAIN list PROVE IsFiniteSet(named(k))
  <2> DEFINE P == DOMAIN list[k].positions
             f == [p \in P |-> list[k].positions[p].symbol]
  <2>1. IsFiniteSet(P)
    BY <1>1, <1>2
  <2>2. named(k) = {f[p] : p \in P}
    OBVIOUS
  <2> HIDE DEF P, f
  <2>3. IsFiniteSet({f[p] : p \in P})
    BY <1>0, <2>1
  <2> QED
    BY <2>2, <2>3
<1>4. IsFiniteSet(sets)
  <2> DEFINE K == DOMAIN list
             f == [k \in K |-> named(k)]
  <2>1. IsFiniteSet(K)
    BY <1>2
  <2>2. sets = {f[k] : k \in K}
    OBVIOUS
  <2> HIDE DEF K, f
  <2>3. IsFiniteSet({f[k] : k \in K})
    BY <1>0, <2>1
  <2> QED
    BY <2>2, <2>3
<1>5. \A T \in sets : IsFiniteSet(T)
  BY <1>3
<1>6. Service!UniqueSymbols(list) = UNION sets
  BY DEF Service!UniqueSymbols
<1> HIDE DEF sets
<1> QED
  BY <1>4, <1>5, <1>6, FS_UNION

\* They can be put in a list.
LEMMA SymbolsListed ==
    ASSUME NEW list \in Seq(Service!AccountSet)
    PROVE  Core!IsList(SetToSeq(Service!UniqueSymbols(list)))
<1> DEFINE S == Service!UniqueSymbols(list)
           n == Cardinality(S)
<1>1. n \in Nat /\ Bijection(1 .. n, S) # {}
  BY SymbolsFinite, FS_CardinalityType DEF ExistsBijection
<1>2. \E f \in [1 .. n -> S] : IsInjective(f)
  BY <1>1 DEF Bijection, Injection
<1>3. SetToSeq(S) \in [1 .. n -> S]
  BY <1>2 DEF SetToSeq
<1> HIDE DEF S, n
<1>4. Len(SetToSeq(S)) = n
  BY <1>1, <1>3
<1> QED
  BY <1>1, <1>3, <1>4 DEF Core!IsList, S

\* A call to Market sends a list of symbols, Market answers it with typed data,
\* and a table is the mapping of that answer, or empty if there was no call.
MarketInv ==
    /\ marketOutcome = "none" => symbols = <<>>
    /\ marketOutcome # "none" => MarketResponseOK(marketResponse)
    /\ marketOutcome = "prices" /\ symbols # <<>> => marketPrices \in Market!Translate(marketResponse)
    /\ marketOutcome # "prices" \/ symbols = <<>> => marketPrices = <<>>

\* A table is one the service can take.
LEMMA PricesTyped ==
    ASSUME MarketInv, marketOutcome = "prices"
    PROVE  marketPrices \in Tables
<1>1. CASE symbols = <<>>
  <2>1. <<>> \in [{} -> Service!PriceSet]
    OBVIOUS
  <2> QED
    BY <1>1, <2>1 DEF MarketInv, Tables
<1>2. CASE symbols # <<>>
  <2>1. marketPrices \in Market!Translate(marketResponse) /\ MarketResponseOK(marketResponse)
    BY <1>2 DEF MarketInv
  <2>2. marketPrices \in Market!PricesOf(marketResponse.entries)
    BY <2>1 DEF Market!Translate, Market!Decoded
  <2> QED
    BY <2>1, <2>2, TableOfEntries
<1> QED
  BY <1>1, <1>2

\* Market is called once, and its answer is mapped once.
LEMMA NextMarket == Valuation!TypeInv /\ MarketInv /\ [Next]_vars => MarketInv'
<1> SUFFICES ASSUME Valuation!TypeInv, MarketInv, [Next]_vars PROVE MarketInv'
  OBVIOUS
<1>1. CASE UNCHANGED marketVars
  BY <1>1 DEF MarketInv, marketVars
<1>2. CASE CallMarket
  <2>1. accounts \in Seq(Service!AccountSet)
    <3>1. accounts \in Seq(Valuation!AccountSet)
      BY DEF Valuation!TypeInv
    <3> QED
      BY <3>1, SameTypes
  <2>2. Core!IsList(symbols')
    BY <1>2, <2>1, SymbolsListed DEF CallMarket
  <2>3. marketResponse' \in MarketResponses \cup {MarketMock(symbols')}
    BY <1>2 DEF CallMarket
  <2>4. MarketResponseOK(marketResponse')
    BY <2>2, <2>3, MarketMockOK, MarketAssumption
  <2>5. marketOutcome' = "pending" /\ marketPrices' = <<>>
    BY <1>2 DEF CallMarket, MarketInv
  <2> QED
    BY <2>4, <2>5 DEF MarketInv
<1>3. CASE MarketAnswers
  BY <1>3 DEF MarketAnswers, Market!MarketNext, Market!MarketSkipped, Market!MarketRejected, Market!MarketMapped,
     MarketInv
<1> QED
  BY <1>1, <1>2, <1>3 DEF Next, vars, CoreAnswers, LoadAccounts, AccountsUnavailable, LoadPrices,
     PricesUnavailable, Value, RespondPortfolio, RespondError

-----------------------------------------------------------------------------
(* The service in the stack.                                               *)

StackInv ==
    /\ Adapter!WholeInv
    /\ Valuation!TypeInv
    /\ Valuation!CurrencyInv
    /\ MarketInv

\* The instances agree on what is a list of accounts and what a table.
LEMMA ValuationAssumptions ==
    /\ Valuation!PowerOfTen = PowerOfTen
    /\ Lists \subseteq Seq(Valuation!AccountSet)
    /\ \A list \in Lists : \A k \in DOMAIN list : list[k].cash.currency # Valuation!NoCurrency
    /\ \A table \in Tables : \A s \in DOMAIN table : table[s] \in Valuation!PriceSet
<1>1. Valuation!PowerOfTen = PowerOfTen
  BY DEF PowerOfTen, Valuation!PowerOfTen
<1> QED
  BY <1>1, SameTypes DEF Lists, Tables

\* Whatever reaches the service is of its types: each of its steps is one of its
\* specification.
LEMMA StepOfService == StackInv /\ [Next]_vars => [Valuation!ServiceNext]_(Valuation!serviceVars)
<1> SUFFICES ASSUME StackInv, [Next]_vars PROVE [Valuation!ServiceNext]_(Valuation!serviceVars)
  OBVIOUS
<1>1. CASE UNCHANGED serviceVars
  BY <1>1 DEF serviceVars, Valuation!serviceVars
<1>2. CASE LoadAccounts
  <2>1. coreAccounts \in Lists /\ Valuation!LoadAccounts(coreAccounts)
    BY <1>2, AccountsTyped, SameValuation DEF LoadAccounts, StackInv
  <2> QED
    BY <2>1 DEF Valuation!ServiceNext
<1>3. CASE LoadPrices
  <2>1. marketPrices \in Tables /\ Valuation!LoadPrices(marketPrices)
    BY <1>3, PricesTyped, SameValuation DEF LoadPrices, StackInv
  <2> QED
    BY <2>1 DEF Valuation!ServiceNext
<1>4. CASE AccountsUnavailable \/ PricesUnavailable \/ Value
  BY <1>4, SameValuation DEF AccountsUnavailable, PricesUnavailable, Value, Valuation!ServiceNext
<1> QED
  BY <1>1, <1>2, <1>3, <1>4 DEF Next, vars, CoreAnswers, CallMarket, MarketAnswers, RespondPortfolio, RespondError

\* The composition keeps what its parts keep.
LEMMA StackInvariant == Spec => []StackInv
<1>1. Init => Valuation!ServiceInit /\ MarketInv
  BY SameValuation DEF Init, MarketInv
<1>2. Valuation!ServiceInit => Valuation!TypeInv /\ Valuation!CurrencyInv
  BY ValuationAssumptions, WidthAssumption, ScaleAssumption, Valuation!InitInv
<1>3. Valuation!TypeInv /\ Valuation!CurrencyInv /\ [Valuation!ServiceNext]_(Valuation!serviceVars)
        => Valuation!TypeInv' /\ Valuation!CurrencyInv'
  BY ValuationAssumptions, WidthAssumption, ScaleAssumption, Valuation!NextInv
<1>4. Init /\ Adapter!WholeInv => StackInv
  BY <1>1, <1>2 DEF StackInv
<1>5. StackInv /\ [Next]_vars /\ Adapter!WholeInv' => StackInv'
  BY <1>3, StepOfService, NextMarket DEF StackInv
<1> QED
  BY <1>4, <1>5, AccountsWhole, PTL DEF Spec

\* The service that the stack drives is the service as specified, for the lists
\* and tables that the adapters can return.
THEOREM ServiceAsSpecified == Spec => Valuation!ServiceSpec
<1>1. Init => Valuation!ServiceInit
  BY SameValuation DEF Init
<1> QED
  BY <1>1, StepOfService, StackInvariant, PTL DEF Spec, Valuation!ServiceSpec

-----------------------------------------------------------------------------
(* The answer of Market.                                                   *)

\* A table of prices is of the entries of a 200.
LEMMA PricesOfEntries ==
    ASSUME MarketInv, marketOutcome = "prices", symbols # <<>>
    PROVE  marketResponse.status = 200 /\ TableOf(marketPrices, marketResponse.entries)
<1>1. marketPrices \in Market!Translate(marketResponse) /\ MarketResponseOK(marketResponse)
  BY DEF MarketInv
<1>2. marketResponse.status = 200 /\ marketPrices \in Market!PricesOf(marketResponse.entries)
  BY <1>1 DEF Market!Translate, Market!Decoded
<1> QED
  BY <1>1, <1>2, TableOfEntries

\* Prices come from answers without a malformed entry, whoever asked.
THEOREM MarketClosed == Spec => []MarketFailsClosed
<1>1. StackInv => MarketFailsClosed
  <2> SUFFICES ASSUME MarketInv, marketOutcome = "prices", symbols # <<>>
      PROVE  /\ marketResponse.status = 200
             /\ \A k \in DOMAIN marketResponse.entries :
                   /\ marketResponse.entries[k].symbol # Market!NoText
                   /\ marketResponse.entries[k].asOf > 0
                   /\ \E text \in marketResponse.entries[k].currency : text.length = 3
    BY DEF StackInv, MarketFailsClosed, Market!MarketFailsClosed
  <2>1. ASSUME NEW k \in DOMAIN marketResponse.entries
        PROVE  /\ marketResponse.entries[k].symbol # Market!NoText
               /\ marketResponse.entries[k].asOf > 0
               /\ \E text \in marketResponse.entries[k].currency : text.length = 3
    <3> DEFINE entry == marketResponse.entries[k]
    <3>1. PICK price \in Market!PriceOf(entry) : TRUE
      BY PricesOfEntries DEF TableOf
    <3>2. EntryOK(entry)
      BY PricesOfEntries DEF TableOf
    <3> HIDE DEF entry
    <3>3. /\ entry.symbol # Market!NoText /\ entry.asOf > 0
          /\ \E text : entry.currency = {text} /\ text.length = 3
      BY <3>1, <3>2, PriceTyped
    <3> QED
      BY <3>3 DEF entry
  <2> QED
    BY <2>1, PricesOfEntries DEF TableOf
<1> QED
  BY <1>1, StackInvariant, PTL

-----------------------------------------------------------------------------
(* The answer of the API.                                                  *)

\* What the service holds is what the adapters returned, and the answer is
\* that of the way the request has gone.
LinkInv ==
    /\ coreOutcome = "pending" => pc = "accounts"
    /\ coreOutcome # "pending" => (coreOutcome = "notFound" <=> coreResponse.status = 404)
    /\ pc \notin {"accounts", "unavailable"} => coreOutcome = "accounts" /\ accounts = coreAccounts
    /\ marketOutcome # "none" => pc # "accounts" /\ symbols = SetToSeq(Service!UniqueSymbols(accounts))
    /\ pc \notin {"accounts", "prices", "unavailable"} => marketOutcome = "prices" /\ prices = marketPrices
    /\ answer # <<>> =>
          \/ pc = "done" /\ answer = [status |-> 200, body |-> MapPortfolio(result)]
          \/ /\ pc \in {"failed", "unavailable"}
             /\ answer = [status |-> IF coreOutcome = "notFound" THEN 404 ELSE 502]

LEMMA InitLink == Init => LinkInv
BY DEF Init, Service!ServiceInit, LinkInv

LEMMA NextLink == LinkInv /\ [Next]_vars => LinkInv'
<1> SUFFICES ASSUME LinkInv, [Next]_vars PROVE LinkInv'
  OBVIOUS
<1> USE DEF LinkInv, coreVars, marketVars, serviceVars
<1>1. CASE CoreAnswers
  BY <1>1 DEF CoreAnswers, Core!CoreNext, Core!CoreNotFound, Core!CoreStatusError, Core!CoreTooLarge,
     Core!CoreRejected, Core!CoreMapped, Core!Fails
<1>2. CASE LoadAccounts
  BY <1>2 DEF LoadAccounts, Service!LoadAccounts
<1>3. CASE AccountsUnavailable
  BY <1>3 DEF AccountsUnavailable, Service!AccountsUnavailable, Service!Abort
<1>4. CASE CallMarket
  BY <1>4 DEF CallMarket
<1>5. CASE MarketAnswers
  BY <1>5 DEF MarketAnswers, Market!MarketNext, Market!MarketSkipped, Market!MarketRejected, Market!MarketMapped
<1>6. CASE LoadPrices
  BY <1>6 DEF LoadPrices, Service!LoadPrices
<1>7. CASE PricesUnavailable
  BY <1>7 DEF PricesUnavailable, Service!PricesUnavailable, Service!Abort
<1>8. CASE Value
  <2>1. /\ pc \in {"account", "positions"}
        /\ pc' \in {"account", "positions", "done", "failed"}
        /\ UNCHANGED <<accounts, prices, coreVars, marketVars, answer>>
    <3>1. CASE Service!BeginAccount \/ Service!Return
      BY <1>8, <3>1 DEF Value, Service!BeginAccount, Service!Return
    <3>2. CASE Service!ValuePosition
      BY <1>8, <3>2 DEF Value, Service!ValuePosition
    <3>3. CASE Service!EndAccount
      <4>1. pc = "positions" /\ pc' = "account" /\ UNCHANGED <<accounts, prices>>
        BY <3>3, Zenon DEF Service!EndAccount
      <4> QED
        BY <1>8, <4>1 DEF Value
    <3>4. CASE Service!PositionFails \/ Service!TotalFails
      BY <1>8, <3>4 DEF Value, Service!PositionFails, Service!TotalFails, Service!Abort
    <3> QED
      BY <1>8, <3>1, <3>2, <3>3, <3>4 DEF Value
  <2> QED
    BY <2>1
<1>9. CASE RespondPortfolio
  BY <1>9 DEF RespondPortfolio, MapPortfolio
<1>10. CASE RespondError
  BY <1>10 DEF RespondError
<1>11. CASE UNCHANGED vars
  BY <1>11 DEF vars, MapPortfolio
<1> QED
  BY <1>1, <1>2, <1>3, <1>4, <1>5, <1>6, <1>7, <1>8, <1>9, <1>10, <1>11 DEF Next

LEMMA LinkInvariant == Spec => []LinkInv
BY InitLink, NextLink, PTL DEF Spec

-----------------------------------------------------------------------------
(* The status of the answer.                                               *)

\* The contract of Core, as the adapter's proofs name it.
LEMMA SameContract ==
    /\ \A body : Core!DetectCoreVersion(body) = Adapter!DetectCoreVersion(body)
    /\ \A item : Core!V2Account(item) <=> Adapter!V2Account(item)
<1>1. Core!NoText = Adapter!NoText
  BY Zenon DEF Core!NoText, Adapter!NoText
<1>2. \A body : Core!DetectCoreVersion(body) = Adapter!DetectCoreVersion(body)
  BY Zenon DEF Core!DetectCoreVersion, Adapter!DetectCoreVersion, Core!Signature, Adapter!Signature
<1>3. \A text : Core!Denotes(text) = Adapter!Denotes(text)
  BY Zenon, SameDomain DEF Core!Denotes, Adapter!Denotes
<1>4. \A text : Core!PlainDecimal(text) <=> Adapter!PlainDecimal(text)
  BY Zenon, <1>1, <1>3 DEF Core!PlainDecimal, Adapter!PlainDecimal
<1>5. \A item : Core!V2Account(item) <=> Adapter!V2Account(item)
  BY Zenon, <1>1, <1>4 DEF Core!V2Account, Adapter!V2Account
<1> QED
  BY <1>2, <1>5

\* They agree on the terms of a valuation.
LEMMA SameTerms ==
    /\ \A p : Service!Product(p) = Valuation!Product(p)
    /\ Service!Positions = Valuation!Positions
    /\ Service!UniqueSymbols(accounts) = Valuation!UniqueSymbols(accounts)
    /\ Service!Priced <=> Valuation!Priced
    /\ Service!ProductsInRange <=> Valuation!ProductsInRange
    /\ Service!Currencies = Valuation!Currencies
<1>1. \A p : Service!Product(p) = Valuation!Product(p)
  BY DEF Service!Product, Valuation!Product
<1>2. Service!Positions = Valuation!Positions
  BY DEF Service!Positions, Valuation!Positions, Service!Range, Valuation!Range
<1>3. Service!UniqueSymbols(accounts) = Valuation!UniqueSymbols(accounts)
  BY DEF Service!UniqueSymbols, Valuation!UniqueSymbols
<1>4. Service!Int64 = Valuation!Int64
  BY DEF Service!Int64, Valuation!Int64, Service!IntMin, Valuation!IntMin
<1> QED
  BY <1>1, <1>2, <1>3, <1>4
  DEF Service!Priced, Valuation!Priced, Service!ProductsInRange, Valuation!ProductsInRange,
      Service!Currencies, Valuation!Currencies

\* The list of symbols has each of them.
LEMMA SymbolsKept ==
    ASSUME NEW list \in Seq(Service!AccountSet)
    PROVE  Range(SetToSeq(Service!UniqueSymbols(list))) = Service!UniqueSymbols(list)
<1> DEFINE S == Service!UniqueSymbols(list)
           n == Cardinality(S)
<1>1. IsFiniteSet(S)
  BY SymbolsFinite
<1>2. n \in Nat /\ Bijection(1 .. n, S) # {}
  BY <1>1, FS_CardinalityType DEF ExistsBijection
<1>3. SetToSeq(S) \in [1 .. n -> S] /\ IsInjective(SetToSeq(S))
  <2>1. \E f \in [1 .. n -> S] : IsInjective(f)
    BY <1>2 DEF Bijection, Injection
  <2> QED
    BY <2>1 DEF SetToSeq
<1> HIDE DEF S, n
<1> DEFINE f == SetToSeq(S)
           T == Range(f)
<1>4. T \subseteq S
  BY <1>3 DEF Range
<1>5. f \in Bijection(1 .. n, T)
  BY <1>3, <1>4 DEF Bijection, Injection, Surjection, IsInjective, Range
<1> HIDE DEF T, f
<1>6. IsFiniteSet(T) /\ Cardinality(T) = n
  <2>1. IsFiniteSet(1 .. n) /\ Cardinality(1 .. n) = n
    BY <1>2, FS_Interval
  <2> QED
    BY <1>5, <2>1, FS_Bijection DEF ExistsBijection
<1>7. T = S
  BY <1>1, <1>4, <1>6, FS_Subset DEF n
<1> QED
  BY <1>7 DEF T, f, S

\* Why a request is not served: what an adapter refused was wrong, and the service
\* ends early for what an adapter refused.  Market is asked about Core's accounts.
RefusalInv ==
    /\ coreOutcome = "accounts" => coreResponse.status = 200 /\ coreResponse.size <= MaxResponseBytes
    /\ coreOutcome = "failed" =>
          \/ coreResponse.status # 200 \/ coreResponse.size > MaxResponseBytes
          \/ Core!Translate(coreResponse.body) = {}
    /\ marketOutcome = "failed" => symbols # <<>> /\ Market!Translate(marketResponse) = {}
    /\ pc = "unavailable" => coreOutcome \in {"notFound", "failed"} \/ marketOutcome = "failed"
    /\ marketOutcome # "none" => coreOutcome = "accounts" /\ accounts = coreAccounts

LEMMA InitRefusal == Init => RefusalInv
BY DEF Init, Service!ServiceInit, RefusalInv

LEMMA NextRefusal == LinkInv /\ RefusalInv /\ [Next]_vars => RefusalInv'
<1> SUFFICES ASSUME LinkInv, RefusalInv, [Next]_vars PROVE RefusalInv'
  OBVIOUS
<1>1. customerID' = customerID /\ coreResponse' = coreResponse
  BY DEF vars, Next, coreVars, CoreAnswers, Core!CoreNext, Core!CoreNotFound, Core!CoreStatusError,
     Core!CoreTooLarge, Core!CoreRejected, Core!CoreMapped, Core!Fails, LoadAccounts, AccountsUnavailable,
     CallMarket, MarketAnswers, LoadPrices, PricesUnavailable, Value, RespondPortfolio, RespondError
<1>2. Core!Translate(coreResponse.body)' = Core!Translate(coreResponse.body)
  BY <1>1 DEF Core!Translate, Core!MapCoreV1, Core!MapCoreV2, Core!DetectCoreVersion, Core!Signature
<1> USE DEF RefusalInv, coreVars, marketVars, serviceVars
<1>3. CASE CoreAnswers
  <2>1. /\ coreOutcome = "pending" /\ UNCHANGED <<marketVars, serviceVars>>
        /\ coreOutcome' = "accounts" => coreResponse.status = 200 /\ coreResponse.size <= MaxResponseBytes
        /\ coreOutcome' = "failed" =>
              \/ coreResponse.status # 200 \/ coreResponse.size > MaxResponseBytes
              \/ Core!Translate(coreResponse.body) = {}
    BY <1>3 DEF CoreAnswers, Core!CoreNext, Core!CoreNotFound, Core!CoreStatusError, Core!CoreTooLarge,
       Core!CoreRejected, Core!CoreMapped, Core!Fails
  <2>2. pc = "accounts"
    BY <2>1 DEF LinkInv
  <2>3. Market!Translate(marketResponse)' = Market!Translate(marketResponse)
    BY <2>1 DEF Market!Translate, Market!Decoded
  <2> QED
    BY <1>1, <1>2, <2>1, <2>2, <2>3
<1>4. ASSUME UNCHANGED coreVars, UNCHANGED marketVars,
             marketOutcome # "none" => accounts' = accounts,
             pc' = "unavailable" =>
                 \/ pc = "unavailable"
                 \/ coreOutcome \in {"notFound", "failed"} \/ marketOutcome = "failed"
      PROVE  RefusalInv'
  <2>1. Market!Translate(marketResponse)' = Market!Translate(marketResponse)
    BY <1>4 DEF Market!Translate, Market!Decoded
  <2> QED
    BY <1>2, <1>4, <2>1
<1>5. CASE LoadAccounts \/ LoadPrices
  BY <1>4, <1>5 DEF LoadAccounts, LoadPrices, Service!LoadAccounts, Service!LoadPrices, LinkInv
<1>6. CASE AccountsUnavailable \/ PricesUnavailable
  BY <1>4, <1>6 DEF AccountsUnavailable, PricesUnavailable, Service!AccountsUnavailable,
     Service!PricesUnavailable, Service!Abort
<1>7. CASE Value
  <2>1. pc' # "unavailable" /\ accounts' = accounts
    <3>1. CASE Service!EndAccount
      BY <3>1, Zenon DEF Service!EndAccount
    <3>2. CASE Service!BeginAccount \/ Service!ValuePosition \/ Service!PositionFails
               \/ Service!TotalFails \/ Service!Return
      BY <3>2 DEF Service!BeginAccount, Service!ValuePosition, Service!PositionFails, Service!TotalFails,
         Service!Return, Service!Abort
    <3> QED
      BY <1>7, <3>1, <3>2 DEF Value
  <2> QED
    BY <1>4, <1>7, <2>1 DEF Value
<1>8. CASE CallMarket
  BY <1>2, <1>8 DEF CallMarket, LinkInv
<1>9. CASE MarketAnswers
  <2>1. /\ UNCHANGED <<coreVars, serviceVars>> /\ marketOutcome = "pending"
        /\ marketOutcome' = "failed" =>
              symbols # <<>> /\ Market!Translate(marketResponse) = {} /\ UNCHANGED <<symbols, marketResponse>>
    BY <1>9 DEF MarketAnswers, Market!MarketNext, Market!MarketSkipped, Market!MarketRejected, Market!MarketMapped
  <2>2. marketOutcome' = "failed" => Market!Translate(marketResponse)' = {}
    BY <2>1 DEF Market!Translate, Market!Decoded
  <2> QED
    BY <1>2, <2>1, <2>2
<1>10. CASE RespondPortfolio \/ RespondError \/ UNCHANGED vars
  BY <1>4, <1>10 DEF RespondPortfolio, RespondError, vars
<1> QED
  BY <1>3, <1>5, <1>6, <1>7, <1>8, <1>9, <1>10 DEF Next

LEMMA RefusalInvariant == Spec => [](LinkInv /\ RefusalInv)
<1>1. Init => LinkInv /\ RefusalInv
  BY InitLink, InitRefusal
<1>2. LinkInv /\ RefusalInv /\ [Next]_vars => (LinkInv /\ RefusalInv)'
  BY NextLink, NextRefusal
<1> QED
  BY <1>1, <1>2, PTL DEF Spec

\* What keeps to the contract of Core is not refused.
LEMMA DocumentedAccepted ==
    ASSUME RefusalInv, LinkInv, Adapter!WholeInv, CoreDocumented
    PROVE  coreOutcome \notin {"notFound", "failed"}
<1> DEFINE body == coreResponse.body
<1>1. coreResponse \in CoreSent
  BY DEF Adapter!WholeInv
<1>2. Adapter!Translate(body) # {}
  <2>1. /\ body.strict /\ Adapter!DetectCoreVersion(body) # {} /\ body.id = {customerID}
        /\ \E list \in body.list : \A k \in DOMAIN list : Adapter!V2Account(list[k])
    BY SameContract DEF CoreDocumented
  <2> QED
    BY <1>1, <2>1, AdapterAssumptions, AdapterAssumption, WidthAssumption, ScaleAssumption,
       Adapter!DocumentedMapped
<1>3. Core!Translate(body) # {}
  BY <1>2, SameMapping
<1>4. coreResponse.size \in Nat /\ MaxResponseBytes \in Nat
  BY <1>1, CoreSentOK, AdapterAssumption DEF CoreResponseOK, Core!ResponseOK
<1> QED
  BY <1>3, <1>4 DEF CoreDocumented, RefusalInv, LinkInv

\* What keeps to the contract of Market is not refused, and has all prices.
LEMMA DocumentedPriced ==
    ASSUME RefusalInv, MarketInv, MarketDocumented, symbols # <<>>, marketOutcome # "none"
    PROVE  /\ marketOutcome # "failed"
           /\ marketOutcome = "prices" => Range(symbols) \subseteq DOMAIN marketPrices
<1> DEFINE entries == marketResponse.entries
<1>1. MarketResponseOK(marketResponse)
  BY DEF MarketInv
<1>2. ASSUME NEW k \in DOMAIN entries PROVE Market!PriceOf(entries[k]) # {}
  <2>1. entries[k] \in Range(entries) /\ EntryOK(entries[k])
    BY <1>1 DEF Range, MarketResponseOK
  <2> DEFINE e == entries[k]
  <2>2. PICK text \in e.currency : text.length = 3
    BY <2>1 DEF MarketDocumented
  <2>3. e.symbol # Market!NoText /\ e.asOf # 0
    BY <2>1 DEF MarketDocumented, EntryOK
  <2>4. PICK minor \in (IF e.minor = {} THEN {0} ELSE e.minor) : TRUE
    OBVIOUS
  <2>5. PICK money \in Market!NewMoney(minor, text) : TRUE
    BY <2>2 DEF Market!NewMoney
  <2> HIDE DEF e
  <2> DEFINE minors == IF e.minor = {} THEN {0} ELSE e.minor
             Found(n, t) == {[value |-> m, asOf |-> e.asOf] : m \in Market!NewMoney(n, t)}
  <2>6. Market!PriceOf(e) = UNION {Found(n, t) : n \in minors, t \in e.currency}
    BY <2>3 DEF Market!PriceOf
  <2>7. [value |-> money, asOf |-> e.asOf] \in Found(minor, text)
    BY <2>5
  <2>8. minor \in minors
    BY <2>4
  <2> HIDE DEF minors, Found
  <2>9. Found(minor, text) \subseteq Market!PriceOf(e)
    BY <2>2, <2>6, <2>8
  <2> QED
    BY <2>7, <2>9 DEF e
<1>3. Market!PricesOf(entries) # {}
  BY <1>2 DEF Market!PricesOf
<1>4. Market!Translate(marketResponse) # {}
  BY <1>3 DEF Market!Translate, Market!Decoded, MarketDocumented
<1>5. ASSUME marketOutcome = "prices", NEW s \in Range(symbols) PROVE s \in DOMAIN marketPrices
  <2>1. PICK e \in Range(entries) : e.symbol = s
    BY DEF MarketDocumented
  <2>2. DOMAIN marketPrices = {entries[k].symbol : k \in DOMAIN entries}
    BY <1>5, PricesOfEntries DEF TableOf
  <2> QED
    BY <2>1, <2>2 DEF Range
<1> QED
  BY <1>4, <1>5 DEF RefusalInv

\* A portfolio is of accounts that keep to the contract, if not of v1.
LEMMA AcceptedDocumented ==
    ASSUME RefusalInv, Adapter!WholeInv, Adapter!V2AcceptsExactlyContract, coreOutcome = "accounts"
    PROVE  /\ coreResponse.body.id = {customerID}
           /\ CoreDocumented \/ Core!DetectCoreVersion(coreResponse.body) = {"v1"}
<1> DEFINE body == coreResponse.body
<1>1. coreResponse \in CoreSent /\ coreAccounts \in Adapter!Translate(body)
  BY DEF Adapter!WholeInv
<1>2. body.id = {customerID}
  BY <1>1 DEF Adapter!Translate, Adapter!MapCoreV1, Adapter!MapCoreV2
<1>3. ASSUME Core!DetectCoreVersion(body) # {"v1"} PROVE CoreDocumented
  <2>1. coreResponse.status = 200 /\ coreResponse.size <= MaxResponseBytes
    BY DEF RefusalInv
  <2>2. Adapter!V2Contract(body)
    BY <1>3, <2>1, SameContract DEF Adapter!V2AcceptsExactlyContract
  <2> QED
    BY <2>1, <2>2, SameContract DEF Adapter!V2Contract, CoreDocumented
<1> QED
  BY <1>2, <1>3

\* Prices are of an answer that keeps to the contract of Market.
LEMMA PricedDocumented ==
    ASSUME MarketInv, marketOutcome = "prices", prices = marketPrices, Service!Priced,
           Range(symbols) = Service!UniqueSymbols(accounts)
    PROVE  MarketDocumented
<1> SUFFICES ASSUME symbols # <<>> PROVE MarketDocumented
  BY DEF MarketDocumented
<1> DEFINE entries == marketResponse.entries
<1>1. marketPrices \in Market!Translate(marketResponse)
  BY DEF MarketInv
<1>2. /\ marketResponse.status = 200 /\ marketResponse.json /\ marketResponse.strict
      /\ marketResponse.end <= MaxResponseBytes
  BY <1>1 DEF Market!Translate, Market!Decoded
<1>3. TableOf(marketPrices, entries)
  BY PricesOfEntries
<1>4. ASSUME NEW e \in Range(entries)
      PROVE  e.symbol # Market!NoText /\ e.asOf > 0 /\ \E text \in e.currency : text.length = 3
  <2>1. PICK k \in DOMAIN entries : e = entries[k]
    BY DEF Range
  <2>2. EntryOK(e) /\ Market!PriceOf(e) # {}
    BY <1>3, <2>1 DEF TableOf
  <2>3. PICK price \in Market!PriceOf(e) : TRUE
    BY <2>2
  <2> QED
    BY <2>2, <2>3, PriceTyped
<1>5. ASSUME NEW s \in Range(symbols) PROVE \E e \in Range(entries) : e.symbol = s
  <2>1. s \in {entries[k].symbol : k \in DOMAIN entries}
    BY <1>3 DEF TableOf, Service!Priced
  <2> QED
    BY <2>1 DEF Range
<1> QED
  BY <1>2, <1>4, <1>5 DEF MarketDocumented

\* The status follows from what the upstreams sent: 404 from a 404 of Core and
\* from nothing else, 200 from whatever keeps to both contracts and can be
\* valued, and, short of the leniencies it names, only from that (handler.go:85-114,
\* service.go:46-105, client.go:101-147): StatusDecided.
THEOREM StatusFollows == Spec => []StatusDecided
<1>1. ASSUME LinkInv, RefusalInv, StackInv, Adapter!V2AcceptsExactlyContract, Valuation!RefusesExactly
      PROVE  StatusDecided
  <2> SUFFICES ASSUME answer # <<>>
      PROVE  /\ answer.status = 404 <=> coreResponse.status = 404
             /\ CoreDocumented /\ MarketDocumented /\ Valuable => answer.status = 200
             /\ answer.status = 200 =>
                   /\ coreResponse.body.id = {customerID}
                   /\ CoreDocumented \/ Core!DetectCoreVersion(coreResponse.body) = {"v1"}
                   /\ MarketDocumented /\ Service!Priced
                   /\ Service!ProductsInRange => Valuable
    BY DEF StatusDecided
  <2>1. accounts \in Seq(Service!AccountSet)
    BY <1>1, SameTypes DEF StackInv, Valuation!TypeInv
  <2>2. marketOutcome # "none" => Range(symbols) = Service!UniqueSymbols(accounts)
    BY <1>1, <2>1, SymbolsKept DEF LinkInv
  <2>3. CASE pc = "done" /\ answer = [status |-> 200, body |-> MapPortfolio(result)]
    <3>1. /\ coreOutcome = "accounts" /\ marketOutcome = "prices" /\ prices = marketPrices
          /\ answer.status = 200 /\ coreResponse.status # 404
      BY <1>1, <2>3 DEF LinkInv
    <3>2. Service!Priced /\ (Service!ProductsInRange => Valuable)
      BY <1>1, <2>3, SameTerms DEF Valuation!RefusesExactly, Valuable
    <3>3. MarketDocumented
      BY <1>1, <2>2, <3>1, <3>2, PricedDocumented DEF StackInv
    <3> QED
      BY <1>1, <3>1, <3>2, <3>3, AcceptedDocumented DEF StackInv
  <2>4. CASE /\ pc \in {"failed", "unavailable"}
             /\ answer = [status |-> IF coreOutcome = "notFound" THEN 404 ELSE 502]
    <3>1. answer.status # 200 /\ (answer.status = 404 <=> coreResponse.status = 404)
      BY <1>1, <2>4 DEF LinkInv
    <3>2. ASSUME CoreDocumented, MarketDocumented, Valuable PROVE FALSE
      <4>1. coreOutcome \notin {"notFound", "failed"}
        BY <1>1, <3>2, DocumentedAccepted DEF StackInv
      <4>2. marketOutcome # "failed"
        BY <1>1, <3>2, DocumentedPriced DEF StackInv, RefusalInv
      <4>3. pc = "failed"
        BY <1>1, <2>4, <4>1, <4>2 DEF RefusalInv
      <4>4. marketOutcome = "prices" /\ prices = marketPrices
        BY <1>1, <4>3 DEF LinkInv
      <4>5. Range(symbols) \subseteq DOMAIN prices
        <5>1. CASE symbols = <<>>
          BY <5>1 DEF Range
        <5>2. CASE symbols # <<>>
          BY <1>1, <3>2, <4>4, <5>2, DocumentedPriced DEF StackInv
        <5> QED
          BY <5>1, <5>2
      <4>6. Service!Priced
        BY <2>2, <4>4, <4>5 DEF Service!Priced
      <4> QED
        BY <1>1, <3>2, <4>3, <4>6, SameTerms DEF Valuation!RefusesExactly, Valuable
    <3> QED
      BY <3>1, <3>2
  <2> QED
    BY <1>1, <2>3, <2>4 DEF LinkInv
<1>2. Adapter!CoreSpec => []Adapter!V2AcceptsExactlyContract
  BY AdapterAssumptions, AdapterAssumption, WidthAssumption, ScaleAssumption, Adapter!V2ContractExact
<1>3. Valuation!ServiceSpec => []Valuation!RefusesExactly
  BY ValuationAssumptions, WidthAssumption, ScaleAssumption, Valuation!RefusedForAReason
<1> QED
  BY <1>1, <1>2, <1>3, RefusalInvariant, StackInvariant, CoreAsSpecified, ServiceAsSpecified, PTL

-----------------------------------------------------------------------------
(* The texts of the answer.                                                *)

\* A client reads the amount that was written, for all but the smallest int64.
LEMMA ReadsMoney ==
    ASSUME NEW m \in Service!MoneySet, m.minor # IntMin
    PROVE  /\ ReadAmount(MapMoney(m)) = m.minor /\ m.minor \in Int
           /\ MapMoney(m).currency = m.currency
<1> DEFINE n == m.minor
           size == IF n < 0 THEN Wrap(-n) ELSE n
           text == Amount(n)
<1>1. n \in Int /\ -n \in Int64
  BY WidthAssumption DEF Service!MoneySet, Service!Int64, Service!IntMin, Int64, IntMin
<1> HIDE DEF n
<1>2. size \in Nat /\ size = IF n < 0 THEN -n ELSE n
  BY <1>1, WrapIdentity
<1>3. /\ text.sign = IF n < 0 THEN "-" ELSE NoSign
      /\ text.units = Quo(size, 100) /\ text.cents = size - 100 * Quo(size, 100)
  BY Zenon DEF Amount
<1>4. NoSign # "-"
  BY Zenon DEF NoSign
<1>5. text.sign = "-" <=> n < 0
  BY <1>3, <1>4
<1> HIDE DEF size, text
<1>6. Quo(size, 100) \in Int
  BY <1>2 DEF Quo
<1>7. 100 * text.units + text.cents = size
  BY <1>2, <1>3, <1>6
<1>8. MapMoney(m).amount = text /\ MapMoney(m).currency = m.currency
  BY DEF MapMoney, n, text
<1>9. ReadAmount(MapMoney(m)) = n
  <2>1. ReadAmount(MapMoney(m)) = (IF text.sign = "-" THEN -1 ELSE 1) * size
    BY <1>7, <1>8 DEF ReadAmount
  <2> QED
    BY <1>1, <1>2, <1>5, <2>1
<1> QED
  BY <1>1, <1>8, <1>9 DEF n

\* A client reads the quantity that was written.
LEMMA ReadsQuantity == \A q \in Int : ReadQuantity(QuantityString(q)) = q
BY TextOfQuantity DEF ReadQuantity

\* The instances agree on sums.
LEMMA SameSum ==
    ASSUME NEW f
    PROVE  Valuation!SumFunction(f) = SumFunction(f) /\ Service!SumFunction(f) = SumFunction(f)
BY DEF SumFunction, SumFunctionOnSet, FoldFunctionOnSet, MapThenFoldSet,
   Valuation!SumFunction, Valuation!SumFunctionOnSet, Valuation!FoldFunctionOnSet, Valuation!MapThenFoldSet,
   Service!SumFunction, Service!SumFunctionOnSet, Service!FoldFunctionOnSet, Service!MapThenFoldSet

\* They agree on what is in range.
LEMMA SameRange == Service!InRange => Valuation!InRange
<1>1. \A n : Service!Reportable(n) <=> Valuation!Reportable(n)
  BY DEF Service!Reportable, Valuation!Reportable, Service!IntMin, Valuation!IntMin
<1>2. ASSUME NEW account PROVE Service!ExactAccount(account) = Valuation!ExactAccount(account)
  <2>1. [p \in DOMAIN account.positions |-> Service!Product(account.positions[p])]
          = [p \in DOMAIN account.positions |-> Valuation!Product(account.positions[p])]
    BY SameTerms
  <2> QED
    BY <2>1, SameSum DEF Service!ExactAccount, Valuation!ExactAccount
<1>3. Service!ExactTotal = Valuation!ExactTotal
  <2>1. [k \in DOMAIN accounts |-> Service!ExactAccount(accounts[k])]
          = [k \in DOMAIN accounts |-> Valuation!ExactAccount(accounts[k])]
    BY <1>2
  <2> QED
    BY <2>1, SameSum DEF Service!ExactTotal, Valuation!ExactTotal
<1> QED
  BY <1>1, <1>2, <1>3, SameTerms DEF Service!InRange, Valuation!InRange

\* The amounts of a portfolio are typed.
LEMMA PortfolioTyped ==
    ASSUME Valuation!TypeInv
    PROVE  /\ result.accounts \in Seq(Valuation!ValuedSet)
           /\ result.total \in Service!MoneySet
           /\ \A k \in DOMAIN result.accounts : LET a == result.accounts[k] IN
                 /\ a.cash \in Service!MoneySet /\ a.marketValue \in Service!MoneySet
                 /\ a.holdings \in Seq(Valuation!HoldingSet)
                 /\ \A p \in DOMAIN a.holdings :
                       /\ a.holdings[p].unitPrice \in Service!MoneySet
                       /\ a.holdings[p].marketValue \in Service!MoneySet
                       /\ a.holdings[p].quantity \in Int
<1>1. Valuation!MoneySet = Service!MoneySet
  BY Zenon DEF Valuation!MoneySet, Service!MoneySet, Valuation!CurrencySet, Service!CurrencySet,
     Valuation!NoCurrency, Service!NoCurrency, Valuation!Int64, Service!Int64, Valuation!IntMin, Service!IntMin
<1>2. result \in [asOf : Nat, total : Valuation!MoneySet, accounts : Seq(Valuation!ValuedSet)]
  BY DEF Valuation!TypeInv
<1>3. result.accounts \in Seq(Valuation!ValuedSet) /\ result.total \in Service!MoneySet
  BY <1>1, <1>2
<1>4. ASSUME NEW k \in DOMAIN result.accounts, NEW a, a = result.accounts[k]
      PROVE  /\ a.cash \in Service!MoneySet /\ a.marketValue \in Service!MoneySet
             /\ a.holdings \in Seq(Valuation!HoldingSet)
             /\ \A p \in DOMAIN a.holdings :
                   /\ a.holdings[p].unitPrice \in Service!MoneySet
                   /\ a.holdings[p].marketValue \in Service!MoneySet
                   /\ a.holdings[p].quantity \in Int
  <2>1. a \in Valuation!ValuedSet
    BY <1>3, <1>4
  <2>2. /\ a.cash \in Service!MoneySet /\ a.marketValue \in Service!MoneySet
        /\ a.holdings \in Seq(Valuation!HoldingSet)
    BY <1>1, <2>1 DEF Valuation!ValuedSet
  <2>3. ASSUME NEW p \in DOMAIN a.holdings
        PROVE  /\ a.holdings[p].unitPrice \in Service!MoneySet
               /\ a.holdings[p].marketValue \in Service!MoneySet
               /\ a.holdings[p].quantity \in Int
    <3>1. a.holdings[p] \in Valuation!HoldingSet
      BY <2>2, <2>3
    <3> QED
      BY <1>1, <3>1, WidthAssumption DEF Valuation!HoldingSet, Valuation!Int64, Valuation!IntMin
  <2> QED
    BY <2>2, <2>3
<1> QED
  BY <1>3, <1>4

\* What the service promises of a portfolio, in the stack.
LEMMA ServicePromises ==
    Spec => [](Valuation!ExactInRange /\ Valuation!OneCurrency /\ Valuation!Listed /\ Valuation!AsOfNewestHeld)
<1>1. /\ Valuation!ServiceSpec => []Valuation!ExactInRange
      /\ Valuation!ServiceSpec => []Valuation!OneCurrency
  BY ValuationAssumptions, WidthAssumption, ScaleAssumption, Valuation!PortfolioIsExact, Valuation!CurrenciesNeverMix
<1>2. /\ Valuation!ServiceSpec => []Valuation!Listed
      /\ Valuation!ServiceSpec => []Valuation!AsOfNewestHeld
  BY ValuationAssumptions, WidthAssumption, ScaleAssumption, Valuation!PortfolioIsWhole, Valuation!AsOfIsNewestHeld
<1> QED
  BY <1>1, <1>2, ServiceAsSpecified, PTL

\* A sum of amounts is the sum of their values in the finer unit.
LEMMA SumInUnits ==
    ASSUME NEW n \in Nat, NEW f \in [1 .. n -> Int], NEW g \in [1 .. n -> Int],
           \A k \in 1 .. n : g[k] = f[k] * Scale
    PROVE  SumFunction(f) \in Int /\ SumFunction(g) = SumFunction(f) * Scale
<1>1. Scale \in Int
  BY ScaleAssumption
<1>2. SumFunction(f) \in Int
  <2>1. DOMAIN f = 1 .. n /\ \A k \in DOMAIN f : f[k] \in Int
    OBVIOUS
  <2> QED
    BY <2>1, FS_Interval, SumInt
<1>3. SumFunction([k \in 1 .. n |-> f[k] * Scale]) = SumFunction([k \in 1 .. n |-> f[k]]) * Scale
  <2>1. \A k \in 1 .. n : f[k] \in Int
    OBVIOUS
  <2> QED
    BY <1>1, <2>1, SumScaled
<1>4. [k \in 1 .. n |-> f[k] * Scale] = g /\ [k \in 1 .. n |-> f[k]] = f
  OBVIOUS
<1> QED
  BY <1>2, <1>3, <1>4, Zenon

\* The account k of the portfolio and its holdings, for the client.
Public(k) == answer.body.accounts[k]

\* The answer is written from the portfolio, member by member.
LEMMA AnswerWritten ==
    ASSUME LinkInv, Valuation!TypeInv, Served
    PROVE  /\ pc = "done"
           /\ answer.body.asOf = result.asOf
           /\ answer.body.totalMarketValue = MapMoney(result.total)
           /\ DOMAIN answer.body.accounts = DOMAIN result.accounts
           /\ Len(answer.body.accounts) = Len(result.accounts)
           /\ \A k \in DOMAIN result.accounts :
                 /\ Public(k) = MapAccount(result.accounts[k])
                 /\ DOMAIN Public(k).holdings = DOMAIN result.accounts[k].holdings
                 /\ Len(Public(k).holdings) = Len(result.accounts[k].holdings)
                 /\ \A p \in DOMAIN result.accounts[k].holdings :
                       Public(k).holdings[p] = MapHolding(result.accounts[k].holdings[p])
<1>1. pc = "done" /\ answer = [status |-> 200, body |-> MapPortfolio(result)]
  BY DEF LinkInv, Served
<1>2. /\ answer.body.asOf = result.asOf
      /\ answer.body.totalMarketValue = MapMoney(result.total)
      /\ answer.body.accounts = [k \in DOMAIN result.accounts |-> MapAccount(result.accounts[k])]
  BY <1>1 DEF MapPortfolio
<1>3. \A S, f, g : f \in Seq(S) /\ g = [k \in DOMAIN f |-> g[k]] => Len(g) = Len(f)
  OBVIOUS
<1>4. Len(answer.body.accounts) = Len(result.accounts)
  BY <1>2, <1>3, PortfolioTyped
<1>5. ASSUME NEW k \in DOMAIN result.accounts
      PROVE  /\ Public(k) = MapAccount(result.accounts[k])
             /\ DOMAIN Public(k).holdings = DOMAIN result.accounts[k].holdings
             /\ Len(Public(k).holdings) = Len(result.accounts[k].holdings)
             /\ \A p \in DOMAIN result.accounts[k].holdings :
                   Public(k).holdings[p] = MapHolding(result.accounts[k].holdings[p])
  <2> DEFINE list == result.accounts[k].holdings
  <2>1. Public(k) = MapAccount(result.accounts[k])
    BY <1>2 DEF Public
  <2>2. Public(k).holdings = [p \in DOMAIN list |-> MapHolding(list[p])]
    BY <2>1 DEF MapAccount
  <2>3. list \in Seq(Valuation!HoldingSet)
    BY PortfolioTyped
  <2> HIDE DEF list
  <2>4. Len(Public(k).holdings) = Len(list)
    BY <1>3, <2>2, <2>3
  <2>5. /\ DOMAIN Public(k).holdings = DOMAIN list
        /\ \A p \in DOMAIN list : Public(k).holdings[p] = MapHolding(list[p])
    BY <2>2
  <2> QED
    BY <2>1, <2>4, <2>5 DEF list
<1> QED
  BY <1>1, <1>2, <1>4, <1>5

\* The numbers in the texts are the amounts of the portfolio, the smallest int64
\* left aside.
LEMMA AnswerRead ==
    ASSUME LinkInv, Valuation!TypeInv, Served, IntMin \notin Amounts
    PROVE  /\ ReadAmount(answer.body.totalMarketValue) = result.total.minor
           /\ result.total.minor \in Int
           /\ \A k \in DOMAIN result.accounts : LET a == result.accounts[k] IN
                 /\ ReadAmount(Public(k).cashBalance) = a.cash.minor /\ a.cash.minor \in Int
                 /\ ReadAmount(Public(k).marketValue) = a.marketValue.minor /\ a.marketValue.minor \in Int
                 /\ \A p \in DOMAIN a.holdings :
                       /\ ReadAmount(Public(k).holdings[p].unitPrice) = a.holdings[p].unitPrice.minor
                       /\ ReadAmount(Public(k).holdings[p].marketValue) = a.holdings[p].marketValue.minor
                       /\ a.holdings[p].marketValue.minor \in Int
                       /\ ReadQuantity(Public(k).holdings[p].quantity) = a.holdings[p].quantity
<1>1. result.total.minor # IntMin
  BY DEF Amounts
<1>2. ReadAmount(answer.body.totalMarketValue) = result.total.minor /\ result.total.minor \in Int
  BY <1>1, AnswerWritten, PortfolioTyped, ReadsMoney
<1>3. ASSUME NEW k \in DOMAIN result.accounts, NEW a, a = result.accounts[k]
      PROVE  /\ ReadAmount(Public(k).cashBalance) = a.cash.minor /\ a.cash.minor \in Int
             /\ ReadAmount(Public(k).marketValue) = a.marketValue.minor /\ a.marketValue.minor \in Int
             /\ \A p \in DOMAIN a.holdings :
                   /\ ReadAmount(Public(k).holdings[p].unitPrice) = a.holdings[p].unitPrice.minor
                   /\ ReadAmount(Public(k).holdings[p].marketValue) = a.holdings[p].marketValue.minor
                   /\ a.holdings[p].marketValue.minor \in Int
                   /\ ReadQuantity(Public(k).holdings[p].quantity) = a.holdings[p].quantity
  <2>1. a \in Range(result.accounts)
    BY <1>3 DEF Range
  <2>2. a.cash.minor # IntMin /\ a.marketValue.minor # IntMin
    BY <2>1 DEF Amounts
  <2>3. a.cash \in Service!MoneySet /\ a.marketValue \in Service!MoneySet
    BY <1>3, PortfolioTyped
  <2>4. Public(k).cashBalance = MapMoney(a.cash) /\ Public(k).marketValue = MapMoney(a.marketValue)
    BY <1>3, AnswerWritten DEF MapAccount
  <2>5. ASSUME NEW p \in DOMAIN a.holdings, NEW h, h = a.holdings[p]
        PROVE  /\ ReadAmount(Public(k).holdings[p].unitPrice) = h.unitPrice.minor
               /\ ReadAmount(Public(k).holdings[p].marketValue) = h.marketValue.minor
               /\ h.marketValue.minor \in Int
               /\ ReadQuantity(Public(k).holdings[p].quantity) = h.quantity
    <3>1. h \in Range(a.holdings)
      BY <2>5 DEF Range
    <3>2. h.unitPrice.minor # IntMin /\ h.marketValue.minor # IntMin
      <4>1. {h.unitPrice.minor, h.marketValue.minor}
              \subseteq UNION {{g.unitPrice.minor, g.marketValue.minor} : g \in Range(a.holdings)}
        BY <3>1
      <4> QED
        BY <2>1, <4>1 DEF Amounts
    <3>3. h.unitPrice \in Service!MoneySet /\ h.marketValue \in Service!MoneySet /\ h.quantity \in Int
      BY <1>3, <2>5, PortfolioTyped
    <3>4. Public(k).holdings[p] = MapHolding(h)
      BY <1>3, <2>5, AnswerWritten
    <3>5. /\ Public(k).holdings[p].unitPrice = MapMoney(h.unitPrice)
          /\ Public(k).holdings[p].marketValue = MapMoney(h.marketValue)
          /\ Public(k).holdings[p].quantity = QuantityString(h.quantity)
      BY <3>4 DEF MapHolding
    <3> QED
      BY <3>2, <3>3, <3>5, ReadsMoney, ReadsQuantity
  <2> QED
    BY <2>2, <2>3, <2>4, <2>5, ReadsMoney
<1> QED
  BY <1>2, <1>3

\* A 200 adds up for the client that reads it.
THEOREM AnswerAddsUp == Spec => []PublicAnswerAddsUp
<1>1. ASSUME LinkInv, Valuation!TypeInv, Valuation!ExactInRange, Valuation!OneCurrency
      PROVE  PublicAnswerAddsUp
  <2> DEFINE body == answer.body
             total(list) == SumFunction([k \in DOMAIN list |-> ReadAmount(list[k].marketValue)])
             A(k) == result.accounts[k]
             n == Len(result.accounts)
  <2> SUFFICES ASSUME Served, Service!InRange, IntMin \notin Amounts
      PROVE  /\ ReadAmount(body.totalMarketValue) = total(body.accounts)
             /\ \A a \in Range(body.accounts) :
                  /\ ReadAmount(a.marketValue) = ReadAmount(a.cashBalance) + total(a.holdings)
                  /\ a.marketValue.currency = body.totalMarketValue.currency
                  /\ \A h \in Range(a.holdings) :
                       Scale * ReadAmount(h.marketValue)
                         = ReadQuantity(h.quantity) * ReadAmount(h.unitPrice)
    BY DEF PublicAnswerAddsUp
  <2>1. pc = "done" /\ Valuation!Exact
    BY <1>1, AnswerWritten, SameRange DEF Valuation!ExactInRange
  <2>2. /\ n \in Nat /\ DOMAIN result.accounts = 1 .. n /\ DOMAIN accounts = 1 .. n
        /\ DOMAIN body.accounts = 1 .. n
    <3>1. accounts \in Seq(Valuation!AccountSet) /\ result.accounts \in Seq(Valuation!ValuedSet)
      BY <1>1, PortfolioTyped DEF Valuation!TypeInv
    <3>2. Len(accounts) = n
      BY <2>1 DEF Valuation!Exact
    <3> QED
      BY <1>1, <3>1, <3>2, AnswerWritten
  <2>3. Scale \in Nat \ {0}
    BY ScaleAssumption
  <2>4. ReadAmount(body.totalMarketValue) = total(body.accounts)
    <3> DEFINE f == [k \in 1 .. n |-> A(k).marketValue.minor]
               g == [k \in 1 .. n |-> Valuation!ExactAccount(accounts[k])]
    <3>1. \A k \in 1 .. n : f[k] \in Int /\ g[k] = f[k] * Scale
      BY <1>1, <2>1, <2>2, AnswerRead DEF Valuation!Exact
    <3>2. total(body.accounts) = SumFunction(f)
      <4>1. [k \in DOMAIN body.accounts |-> ReadAmount(body.accounts[k].marketValue)] = f
        BY <1>1, <2>2, AnswerRead DEF Public
      <4> QED
        BY <4>1, Zenon
    <3>3. Valuation!ExactTotal = SumFunction(g)
      <4>1. [k \in DOMAIN accounts |-> Valuation!ExactAccount(accounts[k])] = g
        BY <2>2
      <4> QED
        BY <4>1, SameSum DEF Valuation!ExactTotal
    <3>4. f \in [1 .. n -> Int] /\ g \in [1 .. n -> Int]
      <4>1. \A k \in 1 .. n : f[k] \in Int /\ g[k] \in Int
        <5> HIDE DEF f, g
        <5> QED
          BY <2>3, <3>1
      <4> QED
        BY <4>1
    <3> HIDE DEF f, g
    <3>5. SumFunction(f) \in Int /\ SumFunction(g) = SumFunction(f) * Scale
      BY <2>2, <3>1, <3>4, SumInUnits
    <3>6. result.total.minor * Scale = SumFunction(f) * Scale /\ result.total.minor \in Int
      BY <1>1, <2>1, <3>3, <3>5, AnswerRead DEF Valuation!Exact
    <3>7. \A x, y \in Int : x * Scale = y * Scale => x = y
      BY <2>3
    <3>8. result.total.minor = SumFunction(f)
      BY <3>5, <3>6, <3>7
    <3> QED
      BY <1>1, <3>2, <3>8, AnswerRead
  <2>5. ASSUME NEW k \in 1 .. n, NEW a, a = body.accounts[k]
        PROVE  /\ ReadAmount(a.marketValue) = ReadAmount(a.cashBalance) + total(a.holdings)
               /\ a.marketValue.currency = body.totalMarketValue.currency
               /\ \A h \in Range(a.holdings) :
                    Scale * ReadAmount(h.marketValue) = ReadQuantity(h.quantity) * ReadAmount(h.unitPrice)
    <3> DEFINE m == Len(A(k).holdings)
               H(p) == A(k).holdings[p]
               position(p) == accounts[k].positions[p]
               f == [p \in 1 .. m |-> H(p).marketValue.minor]
               g == [p \in 1 .. m |-> Valuation!Product(position(p))]
    <3>1. a = Public(k)
      BY <2>5 DEF Public
    <3>2. /\ A(k).cash = accounts[k].cash
          /\ A(k).marketValue.minor * Scale = Valuation!ExactAccount(accounts[k])
          /\ Len(A(k).holdings) = Len(accounts[k].positions)
          /\ \A p \in DOMAIN A(k).holdings : Valuation!ExactHolding(H(p), position(p))
      BY <2>1, <2>2 DEF Valuation!Exact
    <3>3. /\ m \in Nat /\ DOMAIN A(k).holdings = 1 .. m /\ DOMAIN accounts[k].positions = 1 .. m
          /\ DOMAIN a.holdings = 1 .. m
      <4>1. A(k).holdings \in Seq(Valuation!HoldingSet)
        BY <1>1, <2>2, PortfolioTyped
      <4>2. accounts[k].positions \in Seq(Valuation!PositionSet)
        <5>1. accounts[k] \in Valuation!AccountSet
          BY <1>1, <2>2 DEF Valuation!TypeInv
        <5> QED
          BY <5>1 DEF Valuation!AccountSet
      <4> QED
        BY <1>1, <2>2, <3>1, <3>2, <4>1, <4>2, AnswerWritten
    <3>4. /\ ReadAmount(a.cashBalance) = A(k).cash.minor /\ A(k).cash.minor \in Int
          /\ ReadAmount(a.marketValue) = A(k).marketValue.minor /\ A(k).marketValue.minor \in Int
          /\ \A p \in 1 .. m :
               /\ ReadAmount(a.holdings[p].unitPrice) = H(p).unitPrice.minor
               /\ ReadAmount(a.holdings[p].marketValue) = H(p).marketValue.minor
               /\ H(p).marketValue.minor \in Int
               /\ ReadQuantity(a.holdings[p].quantity) = H(p).quantity
      BY <1>1, <2>2, <3>1, <3>3, AnswerRead
    <3>5. \A p \in 1 .. m : /\ H(p).marketValue.minor * Scale = Valuation!Product(position(p))
                            /\ Valuation!Product(position(p)) = H(p).quantity * H(p).unitPrice.minor
      BY <3>2, <3>3 DEF Valuation!ExactHolding, Valuation!Product
    <3>6. ReadAmount(a.marketValue) = ReadAmount(a.cashBalance) + total(a.holdings)
      <4>1. \A p \in 1 .. m : f[p] \in Int /\ g[p] = f[p] * Scale
        BY <3>4, <3>5
      <4>2. total(a.holdings) = SumFunction(f)
        <5>1. [p \in DOMAIN a.holdings |-> ReadAmount(a.holdings[p].marketValue)] = f
          BY <3>3, <3>4
        <5> QED
          BY <5>1, Zenon
      <4>3. Valuation!ExactAccount(accounts[k]) = accounts[k].cash.minor * Scale + SumFunction(g)
        <5>1. [p \in DOMAIN accounts[k].positions |-> Valuation!Product(accounts[k].positions[p])] = g
          BY <3>3
        <5> QED
          BY <5>1, SameSum DEF Valuation!ExactAccount
      <4>4. f \in [1 .. m -> Int] /\ g \in [1 .. m -> Int]
        <5>1. \A p \in 1 .. m : f[p] \in Int /\ g[p] \in Int
          <6> HIDE DEF f, g
          <6> QED
            BY <2>3, <4>1
        <5> QED
          BY <5>1
      <4> HIDE DEF f, g
      <4>5. SumFunction(f) \in Int /\ SumFunction(g) = SumFunction(f) * Scale
        <5>1. m \in Nat
          BY <3>3
        <5> HIDE DEF m
        <5> QED
          BY <4>1, <4>4, <5>1, SumInUnits
      <4>6. PICK value \in Int, cash \in Int, sum \in Int :
              value = A(k).marketValue.minor /\ cash = A(k).cash.minor /\ sum = SumFunction(f)
        BY <3>4, <4>5
      <4>7. value * Scale = cash * Scale + sum * Scale
        BY <3>2, <4>3, <4>5, <4>6
      <4>8. value = cash + sum
        <5>1. cash * Scale + sum * Scale = (cash + sum) * Scale
          BY <2>3
        <5>2. \A x, y \in Int : x * Scale = y * Scale => x = y
          BY <2>3
        <5> QED
          BY <4>7, <5>1, <5>2
      <4> QED
        BY <3>4, <4>2, <4>6, <4>8
    <3>7. a.marketValue.currency = body.totalMarketValue.currency
      <4>1. a.marketValue = MapMoney(A(k).marketValue) /\ body.totalMarketValue = MapMoney(result.total)
        BY <1>1, <2>2, <3>1, AnswerWritten DEF MapAccount
      <4>2. A(k).marketValue.currency = result.total.currency
        BY <1>1, <2>1, <2>2 DEF Valuation!OneCurrency
      <4> QED
        BY <4>1, <4>2 DEF MapMoney
    <3>8. ASSUME NEW h \in Range(a.holdings)
          PROVE  Scale * ReadAmount(h.marketValue) = ReadQuantity(h.quantity) * ReadAmount(h.unitPrice)
      <4>1. PICK p \in 1 .. m : h = a.holdings[p]
        BY <3>3 DEF Range
      <4>2. H(p).marketValue.minor * Scale = H(p).quantity * H(p).unitPrice.minor
        BY <3>5
      <4>3. PICK v \in Int : v = H(p).marketValue.minor
        BY <3>4
      <4>4. v * Scale = Scale * v
        BY <2>3
      <4> QED
        BY <3>4, <4>1, <4>2, <4>3, <4>4
    <3> QED
      BY <3>6, <3>7, <3>8
  <2>6. \A a \in Range(body.accounts) : \E k \in 1 .. n : a = body.accounts[k]
    BY <2>2 DEF Range
  <2> QED
    BY <2>4, <2>5, <2>6
<1> QED
  BY <1>1, LinkInvariant, StackInvariant, ServicePromises, PTL DEF StackInv

\* What the client gets of a position: its symbol, its quantity, and the price
\* that Market sent for the symbol.
PositionArrives(public, item) ==
    /\ {public.symbol} = item.symbol
    /\ \A text \in item.quantity :
          ReadQuantity(text) <= IntMax => ReadQuantity(public.quantity) = ReadQuantity(text)
    /\ \E l \in LastNamed(public.symbol) :
          LET e == marketResponse.entries[l] IN
          /\ \/ e.minor \in {{IntMin}, {ReadAmount(public.unitPrice)}}
             \/ e.minor = {} /\ ReadAmount(public.unitPrice) = 0
          /\ e.asOf <= answer.body.asOf

\* A position as Core sent it, as it was listed, and its price as Market sent it.
LEMMA PositionReaches ==
    ASSUME LinkInv, StackInv, Valuation!AsOfNewestHeld, Served,
           NEW k \in DOMAIN result.accounts, NEW p \in DOMAIN result.accounts[k].holdings,
           NEW h, h = result.accounts[k].holdings[p],
           NEW position, position = accounts[k].positions[p], Valuation!HoldingListed(h, position),
           k \in DOMAIN accounts, p \in DOMAIN accounts[k].positions,
           NEW item, Adapter!PositionOf(position, item)
    PROVE  PositionArrives(Public(k).holdings[p], item)
<1> DEFINE public == Public(k).holdings[p]
           s == position.symbol
<1>1. pc = "done" /\ answer.body.asOf = result.asOf
  BY AnswerWritten DEF StackInv
<1>2. /\ public.symbol = h.symbol /\ public.quantity = QuantityString(h.quantity)
      /\ public.unitPrice = MapMoney(h.unitPrice)
  <2>1. public = MapHolding(h)
    BY AnswerWritten DEF StackInv
  <2> HIDE DEF public
  <2> QED
    BY <2>1 DEF MapHolding
<1>3. h.unitPrice \in Service!MoneySet /\ h.quantity \in Int
  BY PortfolioTyped DEF StackInv
<1>4. /\ h.symbol = s /\ h.quantity = position.quantity
      /\ s \in DOMAIN prices /\ h.unitPrice = prices[s].value
  BY DEF Valuation!HoldingListed
<1>5. {public.symbol} = item.symbol
  BY <1>2, <1>4 DEF Adapter!PositionOf
<1>6. ASSUME NEW text \in item.quantity, ReadQuantity(text) <= IntMax
      PROVE  ReadQuantity(public.quantity) = ReadQuantity(text)
  <2>1. ReadQuantity(text) = Adapter!Denotes(text)
    BY SameDomain DEF ReadQuantity, Adapter!Denotes
  <2>2. Adapter!Denotes(text) \in Nat /\ position.quantity = Wrap(Adapter!Denotes(text))
    BY SameDomain DEF Adapter!PositionOf
  <2>3. Wrap(Adapter!Denotes(text)) = Adapter!Denotes(text)
    BY <1>6, <2>1, <2>2, WrapIdentity, WidthAssumption DEF Int64, IntMin
  <2> QED
    BY <1>2, <1>3, <1>4, <2>1, <2>2, <2>3, ReadsQuantity
<1>7. \E l \in LastNamed(public.symbol) :
         LET e == marketResponse.entries[l] IN
         /\ \/ e.minor \in {{IntMin}, {ReadAmount(public.unitPrice)}}
            \/ e.minor = {} /\ ReadAmount(public.unitPrice) = 0
         /\ e.asOf <= answer.body.asOf
  <2>1. marketOutcome = "prices" /\ prices = marketPrices
    BY <1>1 DEF LinkInv
  <2>2. symbols # <<>>
    <3>1. symbols = <<>> => marketPrices = <<>>
      BY DEF StackInv, MarketInv
    <3>2. DOMAIN <<>> = {}
      OBVIOUS
    <3> QED
      BY <1>4, <2>1, <3>1, <3>2
  <2>3. TableOf(prices, marketResponse.entries)
    BY <2>1, <2>2, PricesOfEntries DEF StackInv
  <2>4. PICK l \in DOMAIN marketResponse.entries :
           /\ Newest(marketResponse.entries, s, l)
           /\ prices[s] \in Market!PriceOf(marketResponse.entries[l])
    BY <1>4, <2>3 DEF TableOf
  <2> DEFINE e == marketResponse.entries[l]
  <2>5. EntryOK(e) /\ l \in LastNamed(public.symbol)
    BY <1>2, <1>4, <2>3, <2>4 DEF TableOf, Newest, LastNamed
  <2>6. /\ prices[s].asOf = e.asOf
        /\ prices[s].value.minor \in IF e.minor = {} THEN {0} ELSE e.minor
    BY <2>4, <2>5, PriceTyped
  <2>7. e.asOf <= answer.body.asOf
    <3>1. s \in Valuation!UniqueSymbols(accounts)
      BY DEF Valuation!UniqueSymbols
    <3>2. prices[s].asOf <= result.asOf
      BY <1>1, <3>1 DEF Valuation!AsOfNewestHeld
    <3> QED
      BY <1>1, <2>6, <3>2
  <2>8. \/ e.minor \in {{IntMin}, {ReadAmount(public.unitPrice)}}
        \/ e.minor = {} /\ ReadAmount(public.unitPrice) = 0
    <3> DEFINE n == h.unitPrice.minor
    <3>1. (e.minor = {} /\ n = 0) \/ e.minor = {n}
      BY <1>4, <2>5, <2>6 DEF EntryOK, Core!AtMostOne
    <3>2. n # IntMin => ReadAmount(public.unitPrice) = n
      BY <1>2, <1>3, ReadsMoney
    <3>3. 0 # IntMin
      BY WidthAssumption DEF IntMin
    <3> HIDE DEF n
    <3> QED
      BY <3>1, <3>2, <3>3
  <2> HIDE DEF e
  <2> QED
    BY <2>5, <2>7, <2>8 DEF e
<1> QED
  BY <1>5, <1>6, <1>7 DEF PositionArrives

\* An account as Core sent it, with all its positions.
LEMMA AccountReaches ==
    ASSUME LinkInv, StackInv, Valuation!AsOfNewestHeld, Served,
           NEW k \in DOMAIN result.accounts, NEW a, a = result.accounts[k],
           Valuation!AccountListed(a, k), k \in DOMAIN accounts,
           NEW item, Adapter!MadeOf(accounts[k], item), CoreItemTyped(item)
    PROVE  /\ {Public(k).accountId} = item.id
           /\ {Public(k).accountType} = item.type
           /\ \A cash \in item.cash : cash.minor \in {{IntMin}, {ReadAmount(Public(k).cashBalance)}}
           /\ \A texts \in item.positions :
                 /\ Len(Public(k).holdings) = Len(texts)
                 /\ \A p \in DOMAIN texts : PositionArrives(Public(k).holdings[p], texts[p])
<1>1. /\ Public(k).accountId = a.id /\ Public(k).accountType = a.type
      /\ Public(k).cashBalance = MapMoney(a.cash)
  <2>1. Public(k) = MapAccount(a)
    BY AnswerWritten DEF StackInv
  <2> QED
    BY <2>1 DEF MapAccount
<1>2. Len(Public(k).holdings) = Len(a.holdings)
  BY AnswerWritten DEF StackInv
<1>3. /\ a.id = accounts[k].id /\ a.type = accounts[k].type /\ a.cash = accounts[k].cash
      /\ Len(a.holdings) = Len(accounts[k].positions)
      /\ \A p \in DOMAIN a.holdings : Valuation!HoldingListed(a.holdings[p], accounts[k].positions[p])
  BY DEF Valuation!AccountListed, Valuation!HoldingsListed
<1>4. item.id = {accounts[k].id} /\ item.type = {accounts[k].type}
  BY DEF Adapter!MadeOf
<1>5. ASSUME NEW cash \in item.cash
      PROVE  cash.minor \in {{IntMin}, {ReadAmount(Public(k).cashBalance)}}
  <2>1. cash.minor = {a.cash.minor}
    BY <1>3, <1>5 DEF Adapter!MadeOf, Adapter!MoneyOf
  <2>2. a.cash \in Service!MoneySet
    BY PortfolioTyped DEF StackInv
  <2> QED
    BY <1>1, <2>1, <2>2, ReadsMoney
<1>6. ASSUME NEW texts \in item.positions
      PROVE  /\ Len(Public(k).holdings) = Len(texts)
             /\ \A p \in DOMAIN texts : PositionArrives(Public(k).holdings[p], texts[p])
  <2>1. /\ Adapter!IsList(texts)
        /\ accounts[k].positions = [p \in 1 .. Len(texts) |-> accounts[k].positions[p]]
        /\ \A p \in DOMAIN texts : Adapter!PositionOf(accounts[k].positions[p], texts[p])
    BY <1>6 DEF Adapter!MadeOf
  <2>2. Len(texts) \in Nat /\ DOMAIN texts = 1 .. Len(texts)
    BY <2>1 DEF Adapter!IsList
  <2>3. DOMAIN accounts[k].positions = DOMAIN texts
    BY <2>1, <2>2
  <2>4. Len(accounts[k].positions) = Len(texts)
    BY <2>1, <2>2
  <2>5. a.holdings \in Seq(Valuation!HoldingSet)
    BY PortfolioTyped DEF StackInv
  <2>6. DOMAIN a.holdings = DOMAIN texts
    BY <1>3, <2>2, <2>4, <2>5
  <2>7. ASSUME NEW p \in DOMAIN texts PROVE PositionArrives(Public(k).holdings[p], texts[p])
    BY <1>3, <2>1, <2>3, <2>6, <2>7, PositionReaches
  <2> QED
    BY <1>2, <1>3, <2>4, <2>7
<1> QED
  BY <1>1, <1>2, <1>3, <1>4, <1>5, <1>6

\* For every response of both upstreams, the client of a 200 gets the accounts
\* and positions that Core sent, in their order, at the prices that Market sent last
\* (client.go:296-402, service.go:66-93, handler.go:210-239): PayloadReachesClient.
THEOREM PayloadArrives == Spec => []PayloadReachesClient
<1>1. LinkInv /\ StackInv /\ Valuation!Listed /\ Valuation!AsOfNewestHeld => PayloadReachesClient
  <2> SUFFICES ASSUME LinkInv, StackInv, Valuation!Listed, Valuation!AsOfNewestHeld, Served,
                      NEW list \in coreResponse.body.list
      PROVE  /\ Len(answer.body.accounts) = Len(list)
             /\ \A k \in DOMAIN list :
                  /\ {Public(k).accountId} = list[k].id
                  /\ {Public(k).accountType} = list[k].type
                  /\ \A cash \in list[k].cash :
                        cash.minor \in {{IntMin}, {ReadAmount(Public(k).cashBalance)}}
                  /\ \A texts \in list[k].positions :
                        /\ Len(Public(k).holdings) = Len(texts)
                        /\ \A p \in DOMAIN texts : PositionArrives(Public(k).holdings[p], texts[p])
    BY DEF PayloadReachesClient, Public, PositionArrives
  <2>1. pc = "done" /\ Len(answer.body.accounts) = Len(result.accounts)
    BY AnswerWritten DEF StackInv
  <2>2. coreOutcome = "accounts" /\ accounts = coreAccounts
    BY <2>1 DEF LinkInv
  <2>3. coreResponse \in CoreSent /\ coreAccounts \in Adapter!Translate(coreResponse.body)
    BY <2>2 DEF StackInv, Adapter!WholeInv
  <2>4. /\ Len(accounts) = Len(list) /\ accounts = [k \in 1 .. Len(list) |-> accounts[k]]
        /\ \A k \in DOMAIN list : Adapter!MadeOf(accounts[k], list[k])
    BY <2>2, <2>3, AdapterAssumptions, AdapterAssumption, WidthAssumption, ScaleAssumption,
       Adapter!TranslatedWhole
  <2>5. /\ Core!IsList(list) /\ \A k \in DOMAIN list : CoreItemTyped(list[k])
    BY <2>3, CoreSentOK DEF CoreResponseOK, Core!ResponseOK
  <2>6. Len(list) \in Nat /\ DOMAIN list = 1 .. Len(list)
    BY <2>5 DEF Core!IsList
  <2>7. DOMAIN accounts = DOMAIN list
    BY <2>4, <2>6
  <2>8. /\ Len(result.accounts) = Len(accounts)
        /\ \A k \in DOMAIN accounts : Valuation!AccountListed(result.accounts[k], k)
    BY <2>1 DEF Valuation!Listed
  <2>9. DOMAIN result.accounts = DOMAIN list
    <3>1. result.accounts \in Seq(Valuation!ValuedSet)
      BY PortfolioTyped DEF StackInv
    <3> QED
      BY <2>4, <2>6, <2>8, <3>1
  <2>10. ASSUME NEW k \in DOMAIN list
         PROVE  /\ {Public(k).accountId} = list[k].id
                /\ {Public(k).accountType} = list[k].type
                /\ \A cash \in list[k].cash :
                      cash.minor \in {{IntMin}, {ReadAmount(Public(k).cashBalance)}}
                /\ \A texts \in list[k].positions :
                      /\ Len(Public(k).holdings) = Len(texts)
                      /\ \A p \in DOMAIN texts : PositionArrives(Public(k).holdings[p], texts[p])
    <3>1. Adapter!MadeOf(accounts[k], list[k]) /\ CoreItemTyped(list[k])
      BY <2>4, <2>5
    <3>2. Valuation!AccountListed(result.accounts[k], k)
      BY <2>7, <2>8
    <3> QED
      BY <2>7, <2>9, <3>1, <3>2, AccountReaches
  <2> QED
    BY <2>1, <2>4, <2>8, <2>10
<1> QED
  BY <1>1, LinkInvariant, StackInvariant, ServicePromises, PTL

-----------------------------------------------------------------------------
(* The seeded customer.                                                    *)

\* The items of the seed, with numbers that fit.
Seeds(item, minor, symbol, n) ==
    /\ item \in {CoreItem("acct-brokerage-01", "BROKERAGE", minor, symbol, n),
                 CoreItem("acct-retirement-01", "RETIREMENT", minor, symbol, n)}
    /\ symbol \in {"AAPL", "BND"} /\ minor \in Nat /\ n \in Nat

\* The account made of such an item.
SeededAccount(account, minor, symbol, n) ==
    /\ account.cash = [minor |-> minor, currency |-> "USD"]
    /\ Len(account.positions) = 1 /\ DOMAIN account.positions = {1}
    /\ account.positions[1].symbol = symbol
    /\ account.positions[1].quantity = n * Scale

\* The number in a text of the seed.
LEMMA SeededUnits ==
    ASSUME NEW n \in Nat, n * Scale <= IntMax
    PROVE  Adapter!Denotes(Units(n)) = n * Scale /\ Core!PlainDecimal(Units(n))
<1>1. /\ Units(n).whole = n /\ Units(n).fraction = 0 /\ Units(n).digits = 0 /\ Units(n).points = 0
      /\ ~Units(n).padded /\ ~Units(n).junk /\ Units(n).sign = Core!NoText
  BY DEF Units, NoSign, Core!NoText
<1>2. Fraction(Units(n)) = 0
  <2>1. PowerOfTen[Places] \in Nat /\ Places - 0 = Places
    BY PowerPositive, ScaleAssumption
  <2> QED
    BY <1>1, <2>1 DEF Fraction
<1>3. n * Scale \in Nat /\ n * Scale + 0 = n * Scale
  BY ScaleAssumption
<1>4. Adapter!Denotes(Units(n)) = n * Scale /\ Core!Denotes(Units(n)) = n * Scale
  <2>1. Adapter!Fraction(Units(n)) = 0 /\ Core!Fraction(Units(n)) = 0
    BY <1>2, SameDomain, Zenon
  <2> QED
    BY <1>1, <1>3, <2>1 DEF Adapter!Denotes, Core!Denotes
<1>5. <<Units(n).points, Units(n).digits>> \in {<<0, 0>>}
  BY <1>1
<1> QED
  BY <1>1, <1>4, <1>5 DEF Core!PlainDecimal

\* What the constants admit.
LEMMA SeedAdmitted ==
    ASSUME SeedFits
    PROVE  "BROKERAGE" \in Categories /\ "RETIREMENT" \in Categories /\ "USD" \in Letters
BY SMT DEF SeedFits

\* An item of the seed keeps to the contract.
LEMMA SeededItemDocumented ==
    ASSUME SeedFits, NEW minor, NEW symbol, NEW n, n * Scale <= IntMax,
           NEW item, Seeds(item, minor, symbol, n)
    PROVE  Core!V2Account(item)
<1>1. Core!PlainDecimal(Units(n)) /\ symbol # Core!NoText
  <2>1. n \in Nat /\ symbol \in {"AAPL", "BND"}
    BY DEF Seeds
  <2> QED
    BY <2>1, SeededUnits DEF Core!NoText
<1>2. \E id \in item.id : id # Core!NoText
  <2>1. item.id = {"acct-brokerage-01"} \/ item.id = {"acct-retirement-01"}
    BY DEF Seeds, CoreItem
  <2> QED
    BY <2>1 DEF Core!NoText
<1>3. \E type \in item.type : type \in Categories
  BY SeedAdmitted DEF Seeds, CoreItem
<1>4. /\ item.cash = {[minor |-> {minor}, currency |-> {USD}]}
      /\ item.positions = {<<[symbol |-> {symbol}, quantity |-> {Units(n)}]>>}
  BY DEF Seeds, CoreItem
<1>5. \E cash \in item.cash : \E m \in cash.minor : \E text \in cash.currency :
          text.canonical /\ text.length = 3 /\ text.code \in Letters
  <2>1. USD.canonical /\ USD.length = 3 /\ USD.code \in Letters
    BY SeedAdmitted DEF USD
  <2> DEFINE cash == [minor |-> {minor}, currency |-> {USD}]
  <2>2. cash \in item.cash /\ minor \in cash.minor /\ USD \in cash.currency
    BY <1>4
  <2> HIDE DEF cash
  <2> QED
    BY <2>1, <2>2
<1>6. \E list \in item.positions : \A p \in DOMAIN list :
          /\ \E s \in list[p].symbol : s # Core!NoText
          /\ \E text \in list[p].quantity : Core!PlainDecimal(text)
  <2> DEFINE list == <<[symbol |-> {symbol}, quantity |-> {Units(n)}]>>
  <2>1. /\ list \in item.positions /\ DOMAIN list = {1}
        /\ list[1].symbol = {symbol} /\ list[1].quantity = {Units(n)}
    BY <1>4
  <2> HIDE DEF list
  <2> QED
    BY <1>1, <2>1
<1> QED
  BY <1>2, <1>3, <1>5, <1>6 DEF Core!V2Account

\* And makes an account with its numbers.
LEMMA SeededAccountMade ==
    ASSUME NEW minor, NEW symbol, NEW n, n * Scale <= IntMax,
           NEW item, Seeds(item, minor, symbol, n), NEW account, Adapter!MadeOf(account, item)
    PROVE  SeededAccount(account, minor, symbol, n)
<1>1. item.cash = {[minor |-> {minor}, currency |-> {USD}]}
      /\ item.positions = {<<[symbol |-> {symbol}, quantity |-> {Units(n)}]>>}
  BY DEF Seeds, CoreItem
<1>2. account.cash = [minor |-> minor, currency |-> "USD"]
  <2>1. PICK cash : item.cash = {cash} /\ Adapter!MoneyOf(account.cash, cash)
    BY DEF Adapter!MadeOf
  <2>2. cash.minor = {minor} /\ cash.currency = {USD}
    BY <1>1, <2>1
  <2>3. /\ account.cash = [minor |-> account.cash.minor, currency |-> account.cash.currency]
        /\ account.cash.minor = minor /\ account.cash.currency = "USD"
    BY <2>1, <2>2 DEF Adapter!MoneyOf, USD
  <2> QED
    BY <2>3
<1>3. PICK texts : /\ item.positions = {texts}
                   /\ account.positions = [p \in 1 .. Len(texts) |-> account.positions[p]]
                   /\ \A p \in DOMAIN texts : Adapter!PositionOf(account.positions[p], texts[p])
  BY DEF Adapter!MadeOf
<1>4. texts = <<[symbol |-> {symbol}, quantity |-> {Units(n)}]>>
  BY <1>1, <1>3
<1>5. /\ Len(texts) = 1 /\ DOMAIN texts = {1}
      /\ texts[1].symbol = {symbol} /\ texts[1].quantity = {Units(n)}
  BY <1>4
<1>6. Len(account.positions) = 1 /\ DOMAIN account.positions = {1}
  BY <1>3, <1>5
<1>7. account.positions[1].symbol = symbol /\ account.positions[1].quantity = n * Scale
  <2>1. Adapter!PositionOf(account.positions[1], texts[1])
    BY <1>3, <1>5
  <2>2. account.positions[1].quantity = Wrap(n * Scale)
    BY <1>5, <2>1, SeededUnits, SameDomain DEF Adapter!PositionOf, Seeds
  <2>3. n * Scale \in Int64
    <3>1. n * Scale \in Nat
      BY ScaleAssumption DEF Seeds
    <3> QED
      BY <3>1, WidthAssumption DEF Int64, IntMin
  <2> QED
    BY <1>5, <2>1, <2>2, <2>3, WrapIdentity DEF Adapter!PositionOf
<1> QED
  BY <1>2, <1>6, <1>7 DEF SeededAccount

\* What the Core mock answers for the seeded customer, in either version.
LEMMA SeedSent ==
    ASSUME NEW version \in ContractVersions, NEW r, r = CoreMock(version, Seeded)
    PROVE  /\ r.status = 200 /\ r.size = 1 /\ r.body.strict /\ r.body.id = {Seeded}
           /\ Core!DetectCoreVersion(r.body) # {}
           /\ \E first, second : /\ r.body.list = {<<first, second>>}
                                 /\ Seeds(first, 250000, "AAPL", 100)
                                 /\ Seeds(second, 260000, "BND", 200)
<1> DEFINE first == CoreItem("acct-brokerage-01", "BROKERAGE", 250000, "AAPL", 100)
           second == CoreItem("acct-retirement-01", "RETIREMENT", 260000, "BND", 200)
<1>1. Seeds(first, 250000, "AAPL", 100) /\ Seeds(second, 260000, "BND", 200)
  BY SMT DEF Seeds
<1>2. /\ V1Response.list = {<<first, second>>} /\ V1Response.strict /\ V1Response.json
      /\ V1Response.id = {Seeded} /\ V1Response.keys = {"customer_id", "accounts"}
  BY SMT DEF V1Response
<1>3. /\ V2Response.list = {<<first, second>>} /\ V2Response.strict /\ V2Response.json
      /\ V2Response.id = {Seeded} /\ V2Response.keys = {"client", "portfolios"}
  BY SMT DEF V2Response
<1> HIDE DEF first, second
<1>4. r.status = 200 /\ r.size = 1 /\ r.body \in {V1Response, V2Response}
  BY DEF CoreMock
<1>5. Core!DetectCoreVersion(r.body) # {}
  <2>1. /\ Core!Signature["v1"] = {"customer_id", "accounts"} /\ Core!Signature.v1 = {"customer_id", "accounts"}
        /\ Core!Signature["v2"] = {"client", "portfolios"} /\ Core!Signature.v2 = {"client", "portfolios"}
    BY DEF Core!Signature
  <2>2. CASE r.body = V1Response
    <3>1. "v1" \in Core!DetectCoreVersion(r.body)
      BY <1>2, <2>1, <2>2 DEF Core!DetectCoreVersion
    <3> QED
      BY <3>1
  <2>3. CASE r.body = V2Response
    <3>1. "v2" \in Core!DetectCoreVersion(r.body)
      BY <1>3, <2>1, <2>3 DEF Core!DetectCoreVersion
    <3> QED
      BY <3>1
  <2> QED
    BY <1>4, <2>2, <2>3
<1>6. /\ r.body.strict /\ r.body.id = {Seeded} /\ r.body.list = {<<first, second>>}
  BY <1>2, <1>3, <1>4
<1> QED
  BY <1>1, <1>4, <1>5, <1>6

\* It keeps to the contract.
LEMMA SeedDocumented ==
    ASSUME SeedFits, customerID = Seeded, NEW version \in ContractVersions,
           coreResponse = CoreMock(version, customerID)
    PROVE  CoreDocumented
<1>1. PICK first, second : /\ coreResponse.body.list = {<<first, second>>}
                           /\ Seeds(first, 250000, "AAPL", 100) /\ Seeds(second, 260000, "BND", 200)
  BY SeedSent
<1>2. 100 * Scale <= IntMax /\ 200 * Scale <= IntMax /\ 1 <= MaxResponseBytes
  BY SMT, ScaleAssumption, WidthAssumption DEF SeedFits
<1>3. Core!V2Account(first) /\ Core!V2Account(second)
  BY SMT, <1>1, <1>2, SeededItemDocumented
<1>4. \A k \in DOMAIN <<first, second>> : Core!V2Account(<<first, second>>[k])
  BY <1>3
<1>5. \E list \in coreResponse.body.list : \A k \in DOMAIN list : Core!V2Account(list[k])
  <2> DEFINE list == <<first, second>>
  <2>1. list \in coreResponse.body.list
    BY SMT, <1>1
  <2> HIDE DEF list
  <2> QED
    BY <1>4, <2>1 DEF list
<1> QED
  BY <1>2, <1>5, SeedSent, SMT DEF CoreDocumented

\* The accounts made of it.
LEMMA SeedLoaded ==
    ASSUME SeedFits, customerID = Seeded, NEW version \in ContractVersions,
           coreResponse = CoreMock(version, customerID), Adapter!WholeInv, coreOutcome = "accounts"
    PROVE  /\ Len(coreAccounts) = 2 /\ DOMAIN coreAccounts = 1 .. 2
           /\ SeededAccount(coreAccounts[1], 250000, "AAPL", 100)
           /\ SeededAccount(coreAccounts[2], 260000, "BND", 200)
<1>1. PICK first, second : /\ coreResponse.body.list = {<<first, second>>}
                           /\ Seeds(first, 250000, "AAPL", 100) /\ Seeds(second, 260000, "BND", 200)
  BY SeedSent
<1>2. 100 * Scale <= IntMax /\ 200 * Scale <= IntMax
  BY SMT, ScaleAssumption, WidthAssumption DEF SeedFits
<1> DEFINE list == <<first, second>>
<1>3. list \in coreResponse.body.list
  BY SMT, <1>1
<1>4. coreResponse \in CoreSent /\ coreAccounts \in Adapter!Translate(coreResponse.body)
  BY DEF Adapter!WholeInv
<1>5. /\ Len(coreAccounts) = Len(list) /\ coreAccounts = [k \in 1 .. Len(list) |-> coreAccounts[k]]
      /\ \A k \in DOMAIN list : Adapter!MadeOf(coreAccounts[k], list[k])
  <2> HIDE DEF list
  <2> QED
    BY <1>3, <1>4, AdapterAssumptions, AdapterAssumption, WidthAssumption, ScaleAssumption,
       Adapter!TranslatedWhole
<1>6. Len(list) = 2 /\ DOMAIN list = 1 .. 2 /\ list[1] = first /\ list[2] = second
  OBVIOUS
<1> HIDE DEF list
<1>7. Len(coreAccounts) = 2 /\ DOMAIN coreAccounts = 1 .. 2
  BY <1>5, <1>6
<1>8. Adapter!MadeOf(coreAccounts[1], first) /\ Adapter!MadeOf(coreAccounts[2], second)
  BY <1>5, <1>6
<1> QED
  BY SMT, <1>1, <1>2, <1>7, <1>8, SeededAccountMade

\* What the Market mock answers for symbols it knows.
LEMMA SeedQuoted ==
    ASSUME NEW list, Core!IsList(list), \A k \in DOMAIN list : list[k] \in {"AAPL", "BND"},
           NEW r, r = MarketMock(list)
    PROVE  /\ r.status = 200 /\ r.json /\ r.strict /\ r.end = 1
           /\ DOMAIN r.entries = DOMAIN list
           /\ \A k \in DOMAIN list :
                 /\ r.entries[k].symbol = list[k] /\ r.entries[k].minor = {MarketData[list[k]]}
                 /\ r.entries[k].currency = {USD} /\ r.entries[k].asOf = 1
<1>1. \A k \in DOMAIN list : list[k] \in DOMAIN MarketData
  BY SMT DEF MarketData
<1>2. /\ r.status = 200 /\ r.json /\ r.strict /\ r.end = 1
      /\ r.entries = [k \in DOMAIN list |->
            [symbol |-> list[k], minor |-> {MarketData[list[k]]}, currency |-> {USD}, asOf |-> 1]]
  BY <1>1 DEF MarketMock
<1> QED
  BY <1>2

\* It keeps to the contract.
LEMMA SeedMarketDocumented ==
    ASSUME SeedFits, Core!IsList(symbols), Range(symbols) \subseteq {"AAPL", "BND"},
           symbols # <<>> => marketResponse = MarketMock(symbols)
    PROVE  MarketDocumented
<1> SUFFICES ASSUME symbols # <<>> PROVE MarketDocumented
  BY DEF MarketDocumented
<1> DEFINE r == marketResponse
<1>1. \A k \in DOMAIN symbols : symbols[k] \in {"AAPL", "BND"}
  BY DEF Range
<1>2. /\ r.status = 200 /\ r.json /\ r.strict /\ r.end = 1
      /\ DOMAIN r.entries = DOMAIN symbols
      /\ \A k \in DOMAIN symbols :
            /\ r.entries[k].symbol = symbols[k]
            /\ r.entries[k].currency = {USD} /\ r.entries[k].asOf = 1
  BY <1>1, SeedQuoted
<1>3. 1 <= MaxResponseBytes
  BY SMT DEF SeedFits
<1>4. USD.length = 3
  BY DEF USD
<1>5. ASSUME NEW e \in Range(r.entries)
      PROVE  e.symbol # Market!NoText /\ e.asOf > 0 /\ \E text \in e.currency : text.length = 3
  <2>1. PICK k \in DOMAIN symbols : e = r.entries[k]
    BY <1>2 DEF Range
  <2>2. e.symbol \in {"AAPL", "BND"} /\ e.currency = {USD} /\ e.asOf = 1
    BY <1>1, <1>2, <2>1
  <2>3. e.symbol # Market!NoText
    BY <2>2 DEF Market!NoText
  <2>4. e.asOf > 0
    BY <2>2
  <2>5. USD \in e.currency
    BY <2>2
  <2> QED
    BY <1>4, <2>3, <2>4, <2>5
<1>6. ASSUME NEW s \in Range(symbols) PROVE \E e \in Range(r.entries) : e.symbol = s
  <2>1. PICK k \in DOMAIN symbols : s = symbols[k]
    BY DEF Range
  <2> QED
    BY <1>2, <2>1 DEF Range
<1> QED
  BY <1>2, <1>3, <1>5, <1>6 DEF MarketDocumented

\* The prices made of it.
LEMMA SeedPriced ==
    ASSUME MarketInv, marketOutcome = "prices", Core!IsList(symbols), Range(symbols) = {"AAPL", "BND"},
           symbols # <<>>, marketResponse = MarketMock(symbols), NEW s \in {"AAPL", "BND"}
    PROVE  /\ s \in DOMAIN marketPrices
           /\ marketPrices[s].value = [minor |-> MarketData[s], currency |-> "USD"]
<1> DEFINE entries == marketResponse.entries
<1>1. TableOf(marketPrices, entries)
  BY PricesOfEntries
<1>2. \A k \in DOMAIN symbols : symbols[k] \in {"AAPL", "BND"}
  BY DEF Range
<1>3. /\ DOMAIN entries = DOMAIN symbols
      /\ \A k \in DOMAIN symbols :
            /\ entries[k].symbol = symbols[k] /\ entries[k].minor = {MarketData[symbols[k]]}
            /\ entries[k].currency = {USD}
  BY <1>2, SeedQuoted
<1> HIDE DEF entries
<1>4. PICK place \in DOMAIN symbols : symbols[place] = s
  BY DEF Range
<1>5. s \in DOMAIN marketPrices
  BY <1>1, <1>3, <1>4 DEF TableOf
<1>6. PICK k \in DOMAIN entries : entries[k].symbol = s /\ marketPrices[s] \in Market!PriceOf(entries[k])
  BY <1>1, <1>5 DEF TableOf, Newest
<1>7. EntryOK(entries[k])
  BY <1>1, <1>6 DEF TableOf
<1> DEFINE value == marketPrices[s].value
<1>8. /\ value \in Service!MoneySet
      /\ value.minor \in IF entries[k].minor = {} THEN {0} ELSE entries[k].minor
      /\ \E text : entries[k].currency = {text} /\ value.currency = text.code
  BY <1>6, <1>7, PriceTyped DEF Service!PriceSet
<1>9. entries[k].minor = {MarketData[s]} /\ entries[k].currency = {USD}
  BY <1>3, <1>6
<1>10. value.minor = MarketData[s] /\ value.currency = "USD"
  BY <1>8, <1>9 DEF USD
<1>11. value = [minor |-> value.minor, currency |-> value.currency]
  BY <1>8 DEF Service!MoneySet
<1> QED
  BY <1>5, <1>10, <1>11

\* Two accounts of one position each, in one currency, whose values fit.
SeededPair(cash, price, n) ==
    /\ DOMAIN accounts = 1 .. 2 /\ Len(accounts) = 2
    /\ \A k \in 1 .. 2 :
          /\ cash[k] \in Nat /\ price[k] \in Nat /\ n[k] \in Nat
          /\ \E s : /\ SeededAccount(accounts[k], cash[k], s, n[k])
                    /\ s \in DOMAIN prices /\ prices[s].value = [minor |-> price[k], currency |-> "USD"]
          /\ (n[k] * price[k]) * Scale <= IntMax
    /\ (cash[1] + n[1] * price[1]) + (cash[2] + n[2] * price[2]) <= IntMax

\* They can be valued, and their exact values fit.
LEMMA PairInRange ==
    ASSUME NEW cash, NEW price, NEW n, SeededPair(cash, price, n)
    PROVE  /\ Valuation!Priced /\ Valuation!ProductsInRange
           /\ \A p \in Valuation!Positions : Valuation!Product(p) % Scale = 0
           /\ \A c, d \in Valuation!Currencies : c = d
           /\ Valuation!InRange
           /\ \A k \in 1 .. 2 :
                 Valuation!ExactAccount(accounts[k]) = (cash[k] + n[k] * price[k]) * Scale
           /\ Valuation!ExactTotal
                = ((cash[1] + n[1] * price[1]) + (cash[2] + n[2] * price[2])) * Scale
<1>0. Scale \in Nat \ {0} /\ IntMax \in Nat
  BY ScaleAssumption, WidthAssumption
<1> DEFINE position(k) == accounts[k].positions[1]
<1>1. ASSUME NEW k \in 1 .. 2
      PROVE  /\ accounts[k].cash = [minor |-> cash[k], currency |-> "USD"]
             /\ DOMAIN accounts[k].positions = {1}
             /\ position(k).symbol \in DOMAIN prices
             /\ prices[position(k).symbol].value.currency = "USD"
             /\ n[k] * price[k] \in Nat
             /\ Valuation!Product(position(k)) = (n[k] * price[k]) * Scale
             /\ Valuation!Product(position(k)) \in Nat /\ Valuation!Product(position(k)) <= IntMax
  <2>1. PICK s : /\ SeededAccount(accounts[k], cash[k], s, n[k])
                 /\ s \in DOMAIN prices /\ prices[s].value = [minor |-> price[k], currency |-> "USD"]
    BY DEF SeededPair
  <2>2. /\ cash[k] \in Nat /\ price[k] \in Nat /\ n[k] \in Nat
        /\ (n[k] * price[k]) * Scale <= IntMax
    BY DEF SeededPair
  <2>3. Valuation!Product(position(k)) = (n[k] * Scale) * price[k]
    BY <2>1 DEF SeededAccount, Valuation!Product
  <2>4. (n[k] * Scale) * price[k] = (n[k] * price[k]) * Scale /\ n[k] * price[k] \in Nat
    BY <1>0, <2>2
  <2>5. (n[k] * price[k]) * Scale \in Nat
    BY <1>0, <2>4
  <2> QED
    BY <2>1, <2>2, <2>3, <2>4, <2>5 DEF SeededAccount
<1>2. Valuation!Positions = {position(1), position(2)}
  BY <1>1 DEF Valuation!Positions, Valuation!Range, SeededPair
<1>3. Valuation!UniqueSymbols(accounts) = {position(1).symbol, position(2).symbol}
  BY <1>1 DEF Valuation!UniqueSymbols, SeededPair
<1>4. Valuation!Priced
  BY <1>1, <1>3 DEF Valuation!Priced
<1>5. Valuation!ProductsInRange
  BY <1>0, <1>1, <1>2 DEF Valuation!ProductsInRange, Valuation!Int64, Valuation!IntMin
<1>6. \A p \in Valuation!Positions : Valuation!Product(p) % Scale = 0
  <2>1. \A m \in Nat : (m * Scale) % Scale = 0
    <3>1. \A m \in Nat : (m * Scale + 0) % Scale = 0 /\ m * Scale + 0 = m * Scale
      BY <1>0, DivisionUnique
    <3> QED
      BY <3>1
  <2> QED
    BY <1>1, <1>2, <2>1
<1>7. \A c, d \in Valuation!Currencies : c = d
  <2>1. \A k \in DOMAIN accounts : accounts[k].cash.currency = "USD"
    BY <1>1 DEF SeededPair
  <2>2. \A s \in Valuation!UniqueSymbols(accounts) : prices[s].value.currency = "USD"
    BY <1>1, <1>3
  <2> HIDE DEF position
  <2> QED
    BY <2>1, <2>2 DEF Valuation!Currencies
<1>8. ASSUME NEW k \in 1 .. 2
      PROVE  Valuation!ExactAccount(accounts[k]) = (cash[k] + n[k] * price[k]) * Scale
  <2> DEFINE f == [p \in DOMAIN accounts[k].positions |-> Valuation!Product(accounts[k].positions[p])]
  <2>1. DOMAIN f = {1} /\ f[1] = (n[k] * price[k]) * Scale
    BY <1>1
  <2>2. SumFunction(f) = (n[k] * price[k]) * Scale
    <3>1. (n[k] * price[k]) * Scale \in Int
      BY <1>1
    <3> HIDE DEF f
    <3> QED
      BY <2>1, <3>1, SumOne
  <2>3. Valuation!ExactAccount(accounts[k]) = cash[k] * Scale + (n[k] * price[k]) * Scale
    BY <1>1, <2>2, SameSum DEF Valuation!ExactAccount
  <2>4. cash[k] \in Nat
    BY DEF SeededPair
  <2>5. PICK a \in Nat, b \in Nat : a = cash[k] /\ b = n[k] * price[k]
    BY <1>1, <2>4
  <2>6. a * Scale + b * Scale = (a + b) * Scale
    BY <1>0
  <2> QED
    BY <2>3, <2>5, <2>6
<1> DEFINE v(k) == cash[k] + n[k] * price[k]
<1>9. v(1) \in Nat /\ v(2) \in Nat /\ v(1) + v(2) <= IntMax
  BY <1>1 DEF SeededPair
<1> HIDE DEF v
<1>10. Valuation!ExactTotal = (v(1) + v(2)) * Scale
  <2> DEFINE f == [k \in DOMAIN accounts |-> Valuation!ExactAccount(accounts[k])]
  <2>1. DOMAIN f = 1 .. 2 /\ f[1] = v(1) * Scale /\ f[2] = v(2) * Scale
    BY <1>8 DEF SeededPair, v
  <2>2. v(1) * Scale \in Int /\ v(2) * Scale \in Int
    BY <1>0, <1>9
  <2>3. SumFunction(f) = v(1) * Scale + v(2) * Scale
    <3> HIDE DEF f
    <3> QED
      BY <2>1, <2>2, SumTwo
  <2>4. v(1) * Scale + v(2) * Scale = (v(1) + v(2)) * Scale
    BY <1>0, <1>9
  <2> QED
    BY <2>3, <2>4, SameSum DEF Valuation!ExactTotal
<1>11. Valuation!InRange
  <2>1. \A m \in Nat : m <= IntMax => Valuation!Reportable(m * Scale)
    <3> SUFFICES ASSUME NEW m \in Nat, m <= IntMax PROVE Valuation!Reportable(m * Scale)
      OBVIOUS
    <3>1. m * Scale <= IntMax * Scale /\ m * Scale >= 0
      BY <1>0
    <3>2. (-IntMax - 1) * Scale <= 0
      BY <1>0
    <3> QED
      BY <1>0, <3>1, <3>2 DEF Valuation!Reportable, Valuation!IntMin
  <2>2. \A k \in DOMAIN accounts : Valuation!Reportable(Valuation!ExactAccount(accounts[k]))
    <3>1. v(1) <= IntMax /\ v(2) <= IntMax
      BY <1>0, <1>9
    <3>2. \A k \in DOMAIN accounts : k = 1 \/ k = 2
      BY DEF SeededPair
    <3> QED
      BY <1>8, <1>9, <2>1, <3>1, <3>2 DEF v
  <2>3. Valuation!Reportable(Valuation!ExactTotal)
    BY <1>9, <1>10, <2>1
  <2> QED
    BY <1>5, <2>2, <2>3 DEF Valuation!InRange
<1> QED
  BY <1>4, <1>5, <1>6, <1>7, <1>8, <1>10, <1>11 DEF v

\* The portfolio of such a pair.
LEMMA PairValued ==
    ASSUME NEW cash, NEW price, NEW n, SeededPair(cash, price, n), StackInv, pc = "done",
           Valuation!ExactInRange, Valuation!OneCurrency
    PROVE  /\ result.total = [minor |-> (cash[1] + n[1] * price[1]) + (cash[2] + n[2] * price[2]),
                              currency |-> "USD"]
           /\ DOMAIN result.accounts = 1 .. 2
           /\ \A k \in 1 .. 2 :
                 result.accounts[k].marketValue = [minor |-> cash[k] + n[k] * price[k], currency |-> "USD"]
<1>1. Valuation!Exact
  BY PairInRange DEF Valuation!ExactInRange
<1> DEFINE v(k) == cash[k] + n[k] * price[k]
<1>2. v(1) \in Nat /\ v(2) \in Nat
  BY DEF SeededPair
<1>3. /\ \A k \in 1 .. 2 : Valuation!ExactAccount(accounts[k]) = v(k) * Scale
      /\ Valuation!ExactTotal = (v(1) + v(2)) * Scale
  BY PairInRange
<1>4. \A k \in 1 .. 2 : accounts[k].cash.currency = "USD"
  BY DEF SeededPair, SeededAccount
<1> HIDE DEF v
<1>5. \A x, y \in Int : x * Scale = y * Scale => x = y
  BY ScaleAssumption
<1>6. DOMAIN result.accounts = 1 .. 2
  BY <1>1, PortfolioTyped DEF Valuation!Exact, SeededPair, StackInv
<1>7. ASSUME NEW m \in Service!MoneySet PROVE m.minor \in Int /\ m = [minor |-> m.minor, currency |-> m.currency]
  BY WidthAssumption DEF Service!MoneySet, Service!Int64, Service!IntMin
<1>8. ASSUME NEW k \in 1 .. 2
      PROVE  /\ result.accounts[k].cash.currency = "USD"
             /\ result.accounts[k].marketValue = [minor |-> v(k), currency |-> result.total.currency]
             /\ result.accounts[k].cash.currency = result.total.currency
  <2>1. /\ result.accounts[k].cash = accounts[k].cash
        /\ result.accounts[k].marketValue.minor * Scale = v(k) * Scale
    BY <1>1, <1>3 DEF Valuation!Exact, SeededPair
  <2>2. /\ result.accounts[k].cash.currency = result.total.currency
        /\ result.accounts[k].marketValue.currency = result.total.currency
    BY <1>6 DEF Valuation!OneCurrency
  <2>3. result.accounts[k].marketValue \in Service!MoneySet
    BY <1>6, PortfolioTyped DEF StackInv
  <2>4. v(k) \in Int
    BY <1>2
  <2>5. result.accounts[k].marketValue.minor = v(k)
    BY <1>5, <1>7, <2>1, <2>3, <2>4
  <2> QED
    BY <1>4, <1>7, <2>1, <2>2, <2>3, <2>5
<1>9. result.total.currency = "USD"
  BY <1>8
<1>10. result.total.minor = v(1) + v(2) /\ result.total \in Service!MoneySet
  <2>1. result.total \in Service!MoneySet
    BY PortfolioTyped DEF StackInv
  <2>2. result.total.minor * Scale = (v(1) + v(2)) * Scale
    BY <1>1, <1>3 DEF Valuation!Exact
  <2> QED
    BY <1>2, <1>5, <1>7, <2>1, <2>2
<1> QED
  BY <1>6, <1>7, <1>8, <1>9, <1>10 DEF v

\* The texts of the seed's values.
LEMMA SeededTexts ==
    /\ MapMoney([minor |-> 2102500, currency |-> "USD"]) = Dollars(21025)
    /\ MapMoney([minor |-> 1335000, currency |-> "USD"]) = Dollars(13350)
    /\ MapMoney([minor |-> 3437500, currency |-> "USD"]) = Dollars(34375)
<1>1. ASSUME NEW u \in Nat
      PROVE  MapMoney([minor |-> 100 * u, currency |-> "USD"]) = Dollars(u)
  <2>1. ~(100 * u < 0) /\ Quo(100 * u, 100) = u /\ 100 * u - 100 * u = 0
    BY DEF Quo
  <2>2. Amount(100 * u) = [sign |-> NoSign, units |-> u, cents |-> 0]
    BY <2>1 DEF Amount
  <2> QED
    BY <2>2 DEF MapMoney, Dollars
<1>2. 100 * 21025 = 2102500 /\ 100 * 13350 = 1335000 /\ 100 * 34375 = 3437500
  BY SMT
<1> QED
  BY SMT, <1>1, <1>2

\* The seeded customer gets what the seed is worth, at every width, whichever
\* version Core speaks (core-mock/main.go:24-84, market-mock/main.go:15-50):
\* SeededAnswer, for constants that the seed fits.
THEOREM SeededIsServed == ASSUME SeedFits PROVE Spec => []SeededAnswer
<1>1. ASSUME SeedFits, LinkInv, RefusalInv, StackInv, Valuation!RefusesExactly, Valuation!ExactInRange,
             Valuation!OneCurrency
      PROVE  SeededAnswer
  <2> SUFFICES ASSUME answer # <<>>, MocksAnswered, customerID = Seeded
      PROVE  /\ answer.status = 200 /\ answer.body.customerId = Seeded
             /\ answer.body.totalMarketValue = Dollars(34375)
             /\ [k \in DOMAIN answer.body.accounts |-> answer.body.accounts[k].marketValue]
                  = <<Dollars(21025), Dollars(13350)>>
    BY DEF SeededAnswer
  <2>1. PICK version \in ContractVersions : coreResponse = CoreMock(version, customerID)
    BY DEF MocksAnswered
  <2>2. coreOutcome \notin {"notFound", "failed"}
    <3>1. CoreDocumented
      BY <1>1, <2>1, SeedDocumented
    <3> QED
      BY <1>1, <3>1, DocumentedAccepted DEF StackInv
  <2> DEFINE cash == <<250000, 260000>>
             price == <<18525, 5375>>
             n == <<100, 200>>
             symbol == <<"AAPL", "BND">>
  <2>3. ASSUME coreOutcome = "accounts", accounts = coreAccounts
        PROVE  /\ Len(accounts) = 2 /\ DOMAIN accounts = 1 .. 2
               /\ \A k \in 1 .. 2 : SeededAccount(accounts[k], cash[k], symbol[k], n[k])
               /\ Service!UniqueSymbols(accounts) = {"AAPL", "BND"}
    <3>1. /\ Len(accounts) = 2 /\ DOMAIN accounts = 1 .. 2
          /\ SeededAccount(accounts[1], cash[1], symbol[1], n[1])
          /\ SeededAccount(accounts[2], cash[2], symbol[2], n[2])
      BY SMT, <1>1, <2>1, <2>3, SeedLoaded DEF StackInv
    <3>2. symbol[1] = "AAPL" /\ symbol[2] = "BND"
      OBVIOUS
    <3> HIDE DEF cash, n, symbol
    <3>3. \A k \in 1 .. 2 : SeededAccount(accounts[k], cash[k], symbol[k], n[k])
      BY <3>1
    <3> DEFINE named(k) == {accounts[k].positions[p].symbol : p \in DOMAIN accounts[k].positions}
    <3>4. \A k \in 1 .. 2 : named(k) = {symbol[k]}
      BY <3>3 DEF SeededAccount
    <3>5. Service!UniqueSymbols(accounts) = UNION {named(k) : k \in DOMAIN accounts}
      BY DEF Service!UniqueSymbols
    <3> HIDE DEF named
    <3>6. Service!UniqueSymbols(accounts) = {"AAPL", "BND"}
      BY <3>1, <3>2, <3>4, <3>5
    <3> QED
      BY <3>1, <3>3, <3>6
  <2>4. ASSUME marketOutcome # "none"
        PROVE  /\ coreOutcome = "accounts" /\ accounts = coreAccounts
               /\ Core!IsList(symbols) /\ Range(symbols) = {"AAPL", "BND"} /\ symbols # <<>>
    <3>1. coreOutcome = "accounts" /\ accounts = coreAccounts
      BY <1>1, <2>4 DEF RefusalInv
    <3>2. symbols = SetToSeq(Service!UniqueSymbols(accounts)) /\ accounts \in Seq(Service!AccountSet)
      BY <1>1, <2>4, SameTypes DEF LinkInv, StackInv, Valuation!TypeInv
    <3>3. Core!IsList(symbols) /\ Range(symbols) = Service!UniqueSymbols(accounts)
      BY <3>2, SymbolsKept, SymbolsListed
    <3>4. Service!UniqueSymbols(accounts) = {"AAPL", "BND"}
      <4> HIDE DEF cash, n, symbol
      <4> QED
        BY <2>3, <3>1
    <3>5. symbols # <<>>
      BY <3>3, <3>4 DEF Range
    <3> QED
      BY <3>1, <3>3, <3>4, <3>5
  <2> HIDE DEF cash, price, n, symbol
  <2>5. marketOutcome # "failed"
    <3> SUFFICES ASSUME marketOutcome = "failed" PROVE FALSE
      OBVIOUS
    <3>1. MarketDocumented
      BY <1>1, <2>4, SeedMarketDocumented DEF MocksAnswered
    <3> QED
      BY <1>1, <2>4, <3>1, DocumentedPriced DEF StackInv
  <2>6. pc \in {"done", "failed"}
    BY <1>1, <2>2, <2>5 DEF LinkInv, RefusalInv
  <2>7. coreOutcome = "accounts" /\ accounts = coreAccounts /\ marketOutcome = "prices" /\ prices = marketPrices
    BY <1>1, <2>6 DEF LinkInv
  <2>8. SeededPair(cash, price, n)
    <3>1. \A k \in 1 .. 2 : /\ symbol[k] \in DOMAIN prices
                            /\ prices[symbol[k]].value = [minor |-> price[k], currency |-> "USD"]
      <4>1. \A s \in {"AAPL", "BND"} : /\ s \in DOMAIN prices
                                      /\ prices[s].value = [minor |-> MarketData[s], currency |-> "USD"]
        BY <1>1, <2>4, <2>7, SeedPriced DEF MocksAnswered, StackInv
      <4>2. \A k \in 1 .. 2 : symbol[k] \in {"AAPL", "BND"} /\ MarketData[symbol[k]] = price[k]
        BY SMT DEF symbol, price, MarketData
      <4> QED
        BY <4>1, <4>2
    <3>2. \A k \in 1 .. 2 : /\ cash[k] \in Nat /\ price[k] \in Nat /\ n[k] \in Nat
                            /\ (n[k] * price[k]) * Scale <= IntMax
      <4>1. /\ cash[1] = 250000 /\ price[1] = 18525 /\ n[1] = 100
            /\ cash[2] = 260000 /\ price[2] = 5375 /\ n[2] = 200
        BY SMT DEF cash, price, n
      <4>2. 1852500 * Scale <= IntMax /\ 1075000 * Scale <= IntMax
        BY SMT, <1>1, ScaleAssumption, WidthAssumption DEF SeedFits
      <4>3. 100 * 18525 = 1852500 /\ 200 * 5375 = 1075000
        BY SMT
      <4> QED
        BY SMT, <4>1, <4>2, <4>3
    <3>3. (cash[1] + n[1] * price[1]) + (cash[2] + n[2] * price[2]) <= IntMax
      BY SMT, <1>1 DEF cash, price, n, SeedFits
    <3>4. /\ DOMAIN accounts = 1 .. 2 /\ Len(accounts) = 2
          /\ \A k \in 1 .. 2 : SeededAccount(accounts[k], cash[k], symbol[k], n[k])
      BY <2>3, <2>7
    <3> QED
      BY <3>1, <3>2, <3>3, <3>4 DEF SeededPair
  <2>9. pc = "done"
    BY <1>1, <2>6, <2>8, PairInRange DEF Valuation!RefusesExactly
  <2>10. answer = [status |-> 200, body |-> MapPortfolio(result)]
    BY <1>1, <2>9 DEF LinkInv
  <2>11. answer.status = 200 /\ answer.body.customerId = Seeded
    BY <2>10 DEF MapPortfolio
  <2>12. /\ result.total = [minor |-> (cash[1] + n[1] * price[1]) + (cash[2] + n[2] * price[2]),
                            currency |-> "USD"]
         /\ DOMAIN result.accounts = 1 .. 2
         /\ \A k \in 1 .. 2 :
               result.accounts[k].marketValue = [minor |-> cash[k] + n[k] * price[k], currency |-> "USD"]
    BY <1>1, <2>8, <2>9, PairValued
  <2>13. /\ cash[1] + n[1] * price[1] = 2102500 /\ cash[2] + n[2] * price[2] = 1335000
         /\ (cash[1] + n[1] * price[1]) + (cash[2] + n[2] * price[2]) = 3437500
    BY SMT DEF cash, price, n
  <2>14. answer.body.totalMarketValue = Dollars(34375)
    BY SMT, <2>10, <2>12, <2>13, SeededTexts DEF MapPortfolio
  <2>15. /\ DOMAIN answer.body.accounts = 1 .. 2
         /\ \A k \in 1 .. 2 : answer.body.accounts[k].marketValue = MapMoney(result.accounts[k].marketValue)
    BY <2>10, <2>12 DEF MapPortfolio, MapAccount
  <2>16. /\ answer.body.accounts[1].marketValue = Dollars(21025)
         /\ answer.body.accounts[2].marketValue = Dollars(13350)
    BY SMT, <2>12, <2>13, <2>15, SeededTexts
  <2>17. [k \in DOMAIN answer.body.accounts |-> answer.body.accounts[k].marketValue]
           = <<Dollars(21025), Dollars(13350)>>
    BY SMT, <2>15, <2>16
  <2> QED
    BY SMT, <2>11, <2>14, <2>17
<1>2. Valuation!ServiceSpec => []Valuation!RefusesExactly
  BY ValuationAssumptions, WidthAssumption, ScaleAssumption, Valuation!RefusedForAReason
<1> QED
  BY <1>1, <1>2, RefusalInvariant, StackInvariant, ServicePromises, ServiceAsSpecified, PTL

-----------------------------------------------------------------------------
(* The request as PortfolioApi sees it.  That module leaves the outcomes of  *)
(* the upstreams and of the service to the environment; here they are        *)
(* computed, and turn out to be among those it allows.                       *)

\* Where the goroutine of the request stands.
Stage ==
    IF coreOutcome = "pending" THEN "core"
    ELSE IF coreOutcome # "accounts" \/ marketOutcome = "failed" \/ pc = "failed" THEN "observe"
    ELSE IF marketOutcome = "none" \/ (marketOutcome = "pending" /\ symbols = <<>>) THEN "symbols"
    ELSE IF marketOutcome = "pending" THEN "market"
    ELSE IF pc # "done" THEN "aggregate"
    ELSE IF answer = <<>> THEN "write" ELSE "observe"

\* Its status variable.
Code ==
    IF coreOutcome = "notFound" THEN 404
    ELSE IF coreOutcome = "failed" \/ marketOutcome = "failed" \/ pc = "failed" THEN 502 ELSE 200

\* What the accounts hold.
Held ==
    IF coreOutcome # "accounts" THEN "none"
    ELSE IF coreAccounts = <<>> THEN "empty"
    ELSE IF Service!UniqueSymbols(coreAccounts) = {} THEN "cashOnly" ELSE "positions"

\* The calls made to Market.
Calls == IF symbols = <<>> THEN 0 ELSE 1

\* The variables of PortfolioApi are functions of the request, here of one.
Only(value) == [r \in {"request"} |-> value]
Zeros == [s \in {200, 400, 404, 502} |-> 0]

Api == INSTANCE PortfolioApi
    WITH Requests <- {"request"}, Malformed <- {}, Scraper <- "scraper", Free <- "free",
         RequestTimeout <- 1, WriteTimeout <- 3,
         pc <- Only(Stage), status <- Only(Code), accounts <- Only(Held),
         prices <- Only(marketOutcome = "prices"), cancelled <- Only(FALSE),
         age <- Only(0), callAge <- Only(0), coreCalls <- Only(1), marketCalls <- Only(Calls),
         received <- Only(0), mu <- "free", requests <- Zeros, count <- 0, seconds <- 0,
         scraper <- "idle", page <- Zeros, exposed <- [requests |-> Zeros, seconds |-> 0, count |-> 0]

\* The state that Arrive and CallCore lead to.
Called ==
    /\ Stage = "core" /\ Code = 200 /\ Held = "none" /\ Calls = 0
    /\ marketOutcome # "prices"

\* PortfolioApi sees no more of the stack than these five values.
LEMMA Unseen ==
    ASSUME Stage' = Stage, Code' = Code, Held' = Held, Calls' = Calls,
           (marketOutcome = "prices")' = (marketOutcome = "prices")
    PROVE  UNCHANGED Api!vars
BY DEF Api!vars, Api!workVars, Api!callVars, Api!clockVars, Api!clientVars, Api!metricVars, Api!scrapeVars,
   Only, Zeros

\* Core's answer is accepted.
LEMMA SeenAccepted ==
    ASSUME Stage = "core", Stage' = "symbols", Code' = Code, Held' \in Api!Holdings, Calls' = Calls,
           (marketOutcome = "prices")' = (marketOutcome = "prices")
    PROVE  Api!Answers("request")
BY DEF Api!Answers, Api!CoreAccepted, Api!Goto, Api!StopTimer, Api!callVars, Api!clientVars,
   Api!metricVars, Api!scrapeVars, Only, Zeros

\* Core's answer is a 404, or it is refused.
LEMMA SeenRefused ==
    ASSUME NEW code \in {404, 502},
           Stage = "core", Stage' = "observe", Code' = code, Held' = Held, Calls' = Calls,
           (marketOutcome = "prices")' = (marketOutcome = "prices")
    PROVE  Api!CoreNotFound("request") \/ Api!CoreFailed("request")
<1>1. Only(Stage)["request"] = "core"
  BY DEF Only
<1>2. Api!Goto("request", "observe")
  BY DEF Api!Goto, Only
<1>3. Api!Fail("request", code)
  BY <1>2 DEF Api!Fail, Only
<1>4. Api!StopTimer("request")
  BY DEF Api!StopTimer, Only
<1>5. UNCHANGED <<Only(Held), Only(marketOutcome = "prices"), Only(0), Api!callVars, Api!clientVars,
        Api!metricVars, Api!scrapeVars>>
  BY DEF Api!callVars, Api!clientVars, Api!metricVars, Api!scrapeVars, Only, Zeros
<1> QED
  BY <1>1, <1>3, <1>4, <1>5 DEF Api!CoreNotFound, Api!CoreFailed

\* Market is called or not, and its answer accepted or refused.
LEMMA SeenMarket ==
    ASSUME Held' = Held,
           \/ /\ Stage = "symbols" /\ Stage' = "market" /\ Code' = Code /\ Held = "positions"
              /\ Calls' = Calls + 1 /\ Calls \in Nat
              /\ (marketOutcome = "prices")' = (marketOutcome = "prices")
           \/ /\ Stage = "symbols" /\ Stage' = "aggregate" /\ Code' = Code /\ Held # "positions"
              /\ Calls' = Calls /\ marketOutcome' = "prices"
           \/ /\ Stage = "market" /\ Calls' = Calls /\ Stage' = "aggregate" /\ Code' = Code /\ marketOutcome' = "prices"
           \/ /\ Stage = "market" /\ Calls' = Calls /\ Stage' = "observe" /\ Code' = 502
              /\ (marketOutcome = "prices")' = (marketOutcome = "prices")
    PROVE  Api!Runs("request") \/ Api!Answers("request")
<1> USE DEF Api!Goto, Api!Fail, Api!StopTimer, Api!workVars, Api!callVars, Api!clockVars, Api!clientVars,
        Api!metricVars, Api!scrapeVars, Only, Zeros
<1>1. CASE /\ Stage = "symbols" /\ Stage' = "market" /\ Code' = Code /\ Held = "positions"
              /\ Calls' = Calls + 1 /\ Calls \in Nat
              /\ (marketOutcome = "prices")' = (marketOutcome = "prices")
  BY <1>1 DEF Api!Runs, Api!CallMarket
<1>2. CASE /\ Stage = "symbols" /\ Stage' = "aggregate" /\ Code' = Code /\ Held # "positions"
              /\ Calls' = Calls /\ marketOutcome' = "prices"
  BY <1>2 DEF Api!Runs, Api!SkipMarket
<1>3. CASE /\ Stage = "market" /\ Calls' = Calls /\ Stage' = "aggregate" /\ Code' = Code /\ marketOutcome' = "prices"
  BY <1>3 DEF Api!Answers, Api!MarketAccepted
<1>4. CASE /\ Stage = "market" /\ Calls' = Calls /\ Stage' = "observe" /\ Code' = 502
              /\ (marketOutcome = "prices")' = (marketOutcome = "prices")
  <2>1. Only(Stage)["request"] = "market"
    BY <1>4
  <2>2. Api!Fail("request", 502)
    BY <1>4
  <2>3. Api!StopTimer("request")
    OBVIOUS
  <2>4. UNCHANGED <<Only(Held), Only(marketOutcome = "prices"), Only(0), Api!callVars, Api!clientVars,
          Api!metricVars, Api!scrapeVars>>
    BY <1>4
  <2> HIDE DEF Api!Goto, Api!Fail, Api!StopTimer, Api!workVars, Api!callVars, Api!clockVars,
        Api!clientVars, Api!metricVars, Api!scrapeVars, Only, Zeros
  <2> QED
    BY <2>1, <2>2, <2>3, <2>4 DEF Api!Answers, Api!MarketFailed
<1> QED
  BY <1>1, <1>2, <1>3, <1>4

\* The service returns, and the portfolio is written.
LEMMA SeenValuation ==
    ASSUME Held' = Held, Calls' = Calls, (marketOutcome = "prices")' = (marketOutcome = "prices"),
           \/ Stage = "aggregate" /\ Stage' = "write" /\ Code' = Code
           \/ Stage = "aggregate" /\ Stage' = "observe" /\ Code' = 502 /\ Held # "empty"
           \/ Stage = "write" /\ Stage' = "observe" /\ Code' = Code
    PROVE  Api!Runs("request")
<1> USE DEF Api!Goto, Api!Fail, Api!workVars, Api!callVars, Api!clockVars, Api!clientVars,
        Api!metricVars, Api!scrapeVars, Only, Zeros
<1>1. CASE Stage = "aggregate" /\ Stage' = "write" /\ Code' = Code
  BY <1>1 DEF Api!Runs, Api!Aggregated
<1>2. CASE Stage = "aggregate" /\ Stage' = "observe" /\ Code' = 502 /\ Held # "empty"
  <2>1. Only(Stage)["request"] = "aggregate" /\ Only(Held)["request"] # "empty"
    BY <1>2
  <2>2. Api!Fail("request", 502)
    BY <1>2
  <2>3. UNCHANGED <<Only(Held), Only(marketOutcome = "prices"), Api!callVars, Api!clockVars,
          Api!clientVars, Api!metricVars, Api!scrapeVars>>
    BY <1>2
  <2> HIDE DEF Api!Goto, Api!Fail, Api!workVars, Api!callVars, Api!clockVars, Api!clientVars,
        Api!metricVars, Api!scrapeVars, Only, Zeros
  <2> QED
    BY <2>1, <2>2, <2>3 DEF Api!Runs, Api!AggregationFailed
<1>3. CASE Stage = "write" /\ Stage' = "observe" /\ Code' = Code
  BY <1>3 DEF Api!Runs, Api!WritePortfolio
<1> QED
  BY <1>1, <1>2, <1>3

\* The list of symbols is empty when there is none.
LEMMA SymbolsNone ==
    ASSUME NEW list \in Seq(Service!AccountSet)
    PROVE  SetToSeq(Service!UniqueSymbols(list)) = <<>> <=> Service!UniqueSymbols(list) = {}
<1> DEFINE S == Service!UniqueSymbols(list)
           sequence == SetToSeq(S)
<1>1. Range(sequence) = S
  BY SymbolsKept
<1>2. Core!IsList(sequence)
  BY SymbolsListed
<1> HIDE DEF S, sequence
<1>3. ASSUME sequence = <<>> PROVE S = {}
  BY <1>1, <1>3 DEF Range
<1>4. ASSUME S = {} PROVE sequence = <<>>
  <2>1. DOMAIN sequence = {}
    BY <1>1, <1>4 DEF Range
  <2> QED
    BY <1>2, <2>1 DEF Core!IsList
<1> QED
  BY <1>3, <1>4 DEF S, sequence

\* Every step of the stack is one that PortfolioApi allows, or not to be seen
\* there.
LEMMA StepOfApi == StackInv /\ LinkInv /\ RefusalInv /\ [Next]_vars => [Api!Next]_(Api!vars)
<1> SUFFICES ASSUME StackInv, LinkInv, RefusalInv, [Next]_vars PROVE [Api!Next]_(Api!vars)
  OBVIOUS
<1>a. Api!Runs("request") \/ Api!Answers("request") => Api!Next
  BY DEF Api!Next
<1>b. MarketInv
  BY DEF StackInv
<1>c. Service!UniqueSymbols(coreAccounts)' = Service!UniqueSymbols(coreAccounts) \/ coreOutcome = "pending"
  <2>1. coreOutcome # "pending" => coreAccounts' = coreAccounts
    BY DEF Next, vars, coreVars, CoreAnswers, Core!CoreNext, Core!CoreNotFound, Core!CoreStatusError,
       Core!CoreTooLarge, Core!CoreRejected, Core!CoreMapped, Core!Fails, LoadAccounts, AccountsUnavailable,
       CallMarket, MarketAnswers, LoadPrices, PricesUnavailable, Value, RespondPortfolio, RespondError
  <2> QED
    BY <2>1 DEF Service!UniqueSymbols
<1>1. CASE CoreAnswers
  <2>1. /\ coreOutcome = "pending" /\ UNCHANGED <<marketVars, serviceVars, answer>>
        /\ coreOutcome' \in {"accounts", "notFound", "failed"}
    BY <1>1 DEF CoreAnswers, Core!CoreNext, Core!CoreNotFound, Core!CoreStatusError, Core!CoreTooLarge,
       Core!CoreRejected, Core!CoreMapped, Core!Fails
  <2>2. pc = "accounts" /\ marketOutcome = "none"
    BY <2>1 DEF LinkInv
  <2>3. /\ Stage = "core" /\ Code = 200 /\ Held = "none" /\ Calls' = Calls
        /\ (marketOutcome = "prices")' = (marketOutcome = "prices")
    BY <2>1, <2>2 DEF Stage, Code, Held, Calls, marketVars
  <2>4. CASE coreOutcome' = "accounts"
    <3>1. Stage' = "symbols" /\ Code' = 200 /\ Held' \in Api!Holdings
      BY <2>1, <2>2, <2>4 DEF Stage, Code, Held, Api!Holdings, marketVars, serviceVars
    <3> QED
      BY <1>a, <2>3, <3>1, SeenAccepted
  <2>5. CASE coreOutcome' # "accounts"
    <3>1. Stage' = "observe" /\ Code' \in {404, 502} /\ Held' = "none"
      BY <2>1, <2>2, <2>5 DEF Stage, Code, Held
    <3>2. Api!CoreNotFound("request") \/ Api!CoreFailed("request")
      BY <2>3, <3>1, SeenRefused
    <3> QED
      BY <1>a, <3>2 DEF Api!Answers
  <2> QED
    BY <2>4, <2>5
<1>2. CASE LoadAccounts \/ AccountsUnavailable
  <2>1. /\ UNCHANGED <<coreVars, marketVars, answer>> /\ pc = "accounts"
        /\ coreOutcome = "accounts" => pc' = "prices"
        /\ coreOutcome \in {"accounts", "notFound", "failed"}
        /\ pc' \in {"prices", "unavailable"}
    BY <1>2 DEF LoadAccounts, AccountsUnavailable, Service!LoadAccounts, Service!AccountsUnavailable, Service!Abort
  <2>2. marketOutcome = "none"
    BY <2>1 DEF LinkInv
  <2>3. /\ Stage' = Stage /\ Code' = Code /\ Held' = Held /\ Calls' = Calls
        /\ (marketOutcome = "prices")' = (marketOutcome = "prices")
    BY <1>c, <2>1, <2>2 DEF Stage, Code, Held, Calls, coreVars, marketVars
  <2> QED
    BY <2>3, Unseen
<1>3. CASE CallMarket
  <2>1. /\ pc = "prices" /\ marketOutcome = "none" /\ marketOutcome' = "pending"
        /\ symbols' = SetToSeq(Service!UniqueSymbols(accounts))
        /\ UNCHANGED <<coreVars, serviceVars, answer>>
    BY <1>3 DEF CallMarket
  <2>2. coreOutcome = "accounts" /\ accounts = coreAccounts /\ symbols = <<>>
    BY <1>b, <2>1 DEF LinkInv, MarketInv
  <2>3. /\ Stage = "symbols" /\ Code = 200 /\ Code' = 200 /\ Calls = 0 /\ Held' = Held
        /\ (marketOutcome = "prices")' = (marketOutcome = "prices")
    BY <1>c, <2>1, <2>2 DEF Stage, Code, Held, Calls, coreVars, serviceVars
  <2>4. CASE symbols' = <<>>
    BY <1>c, <2>1, <2>2, <2>3, <2>4, Unseen DEF Stage, Calls, coreVars, serviceVars
  <2>5. CASE symbols' # <<>>
    <3>1. accounts \in Seq(Service!AccountSet)
      BY SameTypes DEF StackInv, Valuation!TypeInv
    <3>2. Service!UniqueSymbols(accounts) # {}
      BY <2>1, <2>5, <3>1, SymbolsNone
    <3>3. Service!UniqueSymbols(<<>>) = {}
      BY DEF Service!UniqueSymbols
    <3>4. Held = "positions"
      BY <2>2, <3>2, <3>3 DEF Held
    <3>5. Stage' = "market" /\ Calls' = 1
      BY <2>1, <2>2, <2>5 DEF Stage, Calls, coreVars, serviceVars
    <3> QED
      BY <1>a, <2>3, <3>4, <3>5, SeenMarket
  <2> QED
    BY <2>4, <2>5
<1>4. CASE MarketAnswers
  <2>1. /\ marketOutcome = "pending" /\ UNCHANGED <<coreVars, symbols, serviceVars, answer>>
        /\ marketOutcome' \in {"prices", "failed"}
        /\ symbols = <<>> => marketOutcome' = "prices"
    BY <1>4 DEF MarketAnswers, Market!MarketNext, Market!MarketSkipped, Market!MarketRejected, Market!MarketMapped
  <2>2. /\ coreOutcome = "accounts" /\ accounts = coreAccounts
        /\ symbols = SetToSeq(Service!UniqueSymbols(accounts))
        /\ pc \in {"prices", "unavailable"}
    BY <2>1 DEF LinkInv, RefusalInv
  <2>3. Code = 200 /\ Held' = Held /\ Calls' = Calls /\ Code' = IF marketOutcome' = "failed" THEN 502 ELSE 200
    BY <1>c, <2>1, <2>2 DEF Code, Held, Calls, coreVars, serviceVars
  <2>4. Stage' = IF marketOutcome' = "failed" THEN "observe" ELSE "aggregate"
    BY <2>1, <2>2 DEF Stage, coreVars, serviceVars
  <2>5. CASE symbols = <<>>
    <3>1. accounts \in Seq(Service!AccountSet)
      BY SameTypes DEF StackInv, Valuation!TypeInv
    <3>2. Held # "positions"
      BY <2>2, <2>5, <3>1, SymbolsNone DEF Held
    <3>3. Stage = "symbols"
      BY <2>1, <2>2, <2>5 DEF Stage
    <3> QED
      BY <1>a, <2>1, <2>3, <2>4, <2>5, <3>2, <3>3, SeenMarket
  <2>6. CASE symbols # <<>>
    <3>1. Stage = "market"
      BY <2>1, <2>2, <2>6 DEF Stage
    <3> QED
      BY <1>a, <2>1, <2>3, <2>4, <3>1, SeenMarket
  <2> QED
    BY <2>5, <2>6
<1>5. CASE LoadPrices \/ PricesUnavailable
  <2>1. /\ UNCHANGED <<coreVars, marketVars, answer>> /\ pc = "prices"
        /\ marketOutcome = "failed" \/ (marketOutcome = "prices" /\ pc' = "account")
    BY <1>5 DEF LoadPrices, PricesUnavailable, Service!LoadPrices, Service!PricesUnavailable, Service!Abort
  <2>2. coreOutcome = "accounts"
    BY <2>1 DEF LinkInv
  <2>3. /\ Stage' = Stage /\ Code' = Code /\ Held' = Held /\ Calls' = Calls
        /\ (marketOutcome = "prices")' = (marketOutcome = "prices")
    BY <1>c, <2>1, <2>2 DEF Stage, Code, Held, Calls, coreVars, marketVars
  <2> QED
    BY <2>3, Unseen
<1>6. CASE Value
  <2>1. /\ pc \in {"account", "positions"} /\ UNCHANGED <<coreVars, marketVars, answer>>
        /\ pc' \in {"account", "positions", "done", "failed"}
        /\ pc' = "failed" => pc = "positions"
    <3>1. CASE Service!BeginAccount \/ Service!Return
      BY <1>6, <3>1 DEF Value, Service!BeginAccount, Service!Return
    <3>2. CASE Service!ValuePosition
      BY <1>6, <3>2 DEF Value, Service!ValuePosition
    <3>3. CASE Service!EndAccount
      <4>1. pc = "positions" /\ pc' = "account"
        BY <3>3, Zenon DEF Service!EndAccount
      <4> QED
        BY <1>6, <4>1 DEF Value
    <3>4. CASE Service!PositionFails \/ Service!TotalFails
      BY <1>6, <3>4 DEF Value, Service!PositionFails, Service!TotalFails, Service!Abort
    <3> QED
      BY <1>6, <3>1, <3>2, <3>3, <3>4 DEF Value
  <2>2. /\ coreOutcome = "accounts" /\ accounts = coreAccounts
        /\ marketOutcome = "prices" /\ answer = <<>>
    BY <2>1 DEF LinkInv
  <2>3. Held' = Held /\ Calls' = Calls /\ (marketOutcome = "prices")' = (marketOutcome = "prices")
    BY <1>c, <2>1, <2>2 DEF Held, Calls, coreVars, marketVars
  <2>4. Stage = "aggregate" /\ Code = 200
    BY <2>1, <2>2 DEF Stage, Code
  <2>5. CASE pc' \in {"account", "positions"}
    <3>1. Stage' = "aggregate" /\ Code' = 200
      BY <2>1, <2>2, <2>5 DEF Stage, Code, coreVars, marketVars
    <3> QED
      BY <2>3, <2>4, <3>1, Unseen
  <2>6. CASE pc' = "done"
    <3>1. Stage' = "write" /\ Code' = 200
      BY <2>1, <2>2, <2>6 DEF Stage, Code, coreVars, marketVars
    <3> QED
      BY <1>a, <2>3, <2>4, <3>1, SeenValuation
  <2>7. CASE pc' = "failed"
    <3>1. Stage' = "observe" /\ Code' = 502
      BY <2>1, <2>2, <2>7 DEF Stage, Code, coreVars, marketVars
    <3>2. accounts # <<>>
      BY <2>1, <2>7 DEF StackInv, Valuation!TypeInv
    <3>3. Held # "empty"
      BY <2>2, <3>2 DEF Held
    <3> QED
      BY <1>a, <2>3, <2>4, <3>1, <3>3, SeenValuation
  <2> QED
    BY <2>1, <2>5, <2>6, <2>7
<1>7. CASE RespondPortfolio \/ RespondError
  <2>1. /\ UNCHANGED <<coreVars, marketVars, serviceVars>> /\ answer = <<>> /\ answer' # <<>>
        /\ pc \in {"done", "failed", "unavailable"}
    BY <1>7 DEF RespondPortfolio, RespondError
  <2>2. /\ Code' = Code /\ Held' = Held /\ Calls' = Calls
        /\ (marketOutcome = "prices")' = (marketOutcome = "prices")
    BY <1>c, <2>1 DEF Code, Held, Calls, coreVars, marketVars, serviceVars, LinkInv
  <2>3. CASE pc = "done"
    <3>1. coreOutcome = "accounts" /\ marketOutcome = "prices"
      BY <2>3 DEF LinkInv
    <3>2. Stage = "write" /\ Stage' = "observe"
      BY <2>1, <2>3, <3>1 DEF Stage, coreVars, marketVars, serviceVars
    <3> QED
      BY <1>a, <2>2, <3>2, SeenValuation
  <2>4. CASE pc # "done"
    <3>1. Stage = "observe" /\ Stage' = "observe"
      BY <2>1, <2>4 DEF Stage, coreVars, marketVars, serviceVars, LinkInv, RefusalInv
    <3> QED
      BY <2>2, <3>1, Unseen
  <2> QED
    BY <2>3, <2>4
<1>8. CASE UNCHANGED vars
  <2>1. /\ Stage' = Stage /\ Code' = Code /\ Held' = Held /\ Calls' = Calls
        /\ (marketOutcome = "prices")' = (marketOutcome = "prices")
    BY <1>8 DEF Stage, Code, Held, Calls, vars, coreVars, marketVars, serviceVars, Service!UniqueSymbols
  <2> QED
    BY <2>1, Unseen
<1> QED
  BY <1>1, <1>2, <1>3, <1>4, <1>5, <1>6, <1>7, <1>8 DEF Next

\* The stack answers one request of PortfolioApi: whatever Core and Market send,
\* the adapters and the service lead the handler only where that module lets the
\* environment lead it, in that order.  What PortfolioApi proves of the handler
\* for every outcome holds of the outcomes there really are.
THEOREM ApiAsSpecified == Spec => Called /\ [][Api!Next]_(Api!vars)
<1>1. Init => Called
  BY DEF Init, Service!ServiceInit, Called, Stage, Code, Held, Calls
<1>2. StackInv /\ LinkInv /\ RefusalInv /\ [Next]_vars => [Api!Next]_(Api!vars)
  BY StepOfApi
<1> QED
  BY <1>1, <1>2, StackInvariant, RefusalInvariant, PTL DEF Spec

=============================================================================
