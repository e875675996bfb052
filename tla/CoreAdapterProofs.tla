-------------------------- MODULE CoreAdapterProofs --------------------------
(***************************************************************************)
(* Proofs about CoreAdapter for every set of responses its assumption      *)
(* allows, and for every width of the integers and of the fraction.        *)
(***************************************************************************)
EXTENDS CoreAdapter, DomainProofs, TLAPS

\* A division bounds its factor.
LEMMA DivBound == \A a \in Nat, d \in Nat \ {0}, b \in Int : b <= a \div d => b * d <= a
BY SMT

\* The heart of the v2 range check: what coreV2QuantityOverflows lets pass, the
\* parser computes exactly.
LEMMA ParsedExactly ==
    ASSUME NEW text, QuantityTextOK(text), ValidCoreV2Quantity(text), NEW q \in ParseQuantity(text)
    PROVE  q = Denotes(text)
<1>1. /\ text.sign # "-" /\ text.points < 2 /\ ParseInt(text) /\ text.digits <= Places
      /\ q = Wrap(text.whole * Scale + Fraction(text))
  BY DEF ParseQuantity
<1>2. text.whole \in 0 .. IntMax
  BY <1>1 DEF ParseInt
<1>3. Fraction(text) \in 0 .. Scale - 1 /\ Scale \in 1 .. IntMax /\ IntMax \in Nat
  BY <1>1, ScaleAssumption, WidthAssumption DEF QuantityTextOK
<1>4. ~(text.whole > (IntMax - Fraction(text)) \div Scale)
  BY <1>1 DEF ValidCoreV2Quantity, CoreV2QuantityOverflows
<1>5. IntMax - Fraction(text) \in Nat /\ (IntMax - Fraction(text)) \div Scale \in Int
  BY <1>3
<1>6. text.whole <= (IntMax - Fraction(text)) \div Scale
  BY <1>2, <1>4, <1>5
<1>7. text.whole * Scale <= IntMax - Fraction(text)
  BY <1>2, <1>3, <1>5, <1>6, DivBound
<1>8. text.whole * Scale \in Nat
  BY <1>2, <1>3
<1>9. Denotes(text) \in Int64
  BY <1>3, <1>7, <1>8 DEF Denotes, Int64, IntMin
<1> QED
  BY <1>1, <1>9, WrapIdentity DEF Denotes

\* A list of results has the domain of its members, and one of each.
LEMMA AllOfMembers ==
    ASSUME NEW results, NEW value \in AllOf(results)
    PROVE  /\ DOMAIN value = DOMAIN results
           /\ \A k \in DOMAIN results : value[k] \in results[k] /\ results[k] # {}
<1>1. \A k \in DOMAIN results : results[k] # {}
  BY DEF AllOf
<1>2. value = [k \in DOMAIN results |-> CHOOSE v \in results[k] : TRUE]
  BY <1>1 DEF AllOf
<1> QED
  BY <1>1, <1>2

\* And its length.
LEMMA AllOfLength ==
    ASSUME NEW list, IsList(list), NEW results, DOMAIN results = DOMAIN list,
           NEW value \in AllOf(results)
    PROVE  Len(value) = Len(list)
<1>1. value = [k \in 1 .. Len(list) |-> CHOOSE v \in results[k] : TRUE] /\ Len(list) \in Nat
  BY DEF AllOf, IsList
<1> QED
  BY <1>1

\* The one member of a set that has at most one.
LEMMA TheMember ==
    ASSUME NEW set, AtMostOne(set), NEW x \in set
    PROVE  (CHOOSE y \in set : TRUE) = x
BY DEF AtMostOne

-----------------------------------------------------------------------------
(* Quantities of a v2 response.                                            *)

\* A strictly parsed position is the number of its text.
LEMMA PositionExact ==
    ASSUME NEW item, AtMostOne(item.quantity),
           \A text \in item.quantity : QuantityTextOK(text),
           NEW position \in CoreParsePosition(item, TRUE)
    PROVE  position.quantity = Denotes(CHOOSE text \in item.quantity : TRUE)
<1>1. PICK text \in item.quantity :
        ValidCoreV2Quantity(text) /\ position.quantity \in ParseQuantity(text)
  BY DEF CoreParsePosition
<1>2. (CHOOSE t \in item.quantity : TRUE) = text
  BY TheMember
<1> QED
  BY <1>1, <1>2, ParsedExactly

\* The positions of a mapped account are those of its item, one by one.
LEMMA AccountPositions ==
    ASSUME NEW item, NEW types, NEW strict, AtMostOne(item.positions),
           NEW account \in MapAccount(item, types, strict)
    PROVE  LET texts == CHOOSE list \in item.positions : TRUE IN
           /\ texts \in item.positions
           /\ account.positions \in AllOf([p \in DOMAIN texts |-> CoreParsePosition(texts[p], strict)])
<1>1. PICK texts \in item.positions :
        account.positions \in AllOf([p \in DOMAIN texts |-> CoreParsePosition(texts[p], strict)])
  BY DEF MapAccount
<1>2. (CHOOSE list \in item.positions : TRUE) = texts
  BY TheMember
<1> QED
  BY <1>1, <1>2

\* A v2 portfolio is mapped with the quantities of its texts.
LEMMA AccountExact ==
    ASSUME NEW item, ItemOK(item), NEW account \in MapCoreV2Portfolio(item)
    PROVE  LET texts == CHOOSE list \in item.positions : TRUE IN
           \A p \in DOMAIN account.positions :
               account.positions[p].quantity = Denotes(CHOOSE text \in texts[p].quantity : TRUE)
<1> DEFINE texts == CHOOSE list \in item.positions : TRUE
           results == [p \in DOMAIN texts |-> CoreParsePosition(texts[p], TRUE)]
<1>1. texts \in item.positions /\ account.positions \in AllOf(results)
  BY AccountPositions DEF MapCoreV2Portfolio, ItemOK
<1>2. DOMAIN account.positions = DOMAIN texts
  BY <1>1, AllOfMembers
<1>3. \A p \in DOMAIN texts : account.positions[p] \in CoreParsePosition(texts[p], TRUE)
  BY <1>1, AllOfMembers
<1>4. \A p \in DOMAIN texts :
        AtMostOne(texts[p].quantity) /\ \A text \in texts[p].quantity : QuantityTextOK(text)
  BY <1>1 DEF ItemOK
<1>5. SUFFICES ASSUME NEW p \in DOMAIN account.positions
      PROVE  account.positions[p].quantity = Denotes(CHOOSE text \in texts[p].quantity : TRUE)
  OBVIOUS
<1>6. account.positions[p] \in CoreParsePosition(texts[p], TRUE)
  BY <1>2, <1>3, <1>5
<1> HIDE DEF texts
<1> QED
  BY <1>2, <1>4, <1>5, <1>6, PositionExact

CoreInv == response \in CoreResponses /\ V2QuantitiesExact

\* Nothing is accepted initially.
LEMMA InitCore == CoreInit => CoreInv
BY DEF CoreInit, CoreInv, V2QuantitiesExact, QuantitiesExact, Accepted

\* A mapped v2 response has the quantities of its texts.
LEMMA NextCore == CoreInv /\ [CoreNext]_coreVars => CoreInv'
<1> SUFFICES ASSUME CoreInv, [CoreNext]_coreVars PROVE CoreInv'
  OBVIOUS
<1>1. CASE UNCHANGED coreVars
  <2>1. response' = response /\ outcome' = outcome /\ accounts' = accounts
    BY <1>1 DEF coreVars
  <2>2. \A k, p : QuantityText(k, p)' = QuantityText(k, p)
    BY <2>1 DEF QuantityText, Texts, Item
  <2>3. Accepted("v2")' <=> Accepted("v2")
    BY <2>1 DEF Accepted
  <2> QED
    BY <2>1, <2>2, <2>3 DEF CoreInv, V2QuantitiesExact, QuantitiesExact
<1>2. CASE CoreNotFound \/ CoreStatusError \/ CoreTooLarge \/ CoreRejected
  BY <1>2 DEF CoreNotFound, CoreStatusError, CoreTooLarge, CoreRejected, Fails,
     CoreInv, V2QuantitiesExact, QuantitiesExact, Accepted
<1>3. CASE CoreMapped
  <2>1. response' = response /\ accounts' \in Translate(response.body)
    BY <1>3 DEF CoreMapped
  <2>2. SUFFICES ASSUME DetectCoreVersion(response.body) = {"v2"} PROVE V2QuantitiesExact'
    BY <2>1 DEF CoreInv, V2QuantitiesExact, QuantitiesExact, Accepted
  <2>3. accounts' \in MapCoreV2(response.body)
    BY <2>1, <2>2 DEF Translate
  <2>4. PICK list \in response.body.list :
          accounts' \in AllOf([k \in DOMAIN list |-> MapCoreV2Portfolio(list[k])])
    BY <2>3 DEF MapCoreV2
  <2>5. /\ (CHOOSE l \in response.body.list : TRUE) = list
        /\ \A k \in DOMAIN list : ItemOK(list[k])
    BY ResponsesAssumption, TheMember DEF CoreInv, ResponseOK
  <2>6. DOMAIN accounts' = DOMAIN list
    BY <2>4, AllOfMembers
  <2>7. \A k \in DOMAIN list : accounts'[k] \in MapCoreV2Portfolio(list[k])
    BY <2>4, AllOfMembers
  <2>8. \A k \in DOMAIN list : \A p \in DOMAIN accounts'[k].positions :
          LET texts == CHOOSE l \in list[k].positions : TRUE IN
          accounts'[k].positions[p].quantity = Denotes(CHOOSE text \in texts[p].quantity : TRUE)
    BY <2>5, <2>7, AccountExact
  <2>9. \A k : Item(k)' = list[k]
    BY <2>1, <2>5 DEF Item
  <2>10. \A k, p : QuantityText(k, p)' =
           LET texts == CHOOSE l \in list[k].positions : TRUE IN CHOOSE text \in texts[p].quantity : TRUE
    BY <2>9 DEF QuantityText, Texts
  <2>11. \A k \in DOMAIN accounts' : \A p \in DOMAIN accounts'[k].positions :
           accounts'[k].positions[p].quantity = Denotes(QuantityText(k, p)')
    BY <2>6, <2>8, <2>10
  <2> QED
    BY <2>11 DEF V2QuantitiesExact, QuantitiesExact, Denotes, Fraction
<1> QED
  BY <1>1, <1>2, <1>3 DEF CoreNext

\* Every quantity of an accepted v2 response is the number its text stands for,
\* for all widths: the range check (client.go:280-291) leaves the parser
\* (money.go:87) nothing that wraps.
THEOREM V2NeverWraps == CoreSpec => []V2QuantitiesExact
<1>1. CoreInv => V2QuantitiesExact
  BY DEF CoreInv
<1> QED
  BY <1>1, InitCore, NextCore, PTL DEF CoreSpec

-----------------------------------------------------------------------------
(* What the v2 path accepts.                                               *)

\* A product within a bound is a factor within the quotient.
LEMMA DivReached == \A a \in Nat, d \in Nat \ {0}, b \in Int : b * d <= a => b <= a \div d
BY SMT

\* The checks of a v2 quantity and the parser together accept the plain decimals
\* in range, and nothing else.
LEMMA QuantityAccepted ==
    ASSUME NEW text, QuantityTextOK(text)
    PROVE  (ValidCoreV2Quantity(text) /\ ParseQuantity(text) # {}) <=> PlainDecimal(text)
<1> DEFINE room == (IntMax - Fraction(text)) \div Scale
<1>1. ASSUME ValidCoreV2Quantity(text), ParseQuantity(text) # {} PROVE PlainDecimal(text)
  <2>1. /\ text.sign # "-" /\ text.points < 2 /\ ParseInt(text) /\ text.digits <= Places
        /\ ~text.padded /\ text.sign # "+" /\ ~(text.points > 0 /\ text.digits = 0)
    BY <1>1 DEF ParseQuantity, ValidCoreV2Quantity
  <2>2. PICK q \in ParseQuantity(text) : q = Denotes(text)
    BY <1>1, ParsedExactly
  <2>3. ~text.junk /\ text.whole \in 0 .. IntMax
    BY <2>1 DEF ParseInt
  <2>4. /\ Fraction(text) \in 0 .. Scale - 1 /\ Scale \in 1 .. IntMax /\ IntMax \in Nat
        /\ text.sign = NoText /\ text.points \in {0, 1} /\ text.digits \in Nat
        /\ text.points = 0 => text.digits = 0
    BY <2>1, ScaleAssumption, WidthAssumption DEF QuantityTextOK
  <2>5. ~(text.whole > room)
    BY <1>1, <2>1 DEF ValidCoreV2Quantity, CoreV2QuantityOverflows
  <2>6. IntMax - Fraction(text) \in Nat /\ room \in Int
    BY <2>4
  <2>7. text.whole * Scale <= IntMax - Fraction(text) /\ text.whole * Scale \in Nat
    BY <2>3, <2>4, <2>5, <2>6, DivBound
  <2>8. Denotes(text) <= IntMax
    BY <2>4, <2>7 DEF Denotes
  <2>9. <<text.points, text.digits>> \in {<<0, 0>>} \cup ({1} \X (1 .. Places))
    BY <2>1, <2>4, ScaleAssumption
  <2> QED
    BY <2>1, <2>3, <2>4, <2>8, <2>9 DEF PlainDecimal
<1>2. ASSUME PlainDecimal(text) PROVE ValidCoreV2Quantity(text) /\ ParseQuantity(text) # {}
  <2>1. /\ ~text.padded /\ ~text.junk /\ text.sign = NoText /\ text.whole \in Nat
        /\ Denotes(text) <= IntMax
        /\ <<text.points, text.digits>> \in {<<0, 0>>} \cup ({1} \X (1 .. Places))
    BY <1>2 DEF PlainDecimal, QuantityTextOK
  <2>2. /\ text.points < 2 /\ text.digits <= Places /\ ~(text.points > 0 /\ text.digits = 0)
    BY <2>1, ScaleAssumption
  <2>3. text.sign # "+" /\ text.sign # "-"
    <3>1. NoText # "+" /\ NoText # "-"
      BY Zenon DEF NoText
    <3> QED
      BY <2>1, <3>1
  <2>4. Fraction(text) \in 0 .. Scale - 1 /\ Scale \in 1 .. IntMax /\ IntMax \in Nat
    BY <2>2, ScaleAssumption, WidthAssumption DEF QuantityTextOK
  <2>5. text.whole * Scale + Fraction(text) <= IntMax /\ text.whole * Scale \in Nat
    BY <2>1, <2>4 DEF Denotes
  <2>6. text.whole * Scale <= IntMax - Fraction(text) /\ IntMax - Fraction(text) \in Nat
    BY <2>4, <2>5
  <2>7. text.whole <= room /\ room \in Int
    BY <2>1, <2>4, <2>6, DivReached
  <2>8. text.whole <= text.whole * Scale
    BY <2>1, <2>4
  <2>9. ParseInt(text)
    BY <2>1, <2>4, <2>5, <2>8 DEF ParseInt
  <2>10. ~CoreV2QuantityOverflows(text)
    BY <2>1, <2>7 DEF CoreV2QuantityOverflows
  <2>11. ValidCoreV2Quantity(text)
    BY <2>1, <2>2, <2>3, <2>10 DEF ValidCoreV2Quantity
  <2>12. ParseQuantity(text) # {}
    BY <2>2, <2>3, <2>9 DEF ParseQuantity
  <2> QED
    BY <2>11, <2>12
<1> QED
  BY <1>1, <1>2

\* A list of results is one exactly if no member failed.
LEMMA AllOfSome ==
    ASSUME NEW results
    PROVE  AllOf(results) # {} <=> \A k \in DOMAIN results : results[k] # {}
BY DEF AllOf

\* A position of a v2 portfolio.
LEMMA PositionAccepted ==
    ASSUME NEW item, \A text \in item.quantity : QuantityTextOK(text)
    PROVE  CoreParsePosition(item, TRUE) # {}
             <=> /\ \E symbol \in item.symbol : symbol # NoText
                 /\ \E text \in item.quantity : PlainDecimal(text)
<1>1. CoreParsePosition(item, TRUE) # {}
        <=> /\ \E symbol \in item.symbol : symbol # NoText
            /\ \E text \in item.quantity : ValidCoreV2Quantity(text) /\ ParseQuantity(text) # {}
  <2> DEFINE symbols == item.symbol \ {NoText}
             texts == {t \in item.quantity : ValidCoreV2Quantity(t)}
             numbers == UNION {ParseQuantity(text) : text \in texts}
             pairs == {[symbol |-> s, quantity |-> q] : s \in symbols, q \in numbers}
  <2>1. CoreParsePosition(item, TRUE) # {} <=> pairs # {}
    BY DEF CoreParsePosition
  <2>2. symbols # {} <=> \E symbol \in item.symbol : symbol # NoText
    OBVIOUS
  <2>3. numbers # {} <=> \E text \in item.quantity : ValidCoreV2Quantity(text) /\ ParseQuantity(text) # {}
    OBVIOUS
  <2> HIDE DEF symbols, numbers
  <2>4. pairs # {} => symbols # {} /\ numbers # {}
    OBVIOUS
  <2>5. ASSUME NEW s \in symbols, NEW q \in numbers PROVE pairs # {}
    <3>1. [symbol |-> s, quantity |-> q] \in pairs
      OBVIOUS
    <3> QED
      BY <3>1
  <2> HIDE DEF pairs, texts
  <2>6. CoreParsePosition(item, TRUE) # {} <=> symbols # {} /\ numbers # {}
    BY <2>1, <2>4, <2>5
  <2> QED
    BY <2>2, <2>3, <2>6
<1> QED
  BY <1>1, QuantityAccepted

\* The cash of a v2 portfolio.
LEMMA MoneyAccepted ==
    ASSUME NEW cash
    PROVE  CoreParseMoney(cash, TRUE) # {}
             <=> \E minor \in cash.minor : \E text \in cash.currency :
                    text.canonical /\ text.length = 3 /\ text.code \in Letters
<1>1. ASSUME CoreParseMoney(cash, TRUE) # {}
      PROVE  \E minor \in cash.minor : \E text \in cash.currency :
                text.canonical /\ text.length = 3 /\ text.code \in Letters
  BY <1>1 DEF CoreParseMoney
<1>2. ASSUME NEW minor \in cash.minor, NEW text \in cash.currency,
             text.canonical, text.length = 3, text.code \in Letters
      PROVE  CoreParseMoney(cash, TRUE) # {}
  <2>1. NewMoney(minor, text) # {}
    BY <1>2 DEF NewMoney
  <2>2. NewMoney(minor, text) \subseteq CoreParseMoney(cash, TRUE)
    BY <1>2 DEF CoreParseMoney
  <2> QED
    BY <2>1, <2>2
<1> QED
  BY <1>1, <1>2

StrictPositions(list) == [k \in DOMAIN list |-> CoreParsePosition(list[k], TRUE)]

\* A portfolio is mapped if each of its members is.
LEMMA AccountParts ==
    ASSUME NEW item
    PROVE  MapCoreV2Portfolio(item) # {}
             <=> /\ \E id \in item.id : id # NoText
                 /\ \E type \in item.type : type \in Categories
                 /\ \E cash \in item.cash : CoreParseMoney(cash, TRUE) # {}
                 /\ \E list \in item.positions : AllOf(StrictPositions(list)) # {}
<1> DEFINE ids == item.id \ {NoText}
           types == item.type \cap Categories
           monies == UNION {CoreParseMoney(cash, TRUE) : cash \in item.cash}
           lists == UNION {AllOf(StrictPositions(list)) : list \in item.positions}
<1>1. MapCoreV2Portfolio(item) =
        {[id |-> id, type |-> type, cash |-> money, positions |-> positions] :
            id \in ids, type \in types, money \in monies, positions \in lists}
  BY DEF MapCoreV2Portfolio, MapAccount, StrictPositions
<1>2. /\ ids # {} <=> \E id \in item.id : id # NoText
      /\ types # {} <=> \E type \in item.type : type \in Categories
  OBVIOUS
<1>3. monies # {} <=> \E cash \in item.cash : CoreParseMoney(cash, TRUE) # {}
  OBVIOUS
<1>4. lists # {} <=> \E list \in item.positions : AllOf(StrictPositions(list)) # {}
  OBVIOUS
<1> HIDE DEF ids, types, monies, lists
<1>5. MapCoreV2Portfolio(item) # {} => ids # {} /\ types # {} /\ monies # {} /\ lists # {}
  BY <1>1
<1>6. ASSUME NEW id \in ids, NEW type \in types, NEW money \in monies, NEW positions \in lists
      PROVE  MapCoreV2Portfolio(item) # {}
  <2>1. [id |-> id, type |-> type, cash |-> money, positions |-> positions]
          \in MapCoreV2Portfolio(item)
    BY <1>1
  <2> QED
    BY <2>1
<1> QED
  BY <1>2, <1>3, <1>4, <1>5, <1>6

\* A v2 portfolio.
LEMMA AccountAccepted ==
    ASSUME NEW item, ItemOK(item)
    PROVE  MapCoreV2Portfolio(item) # {} <=> V2Account(item)
<1>1. MapCoreV2Portfolio(item) # {}
        <=> /\ \E id \in item.id : id # NoText
            /\ \E type \in item.type : type \in Categories
            /\ \E cash \in item.cash : CoreParseMoney(cash, TRUE) # {}
            /\ \E list \in item.positions : AllOf(StrictPositions(list)) # {}
  BY AccountParts
<1>2. ASSUME NEW list \in item.positions
      PROVE  AllOf(StrictPositions(list)) # {}
               <=> \A p \in DOMAIN list : /\ \E symbol \in list[p].symbol : symbol # NoText
                                         /\ \E text \in list[p].quantity : PlainDecimal(text)
  <2>1. AllOf(StrictPositions(list)) # {} <=> \A p \in DOMAIN list : CoreParsePosition(list[p], TRUE) # {}
    <3>1. DOMAIN StrictPositions(list) = DOMAIN list
      BY DEF StrictPositions
    <3>2. \A p \in DOMAIN list : StrictPositions(list)[p] = CoreParsePosition(list[p], TRUE)
      BY DEF StrictPositions
    <3>3. AllOf(StrictPositions(list)) # {} <=> \A p \in DOMAIN StrictPositions(list) : StrictPositions(list)[p] # {}
      BY AllOfSome
    <3> QED
      BY <3>1, <3>2, <3>3
  <2>2. \A p \in DOMAIN list : \A text \in list[p].quantity : QuantityTextOK(text)
    BY DEF ItemOK
  <2> QED
    BY <2>1, <2>2, PositionAccepted
<1>3. \A cash : CoreParseMoney(cash, TRUE) # {}
        <=> \E minor \in cash.minor : \E text \in cash.currency :
               text.canonical /\ text.length = 3 /\ text.code \in Letters
  BY MoneyAccepted
<1> QED
  BY <1>1, <1>2, <1>3 DEF V2Account

\* A body that is not v1.
LEMMA BodyAccepted ==
    ASSUME response \in CoreResponses, DetectCoreVersion(response.body) # {"v1"}
    PROVE  Translate(response.body) # {} <=> V2Contract(response.body)
<1> DEFINE body == response.body
           Results(list) == [k \in DOMAIN list |-> MapCoreV2Portfolio(list[k])]
<1>1. Signature.v1 # Signature.v2
  BY DEF Signature
<1>2. DetectCoreVersion(body) = {} \/ DetectCoreVersion(body) = {"v2"}
  BY <1>1 DEF DetectCoreVersion
<1>3. DetectCoreVersion(body) = {"v2"} => body.json
  BY DEF DetectCoreVersion
<1>4. Translate(body) # {}
        <=> DetectCoreVersion(body) = {"v2"} /\ body.strict /\ MapCoreV2(body) # {}
  BY <1>2 DEF Translate
<1>5. MapCoreV2(body) # {} <=> /\ body.id = {customerID}
                               /\ \E list \in body.list : AllOf(Results(list)) # {}
  BY DEF MapCoreV2
<1>6. ASSUME NEW list \in body.list
      PROVE  AllOf(Results(list)) # {} <=> \A k \in DOMAIN list : V2Account(list[k])
  <2>1. \A k \in DOMAIN list : ItemOK(list[k])
    BY ResponsesAssumption DEF ResponseOK
  <2>2. AllOf(Results(list)) # {} <=> \A k \in DOMAIN list : MapCoreV2Portfolio(list[k]) # {}
    <3>1. DOMAIN Results(list) = DOMAIN list
      OBVIOUS
    <3>2. \A k \in DOMAIN list : Results(list)[k] = MapCoreV2Portfolio(list[k])
      OBVIOUS
    <3>3. AllOf(Results(list)) # {} <=> \A k \in DOMAIN Results(list) : Results(list)[k] # {}
      BY AllOfSome
    <3> QED
      BY <3>1, <3>2, <3>3
  <2> QED
    BY <2>1, <2>2, AccountAccepted
<1> HIDE DEF Results
<1> QED
  BY <1>3, <1>4, <1>5, <1>6 DEF V2Contract

AcceptInv == response \in CoreResponses /\ V2AcceptsExactlyContract

\* Nothing is answered initially.
LEMMA InitAccept == CoreInit => AcceptInv
BY DEF CoreInit, AcceptInv, V2AcceptsExactlyContract

\* A call is answered according to the contract.
LEMMA NextAccept == AcceptInv /\ [CoreNext]_coreVars => AcceptInv'
<1> SUFFICES ASSUME AcceptInv, [CoreNext]_coreVars PROVE AcceptInv'
  OBVIOUS
<1>1. response' = response /\ customerID' = customerID
  BY DEF coreVars, CoreNext, CoreNotFound, CoreStatusError, CoreTooLarge, CoreRejected, CoreMapped, Fails
<1>2. V2Contract(response.body)' <=> V2Contract(response.body)
  BY <1>1 DEF V2Contract, DetectCoreVersion, Signature, V2Account, PlainDecimal, Denotes, Fraction
<1>3. CASE UNCHANGED coreVars
  BY <1>1, <1>2, <1>3 DEF coreVars, AcceptInv, V2AcceptsExactlyContract, DetectCoreVersion, Signature
<1>4. CASE CoreNotFound \/ CoreStatusError
  BY <1>1, <1>4 DEF CoreNotFound, CoreStatusError, Fails, AcceptInv, V2AcceptsExactlyContract
<1>5. CASE CoreTooLarge
  <2>1. outcome' = "failed" /\ ~(response.size <= MaxResponseBytes)
    BY <1>5, LimitAssumption, ResponsesAssumption DEF CoreTooLarge, Fails, AcceptInv, ResponseOK
  <2> QED
    BY <1>1, <2>1 DEF AcceptInv, V2AcceptsExactlyContract
<1>6. CASE CoreRejected
  BY <1>1, <1>2, <1>6, BodyAccepted
  DEF CoreRejected, Fails, AcceptInv, V2AcceptsExactlyContract, DetectCoreVersion, Signature
<1>7. CASE CoreMapped
  BY <1>1, <1>2, <1>7, BodyAccepted
  DEF CoreMapped, AcceptInv, V2AcceptsExactlyContract, DetectCoreVersion, Signature
<1> QED
  BY <1>3, <1>4, <1>5, <1>6, <1>7 DEF CoreNext

\* The v2 path accepts the documented contract (architecture.md:53-56), all of it
\* and nothing else, for every response and every width.
THEOREM V2ContractExact == CoreSpec => []V2AcceptsExactlyContract
<1>1. AcceptInv => V2AcceptsExactlyContract
  BY DEF AcceptInv
<1> QED
  BY <1>1, InitAccept, NextAccept, PTL DEF CoreSpec

-----------------------------------------------------------------------------
(* The two versions agree.                                                 *)

\* A position the strict path accepts, the lenient path maps the same.
LEMMA SamePosition ==
    ASSUME NEW item, AtMostOne(item.quantity), CoreParsePosition(item, TRUE) # {}
    PROVE  CoreParsePosition(item, TRUE) = CoreParsePosition(item, FALSE)
<1>1. PICK text \in item.quantity : ValidCoreV2Quantity(text)
  BY DEF CoreParsePosition
<1>2. item.quantity = {text}
  BY <1>1 DEF AtMostOne
<1>3. {t \in item.quantity : TRUE => ValidCoreV2Quantity(t)}
        = {t \in item.quantity : FALSE => ValidCoreV2Quantity(t)}
  BY <1>1, <1>2
<1> QED
  BY <1>3 DEF CoreParsePosition

\* Cash the strict path accepts, the lenient path maps the same.
LEMMA SameMoney ==
    ASSUME NEW cash, AtMostOne(cash.currency), CoreParseMoney(cash, TRUE) # {}
    PROVE  CoreParseMoney(cash, TRUE) = CoreParseMoney(cash, FALSE)
<1> DEFINE Strict(t) == t.canonical /\ t.length = 3 /\ t.code \in Letters
<1>1. PICK text \in cash.currency : Strict(text)
  BY DEF CoreParseMoney
<1>2. cash.currency = {text}
  BY <1>1 DEF AtMostOne
<1>3. {t \in cash.currency : TRUE => Strict(t)} = {t \in cash.currency : FALSE => Strict(t)}
  BY <1>1, <1>2
<1> QED
  BY <1>3 DEF CoreParseMoney

\* A portfolio the v2 path accepts, the v1 path maps the same under v1 names.
LEMMA SameAccount ==
    ASSUME NEW item, ItemOK(item), MapCoreV2Portfolio(item) # {}
    PROVE  MapCoreV2Portfolio(item) = MapCoreV1Account(item)
<1> DEFINE ids == item.id \ {NoText}
           Monies(strict) == UNION {CoreParseMoney(cash, strict) : cash \in item.cash}
           Results(list, strict) == [k \in DOMAIN list |-> CoreParsePosition(list[k], strict)]
           Lists(strict) == UNION {AllOf(Results(list, strict)) : list \in item.positions}
<1>1. PICK type \in item.type, cash \in item.cash, list \in item.positions :
        type \in Categories /\ CoreParseMoney(cash, TRUE) # {} /\ AllOf(Results(list, TRUE)) # {}
  BY AccountParts DEF StrictPositions
<1>2. item.type = {type} /\ item.cash = {cash} /\ item.positions = {list}
  BY <1>1 DEF ItemOK, AtMostOne
<1>3. item.type \cap Categories = item.type \cap (item.type \ {NoText})
  BY <1>1, <1>2, CategoriesAssumption
<1>4. Monies(TRUE) = Monies(FALSE)
  <2>1. CoreParseMoney(cash, TRUE) = CoreParseMoney(cash, FALSE)
    BY <1>1, SameMoney DEF ItemOK
  <2> QED
    BY <1>2, <2>1
<1>5. Lists(TRUE) = Lists(FALSE)
  <2>1. \A k \in DOMAIN list : Results(list, TRUE)[k] # {}
    BY <1>1, AllOfSome
  <2>2. \A k \in DOMAIN list : CoreParsePosition(list[k], TRUE) # {} /\ AtMostOne(list[k].quantity)
    BY <1>1, <2>1 DEF ItemOK
  <2>3. \A k \in DOMAIN list : CoreParsePosition(list[k], TRUE) = CoreParsePosition(list[k], FALSE)
    BY <2>2, SamePosition
  <2>4. Results(list, TRUE) = Results(list, FALSE)
    BY <2>3
  <2> HIDE DEF Results
  <2> QED
    BY <1>2, <2>4
<1> DEFINE Accounts(types, monies, lists) ==
             {[id |-> id, type |-> t, cash |-> money, positions |-> positions] :
                 id \in ids, t \in types, money \in monies, positions \in lists}
<1>6. MapCoreV2Portfolio(item) = Accounts(item.type \cap Categories, Monies(TRUE), Lists(TRUE))
  BY DEF MapCoreV2Portfolio, MapAccount
<1>7. MapCoreV1Account(item) = Accounts(item.type \cap (item.type \ {NoText}), Monies(FALSE), Lists(FALSE))
  BY DEF MapCoreV1Account, MapAccount
<1> HIDE DEF Accounts, Monies, Lists
<1> QED
  BY <1>3, <1>4, <1>5, <1>6, <1>7

\* Which holds for whole bodies.
LEMMA BodiesAgree == response \in CoreResponses => VersionsAgree
<1> SUFFICES ASSUME response \in CoreResponses, NEW value \in MapCoreV2(response.body)
    PROVE  value \in MapCoreV1(response.body)
  BY DEF VersionsAgree
<1> DEFINE V2(list) == [k \in DOMAIN list |-> MapCoreV2Portfolio(list[k])]
           V1(list) == [k \in DOMAIN list |-> MapCoreV1Account(list[k])]
<1>1. response.body.id = {customerID}
  BY DEF MapCoreV2
<1>2. PICK list \in response.body.list : value \in AllOf(V2(list))
  BY DEF MapCoreV2
<1>3. \A k \in DOMAIN list : MapCoreV2Portfolio(list[k]) # {} /\ ItemOK(list[k])
  BY <1>2, AllOfMembers, ResponsesAssumption DEF ResponseOK
<1>4. \A k \in DOMAIN list : MapCoreV2Portfolio(list[k]) = MapCoreV1Account(list[k])
  BY <1>3, SameAccount
<1>5. V2(list) = V1(list)
  BY <1>4
<1>6. value \in AllOf(V1(list))
  BY <1>2, <1>5
<1> QED
  BY <1>1, <1>6 DEF MapCoreV1

\* A body that keeps to the contract is mapped, under the names of either version.
LEMMA DocumentedMapped ==
    ASSUME response \in CoreResponses, response.body.strict, DetectCoreVersion(response.body) # {},
           response.body.id = {customerID},
           \E list \in response.body.list : \A k \in DOMAIN list : V2Account(list[k])
    PROVE  Translate(response.body) # {}
<1> DEFINE body == response.body
           Results(list) == [k \in DOMAIN list |-> MapCoreV2Portfolio(list[k])]
<1>1. PICK list \in body.list : \A k \in DOMAIN list : V2Account(list[k])
  OBVIOUS
<1>2. \A k \in DOMAIN list : MapCoreV2Portfolio(list[k]) # {}
  BY <1>1, AccountAccepted, ResponsesAssumption DEF ResponseOK
<1>3. AllOf(Results(list)) # {}
  <2>1. DOMAIN Results(list) = DOMAIN list /\ \A k \in DOMAIN list : Results(list)[k] = MapCoreV2Portfolio(list[k])
    OBVIOUS
  <2> HIDE DEF Results
  <2> QED
    BY <1>2, <2>1, AllOfSome
<1>4. MapCoreV2(body) # {}
  BY <1>1, <1>3 DEF MapCoreV2
<1>5. MapCoreV1(body) # {}
  BY <1>4, BodiesAgree DEF VersionsAgree
<1>6. PICK version \in {"v1", "v2"} : version \in DetectCoreVersion(body)
  BY DEF DetectCoreVersion
<1> QED
  BY <1>4, <1>5, <1>6 DEF Translate

\* A switch of Core from v1 to v2 changes no portfolio: every v2 body that is
\* accepted maps to the accounts its v1 counterpart maps to.
THEOREM SwitchIsInvisible == CoreSpec => []VersionsAgree
<1>1. CoreInit => response \in CoreResponses
  BY DEF CoreInit
<1>2. response \in CoreResponses /\ [CoreNext]_coreVars => (response \in CoreResponses)'
  BY DEF coreVars, CoreNext, CoreNotFound, CoreStatusError, CoreTooLarge, CoreRejected, CoreMapped, Fails
<1> QED
  BY <1>1, <1>2, BodiesAgree, PTL DEF CoreSpec

-----------------------------------------------------------------------------
(* What a mapped response is made of.                                      *)

\* A position made of an item: its symbol, and the quantity of its text, wrapped.
PositionOf(position, item) ==
    /\ position = [symbol |-> position.symbol, quantity |-> position.quantity]
    /\ item.symbol = {position.symbol}
    /\ position.quantity \in Int64
    /\ \A text \in item.quantity : Denotes(text) \in Nat /\ position.quantity = Wrap(Denotes(text))

\* Cash made of its members: the amount, and the currency in the form that
\* trimming and upper-casing give it.
MoneyOf(money, cash) ==
    /\ money = [minor |-> money.minor, currency |-> money.currency]
    /\ cash.minor = {money.minor}
    /\ \E text : cash.currency = {text} /\ text.length = 3 /\ money.currency = text.code

\* An account made of an item, with all its positions in order.
MadeOf(account, item) ==
    /\ account = [id |-> account.id, type |-> account.type, cash |-> account.cash,
                  positions |-> account.positions]
    /\ item.id = {account.id} /\ item.type = {account.type}
    /\ \E cash : item.cash = {cash} /\ MoneyOf(account.cash, cash)
    /\ \E texts : /\ item.positions = {texts} /\ IsList(texts)
                  /\ account.positions = [p \in 1 .. Len(texts) |-> account.positions[p]]
                  /\ \A p \in DOMAIN texts : PositionOf(account.positions[p], texts[p])

\* Cash has the amount and the currency of its members, whichever the version.
LEMMA MoneyMade ==
    ASSUME NEW cash, AtMostOne(cash.minor), AtMostOne(cash.currency),
           NEW strict, NEW money \in CoreParseMoney(cash, strict)
    PROVE  MoneyOf(money, cash)
<1>1. PICK minor \in cash.minor, text \in cash.currency : money \in NewMoney(minor, text)
  BY DEF CoreParseMoney
<1>2. money = [minor |-> minor, currency |-> text.code] /\ text.length = 3
  BY <1>1 DEF NewMoney
<1>3. cash.minor = {minor} /\ cash.currency = {text}
  BY <1>1 DEF AtMostOne
<1> QED
  BY <1>2, <1>3 DEF MoneyOf

\* A position has the symbol and the quantity of its members, if by wrapping.
LEMMA PositionMade ==
    ASSUME NEW item, AtMostOne(item.symbol), AtMostOne(item.quantity),
           \A text \in item.quantity : QuantityTextOK(text),
           NEW strict, NEW position \in CoreParsePosition(item, strict)
    PROVE  PositionOf(position, item)
<1>1. PICK text \in item.quantity : position.quantity \in ParseQuantity(text)
  BY DEF CoreParsePosition
<1>2. /\ position = [symbol |-> position.symbol, quantity |-> position.quantity]
      /\ position.symbol \in item.symbol
  BY DEF CoreParsePosition
<1>3. text.digits <= Places /\ position.quantity = Wrap(Denotes(text))
  BY <1>1 DEF ParseQuantity, Denotes
<1>4. Denotes(text) \in Nat
  <2>1. text.whole \in Nat
    BY <1>1, WidthAssumption DEF ParseQuantity, ParseInt
  <2>2. Fraction(text) \in Nat
    BY <1>3, ScaleAssumption DEF QuantityTextOK
  <2>3. text.whole * Scale \in Nat
    BY <2>1, ScaleAssumption
  <2> QED
    BY <2>2, <2>3 DEF Denotes
<1>5. position.quantity \in Int64
  BY <1>3, <1>4, WrapRange
<1> QED
  BY <1>2, <1>3, <1>4, <1>5 DEF PositionOf, AtMostOne

\* Whichever version it comes from, an account is made of its item.
LEMMA MappedAccount ==
    ASSUME NEW item, ItemOK(item), NEW types, NEW strict,
           NEW account \in MapAccount(item, types, strict)
    PROVE  MadeOf(account, item)
<1>1. /\ account = [id |-> account.id, type |-> account.type, cash |-> account.cash,
                    positions |-> account.positions]
      /\ item.id = {account.id} /\ item.type = {account.type}
  BY DEF MapAccount, ItemOK, AtMostOne
<1>2. PICK cash \in item.cash : account.cash \in CoreParseMoney(cash, strict)
  BY DEF MapAccount
<1>3. item.cash = {cash} /\ MoneyOf(account.cash, cash)
  BY <1>2, MoneyMade DEF ItemOK, AtMostOne
<1>4. PICK texts \in item.positions :
        account.positions \in AllOf([p \in DOMAIN texts |-> CoreParsePosition(texts[p], strict)])
  BY DEF MapAccount
<1>5. item.positions = {texts} /\ IsList(texts)
  BY <1>4 DEF ItemOK, AtMostOne
<1>6. DOMAIN account.positions = 1 .. Len(texts)
  BY <1>4, <1>5, AllOfMembers DEF IsList
<1>7. account.positions = [p \in 1 .. Len(texts) |-> account.positions[p]]
  BY <1>4, <1>5, <1>6 DEF AllOf, IsList
<1>8. ASSUME NEW p \in DOMAIN texts PROVE PositionOf(account.positions[p], texts[p])
  <2>1. account.positions[p] \in CoreParsePosition(texts[p], strict)
    BY <1>4, AllOfMembers
  <2>2. /\ AtMostOne(texts[p].symbol) /\ AtMostOne(texts[p].quantity)
        /\ \A text \in texts[p].quantity : QuantityTextOK(text)
    BY <1>4 DEF ItemOK
  <2> QED
    BY <2>1, <2>2, PositionMade
<1> QED
  BY <1>1, <1>3, <1>5, <1>7, <1>8 DEF MadeOf

\* Its members, as the properties name them.
LEMMA MembersOf ==
    ASSUME NEW account, NEW item, MadeOf(account, item)
    PROVE  LET texts == CHOOSE list \in item.positions : TRUE IN
           /\ Len(account.positions) = Len(texts)
           /\ DOMAIN account.positions = DOMAIN texts
           /\ \A p \in DOMAIN texts : PositionOf(account.positions[p], texts[p])
<1>1. PICK texts : /\ item.positions = {texts} /\ IsList(texts)
                   /\ account.positions = [p \in 1 .. Len(texts) |-> account.positions[p]]
                   /\ \A p \in DOMAIN texts : PositionOf(account.positions[p], texts[p])
  BY DEF MadeOf
<1>2. (CHOOSE list \in item.positions : TRUE) = texts
  BY <1>1
<1>3. Len(account.positions) = Len(texts) /\ DOMAIN account.positions = DOMAIN texts
  BY <1>1 DEF IsList
<1> QED
  BY <1>1, <1>2, <1>3

\* A response that is accepted has the customer's id and a list of the accounts'
\* items.
LEMMA TranslatedWhole ==
    ASSUME NEW r \in CoreResponses, NEW value \in Translate(r.body)
    PROVE  /\ r.body.id = {customerID}
           /\ \A list \in r.body.list :
                /\ Len(value) = Len(list) /\ value = [k \in 1 .. Len(list) |-> value[k]]
                /\ \A k \in DOMAIN list : MadeOf(value[k], list[k])
<1> DEFINE V1(list) == [k \in DOMAIN list |-> MapCoreV1Account(list[k])]
           V2(list) == [k \in DOMAIN list |-> MapCoreV2Portfolio(list[k])]
<1>1. value \in MapCoreV1(r.body) \/ value \in MapCoreV2(r.body)
  BY DEF Translate
<1>2. /\ r.body.id = {customerID}
      /\ \E list \in r.body.list : value \in AllOf(V1(list)) \/ value \in AllOf(V2(list))
  BY <1>1 DEF MapCoreV1, MapCoreV2
<1> SUFFICES ASSUME NEW list \in r.body.list
    PROVE  /\ Len(value) = Len(list) /\ value = [k \in 1 .. Len(list) |-> value[k]]
           /\ \A k \in DOMAIN list : MadeOf(value[k], list[k])
  BY <1>2
<1>3. /\ value \in AllOf(V1(list)) \/ value \in AllOf(V2(list))
      /\ IsList(list) /\ \A k \in DOMAIN list : ItemOK(list[k])
  BY <1>2, ResponsesAssumption DEF AtMostOne, ResponseOK
<1>4. Len(value) = Len(list) /\ value = [k \in 1 .. Len(list) |-> value[k]]
  <2>1. Len(value) = Len(list) /\ DOMAIN value = DOMAIN list
    BY <1>3, AllOfLength, AllOfMembers
  <2>2. value = [k \in DOMAIN list |-> value[k]]
    BY <1>3, <2>1 DEF AllOf
  <2> QED
    BY <1>3, <2>1, <2>2 DEF IsList
<1>5. ASSUME NEW k \in DOMAIN list PROVE MadeOf(value[k], list[k])
  <2>1. value[k] \in MapCoreV1Account(list[k]) \/ value[k] \in MapCoreV2Portfolio(list[k])
    BY <1>3, AllOfMembers
  <2> QED
    BY <1>3, <2>1, MappedAccount DEF MapCoreV1Account, MapCoreV2Portfolio
<1> QED
  BY <1>4, <1>5

\* Accounts are those of the response, or there are none.
WholeInv ==
    /\ response \in CoreResponses
    /\ outcome = "accounts" => /\ accounts \in Translate(response.body)
                               /\ response.body.list # {}
    /\ outcome # "accounts" => accounts = <<>>

\* The call keeps that.
LEMMA NextWhole == WholeInv /\ [CoreNext]_coreVars => WholeInv'
<1> SUFFICES ASSUME WholeInv, [CoreNext]_coreVars PROVE WholeInv'
  OBVIOUS
<1>1. response' = response /\ customerID' = customerID
  BY DEF coreVars, CoreNext, CoreNotFound, CoreStatusError, CoreTooLarge, CoreRejected, CoreMapped, Fails
<1>2. Translate(response.body)' = Translate(response.body)
  BY <1>1 DEF Translate, MapCoreV1, MapCoreV2, DetectCoreVersion, Signature
<1>3. CASE UNCHANGED coreVars
  BY <1>1, <1>2, <1>3 DEF coreVars, WholeInv
<1>4. CASE CoreNotFound \/ CoreStatusError \/ CoreTooLarge \/ CoreRejected
  BY <1>1, <1>4 DEF CoreNotFound, CoreStatusError, CoreTooLarge, CoreRejected, Fails, WholeInv
<1>5. CASE CoreMapped
  <2>1. accounts' \in Translate(response.body) /\ outcome' = "accounts"
    BY <1>5 DEF CoreMapped
  <2>2. response.body.list # {}
    BY <2>1 DEF Translate, MapCoreV1, MapCoreV2
  <2> QED
    BY <1>1, <1>2, <2>1, <2>2 DEF WholeInv
<1> QED
  BY <1>3, <1>4, <1>5 DEF CoreNext

\* The items a mapped response is read from.
LEMMA ItemsOfAccounts ==
    ASSUME WholeInv, outcome = "accounts"
    PROVE  /\ response.body.id = {customerID}
           /\ \A list \in response.body.list : Len(accounts) = Len(list)
           /\ \A k \in DOMAIN accounts : MadeOf(accounts[k], Item(k))
<1>1. PICK list \in response.body.list : (CHOOSE l \in response.body.list : TRUE) = list
  BY DEF WholeInv
<1> QED
  BY <1>1, TranslatedWhole DEF WholeInv, Item

\* The adapter returns the customer's accounts whole, with every position and in
\* order, for every response of either version (client.go:296-402).
THEOREM ResponsesMappedWhole == CoreSpec => []MappedWhole
<1>1. CoreInit => WholeInv
  BY DEF CoreInit, WholeInv
<1>2. WholeInv => MappedWhole
  <2> SUFFICES ASSUME WholeInv, outcome = "accounts" PROVE MappedWhole
    BY DEF MappedWhole
  <2>1. /\ response.body.id = {customerID}
        /\ \A list \in response.body.list : Len(accounts) = Len(list)
        /\ \A k \in DOMAIN accounts : MadeOf(accounts[k], Item(k))
    BY ItemsOfAccounts
  <2>2. \A k \in DOMAIN accounts : Item(k).id = {accounts[k].id}
    BY <2>1 DEF MadeOf
  <2>3. ASSUME NEW k \in DOMAIN accounts
        PROVE  /\ Len(accounts[k].positions) = Len(Texts(k))
               /\ \A p \in DOMAIN Texts(k) : Texts(k)[p].symbol = {accounts[k].positions[p].symbol}
    <3>1. MadeOf(accounts[k], Item(k))
      BY <2>1
    <3>2. /\ Len(accounts[k].positions) = Len(Texts(k))
          /\ \A p \in DOMAIN Texts(k) : PositionOf(accounts[k].positions[p], Texts(k)[p])
      BY <3>1, MembersOf DEF Texts
    <3> QED
      BY <3>2 DEF PositionOf
  <2> QED
    BY <2>1, <2>2, <2>3 DEF MappedWhole
<1> QED
  BY <1>1, <1>2, NextWhole, PTL DEF CoreSpec

\* The public text of every quantity that left the adapter unwrapped is read
\* back as that quantity, for every width and number of places (money.go:90-97).
THEOREM QuantityTextsReadBack == CoreSpec => []QuantitiesReadBack
<1>1. CoreInit => WholeInv
  BY DEF CoreInit, WholeInv
<1>2. WholeInv => QuantitiesReadBack
  <2> SUFFICES ASSUME WholeInv, NEW k \in DOMAIN accounts, NEW p \in DOMAIN accounts[k].positions,
                      accounts[k].positions[p].quantity >= 0
      PROVE  LET q == accounts[k].positions[p].quantity
             IN  ParseQuantity(QuantityString(q)) = {q}
    BY DEF QuantitiesReadBack
  <2>1. accounts[k].positions[p].quantity \in Int64
    <3>1. outcome = "accounts"
      BY DEF WholeInv
    <3>2. MadeOf(accounts[k], Item(k))
      BY <3>1, ItemsOfAccounts
    <3> QED
      BY <3>2, MembersOf DEF PositionOf
  <2>2. accounts[k].positions[p].quantity \in 0 .. IntMax
    BY <2>1, WidthAssumption DEF Int64, IntMin
  <2> QED
    BY <2>2, ReadsBack
<1> QED
  BY <1>1, <1>2, NextWhole, PTL DEF CoreSpec

=============================================================================
