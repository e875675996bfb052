----------------------------- MODULE CoreAdapter -----------------------------
(***************************************************************************)
(* CoreClient.Accounts: from a Core response to domain accounts.           *)
(*                                                                         *)
(* A response has a status and a body.  Of the body the adapter sees its   *)
(* size, whether it is one JSON value, its top-level keys, whether every   *)
(* member is known and well typed (strict), and the members.  A member     *)
(* that is missing or null is the empty set, one that is present is a      *)
(* singleton; balances without cash and no balances at all are one case.   *)
(* v1 and v2 name the same members differently.                            *)
(***************************************************************************)
EXTENDS Domain, Sequences

CONSTANTS
    MaxResponseBytes,   \* maxResponseBytes
    Categories,         \* coreCategories
    Customers,          \* the customers Accounts is called for
    CoreResponses       \* the responses Core can send

NoText == ""

AtMostOne(set) == \A x, y \in set : x = y

\* A JSON array.
IsList(list) == Len(list) \in Nat /\ DOMAIN list = 1 .. Len(list)

\* A quantity text has digits behind a point only, and they stand for less than
\* one when they fit.
QuantityTextOK(text) ==
    /\ text.sign \in {NoText, "+", "-"}
    /\ text.whole \in Int /\ text.points \in Nat /\ text.digits \in Nat
    /\ text.points = 0 => text.digits = 0
    /\ text.digits <= Places => Fraction(text) \in 0 .. Scale - 1

\* A member is there once or not at all.
ItemOK(item) ==
    /\ AtMostOne(item.id) /\ AtMostOne(item.type) /\ AtMostOne(item.positions)
    /\ AtMostOne(item.cash)
    /\ \A cash \in item.cash : AtMostOne(cash.minor) /\ AtMostOne(cash.currency)
    /\ \A texts \in item.positions : IsList(texts) /\ \A p \in DOMAIN texts :
          /\ AtMostOne(texts[p].symbol) /\ AtMostOne(texts[p].quantity)
          /\ \A text \in texts[p].quantity : QuantityTextOK(text)

ResponseOK(r) ==
    /\ r.size \in Nat
    /\ AtMostOne(r.body.list)
    /\ \A list \in r.body.list : IsList(list) /\ \A k \in DOMAIN list : ItemOK(list[k])

ASSUME LimitAssumption == MaxResponseBytes \in Nat
ASSUME CategoriesAssumption == NoText \notin Categories
ASSUME ResponsesAssumption == \A r \in CoreResponses : ResponseOK(r)

VARIABLES
    customerID, \* the customer asked for
    response,   \* Core's response
    outcome,    \* pending, accounts, notFound or failed
    accounts    \* the mapped accounts

coreVars == <<customerID, response, outcome, accounts>>

\* Bug: a member that is an error is left out.
AllOfSkipping(results) ==
    LET good == SelectSeq(results, LAMBDA result : result # {})
    IN  {[k \in DOMAIN good |-> CHOOSE v \in good[k] : TRUE]}

\* All members of a sequence of results, or an error if one of them is one.
AllOf(results) ==
    IF \A k \in DOMAIN results : results[k] # {}
    THEN {[k \in DOMAIN results |-> CHOOSE v \in results[k] : TRUE]}
    ELSE {}

-----------------------------------------------------------------------------
(* Contract signature.                                                     *)

Signature == [v1 |-> {"customer_id", "accounts"}, v2 |-> {"client", "portfolios"}]

\* One signature complete, the other absent: a mixture is neither.
DetectCoreVersion(body) ==
    {version \in {"v1", "v2"} :
        body.json /\ body.keys \cap (Signature.v1 \cup Signature.v2) = Signature[version]}

-----------------------------------------------------------------------------
(* Members.                                                                *)

\* Bug: the fraction is forgotten in the range check.
CoreV2QuantityOverflowsWhole(text) ==
    ParseInt(text) /\ text.digits <= Places /\ text.points < 2
        /\ text.whole > IntMax \div Scale

\* Bug: the largest whole number is taken to overflow.
CoreV2QuantityOverflowsEarly(text) ==
    ParseInt(text) /\ text.digits <= Places /\ text.points < 2
        /\ text.whole >= (IntMax - Fraction(text)) \div Scale

CoreV2QuantityOverflows(text) ==
    /\ ParseInt(text)
    /\ text.sign # "-" \/ text.whole = 0
    /\ text.digits <= Places
    /\ text.points < 2
    /\ text.whole > (IntMax - Fraction(text)) \div Scale

ValidCoreV2Quantity(text) ==
    /\ ~text.padded
    /\ text.sign # "+"
    /\ ~(text.points > 0 /\ text.digits = 0)
    /\ ~CoreV2QuantityOverflows(text)

CoreParseMoney(cash, strictCurrency) ==
    UNION {NewMoney(minor, text) : minor \in cash.minor,
           text \in {t \in cash.currency :
               strictCurrency => t.canonical /\ t.length = 3 /\ t.code \in Letters}}

CoreParsePosition(item, strictQuantity) ==
    {[symbol |-> s, quantity |-> q] :
        s \in item.symbol \ {NoText},
        q \in UNION {ParseQuantity(text) :
                text \in {t \in item.quantity : strictQuantity => ValidCoreV2Quantity(t)}}}

\* One account, from a v1 account or a v2 portfolio whose type passed its check.
MapAccount(item, types, strict) ==
    {[id |-> id, type |-> type, cash |-> money, positions |-> positions] :
        id \in item.id \ {NoText},
        type \in item.type \cap types,
        money \in UNION {CoreParseMoney(cash, strict) : cash \in item.cash},
        positions \in UNION {AllOf([k \in DOMAIN list |-> CoreParsePosition(list[k], strict)]) :
                        list \in item.positions}}

MapCoreV1Account(item) == MapAccount(item, item.type \ {NoText}, FALSE)

\* Bug: the category of a v2 portfolio is not looked up.
MapCoreV2PortfolioAnyCategory(item) == MapAccount(item, item.type, TRUE)

MapCoreV2Portfolio(item) == MapAccount(item, Categories, TRUE)

MapCoreV1(body) ==
    IF body.id = {customerID}
    THEN UNION {AllOf([k \in DOMAIN list |-> MapCoreV1Account(list[k])]) : list \in body.list}
    ELSE {}

MapCoreV2(body) ==
    IF body.id = {customerID}
    THEN UNION {AllOf([k \in DOMAIN list |-> MapCoreV2Portfolio(list[k])]) : list \in body.list}
    ELSE {}

\* Detection, strict decoding and mapping of a body that was read whole.
Translate(body) ==
    UNION {IF ~body.strict THEN {} ELSE IF version = "v1" THEN MapCoreV1(body) ELSE MapCoreV2(body) :
             version \in DetectCoreVersion(body)}

-----------------------------------------------------------------------------
(* The call.                                                               *)

CoreInit ==
    /\ customerID \in Customers
    /\ response \in CoreResponses
    /\ outcome = "pending"
    /\ accounts = <<>>

Fails(kind) == outcome' = kind /\ UNCHANGED <<customerID, response, accounts>>

CoreNotFound ==
    /\ outcome = "pending"
    /\ response.status = 404
    /\ Fails("notFound")

CoreStatusError ==
    /\ outcome = "pending"
    /\ response.status \notin {200, 404}
    /\ Fails("failed")

\* readBoundedBody
CoreTooLarge ==
    /\ outcome = "pending"
    /\ response.status = 200
    /\ response.size > MaxResponseBytes
    /\ Fails("failed")

CoreRejected ==
    /\ outcome = "pending"
    /\ response.status = 200
    /\ response.size <= MaxResponseBytes
    /\ Translate(response.body) = {}
    /\ Fails("failed")

CoreMapped ==
    /\ outcome = "pending"
    /\ response.status = 200
    /\ response.size <= MaxResponseBytes
    /\ \E list \in Translate(response.body) : accounts' = list
    /\ outcome' = "accounts"
    /\ UNCHANGED <<customerID, response>>

CoreNext == CoreNotFound \/ CoreStatusError \/ CoreTooLarge \/ CoreRejected \/ CoreMapped

CoreSpec == CoreInit /\ [][CoreNext]_coreVars

-----------------------------------------------------------------------------
(* Properties.                                                             *)

Accepted(version) ==
    outcome = "accounts" /\ DetectCoreVersion(response.body) = {version}

\* The member of a payload an account of the result was made from.
Item(k) == (CHOOSE list \in response.body.list : TRUE)[k]
Texts(k) == CHOOSE list \in Item(k).positions : TRUE
QuantityText(k, p) == CHOOSE text \in Texts(k)[p].quantity : TRUE

\* The number a quantity text stands for, in millionths.
Denotes(text) == text.whole * Scale + Fraction(text)

\* A quantity of an accepted response is the number its text stands for.
QuantitiesExact(version) ==
    Accepted(version) =>
        \A k \in DOMAIN accounts : \A p \in DOMAIN accounts[k].positions :
            accounts[k].positions[p].quantity = Denotes(QuantityText(k, p))

\* The strict v2 path never lets a quantity wrap: its range check
\* (client.go:280-291) and the parser (money.go:87) agree on the limit.
V2QuantitiesExact == QuantitiesExact("v2")

\* ADR-002:14-15 asks for exact quantities of every accepted response.  The v1
\* path has no range check.
V1QuantitiesExact == QuantitiesExact("v1")

\* The v2 contract, written down apart from the code that checks it.
PlainDecimal(text) ==
    /\ ~text.padded /\ ~text.junk /\ text.sign = NoText /\ text.whole >= 0
    /\ <<text.points, text.digits>> \in {<<0, 0>>} \cup ({1} \X (1 .. Places))
    /\ Denotes(text) <= IntMax

V2Account(item) ==
    /\ \E id \in item.id : id # NoText
    /\ \E type \in item.type : type \in Categories
    /\ \E cash \in item.cash : \E minor \in cash.minor : \E text \in cash.currency :
          text.canonical /\ text.length = 3 /\ text.code \in Letters
    /\ \E list \in item.positions : \A p \in DOMAIN list :
          /\ \E symbol \in list[p].symbol : symbol # NoText
          /\ \E text \in list[p].quantity : PlainDecimal(text)

V2Contract(body) ==
    /\ body.json /\ body.strict
    /\ DetectCoreVersion(body) = {"v2"}
    /\ body.id = {customerID}
    /\ \E list \in body.list : \A k \in DOMAIN list : V2Account(list[k])

\* The v2 path accepts exactly the documented contract (architecture.md:53-56):
\* nothing malformed gets through its many checks, and nothing well formed is
\* turned away, up to the largest body and the largest quantity.
V2AcceptsExactlyContract ==
    outcome # "pending" /\ response.status = 200
        /\ DetectCoreVersion(response.body) # {"v1"} =>
            (outcome = "accounts"
                <=> response.size <= MaxResponseBytes /\ V2Contract(response.body))

\* An accepted response is of the customer asked for and is mapped whole: every
\* account and every position, in the payload's order.
MappedWhole ==
    outcome = "accounts" =>
        /\ response.body.id = {customerID}
        /\ \A list \in response.body.list : Len(accounts) = Len(list)
        /\ \A k \in DOMAIN accounts :
              /\ Item(k).id = {accounts[k].id}
              /\ Len(accounts[k].positions) = Len(Texts(k))
              /\ \A p \in DOMAIN Texts(k) : Texts(k)[p].symbol = {accounts[k].positions[p].symbol}

\* The same members under v2 names map to the same accounts as under v1 names:
\* a switch of Core to v2 changes no portfolio.
VersionsAgree == MapCoreV2(response.body) \subseteq MapCoreV1(response.body)

\* The public text of a quantity (money.go:90-97) is one the parser reads as the
\* same quantity: trimmed zeros never change it, unless v1 let it wrap below zero.
QuantitiesReadBack ==
    \A k \in DOMAIN accounts : \A p \in DOMAIN accounts[k].positions :
        LET q == accounts[k].positions[p].quantity
        IN  q >= 0 => ParseQuantity(QuantityString(q)) = {q}

=============================================================================
