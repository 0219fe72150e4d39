------------------------ MODULE OrderLifecycleProofs ------------------------
(***************************************************************************)
(* The order saga for every set of orders, requests, foreign records and   *)
(* threads, every number of attempts and faults, and every width of the    *)
(* integers.                                                               *)
(***************************************************************************)
EXTENDS OrderLifecycle, SequenceTheorems, NaturalsInduction, WellFoundedInduction, TLAPS

-----------------------------------------------------------------------------
(* What Money computes, and that the mappers agree.                         *)

(* Reducing a number that is a remainder already changes nothing.          *)
LEMMA ModOfRemainder ==
    ASSUME NEW m \in Nat, m > 0, NEW x \in 0..(m - 1)
    PROVE  x % m = x
  OBVIOUS

(* A number that fits the type survives the conversion.                    *)
LEMMA WrapInside ==
    ASSUME NEW max \in Nat, NEW n \in -(max + 1)..max
    PROVE  Wrap(n, max) = n
<1> DEFINE m == 2 * (max + 1)
           x == n + max + 1
<1>1. m \in Nat /\ m > 0 /\ x \in 0..(m - 1)
  OBVIOUS
<1> HIDE DEF m, x
<1>2. x % m = x
  BY <1>1, ModOfRemainder
<1>3. Wrap(n, max) = (x % m) - (max + 1)
  BY DEF Wrap, x, m
<1> QED
  BY <1>2, <1>3 DEF x

(* The conversion gives a number of the type.                              *)
LEMMA WrapType ==
    ASSUME NEW max \in Nat, NEW n \in Int
    PROVE  Wrap(n, max) \in -(max + 1)..max
<1> DEFINE m == 2 * (max + 1)
           x == n + max + 1
<1>1. m \in Nat /\ m > 0 /\ x \in Int
  OBVIOUS
<1> HIDE DEF m, x
<1>2. x % m \in 0..(m - 1)
  BY <1>1
<1>3. Wrap(n, max) = (x % m) - (max + 1)
  BY DEF Wrap, x, m
<1> QED
  BY <1>2, <1>3 DEF m

(* operator+ of Money returns the exact sum whenever the currencies agree  *)
(* and the sum fits, and an error in every other case; the addition itself *)
(* never overflows.                                                        *)
THEOREM PlusIsExact ==
    ASSUME NEW a \in Money, NEW b \in Money
    PROVE  IF /\ a.currency.code = b.currency.code
              /\ a.minorUnits + b.minorUnits <= Int64Max
           THEN /\ Plus(a, b) = [minorUnits |-> a.minorUnits + b.minorUnits,
                                 currency |-> a.currency]
                /\ Plus(a, b) \in Money
           ELSE Plus(a, b) \in {Error("DifferentCurrencies"), Error("Overflow")}
<1>1. /\ Int64Max \in Nat /\ a.minorUnits \in 0..Int64Max /\ b.minorUnits \in 0..Int64Max
      /\ a.currency \in Currency
  BY WidthAssumption DEF Money
<1>2. CASE a.currency.code # b.currency.code
  BY <1>2 DEF Plus
<1>3. CASE a.currency.code = b.currency.code /\ a.minorUnits + b.minorUnits > Int64Max
  <2>1. a.minorUnits > Int64Max - b.minorUnits
    BY <1>1, <1>3
  <2> QED
    BY <1>1, <1>3, <2>1 DEF Plus
<1>4. CASE a.currency.code = b.currency.code /\ a.minorUnits + b.minorUnits <= Int64Max
  <2>1. ~(a.minorUnits > Int64Max - b.minorUnits)
    BY <1>1, <1>4
  <2>2. a.minorUnits + b.minorUnits \in 0..Int64Max
    BY <1>1, <1>4
  <2>3. Wrap(a.minorUnits + b.minorUnits, Int64Max) = a.minorUnits + b.minorUnits
    BY <1>1, <2>2, WrapInside
  <2>4. Plus(a, b) = [minorUnits |-> a.minorUnits + b.minorUnits, currency |-> a.currency]
    BY <1>4, <2>1, <2>3 DEF Plus
  <2>5. Plus(a, b) \in Money
    BY <1>1, <2>2, <2>4 DEF Money
  <2> QED
    BY <1>4, <2>4, <2>5
<1> QED
  BY <1>1, <1>2, <1>3, <1>4

(* operator- takes back what operator+ added: whenever a sum exists, it    *)
(* minus its second part is its first.                                     *)
THEOREM MinusUndoesPlus ==
    ASSUME NEW a \in Money, NEW b \in Money,
           a.currency.code = b.currency.code,
           a.minorUnits + b.minorUnits <= Int64Max
    PROVE  Minus(Plus(a, b), b) = a
<1> DEFINE sum == a.minorUnits + b.minorUnits
<1>1. Int64Max \in Nat
  BY WidthAssumption
<1>2. /\ a.minorUnits \in 0..Int64Max /\ b.minorUnits \in 0..Int64Max
      /\ a = [minorUnits |-> a.minorUnits, currency |-> a.currency]
  BY DEF Money
<1>3. Plus(a, b) = [minorUnits |-> sum, currency |-> a.currency]
  BY PlusIsExact
<1>4. ~(sum < b.minorUnits) /\ sum - b.minorUnits = a.minorUnits
  BY <1>1, <1>2
<1>5. Wrap(a.minorUnits, Int64Max) = a.minorUnits
  <2>1. a.minorUnits \in -(Int64Max + 1)..Int64Max
    BY <1>1, <1>2
  <2> QED
    BY <1>1, <2>1, WrapInside
<1> HIDE DEF sum
<1>6. Minus(Plus(a, b), b) = [minorUnits |-> a.minorUnits, currency |-> a.currency]
  BY <1>3, <1>4, <1>5 DEF Minus
<1> QED
  BY <1>2, <1>6

(* The test of operator* is exact: a > max / q says that a * q > max.      *)
LEMMA DivisionTest ==
    ASSUME NEW max \in Nat, NEW q \in Nat, q > 0, NEW a \in Nat
    PROVE  (a > max \div q) <=> (a * q > max)
<1> DEFINE d == max \div q
           m == max % q
<1>1. d \in Nat /\ m \in 0..(q - 1) /\ max = q * d + m
  OBVIOUS
<1> HIDE DEF d, m
<1>2. ASSUME a > d PROVE a * q > max
  <2>1. a >= d + 1
    BY <1>1, <1>2
  <2>2. a * q >= (d + 1) * q
    BY <1>1, <2>1
  <2>3. (d + 1) * q = q * d + q
    BY <1>1
  <2> QED
    BY <1>1, <2>2, <2>3
<1>3. ASSUME a <= d PROVE a * q <= max
  <2>1. a * q <= d * q
    BY <1>1, <1>3
  <2>2. d * q = q * d
    BY <1>1
  <2> QED
    BY <1>1, <2>1, <2>2
<1>4. (a > d) <=> (a * q > max)
  BY <1>1, <1>2, <1>3
<1> QED
  BY <1>4 DEF d

(* operator* of Money with the quantity of an item returns the exact       *)
(* product when it fits and Overflow when it does not; the multiplication  *)
(* itself never overflows.                                                 *)
THEOREM TimesIsExact ==
    ASSUME NEW a \in Money, NEW q \in 1..Int32Max
    PROVE  IF a.minorUnits * q <= Int64Max
           THEN /\ Times(a, q) = [minorUnits |-> a.minorUnits * q, currency |-> a.currency]
                /\ Times(a, q) \in Money
           ELSE Times(a, q) = Error("Overflow")
<1>a. Int64Max \in Nat /\ Int32Max \in Nat
  BY WidthAssumption
<1>b. a.minorUnits \in 0..Int64Max /\ a.currency \in Currency
  BY DEF Money
<1>c. q \in Nat /\ q > 0 /\ ~(q < 0) /\ q # 0
  BY <1>a
<1>1. /\ Int64Max \in Nat /\ a.minorUnits \in 0..Int64Max /\ a.minorUnits \in Nat
      /\ a.currency \in Currency /\ q \in Nat /\ q > 0 /\ ~(q < 0) /\ q # 0
  BY <1>a, <1>b, <1>c
<1>2. a.minorUnits * q \in Nat
  BY <1>1
<1>3. (a.minorUnits > Int64Max \div q) <=> (a.minorUnits * q > Int64Max)
  BY <1>1, DivisionTest
<1>4. CASE a.minorUnits * q > Int64Max
  BY <1>1, <1>2, <1>3, <1>4 DEF Times
<1>5. CASE a.minorUnits * q <= Int64Max
  <2>1. ~(a.minorUnits > Int64Max \div q)
    BY <1>1, <1>2, <1>3, <1>5
  <2>2. a.minorUnits * q \in 0..Int64Max
    BY <1>1, <1>2, <1>5
  <2>3. Wrap(a.minorUnits * q, Int64Max) = a.minorUnits * q
    BY <1>1, <2>2, WrapInside
  <2>4. Times(a, q) = [minorUnits |-> a.minorUnits * q, currency |-> a.currency]
    BY <1>1, <2>1, <2>3 DEF Times
  <2>5. Times(a, q) \in Money
    BY <1>1, <2>2, <2>4 DEF Money
  <2> QED
    BY <1>5, <2>4, <2>5
<1> QED
  BY <1>1, <1>2, <1>4, <1>5

----------------------------------------------------------------------------
(* Currency::create on a non-negative number of digits and a real code.    *)
LEMMA CurrencyKept ==
    ASSUME NEW code \in Codes, NEW d \in 0..Int8Max
    PROVE  CurrencyCreate(code, d) = [code |-> code, minorDigits |-> d]
<1>1. Int8Max \in Nat
  BY WidthAssumption
<1>2. ~(d < 0)
  BY <1>1
<1>3. code # ""
  BY WidthAssumption
<1> QED
  BY <1>2, <1>3 DEF CurrencyCreate

(* Records with fields of their own are no errors, and errors are.         *)
LEMMA ErrorsAreErrors ==
    /\ \A e : IsError(Error(e))
    /\ \A c, d : ~IsError([code |-> c, minorDigits |-> d])
    /\ \A m, c : ~IsError([minorUnits |-> m, currency |-> c])
    /\ \A q, p : ~IsError([quantity |-> q, priceAtOrderTime |-> p])
    /\ \A q : ~IsError([quantity |-> q])
    /\ \A i : ~IsError([id |-> i])
    /\ \A x : ~IsError([items |-> x])
  BY DEF IsError, Error

(* StrongID::create accepts a UUID.                                        *)
LEMMA UuidAccepted == ~IsError(IdCreate("UUID"))
  BY ErrorsAreErrors DEF IdCreate

(* What CurrencyJsonMapper accepts is a currency of its types.             *)
LEMMA AcceptedCurrency ==
    ASSUME NEW json \in JsonCurrency(Int), ~IsError(CurrencyFromJson(json))
    PROVE  CurrencyFromJson(json) \in Currency
<1> DEFINE d == Wrap(json.minorDigits, Int8Max)
<1>1. /\ Int8Max \in Nat /\ json.minorDigits \in Int
      /\ json.code \in Codes \cup {""}
  BY WidthAssumption DEF JsonCurrency
<1>2. d \in -(Int8Max + 1)..Int8Max
  BY <1>1, WrapType
<1>3. CurrencyFromJson(json) = CurrencyCreate(json.code, d)
  BY DEF CurrencyFromJson
<1> HIDE DEF d
<1>4. ~(d < 0)
  BY <1>3, ErrorsAreErrors DEF CurrencyCreate
<1>5. /\ json.code # ""
      /\ CurrencyFromJson(json) = [code |-> json.code, minorDigits |-> d]
  BY <1>3, <1>4, ErrorsAreErrors DEF CurrencyCreate
<1>6. d \in 0..Int8Max
  <2>1. Int8Max \in Nat
    BY WidthAssumption
  <2> QED
    BY <1>2, <1>4, <2>1
<1>7. json.code \in Codes
  BY <1>1, <1>5
<1>8. \A c \in Codes : [code |-> c, minorDigits |-> d] \in Currency
  BY <1>6 DEF Currency
<1> QED
  BY <1>5, <1>7, <1>8

(* What MoneyJsonMapper accepts is an amount of its types.                 *)
LEMMA AcceptedMoney ==
    ASSUME NEW json \in JsonMoney(Int), ~IsError(MoneyFromJson(json))
    PROVE  MoneyFromJson(json) \in Money
<1> DEFINE u == Wrap(json.minorUnits, Int64Max)
           currency == CurrencyFromJson(json.currency)
<1>1. /\ Int64Max \in Nat /\ json.minorUnits \in Int
      /\ json.currency \in JsonCurrency(Int)
  BY WidthAssumption DEF JsonMoney
<1>2. u \in -(Int64Max + 1)..Int64Max
  BY <1>1, WrapType
<1>3. MoneyFromJson(json) = IF IsError(currency) THEN currency ELSE MoneyCreate(u, currency)
  BY DEF MoneyFromJson
<1>4. ~IsError(currency) /\ MoneyFromJson(json) = MoneyCreate(u, currency)
  BY <1>3
<1>5. currency \in Currency
  BY <1>1, <1>4, AcceptedCurrency
<1> HIDE DEF u, currency
<1>6. ~(u < 0) /\ MoneyFromJson(json) = [minorUnits |-> u, currency |-> currency]
  BY <1>4, ErrorsAreErrors DEF MoneyCreate
<1> QED
  BY <1>1, <1>2, <1>5, <1>6 DEF Money

(* What the item mapper of the request accepts is an item: every field is  *)
(* inside its type.                                                        *)
LEMMA AcceptedItem ==
    ASSUME NEW json \in JsonItem(Int), ~IsError(ItemFromJson(json))
    PROVE  ItemFromJson(json) \in OrderItem
<1> DEFINE q == Wrap(json.quantity, Int32Max)
           productId == IdCreate(json.productId)
           price == MoneyFromJson(json.priceAtOrderTime)
<1>1. /\ Int32Max \in Nat /\ json.quantity \in Int
      /\ json.priceAtOrderTime \in JsonMoney(Int)
  BY WidthAssumption DEF JsonItem
<1>2. q \in -(Int32Max + 1)..Int32Max
  BY <1>1, WrapType
<1>3. ItemFromJson(json) = IF IsError(productId) THEN productId
                           ELSE IF IsError(price) THEN price ELSE ItemCreate(q, price)
  BY DEF ItemFromJson
<1>4. ~IsError(price) /\ ItemFromJson(json) = ItemCreate(q, price)
  <2> HIDE DEF q, productId, price
  <2> QED
    BY <1>3
<1>5. price \in Money
  BY <1>1, <1>4, AcceptedMoney
<1> HIDE DEF q, productId, price
<1>6. ~(q <= 0) /\ ItemFromJson(json) = [quantity |-> q, priceAtOrderTime |-> price]
  BY <1>4, ErrorsAreErrors DEF ItemCreate
<1>7. q \in 1..Int32Max
  BY <1>1, <1>2, <1>6
<1> QED
  BY <1>5, <1>6, <1>7 DEF OrderItem

(* Every item survives the way to the table and back, and the way to       *)
(* worker-service.                                                         *)
LEMMA ItemSurvives ==
    ASSUME NEW item \in OrderItem
    PROVE  /\ ~IsError(item)
           /\ RowAllowed(ItemRow(item))
           /\ ItemFromRow(ItemRow(item)) = item
           /\ parseItem(ItemToJson(item)) = [quantity |-> item.quantity]
<1> DEFINE q == item.quantity
           price == item.priceAtOrderTime
           u == price.minorUnits
           code == price.currency.code
           d == price.currency.minorDigits
<1>1. Int64Max \in Nat /\ Int32Max \in Nat /\ Int8Max \in Nat
  BY WidthAssumption
<1>2. /\ q \in 1..Int32Max /\ price \in Money
      /\ item = [quantity |-> q, priceAtOrderTime |-> price]
  BY DEF OrderItem
<1>3. /\ u \in 0..Int64Max /\ price.currency \in Currency
      /\ price = [minorUnits |-> u, currency |-> price.currency]
  BY <1>2 DEF Money
<1>4. /\ code \in Codes /\ d \in 0..Int8Max
      /\ price.currency = [code |-> code, minorDigits |-> d]
  BY <1>3 DEF Currency
<1>5. ItemRow(item) = [quantity |-> q, price_minor_units |-> u,
                       price_currency_code |-> code, price_currency_minor_digits |-> d]
  BY DEF ItemRow
<1>6. ItemToJson(item).productId = "UUID" /\ ItemToJson(item).quantity = q
  BY DEF ItemToJson
<1> HIDE DEF q, price, u, code, d
<1>7. q > 0 /\ ~(q <= 0) /\ u >= 0 /\ ~(u < 0)
  BY <1>1, <1>2, <1>3
<1>8. Wrap(d, Int8Max) = d /\ Wrap(q, Int32Max) = q
  <2>1. d \in -(Int8Max + 1)..Int8Max /\ q \in -(Int32Max + 1)..Int32Max
    BY <1>1, <1>2, <1>4
  <2> QED
    BY <1>1, <2>1, WrapInside
<1>9. RowAllowed(ItemRow(item))
  BY <1>5, <1>7 DEF RowAllowed
<1>10. ItemFromRow(ItemRow(item)) = item
  <2>1. CurrencyCreate(code, Wrap(d, Int8Max)) = price.currency
    BY <1>4, <1>8, CurrencyKept
  <2>2. ~IsError(price.currency)
    BY <1>4, ErrorsAreErrors
  <2>3. MoneyCreate(u, price.currency) = price
    BY <1>3, <1>7 DEF MoneyCreate
  <2>4. ~IsError(price)
    BY <1>3, ErrorsAreErrors
  <2>5. ItemCreate(q, price) = item
    BY <1>2, <1>7 DEF ItemCreate
  <2> QED
    BY <1>5, <2>1, <2>2, <2>3, <2>4, <2>5 DEF ItemFromRow
<1>11. parseItem(ItemToJson(item)) = [quantity |-> q]
  BY <1>6, <1>7, <1>8, UuidAccepted DEF parseItem
<1>12. ~IsError(item)
  BY <1>2, ErrorsAreErrors
<1> QED
  BY <1>9, <1>10, <1>11, <1>12 DEF q

(* Min of a non-empty set of naturals is a member of it.                   *)
LEMMA MinIsMember ==
    ASSUME NEW S, S \subseteq Nat, S # {}
    PROVE  Min(S) \in S
<1>1. PICK x \in S : \A y \in S : ~(<<y, x>> \in OpToRel(<, Nat))
  BY NatLessThanWellFounded, WFMin
<1>2. ASSUME NEW y \in S PROVE x <= y
  <2>1. ~(<<y, x>> \in {ss \in Nat \X Nat : ss[1] < ss[2]})
    BY <1>1 DEF OpToRel
  <2> QED
    BY <2>1
<1> QED
  BY <1>2 DEF Min

(* The empty list has no elements.                                         *)
LEMMA EmptyHasNoElements == DOMAIN <<>> = {}
<1>1. <<>> \in Seq({}) /\ Len(<<>>) = 0
  BY EmptySeq
<1>2. DOMAIN <<>> = 1..0
  BY <1>1, LenProperties
<1> QED
  BY <1>2

(* The three parseItems: a list passes exactly when no element failed, and *)
(* then none is skipped.                                                   *)
LEMMA MappedPasses ==
    ASSUME NEW items, DOMAIN items \subseteq Nat
    PROVE  /\ (\A i \in DOMAIN items : ~IsError(items[i])) => Mapped(items) = [items |-> items]
           /\ ~IsError(Mapped(items)) => \A i \in DOMAIN items : ~IsError(items[i])
<1> DEFINE failed == {i \in DOMAIN items : IsError(items[i])}
<1>1. Mapped(items) = IF failed = {} THEN [items |-> items] ELSE items[Min(failed)]
  BY DEF Mapped
<1>2. ASSUME failed # {} PROVE IsError(Mapped(items))
  <2>1. Min(failed) \in failed
    BY <1>2, MinIsMember
  <2>2. IsError(items[Min(failed)])
    BY <2>1
  <2> QED
    BY <1>1, <1>2, <2>2
<1> QED
  BY <1>1, <1>2

(* An order that is accepted consists of the items its JSON maps to, each  *)
(* of them inside its types: the mapper skips none.                        *)
LEMMA AcceptedOrder ==
    ASSUME NEW json \in JsonOrder(Int), ~IsError(OrderFromJson(json))
    PROVE  \E items :
               /\ items = [i \in DOMAIN json.items |-> ItemFromJson(json.items[i])]
               /\ DOMAIN items # {} /\ DOMAIN items \subseteq Nat
               /\ \A i \in DOMAIN items : items[i] \in OrderItem
               /\ items \in Seq(OrderItem) /\ items # <<>>
               /\ OrderFromJson(json) = [orderId |-> "", items |-> items, status |-> "Created"]
<1> DEFINE items == [i \in DOMAIN json.items |-> ItemFromJson(json.items[i])]
           userId == IdCreate(json.userId)
           parsed == Mapped(items)
<1>1. OrderFromJson(json) = IF IsError(userId) THEN userId
                            ELSE IF IsError(parsed) THEN parsed
                            ELSE OrderCreate(parsed.items)
  BY DEF OrderFromJson, parseItems
<1>2. DOMAIN items \subseteq Nat /\ \A i \in DOMAIN items : json.items[i] \in JsonItem(Int)
  <2>1. json.items \in Seq(JsonItem(Int))
    BY DEF JsonOrder
  <2> QED
    BY <2>1
<1>3. ~IsError(parsed) /\ OrderFromJson(json) = OrderCreate(parsed.items)
  <2> HIDE DEF userId, parsed
  <2> QED
    BY <1>1
<1>4. \A i \in DOMAIN items : ~IsError(items[i])
  <2> HIDE DEF items
  <2> QED
    BY <1>2, <1>3, MappedPasses
<1>5. parsed = [items |-> items]
  <2> HIDE DEF items
  <2> QED
    BY <1>2, <1>4, MappedPasses
<1>6. \A i \in DOMAIN items : items[i] \in OrderItem
  BY <1>2, <1>4, AcceptedItem
<1>7. OrderFromJson(json) = OrderCreate(items)
  <2> HIDE DEF items, parsed
  <2> QED
    BY <1>3, <1>5
<1>8. /\ items # <<>>
      /\ OrderFromJson(json) = [orderId |-> "", items |-> items, status |-> "Created"]
  <2> HIDE DEF items
  <2> QED
    BY <1>7, ErrorsAreErrors DEF OrderCreate
<1>9. DOMAIN items # {} /\ items \in Seq(OrderItem)
  <2>1. json.items \in Seq(JsonItem(Int))
    BY DEF JsonOrder
  <2>2. Len(json.items) \in Nat /\ DOMAIN items = 1..Len(json.items)
    BY <2>1
  <2> HIDE DEF items
  <2>3. items = [i \in 1..Len(json.items) |-> items[i]]
    BY <2>2 DEF items
  <2>4. items \in Seq(OrderItem) /\ Len(items) = Len(json.items)
    BY <1>6, <2>2, <2>3
  <2>5. Len(items) # 0
    BY <1>8, <2>4, EmptySeq
  <2>6. 1 \in 1..Len(json.items)
    BY <2>2, <2>4, <2>5
  <2> QED
    BY <2>2, <2>4, <2>6
<1> QED
  BY <1>2, <1>6, <1>8, <1>9

(* What the request mapper accepts, the tables take, findById gives back   *)
(* unchanged and worker-service reads in the same way, whatever the widths *)
(* of the integers, the currency codes and the number of items are, and in *)
(* whatever order the table returns the items.                             *)
LEMMA AcceptedOrderUnderstood ==
    ASSUME NEW json \in JsonOrder(Int), ~IsError(OrderFromJson(json))
    PROVE  Understood(OrderFromJson(json))
<1>1. PICK items :
          /\ items = [i \in DOMAIN json.items |-> ItemFromJson(json.items[i])]
          /\ DOMAIN items # {} /\ DOMAIN items \subseteq Nat
          /\ \A i \in DOMAIN items : items[i] \in OrderItem
          /\ OrderFromJson(json) = [orderId |-> "", items |-> items, status |-> "Created"]
  BY AcceptedOrder
<1> DEFINE D == DOMAIN items
           order == OrderFromJson(json)
           saved == [orderId |-> "UUID", items |-> items, status |-> "Created"]
<1>2. /\ order.items = items /\ order.status = "Created"
      /\ assignId(order, "UUID") = saved
  <2>1. order = [orderId |-> "", items |-> items, status |-> "Created"]
    BY <1>1
  <2>2. assignId([orderId |-> "", items |-> items, status |-> "Created"], "UUID") = saved
    BY DEF assignId
  <2> HIDE DEF order, saved
  <2>3. order.items = items /\ order.status = "Created"
    BY <2>1
  <2>4. assignId(order, "UUID") = saved
    BY <2>1, <2>2
  <2> QED
    BY <2>3, <2>4
<1>3. \A i \in D : RowAllowed(ItemRow(items[i]))
  BY <1>1, ItemSurvives
<1>4. ASSUME NEW f \in Orderings(D)
      PROVE  OrderFromRows(OrderRows(saved, f)) =
                 [orderId |-> "UUID", items |-> [i \in D |-> items[f[i]]], status |-> "Created"]
  <2> DEFINE moved == [i \in D |-> items[f[i]]]
             rows == [i \in D |-> ItemRow(items[f[i]])]
  <2>1. f \in [D -> D]
    BY DEF Orderings
  <2>2. OrderRows(saved, f) = [order_id |-> "UUID", status |-> "Created", items |-> rows]
    BY DEF OrderRows
  <2>3. \A i \in D : moved[i] \in OrderItem /\ ~IsError(moved[i]) /\ ItemFromRow(rows[i]) = moved[i]
    BY <1>1, <2>1, ItemSurvives
  <2>4. [i \in DOMAIN rows |-> ItemFromRow(rows[i])] = moved
    BY <2>3
  <2>5. parseItemRows(rows) = [items |-> moved]
    <3>1. DOMAIN moved \subseteq Nat /\ \A i \in DOMAIN moved : ~IsError(moved[i])
      BY <1>1, <2>3
    <3>2. parseItemRows(rows) = Mapped(moved)
      BY <2>4 DEF parseItemRows
    <3> HIDE DEF moved, rows
    <3> QED
      BY <3>1, <3>2, MappedPasses
  <2>6. moved # <<>>
    BY <1>1, EmptyHasNoElements
  <2> HIDE DEF moved, rows
  <2>7. OrderFromRows(OrderRows(saved, f)) = OrderRestore("UUID", moved, "Created")
    BY <2>2, <2>5, UuidAccepted, ErrorsAreErrors DEF OrderFromRows, Statuses
  <2>8. OrderRestore("UUID", moved, "Created") = [orderId |-> "UUID", items |-> moved, status |-> "Created"]
    BY <2>6 DEF OrderRestore
  <2> QED
    BY <2>7, <2>8 DEF moved
<1>5. EventFromJson(OrderToJson(saved)) =
          [orderId |-> "UUID", items |-> [i \in D |-> [quantity |-> items[i].quantity]]]
  <2> DEFINE jsons == [i \in D |-> ItemToJson(items[i])]
             read == [i \in D |-> [quantity |-> items[i].quantity]]
  <2>1. /\ OrderToJson(saved).orderId = "UUID" /\ OrderToJson(saved).userId = "UUID"
        /\ OrderToJson(saved).items = jsons
    BY DEF OrderToJson
  <2>2. [i \in DOMAIN jsons |-> parseItem(jsons[i])] = read
    BY <1>1, ItemSurvives
  <2>3. parseEventItems(jsons) = [items |-> read]
    <3>1. DOMAIN read \subseteq Nat /\ \A i \in DOMAIN read : ~IsError(read[i])
      BY <1>1, ErrorsAreErrors
    <3>2. parseEventItems(jsons) = Mapped(read)
      BY <2>2 DEF parseEventItems
    <3> HIDE DEF jsons, read
    <3> QED
      BY <3>1, <3>2, MappedPasses
  <2> HIDE DEF jsons, read
  <2>4. EventFromJson(OrderToJson(saved)) = [orderId |-> "UUID", items |-> read]
    BY <2>1, <2>3, UuidAccepted, ErrorsAreErrors DEF EventFromJson
  <2> QED
    BY <2>4 DEF read
<1> HIDE DEF order, saved
<1>6. Understood(order)
  BY <1>2, <1>3, <1>4, <1>5 DEF Understood
<1> QED
  BY <1>6 DEF order

-----------------------------------------------------------------------------
(* The saga                                                                *)

(* Every body a client may send that order-service accepts is an order     *)
(* that its tables take, that it reads back unchanged and that             *)
(* worker-service understands, in every state of the saga.                 *)
THEOREM AcceptedAlwaysUnderstood == Spec => []AcceptedIsUnderstood
<1>1. AcceptedIsUnderstood
  <2> SUFFICES ASSUME NEW o \in Orders, body[o] \in Bodies, ~IsError(OrderFromJson(body[o]))
               PROVE  Understood(OrderFromJson(body[o]))
    BY DEF AcceptedIsUnderstood, Requested
  <2>1. body[o] \in JsonOrder(Int)
    BY LifecycleAssumption DEF JsonOrder
  <2> QED
    BY <2>1, AcceptedOrderUnderstood
<1> QED
  BY <1>1, PTL

-----------------------------------------------------------------------------
(* The total of an order *)

(* Induction up to a bound, for the set of the numbers that have a         *)
(* property.                                                               *)
LEMMA InductionUpTo ==
    ASSUME NEW N \in Nat, NEW P, 0 \in P, \A n \in 0..N : n # N /\ n \in P => n + 1 \in P
    PROVE  0..N \subseteq P
<1> DEFINE bad == (0..N) \ P
<1> SUFFICES ASSUME bad # {} PROVE FALSE
  OBVIOUS
<1>1. PICK x \in bad : \A y \in bad : ~(<<y, x>> \in OpToRel(<, Nat))
  <2>1. bad \subseteq Nat
    OBVIOUS
  <2> HIDE DEF bad
  <2> QED
    BY <2>1, NatLessThanWellFounded, WFMin
<1>2. ASSUME NEW y \in bad PROVE x <= y
  <2>1. ~(<<y, x>> \in {ss \in Nat \X Nat : ss[1] < ss[2]})
    BY <1>1, <1>2 DEF OpToRel
  <2> QED
    BY <2>1, <1>2
<1>3. x \in 0..N /\ x \notin P /\ x # 0
  OBVIOUS
<1>4. x - 1 \in 0..N /\ x - 1 # N /\ x - 1 \notin bad
  BY <1>2, <1>3
<1>5. x - 1 \in P /\ (x - 1) + 1 = x
  BY <1>3, <1>4
<1> QED
  BY <1>3, <1>4, <1>5

(* A function that is defined by recursion over a list exists.             *)
RecursUpTo(g, N, base, step) ==
    \A n \in 0..N : g[n] = IF n = 0 THEN base ELSE step[<<g[n - 1], n>>]

LEMMA RecursionExists ==
    ASSUME NEW N \in Nat, NEW S, NEW base \in S, NEW step \in [S \X (1..N) -> S]
    PROVE  \E g \in [0..N -> S] : RecursUpTo(g, N, base, step)
<1> DEFINE Fits(g, k) == \A n \in 0..k : g[n] = IF n = 0 THEN base ELSE step[<<g[n - 1], n>>]
           P == {k \in 0..N : \E g \in [0..k -> S] : Fits(g, k)}
<1>1. 0 \in P
  <2>1. PICK g : g = [n \in 0..0 |-> base]
    OBVIOUS
  <2>2. g \in [0..0 -> S] /\ Fits(g, 0)
    BY <2>1
  <2> QED
    BY <2>2
<1>2. ASSUME NEW k \in 0..N, k # N, k \in P PROVE k + 1 \in P
  <2>1. PICK g \in [0..k -> S] : Fits(g, k)
    BY <1>2
  <2>2. PICK next : next = step[<<g[k], k + 1>>]
    OBVIOUS
  <2>3. next \in S
    <3>1. <<g[k], k + 1>> \in S \X (1..N)
      BY <1>2
    <3> QED
      BY <2>2, <3>1
  <2>4. PICK h : h = [n \in 0..(k + 1) |-> IF n = k + 1 THEN next ELSE g[n]]
    OBVIOUS
  <2>5. h \in [0..(k + 1) -> S]
    BY <2>3, <2>4
  <2>6. h[k + 1] = next /\ \A n \in 0..k : h[n] = g[n]
    BY <2>4
  <2>7. ASSUME NEW n \in 0..(k + 1)
        PROVE  h[n] = IF n = 0 THEN base ELSE step[<<h[n - 1], n>>]
    <3>1. CASE n = k + 1
      <4>1. n # 0 /\ h[n - 1] = g[k]
        BY <2>6, <3>1
      <4> QED
        BY <2>2, <2>6, <3>1, <4>1
    <3>2. CASE n \in 0..k
      <4>1. h[n] = g[n] /\ (n # 0 => h[n - 1] = g[n - 1])
        BY <2>6, <3>2
      <4>2. g[n] = IF n = 0 THEN base ELSE step[<<g[n - 1], n>>]
        BY <2>1, <3>2
      <4> QED
        BY <4>1, <4>2
    <3> QED
      BY <2>7, <3>1, <3>2
  <2>8. Fits(h, k + 1)
    BY <2>7
  <2>9. k + 1 \in 0..N
    BY <1>2
  <2> QED
    BY <2>5, <2>8, <2>9
<1>3. 0..N \subseteq P
  <2> HIDE DEF P
  <2> QED
    BY <1>1, <1>2, InductionUpTo
<1>4. N \in P
  BY <1>3
<1> QED
  BY <1>4 DEF RecursUpTo

(* The amount of one item: exact, or PriceOverflow.                        *)
LEMMA LineIsExact ==
    ASSUME NEW item \in OrderItem
    PROVE  IF item.quantity * item.priceAtOrderTime.minorUnits <= Int64Max
           THEN /\ lineTotal(item) = [minorUnits |-> item.quantity * item.priceAtOrderTime.minorUnits,
                                      currency |-> item.priceAtOrderTime.currency]
                /\ lineTotal(item) \in Money /\ ~IsError(lineTotal(item))
           ELSE lineTotal(item) = Error("PriceOverflow")
<1>1. PICK q : q = item.quantity
  OBVIOUS
<1>2. PICK price : price = item.priceAtOrderTime
  OBVIOUS
<1>3. q \in 1..Int32Max /\ price \in Money
  BY <1>1, <1>2 DEF OrderItem
<1>4. q * price.minorUnits = price.minorUnits * q
  <2>1. Int32Max \in Nat /\ Int64Max \in Nat
    BY WidthAssumption
  <2>2. price.minorUnits \in 0..Int64Max
    BY <1>3 DEF Money
  <2> QED
    BY <1>3, <2>1, <2>2
<1>5. lineTotal(item) = IF IsError(Times(price, q)) THEN Error("PriceOverflow") ELSE Times(price, q)
  BY <1>1, <1>2 DEF lineTotal
<1>6. CASE price.minorUnits * q <= Int64Max
  <2>1. /\ Times(price, q) = [minorUnits |-> price.minorUnits * q, currency |-> price.currency]
        /\ Times(price, q) \in Money
    BY <1>3, <1>6, TimesIsExact
  <2>2. ~IsError(Times(price, q))
    BY <2>1 DEF IsError
  <2>3. lineTotal(item) = Times(price, q)
    BY <1>5, <2>2
  <2>4. lineTotal(item) \in Money /\ ~IsError(lineTotal(item))
    BY <2>1, <2>2, <2>3
  <2>5. lineTotal(item) = [minorUnits |-> q * price.minorUnits, currency |-> price.currency]
    BY <1>4, <2>1, <2>3
  <2> QED
    BY <1>1, <1>2, <1>4, <1>6, <2>4, <2>5
<1>7. CASE ~(price.minorUnits * q <= Int64Max)
  <2>1. Times(price, q) = Error("Overflow")
    BY <1>3, <1>7, TimesIsExact
  <2>2. lineTotal(item) = Error("PriceOverflow")
    BY <1>5, <2>1, ErrorsAreErrors
  <2> QED
    BY <1>1, <1>2, <1>4, <1>7, <2>2
<1> QED
  BY <1>6, <1>7

(* What one more item makes of the total so far.                           *)
NextTotal(items, total, n) ==
    IF IsError(total) THEN total
    ELSE IF IsError(lineTotal(items[n])) THEN lineTotal(items[n])
    ELSE Plus(total, lineTotal(items[n]))

TotalErrors == {Error("PriceOverflow"), Error("DifferentCurrencies"), Error("Overflow")}

(* The two recursive definitions, as the functions they define.            *)
LEMMA ExactTotals ==
    ASSUME NEW items \in Seq(OrderItem)
    PROVE  \E exact \in [0..Len(items) -> Nat] :
              /\ exact[0] = 0
              /\ \A n \in 1..Len(items) :
                    exact[n] = exact[n - 1] + items[n].quantity * items[n].priceAtOrderTime.minorUnits
              /\ ExactTotal(items) = exact[Len(items)]
<1> DEFINE N == Len(items)
           amount(n) == items[n].quantity * items[n].priceAtOrderTime.minorUnits
           Sums(f) == [n \in 0..N |-> IF n = 0 THEN 0 ELSE f[n - 1] + amount(n)]
<1>1. N \in Nat /\ \A n \in 1..N : items[n] \in OrderItem
  OBVIOUS
<1>2. \A n \in 1..N : amount(n) \in Nat
  <2>1. ASSUME NEW q \in Nat, NEW p \in Nat PROVE q * p \in Nat
    BY <2>1
  <2>2. ASSUME NEW n \in 1..N PROVE amount(n) \in Nat
    <3>1. items[n].quantity \in 1..Int32Max /\ items[n].priceAtOrderTime \in Money
      BY <1>1, <2>2 DEF OrderItem
    <3>2. items[n].priceAtOrderTime.minorUnits \in 0..Int64Max
      BY <3>1 DEF Money
    <3>3. Int32Max \in Nat /\ Int64Max \in Nat
      BY WidthAssumption
    <3>4. items[n].quantity \in Nat /\ items[n].priceAtOrderTime.minorUnits \in Nat
      BY <3>1, <3>2, <3>3
    <3> QED
      BY <2>1, <3>4
  <2> QED
    BY <2>2
<1> HIDE DEF N, amount
<1>3. PICK step : step = [x \in Nat \X (1..N) |-> x[1] + amount(x[2])]
  OBVIOUS
<1>4. step \in [Nat \X (1..N) -> Nat]
  BY <1>2, <1>3
<1>5. PICK g \in [0..N -> Nat] : RecursUpTo(g, N, 0, step)
  <2>1. PICK zero \in Nat : zero = 0
    OBVIOUS
  <2>2. \E g \in [0..N -> Nat] : RecursUpTo(g, N, zero, step)
    BY <1>1, <1>4, RecursionExists
  <2> QED
    BY <2>1, <2>2
<1>6. \A n \in 0..N : g[n] = IF n = 0 THEN 0 ELSE g[n - 1] + amount(n)
  <2>1. ASSUME NEW n \in 0..N, n # 0 PROVE step[<<g[n - 1], n>>] = g[n - 1] + amount(n)
    <3>1. n - 1 \in 0..N /\ n \in 1..N
      BY <1>1, <2>1
    <3>2. <<g[n - 1], n>> \in Nat \X (1..N)
      BY <1>5, <3>1
    <3> QED
      BY <1>3, <3>2
  <2> QED
    BY <1>5, <2>1 DEF RecursUpTo
<1>7. g = Sums(g)
  BY <1>6
<1>8. ExactTotal(items) = (CHOOSE f : f = Sums(f))[N]
  BY DEF ExactTotal, N, amount
<1>9. PICK exact : exact = (CHOOSE f : f = Sums(f))
  OBVIOUS
<1>10. exact = Sums(exact)
  BY <1>7, <1>9
<1>11. exact[0] = 0 /\ \A n \in 1..N : exact[n] = exact[n - 1] + amount(n)
  BY <1>1, <1>10
<1>12. \A n \in 0..N : exact[n] \in Nat
  <2> DEFINE P == {n \in 0..N : exact[n] \in Nat}
  <2>1. 0 \in P
    BY <1>1, <1>11
  <2>2. ASSUME NEW n \in 0..N, n # N, n \in P PROVE n + 1 \in P
    <3>1. n + 1 \in 1..N /\ (n + 1) - 1 = n
      BY <1>1, <2>2
    <3>2. exact[n + 1] = exact[n] + amount(n + 1)
      BY <1>11, <3>1
    <3> QED
      BY <1>2, <2>2, <3>1, <3>2
  <2> HIDE DEF P
  <2>3. 0..N \subseteq P
    BY <1>1, <2>1, <2>2, InductionUpTo
  <2> QED
    BY <2>3 DEF P
<1>13. exact \in [0..N -> Nat]
  BY <1>10, <1>12
<1> QED
  BY <1>8, <1>9, <1>11, <1>13 DEF N, amount

LEMMA TotalAmounts ==
    ASSUME NEW items \in Seq(OrderItem), items # <<>>
    PROVE  \E after :
              /\ after[0] = [minorUnits |-> 0, currency |-> items[1].priceAtOrderTime.currency]
              /\ \A n \in 1..Len(items) : after[n] = NextTotal(items, after[n - 1], n)
              /\ totalAmount(items) = after[Len(items)]
<1> DEFINE N == Len(items)
           none == MoneyCreate(0, items[1].priceAtOrderTime.currency)
           S == Money \cup TotalErrors
           Totals(f) == [n \in 0..N |-> IF n = 0 THEN none ELSE NextTotal(items, f[n - 1], n)]
<1>1. N \in Nat /\ N # 0 /\ \A n \in 1..N : items[n] \in OrderItem
  BY EmptySeq
<1>2. none = [minorUnits |-> 0, currency |-> items[1].priceAtOrderTime.currency] /\ none \in S
  <2>1. items[1].priceAtOrderTime.currency \in Currency
    BY <1>1 DEF OrderItem, Money
  <2>2. none = [minorUnits |-> 0, currency |-> items[1].priceAtOrderTime.currency]
    BY DEF MoneyCreate
  <2>3. 0 \in 0..Int64Max
    <3>1. Int64Max \in Nat
      BY WidthAssumption
    <3> QED
      BY <3>1
  <2> HIDE DEF none
  <2>4. none \in Money
    BY <2>1, <2>2, <2>3 DEF Money
  <2> QED
    BY <2>2, <2>4
<1>3. \A total \in S, n \in 1..N : NextTotal(items, total, n) \in S
  <2> SUFFICES ASSUME NEW total \in S, NEW n \in 1..N PROVE NextTotal(items, total, n) \in S
    OBVIOUS
  <2>1. lineTotal(items[n]) \in S
    <3>1. PICK item : item = items[n]
      OBVIOUS
    <3>2. item \in OrderItem
      BY <1>1, <3>1
    <3>3. lineTotal(item) \in Money \/ lineTotal(item) = Error("PriceOverflow")
      BY <3>2, LineIsExact
    <3> QED
      BY <3>1, <3>3 DEF TotalErrors
  <2>2. CASE IsError(total)
    BY <2>2 DEF NextTotal
  <2>3. CASE ~IsError(total) /\ IsError(lineTotal(items[n]))
    BY <2>1, <2>3 DEF NextTotal
  <2>4. CASE ~IsError(total) /\ ~IsError(lineTotal(items[n]))
    <3>1. total \in Money /\ lineTotal(items[n]) \in Money
      BY <2>1, <2>4, ErrorsAreErrors DEF TotalErrors
    <3>2. Plus(total, lineTotal(items[n])) \in S
      BY <3>1, PlusIsExact DEF TotalErrors
    <3> QED
      BY <2>4, <3>2 DEF NextTotal
  <2> QED
    BY <2>2, <2>3, <2>4
<1> HIDE DEF N, none, S
<1>4. PICK step : step = [x \in S \X (1..N) |-> NextTotal(items, x[1], x[2])]
  OBVIOUS
<1>5. step \in [S \X (1..N) -> S]
  BY <1>3, <1>4
<1>6. PICK g \in [0..N -> S] : RecursUpTo(g, N, none, step)
  BY <1>1, <1>2, <1>5, RecursionExists
<1>7. \A n \in 0..N : g[n] = IF n = 0 THEN none ELSE NextTotal(items, g[n - 1], n)
  <2>1. ASSUME NEW n \in 0..N, n # 0 PROVE step[<<g[n - 1], n>>] = NextTotal(items, g[n - 1], n)
    <3>1. n - 1 \in 0..N /\ n \in 1..N
      BY <1>1, <2>1
    <3>2. <<g[n - 1], n>> \in S \X (1..N)
      BY <1>6, <3>1
    <3> QED
      BY <1>4, <3>2
  <2> QED
    BY <1>6, <2>1 DEF RecursUpTo
<1>8. g = Totals(g)
  BY <1>7
<1>9. totalAmount(items) = (CHOOSE f : f = Totals(f))[N]
  BY DEF totalAmount, NextTotal, N, none
<1>10. PICK after : after = (CHOOSE f : f = Totals(f))
  OBVIOUS
<1>11. after = Totals(after)
  BY <1>8, <1>10
<1>12. after[0] = none /\ \A n \in 1..N : after[n] = NextTotal(items, after[n - 1], n)
  BY <1>1, <1>11
<1> QED
  BY <1>2, <1>9, <1>10, <1>12 DEF N, none

(* The loop after n items: the exact sum so far while the items have the   *)
(* currency of the first and the sum fits, and an error from then on.      *)
LEMMA TotalOfItems ==
    ASSUME NEW items \in Seq(OrderItem), items # <<>>
    PROVE  IF Summable(items)
           THEN ~IsError(totalAmount(items)) /\ totalAmount(items).minorUnits = ExactTotal(items)
           ELSE IsError(totalAmount(items))
<1>1. PICK N : N = Len(items)
  OBVIOUS
<1>2. N \in Nat /\ N # 0 /\ DOMAIN items = 1..N /\ \A n \in 1..N : items[n] \in OrderItem
  BY <1>1, EmptySeq
<1>3. PICK exact \in [0..N -> Nat] :
         /\ exact[0] = 0
         /\ \A n \in 1..N :
               exact[n] = exact[n - 1] + items[n].quantity * items[n].priceAtOrderTime.minorUnits
         /\ ExactTotal(items) = exact[N]
  BY <1>1, ExactTotals
<1>4. PICK after :
         /\ after[0] = [minorUnits |-> 0, currency |-> items[1].priceAtOrderTime.currency]
         /\ \A n \in 1..N : after[n] = NextTotal(items, after[n - 1], n)
         /\ totalAmount(items) = after[N]
  BY <1>1, TotalAmounts
<1>5. PICK first : first = items[1].priceAtOrderTime.currency
  OBVIOUS
<1>6. first \in Currency
  BY <1>2, <1>5 DEF OrderItem, Money
<1>7. Int64Max \in Nat /\ Int32Max \in Nat
  BY WidthAssumption
<1> DEFINE Code(n) == items[n].priceAtOrderTime.currency.code
           Good(n) == (\A i \in 1..n : Code(i) = first.code) /\ exact[n] <= Int64Max
           Claim(n) == /\ Good(n) => after[n] = [minorUnits |-> exact[n], currency |-> first]
                       /\ ~Good(n) => IsError(after[n])
           P == {n \in 0..N : Claim(n)}
<1>8. 0 \in P
  <2>1. Good(0) /\ 0 \in 0..N
    BY <1>2, <1>3, <1>7
  <2>2. after[0] = [minorUnits |-> exact[0], currency |-> first]
    BY <1>3, <1>4, <1>5
  <2> HIDE DEF Good
  <2> QED
    BY <2>1, <2>2
<1>9. ASSUME NEW n \in 0..N, n # N, n \in P PROVE n + 1 \in P
  <2>1. PICK m : m = n + 1
    OBVIOUS
  <2>2. m \in 1..N /\ m - 1 = n /\ n \in Nat /\ m \in 0..N
    BY <1>2, <1>9, <2>1
  <2>3. PICK item : item = items[m]
    OBVIOUS
  <2>4. PICK amount : amount = item.quantity * item.priceAtOrderTime.minorUnits
    OBVIOUS
  <2>5. item \in OrderItem
    BY <1>2, <2>2, <2>3
  <2>6. amount \in Nat
    <3>1. item.quantity \in 1..Int32Max /\ item.priceAtOrderTime \in Money
      BY <2>5 DEF OrderItem
    <3>2. item.priceAtOrderTime.minorUnits \in 0..Int64Max
      BY <3>1 DEF Money
    <3>3. ASSUME NEW q \in Nat, NEW p \in Nat PROVE q * p \in Nat
      BY <3>3
    <3>4. item.quantity \in Nat /\ item.priceAtOrderTime.minorUnits \in Nat
      BY <1>7, <3>1, <3>2
    <3> QED
      BY <2>4, <3>3, <3>4
  <2>7. exact[m] = exact[n] + amount /\ exact[n] \in Nat
    BY <1>3, <2>2, <2>3, <2>4
  <2>8. after[m] = NextTotal(items, after[n], m)
    BY <1>4, <2>2
  <2>9. Good(m) <=> Good(n) /\ Code(m) = first.code /\ exact[m] <= Int64Max
    <3>1. (\A i \in 1..m : Code(i) = first.code)
             <=> (\A i \in 1..n : Code(i) = first.code) /\ Code(m) = first.code
      <4>1. \A i : i \in 1..m <=> i \in 1..n \/ i = m
        BY <2>1, <2>2
      <4> HIDE DEF Code
      <4> QED
        BY <4>1
    <3>2. exact[m] <= Int64Max => exact[n] <= Int64Max
      BY <1>7, <2>6, <2>7
    <3> HIDE DEF Code
    <3> QED
      BY <3>1, <3>2
  <2>10. Claim(n)
    BY <1>9
  <2>11. Claim(m)
    <3>1. CASE ~Good(n)
      <4>1. IsError(after[n])
        BY <2>10, <3>1
      <4>2. after[m] = after[n]
        BY <2>8, <4>1 DEF NextTotal
      <4> HIDE DEF Good
      <4> QED
        BY <2>9, <3>1, <4>1, <4>2
    <3>2. CASE Good(n)
      <4>1. PICK total : total = [minorUnits |-> exact[n], currency |-> first]
        OBVIOUS
      <4>2. after[n] = total
        BY <2>10, <3>2, <4>1
      <4>3. total \in Money
        <5>1. exact[n] \in 0..Int64Max
          BY <1>7, <2>7, <3>2
        <5> QED
          BY <1>6, <4>1, <5>1 DEF Money
      <4>4. ~IsError(total)
        BY <4>1, ErrorsAreErrors
      <4>5. after[m] = IF IsError(lineTotal(item)) THEN lineTotal(item)
                       ELSE Plus(total, lineTotal(item))
        BY <2>3, <2>8, <4>2, <4>4 DEF NextTotal
      <4>6. CASE amount > Int64Max
        <5>1. lineTotal(item) = Error("PriceOverflow")
          BY <1>7, <2>4, <2>5, <2>6, <4>6, LineIsExact
        <5>2. IsError(after[m])
          BY <4>5, <5>1, ErrorsAreErrors
        <5>3. ~(exact[m] <= Int64Max)
          BY <1>7, <2>6, <2>7, <4>6
        <5> HIDE DEF Good
        <5> QED
          BY <2>9, <5>2, <5>3
      <4>7. CASE amount <= Int64Max
        <5>1. PICK line : line = lineTotal(item)
          OBVIOUS
        <5>2. /\ line = [minorUnits |-> amount, currency |-> item.priceAtOrderTime.currency]
              /\ line \in Money /\ ~IsError(line)
          BY <2>4, <2>5, <4>7, <5>1, LineIsExact
        <5>3. after[m] = Plus(total, line)
          BY <4>5, <5>1, <5>2
        <5>4. /\ total.currency.code = first.code /\ line.currency.code = Code(m)
              /\ total.minorUnits = exact[n] /\ line.minorUnits = amount
              /\ total.currency = first
          BY <2>3, <4>1, <5>2
        <5>5. CASE Code(m) = first.code /\ exact[m] <= Int64Max
          <6>1. Plus(total, line) = [minorUnits |-> total.minorUnits + line.minorUnits,
                                     currency |-> total.currency]
            BY <2>7, <4>3, <5>2, <5>4, <5>5, PlusIsExact
          <6>2. after[m] = [minorUnits |-> exact[m], currency |-> first]
            BY <2>7, <5>3, <5>4, <6>1
          <6> HIDE DEF Good
          <6> QED
            BY <2>9, <3>2, <5>5, <6>2
        <5>6. CASE ~(Code(m) = first.code /\ exact[m] <= Int64Max)
          <6>1. Plus(total, line) \in {Error("DifferentCurrencies"), Error("Overflow")}
            BY <2>7, <4>3, <5>2, <5>4, <5>6, PlusIsExact
          <6>2. IsError(after[m])
            BY <5>3, <6>1, ErrorsAreErrors
          <6> HIDE DEF Good
          <6> QED
            BY <2>9, <5>6, <6>2
        <5> QED
          BY <5>5, <5>6
      <4> QED
        BY <1>7, <2>6, <4>6, <4>7
    <3> QED
      BY <3>1, <3>2
  <2> HIDE DEF Claim
  <2> QED
    BY <2>1, <2>2, <2>11
<1>10. Claim(N)
  <2> HIDE DEF P
  <2>1. 0..N \subseteq P
    BY <1>2, <1>8, <1>9, InductionUpTo
  <2>2. N \in P
    BY <1>2, <2>1
  <2> USE DEF P
  <2> HIDE DEF Claim
  <2> QED
    BY <2>2
<1>11. Good(N) <=> Summable(items)
  BY <1>2, <1>3, <1>5 DEF Summable
<1>12. Good(N) => /\ ~IsError(totalAmount(items))
                  /\ totalAmount(items).minorUnits = ExactTotal(items)
  <2> SUFFICES ASSUME Good(N)
               PROVE  /\ ~IsError(totalAmount(items))
                      /\ totalAmount(items).minorUnits = ExactTotal(items)
    OBVIOUS
  <2>1. totalAmount(items) = [minorUnits |-> ExactTotal(items), currency |-> first]
    BY <1>3, <1>4, <1>10
  <2> QED
    BY <2>1, ErrorsAreErrors
<1>13. ~Good(N) => IsError(totalAmount(items))
  BY <1>4, <1>10
<1> HIDE DEF Good
<1> QED
  BY <1>11, <1>12, <1>13

(* The amount of every order that is accepted is exact, or an error when   *)
(* no exact amount exists: however many items it has, in whatever order    *)
(* the table returns them, and whatever the widths of the integers are.    *)
THEOREM TotalsAreExact == Spec => []TotalIsExact
<1>1. TotalIsExact
  <2> SUFFICES ASSUME NEW o \in Orders, body[o] \in Bodies, ~IsError(Requested(o)),
                      NEW f \in Orderings(DOMAIN Requested(o).items)
               PROVE  LET items == [i \in DOMAIN f |-> Requested(o).items[f[i]]]
                          total == totalAmount(items)
                      IN  IF Summable(items)
                          THEN ~IsError(total) /\ total.minorUnits = ExactTotal(items)
                          ELSE IsError(total)
    BY DEF TotalIsExact
  <2>1. body[o] \in JsonOrder(Int) /\ ~IsError(OrderFromJson(body[o]))
    BY LifecycleAssumption DEF JsonOrder, Requested
  <2>2. PICK ordered \in Seq(OrderItem) : ordered # <<>> /\ Requested(o).items = ordered
    <3>1. PICK json : json = body[o]
      OBVIOUS
    <3>2. json \in JsonOrder(Int) /\ ~IsError(OrderFromJson(json))
      BY <2>1, <3>1
    <3>3. PICK ordered :
             /\ ordered = [i \in DOMAIN json.items |-> ItemFromJson(json.items[i])]
             /\ DOMAIN ordered # {} /\ DOMAIN ordered \subseteq Nat
             /\ \A i \in DOMAIN ordered : ordered[i] \in OrderItem
             /\ ordered \in Seq(OrderItem) /\ ordered # <<>>
             /\ OrderFromJson(json) = [orderId |-> "", items |-> ordered, status |-> "Created"]
      BY <3>2, AcceptedOrder
    <3>4. OrderFromJson(json) = [orderId |-> "", items |-> ordered, status |-> "Created"]
      BY <3>3
    <3>5. PICK order : order = Requested(o)
      OBVIOUS
    <3>6. order = OrderFromJson(json)
      BY <3>1, <3>5 DEF Requested
    <3>7. order = [orderId |-> "", items |-> ordered, status |-> "Created"]
      BY <3>4, <3>6
    <3>8. order.items = ordered
      BY <3>7
    <3> QED
      BY <3>3, <3>5, <3>8
  <2>3. f \in [DOMAIN ordered -> DOMAIN ordered]
    BY <2>2 DEF Orderings
  <2>4. PICK items : items = [i \in DOMAIN f |-> Requested(o).items[f[i]]]
    OBVIOUS
  <2>5. items = [i \in 1..Len(ordered) |-> ordered[f[i]]]
    BY <2>2, <2>3, <2>4
  <2>6. \A i \in 1..Len(ordered) : ordered[f[i]] \in OrderItem
    BY <2>3
  <2>7. items \in Seq(OrderItem) /\ Len(items) = Len(ordered)
    BY <2>5, <2>6
  <2>8. items # <<>>
    BY <2>2, <2>7, EmptySeq
  <2> QED
    BY <2>4, <2>7, <2>8, TotalOfItems
<1> QED
  BY <1>1, PTL

-----------------------------------------------------------------------------
(* The inductive invariant of the saga *)

Status == {"Created", "Reserved", "Shipped", "Cancelled", Absent}

(* What a thread that is not idle runs.                                    *)
Job == [at : {"handle", "insert", "commit", "decide", "update"}, record : Records,
        attempt : 1..MaxAttempts, seen : Status]

SagaTypes ==
    /\ orders \in [Ids -> Status]
    /\ response \in [Orders -> {"", "201", "400", "500"}]
    /\ createdRows \subseteq Orders
    /\ processed \in [Ids -> Threads \cup {"yes", "no"}]
    /\ reservedRows \in [Ids -> Nat]
    /\ topics \subseteq Records
    /\ dead \subseteq Records
    /\ thread \in [Threads -> {Idle} \cup Job]
    /\ faults \in [Records -> 0..MaxAttempts]

(* A thread works on a record of its topic, at a place of its handler; a   *)
(* record that is past its parsing names an order.                         *)
JobFits(t) ==
    thread[t] # Idle =>
        /\ thread[t].record \in topics
        /\ thread[t].record[1] = TopicOf(t)
        /\ t \in WorkerThreads => thread[t].at \in {"handle", "insert", "commit"}
        /\ t \in OrderThreads => thread[t].at \in {"handle", "decide", "update"}
        /\ thread[t].at # "handle" => OrderOf(t) \in Ids

(* The open insert of an event id belongs to the thread about to commit it.*)
ClaimsHeld ==
    \A t \in Threads, o \in Ids :
        processed[o] = t <=> thread[t] # Idle /\ thread[t].at = "commit" /\ OrderOf(t) = o

(* Every stage of the saga follows from the one before.                    *)
StagesInOrder ==
    /\ \A o \in Orders : response[o] = "" => orders[o] = Absent
    /\ \A o \in Orders : response[o] = "201" => orders[o] # Absent
    /\ \A o \in createdRows : orders[o] # Absent
    /\ \A o \in Orders : <<"created", o>> \in topics => o \in createdRows
    /\ \A o \in Ids : processed[o] # "no" => <<"created", o>> \in topics
    /\ \A o \in Ids : <<"reserved", o>> \in topics => processed[o] = "yes"

(* What a thread of order-service has read of its order may be old, but an *)
(* order does not vanish and does not become Created again.                *)
ReadingOld(t) ==
    t \in OrderThreads /\ thread[t] # Idle =>
        /\ thread[t].at = "decide" /\ thread[t].seen = Absent => OrderOf(t) \in Strays
        /\ thread[t].at = "decide" /\ thread[t].seen # Absent => orders[OrderOf(t)] # Absent
        /\ thread[t].at = "update" =>
              thread[t].seen = "Created" /\ orders[OrderOf(t)] # Absent

(* t lost the race for the status of its order and will find that out.     *)
LostRace(t) ==
    /\ t \in OrderThreads
    /\ OrderOf(t) \in Ids
    /\ orders[OrderOf(t)] \notin {"Created", Absent}
    /\ thread[t].at \in {"handle", "decide"}
    /\ thread[t].at = "decide" => thread[t].seen # "Created"

(* Every attempt but the current one met a failing query, or all but that  *)
(* one and one more that lost a race.                                      *)
AttemptExplained(t) ==
    thread[t] # Idle =>
        \/ faults[thread[t].record] >= thread[t].attempt - 1
        \/ faults[thread[t].record] >= thread[t].attempt - 2 /\ LostRace(t)

ThreadInv(t) == JobFits(t) /\ ReadingOld(t) /\ AttemptExplained(t)

SagaInv ==
    /\ SagaTypes
    /\ \A t \in Threads : ThreadInv(t)
    /\ ClaimsHeld
    /\ StagesInOrder
    /\ ReservedOnce
    /\ ReservedWasRecorded
    /\ DeadLetterNeedsFaults

(* It holds at the start: nothing is stored, claimed or running.           *)
LEMMA SagaInit == Init => SagaInv
<1> SUFFICES ASSUME Init PROVE SagaInv
  OBVIOUS
<1>1. SagaTypes
  <2>1. 0 \in 0..MaxAttempts
    BY LifecycleAssumption
  <2>2. topics \subseteq Records
    BY DEF Init, Records, Foreign, Ids
  <2> QED
    BY <2>1, <2>2 DEF Init, SagaTypes, Status
<1>2. (\A t \in Threads : ThreadInv(t)) /\ ClaimsHeld
  BY LifecycleAssumption DEF Init, ThreadInv, JobFits, ClaimsHeld, ReadingOld, AttemptExplained,
                             Threads, Ids
<1>3. StagesInOrder
  BY LifecycleAssumption DEF Init, StagesInOrder, Foreign, Ids, Absent
<1>4. ReservedOnce /\ ReservedWasRecorded /\ DeadLetterNeedsFaults
  BY DEF Init, ReservedOnce, ReservedWasRecorded, DeadLetterNeedsFaults, Absent
<1> QED
  BY <1>1, <1>2, <1>3, <1>4 DEF SagaInv

(* A client's request: refused, rolled back, stored, or stored in doubt.   *)
LEMMA CreateOrderSaga ==
    ASSUME SagaInv, NEW o \in Orders, NEW outcome \in {"ok", "rolledBack", "inDoubt"},
           CreateOrder(o, outcome)
    PROVE  SagaInv'
<1> USE DEF SagaInv
<1>1. UNCHANGED <<processed, reservedRows, topics, dead, thread, faults>>
  BY DEF CreateOrder, consumed, failures
<1>2. orders[o] = Absent /\ o \in Ids
  BY DEF CreateOrder, StagesInOrder, Ids
<1>3. PICK code \in {"201", "400", "500"} :
         /\ response' = [response EXCEPT ![o] = code]
         /\ \/ code # "201" /\ UNCHANGED <<orders, createdRows>>
            \/ orders' = [orders EXCEPT ![o] = "Created"] /\ createdRows' = createdRows \cup {o}
  <2>1. CASE IsError(Requested(o))
    BY <2>1 DEF CreateOrder
  <2>2. CASE ~IsError(Requested(o))
    BY <2>2 DEF CreateOrder, save
  <2> QED
    BY <2>1, <2>2
<1>4. SagaTypes'
  <2>1. response' \in [Orders -> {"", "201", "400", "500"}]
    BY <1>3 DEF SagaTypes
  <2>2. orders' \in [Ids -> Status] /\ createdRows' \subseteq Orders
    BY <1>2, <1>3 DEF SagaTypes, Status
  <2> QED
    BY <1>1, <2>1, <2>2 DEF SagaTypes
<1>5. \A q \in Ids : orders'[q] # orders[q] => q = o /\ orders'[q] = "Created"
  BY <1>3 DEF SagaTypes
<1>6. ClaimsHeld' /\ ReservedOnce' /\ DeadLetterNeedsFaults'
  BY <1>1 DEF ClaimsHeld, ReservedOnce, DeadLetterNeedsFaults, OrderOf
<1>7. StagesInOrder'
  <2>1. \A q \in Orders : /\ response'[q] = "" => orders'[q] = Absent
                          /\ response'[q] = "201" => orders'[q] # Absent
    <3>1. \A q \in Orders : q # o => response'[q] = response[q]
      BY <1>3 DEF SagaTypes
    <3>2. \A q \in Orders : q # o => orders'[q] = orders[q]
      BY <1>5 DEF Ids
    <3>3. response'[o] \in {"201", "400", "500"}
      BY <1>3 DEF SagaTypes
    <3>4. response'[o] = "201" => orders'[o] = "Created"
      BY <1>2, <1>3 DEF SagaTypes
    <3> QED
      BY <3>1, <3>2, <3>3, <3>4 DEF StagesInOrder, Absent
  <2>2. \A q \in createdRows' : orders'[q] # Absent
    <3>1. \A q \in createdRows : q \in Ids /\ orders[q] # Absent
      BY DEF StagesInOrder, SagaTypes, Ids
    <3>2. \A q \in createdRows : orders'[q] # Absent
      BY <1>5, <3>1 DEF Absent
    <3>3. \A q \in createdRows' : q \in createdRows \/ (q = o /\ orders'[o] = "Created")
      BY <1>2, <1>3 DEF SagaTypes
    <3> QED
      BY <3>2, <3>3 DEF Absent
  <2>3. createdRows \subseteq createdRows'
    BY <1>3
  <2> QED
    BY <1>1, <2>1, <2>2, <2>3 DEF StagesInOrder
<1>8. \A t \in Threads : ThreadInv(t)'
  <2>1. \A q \in Ids : orders[q] # Absent => orders'[q] = orders[q]
    BY <1>2, <1>5
  <2> QED
    BY <1>1, <2>1 DEF ThreadInv, JobFits, ReadingOld, AttemptExplained, LostRace, OrderOf, Threads
<1>9. ReservedWasRecorded'
  BY <1>1, <1>5 DEF ReservedWasRecorded
<1> QED
  BY <1>4, <1>6, <1>7, <1>8, <1>9

(* The publishers of the two services.                                     *)
LEMMA PublishSaga ==
    ASSUME SagaInv, NEW o \in Ids,
           (o \in Orders /\ PublishCreated(o)) \/ PublishReserved(o)
    PROVE  SagaInv'
<1> USE DEF SagaInv
<1>1. UNCHANGED <<orders, response, createdRows, processed, reservedRows, dead, thread, faults>>
  BY DEF PublishCreated, PublishReserved, consumed, failures
<1>2. PICK topic \in {"created", "reserved"} :
         /\ topics' = topics \cup {<<topic, o>>}
         /\ topic = "created" => o \in createdRows
         /\ topic = "reserved" => reservedRows[o] > 0
  BY DEF PublishCreated, PublishReserved
<1>3. \A c, q : <<c, q>> \in topics' <=> <<c, q>> \in topics \/ (c = topic /\ q = o)
  BY <1>2
<1>4. SagaTypes'
  <2>1. <<topic, o>> \in Records
    BY DEF Records
  <2> QED
    BY <1>1, <1>2, <2>1 DEF SagaTypes
<1>5. ClaimsHeld' /\ \A t \in Threads : ThreadInv(t)'
  BY <1>1, <1>2 DEF ThreadInv, JobFits, ClaimsHeld, ReadingOld, AttemptExplained, LostRace, OrderOf
<1>6. ReservedOnce' /\ ReservedWasRecorded' /\ DeadLetterNeedsFaults'
  BY <1>1 DEF ReservedOnce, ReservedWasRecorded, DeadLetterNeedsFaults
<1>7. topic = "reserved" => processed[o] = "yes"
  BY <1>2 DEF ReservedOnce
<1>8. StagesInOrder'
  BY <1>1, <1>2, <1>3, <1>7 DEF StagesInOrder
<1> QED
  BY <1>4, <1>5, <1>6, <1>8

(* Somebody else changes the status of an order.                           *)
LEMMA OverrideSaga ==
    ASSUME SagaInv, NEW o \in Orders, NEW status \in {"Shipped", "Cancelled"},
           Override(o, status)
    PROVE  SagaInv'
<1> USE DEF SagaInv
<1>1. /\ UNCHANGED <<response, createdRows, processed, reservedRows, topics, dead, thread, faults>>
      /\ orders' = [orders EXCEPT ![o] = status]
      /\ orders[o] # Absent /\ o \in Ids
  BY DEF Override, consumed, failures, Ids, Absent
<1>2. SagaTypes'
  BY <1>1 DEF SagaTypes, Status
<1>3. \A q \in Ids : \/ orders'[q] = orders[q]
                     \/ q = o /\ orders'[q] \in {"Shipped", "Cancelled"}
  BY <1>1 DEF SagaTypes
<1>4. ClaimsHeld' /\ ReservedOnce' /\ DeadLetterNeedsFaults'
  BY <1>1 DEF ClaimsHeld, ReservedOnce, DeadLetterNeedsFaults, OrderOf
<1>5. StagesInOrder'
  BY <1>1, <1>3 DEF StagesInOrder, SagaTypes, Ids, Absent
<1>6. \A t \in Threads : ThreadInv(t)'
  BY <1>1, <1>3 DEF ThreadInv, JobFits, ReadingOld, AttemptExplained, LostRace, OrderOf, Threads, Absent
<1>7. ReservedWasRecorded'
  BY <1>1, <1>3 DEF ReservedWasRecorded
<1> QED
  BY <1>2, <1>4, <1>5, <1>6, <1>7

-----------------------------------------------------------------------------
(* Steps of threads *)

(* What a thread that is not idle holds.                                   *)
LEMMA JobTypes ==
    ASSUME SagaInv, NEW t \in Threads, thread[t] # Idle
    PROVE  /\ thread[t] \in Job
           /\ thread[t].record \in Records
           /\ thread[t].attempt \in 1..MaxAttempts
           /\ faults[thread[t].record] \in 0..MaxAttempts
           /\ thread[t].seen \in Status
           /\ MaxAttempts \in Nat
<1>1. thread[t] \in Job
  BY DEF SagaInv, SagaTypes
<1>2. thread[t].record \in Records /\ thread[t].attempt \in 1..MaxAttempts /\ thread[t].seen \in Status
  BY <1>1 DEF Job
<1> QED
  BY <1>1, <1>2, LifecycleAssumption DEF SagaInv, SagaTypes

(* A step of thread t leaves the others as they are, changes no status but *)
(* from Created to Reserved, and forgets no fault: what holds of the other *)
(* threads goes on to hold.                                                *)
LEMMA OtherThreads ==
    ASSUME SagaInv, NEW t \in Threads,
           \A u \in Threads \ {t} : thread'[u] = thread[u],
           topics' = topics,
           \A q \in Ids : \/ orders'[q] = orders[q]
                          \/ orders[q] = "Created" /\ orders'[q] = "Reserved",
           \A r \in Records : faults'[r] >= faults[r],
           faults' \in [Records -> 0..MaxAttempts]
    PROVE  \A u \in Threads \ {t} : ThreadInv(u)'
<1> SUFFICES ASSUME NEW u \in Threads, u # t PROVE ThreadInv(u)'
  OBVIOUS
<1>0. thread'[u] = thread[u] /\ ThreadInv(u)
  BY DEF SagaInv
<1>1. JobFits(u)'
  BY <1>0 DEF ThreadInv, JobFits, OrderOf
<1>2. ReadingOld(u)'
  BY <1>0 DEF ThreadInv, JobFits, ReadingOld, OrderOf, Absent
<1>3. AttemptExplained(u)'
  <2> SUFFICES ASSUME thread[u] # Idle
               PROVE  \/ faults'[thread[u].record] >= thread[u].attempt - 1
                      \/ faults'[thread[u].record] >= thread[u].attempt - 2 /\ LostRace(u)'
    BY <1>0 DEF AttemptExplained
  <2>1. /\ thread[u].record \in Records /\ thread[u].attempt \in 1..MaxAttempts
        /\ faults[thread[u].record] \in 0..MaxAttempts /\ MaxAttempts \in Nat
    BY JobTypes
  <2>2. faults'[thread[u].record] \in 0..MaxAttempts
    BY <2>1
  <2>3. LostRace(u) => LostRace(u)'
    BY <1>0 DEF LostRace, OrderOf, Absent
  <2> QED
    BY <1>0, <2>1, <2>2, <2>3 DEF ThreadInv, AttemptExplained
<1> QED
  BY <1>1, <1>2, <1>3 DEF ThreadInv

(* The handler failed: the next attempt, or the dead letter topic, finds   *)
(* its failures counted.                                                   *)
LEMMA RetryKeeps ==
    ASSUME SagaInv, NEW t \in Threads, thread[t] # Idle, Retry(t), topics' = topics,
           faults' \in [Records -> 0..MaxAttempts],
           \A r \in Records : faults'[r] >= faults[r],
           \/ faults'[thread[t].record] >= thread[t].attempt
           \/ /\ faults'[thread[t].record] >= thread[t].attempt - 1
              /\ t \in OrderThreads /\ OrderOf(t) \in Ids
              /\ orders'[OrderOf(t)] \notin {"Created", Absent}
    PROVE  /\ thread' \in [Threads -> {Idle} \cup Job]
           /\ dead' \subseteq Records
           /\ \A u \in Threads \ {t} : thread'[u] = thread[u]
           /\ thread'[t] = Idle \/ thread'[t].at = "handle"
           /\ ThreadInv(t)'
           /\ DeadLetterNeedsFaults'
<1> DEFINE r == thread[t].record
           n == thread[t].attempt
<1>0. /\ r \in Records /\ n \in 1..MaxAttempts /\ MaxAttempts \in Nat
      /\ faults[r] \in 0..MaxAttempts /\ faults'[r] \in 0..MaxAttempts
      /\ thread \in [Threads -> {Idle} \cup Job] /\ dead \subseteq Records
  BY JobTypes DEF SagaInv, SagaTypes
<1>1. DeadLetterNeedsFaults /\ JobFits(t)
  BY DEF SagaInv, ThreadInv
<1>2. \A q \in dead : faults'[q] >= MaxAttempts - 1
  <2> SUFFICES ASSUME NEW q \in dead PROVE faults'[q] >= MaxAttempts - 1
    OBVIOUS
  <2>1. q \in Records /\ faults[q] >= MaxAttempts - 1 /\ faults'[q] >= faults[q]
    BY <1>0, <1>1 DEF DeadLetterNeedsFaults
  <2>2. faults[q] \in 0..MaxAttempts /\ faults'[q] \in 0..MaxAttempts
    BY <2>1 DEF SagaInv, SagaTypes
  <2> QED
    BY <1>0, <2>1, <2>2
<1>3. CASE n < MaxAttempts
  <2> DEFINE job == Running(r, "handle", n + 1, Absent)
  <2>1. thread' = [thread EXCEPT ![t] = job] /\ dead' = dead
    BY <1>3 DEF Retry, consumed
  <2>2. job \in Job /\ job.record = r /\ job.attempt = n + 1 /\ job.at = "handle"
    BY <1>0, <1>3 DEF Running, Job, Status
  <2> HIDE DEF job
  <2>3. thread'[t] = job
    BY <1>0, <2>1
  <2>4. OrderOf(t)' = OrderOf(t)
    BY <2>2, <2>3 DEF OrderOf
  <2>5. JobFits(t)'
    BY <1>1, <2>2, <2>3 DEF JobFits, OrderOf
  <2>6. ReadingOld(t)'
    BY <2>2, <2>3 DEF ReadingOld
  <2>7. AttemptExplained(t)'
    <3>1. CASE faults'[r] >= n
      BY <3>1, <1>0, <2>2, <2>3 DEF AttemptExplained
    <3>2. CASE /\ faults'[r] >= n - 1
               /\ t \in OrderThreads /\ OrderOf(t) \in Ids
               /\ orders'[OrderOf(t)] \notin {"Created", Absent}
      <4>1. LostRace(t)'
        BY <3>2, <2>2, <2>3, <2>4 DEF LostRace
      <4> QED
        BY <3>2, <4>1, <1>0, <2>2, <2>3 DEF AttemptExplained
    <3> QED
      BY <3>1, <3>2
  <2> QED
    BY <1>0, <1>2, <2>1, <2>2, <2>3, <2>5, <2>6, <2>7 DEF ThreadInv, DeadLetterNeedsFaults
<1>4. CASE n >= MaxAttempts
  <2>1. thread' = [thread EXCEPT ![t] = Idle] /\ dead' = dead \cup {r}
    BY <1>0, <1>4 DEF Retry
  <2>2. thread'[t] = Idle
    BY <1>0, <2>1
  <2>3. ThreadInv(t)'
    BY <2>2 DEF ThreadInv, JobFits, ReadingOld, AttemptExplained
  <2>4. faults'[r] >= MaxAttempts - 1
    BY <1>0, <1>4
  <2> QED
    BY <1>0, <1>2, <2>1, <2>2, <2>3, <2>4 DEF DeadLetterNeedsFaults
<1> QED
  BY <1>0, <1>3, <1>4

(* A failing query is counted, up to MaxAttempts.                          *)
LEMMA QueryFailsCounts ==
    ASSUME SagaInv, NEW t \in Threads, thread[t] # Idle, NEW how, QueryFails(t, how)
    PROVE  /\ faults' \in [Records -> 0..MaxAttempts]
           /\ \A r \in Records : faults'[r] >= faults[r]
           /\ \/ faults'[thread[t].record] >= faults[thread[t].record] + 1
              \/ faults'[thread[t].record] = MaxAttempts
<1> DEFINE r == thread[t].record
           m == Min({faults[r] + 1, MaxAttempts})
<1>0. /\ r \in Records /\ MaxAttempts \in Nat /\ faults[r] \in 0..MaxAttempts
      /\ faults \in [Records -> 0..MaxAttempts]
  BY JobTypes DEF SagaInv, SagaTypes
<1>1. m \in {faults[r] + 1, MaxAttempts} /\ m <= faults[r] + 1 /\ m <= MaxAttempts
  <2>1. faults[r] + 1 \in Int /\ MaxAttempts \in Int
    BY <1>0
  <2>2. \A a, b \in Int : \E x \in {a, b} : \A y \in {a, b} : x <= y
    OBVIOUS
  <2>3. \E x \in {faults[r] + 1, MaxAttempts} : \A y \in {faults[r] + 1, MaxAttempts} : x <= y
    BY <2>1, <2>2
  <2> QED
    BY <2>3 DEF Min
<1>2. faults' = [faults EXCEPT ![r] = m]
  BY DEF QueryFails
<1> HIDE DEF m
<1>3. m \in 0..MaxAttempts /\ m >= faults[r]
  BY <1>0, <1>1
<1>4. \A q \in Records : faults[q] \in Int
  BY <1>0
<1> QED
  BY <1>0, <1>1, <1>2, <1>3, <1>4

(* What a step of thread t has to show.                                    *)
LEMMA ThreadStepSaga ==
    ASSUME SagaInv, SagaTypes', NEW t \in Threads,
           UNCHANGED <<response, createdRows, topics>>,
           \A u \in Threads \ {t} : thread'[u] = thread[u],
           \A r \in Records : faults'[r] >= faults[r],
           \A q \in Ids : \/ orders'[q] = orders[q]
                          \/ /\ orders[q] = "Created" /\ orders'[q] = "Reserved"
                             /\ processed[q] = "yes",
           \A q \in Ids : /\ processed[q] = "yes" => processed'[q] = "yes"
                          /\ processed'[q] # "no" =>
                                processed[q] # "no" \/ <<"created", q>> \in topics,
           ThreadInv(t)', ClaimsHeld', ReservedOnce', DeadLetterNeedsFaults'
    PROVE  SagaInv'
<1>0. StagesInOrder /\ ReservedWasRecorded /\ SagaTypes
  BY DEF SagaInv
<1>1. \A u \in Threads \ {t} : ThreadInv(u)'
  BY OtherThreads DEF SagaTypes
<1>2. StagesInOrder'
  <2>1. \A q \in Ids : orders'[q] = Absent <=> orders[q] = Absent
    BY DEF Absent
  <2>2. createdRows \subseteq Ids /\ Orders \subseteq Ids
    BY <1>0 DEF SagaTypes, Ids
  <2> QED
    BY <1>0, <2>1, <2>2 DEF StagesInOrder
<1>3. ReservedWasRecorded'
  BY <1>0 DEF ReservedWasRecorded
<1> QED
  BY <1>1, <1>2, <1>3 DEF SagaInv

(* Faults that do not change are not forgotten.                            *)
LEMMA SameFaults ==
    ASSUME SagaInv, faults' = faults
    PROVE  \A r \in Records : faults'[r] >= faults[r]
<1>1. \A r \in Records : faults[r] \in 0..MaxAttempts
  BY DEF SagaInv, SagaTypes
<1> QED
  BY <1>1, LifecycleAssumption

(* After a step of t that does not leave it about to commit, the claims    *)
(* are those of the other threads.                                         *)
LEMMA ClaimsAfter ==
    ASSUME SagaInv, NEW t \in Threads,
           \A u \in Threads \ {t} : thread'[u] = thread[u],
           thread'[t] = Idle \/ thread'[t].at # "commit",
           \A q \in Ids : /\ processed'[q] # t
                          /\ \/ processed'[q] = processed[q]
                             \/ processed[q] = t /\ processed'[q] \in {"yes", "no"}
    PROVE  ClaimsHeld'
<1> SUFFICES ASSUME NEW u \in Threads, NEW q \in Ids
             PROVE  processed'[q] = u <=>
                       thread'[u] # Idle /\ thread'[u].at = "commit" /\ OrderOf(u)' = q
  BY DEF ClaimsHeld
<1>1. u \notin {"yes", "no"}
  BY LifecycleAssumption DEF Threads
<1>2. CASE u = t
  BY <1>2
<1>3. CASE u # t
  BY <1>1, <1>3 DEF SagaInv, ClaimsHeld, OrderOf
<1> QED
  BY <1>2, <1>3

(* A thread that is not about to commit has claimed nothing.               *)
LEMMA NoClaim ==
    ASSUME SagaInv, NEW t \in Threads, thread[t] = Idle \/ thread[t].at # "commit"
    PROVE  \A q \in Ids : processed[q] # t
BY DEF SagaInv, ClaimsHeld

(* The consumer hands a record to an idle thread.                          *)
LEMMA DeliverSaga ==
    ASSUME SagaInv, NEW t \in Threads, NEW r \in topics, Deliver(t, r)
    PROVE  SagaInv'
<1> DEFINE job == Running(r, "handle", 1, Absent)
<1>0. SagaTypes /\ ClaimsHeld /\ ReservedOnce /\ DeadLetterNeedsFaults
  BY DEF SagaInv
<1>1. /\ UNCHANGED <<orders, response, createdRows, processed, reservedRows, topics, dead, faults>>
      /\ thread' = [thread EXCEPT ![t] = job]
      /\ thread[t] = Idle /\ r[1] = TopicOf(t)
  BY DEF Deliver, consumed, failures
<1>2. r \in Records /\ 1 \in 1..MaxAttempts /\ faults[r] \in 0..MaxAttempts
  <2>1. 1 \in 1..MaxAttempts
    BY LifecycleAssumption
  <2>2. r \in Records
    BY <1>0 DEF SagaTypes
  <2> QED
    BY <1>0, <2>1, <2>2 DEF SagaTypes
<1>3. job \in Job /\ job.record = r /\ job.at = "handle" /\ job.attempt = 1
  BY <1>2 DEF Running, Job, Status
<1> HIDE DEF job
<1>4. thread'[t] = job /\ \A u \in Threads \ {t} : thread'[u] = thread[u]
  BY <1>0, <1>1 DEF SagaTypes
<1>5. SagaTypes'
  BY <1>0, <1>1, <1>3 DEF SagaTypes
<1>6. ThreadInv(t)'
  <2>1. JobFits(t)' /\ ReadingOld(t)'
    BY <1>1, <1>3, <1>4 DEF JobFits, ReadingOld
  <2>2. AttemptExplained(t)'
    BY <1>1, <1>2, <1>3, <1>4, LifecycleAssumption DEF AttemptExplained
  <2> QED
    BY <2>1, <2>2 DEF ThreadInv
<1>7. ClaimsHeld'
  BY <1>1, <1>3, <1>4, NoClaim, ClaimsAfter
<1>8. ReservedOnce' /\ DeadLetterNeedsFaults'
  BY <1>0, <1>1 DEF ReservedOnce, DeadLetterNeedsFaults
<1> QED
  BY <1>1, <1>4, <1>5, <1>6, <1>7, <1>8, SameFaults, ThreadStepSaga

(* A thread that becomes idle satisfies its part of the invariant.         *)
LEMMA IdleThread ==
    ASSUME SagaInv, NEW t \in Threads, thread' = [thread EXCEPT ![t] = Idle]
    PROVE  /\ thread' \in [Threads -> {Idle} \cup Job]
           /\ thread'[t] = Idle
           /\ \A u \in Threads \ {t} : thread'[u] = thread[u]
           /\ ThreadInv(t)'
<1>1. thread \in [Threads -> {Idle} \cup Job]
  BY DEF SagaInv, SagaTypes
<1>2. thread'[t] = Idle
  BY <1>1
<1> QED
  BY <1>1, <1>2 DEF ThreadInv, JobFits, ReadingOld, AttemptExplained

(* The process of t dies or leaves the group: its claim is rolled back.    *)
LEMMA AbandonSaga ==
    ASSUME SagaInv, NEW t \in Threads, Abandon(t)
    PROVE  SagaInv'
<1>0. SagaTypes /\ ClaimsHeld /\ ReservedOnce /\ DeadLetterNeedsFaults
  BY DEF SagaInv
<1>1. /\ UNCHANGED <<orders, response, createdRows, reservedRows, topics, dead, faults>>
      /\ thread' = [thread EXCEPT ![t] = Idle]
      /\ processed' = Released(t)
  BY DEF Abandon, consumed
<1>2. \A q \in Ids : processed'[q] = IF processed[q] = t THEN "no" ELSE processed[q]
  BY <1>1 DEF Released
<1>3. t \notin {"yes", "no"}
  BY LifecycleAssumption DEF Threads
<1>4. SagaTypes'
  BY <1>0, <1>1, IdleThread DEF SagaTypes, Released
<1>5. ClaimsHeld'
  <2>1. \A q \in Ids : /\ processed'[q] # t
                       /\ \/ processed'[q] = processed[q]
                          \/ processed[q] = t /\ processed'[q] \in {"yes", "no"}
    BY <1>2, <1>3
  <2> QED
    BY <1>1, <2>1, IdleThread, ClaimsAfter
<1>6. ReservedOnce' /\ DeadLetterNeedsFaults'
  BY <1>0, <1>1, <1>2, <1>3 DEF ReservedOnce, DeadLetterNeedsFaults
<1> QED
  BY <1>1, <1>2, <1>3, <1>4, <1>5, <1>6, IdleThread, SameFaults, ThreadStepSaga

(* The handler of t goes on to another place, with the order it has read.  *)
LEMMA GoToKeeps ==
    ASSUME SagaInv, NEW t \in Threads, thread[t] # Idle,
           NEW at \in {"insert", "commit", "decide", "update"}, NEW seen \in Status,
           GoTo(t, at, seen)
    PROVE  /\ thread' \in [Threads -> {Idle} \cup Job]
           /\ \A u \in Threads \ {t} : thread'[u] = thread[u]
           /\ thread'[t] # Idle
           /\ thread'[t].at = at /\ thread'[t].seen = seen
           /\ thread'[t].record = thread[t].record
           /\ thread'[t].attempt = thread[t].attempt
           /\ OrderOf(t)' = OrderOf(t)
           /\ dead' = dead
<1> DEFINE job == Running(thread[t].record, at, thread[t].attempt, seen)
<1>1. thread \in [Threads -> {Idle} \cup Job]
  BY DEF SagaInv, SagaTypes
<1>2. thread' = [thread EXCEPT ![t] = job] /\ dead' = dead
  BY DEF GoTo, consumed
<1>3. /\ job \in Job /\ job.at = at /\ job.seen = seen
      /\ job.record = thread[t].record /\ job.attempt = thread[t].attempt
  BY JobTypes DEF Running, Job
<1> HIDE DEF job
<1>4. thread'[t] = job
  BY <1>1, <1>2
<1>5. job # Idle
  BY <1>3 DEF Idle
<1> QED
  BY <1>1, <1>2, <1>3, <1>4, <1>5 DEF OrderOf

(* The handler of t returned true.                                         *)
LEMMA SucceedKeeps ==
    ASSUME SagaInv, NEW t \in Threads, Succeed(t)
    PROVE  /\ thread' = [thread EXCEPT ![t] = Idle]
           /\ dead' = dead
BY DEF Succeed

-----------------------------------------------------------------------------
(* worker-service *)

(* The payload is parsed and the items are reserved.                       *)
LEMMA ReserveItemsSaga ==
    ASSUME SagaInv, NEW t \in WorkerThreads, ReserveItems(t)
    PROVE  SagaInv'
<1>0. SagaTypes /\ ReservedOnce /\ DeadLetterNeedsFaults /\ t \in Threads
  BY DEF SagaInv, Threads
<1>1. /\ UNCHANGED <<orders, response, createdRows, processed, reservedRows, topics, faults>>
      /\ thread[t].at = "handle" /\ thread[t] # Idle
  BY DEF ReserveItems, failures, Idle
<1>2. \A q \in Ids : processed'[q] # t
  BY <1>0, <1>1, NoClaim
<1>3. CASE OrderOf(t) \in Malformed
  <2>1. thread' = [thread EXCEPT ![t] = Idle] /\ dead' = dead
    BY <1>3, <1>0, SucceedKeeps DEF ReserveItems
  <2>2. SagaTypes' /\ ReservedOnce' /\ DeadLetterNeedsFaults'
    BY <1>0, <1>1, <2>1, IdleThread DEF SagaTypes, ReservedOnce, DeadLetterNeedsFaults
  <2>3. ClaimsHeld'
    BY <1>0, <1>1, <1>2, <2>1, IdleThread, ClaimsAfter
  <2> QED
    BY <1>0, <1>1, <2>1, <2>2, <2>3, IdleThread, SameFaults, ThreadStepSaga
<1>4. CASE OrderOf(t) \notin Malformed
  <2>1. GoTo(t, "insert", Absent) /\ Absent \in Status
    BY <1>4 DEF ReserveItems, Status
  <2>2. SagaTypes' /\ ReservedOnce' /\ DeadLetterNeedsFaults'
    BY <1>0, <1>1, <2>1, GoToKeeps DEF SagaTypes, ReservedOnce, DeadLetterNeedsFaults
  <2>3. ClaimsHeld'
    BY <1>0, <1>1, <1>2, <2>1, GoToKeeps, ClaimsAfter
  <2>4. t \notin OrderThreads
    BY LifecycleAssumption
  <2>5. OrderOf(t) \in Ids
    BY <1>0, <1>1, <1>4, JobTypes DEF Records, OrderOf
  <2>6. ThreadInv(t)'
    <3>1. ThreadInv(t)
      BY <1>0 DEF SagaInv
    <3> QED
      BY <1>0, <1>1, <2>1, <2>4, <2>5, <3>1, GoToKeeps
      DEF ThreadInv, JobFits, ReadingOld, AttemptExplained, LostRace
  <2> QED
    BY <1>0, <1>1, <2>1, <2>2, <2>3, <2>6, GoToKeeps, SameFaults, ThreadStepSaga
<1> QED
  BY <1>3, <1>4

(* The event id is claimed, or found to be processed.                      *)
LEMMA InsertProcessedSaga ==
    ASSUME SagaInv, NEW t \in WorkerThreads, InsertProcessed(t)
    PROVE  SagaInv'
<1> DEFINE o == OrderOf(t)
<1>0. SagaTypes /\ ReservedOnce /\ DeadLetterNeedsFaults /\ ClaimsHeld /\ ThreadInv(t) /\ t \in Threads
  BY DEF SagaInv, Threads
<1>1. /\ UNCHANGED <<orders, response, createdRows, reservedRows, topics, faults>>
      /\ thread[t].at = "insert" /\ thread[t] # Idle
  BY DEF InsertProcessed, failures, Idle
<1>2. \A q \in Ids : processed[q] # t
  BY <1>0, <1>1, NoClaim
<1>3. o \in Ids /\ <<"created", o>> \in topics
  <2>1. /\ o \in Ids /\ thread[t].record \in topics /\ thread[t].record[1] = "created"
        /\ thread[t].record \in Records
    BY <1>0, <1>1, JobTypes DEF ThreadInv, JobFits, TopicOf
  <2> QED
    BY <2>1 DEF Records, OrderOf
<1>4. t \notin OrderThreads /\ t \notin {"yes", "no"}
  BY <1>0, LifecycleAssumption DEF Threads
<1> HIDE DEF o
<1>5. CASE processed[o] = "yes"
  <2>1. thread' = [thread EXCEPT ![t] = Idle] /\ dead' = dead /\ processed' = processed
    BY <1>0, <1>5, SucceedKeeps DEF InsertProcessed, o
  <2>2. SagaTypes' /\ ReservedOnce' /\ DeadLetterNeedsFaults'
    BY <1>0, <1>1, <2>1, IdleThread DEF SagaTypes, ReservedOnce, DeadLetterNeedsFaults
  <2>3. ClaimsHeld'
    BY <1>0, <1>2, <2>1, IdleThread, ClaimsAfter
  <2> QED
    BY <1>0, <1>1, <2>1, <2>2, <2>3, IdleThread, SameFaults, ThreadStepSaga
<1>6. CASE processed[o] # "yes"
  <2>1. /\ processed[o] = "no"
        /\ processed' = [processed EXCEPT ![o] = t]
        /\ GoTo(t, "commit", Absent) /\ Absent \in Status
    BY <1>6 DEF InsertProcessed, Status, o
  <2>2. \A q \in Ids : processed'[q] = IF q = o THEN t ELSE processed[q]
    BY <1>0, <2>1 DEF SagaTypes
  <2>3. SagaTypes'
    BY <1>0, <1>1, <1>3, <2>1, GoToKeeps DEF SagaTypes
  <2>4. ReservedOnce' /\ DeadLetterNeedsFaults'
    BY <1>0, <1>1, <1>4, <2>1, <2>2, GoToKeeps DEF ReservedOnce, DeadLetterNeedsFaults
  <2>5. ClaimsHeld'
    <3> SUFFICES ASSUME NEW u \in Threads, NEW q \in Ids
                 PROVE  processed'[q] = u <=>
                           thread'[u] # Idle /\ thread'[u].at = "commit" /\ OrderOf(u)' = q
      BY DEF ClaimsHeld
    <3>1. u \notin {"yes", "no"}
      BY LifecycleAssumption DEF Threads
    <3>2. CASE u = t
      BY <1>0, <1>1, <1>2, <2>1, <2>2, <3>2, GoToKeeps DEF o
    <3>3. CASE u # t
      BY <1>0, <1>1, <2>1, <2>2, <3>1, <3>3, GoToKeeps DEF ClaimsHeld, OrderOf
    <3> QED
      BY <3>2, <3>3
  <2>6. ThreadInv(t)'
    BY <1>0, <1>1, <1>4, <2>1, GoToKeeps
    DEF ThreadInv, JobFits, ReadingOld, AttemptExplained, LostRace
  <2>7. \A q \in Ids : /\ processed[q] = "yes" => processed'[q] = "yes"
                       /\ processed'[q] # "no" =>
                             processed[q] # "no" \/ <<"created", q>> \in topics
    BY <1>3, <2>1, <2>2
  <2> QED
    BY <1>0, <1>1, <2>1, <2>3, <2>4, <2>5, <2>6, <2>7, GoToKeeps, SameFaults, ThreadStepSaga
<1> QED
  BY <1>5, <1>6

(* A thread about to commit has the one claim on its order.                *)
LEMMA CommitHasClaim ==
    ASSUME SagaInv, NEW t \in Threads, thread[t] # Idle, thread[t].at = "commit"
    PROVE  OrderOf(t) \in Ids /\ \A q \in Ids : processed[q] = t <=> q = OrderOf(t)
<1>1. OrderOf(t) \in Ids
  BY DEF SagaInv, ThreadInv, JobFits
<1> QED
  BY <1>1 DEF SagaInv, ClaimsHeld

(* The transaction of t commits: event id and outbox row together.         *)
LEMMA CommittedKeeps ==
    ASSUME SagaInv, NEW t \in Threads, thread[t] # Idle, thread[t].at = "commit",
           ReservationCommitted(t)
    PROVE  /\ processed' \in [Ids -> Threads \cup {"yes", "no"}]
           /\ reservedRows' \in [Ids -> Nat]
           /\ \A q \in Ids : /\ processed'[q] # t
                             /\ \/ processed'[q] = processed[q]
                                \/ processed[q] = t /\ processed'[q] = "yes"
           /\ ReservedOnce'
<1> DEFINE o == OrderOf(t)
<1>0. /\ o \in Ids /\ \A q \in Ids : processed[q] = t <=> q = o
      /\ processed \in [Ids -> Threads \cup {"yes", "no"}] /\ reservedRows \in [Ids -> Nat]
      /\ ReservedOnce
  BY CommitHasClaim DEF SagaInv, SagaTypes
<1>1. /\ processed' = [processed EXCEPT ![o] = "yes"]
      /\ reservedRows' = [reservedRows EXCEPT ![o] = @ + 1]
  BY DEF ReservationCommitted
<1>2. t \notin {"yes", "no"}
  BY LifecycleAssumption DEF Threads
<1> HIDE DEF o
<1>3. reservedRows[o] = 0
  BY <1>0, <1>2 DEF ReservedOnce
<1>4. ReservedOnce'
  BY <1>0, <1>1, <1>3 DEF ReservedOnce
<1> QED
  BY <1>0, <1>1, <1>2, <1>4

LEMMA CommitReservationSaga ==
    ASSUME SagaInv, NEW t \in WorkerThreads, CommitReservation(t)
    PROVE  SagaInv'
<1>0. SagaTypes /\ DeadLetterNeedsFaults /\ t \in Threads
  BY DEF SagaInv, Threads
<1>1. /\ UNCHANGED <<orders, response, createdRows, topics, faults>>
      /\ thread[t].at = "commit" /\ thread[t] # Idle
      /\ ReservationCommitted(t)
      /\ thread' = [thread EXCEPT ![t] = Idle] /\ dead' = dead
  BY <1>0, SucceedKeeps DEF CommitReservation, failures, Idle
<1>2. /\ processed' \in [Ids -> Threads \cup {"yes", "no"}]
      /\ reservedRows' \in [Ids -> Nat]
      /\ \A q \in Ids : /\ processed'[q] # t
                        /\ \/ processed'[q] = processed[q]
                           \/ processed[q] = t /\ processed'[q] = "yes"
      /\ ReservedOnce'
  BY <1>0, <1>1, CommittedKeeps
<1>3. SagaTypes' /\ DeadLetterNeedsFaults'
  BY <1>0, <1>1, <1>2, IdleThread DEF SagaTypes, DeadLetterNeedsFaults
<1>4. ClaimsHeld'
  BY <1>0, <1>1, <1>2, IdleThread, ClaimsAfter
<1>5. t \notin {"yes", "no"}
  BY <1>0, LifecycleAssumption DEF Threads
<1>6. \A q \in Ids : /\ processed[q] = "yes" => processed'[q] = "yes"
                     /\ processed'[q] # "no" => processed[q] # "no"
  BY <1>2, <1>5
<1> QED
  BY <1>0, <1>1, <1>2, <1>3, <1>4, <1>6, IdleThread, SameFaults, ThreadStepSaga

(* The transaction of t throws: rolled back, or applied all the same.      *)
LEMMA ReservationFailsSaga ==
    ASSUME SagaInv, NEW t \in WorkerThreads, NEW how \in {"error", "lost", "inDoubt"},
           ReservationFails(t, how)
    PROVE  SagaInv'
<1>0. SagaTypes /\ ReservedOnce /\ ThreadInv(t) /\ t \in Threads
  BY DEF SagaInv, Threads
<1>1. /\ UNCHANGED <<orders, response, createdRows, topics>>
      /\ thread[t].at \in {"insert", "commit"} /\ thread[t] # Idle
      /\ QueryFails(t, how) /\ Retry(t)
  BY DEF ReservationFails, Idle
<1>2. t \notin OrderThreads /\ t \notin {"yes", "no"}
  BY <1>0, LifecycleAssumption DEF Threads
<1>3. faults[thread[t].record] >= thread[t].attempt - 1
  BY <1>0, <1>1, <1>2 DEF ThreadInv, AttemptExplained, LostRace
<1>4. faults'[thread[t].record] >= thread[t].attempt
  <2>1. /\ thread[t].attempt \in 1..MaxAttempts /\ MaxAttempts \in Nat
        /\ faults[thread[t].record] \in 0..MaxAttempts /\ thread[t].record \in Records
    BY <1>0, <1>1, JobTypes
  <2>2. faults'[thread[t].record] \in 0..MaxAttempts
    BY <1>0, <1>1, <2>1, QueryFailsCounts
  <2> QED
    BY <1>0, <1>1, <1>3, <2>1, <2>2, QueryFailsCounts
<1>5. /\ faults' \in [Records -> 0..MaxAttempts]
      /\ \A r \in Records : faults'[r] >= faults[r]
  BY <1>0, <1>1, QueryFailsCounts
<1>6. /\ thread' \in [Threads -> {Idle} \cup Job]
      /\ dead' \subseteq Records
      /\ \A u \in Threads \ {t} : thread'[u] = thread[u]
      /\ thread'[t] = Idle \/ thread'[t].at = "handle"
      /\ ThreadInv(t)'
      /\ DeadLetterNeedsFaults'
  BY <1>0, <1>1, <1>4, <1>5, RetryKeeps
<1>7. /\ processed' \in [Ids -> Threads \cup {"yes", "no"}]
      /\ reservedRows' \in [Ids -> Nat]
      /\ \A q \in Ids : /\ processed'[q] # t
                        /\ \/ processed'[q] = processed[q]
                           \/ processed[q] = t /\ processed'[q] \in {"yes", "no"}
      /\ ReservedOnce'
  <2>1. CASE how = "inDoubt"
    BY <1>0, <1>1, <2>1, CommittedKeeps DEF ReservationFails
  <2>2. CASE how # "inDoubt"
    <3>1. processed' = Released(t) /\ reservedRows' = reservedRows
      BY <2>2 DEF ReservationFails
    <3>2. \A q \in Ids : processed'[q] = IF processed[q] = t THEN "no" ELSE processed[q]
      BY <3>1 DEF Released
    <3>3. processed' \in [Ids -> Threads \cup {"yes", "no"}]
      BY <1>0, <3>1 DEF Released, SagaTypes
    <3>4. ReservedOnce'
      BY <1>0, <1>2, <3>1, <3>2 DEF ReservedOnce
    <3> QED
      BY <1>0, <1>2, <3>1, <3>2, <3>3, <3>4 DEF SagaTypes
  <2> QED
    BY <2>1, <2>2
<1>8. SagaTypes'
  BY <1>0, <1>1, <1>5, <1>6, <1>7 DEF SagaTypes
<1>9. ClaimsHeld'
  BY <1>0, <1>6, <1>7, ClaimsAfter
<1>10. \A q \in Ids : /\ processed[q] = "yes" => processed'[q] = "yes"
                      /\ processed'[q] # "no" => processed[q] # "no"
  BY <1>2, <1>7
<1> QED
  BY <1>0, <1>1, <1>5, <1>6, <1>7, <1>8, <1>9, <1>10, ThreadStepSaga

-----------------------------------------------------------------------------
(* order-service *)

(* A thread of order-service works on an order whose reservation is        *)
(* recorded; unless the order is a stray one, it is stored.                *)
LEMMA OrderThreadRecord ==
    ASSUME SagaInv, NEW t \in OrderThreads, thread[t] # Idle, OrderOf(t) \in Ids
    PROVE  /\ processed[OrderOf(t)] = "yes"
           /\ OrderOf(t) \in Orders => orders[OrderOf(t)] # Absent
<1> DEFINE o == OrderOf(t)
<1>0. t \in Threads /\ t \notin WorkerThreads /\ ThreadInv(t) /\ StagesInOrder
  BY LifecycleAssumption DEF SagaInv, Threads
<1>1. /\ thread[t].record \in Records /\ thread[t].record \in topics
      /\ thread[t].record[1] = "reserved"
  BY <1>0, JobTypes DEF ThreadInv, JobFits, TopicOf
<1>2. <<"reserved", o>> \in topics
  BY <1>1 DEF Records, OrderOf
<1> HIDE DEF o
<1>3. processed[o] = "yes"
  BY <1>0, <1>2 DEF StagesInOrder, o
<1>4. o \in Orders => orders[o] # Absent
  BY <1>0, <1>3 DEF StagesInOrder, o
<1> QED
  BY <1>3, <1>4 DEF o

(* A step of t that only moves t, to an idle state or a place of its       *)
(* handler, and changes no table.                                          *)
LEMMA QuietStep ==
    ASSUME SagaInv, NEW t \in OrderThreads, thread[t] # Idle,
           UNCHANGED <<orders, response, createdRows, processed, reservedRows, topics, faults>>,
           thread' \in [Threads -> {Idle} \cup Job], dead' = dead,
           \A u \in Threads \ {t} : thread'[u] = thread[u],
           thread'[t] = Idle \/ thread'[t].at # "commit",
           ThreadInv(t)'
    PROVE  SagaInv'
<1>0. SagaTypes /\ ReservedOnce /\ DeadLetterNeedsFaults /\ ThreadInv(t) /\ t \in Threads
  BY DEF SagaInv, Threads
<1>1. thread[t].at # "commit"
  BY <1>0 DEF ThreadInv, JobFits
<1>2. ClaimsHeld'
  BY <1>0, <1>1, NoClaim, ClaimsAfter
<1>3. SagaTypes' /\ ReservedOnce' /\ DeadLetterNeedsFaults'
  BY <1>0 DEF SagaTypes, ReservedOnce, DeadLetterNeedsFaults
<1> QED
  BY <1>0, <1>2, <1>3, SameFaults, ThreadStepSaga

(* The order is read.                                                      *)
LEMMA LoadOrderSaga ==
    ASSUME SagaInv, NEW t \in OrderThreads, LoadOrder(t)
    PROVE  SagaInv'
<1>0. SagaTypes /\ ThreadInv(t) /\ t \in Threads
  BY DEF SagaInv, Threads
<1>1. /\ UNCHANGED <<orders, response, createdRows, processed, reservedRows, topics, faults>>
      /\ thread[t].at = "handle" /\ thread[t] # Idle
  BY DEF LoadOrder, failures, Idle
<1>2. CASE OrderOf(t) \in Malformed
  <2>1. thread' = [thread EXCEPT ![t] = Idle] /\ dead' = dead
    BY <1>0, <1>2, SucceedKeeps DEF LoadOrder
  <2> QED
    BY <1>0, <1>1, <2>1, IdleThread, QuietStep
<1>3. CASE OrderOf(t) \notin Malformed
  <2>1. OrderOf(t) \in Ids
    BY <1>0, <1>1, <1>3, JobTypes DEF Records, OrderOf
  <2>2. GoTo(t, "decide", orders[OrderOf(t)]) /\ orders[OrderOf(t)] \in Status
    BY <1>0, <1>3, <2>1 DEF LoadOrder, SagaTypes
  <2>3. OrderOf(t) \in Orders => orders[OrderOf(t)] # Absent
    BY <1>1, <2>1, OrderThreadRecord
  <2>4. ThreadInv(t)'
    <3>1. JobFits(t)'
      BY <1>0, <1>1, <2>1, <2>2, GoToKeeps, LifecycleAssumption DEF ThreadInv, JobFits
    <3>2. ReadingOld(t)'
      BY <1>0, <1>1, <2>1, <2>2, <2>3, GoToKeeps DEF ReadingOld, Ids
    <3>3. LostRace(t) => LostRace(t)'
      BY <1>0, <1>1, <2>1, <2>2, GoToKeeps DEF LostRace
    <3>4. AttemptExplained(t)'
      BY <1>0, <1>1, <2>2, <3>3, GoToKeeps DEF ThreadInv, AttemptExplained
    <3> QED
      BY <3>1, <3>2, <3>4 DEF ThreadInv
  <2> QED
    BY <1>0, <1>1, <2>2, <2>4, GoToKeeps, QuietStep
<1> QED
  BY <1>2, <1>3

(* What was read decides whether there is anything to update.              *)
LEMMA DecideSaga ==
    ASSUME SagaInv, NEW t \in OrderThreads, Decide(t)
    PROVE  SagaInv'
<1>0. SagaTypes /\ ThreadInv(t) /\ t \in Threads
  BY DEF SagaInv, Threads
<1>1. /\ UNCHANGED <<orders, response, createdRows, processed, reservedRows, topics, faults>>
      /\ thread[t].at = "decide" /\ thread[t] # Idle
  BY DEF Decide, failures, Idle
<1>2. CASE thread[t].seen # "Created"
  <2>1. thread' = [thread EXCEPT ![t] = Idle] /\ dead' = dead
    BY <1>0, <1>2, SucceedKeeps DEF Decide, markReserved
  <2> QED
    BY <1>0, <1>1, <2>1, IdleThread, QuietStep
<1>3. CASE thread[t].seen = "Created"
  <2>1. GoTo(t, "update", "Created") /\ "Created" \in Status
    BY <1>3 DEF Decide, markReserved, Absent, Status
  <2>2. OrderOf(t) \in Ids /\ orders[OrderOf(t)] # Absent
    BY <1>0, <1>1, <1>3 DEF ThreadInv, JobFits, ReadingOld, Absent
  <2>3. ThreadInv(t)'
    <3>1. JobFits(t)'
      BY <1>0, <1>1, <2>1, <2>2, GoToKeeps, LifecycleAssumption DEF ThreadInv, JobFits
    <3>2. ReadingOld(t)'
      BY <1>0, <1>1, <2>1, <2>2, GoToKeeps DEF ReadingOld
    <3>3. ~LostRace(t)
      BY <1>1, <1>3 DEF LostRace
    <3>4. AttemptExplained(t)'
      BY <1>0, <1>1, <2>1, <3>3, GoToKeeps DEF ThreadInv, AttemptExplained
    <3> QED
      BY <3>1, <3>2, <3>4 DEF ThreadInv
  <2> QED
    BY <1>0, <1>1, <2>1, <2>3, GoToKeeps, QuietStep
<1> QED
  BY <1>2, <1>3

(* A step of t that touches only the status of its order, from Created to  *)
(* Reserved if at all.                                                     *)
LEMMA StatusStep ==
    ASSUME SagaInv, NEW t \in OrderThreads, thread[t] # Idle,
           UNCHANGED <<response, createdRows, processed, reservedRows, topics>>,
           orders' = orders \/ (OrderOf(t) \in Ids
                                /\ orders' = changeStatus(OrderOf(t), "Created", "Reserved")),
           faults' \in [Records -> 0..MaxAttempts],
           \A r \in Records : faults'[r] >= faults[r],
           thread' \in [Threads -> {Idle} \cup Job], dead' \subseteq Records,
           \A u \in Threads \ {t} : thread'[u] = thread[u],
           thread'[t] = Idle \/ thread'[t].at # "commit",
           ThreadInv(t)', DeadLetterNeedsFaults'
    PROVE  SagaInv'
<1>0. SagaTypes /\ ReservedOnce /\ ThreadInv(t) /\ t \in Threads
  BY DEF SagaInv, Threads
<1>1. thread[t].at # "commit"
  BY <1>0 DEF ThreadInv, JobFits
<1>2. ClaimsHeld'
  BY <1>0, <1>1, NoClaim, ClaimsAfter
<1>3. /\ orders' \in [Ids -> Status]
      /\ \A q \in Ids : \/ orders'[q] = orders[q]
                        \/ /\ orders[q] = "Created" /\ orders'[q] = "Reserved"
                           /\ q = OrderOf(t)
  BY <1>0 DEF SagaTypes, changeStatus, Status
<1>4. SagaTypes' /\ ReservedOnce'
  BY <1>0, <1>3 DEF SagaTypes, ReservedOnce
<1>5. \A q \in Ids : \/ orders'[q] = orders[q]
                     \/ /\ orders[q] = "Created" /\ orders'[q] = "Reserved"
                        /\ processed[q] = "yes"
  BY <1>3, OrderThreadRecord
<1> QED
  BY <1>0, <1>2, <1>4, <1>5, ThreadStepSaga

(* UPDATE ... AND status = $3: it is applied, or the race was lost.        *)
LEMMA UpdateStatusSaga ==
    ASSUME SagaInv, NEW t \in OrderThreads, UpdateStatus(t)
    PROVE  SagaInv'
<1> DEFINE o == OrderOf(t)
<1>0. SagaTypes /\ ThreadInv(t) /\ DeadLetterNeedsFaults /\ t \in Threads
  BY DEF SagaInv, Threads
<1>1. /\ UNCHANGED <<response, createdRows, processed, reservedRows, topics, faults>>
      /\ thread[t].at = "update" /\ thread[t] # Idle
  BY DEF UpdateStatus, failures, Idle
<1>2. thread[t].seen = "Created" /\ o \in Ids /\ orders[o] # Absent
  BY <1>0, <1>1 DEF ThreadInv, JobFits, ReadingOld
<1>3. orders' = changeStatus(o, "Created", "Reserved")
  BY <1>2 DEF UpdateStatus
<1>4. \A r \in Records : faults'[r] >= faults[r]
  BY <1>1, SameFaults
<1>5. CASE orders' # orders
  <2>1. thread' = [thread EXCEPT ![t] = Idle] /\ dead' = dead
    BY <1>0, <1>5, SucceedKeeps DEF UpdateStatus
  <2>2. DeadLetterNeedsFaults' /\ dead' \subseteq Records /\ faults' \in [Records -> 0..MaxAttempts]
    BY <1>0, <1>1, <2>1 DEF DeadLetterNeedsFaults, SagaTypes
  <2> QED
    BY <1>0, <1>1, <1>2, <1>3, <1>4, <2>1, <2>2, IdleThread, StatusStep
<1>6. CASE orders' = orders
  <2>1. Retry(t)
    BY <1>6 DEF UpdateStatus
  <2>2. orders[o] # "Created"
    BY <1>0, <1>2, <1>3, <1>6 DEF changeStatus, SagaTypes
  <2>3. faults[thread[t].record] >= thread[t].attempt - 1
    BY <1>0, <1>1 DEF ThreadInv, AttemptExplained, LostRace
  <2>4. faults' \in [Records -> 0..MaxAttempts]
    BY <1>0, <1>1 DEF SagaTypes
  <2>5. /\ thread' \in [Threads -> {Idle} \cup Job]
        /\ dead' \subseteq Records
        /\ \A u \in Threads \ {t} : thread'[u] = thread[u]
        /\ thread'[t] = Idle \/ thread'[t].at = "handle"
        /\ ThreadInv(t)'
        /\ DeadLetterNeedsFaults'
    BY <1>0, <1>1, <1>2, <1>4, <1>6, <2>1, <2>2, <2>3, <2>4, RetryKeeps
  <2> QED
    BY <1>1, <1>4, <1>6, <2>4, <2>5, StatusStep
<1> QED
  BY <1>5, <1>6

(* A query throws; an UPDATE whose COMMIT was in doubt is applied.         *)
LEMMA StatusQueryFailsSaga ==
    ASSUME SagaInv, NEW t \in OrderThreads, NEW how \in {"error", "lost", "inDoubt"},
           StatusQueryFails(t, how)
    PROVE  SagaInv'
<1> DEFINE o == OrderOf(t)
           r == thread[t].record
           n == thread[t].attempt
<1>0. SagaTypes /\ ThreadInv(t) /\ t \in Threads
  BY DEF SagaInv, Threads
<1>1. /\ UNCHANGED <<response, createdRows, processed, reservedRows, topics>>
      /\ thread[t].at \in {"handle", "update"} /\ thread[t] # Idle
      /\ how = "inDoubt" => thread[t].at = "update"
      /\ QueryFails(t, how) /\ Retry(t)
  BY DEF StatusQueryFails, Idle
<1>2. orders' = orders \/ (o \in Ids /\ orders' = changeStatus(o, "Created", "Reserved"))
  BY <1>0, <1>1 DEF StatusQueryFails, ThreadInv, JobFits, ReadingOld
<1>3. /\ faults' \in [Records -> 0..MaxAttempts]
      /\ \A q \in Records : faults'[q] >= faults[q]
      /\ faults'[r] >= faults[r] + 1 \/ faults'[r] = MaxAttempts
  BY <1>0, <1>1, QueryFailsCounts
<1>4. /\ n \in 1..MaxAttempts /\ MaxAttempts \in Nat
      /\ faults[r] \in 0..MaxAttempts /\ r \in Records
  BY <1>0, <1>1, JobTypes
<1>5. faults'[r] \in 0..MaxAttempts
  BY <1>3, <1>4
<1>6. CASE faults[r] >= n - 1
  <2>1. faults'[r] >= n
    BY <1>3, <1>4, <1>5, <1>6
  <2> QED
    BY <1>0, <1>1, <1>2, <1>3, <2>1, RetryKeeps, StatusStep
<1>7. CASE faults[r] >= n - 2 /\ LostRace(t)
  <2>1. faults'[r] >= n - 1
    BY <1>3, <1>4, <1>5, <1>7
  <2>2. o \in Ids /\ orders'[o] \notin {"Created", Absent}
    BY <1>0, <1>2, <1>7 DEF LostRace, changeStatus, SagaTypes
  <2> QED
    BY <1>0, <1>1, <1>2, <1>3, <2>1, <2>2, RetryKeeps, StatusStep
<1> QED
  BY <1>0, <1>1, <1>6, <1>7 DEF ThreadInv, AttemptExplained

-----------------------------------------------------------------------------
(* Every step of the saga preserves the invariant.                         *)
LEMMA SagaNext == SagaInv /\ [Next]_vars => SagaInv'
<1> SUFFICES ASSUME SagaInv, [Next]_vars PROVE SagaInv'
  OBVIOUS
<1>1. ASSUME NEW o \in Orders, NEW outcome \in {"ok", "rolledBack", "inDoubt"},
             CreateOrder(o, outcome)
      PROVE  SagaInv'
  BY <1>1, CreateOrderSaga
<1>2. ASSUME NEW o \in Orders, PublishCreated(o) PROVE SagaInv'
  <2>1. o \in Ids
    BY DEF Ids
  <2> QED
    BY <1>2, <2>1, PublishSaga
<1>3. ASSUME NEW o \in Ids, PublishReserved(o) PROVE SagaInv'
  BY <1>3, PublishSaga
<1>4. ASSUME NEW o \in Orders, NEW status \in {"Shipped", "Cancelled"}, Override(o, status)
      PROVE  SagaInv'
  BY <1>4, OverrideSaga
<1>5. ASSUME NEW t \in Threads, NEW r \in topics, Deliver(t, r) PROVE SagaInv'
  BY <1>5, DeliverSaga
<1>6. ASSUME NEW t \in Threads, Abandon(t) PROVE SagaInv'
  BY <1>6, AbandonSaga
<1>7. ASSUME NEW t \in WorkerThreads, WorkerStep(t) PROVE SagaInv'
  BY <1>7, ReserveItemsSaga, InsertProcessedSaga, CommitReservationSaga, ReservationFailsSaga
  DEF WorkerStep
<1>8. ASSUME NEW t \in OrderThreads, OrderStep(t) PROVE SagaInv'
  BY <1>8, LoadOrderSaga, DecideSaga, UpdateStatusSaga, StatusQueryFailsSaga DEF OrderStep
<1>9. CASE UNCHANGED vars
  <2>1. SagaTypes' /\ StagesInOrder'
    BY <1>9 DEF vars, SagaInv, SagaTypes, StagesInOrder
  <2>2. ClaimsHeld' /\ \A t \in Threads : ThreadInv(t)'
    BY <1>9 DEF vars, SagaInv, ThreadInv, JobFits, ReadingOld, AttemptExplained, LostRace,
                ClaimsHeld, OrderOf
  <2>3. ReservedOnce' /\ ReservedWasRecorded' /\ DeadLetterNeedsFaults'
    BY <1>9 DEF vars, SagaInv, ReservedOnce, ReservedWasRecorded, DeadLetterNeedsFaults
  <2> QED
    BY <2>1, <2>2, <2>3 DEF SagaInv
<1> QED
  BY <1>1, <1>2, <1>3, <1>4, <1>5, <1>6, <1>7, <1>8, <1>9 DEF Next, Settled

(* So it holds in every state of the saga.                                 *)
LEMMA SagaAlways == Spec => []SagaInv
BY SagaInit, SagaNext, PTL DEF Spec

(* recordReservationIfNew reserves exactly once: however often and however *)
(* concurrently an OrderCreated record is delivered, retried, abandoned or *)
(* left in doubt, its order has one OrderReserved row when its event id is *)
(* in the table, and none before.                                          *)
THEOREM OneReservationPerOrder == Spec => []ReservedOnce
<1>1. SagaInv => ReservedOnce
  BY DEF SagaInv
<1> QED
  BY <1>1, SagaAlways, PTL

(* Across the two databases an order is Reserved only after worker-service *)
(* has recorded its reservation.                                           *)
THEOREM ReservedOnlyAfterReservation == Spec => []ReservedWasRecorded
<1>1. SagaInv => ReservedWasRecorded
  BY DEF SagaInv
<1> QED
  BY <1>1, SagaAlways, PTL

(* OrderReservedHandler's "not found, skipping" drops no order that was    *)
(* ever stored, and whoever was told 201 or sees the event can read it.    *)
THEOREM NoStoredOrderSkipped == Spec => []NotFoundOnlyStrays
<1>1. SagaInv => NotFoundOnlyStrays
  <2> SUFFICES ASSUME SagaInv PROVE NotFoundOnlyStrays
    OBVIOUS
  <2>1. ASSUME NEW t \in OrderThreads, thread[t].at = "decide", thread[t].seen = Absent
        PROVE  OrderOf(t) \in Strays
    <3>1. t \in Threads /\ thread[t] # Idle
      BY <2>1 DEF Threads, Idle
    <3> QED
      BY <2>1, <3>1 DEF SagaInv, ThreadInv, ReadingOld
  <2>2. ASSUME NEW o \in Orders, response[o] = "201" \/ <<"created", o>> \in topics
        PROVE  GetOrder(o) = "200"
    <3>1. orders[o] # Absent
      BY <2>2 DEF SagaInv, StagesInOrder
    <3>2. o \notin Malformed
      BY LifecycleAssumption
    <3> QED
      BY <3>1, <3>2 DEF GetOrder
  <2> QED
    BY <2>1, <2>2 DEF NotFoundOnlyStrays
<1> QED
  BY <1>1, SagaAlways, PTL

(* RecordExecutor dead-letters a record of the saga only if all but one of *)
(* its attempts met a failing query: lost races alone never suffice.       *)
THEOREM LostRaceNotDeadLettered == Spec => []DeadLetterNeedsFaults
<1>1. SagaInv => DeadLetterNeedsFaults
  BY DEF SagaInv
<1> QED
  BY <1>1, SagaAlways, PTL

(* changeStatus never overwrites a status that was set since it was read.  *)
THEOREM NoLostUpdate == Spec => NoStatusOverwritten
<1>1. SagaInv /\ [Next]_vars =>
        [\A o \in Ids : orders[o] \in {"Shipped", "Cancelled"} => orders'[o] = orders[o]]_vars
  <2> SUFFICES ASSUME SagaInv, Next, NEW o \in Ids, orders[o] \in {"Shipped", "Cancelled"}
               PROVE  orders'[o] = orders[o]
    OBVIOUS
  <2>0. orders \in [Ids -> Status] /\ StagesInOrder
    BY DEF SagaInv, SagaTypes
  <2>1. ASSUME NEW q \in Orders, NEW outcome \in {"ok", "rolledBack", "inDoubt"},
               CreateOrder(q, outcome)
        PROVE  orders'[o] = orders[o]
    <3>1. orders' = orders \/ orders' = [orders EXCEPT ![q] = "Created"]
      BY <2>1 DEF CreateOrder, save
    <3>2. orders[q] = Absent
      BY <2>0, <2>1 DEF CreateOrder, StagesInOrder
    <3> QED
      BY <2>0, <3>1, <3>2 DEF Absent
  <2>2. ASSUME NEW q \in Orders, NEW status \in {"Shipped", "Cancelled"}, Override(q, status)
        PROVE  orders'[o] = orders[o]
    BY <2>0, <2>2 DEF Override
  <2>3. ASSUME NEW t \in OrderThreads, thread[t].at = "update",
               orders' = changeStatus(OrderOf(t), thread[t].seen, "Reserved")
        PROVE  orders'[o] = orders[o]
    <3>1. t \in Threads /\ thread[t] # Idle
      BY <2>3 DEF Threads, Idle
    <3>2. thread[t].seen = "Created"
      BY <2>3, <3>1 DEF SagaInv, ThreadInv, ReadingOld
    <3> QED
      BY <2>0, <2>3, <3>2 DEF changeStatus
  <2>4. ASSUME NEW t \in OrderThreads, OrderStep(t) PROVE orders'[o] = orders[o]
    <3>1. CASE LoadOrder(t) \/ Decide(t)
      BY <3>1 DEF LoadOrder, Decide
    <3>2. CASE UpdateStatus(t)
      BY <2>3, <3>2 DEF UpdateStatus
    <3>3. ASSUME NEW how \in {"error", "lost", "inDoubt"}, StatusQueryFails(t, how)
          PROVE  orders'[o] = orders[o]
      BY <2>3, <3>3 DEF StatusQueryFails
    <3> QED
      BY <2>4, <3>1, <3>2, <3>3 DEF OrderStep
  <2>5. ASSUME NEW t \in WorkerThreads, WorkerStep(t) PROVE orders' = orders
    BY <2>5 DEF WorkerStep, ReserveItems, InsertProcessed, CommitReservation, ReservationFails
  <2>6. ASSUME NEW q \in Ids, PublishCreated(q) \/ PublishReserved(q) PROVE orders' = orders
    BY <2>6 DEF PublishCreated, PublishReserved
  <2>7. ASSUME NEW t \in Threads, Abandon(t) \/ \E r \in topics : Deliver(t, r)
        PROVE  orders' = orders
    BY <2>7 DEF Abandon, Deliver
  <2>8. CASE Settled
    BY <2>8 DEF Settled, vars
  <2> QED
    BY <2>1, <2>2, <2>4, <2>5, <2>6, <2>7, <2>8 DEF Next, Ids
<1> QED
  BY <1>1, SagaAlways, PTL DEF Spec, NoStatusOverwritten
=============================================================================
