----------------------------- MODULE OrderModel -----------------------------
(***************************************************************************)
(* The value types of order-service (Currency, Money, OrderItem, Order)    *)
(* and the conversions an order goes through: from the JSON of a request,  *)
(* to the rows of the two tables and back, and to the JSON of the          *)
(* OrderCreated event, which worker-service reads with a mapper of its     *)
(* own.                                                                    *)
(*                                                                         *)
(* Integers have the width of their C++ type, given by its greatest value; *)
(* arithmetic wraps, so an overflow the code does not prevent would show.  *)
(* A JSON integer is read with get<T>(), which narrows it silently; JSON   *)
(* numbers with a fraction are left out.  A result is a record, or an      *)
(* Error(e) with the name of the error.                                    *)
(***************************************************************************)
EXTENDS Integers, Sequences, FiniteSetsExt

CONSTANTS Int64Max,   \* numeric_limits<int64_t>::max()
          Int32Max,   \* numeric_limits<int>::max()
          Int8Max,    \* numeric_limits<int8_t>::max()
          Codes       \* the non-empty currency codes

ASSUME WidthAssumption ==
    /\ Int64Max \in Nat /\ Int32Max \in Nat /\ Int8Max \in Nat
    /\ "" \notin Codes /\ Codes \subseteq STRING

(* Conversion to the signed type whose greatest value is max.              *)
Wrap(n, max) == ((n + max + 1) % (2 * (max + 1))) - (max + 1)

Error(e) == [error |-> e]
IsError(r) == DOMAIN r = {"error"}

Currency == [code : Codes, minorDigits : 0..Int8Max]
Money == [minorUnits : 0..Int64Max, currency : Currency]
OrderItem == [quantity : 1..Int32Max, priceAtOrderTime : Money]

----------------------------------------------------------------------------
CurrencyCreate(code, minorDigits) ==
    IF minorDigits < 0 THEN Error("NegativeAmount")
    ELSE IF code = "" THEN Error("EmptyCurrency")
    ELSE [code |-> code, minorDigits |-> minorDigits]

MoneyCreate(minorUnits, currency) ==
    IF minorUnits < 0 THEN Error("NegativeAmount")
    ELSE [minorUnits |-> minorUnits, currency |-> currency]

(* Plausible slip: the sum is not tested for overflow.                     *)
PlusUnchecked(a, b) ==
    IF a.currency.code # b.currency.code THEN Error("DifferentCurrencies")
    ELSE [minorUnits |-> Wrap(a.minorUnits + b.minorUnits, Int64Max),
          currency |-> a.currency]

Plus(a, b) ==
    IF a.currency.code # b.currency.code THEN Error("DifferentCurrencies")
    ELSE IF a.minorUnits > Int64Max - b.minorUnits THEN Error("Overflow")
    ELSE [minorUnits |-> Wrap(a.minorUnits + b.minorUnits, Int64Max),
          currency |-> a.currency]

Minus(a, b) ==
    IF a.currency.code # b.currency.code THEN Error("DifferentCurrencies")
    ELSE IF a.minorUnits < b.minorUnits THEN Error("Underflow")
    ELSE [minorUnits |-> Wrap(a.minorUnits - b.minorUnits, Int64Max),
          currency |-> a.currency]

Times(a, quantity) ==
    IF quantity = 0 THEN [minorUnits |-> 0, currency |-> a.currency]
    ELSE IF quantity < 0 THEN Error("NegativeAmount")
    ELSE IF a.minorUnits > Int64Max \div quantity THEN Error("Overflow")
    ELSE [minorUnits |-> Wrap(a.minorUnits * quantity, Int64Max),
          currency |-> a.currency]

(* Plausible slip: a quantity of zero passes.                              *)
ItemWithZero(quantity, price) ==
    IF quantity < 0 THEN Error("InvalidQuantity")
    ELSE [quantity |-> quantity, priceAtOrderTime |-> price]

ItemCreate(quantity, price) ==
    IF quantity <= 0 THEN Error("InvalidQuantity")
    ELSE [quantity |-> quantity, priceAtOrderTime |-> price]

lineTotal(item) ==
    LET total == Times(item.priceAtOrderTime, item.quantity)
    IN  IF IsError(total) THEN Error("PriceOverflow") ELSE total

(* The loop of totalAmount after n items; an error ends it.                *)
totalAmount(items) ==
    LET after[n \in 0..Len(items)] ==
            IF n = 0
            THEN MoneyCreate(0, items[1].priceAtOrderTime.currency)
            ELSE LET total == after[n - 1]
                     line == lineTotal(items[n])
                 IN  IF IsError(total) THEN total
                     ELSE IF IsError(line) THEN line
                     ELSE Plus(total, line)
    IN  after[Len(items)]

(* The statuses, each written to the table and to JSON as its own name; a  *)
(* name that is none of these is UnknownStatus to fromString.              *)
Statuses == {"Created", "Reserved", "Shipped", "Cancelled"}

OrderCreate(items) ==
    IF items = <<>> THEN Error("EmptyItems")
    ELSE [orderId |-> "", items |-> items, status |-> "Created"]

OrderRestore(orderId, items, status) ==
    IF items = <<>> THEN Error("EmptyItems")
    ELSE [orderId |-> orderId, items |-> items, status |-> status]

assignId(order, id) == [orderId |-> id, items |-> order.items, status |-> order.status]

(* Order::markReserved: the new status, or why there is none.              *)
markReserved(status) ==
    IF status = "Created" THEN "Reserved" ELSE "InvalidStatusTransition"

(* StrongID::create.  An id is what the checks of an id tell apart: empty  *)
(* (or absent from its JSON), not a UUID, or a UUID.                       *)
IdTexts == {"", "not a UUID", "UUID"}
IdCreate(value) ==
    IF value = "" THEN Error("EmptyId")
    ELSE IF value # "UUID" THEN Error("InvalidFormat")
    ELSE [id |-> value]

----------------------------------------------------------------------------
(* The JSON of an order's parts.  A field that is absent or has another    *)
(* type fails its mapper as a bad id does.                                 *)

JsonCurrency(ints) == [code : Codes \cup {""}, minorDigits : ints]
JsonMoney(ints) == [minorUnits : ints, currency : JsonCurrency(ints)]
JsonItem(ints) ==
    [productId : IdTexts, quantity : ints, priceAtOrderTime : JsonMoney(ints)]
JsonOrder(ints) == [userId : IdTexts, items : Seq(JsonItem(ints))]

CurrencyFromJson(json) == CurrencyCreate(json.code, Wrap(json.minorDigits, Int8Max))

MoneyFromJson(json) ==
    LET currency == CurrencyFromJson(json.currency)
    IN  IF IsError(currency) THEN currency
        ELSE MoneyCreate(Wrap(json.minorUnits, Int64Max), currency)

ItemFromJson(json) ==
    LET productId == IdCreate(json.productId)
        price == MoneyFromJson(json.priceAtOrderTime)
    IN  IF IsError(productId) THEN productId
        ELSE IF IsError(price) THEN price
        ELSE ItemCreate(Wrap(json.quantity, Int32Max), price)

(* A list whose elements were mapped one by one: the first that failed     *)
(* fails the list.                                                         *)
Mapped(items) ==
    LET failed == {i \in DOMAIN items : IsError(items[i])}
    IN  IF failed = {} THEN [items |-> items] ELSE items[Min(failed)]

parseItems(json) == Mapped([i \in DOMAIN json |-> ItemFromJson(json[i])])

(* OrderJsonMapper::fromJson.                                              *)
OrderFromJson(json) ==
    LET userId == IdCreate(json.userId)
        parsed == parseItems(json.items)
    IN  IF IsError(userId) THEN userId
        ELSE IF IsError(parsed) THEN parsed
        ELSE OrderCreate(parsed.items)

CurrencyToJson(currency) == [code |-> currency.code, minorDigits |-> currency.minorDigits]
MoneyToJson(money) ==
    [minorUnits |-> money.minorUnits, currency |-> CurrencyToJson(money.currency)]
ItemToJson(item) ==
    [productId |-> "UUID", quantity |-> item.quantity,
     priceAtOrderTime |-> MoneyToJson(item.priceAtOrderTime)]

(* OrderJsonMapper::toJson; an order that has no id yet has no such field. *)
OrderToJson(order) ==
    [orderId |-> order.orderId, userId |-> "UUID", status |-> order.status,
     items |-> [i \in DOMAIN order.items |-> ItemToJson(order.items[i])]]

----------------------------------------------------------------------------
(* The columns save writes for an item, with the table's checks.           *)
ItemRow(item) ==
    [quantity |-> item.quantity,
     price_minor_units |-> item.priceAtOrderTime.minorUnits,
     price_currency_code |-> item.priceAtOrderTime.currency.code,
     price_currency_minor_digits |-> item.priceAtOrderTime.currency.minorDigits]
RowAllowed(row) == row.quantity > 0 /\ row.price_minor_units >= 0

(* OrderItemRowMapper::fromRow.                                            *)
ItemFromRow(row) ==
    LET currency == CurrencyCreate(row.price_currency_code,
                                   Wrap(row.price_currency_minor_digits, Int8Max))
        price == IF IsError(currency) THEN currency
                 ELSE MoneyCreate(row.price_minor_units, currency)
    IN  IF IsError(price) THEN price ELSE ItemCreate(row.quantity, price)

(* The rows of an order as findById selects them: those of order_items     *)
(* come in any order, the query has no ORDER BY.                           *)
Orderings(D) == {f \in [D -> D] : \A i, j \in D : f[i] = f[j] => i = j}
OrderRows(order, ordering) ==
    [order_id |-> order.orderId, status |-> order.status,
     items |-> [i \in DOMAIN order.items |-> ItemRow(order.items[ordering[i]])]]

parseItemRows(rows) == Mapped([i \in DOMAIN rows |-> ItemFromRow(rows[i])])

(* OrderRowMapper::fromRows.                                               *)
OrderFromRows(rows) ==
    LET orderId == IdCreate(rows.order_id)
        parsed == parseItemRows(rows.items)
    IN  IF IsError(orderId) THEN orderId
        ELSE IF rows.status \notin Statuses THEN Error("UnknownStatus")
        ELSE IF IsError(parsed) THEN parsed
        ELSE OrderRestore(rows.order_id, parsed.items, rows.status)

----------------------------------------------------------------------------
(* worker-service reads the event with OrderCreatedEventJsonMapper.        *)

parseItem(json) ==
    LET productId == IdCreate(json.productId)
        quantity == Wrap(json.quantity, Int32Max)
    IN  IF IsError(productId) THEN productId
        ELSE IF quantity <= 0 THEN Error("invalid_argument")
        ELSE [quantity |-> quantity]

parseEventItems(json) == Mapped([i \in DOMAIN json |-> parseItem(json[i])])

EventFromJson(json) ==
    LET orderId == IdCreate(json.orderId)
        userId == IdCreate(json.userId)
        parsed == parseEventItems(json.items)
    IN  IF IsError(orderId) THEN orderId
        ELSE IF IsError(userId) THEN userId
        ELSE IF IsError(parsed) THEN parsed
        ELSE [orderId |-> json.orderId, items |-> parsed.items]

----------------------------------------------------------------------------
(* What the later readers make of an order once save gave it its id: the   *)
(* table takes its items, findById gives the same order back, its items in *)
(* whatever order the table returns them, and worker-service reads the id  *)
(* and the same quantities from the event.                                 *)
Understood(order) ==
    LET saved == assignId(order, "UUID")
        D == DOMAIN order.items
    IN  /\ \A i \in D : RowAllowed(ItemRow(order.items[i]))
        /\ \A f \in Orderings(D) :
              OrderFromRows(OrderRows(saved, f)) =
                  [orderId |-> "UUID", items |-> [i \in D |-> order.items[f[i]]],
                   status |-> order.status]
        /\ EventFromJson(OrderToJson(saved)) =
              [orderId |-> "UUID", items |-> [i \in D |-> [quantity |-> order.items[i].quantity]]]

(* The exact amount of a list of items, without any width.                 *)
ExactTotal(items) ==
    LET upTo[n \in 0..Len(items)] ==
            IF n = 0 THEN 0
            ELSE upTo[n - 1] + items[n].quantity * items[n].priceAtOrderTime.minorUnits
    IN  upTo[Len(items)]

(* The items have one currency and their total fits 64 bits.               *)
Summable(items) ==
    /\ \A i \in DOMAIN items : items[i].priceAtOrderTime.currency.code
                             = items[1].priceAtOrderTime.currency.code
    /\ ExactTotal(items) <= Int64Max
=============================================================================
