------------------------- MODULE MCOrderLifecycle -------------------------
(* Request bodies at and beyond the widths 4, 3 and 2 bits of the integers: *)
(* every pair of items around the overflow of a total, and single items     *)
(* with values that are negative, zero, in range, or narrowed.              *)
EXTENDS OrderLifecycle

Item(code, quantity, minorUnits, minorDigits) ==
    [productId |-> "UUID", quantity |-> quantity,
     priceAtOrderTime |-> [minorUnits |-> minorUnits,
                           currency |-> [code |-> code, minorDigits |-> minorDigits]]]

Single == {<<Item("USD", q, u, d)>> : q \in {-1, 0, 3, 4, 9}, u \in {-1, 7, 8, 17},
                                      d \in {0, 2, 5}}
Simple == {Item(c, q, u, u % 2) : c \in Codes, q \in {1, 3}, u \in {2, 7}}
Odd == {<<>>, <<Item("", 1, 1, 0)>>, <<[Item("USD", 1, 1, 0) EXCEPT !.productId = ""]>>}

MCBodies == {[userId |-> "UUID", items |-> items] :
                 items \in Single \cup (Simple \X Simple) \cup Odd}
            \cup {[userId |-> "not a UUID", items |-> <<Item("USD", 1, 1, 0)>>]}
===========================================================================
