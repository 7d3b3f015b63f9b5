------------------------------ MODULE MCOrdering -------------------------------
(***************************************************************************)
(* Small instances of Ordering for TLC: the requests each run lets clients *)
(* and partners send, as often and in as many processes as they like.      *)
(***************************************************************************)
EXTENDS Ordering, TLC

CONSTANTS r1, r2,          \* two restaurants
          a1, a2, b1,      \* two items of the first, one of the second
          old, new,        \* an item's terms before and after a sync
          c1, c2, u1, u2, k1, k2, o1, o2, ref1

RestaurantOfMC == [i \in Items |-> IF i = b1 THEN r2 ELSE r1]
PriceOfMC == [t \in Terms |-> IF t = old THEN 1 ELSE 2]

\* Different keys may share an advisory lock.
HashOfMC == [k \in Keys |-> 0]

On(t) == [terms |-> t, available |-> TRUE]
Off(t) == [terms |-> t, available |-> FALSE]

\* Everything on the menu, at the old terms.
FullMenu == [i \in Items |-> On(old)]

\* The item of the other restaurant costs more than a total can be.
PricedMenu == [i \in Items |-> IF i = b1 THEN On(new) ELSE On(old)]

AddOf(c, i, q) == [op |-> "add", cart |-> c, item |-> i, quantity |-> q]
UpdateOf(c, i, q) == [op |-> "update", cart |-> c, item |-> i, quantity |-> q]
DeleteOf(c, i) == [op |-> "delete", cart |-> c, item |-> i]
CheckoutOf(k, c, u) == [op |-> "checkout", key |-> k, cart |-> c, customer |-> u]
SyncOf(r, listing) == [op |-> "catalog", restaurant |-> r, listing |-> listing]
StatusOf(o, s, v, ref) == [op |-> "status", partner |-> r1, order |-> o,
                           status |-> s, ref |-> ref, version |-> v]

Listing(i, row) == [j \in Items |-> IF j = i THEN row ELSE None]

\* Every operation on one cart, with quantities below and above the limit.
CartTraffic ==
  {AddOf(c1, i, 1) : i \in Items} \cup {AddOf(c1, a1, 2)}
    \cup {UpdateOf(c1, a1, q) : q \in {0, MaxQuantity, MaxQuantity + 1}}
    \cup {DeleteOf(c1, i) : i \in Items}

\* Two keys, two carts and two customers, while items come and go.
CheckoutTraffic ==
  {CheckoutOf(k1, c, u1) : c \in Carts} \cup {CheckoutOf(k1, c1, u2), CheckoutOf(k2, c1, u1)}
    \cup {AddOf(c, a1, 1) : c \in Carts} \cup {AddOf(c1, b1, 1)}
    \cup {UpdateOf(c1, a1, q) : q \in {MaxQuantity, MaxQuantity + 1}}
    \cup {DeleteOf(c1, a1)}

\* A partner's updates of an order, and a stranger's, while the price changes.
StatusTraffic ==
  {StatusOf(o, s, v, ref) : o \in OrderIds, s \in Statuses, v \in 0..5, ref \in {None, ref1}}
    \cup {StatusOf(o, s, v, Blank) : o \in OrderIds, s \in {"accepted", "cooking"}, v \in 1..2}
    \cup {[op |-> "status", partner |-> r2, order |-> o, status |-> "cancelled",
           ref |-> None, version |-> 1] : o \in OrderIds}
    \cup {AddOf(c1, a1, 1), CheckoutOf(k1, c1, u1), SyncOf(r1, Listing(a1, On(new)))}

Symmetry == Permutations(Procs) \cup Permutations(OrderIds)

================================================================================
