-------------------------------- MODULE MCShop ---------------------------------
(***************************************************************************)
(* A small instance of Offers for TLC: a restaurant that changes prices    *)
(* and withdraws items while a customer fills a cart and orders.           *)
(***************************************************************************)
EXTENDS MCOrdering, Offers

Both(x, y) == [j \in Items |-> IF j = a1 THEN x ELSE y]

\* Something of every operation: one menu in which an item is dearer, one in
\* which it is gone and the other is dearer; a cart, an order, its acceptance.
ShopTraffic ==
  {SyncOf(r1, Both(On(new), On(old))), SyncOf(r1, Listing(a2, On(new))),
   AddOf(c1, a1, 1), AddOf(c1, a2, 1), UpdateOf(c1, a1, 1), DeleteOf(c1, a1),
   CheckoutOf(k1, c1, u1), StatusOf(o1, "accepted", 1, ref1)}

================================================================================
