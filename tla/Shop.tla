--------------------------------- MODULE Shop ----------------------------------
(***************************************************************************)
(* What the API promises: every operation on carts, orders and catalogs    *)
(* takes effect in one step, on what is in the tables at that moment.      *)
(* There are no transactions, locks or processes here.                     *)
(*                                                                         *)
(* One thing is left open on purpose: the terms copied into a cart, and    *)
(* the terms an order is placed at, were on the menu while the request     *)
(* ran, but need not be on it still when the request takes effect.         *)
(***************************************************************************)
EXTENDS Domain

CONSTANT Requests   \* what clients and partners may ask for, any number of times

VARIABLES
  menu,    \* [Items -> menu row or None]
  carts,   \* the carts that exist
  lines,   \* [Carts -> contents]
  orders   \* [OrderIds -> order or None]

shop == <<menu, carts, lines, orders>>

Placed == {id \in OrderIds : orders[id] # None}

Init ==
  /\ menu \in Menu
  /\ carts = {}
  /\ lines = [c \in Carts |-> EmptyContents]
  /\ orders = [id \in OrderIds |-> None]

OpenCart(c) ==
  /\ c \notin carts
  /\ carts' = carts \cup {c}
  /\ UNCHANGED <<menu, lines, orders>>

\* More of an item, at the given terms: only from the restaurant the cart
\* already orders from, and never beyond the limit.
Add(c, i, quantity, terms) ==
  LET sum == quantity + IF lines[c][i] = None THEN 0 ELSE lines[c][i].quantity
  IN  /\ c \in carts
      /\ quantity >= 1
      /\ sum <= MaxQuantity
      /\ \A j \in Chosen(lines[c]) : RestaurantOf[j] = RestaurantOf[i]
      /\ lines' = [lines EXCEPT ![c][i] = [terms |-> terms, quantity |-> sum]]
      /\ UNCHANGED <<menu, carts, orders>>

\* Another quantity of an item that is in the cart.
Change(c, i, quantity, terms) ==
  /\ i \in Chosen(lines[c])
  /\ quantity \in 1..MaxQuantity
  /\ lines' = [lines EXCEPT ![c][i] = [terms |-> terms, quantity |-> quantity]]
  /\ UNCHANGED <<menu, carts, orders>>

Remove(c, i) ==
  /\ i \in Chosen(lines[c])
  /\ lines' = [lines EXCEPT ![c][i] = None]
  /\ UNCHANGED <<menu, carts, orders>>

\* An order for exactly what the cart holds, under a key never used before.
Place(id, key, c, customer) ==
  /\ orders[id] = None
  /\ \A other \in Placed : orders[other].key # key
  /\ Chosen(lines[c]) # {}
  /\ OneRestaurant(lines[c])
  /\ orders' = [orders EXCEPT ![id] = NewOrder(key, c, customer, lines[c])]
  /\ UNCHANGED <<menu, carts, lines>>

\* A partner moves its order, as it has last seen it, along the life cycle.
Advance(id, partner, version, status, ref) ==
  /\ id \in Placed
  /\ orders[id].restaurant = partner
  /\ orders[id].version = version
  /\ CanTransition(orders[id].status, status)
  /\ status = "accepted" => NotBlank(ref)
  /\ orders' = [orders EXCEPT ![id] = Updated(@, status, ref)]
  /\ UNCHANGED <<menu, carts, lines>>

\* A restaurant's listing replaces its whole menu: what is not listed stays
\* known, on its last terms, but cannot be ordered.
Replace(r, listing) ==
  /\ menu' = [i \in Items |->
                IF RestaurantOf[i] # r THEN menu[i]
                ELSE IF listing[i] # None THEN listing[i]
                ELSE IF menu[i] = None THEN None
                ELSE [menu[i] EXCEPT !.available = FALSE]]
  /\ UNCHANGED <<carts, lines, orders>>

\* A request takes effect, with the very values it asks for.
Serve(r) ==
  \/ r.op = "add" /\ \E t \in Terms : Add(r.cart, r.item, r.quantity, t)
  \/ r.op = "update" /\ \E t \in Terms : Change(r.cart, r.item, r.quantity, t)
  \/ r.op = "delete" /\ Remove(r.cart, r.item)
  \/ r.op = "checkout" /\ \E id \in OrderIds : Place(id, r.key, r.cart, r.customer)
  \/ r.op = "status" /\ Advance(r.order, r.partner, r.version, r.status, r.ref)
  \/ r.op = "catalog" /\ Replace(r.restaurant, r.listing)

Next == (\E c \in Carts : OpenCart(c)) \/ (\E r \in Requests : Serve(r))

Spec == Init /\ [][Next]_shop

================================================================================
