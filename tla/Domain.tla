-------------------------------- MODULE Domain ---------------------------------
(***************************************************************************)
(* The tables of the platform (migrations/, internal/models/*.go) as sets  *)
(* of rows, and the pure functions on them.  A menu item's name and price  *)
(* always travel together, as snapshots, and are only ever compared for    *)
(* equality or multiplied, so the pair is one value of Terms with a price. *)
(* A restaurant and its partner_id identify each other.                    *)
(***************************************************************************)
EXTENDS Integers, FiniteSets, OrderStatus, FiniteSetsExt

CONSTANTS
  Restaurants,   \* restaurants, one per partner
  Items,         \* menu items, by (restaurant, partner_item_id)
  RestaurantOf,  \* the restaurant of each item
  Terms,         \* (name, price) pairs
  PriceOf,       \* the price of each pair, in kopecks
  Carts,
  Customers,     \* (name, phone, address, comment) tuples
  Keys,          \* idempotency keys
  OrderIds,      \* values of the orders' id sequence
  Refs,          \* partner_order_id values that are not blank
  Blank,         \* a partner_order_id of nothing but blanks, not the empty one
  MaxQuantity,   \* 99 in the code
  MaxInt,        \* the largest value of a PostgreSQL integer column
  None           \* an absent row, NULL, or the empty partner_order_id

MenuItem == [terms : Terms, available : BOOLEAN]

Line == [terms : Terms, quantity : 1..MaxQuantity]

\* The cart_items rows of one cart, or the order_items rows of one order.
Contents == [Items -> Line \cup {None}]

PartnerOrderIds == Refs \cup {Blank, None}

\* validator.NotBlank
NotBlank(ref) == ref \in Refs

Order == [key : Keys, cart : Carts, customer : Customers,
          restaurant : Restaurants, items : Contents, total : 1..MaxInt,
          status : Statuses, ref : PartnerOrderIds, version : Nat \ {0}]

Menu == [Items -> MenuItem \cup {None}]

ASSUME DomainAssumption ==
  /\ RestaurantOf \in [Items -> Restaurants]
  /\ PriceOf \in [Terms -> Nat \ {0}]
  /\ MaxQuantity \in Nat \ {0}
  /\ MaxInt \in Nat \ {0}
  /\ Blank \notin Refs

\* The absent row is no row, and no part of one.
ASSUME NoneIsNoRow ==
  /\ None \notin MenuItem
  /\ None \notin Line
  /\ None \notin Order
  /\ None \notin Refs \cup {Blank}
  /\ None \notin [status : Statuses, version : Nat \ {0}]

EmptyContents == [i \in Items |-> None]

Chosen(contents) == {i \in Items : contents[i] # None}

\* All the lines belong to one restaurant.
OneRestaurant(contents) ==
  \A i, j \in Chosen(contents) : RestaurantOf[i] = RestaurantOf[j]

\* The sum checkout stores as total_kopecks.
Cost(contents) ==
  LET LineCost(i) == contents[i].quantity * PriceOf[contents[i].terms]
  IN  MapThenSumSet(LineCost, Chosen(contents))

\* The row checkout inserts for a cart with these contents.
NewOrder(key, cart, customer, contents) ==
  [key        |-> key,
   cart       |-> cart,
   customer   |-> customer,
   restaurant |-> RestaurantOf[CHOOSE i \in Items : contents[i] # None],
   items      |-> contents,
   total      |-> Cost(contents),
   status     |-> "pending_partner",
   ref        |-> None,
   version    |-> 1]

\* Mutant: the version stays.
UpdatedUnversioned(order, status, ref) ==
  [order EXCEPT !.status = status, !.ref = IF ref = None THEN @ ELSE ref]

\* Mutant: partner_order_id = $4, without COALESCE.
UpdatedRef(order, status, ref) ==
  [order EXCEPT !.status = status, !.ref = ref, !.version = @ + 1]

\* The row a status update leaves: the partner's order id is overwritten by
\* any string but the empty one (COALESCE(NULLIF($4, ''), partner_order_id)).
Updated(order, status, ref) ==
  [order EXCEPT !.status  = status,
                !.ref     = IF ref = None THEN @ ELSE ref,
                !.version = @ + 1]

================================================================================
