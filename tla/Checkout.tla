------------------------------- MODULE Checkout --------------------------------
(***************************************************************************)
(* OrderModel.CreateFromCart (internal/models/orders.go): the advisory     *)
(* lock of the idempotency key, the cart's row lock, the search for an     *)
(* order already placed under the key, the comparison of the cart with the *)
(* menu, and the insertion of the order with its items.                    *)
(***************************************************************************)
EXTENDS Database

\* ValidateCheckoutInput rejects only blank and overlong values, which are no
\* members of Keys and Customers.
BeginCheckout(p) == \E r \in Requests : r.op = "checkout" /\ Begin(p, r, "lockKey")

\* Mutant: no advisory lock.
SkipKeyLock(p) ==
  /\ pc[p] = "lockKey"
  /\ Goto(p, "lockBasket")
  /\ UNCHANGED <<tables, req, held, work, answers>>

\* SELECT pg_advisory_xact_lock(hashtextextended($1, 0))
LockKey(p) ==
  /\ pc[p] = "lockKey"
  /\ Acquire(p, KeyLock(req[p].key))
  /\ Goto(p, "lockBasket")
  /\ UNCHANGED <<tables, req, work, answers>>

\* SELECT id FROM carts WHERE id = $1 FOR UPDATE
LockBasket(p) ==
  /\ pc[p] = "lockBasket"
  /\ \/ req[p].cart \notin carts /\ Rollback(p)
     \/ /\ req[p].cart \in carts
        /\ Acquire(p, CartLock(req[p].cart))
        /\ Goto(p, "findOrder")
        /\ UNCHANGED <<tables, req, work, answers>>

PlacedUnder(key) == {id \in Placed : orders[id].key = key}

\* Mutant: the customer is not compared.
SameCart(order, r) == order.cart = r.cart

\* The order is the one an earlier attempt of this same request placed.
SameRequest(order, r) == order.cart = r.cart /\ order.customer = r.customer

\* findOrderByIdempotencyKey: nothing found, the same request again, or
\* another request under the same key.
FindOrder(p) ==
  /\ pc[p] = "findOrder"
  /\ \/ /\ PlacedUnder(req[p].key) = {}
        /\ Goto(p, "readItems")
        /\ UNCHANGED <<tables, req, held, work, answers>>
     \/ \E id \in PlacedUnder(req[p].key) :
          \/ /\ SameRequest(orders[id], req[p])
             /\ Keep(p, id)
             /\ Goto(p, "replay")
             /\ UNCHANGED <<tables, req, held, answers>>
          \/ ~SameRequest(orders[id], req[p]) /\ Rollback(p)

\* The commit of a transaction that wrote nothing, and m.Get(existingOrderID).
Replay(p) ==
  /\ pc[p] = "replay"
  /\ answers' = answers \cup {[request |-> req[p], id |-> work[p]]}
  /\ Finish(p)
  /\ UNCHANGED tables

\* Mutant: the prices are not compared.
StillAvailable(i, line) == menu[i] # None /\ menu[i].available

\* An item is still offered on the terms the cart has copied.
StillOffered(i, line) ==
  menu[i] # None /\ menu[i].available /\ menu[i].terms = line.terms

\* checkoutItemsFromCart, one SELECT: a mixed, changed or empty cart is refused.
Orderable(contents) ==
  /\ OneRestaurant(contents)
  /\ \A i \in Chosen(contents) : StillOffered(i, contents[i])
  /\ Chosen(contents) # {}

ReadItems(p) ==
  LET contents == lines[req[p].cart] IN
  /\ pc[p] = "readItems"
  /\ \/ ~Orderable(contents) /\ Rollback(p)
     \/ /\ Orderable(contents)
        /\ Keep(p, contents)
        /\ Goto(p, "insertOrder")
        /\ UNCHANGED <<tables, req, held, answers>>

\* Rows other transactions have inserted and not yet committed.
Inserted(p) == {q \in Procs \ {p} : pc[q] = "commitOrder"}

\* orders_idempotency_key_unique: an uncommitted row with the key makes the
\* INSERT wait, a committed one makes it fail.
KeyPending(p) == \E q \in Inserted(p) : work[q].order.key = req[p].key
KeyUsed(p) == PlacedUnder(req[p].key) # {}

\* nextval: an id no order has and no transaction has been given.
FreshId(p, id) == orders[id] = None /\ \A q \in Inserted(p) : work[q].id # id

\* insertOrder and the insertOrderItem of every line.  The total must fit an
\* integer column.  Until the commit nobody else sees any of these rows.
InsertOrder(p) ==
  LET r == req[p]
      fits == Cost(work[p]) \in 1..MaxInt
  IN  /\ pc[p] = "insertOrder"
      /\ ~KeyPending(p)
      /\ \/ (KeyUsed(p) \/ ~fits) /\ Rollback(p)
         \/ /\ ~KeyUsed(p)
            /\ fits
            /\ \E id \in OrderIds :
                 /\ FreshId(p, id)
                 /\ Keep(p, [id |-> id,
                             order |-> NewOrder(r.key, r.cart, r.customer, work[p])])
            /\ Goto(p, "commitOrder")
            /\ UNCHANGED <<tables, req, held, answers>>

CommitOrder(p) ==
  /\ pc[p] = "commitOrder"
  /\ orders' = [orders EXCEPT ![work[p].id] = work[p].order]
  /\ answers' = answers \cup {[request |-> req[p], id |-> work[p].id]}
  /\ Finish(p)
  /\ UNCHANGED <<menu, carts, lines>>

CheckoutStep(p) ==
  \/ BeginCheckout(p) \/ LockKey(p) \/ LockBasket(p) \/ FindOrder(p) \/ Replay(p)
  \/ ReadItems(p) \/ InsertOrder(p) \/ CommitOrder(p)

================================================================================
