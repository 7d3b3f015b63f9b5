------------------------------- MODULE Ordering --------------------------------
(***************************************************************************)
(* The ordering core: carts, checkout, catalog syncs and partners' status  *)
(* updates, run by any number of processes against one database.           *)
(***************************************************************************)
EXTENDS CartItems, Checkout, Catalog, PartnerStatus

Init == InitDatabase

Next ==
  \/ \E c \in Carts : InsertCart(c)
  \/ \E p \in Procs : CartItemStep(p)
  \/ \E p \in Procs : CheckoutStep(p)
  \/ \E p \in Procs : CatalogStep(p)
  \/ \E p \in Procs : StatusStep(p)
  \/ \E p \in Procs : Abort(p)

Spec == Init /\ [][Next]_vars

(***************************************************************************)
(* Types.  What work[p] holds depends on where the transaction is.         *)
(***************************************************************************)
CartLabels == {"lockCart", "readItem", "checkMixed", "upsertLine", "updateLine",
               "deleteLine", "touchCart", "commitCart"}
CheckoutLabels == {"lockKey", "lockBasket", "findOrder", "replay", "readItems",
                   "insertOrder", "commitOrder"}
CatalogLabels == {"lockRestaurant", "upsertItems", "deactivate", "commitCatalog"}
StatusLabels == {"lockOrder", "updateOrder", "commitStatus"}

Labels == {"idle"} \cup CartLabels \cup CheckoutLabels \cup CatalogLabels \cup StatusLabels

Draft == [id : OrderIds, order : Order]

Answer == [request : CheckoutRequests, id : OrderIds]

Work == Contents \cup Menu \cup Line \cup Order \cup Draft \cup Terms
          \cup OrderIds \cup {None}

\* The request belongs to the operation the transaction is in.
ReqType(p) ==
  /\ pc[p] \in CartLabels =>
       \/ req[p] \in CartRequests /\ req[p].quantity \in 1..MaxQuantity
       \/ req[p] \in DeleteRequests /\ pc[p] \in {"deleteLine", "touchCart", "commitCart"}
  /\ pc[p] \in {"checkMixed", "upsertLine"} => req[p].op = "add"
  /\ pc[p] = "updateLine" => req[p].op = "update"
  /\ pc[p] = "deleteLine" => req[p].op = "delete"
  /\ pc[p] \in CheckoutLabels => req[p] \in CheckoutRequests
  /\ pc[p] \in CatalogLabels => req[p] \in CatalogRequests
  /\ pc[p] \in StatusLabels => req[p] \in StatusRequests
  /\ pc[p] \in {"updateOrder", "commitStatus"} => req[p].order \in Placed

WorkType(p) ==
  /\ pc[p] \in {"checkMixed", "upsertLine", "updateLine"} => work[p] \in Terms
  /\ pc[p] \in {"touchCart", "commitCart"} => work[p] \in Line \cup {None}
  /\ pc[p] \in {"idle", "deleteLine"} => work[p] = None
  /\ pc[p] = "insertOrder" => work[p] \in Contents /\ Chosen(work[p]) # {}
  /\ pc[p] = "replay" => work[p] \in OrderIds
  /\ pc[p] = "commitOrder" => work[p] \in Draft
  /\ pc[p] \in {"deactivate", "commitCatalog"} => work[p] \in Menu
  /\ pc[p] = "commitStatus" => work[p] \in Order

\* Every table, lock and transaction holds what its declaration says; in
\* particular no quantity, total or status leaves its range, however the
\* operations that compute it interleave.
TypeOK ==
  /\ menu \in Menu
  /\ carts \in SUBSET Carts
  /\ lines \in [Carts -> Contents]
  /\ orders \in [OrderIds -> Order \cup {None}]
  /\ pc \in [Procs -> Labels]
  /\ req \in [Procs -> Requests \cup {None}]
  /\ held \in [Procs -> SUBSET Locks]
  /\ work \in [Procs -> Work]
  /\ \A p \in Procs : ReqType(p) /\ WorkType(p)
  /\ answers \in SUBSET Answer

(***************************************************************************)
(* Safety.                                                                 *)
(***************************************************************************)

\* A cart never holds items of two restaurants, although AddItem checks for
\* that in one statement and inserts in a later one (carts.go:138-152).
CartNeverMixed == \A c \in Carts : OneRestaurant(lines[c])

\* When checkout inserts an order, no other order has its key and no other
\* transaction is about to commit one that has: the advisory lock makes the
\* unique index a backstop no request runs into (orders.go:90, 103, 123).
UniqueIndexIsNeverHit ==
  \A p \in Procs : pc[p] = "insertOrder" => ~KeyUsed(p) /\ ~KeyPending(p)

\* Retries are safe: whatever is answered for an idempotency key is one and
\* the same order, and it is the order of the very request that is answered,
\* cart and customer included (orders.go:103-113, 549).
AnswersAgree ==
  /\ \A a, b \in answers : a.request.key = b.request.key => a = b
  /\ \A a \in answers :
       /\ a.id \in Placed
       /\ orders[a.id].key = a.request.key
       /\ SameRequest(orders[a.id], a.request)

\* Optimistic locking: when a status update is written, the order is still at
\* the version its client named and in the status the checks saw, so no other
\* update is overwritten unseen (orders.go:327, 334, 341).
UpdateBuildsOnSeenVersion ==
  \A p \in Procs :
    pc[p] \in {"updateOrder", "commitStatus"} => Acceptable(orders[req[p].order], req[p])

\* An order's version counts its updates: a client that has seen a status can
\* tell from the version that it has seen the latest one (orders.go:334, 345).
Stage == [s \in {"pending_partner", "accepted", "cooking", "ready", "delivering",
                 "delivered"} |->
            CASE s = "pending_partner" -> 1 [] s = "accepted"   -> 2
              [] s = "cooking"         -> 3 [] s = "ready"      -> 4
              [] s = "delivering"      -> 5 [] s = "delivered"  -> 6]

VersionCountsUpdates ==
  \A id \in Placed :
    IF orders[id].status = "cancelled" THEN orders[id].version \in 2..4
                                       ELSE orders[id].version = Stage[orders[id].status]

\* An accepted order has the partner's number, and the column is never empty
\* again: later updates need not name the number (orders.go:344, 385).
TakenOrderHasRef ==
  \A id \in Placed :
    /\ orders[id].status = "accepted" => NotBlank(orders[id].ref)
    /\ orders[id].status \in Taken => orders[id].ref # None

\* But a number need not stay one: a blank one is refused only to accept
\* (orders.go:385) and only the empty string keeps the number (orders.go:344).
\* It is lost to nothing else: not to an update without a number, to one that
\* fails, or to one of another order.
NumberLostOnlyToBlanks ==
  [][\A id \in Placed :
       NotBlank(orders[id].ref) /\ ~NotBlank(orders'[id].ref) =>
         \E p \in Procs : /\ pc[p] = "commitStatus"
                          /\ req[p].order = id
                          /\ req[p].ref = Blank
    ]_orders

\* An order only ever moves along its life cycle, and everything else in it,
\* the items and the total copied from the cart included, is final.
OrderHistory ==
  [][\A id \in Placed :
       \/ orders'[id] = orders[id]
       \/ /\ CanTransition(orders[id].status, orders'[id].status)
          /\ orders'[id] = Updated(orders[id], orders'[id].status, orders'[id].ref)
    ]_orders

(***************************************************************************)
(* Deadlocks.                                                              *)
(***************************************************************************)

\* The next statement of p needs the lock before it can proceed.
Wants(p, lock) ==
  LET r == req[p] IN
  \/ pc[p] \in {"lockCart", "touchCart", "lockBasket"} /\ lock = CartLock(r.cart)
  \/ /\ \/ pc[p] = "upsertLine"
        \/ pc[p] \in {"updateLine", "deleteLine"} /\ lines[r.cart][r.item] # None
     /\ lock = LineLock(r.cart, r.item)
  \/ pc[p] = "lockKey" /\ lock = KeyLock(r.key)
  \/ pc[p] = "lockRestaurant" /\ lock = RestaurantLock(r.restaurant)
  \/ pc[p] \in {"lockOrder", "updateOrder"} /\ lock = OrderLock(r.order)

WaitsFor(p, q) == p # q /\ \E lock \in held[q] : Wants(p, lock)

\* Transactions that all wait for one another.
Deadlocked(S) == S # {} /\ \A p \in S : \E q \in S : WaitsFor(p, q)

\* Everything but DeleteItem takes its locks in one order (key, cart, item), so
\* whenever transactions wait for each other in a circle, a DeleteItem is one
\* of them (carts.go:260-277 against 125-152 and 196-216).
DeadlockNeedsDelete ==
  \A S \in SUBSET Procs : Deadlocked(S) => \E p \in S : req[p].op = "delete"

\* No set of transactions ever waits for one another.
NoDeadlock == \A S \in SUBSET Procs : ~Deadlocked(S)

(***************************************************************************)
(* Why it is correct: the inductive invariant behind the properties above. *)
(***************************************************************************)

\* No lock is held twice.
MutualExclusion == \A p, q \in Procs : p # q => held[p] \cap held[q] = {}

\* The locks a transaction has taken on its way.
LocksHeld(p) ==
  /\ pc[p] \in {"readItem", "checkMixed", "upsertLine", "updateLine", "commitCart",
                "findOrder", "replay", "readItems", "insertOrder", "commitOrder"} =>
       CartLock(req[p].cart) \in held[p]
  /\ pc[p] = "touchCart" /\ req[p].op # "delete" => CartLock(req[p].cart) \in held[p]
  /\ pc[p] \in {"lockBasket", "findOrder", "replay", "readItems", "insertOrder",
                "commitOrder"} =>
       KeyLock(req[p].key) \in held[p]
  /\ pc[p] \in {"touchCart", "commitCart"} => LineLock(req[p].cart, req[p].item) \in held[p]
  /\ pc[p] \in {"upsertItems", "deactivate", "commitCatalog"} =>
       RestaurantLock(req[p].restaurant) \in held[p]
  /\ pc[p] \in {"updateOrder", "commitStatus"} => OrderLock(req[p].order) \in held[p]

\* What a cart transaction has found in the cart is still there.
CartUnchanged(p) ==
  LET c == req[p].cart
      i == req[p].item
      written == pc[p] \in {"touchCart", "commitCart"}
      before == IF lines[c][i] = None THEN 0 ELSE lines[c][i].quantity
  IN  /\ pc[p] = "upsertLine" \/ (written /\ req[p].op = "add") => ~Mixed(c, i)
      /\ written /\ req[p].op # "add" => lines[c][i] # None
      /\ written /\ req[p].op = "add" =>
           work[p] # None /\ work[p].quantity = before + req[p].quantity
      /\ written /\ req[p].op = "update" => work[p] # None
      /\ written /\ req[p].op = "delete" => work[p] = None
      /\ pc[p] \in {"readItem", "checkMixed", "upsertLine", "updateLine"}
           \/ (written /\ req[p].op = "add") => c \in carts

\* What a checkout has found, of its key and of its cart, is still so.
CheckoutUnchanged(p) ==
  LET r == req[p] IN
  /\ pc[p] \in {"readItems", "insertOrder", "commitOrder"} => PlacedUnder(r.key) = {}
  /\ pc[p] = "insertOrder" => work[p] = lines[r.cart] /\ OneRestaurant(work[p])
  /\ pc[p] = "commitOrder" =>
       /\ OneRestaurant(lines[r.cart])
       /\ Chosen(lines[r.cart]) # {}
       /\ work[p].order = NewOrder(r.key, r.cart, r.customer, lines[r.cart])
       /\ orders[work[p].id] = None
       /\ \A q \in Inserted(p) : work[q].id # work[p].id
  /\ pc[p] = "replay" => work[p] \in PlacedUnder(r.key) /\ SameRequest(orders[work[p]], r)

\* What a status update has found in the order is still there.
StatusUnchanged(p) ==
  LET r == req[p] IN
  /\ pc[p] \in StatusLabels => ValidStatusUpdate(r)
  /\ pc[p] \in {"updateOrder", "commitStatus"} => OwnOrder(r) /\ Acceptable(orders[r.order], r)
  /\ pc[p] = "commitStatus" => work[p] = Updated(orders[r.order], r.status, r.ref)

\* Nobody disturbs a running transaction.
Undisturbed(p) ==
  LocksHeld(p) /\ CartUnchanged(p) /\ CheckoutUnchanged(p) /\ StatusUnchanged(p)

\* The unique index on the key has nothing to refuse.
OneOrderPerKey ==
  \A id, other \in Placed : orders[id].key = orders[other].key => id = other

\* Locks exclude each other, and therefore whatever a transaction has read of
\* its cart, its key or its order under a lock is still so when it writes
\* (the FOR UPDATE and advisory locks of carts.go and orders.go).
IndInv ==
  /\ TypeOK
  /\ MutualExclusion
  /\ \A p \in Procs : Undisturbed(p)
  /\ CartNeverMixed
  /\ OneOrderPerKey
  /\ AnswersAgree
  /\ VersionCountsUpdates
  /\ TakenOrderHasRef

(***************************************************************************)
(* Every committed transaction is one step of the abstract shop.           *)
(***************************************************************************)
Abstract == INSTANCE Shop

\* The tables behave as if each operation took effect at once, at its commit:
\* orders copy the cart as it is when they appear, quantities add up, and two
\* syncs of a menu never mix.
ImplementsShop == Abstract!Spec

\* What a transaction is about to publish is what its request asks for, of the
\* rows as they still are.
FollowsRequest(p) ==
  LET r == req[p]
      dropped(i) == /\ r.listing[i] = None
                    /\ RestaurantOf[i] = r.restaurant
                    /\ menu[i] # None
                    /\ menu[i].available
  IN  /\ pc[p] \in {"touchCart", "commitCart"} /\ r.op = "update" =>
           work[p].quantity = r.quantity
      /\ pc[p] = "deactivate" => work[p] = r.listing
      /\ pc[p] = "commitCatalog" =>
           work[p] = [i \in Items |-> IF dropped(i) THEN [menu[i] EXCEPT !.available = FALSE]
                                                   ELSE r.listing[i]]

\* Why a commit is a step of the shop: nobody has changed what it was computed
\* from (carts.go:200-216, catalog.go:35-61).
ShopInv == IndInv /\ \A p \in Procs : FollowsRequest(p)

\* What a partner sees of the orders.
LifeOf(order) ==
  IF order = None THEN None ELSE [status |-> order.status, version |-> order.version]

Contract == INSTANCE OrderLife WITH Ids  <- OrderIds,
                                    life <- [id \in OrderIds |-> LifeOf(orders[id])]

\* Whichever checkouts and updates interleave or are aborted, a partner sees
\* its orders appear and move one legal step at a time, each counted by the
\* version (orders.go:123, 334-345).
ImplementsOrderLife == Contract!LifeSpec

================================================================================
