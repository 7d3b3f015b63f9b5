------------------------------- MODULE CartItems -------------------------------
(***************************************************************************)
(* CartModel (internal/models/carts.go): Insert, AddItem, UpdateItem and   *)
(* DeleteItem.  AddItem and UpdateItem lock the cart before the item's     *)
(* row; DeleteItem locks the row first and the cart only afterwards.       *)
(* CartModel.Get, which answers every one of them after the commit, only   *)
(* reads.                                                                  *)
(***************************************************************************)
EXTENDS Database

\* Insert: one statement, a transaction by itself.
InsertCart(c) ==
  /\ c \notin carts
  /\ carts' = carts \cup {c}
  /\ UNCHANGED <<menu, lines, orders, pc, req, held, work, answers>>

\* Mutant: the upper bound is left to the database.
ValidIfPositive(quantity) == quantity >= 1

\* The bounds checked before anything is read.
ValidQuantity(quantity) == quantity >= 1 /\ quantity <= MaxQuantity

BeginCartItem(p) ==
  \E r \in Requests :
    \/ /\ r.op \in {"add", "update"}
       /\ ValidQuantity(r.quantity)
       /\ Begin(p, r, "lockCart")
    \/ r.op = "delete" /\ Begin(p, r, "deleteLine")

\* Mutant: the cart is only looked up, without FOR UPDATE.
FindCart(p) ==
  /\ pc[p] = "lockCart"
  /\ \/ req[p].cart \notin carts /\ Rollback(p)
     \/ /\ req[p].cart \in carts
        /\ Goto(p, "readItem")
        /\ UNCHANGED <<tables, req, held, work, answers>>

\* Mutant: UpdateItem, like DeleteItem, leaves the cart's lock for later.
LockCartToAdd(p) ==
  /\ pc[p] = "lockCart"
  /\ \/ req[p].cart \notin carts /\ Rollback(p)
     \/ /\ req[p].cart \in carts
        /\ IF req[p].op = "add" THEN Acquire(p, CartLock(req[p].cart)) ELSE UNCHANGED held
        /\ Goto(p, "readItem")
        /\ UNCHANGED <<tables, req, work, answers>>

\* SELECT id FROM carts WHERE id = $1 FOR UPDATE
LockCart(p) ==
  /\ pc[p] = "lockCart"
  /\ \/ req[p].cart \notin carts /\ Rollback(p)
     \/ /\ req[p].cart \in carts
        /\ Acquire(p, CartLock(req[p].cart))
        /\ Goto(p, "readItem")
        /\ UNCHANGED <<tables, req, work, answers>>

\* Mutant: an item that is off the menu can still be had.
ReadAnyItem(p) ==
  LET row == menu[req[p].item] IN
  /\ pc[p] = "readItem"
  /\ \/ row = None /\ Rollback(p)
     \/ /\ row # None
        /\ Keep(p, row.terms)
        /\ Goto(p, IF req[p].op = "add" THEN "checkMixed" ELSE "updateLine")
        /\ UNCHANGED <<tables, req, held, answers>>

\* getAvailableMenuItemForCart: the terms that will be copied into the cart.
\* The menu row is not locked.
ReadItem(p) ==
  LET row == menu[req[p].item] IN
  /\ pc[p] = "readItem"
  /\ \/ (row = None \/ ~row.available) /\ Rollback(p)
     \/ /\ row # None
        /\ row.available
        /\ Keep(p, row.terms)
        /\ Goto(p, IF req[p].op = "add" THEN "checkMixed" ELSE "updateLine")
        /\ UNCHANGED <<tables, req, held, answers>>

\* The cart holds an item of another restaurant.
Mixed(c, i) == \E j \in Chosen(lines[c]) : RestaurantOf[j] # RestaurantOf[i]

\* checkCartCanAcceptRestaurant
CheckMixed(p) ==
  /\ pc[p] = "checkMixed"
  /\ \/ Mixed(req[p].cart, req[p].item) /\ Rollback(p)
     \/ /\ ~Mixed(req[p].cart, req[p].item)
        /\ Goto(p, "upsertLine")
        /\ UNCHANGED <<tables, req, held, work, answers>>

\* INSERT ... ON CONFLICT DO UPDATE ... WHERE the sum is within the limit.
UpsertLine(p) ==
  LET c == req[p].cart
      i == req[p].item
      sum == req[p].quantity + IF lines[c][i] = None THEN 0 ELSE lines[c][i].quantity
  IN  /\ pc[p] = "upsertLine"
      /\ Free(p, LineLock(c, i))
      /\ \/ sum > MaxQuantity /\ Rollback(p)
         \/ /\ sum <= MaxQuantity
            /\ Acquire(p, LineLock(c, i))
            /\ Keep(p, [terms |-> work[p], quantity |-> sum])
            /\ Goto(p, "touchCart")
            /\ UNCHANGED <<tables, req, answers>>

\* UPDATE cart_items: no row, no lock.
UpdateLine(p) ==
  LET c == req[p].cart
      i == req[p].item
  IN  /\ pc[p] = "updateLine"
      /\ \/ lines[c][i] = None /\ Rollback(p)
         \/ /\ lines[c][i] # None
            /\ Acquire(p, LineLock(c, i))
            /\ Keep(p, [terms |-> work[p], quantity |-> req[p].quantity])
            /\ Goto(p, "touchCart")
            /\ UNCHANGED <<tables, req, answers>>

\* Mutant: DeleteItem forgets to touch, and so to lock, the cart.
DeleteLineAlone(p) ==
  LET c == req[p].cart
      i == req[p].item
  IN  /\ pc[p] = "deleteLine"
      /\ \/ lines[c][i] = None /\ Rollback(p)
         \/ /\ lines[c][i] # None
            /\ Acquire(p, LineLock(c, i))
            /\ Goto(p, "commitCart")
            /\ UNCHANGED <<tables, req, work, answers>>

\* DELETE FROM cart_items: the row is locked, the cart is not.  The absent row
\* to publish at the commit is the None work[p] already is.
DeleteLine(p) ==
  LET c == req[p].cart
      i == req[p].item
  IN  /\ pc[p] = "deleteLine"
      /\ \/ lines[c][i] = None /\ Rollback(p)
         \/ /\ lines[c][i] # None
            /\ Acquire(p, LineLock(c, i))
            /\ Goto(p, "touchCart")
            /\ UNCHANGED <<tables, req, work, answers>>

\* UPDATE carts SET updated_at = now(): all that remains of it is the cart's
\* row lock, which DeleteItem takes here for the first time.
TouchCart(p) ==
  /\ pc[p] = "touchCart"
  /\ Acquire(p, CartLock(req[p].cart))
  /\ Goto(p, "commitCart")
  /\ UNCHANGED <<tables, req, work, answers>>

CommitCart(p) ==
  /\ pc[p] = "commitCart"
  /\ lines' = [lines EXCEPT ![req[p].cart][req[p].item] = work[p]]
  /\ Finish(p)
  /\ UNCHANGED <<menu, carts, orders, answers>>

CartItemStep(p) ==
  \/ BeginCartItem(p) \/ LockCart(p) \/ ReadItem(p) \/ CheckMixed(p)
  \/ UpsertLine(p) \/ UpdateLine(p) \/ DeleteLine(p) \/ TouchCart(p)
  \/ CommitCart(p)

================================================================================
