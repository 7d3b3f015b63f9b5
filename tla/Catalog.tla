-------------------------------- MODULE Catalog --------------------------------
(***************************************************************************)
(* CatalogModel.Update (internal/models/catalog.go): a partner's restaurant *)
(* and its whole menu are replaced in one transaction.  work[p] holds the  *)
(* menu rows written so far, None for a row not written.                   *)
(***************************************************************************)
EXTENDS Database

\* ValidateRestaurantCatalogInput: a listing is a function, so its item ids
\* are distinct; prices are positive.
BeginCatalog(p) == \E r \in Requests : r.op = "catalog" /\ Begin(p, r, "lockRestaurant")

\* Mutant: the restaurant's row is only read.
FindRestaurant(p) ==
  /\ pc[p] = "lockRestaurant"
  /\ Goto(p, "upsertItems")
  /\ UNCHANGED <<tables, req, held, work, answers>>

\* upsertCatalogRestaurant: the first statement writes the restaurant's row,
\* so two syncs of one partner run one after the other.
LockRestaurant(p) ==
  /\ pc[p] = "lockRestaurant"
  /\ Acquire(p, RestaurantLock(req[p].restaurant))
  /\ Goto(p, "upsertItems")
  /\ UNCHANGED <<tables, req, work, answers>>

\* upsertCatalogItem for every listed item.
UpsertItems(p) ==
  /\ pc[p] = "upsertItems"
  /\ Keep(p, req[p].listing)
  /\ Goto(p, "deactivate")
  /\ UNCHANGED <<tables, req, held, answers>>

\* The UPDATE that takes every available item not listed off the menu.
Deactivated(p, i) ==
  /\ RestaurantOf[i] = req[p].restaurant
  /\ work[p][i] = None
  /\ menu[i] # None
  /\ menu[i].available

Deactivate(p) ==
  /\ pc[p] = "deactivate"
  /\ Keep(p, [i \in Items |->
                IF Deactivated(p, i) THEN [menu[i] EXCEPT !.available = FALSE]
                                     ELSE work[p][i]])
  /\ Goto(p, "commitCatalog")
  /\ UNCHANGED <<tables, req, held, answers>>

CommitCatalog(p) ==
  /\ pc[p] = "commitCatalog"
  /\ menu' = [i \in Items |-> IF work[p][i] # None THEN work[p][i] ELSE menu[i]]
  /\ Finish(p)
  /\ UNCHANGED <<carts, lines, orders, answers>>

CatalogStep(p) ==
  \/ BeginCatalog(p) \/ LockRestaurant(p) \/ UpsertItems(p) \/ Deactivate(p)
  \/ CommitCatalog(p)

================================================================================
