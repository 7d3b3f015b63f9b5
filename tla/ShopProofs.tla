------------------------------ MODULE ShopProofs -------------------------------
(***************************************************************************)
(* Ordering implements Shop and OrderLife: every commit is one step of the *)
(* abstract shop, every other statement changes nothing a client sees.     *)
(***************************************************************************)
EXTENDS OrderingProofs, Offers

(***************************************************************************)
(* The shop's own copies of the functions on rows are the functions.       *)
(***************************************************************************)
LEMMA SameFunctions ==
  /\ \A contents : Abstract!Chosen(contents) = Chosen(contents)
  /\ \A contents : Abstract!Cost(contents) = Cost(contents)
  /\ \A contents : Abstract!OneRestaurant(contents) <=> OneRestaurant(contents)
  /\ \A order, s, ref : Abstract!Updated(order, s, ref) = Updated(order, s, ref)
  /\ \A from, to : Abstract!CanTransition(from, to) <=> CanTransition(from, to)
  /\ \A ref : Abstract!NotBlank(ref) <=> NotBlank(ref)
  /\ Abstract!Placed = Placed
<1>1. \A contents : Abstract!Chosen(contents) = Chosen(contents)
  BY DEF Chosen, Abstract!Chosen
<1>2. ASSUME NEW contents PROVE Abstract!Cost(contents) = Cost(contents)
  BY DEF Cost, Abstract!Cost, MapThenSumSet, Abstract!MapThenSumSet, Chosen,
         Abstract!Chosen, MapThenFoldSet, Abstract!MapThenFoldSet
<1>3. \A contents : Abstract!OneRestaurant(contents) <=> OneRestaurant(contents)
  BY <1>1 DEF OneRestaurant, Abstract!OneRestaurant
<1>4. \A order, s, ref : Abstract!Updated(order, s, ref) = Updated(order, s, ref)
  BY DEF Updated, Abstract!Updated
<1>5. \A from, to : Abstract!CanTransition(from, to) <=> CanTransition(from, to)
  BY DEF CanTransition, Abstract!CanTransition, Moves, Abstract!Moves
<1>6. Abstract!Placed = Placed
  BY DEF Placed, Abstract!Placed
<1>7. \A ref : Abstract!NotBlank(ref) <=> NotBlank(ref)
  BY DEF NotBlank, Abstract!NotBlank
<1>8. QED
  BY <1>1, <1>2, <1>3, <1>4, <1>5, <1>6, <1>7

LEMMA SameNewOrder ==
  \A key, cart, customer, contents :
    Abstract!NewOrder(key, cart, customer, contents) = NewOrder(key, cart, customer, contents)
  BY SameFunctions DEF NewOrder, Abstract!NewOrder

(***************************************************************************)
(* What p does leaves the other transactions what they were about to       *)
(* publish.                                                                *)
(***************************************************************************)

Frame(p) ==
  /\ \A q \in Procs \ {p} : pc'[q] = pc[q] /\ req'[q] = req[q] /\ work'[q] = work[q]
  /\ \A q \in Procs \ {p}, i \in Items :
       pc[q] = "commitCatalog" /\ RestaurantOf[i] = req[q].restaurant => menu'[i] = menu[i]

LEMMA FrameKeepsFollowing ==
  ASSUME NEW p \in Procs, Frame(p), \A q \in Procs : FollowsRequest(q), FollowsRequest(p)'
  PROVE  \A q \in Procs : FollowsRequest(q)'
<1>1. SUFFICES ASSUME NEW q \in Procs \ {p} PROVE FollowsRequest(q)'
  OBVIOUS
<1>2. /\ pc'[q] = pc[q] /\ req'[q] = req[q] /\ work'[q] = work[q]
      /\ FollowsRequest(q)
      /\ \A i \in Items :
           pc[q] = "commitCatalog" /\ RestaurantOf[i] = req[q].restaurant => menu'[i] = menu[i]
  BY <1>1 DEF Frame
<1>3. QED
  BY <1>2 DEF FollowsRequest

\* A statement of p that publishes nothing.
LEMMA StatementFrame ==
  ASSUME TypeOK, NEW p \in Procs, NEW label, Goto(p, label), UNCHANGED <<menu, req>>,
         work' = work \/ \E value : Keep(p, value)
  PROVE  Frame(p) /\ pc'[p] = label
  BY DEF Frame, Goto, Keep, TypeOK

LEMMA FinishFrame ==
  ASSUME TypeOK, NEW p \in Procs, Finish(p), UNCHANGED menu
  PROVE  Frame(p) /\ FollowsRequest(p)'
  BY DEF Frame, Finish, Goto, Keep, TypeOK, FollowsRequest

LEMMA RollbackRefines ==
  ASSUME TypeOK, NEW p \in Procs, Rollback(p)
  PROVE  Frame(p) /\ FollowsRequest(p)' /\ UNCHANGED tables
  BY FinishFrame DEF Rollback, tables

LEMMA BeginRefines ==
  ASSUME TypeOK, NEW p \in Procs, NEW r, NEW label,
         label \notin {"touchCart", "commitCart", "deactivate", "commitCatalog"},
         Begin(p, r, label)
  PROVE  Frame(p) /\ FollowsRequest(p)' /\ UNCHANGED tables
  BY DEF Begin, Frame, Goto, TypeOK, FollowsRequest, tables

ShopStep == [Abstract!Next]_<<menu, carts, lines, orders>>

\* A request that takes effect is a step of the shop.
LEMMA ServedIsStep ==
  ASSUME NEW r \in Requests, Abstract!Serve(r) PROVE ShopStep
  BY DEF ShopStep, Abstract!Next

LEMMA CommitCartRefines ==
  ASSUME ShopInv, NEW p \in Procs, CommitCart(p)
  PROVE  ShopStep
<1> DEFINE c == req[p].cart
           i == req[p].item
<1>1. /\ pc[p] = "commitCart"
      /\ lines' = [lines EXCEPT ![c][i] = work[p]]
      /\ UNCHANGED <<menu, carts, orders>>
  BY DEF CommitCart
<1>2. /\ TypeOK
      /\ CartUnchanged(p)
      /\ FollowsRequest(p)
  BY DEF ShopInv, IndInv, Undisturbed
<1>3. /\ req[p] \in Requests
      /\ \/ req[p] \in CartRequests /\ req[p].quantity \in 1..MaxQuantity
         \/ req[p] \in DeleteRequests
  BY <1>1, <1>2, DatabaseAssumption DEF TypeOK, ReqType, CartLabels, CartRequests, DeleteRequests
<1>4. lines \in [Carts -> Contents] /\ c \in Carts /\ i \in Items
  BY <1>2, <1>3 DEF TypeOK, CartRequests, DeleteRequests
<1>5. work[p] \in Line \cup {None}
  BY <1>1, <1>2 DEF TypeOK, WorkType
<1>6. CASE req[p].op = "add"
  <2>1. /\ work[p] \in Line
        /\ work[p].quantity = req[p].quantity + IF lines[c][i] = None THEN 0
                                                ELSE lines[c][i].quantity
        /\ c \in carts
        /\ ~Mixed(c, i)
        /\ req[p].quantity \in 1..MaxQuantity
    <3>1. work[p] # None /\ c \in carts /\ ~Mixed(c, i)
      BY <1>1, <1>2, <1>6 DEF CartUnchanged
    <3>2. work[p].quantity = (IF lines[c][i] = None THEN 0 ELSE lines[c][i].quantity)
                               + req[p].quantity
      BY <1>1, <1>2, <1>6 DEF CartUnchanged
    <3>3. req[p].quantity \in 1..MaxQuantity
      BY <1>3, <1>6 DEF DeleteRequests
    <3>4. lines[c][i] # None => lines[c][i].quantity \in Nat
      BY <1>4, DomainAssumption DEF Contents, Line
    <3>5. QED
      BY <1>5, <3>1, <3>2, <3>3, <3>4, DomainAssumption
  <2>2. /\ work[p].terms \in Terms
        /\ work[p].quantity \in 1..MaxQuantity
        /\ work[p] = [terms |-> work[p].terms, quantity |-> work[p].quantity]
    BY <2>1 DEF Line
  <2>3. Abstract!Add(c, i, req[p].quantity, work[p].terms)
    <3> DEFINE sum == req[p].quantity + IF lines[c][i] = None THEN 0
                                        ELSE lines[c][i].quantity
    <3>1. sum <= MaxQuantity /\ req[p].quantity >= 1
      BY <2>1, <2>2, DomainAssumption
    <3>2. lines' = [lines EXCEPT ![c][i] = [terms |-> work[p].terms, quantity |-> sum]]
      BY <1>1, <2>1, <2>2
    <3>3. \A j \in Abstract!Chosen(lines[c]) : RestaurantOf[j] = RestaurantOf[i]
      BY <2>1, SameFunctions DEF Mixed
    <3>4. QED
      BY <1>1, <2>1, <3>1, <3>2, <3>3 DEF Abstract!Add
  <2>4. QED
    BY <1>3, <1>6, <2>2, <2>3, ServedIsStep DEF Abstract!Serve
<1>7. CASE req[p].op = "update"
  <2>1. /\ work[p] \in Line
        /\ lines[c][i] # None
        /\ work[p].quantity = req[p].quantity
        /\ req[p].quantity \in 1..MaxQuantity
    BY <1>1, <1>2, <1>3, <1>5, <1>7 DEF CartUnchanged, FollowsRequest, DeleteRequests
  <2>2. /\ work[p].terms \in Terms
        /\ work[p] = [terms |-> work[p].terms, quantity |-> work[p].quantity]
    BY <2>1 DEF Line
  <2>3. Abstract!Change(c, i, req[p].quantity, work[p].terms)
    BY <1>1, <1>4, <2>1, <2>2, SameFunctions DEF Abstract!Change, Chosen
  <2>4. QED
    BY <1>3, <1>7, <2>2, <2>3, ServedIsStep DEF Abstract!Serve
<1>8. CASE req[p].op = "delete"
  <2>1. work[p] = None /\ lines[c][i] # None
    BY <1>1, <1>2, <1>8 DEF CartUnchanged
  <2>2. Abstract!Remove(c, i)
    BY <1>1, <1>4, <2>1, SameFunctions DEF Abstract!Remove, Chosen
  <2>3. QED
    BY <1>3, <1>8, <2>2, ServedIsStep DEF Abstract!Serve
<1>9. QED
  BY <1>3, <1>6, <1>7, <1>8 DEF CartRequests, DeleteRequests

LEMMA CommitOrderRefines ==
  ASSUME ShopInv, NEW p \in Procs, CommitOrder(p)
  PROVE  ShopStep
<1>1. /\ pc[p] = "commitOrder"
      /\ orders' = [orders EXCEPT ![work[p].id] = work[p].order]
      /\ UNCHANGED <<menu, carts, lines>>
  BY DEF CommitOrder
<1>2. TypeOK /\ CheckoutUnchanged(p)
  BY DEF ShopInv, IndInv, Undisturbed
<1>3. req[p] \in Requests /\ req[p] \in CheckoutRequests
  BY <1>1, <1>2, DatabaseAssumption DEF TypeOK, ReqType, CheckoutLabels, CheckoutRequests
<1>4. work[p].id \in OrderIds
  BY <1>1, <1>2 DEF TypeOK, WorkType, Draft
<1>5. /\ PlacedUnder(req[p].key) = {}
      /\ OneRestaurant(lines[req[p].cart])
      /\ Chosen(lines[req[p].cart]) # {}
      /\ work[p].order = NewOrder(req[p].key, req[p].cart, req[p].customer, lines[req[p].cart])
      /\ orders[work[p].id] = None
  BY <1>1, <1>2 DEF CheckoutUnchanged
<1>6. Abstract!Place(work[p].id, req[p].key, req[p].cart, req[p].customer)
  BY <1>1, <1>5, SameFunctions, SameNewOrder DEF Abstract!Place, PlacedUnder
<1>7. QED
  BY <1>3, <1>4, <1>6, ServedIsStep DEF Abstract!Serve, CheckoutRequests

LEMMA CommitStatusRefines ==
  ASSUME ShopInv, NEW p \in Procs, CommitStatus(p)
  PROVE  ShopStep
<1>1. /\ pc[p] = "commitStatus"
      /\ orders' = [orders EXCEPT ![req[p].order] = work[p]]
      /\ UNCHANGED <<menu, carts, lines>>
  BY DEF CommitStatus
<1>2. TypeOK /\ StatusUnchanged(p)
  BY DEF ShopInv, IndInv, Undisturbed
<1>3. req[p] \in Requests /\ req[p] \in StatusRequests
  BY <1>1, <1>2, DatabaseAssumption DEF TypeOK, ReqType, StatusLabels, StatusRequests
<1>4. /\ ValidStatusUpdate(req[p])
      /\ OwnOrder(req[p])
      /\ Acceptable(orders[req[p].order], req[p])
      /\ work[p] = Updated(orders[req[p].order], req[p].status, req[p].ref)
  BY <1>1, <1>2 DEF StatusUnchanged, StatusLabels
<1>5. Abstract!Advance(req[p].order, req[p].partner, req[p].version, req[p].status, req[p].ref)
  BY <1>1, <1>2, <1>4, SameFunctions
  DEF Abstract!Advance, ValidStatusUpdate, OwnOrder, Acceptable, Placed, TypeOK
<1>6. QED
  BY <1>3, <1>5, ServedIsStep DEF Abstract!Serve, StatusRequests

\* A listing names only items of its own restaurant.
LEMMA OwnListing ==
  ASSUME ShopInv, NEW p \in Procs, pc[p] \in CatalogLabels
  PROVE  /\ req[p] \in Requests /\ req[p] \in CatalogRequests
         /\ \A i \in Items : req[p].listing[i] # None => RestaurantOf[i] = req[p].restaurant
<1>1. req[p] \in CatalogRequests /\ req[p] \in Requests
  BY DatabaseAssumption DEF ShopInv, IndInv, TypeOK, ReqType
<1>2. req[p].op = "catalog"
  BY <1>1 DEF CatalogRequests
<1>3. QED
  BY <1>1, <1>2, RequestAssumption
  DEF CartRequests, DeleteRequests, CheckoutRequests, StatusRequests

LEMMA CommitCatalogRefines ==
  ASSUME ShopInv, NEW p \in Procs, CommitCatalog(p)
  PROVE  ShopStep /\ Frame(p) /\ FollowsRequest(p)'
<1> DEFINE r == req[p]
           dropped(i) == /\ r.listing[i] = None
                         /\ RestaurantOf[i] = r.restaurant
                         /\ menu[i] # None
                         /\ menu[i].available
<1>1. /\ pc[p] = "commitCatalog"
      /\ menu' = [i \in Items |-> IF work[p][i] # None THEN work[p][i] ELSE menu[i]]
      /\ Finish(p)
      /\ UNCHANGED <<carts, lines, orders>>
  BY DEF CommitCatalog
<1>2. /\ r \in Requests /\ r \in CatalogRequests
      /\ \A i \in Items : r.listing[i] # None => RestaurantOf[i] = r.restaurant
  BY <1>1, OwnListing DEF CatalogLabels
<1>3. TypeOK /\ MutualExclusion /\ \A q \in Procs : LocksHeld(q)
  BY DEF ShopInv, IndInv, Undisturbed
<1>4. work[p] = [i \in Items |-> IF dropped(i) THEN [menu[i] EXCEPT !.available = FALSE]
                                              ELSE r.listing[i]]
  BY <1>1 DEF ShopInv, FollowsRequest
<1>5. ASSUME NEW i \in Items
      PROVE  menu'[i] = IF RestaurantOf[i] # r.restaurant THEN menu[i]
                        ELSE IF r.listing[i] # None THEN r.listing[i]
                        ELSE IF menu[i] = None THEN None
                        ELSE [menu[i] EXCEPT !.available = FALSE]
  <2>1. menu[i] \in MenuItem \cup {None} /\ None \notin MenuItem
    BY <1>3, NoneIsNoRow DEF TypeOK, Menu
  <2>2. CASE dropped(i)
    <3>1. [menu[i] EXCEPT !.available = FALSE] \in MenuItem
      BY <2>1, <2>2 DEF MenuItem
    <3>2. QED
      BY <1>1, <1>4, <2>1, <2>2, <3>1
  <2>3. CASE ~dropped(i)
    <3>1. menu'[i] = IF r.listing[i] # None THEN r.listing[i] ELSE menu[i]
      BY <1>1, <1>4, <2>3
    <3>2. menu[i] # None /\ ~menu[i].available => [menu[i] EXCEPT !.available = FALSE] = menu[i]
      BY <2>1 DEF MenuItem
    <3>3. QED
      BY <1>2, <2>3, <3>1, <3>2
  <2>4. QED
    BY <2>2, <2>3
<1>6. Abstract!Replace(r.restaurant, r.listing)
  BY <1>1, <1>5 DEF Abstract!Replace
<1>7. ShopStep
  BY <1>2, <1>6, ServedIsStep DEF Abstract!Serve, CatalogRequests
<1>8. ASSUME NEW q \in Procs \ {p}, NEW i \in Items, pc[q] = "commitCatalog",
             RestaurantOf[i] = req[q].restaurant
      PROVE  menu'[i] = menu[i]
  <2>1. RestaurantLock(r.restaurant) \in held[p]
    BY <1>1, <1>3 DEF LocksHeld
  <2>2. RestaurantLock(req[q].restaurant) \in held[q]
    BY <1>3, <1>8 DEF LocksHeld
  <2>3. req[q].restaurant # r.restaurant
    BY <1>3, <2>1, <2>2 DEF MutualExclusion
  <2>4. QED
    BY <1>5, <1>8, <2>3
<1>9. QED
  BY <1>1, <1>3, <1>7, <1>8 DEF Frame, Finish, Goto, Keep, TypeOK, FollowsRequest

(***************************************************************************)
(* Every operation.                                                        *)
(***************************************************************************)

LEMMA CartItemRefines ==
  ASSUME ShopInv, NEW p \in Procs, CartItemStep(p)
  PROVE  ShopStep /\ Frame(p) /\ FollowsRequest(p)'
<1>1. TypeOK /\ FollowsRequest(p)
  BY DEF ShopInv, IndInv
<1>2. CASE BeginCartItem(p)
  <2>1. PICK r \in Requests, label \in {"lockCart", "deleteLine"} : Begin(p, r, label)
    BY <1>2 DEF BeginCartItem
  <2>2. QED
    BY <1>1, <2>1, BeginRefines DEF ShopStep, tables
<1>3. CASE Rollback(p)
  BY <1>1, <1>3, RollbackRefines DEF ShopStep, tables
<1>4. CASE ~Rollback(p) /\ (LockCart(p) \/ ReadItem(p) \/ CheckMixed(p))
  <2>1. PICK label \in {"readItem", "checkMixed", "updateLine", "upsertLine"} :
          Goto(p, label) /\ UNCHANGED <<tables, req>>
            /\ (work' = work \/ \E value : Keep(p, value))
    BY <1>4 DEF LockCart, ReadItem, CheckMixed
  <2>2. Frame(p) /\ pc'[p] = label /\ UNCHANGED tables
    BY <1>1, <2>1, StatementFrame DEF tables
  <2>3. QED
    BY <2>2 DEF ShopStep, tables, FollowsRequest
<1>5. CASE ~Rollback(p) /\ UpsertLine(p)
  <2>1. /\ Goto(p, "touchCart") /\ UNCHANGED <<tables, req>>
        /\ \E value : Keep(p, value)
        /\ pc[p] = "upsertLine"
    BY <1>5 DEF UpsertLine
  <2>2. Frame(p) /\ pc'[p] = "touchCart" /\ UNCHANGED tables /\ req'[p] = req[p]
    BY <1>1, <2>1, StatementFrame DEF tables
  <2>3. req[p].op = "add"
    BY <1>1, <2>1 DEF TypeOK, ReqType
  <2>4. QED
    BY <2>2, <2>3 DEF ShopStep, tables, FollowsRequest
<1>6. CASE ~Rollback(p) /\ UpdateLine(p)
  <2>1. /\ Goto(p, "touchCart") /\ UNCHANGED <<tables, req>>
        /\ Keep(p, [terms |-> work[p], quantity |-> req[p].quantity])
    BY <1>6 DEF UpdateLine
  <2>2. Frame(p) /\ pc'[p] = "touchCart" /\ UNCHANGED tables /\ req'[p] = req[p]
    BY <1>1, <2>1, StatementFrame DEF tables
  <2>3. work'[p].quantity = req[p].quantity
    BY <1>1, <2>1 DEF Keep, TypeOK
  <2>4. QED
    BY <2>2, <2>3 DEF ShopStep, tables, FollowsRequest
<1>7. CASE ~Rollback(p) /\ DeleteLine(p)
  <2>1. Goto(p, "touchCart") /\ UNCHANGED <<tables, req, work>> /\ pc[p] = "deleteLine"
    BY <1>7 DEF DeleteLine
  <2>2. Frame(p) /\ pc'[p] = "touchCart" /\ UNCHANGED tables /\ req'[p] = req[p]
    BY <1>1, <2>1, StatementFrame DEF tables
  <2>3. req[p].op = "delete"
    BY <1>1, <2>1 DEF TypeOK, ReqType
  <2>4. QED
    BY <2>2, <2>3 DEF ShopStep, tables, FollowsRequest
<1>8. CASE TouchCart(p)
  <2>1. Goto(p, "commitCart") /\ UNCHANGED <<tables, req, work>> /\ pc[p] = "touchCart"
    BY <1>8 DEF TouchCart
  <2>2. Frame(p) /\ pc'[p] = "commitCart" /\ UNCHANGED <<tables, req, work>>
    BY <1>1, <2>1, StatementFrame DEF tables
  <2>3. QED
    BY <1>1, <2>1, <2>2 DEF ShopStep, tables, FollowsRequest
<1>9. CASE CommitCart(p)
  BY <1>1, <1>9, CommitCartRefines, FinishFrame DEF CommitCart
<1>10. QED
  BY <1>2, <1>3, <1>4, <1>5, <1>6, <1>7, <1>8, <1>9 DEF CartItemStep

LEMMA CheckoutRefines ==
  ASSUME ShopInv, NEW p \in Procs, CheckoutStep(p)
  PROVE  ShopStep /\ Frame(p) /\ FollowsRequest(p)'
<1>1. TypeOK
  BY DEF ShopInv, IndInv
<1>2. CASE BeginCheckout(p)
  <2>1. PICK r \in Requests : Begin(p, r, "lockKey")
    BY <1>2 DEF BeginCheckout
  <2>2. QED
    BY <1>1, <2>1, BeginRefines DEF ShopStep, tables
<1>3. CASE Rollback(p)
  BY <1>1, <1>3, RollbackRefines DEF ShopStep, tables
<1>4. CASE Replay(p)
  BY <1>1, <1>4, FinishFrame DEF Replay, ShopStep, tables
<1>5. CASE ~Rollback(p) /\ (LockKey(p) \/ LockBasket(p) \/ FindOrder(p) \/ ReadItems(p)
                              \/ InsertOrder(p))
  <2>1. PICK label \in {"lockBasket", "findOrder", "readItems", "replay", "insertOrder",
                        "commitOrder"} :
          Goto(p, label) /\ UNCHANGED <<tables, req>>
            /\ (work' = work \/ \E value : Keep(p, value))
    BY <1>5 DEF LockKey, LockBasket, FindOrder, ReadItems, InsertOrder
  <2>2. Frame(p) /\ pc'[p] = label /\ UNCHANGED tables
    BY <1>1, <2>1, StatementFrame DEF tables
  <2>3. QED
    BY <2>2 DEF ShopStep, tables, FollowsRequest
<1>6. CASE CommitOrder(p)
  BY <1>1, <1>6, CommitOrderRefines, FinishFrame DEF CommitOrder
<1>7. QED
  BY <1>2, <1>3, <1>4, <1>5, <1>6 DEF CheckoutStep

LEMMA StatusRefines ==
  ASSUME ShopInv, NEW p \in Procs, StatusStep(p)
  PROVE  ShopStep /\ Frame(p) /\ FollowsRequest(p)'
<1>1. TypeOK
  BY DEF ShopInv, IndInv
<1>2. CASE BeginStatus(p)
  <2>1. PICK r \in Requests : Begin(p, r, "lockOrder")
    BY <1>2 DEF BeginStatus
  <2>2. QED
    BY <1>1, <2>1, BeginRefines DEF ShopStep, tables
<1>3. CASE Rollback(p)
  BY <1>1, <1>3, RollbackRefines DEF ShopStep, tables
<1>4. CASE ~Rollback(p) /\ (LockOrder(p) \/ UpdateOrder(p))
  <2>1. PICK label \in {"updateOrder", "commitStatus"} :
          Goto(p, label) /\ UNCHANGED <<tables, req>>
            /\ (work' = work \/ \E value : Keep(p, value))
    BY <1>4 DEF LockOrder, UpdateOrder
  <2>2. Frame(p) /\ pc'[p] = label /\ UNCHANGED tables
    BY <1>1, <2>1, StatementFrame DEF tables
  <2>3. QED
    BY <2>2 DEF ShopStep, tables, FollowsRequest
<1>5. CASE CommitStatus(p)
  BY <1>1, <1>5, CommitStatusRefines, FinishFrame DEF CommitStatus
<1>6. QED
  BY <1>2, <1>3, <1>4, <1>5 DEF StatusStep

LEMMA CatalogRefines ==
  ASSUME ShopInv, NEW p \in Procs, CatalogStep(p)
  PROVE  ShopStep /\ Frame(p) /\ FollowsRequest(p)'
<1>1. TypeOK /\ FollowsRequest(p)
  BY DEF ShopInv, IndInv
<1>2. CASE BeginCatalog(p)
  <2>1. PICK r \in Requests : Begin(p, r, "lockRestaurant")
    BY <1>2 DEF BeginCatalog
  <2>2. QED
    BY <1>1, <2>1, BeginRefines DEF ShopStep, tables
<1>3. CASE LockRestaurant(p)
  <2>1. Goto(p, "upsertItems") /\ UNCHANGED <<tables, req, work>>
    BY <1>3 DEF LockRestaurant
  <2>2. Frame(p) /\ pc'[p] = "upsertItems" /\ UNCHANGED tables
    BY <1>1, <2>1, StatementFrame DEF tables
  <2>3. QED
    BY <2>2 DEF ShopStep, tables, FollowsRequest
<1>4. CASE UpsertItems(p)
  <2>1. Goto(p, "deactivate") /\ UNCHANGED <<tables, req>> /\ Keep(p, req[p].listing)
    BY <1>4 DEF UpsertItems
  <2>2. Frame(p) /\ pc'[p] = "deactivate" /\ UNCHANGED <<tables, req>>
    BY <1>1, <2>1, StatementFrame DEF tables
  <2>3. work'[p] = req[p].listing
    BY <1>1, <2>1 DEF Keep, TypeOK
  <2>4. QED
    BY <2>2, <2>3 DEF ShopStep, tables, FollowsRequest
<1>5. CASE Deactivate(p)
  <2> DEFINE rows == [i \in Items |->
                       IF Deactivated(p, i) THEN [menu[i] EXCEPT !.available = FALSE]
                                            ELSE work[p][i]]
  <2>1. /\ pc[p] = "deactivate"
        /\ Goto(p, "commitCatalog") /\ UNCHANGED <<tables, req>> /\ Keep(p, rows)
    BY <1>5 DEF Deactivate
  <2>2. Frame(p) /\ pc'[p] = "commitCatalog" /\ UNCHANGED <<tables, req>>
    BY <1>1, <2>1, StatementFrame DEF tables
  <2>3. work'[p] = rows /\ work[p] = req[p].listing
    BY <1>1, <2>1 DEF Keep, TypeOK, FollowsRequest
  <2>4. QED
    BY <2>2, <2>3 DEF ShopStep, tables, FollowsRequest, Deactivated
<1>6. CASE CommitCatalog(p)
  BY <1>6, CommitCatalogRefines
<1>7. QED
  BY <1>2, <1>3, <1>4, <1>5, <1>6 DEF CatalogStep

LEMMA NextRefines ==
  ASSUME ShopInv, [Next]_vars
  PROVE  ShopStep /\ \A p \in Procs : FollowsRequest(p)'
<1>1. TypeOK /\ \A p \in Procs : FollowsRequest(p)
  BY DEF ShopInv, IndInv
<1>2. CASE UNCHANGED vars
  <2>1. UNCHANGED <<menu, carts, lines, orders, pc, req, work>>
    BY <1>2 DEF vars
  <2>2. QED
    BY <1>1, <2>1 DEF ShopStep, FollowsRequest
<1>3. ASSUME NEW c \in Carts, InsertCart(c) PROVE ShopStep /\ \A p \in Procs : FollowsRequest(p)'
  <2>1. Abstract!OpenCart(c)
    BY <1>3 DEF InsertCart, Abstract!OpenCart
  <2>2. ShopStep
    BY <2>1 DEF ShopStep, Abstract!Next
  <2>3. UNCHANGED <<menu, pc, req, work>>
    BY <1>3 DEF InsertCart
  <2>4. QED
    BY <1>1, <2>2, <2>3 DEF FollowsRequest
<1>4. ASSUME NEW p \in Procs,
             CartItemStep(p) \/ CheckoutStep(p) \/ CatalogStep(p) \/ StatusStep(p) \/ Abort(p)
      PROVE  ShopStep /\ \A q \in Procs : FollowsRequest(q)'
  <2>1. CASE Abort(p)
    BY <1>1, <2>1, RollbackRefines, FrameKeepsFollowing DEF Abort, ShopStep, tables
  <2>2. CASE ~Abort(p)
    BY <1>1, <1>4, <2>2, CartItemRefines, CheckoutRefines, CatalogRefines, StatusRefines,
       FrameKeepsFollowing
  <2>3. QED
    BY <2>1, <2>2
<1>5. QED
  BY <1>2, <1>3, <1>4 DEF Next

(***************************************************************************)
(* The theorems.                                                           *)
(***************************************************************************)

\* What a transaction is about to publish is what its request asks for, of the
\* rows as they still are (carts.go:200-216, catalog.go:35-61).
THEOREM ShopInvariant == Spec => []ShopInv
<1>1. Init => \A p \in Procs : FollowsRequest(p)
  BY DEF Init, InitDatabase, FollowsRequest
<1>2. ShopInv /\ IndInv' /\ [Next]_vars => ShopInv'
  BY NextRefines DEF ShopInv
<1>3. IndInv /\ (\A p \in Procs : FollowsRequest(p)) => ShopInv
  BY DEF ShopInv
<1>4. Init => ShopInv
  BY <1>1, <1>3, InitInv
<1>5. QED
  BY <1>2, <1>4, InductiveInvariant, PTL DEF Spec

\* Every operation takes effect at once, at its commit, for any number of
\* clients, carts, items and restaurants (carts.go, orders.go, catalog.go).
THEOREM OrderingIsAShop == Spec => ImplementsShop
<1>1. Init => Abstract!Init
  BY DatabaseAssumption
  DEF Init, InitDatabase, Abstract!Init, Menu, Abstract!Menu, MenuItem, Abstract!MenuItem,
      EmptyContents, Abstract!EmptyContents
<1>2. ShopInv /\ [Next]_vars => [Abstract!Next]_<<menu, carts, lines, orders>>
  BY NextRefines DEF ShopStep
<1>3. QED
  BY <1>1, <1>2, ShopInvariant, PTL DEF Spec, ImplementsShop, Abstract!Spec, Abstract!shop

Life == [id \in OrderIds |-> LifeOf(orders[id])]

LEMMA PlaceAppears ==
  ASSUME TypeOK, NEW id \in OrderIds, NEW key, NEW c, NEW customer,
         Abstract!Place(id, key, c, customer), orders' # orders
  PROVE  Contract!Appear(id)
<1> DEFINE new == NewOrder(key, c, customer, lines[c])
<1>1. orders[id] = None /\ orders' = [orders EXCEPT ![id] = new]
  BY SameNewOrder DEF Abstract!Place
<1>2. new.status = "pending_partner" /\ new.version = 1 /\ new # None
  BY <1>1 DEF NewOrder, TypeOK
<1>3. LifeOf(new) = [status |-> "pending_partner", version |-> 1]
  BY <1>2 DEF LifeOf
<1>4. Life[id] = None
  BY <1>1 DEF Life, LifeOf
<1>5. Life' = [Life EXCEPT ![id] = LifeOf(new)]
  BY <1>1 DEF Life, LifeOf, TypeOK
<1>6. QED
  BY <1>3, <1>4, <1>5 DEF Contract!Appear, Life

LEMMA AdvanceMoves ==
  ASSUME TypeOK, NEW r \in StatusRequests,
         Abstract!Advance(r.order, r.partner, r.version, r.status, r.ref)
  PROVE  Contract!Move(r.order, r.status)
<1> DEFINE id == r.order
           new == Updated(orders[id], r.status, r.ref)
<1>1. /\ id \in OrderIds
      /\ orders[id] # None
      /\ CanTransition(orders[id].status, r.status)
      /\ orders' = [orders EXCEPT ![id] = new]
  BY SameFunctions DEF Abstract!Advance, StatusRequests, Placed, TypeOK
<1>2. orders[id] \in Order /\ r.status \in Statuses /\ r.ref \in PartnerOrderIds
  BY <1>1 DEF TypeOK, StatusRequests
<1>3. new.status = r.status /\ new.version = orders[id].version + 1
  BY <1>2 DEF Updated, Order
<1>4. new # None
  BY <1>2, UpdatedType, NoneIsNoRow
<1>5. LifeOf(new) = [status |-> r.status, version |-> Life[id].version + 1]
  BY <1>1, <1>3, <1>4 DEF LifeOf, Life
<1>6. Life[id] # None /\ Life[id].status = orders[id].status
  BY <1>1, <1>2, NoneIsNoRow DEF Life, LifeOf, Order
<1>7. Life' = [Life EXCEPT ![id] = LifeOf(new)]
  BY <1>1 DEF Life, LifeOf, TypeOK
<1>8. CanTransition(Life[id].status, r.status)
  BY <1>1, <1>6
<1>9. QED
  BY <1>5, <1>6, <1>7, <1>8
  DEF Contract!Move, Life, Contract!CanTransition, Contract!Moves, CanTransition, Moves

\* Partners see every order appear and move one counted legal step at a time
\* (orders.go:121, 334-345), which is all a client of theirs has to expect.
THEOREM OrderingKeepsTheContract == Spec => ImplementsOrderLife
<1>1. Init => Contract!LifeInit
  BY DEF Init, InitDatabase, Contract!LifeInit, LifeOf
<1>2. ShopInv /\ [Next]_vars => [Contract!LifeNext]_Life
  <2>1. SUFFICES ASSUME ShopInv, [Next]_vars, Life' # Life PROVE Contract!LifeNext
    OBVIOUS
  <2>2. TypeOK /\ orders' # orders
    BY <2>1 DEF Life, ShopInv, IndInv
  <2>3. PICK r \in Requests : Abstract!Serve(r)
    BY <2>1, <2>2, NextRefines DEF ShopStep, Abstract!Next, Abstract!OpenCart
  <2>4. CASE r.op = "checkout"
    BY <2>2, <2>3, <2>4, PlaceAppears DEF Abstract!Serve, Contract!LifeNext
  <2>5. CASE r.op = "status"
    <3>1. r \in StatusRequests
      BY <2>5, RequestAssumption
      DEF CartRequests, DeleteRequests, CheckoutRequests, CatalogRequests
    <3>2. Contract!Move(r.order, r.status)
      BY <2>2, <2>3, <2>5, <3>1, AdvanceMoves DEF Abstract!Serve
    <3>3. QED
      BY <3>1, <3>2
      DEF Contract!LifeNext, StatusRequests, Contract!Statuses, Statuses
  <2>6. QED
    BY <2>2, <2>3, <2>4, <2>5
    DEF Abstract!Serve, Abstract!Add, Abstract!Change, Abstract!Remove, Abstract!Replace
<1>3. QED
  BY <1>1, <1>2, ShopInvariant, PTL
  DEF Spec, ImplementsOrderLife, Contract!LifeSpec, Life

LEMMA AdvanceIsLegal ==
  ASSUME TypeOK, NEW r \in StatusRequests, NEW id \in Placed,
         Abstract!Advance(r.order, r.partner, r.version, r.status, r.ref),
         orders'[id] # orders[id]
  PROVE  /\ CanTransition(orders[id].status, orders'[id].status)
         /\ orders'[id] = Updated(orders[id], orders'[id].status, orders'[id].ref)
<1> DEFINE new == Updated(orders[id], r.status, r.ref)
<1>1. /\ id = r.order
      /\ CanTransition(orders[id].status, r.status)
      /\ orders' = [orders EXCEPT ![id] = new]
      /\ orders[id] \in Order
  BY SameFunctions DEF Abstract!Advance, Placed, TypeOK
<1>2. new.status = r.status /\ new.ref = IF r.ref = None THEN orders[id].ref ELSE r.ref
  BY <1>1 DEF Updated, Order
<1>3. new = Updated(orders[id], new.status, new.ref)
  BY <1>1, <1>2 DEF Updated, Order
<1>4. orders'[id] = new
  BY <1>1 DEF Placed, TypeOK
<1>5. QED
  BY <1>1, <1>2, <1>3, <1>4

\* Whatever interleaves, an order only moves along its life cycle and keeps its
\* items, total and customer (orders.go:334-345, status.go:27-36).
THEOREM OrdersAreFinal == Spec => OrderHistory
<1> DEFINE Moved(id) ==
             \/ orders'[id] = orders[id]
             \/ /\ CanTransition(orders[id].status, orders'[id].status)
                /\ orders'[id] = Updated(orders[id], orders'[id].status, orders'[id].ref)
<1>1. ShopInv /\ [Next]_vars => [\A id \in Placed : Moved(id)]_orders
  <2>1. SUFFICES ASSUME ShopInv, [Next]_vars, orders' # orders, NEW id \in Placed
                 PROVE  Moved(id)
    OBVIOUS
  <2>2. TypeOK
    BY <2>1 DEF ShopInv, IndInv
  <2>3. PICK r \in Requests : Abstract!Serve(r)
    BY <2>1, NextRefines DEF ShopStep, Abstract!Next, Abstract!OpenCart
  <2>4. CASE r.op = "checkout"
    <3>1. PICK other \in OrderIds : Abstract!Place(other, r.key, r.cart, r.customer)
      BY <2>3, <2>4 DEF Abstract!Serve
    <3>2. id # other
      BY <3>1 DEF Abstract!Place, Placed
    <3>3. QED
      BY <2>2, <3>1, <3>2 DEF Abstract!Place, TypeOK, Placed
  <2>5. CASE r.op = "status"
    <3>1. r \in StatusRequests
      BY <2>5, RequestAssumption
      DEF CartRequests, DeleteRequests, CheckoutRequests, CatalogRequests
    <3>2. QED
      BY <2>2, <2>3, <2>5, <3>1, AdvanceIsLegal DEF Abstract!Serve
  <2>6. QED
    BY <2>1, <2>3, <2>4, <2>5
    DEF Abstract!Serve, Abstract!Add, Abstract!Change, Abstract!Remove, Abstract!Replace
<1>2. QED
  BY <1>1, ShopInvariant, PTL DEF Spec, OrderHistory

(***************************************************************************)
(* Offers.  What a request has read of a menu stays something it has seen. *)
(***************************************************************************)

\* The menu of the moment is seen, and what was seen is not forgotten before
\* the request ends.
LEMMA SeenGrows ==
  ASSUME HistoryNext, NEW p \in Procs, pc'[p] \in CartLabels \cup CheckoutLabels
  PROVE  menu \in seen'[p] /\ seen[p] \subseteq seen'[p]
  BY DEF HistoryNext

\* Nothing is offered to a transaction that has copied no terms yet.
LEMMA NothingCopied ==
  ASSUME TypeOK, NEW p \in Procs, NEW label, Goto(p, label),
         label \notin {"checkMixed", "upsertLine", "updateLine", "touchCart", "commitCart",
                       "insertOrder", "commitOrder"}
  PROVE  SeenOffers(p)'
  BY DEF TypeOK, Goto, SeenOffers

LEMMA RollbackOffers ==
  ASSUME TypeOK, NEW p \in Procs, Rollback(p) PROVE SeenOffers(p)'
  BY NothingCopied DEF Rollback, Finish

LEMMA CartItemOffers ==
  ASSUME ShopInv, HistoryNext, NEW p \in Procs, SeenOffers(p), CartItemStep(p)
  PROVE  SeenOffers(p)'
<1>1. TypeOK /\ ReqType(p) /\ WorkType(p)
  BY DEF ShopInv, IndInv, TypeOK
<1>2. pc'[p] \in CartLabels => menu \in seen'[p] /\ seen[p] \subseteq seen'[p]
  BY SeenGrows
<1>3. CASE Rollback(p)
  BY <1>1, <1>3, RollbackOffers
<1>4. CASE ~Rollback(p) /\ (BeginCartItem(p) \/ LockCart(p))
  <2>1. PICK label \in {"lockCart", "deleteLine", "readItem"} : Goto(p, label)
    BY <1>4 DEF BeginCartItem, Begin, LockCart
  <2>2. QED
    BY <1>1, <2>1, NothingCopied
<1>5. CASE ~Rollback(p) /\ ReadItem(p)
  <2>1. PICK label \in {"checkMixed", "updateLine"} :
          /\ Goto(p, label) /\ req' = req
          /\ Keep(p, menu[req[p].item].terms)
          /\ menu[req[p].item] # None /\ menu[req[p].item].available
    BY <1>5 DEF ReadItem
  <2>2. pc'[p] = label /\ work'[p] = menu[req[p].item].terms
    BY <1>1, <2>1 DEF TypeOK, Goto, Keep
  <2>3. menu \in seen'[p]
    BY <1>2, <2>2 DEF CartLabels
  <2>4. Offered(menu, req[p].item, work'[p])
    BY <2>1, <2>2 DEF Offered
  <2>5. QED
    BY <2>1, <2>2, <2>3, <2>4 DEF SeenOffers
<1>6. CASE ~Rollback(p) /\ CheckMixed(p)
  <2>1. pc[p] = "checkMixed" /\ Goto(p, "upsertLine") /\ UNCHANGED <<req, work>>
    BY <1>6 DEF CheckMixed
  <2>2. pc'[p] = "upsertLine"
    BY <1>1, <2>1 DEF TypeOK, Goto
  <2>3. seen[p] \subseteq seen'[p]
    BY <1>2, <2>2 DEF CartLabels
  <2>4. QED
    BY <2>1, <2>2, <2>3 DEF SeenOffers
<1>7. CASE ~Rollback(p) /\ (UpsertLine(p) \/ UpdateLine(p))
  <2>1. PICK quantity :
          /\ pc[p] \in {"upsertLine", "updateLine"}
          /\ Goto(p, "touchCart") /\ req' = req
          /\ Keep(p, [terms |-> work[p], quantity |-> quantity])
    BY <1>7 DEF UpsertLine, UpdateLine
  <2>2. pc'[p] = "touchCart" /\ work'[p].terms = work[p]
    BY <1>1, <2>1 DEF TypeOK, Goto, Keep
  <2>3. seen[p] \subseteq seen'[p]
    BY <1>2, <2>2 DEF CartLabels
  <2>4. QED
    BY <2>1, <2>2, <2>3 DEF SeenOffers
<1>8. CASE ~Rollback(p) /\ DeleteLine(p)
  <2>1. pc[p] = "deleteLine" /\ Goto(p, "touchCart") /\ UNCHANGED work
    BY <1>8 DEF DeleteLine
  <2>2. pc'[p] = "touchCart" /\ work'[p] = None
    BY <1>1, <2>1 DEF TypeOK, Goto, WorkType
  <2>3. QED
    BY <2>2 DEF SeenOffers
<1>9. CASE TouchCart(p)
  <2>1. pc[p] = "touchCart" /\ Goto(p, "commitCart") /\ UNCHANGED <<req, work>>
    BY <1>9 DEF TouchCart
  <2>2. pc'[p] = "commitCart"
    BY <1>1, <2>1 DEF TypeOK, Goto
  <2>3. seen[p] \subseteq seen'[p]
    BY <1>2, <2>2 DEF CartLabels
  <2>4. QED
    BY <2>1, <2>2, <2>3 DEF SeenOffers
<1>10. CASE CommitCart(p)
  BY <1>1, <1>10, NothingCopied DEF CommitCart, Finish
<1>11. QED
  BY <1>3, <1>4, <1>5, <1>6, <1>7, <1>8, <1>9, <1>10 DEF CartItemStep

LEMMA CheckoutOffers ==
  ASSUME ShopInv, HistoryNext, NEW p \in Procs, SeenOffers(p), CheckoutStep(p)
  PROVE  SeenOffers(p)'
<1>1. TypeOK
  BY DEF ShopInv, IndInv
<1>2. pc'[p] \in CheckoutLabels => menu \in seen'[p] /\ seen[p] \subseteq seen'[p]
  BY SeenGrows
<1>3. CASE Rollback(p)
  BY <1>1, <1>3, RollbackOffers
<1>4. CASE ~Rollback(p) /\ (BeginCheckout(p) \/ LockKey(p) \/ LockBasket(p) \/ FindOrder(p)
                              \/ Replay(p) \/ CommitOrder(p))
  <2>1. PICK label \in {"lockKey", "lockBasket", "findOrder", "readItems", "replay", "idle"} :
          Goto(p, label)
    BY <1>4 DEF BeginCheckout, Begin, LockKey, LockBasket, FindOrder, Replay, CommitOrder,
                Finish
  <2>2. QED
    BY <1>1, <2>1, NothingCopied
<1>5. CASE ~Rollback(p) /\ ReadItems(p)
  <2> DEFINE contents == lines[req[p].cart]
  <2>1. Goto(p, "insertOrder") /\ Keep(p, contents) /\ Orderable(contents)
    BY <1>5 DEF ReadItems
  <2>2. pc'[p] = "insertOrder" /\ work'[p] = contents
    BY <1>1, <2>1 DEF TypeOK, Goto, Keep
  <2>3. AllOffered(work'[p], menu)
    BY <2>1, <2>2 DEF Orderable, StillOffered, AllOffered, Offered
  <2>4. QED
    BY <1>2, <2>2, <2>3 DEF SeenOffers, CheckoutLabels
<1>6. CASE ~Rollback(p) /\ InsertOrder(p)
  <2>1. PICK id \in OrderIds :
          /\ pc[p] = "insertOrder"
          /\ Goto(p, "commitOrder")
          /\ Keep(p, [id |-> id, order |-> NewOrder(req[p].key, req[p].cart,
                                                    req[p].customer, work[p])])
    BY <1>6 DEF InsertOrder
  <2>2. pc'[p] = "commitOrder" /\ work'[p].order.items = work[p]
    BY <1>1, <2>1 DEF TypeOK, Goto, Keep, NewOrder
  <2>3. QED
    BY <1>2, <2>1, <2>2 DEF SeenOffers, CheckoutLabels
<1>7. QED
  BY <1>3, <1>4, <1>5, <1>6 DEF CheckoutStep

LEMMA OtherOffers ==
  ASSUME TypeOK, NEW p \in Procs, CatalogStep(p) \/ StatusStep(p) PROVE SeenOffers(p)'
<1>1. CASE Rollback(p)
  BY <1>1, RollbackOffers
<1>2. CASE ~Rollback(p)
  <2>1. PICK label \in {"lockRestaurant", "upsertItems", "deactivate", "commitCatalog",
                        "lockOrder", "updateOrder", "commitStatus", "idle"} : Goto(p, label)
    BY <1>2 DEF CatalogStep, BeginCatalog, LockRestaurant, UpsertItems, Deactivate,
                CommitCatalog, StatusStep, BeginStatus, LockOrder, UpdateOrder, CommitStatus,
                Begin, Finish
  <2>2. QED
    BY <2>1, NothingCopied
<1>3. QED
  BY <1>1, <1>2

LEMMA NextOffers ==
  ASSUME OffersInv, [HistoryNext]_historyVars PROVE \A p \in Procs : SeenOffers(p)'
<1>1. ShopInv /\ TypeOK /\ \A p \in Procs : SeenOffers(p)
  BY DEF OffersInv, ShopInv, IndInv
<1>2. CASE UNCHANGED historyVars
  BY <1>1, <1>2 DEF historyVars, vars, SeenOffers
<1>3. ASSUME HistoryNext, NEW q \in Procs, pc'[q] = pc[q], req'[q] = req[q], work'[q] = work[q]
      PROVE  SeenOffers(q)'
  <2>1. CASE pc[q] \in CartLabels \cup CheckoutLabels
    <3>1. seen[q] \subseteq seen'[q]
      BY <1>3, <2>1, SeenGrows
    <3>2. QED
      BY <1>1, <1>3, <3>1 DEF SeenOffers
  <2>2. CASE pc[q] \notin CartLabels \cup CheckoutLabels
    BY <1>3, <2>2 DEF SeenOffers, CartLabels, CheckoutLabels
  <2>3. QED
    BY <2>1, <2>2
<1>4. ASSUME HistoryNext, NEW c \in Carts, InsertCart(c) PROVE \A p \in Procs : SeenOffers(p)'
  BY <1>3, <1>4 DEF InsertCart
<1>5. ASSUME HistoryNext, NEW p \in Procs,
             CartItemStep(p) \/ CheckoutStep(p) \/ CatalogStep(p) \/ StatusStep(p) \/ Abort(p)
      PROVE  \A q \in Procs : SeenOffers(q)'
  <2>1. Frame(p)
    BY <1>1, <1>5, CartItemRefines, CheckoutRefines, CatalogRefines, StatusRefines,
       RollbackRefines DEF Abort
  <2>2. SeenOffers(p)'
    BY <1>1, <1>5, CartItemOffers, CheckoutOffers, OtherOffers, RollbackOffers DEF Abort
  <2>3. QED
    BY <1>3, <1>5, <2>1, <2>2 DEF Frame
<1>6. QED
  BY <1>2, <1>4, <1>5 DEF HistoryNext, Next

\* The terms a request has copied are those of a menu committed while it ran
\* (carts.go:133-152, 204-216, orders.go:115-135).
THEOREM OffersInvariant == HistorySpec => []OffersInv
<1>1. HistorySpec => Spec
  <2>1. HistoryInit => Init
    BY DEF HistoryInit
  <2>2. [HistoryNext]_historyVars => [Next]_vars
    BY DEF HistoryNext, historyVars
  <2>3. QED
    BY <2>1, <2>2, PTL DEF HistorySpec, Spec
<1>2. HistoryInit => \A p \in Procs : SeenOffers(p)
  BY DEF HistoryInit, Init, InitDatabase, SeenOffers
<1>3. OffersInv /\ ShopInv' /\ [HistoryNext]_historyVars => OffersInv'
  BY NextOffers DEF OffersInv
<1>4. ShopInv /\ (\A p \in Procs : SeenOffers(p)) => OffersInv
  BY DEF OffersInv
<1>5. QED
  BY <1>1, <1>2, <1>3, <1>4, ShopInvariant, PTL DEF HistorySpec

\* Who writes what clients see.
LEMMA OrderWriters ==
  ASSUME [HistoryNext]_historyVars, orders' # orders
  PROVE  \E p \in Procs : CommitOrder(p) \/ CommitStatus(p)
<1>1. Next
  BY DEF HistoryNext, historyVars, vars
<1>2. ASSUME NEW p \in Procs, Rollback(p) PROVE FALSE
  BY <1>2 DEF Rollback, tables
<1>3. ASSUME NEW p \in Procs, CartItemStep(p) \/ CatalogStep(p) PROVE FALSE
  BY <1>2, <1>3
  DEF CartItemStep, BeginCartItem, LockCart, ReadItem, CheckMixed, UpsertLine, UpdateLine,
      DeleteLine, TouchCart, CommitCart, CatalogStep, BeginCatalog, LockRestaurant,
      UpsertItems, Deactivate, CommitCatalog, Begin, tables
<1>4. ASSUME NEW p \in Procs, CheckoutStep(p) PROVE CommitOrder(p)
  BY <1>2, <1>4
  DEF CheckoutStep, BeginCheckout, LockKey, LockBasket, FindOrder, Replay, ReadItems,
      InsertOrder, Begin, tables
<1>5. ASSUME NEW p \in Procs, StatusStep(p) PROVE CommitStatus(p)
  BY <1>2, <1>5 DEF StatusStep, BeginStatus, LockOrder, UpdateOrder, Begin, tables
<1>6. QED
  BY <1>1, <1>2, <1>3, <1>4, <1>5 DEF Next, InsertCart, Abort

LEMMA LineWriters ==
  ASSUME [HistoryNext]_historyVars, lines' # lines
  PROVE  \E p \in Procs : CommitCart(p)
<1>1. Next
  BY DEF HistoryNext, historyVars, vars
<1>2. ASSUME NEW p \in Procs, Rollback(p) PROVE FALSE
  BY <1>2 DEF Rollback, tables
<1>3. ASSUME NEW p \in Procs, CheckoutStep(p) \/ CatalogStep(p) \/ StatusStep(p) PROVE FALSE
  BY <1>2, <1>3
  DEF CheckoutStep, BeginCheckout, LockKey, LockBasket, FindOrder, Replay, ReadItems,
      InsertOrder, CommitOrder, CatalogStep, BeginCatalog, LockRestaurant, UpsertItems,
      Deactivate, CommitCatalog, StatusStep, BeginStatus, LockOrder, UpdateOrder,
      CommitStatus, Begin, tables
<1>4. ASSUME NEW p \in Procs, CartItemStep(p) PROVE CommitCart(p)
  BY <1>2, <1>4
  DEF CartItemStep, BeginCartItem, LockCart, ReadItem, CheckMixed, UpsertLine, UpdateLine,
      DeleteLine, TouchCart, Begin, tables
<1>5. QED
  BY <1>1, <1>2, <1>3, <1>4 DEF Next, InsertCart, Abort

\* An order that appears is one the restaurant would have taken as a whole at
\* some moment of the checkout, however many syncs overtook it (orders.go:115,
\* 123-135).
THEOREM OrdersAreOffered == HistorySpec => OrdersWereOffered
<1> DEFINE Seen(id) ==
             orders[id] = None /\ orders'[id] # None =>
               \E p \in Procs :
                 /\ pc[p] = "commitOrder"
                 /\ orders'[id].key = req[p].key
                 /\ \E m \in seen[p] : AllOffered(orders'[id].items, m)
<1>1. OffersInv /\ [HistoryNext]_historyVars => [\A id \in OrderIds : Seen(id)]_historyVars
  <2>1. SUFFICES ASSUME OffersInv, [HistoryNext]_historyVars, NEW id \in OrderIds,
                        orders[id] = None, orders'[id] # None
                 PROVE  \E p \in Procs :
                          /\ pc[p] = "commitOrder"
                          /\ orders'[id].key = req[p].key
                          /\ \E m \in seen[p] : AllOffered(orders'[id].items, m)
    OBVIOUS
  <2>2. TypeOK /\ \A p \in Procs : CheckoutUnchanged(p) /\ SeenOffers(p) /\ ReqType(p)
    BY <2>1 DEF OffersInv, ShopInv, IndInv, Undisturbed, TypeOK
  <2>3. PICK p \in Procs : CommitOrder(p) \/ CommitStatus(p)
    BY <2>1, OrderWriters
  <2>4. CASE CommitOrder(p)
    <3>1. pc[p] = "commitOrder" /\ orders' = [orders EXCEPT ![work[p].id] = work[p].order]
      BY <2>4 DEF CommitOrder
    <3>2. orders'[id] = work[p].order
      BY <2>1, <2>2, <3>1 DEF TypeOK
    <3>3. work[p].order.key = req[p].key
      <4>1. work[p].order = NewOrder(req[p].key, req[p].cart, req[p].customer,
                                     lines[req[p].cart])
        BY <2>2, <3>1 DEF CheckoutUnchanged
      <4>2. QED
        BY <4>1 DEF NewOrder
    <3>4. QED
      BY <2>2, <3>1, <3>2, <3>3 DEF SeenOffers
  <2>5. CASE CommitStatus(p)
    BY <2>1, <2>2, <2>5 DEF CommitStatus, ReqType, Placed, TypeOK
  <2>6. QED
    BY <2>3, <2>4, <2>5
<1>2. QED
  BY <1>1, OffersInvariant, PTL DEF HistorySpec, OrdersWereOffered

\* A line that is added or updated shows the terms of the item at some moment
\* of that very request (carts.go:133-152, 204-216).
THEOREM LinesAreOffered == HistorySpec => LinesWereOffered
<1> DEFINE Shown(c, i) ==
             lines'[c][i] # lines[c][i] /\ lines'[c][i] # None =>
               \E p \in Procs :
                 /\ pc[p] = "commitCart"
                 /\ req[p].cart = c
                 /\ \E m \in seen[p] : Offered(m, i, lines'[c][i].terms)
<1>1. OffersInv /\ [HistoryNext]_historyVars
        => [\A c \in Carts, i \in Items : Shown(c, i)]_historyVars
  <2>1. SUFFICES ASSUME OffersInv, [HistoryNext]_historyVars, NEW c \in Carts, NEW i \in Items,
                        lines'[c][i] # lines[c][i], lines'[c][i] # None
                 PROVE  \E p \in Procs :
                          /\ pc[p] = "commitCart"
                          /\ req[p].cart = c
                          /\ \E m \in seen[p] : Offered(m, i, lines'[c][i].terms)
    OBVIOUS
  <2>2. TypeOK /\ \A p \in Procs : SeenOffers(p)
    BY <2>1 DEF OffersInv, ShopInv, IndInv
  <2>3. PICK p \in Procs : CommitCart(p)
    BY <2>1, LineWriters
  <2>4. /\ pc[p] = "commitCart"
        /\ lines' = [lines EXCEPT ![req[p].cart][req[p].item] = work[p]]
    BY <2>3 DEF CommitCart
  <2>5. c = req[p].cart /\ i = req[p].item /\ lines'[c][i] = work[p]
    BY <2>1, <2>2, <2>4 DEF TypeOK, Contents
  <2>6. QED
    BY <2>1, <2>2, <2>4, <2>5 DEF SeenOffers
<1>2. QED
  BY <1>1, OffersInvariant, PTL DEF HistorySpec, LinesWereOffered

================================================================================
