---------------------------- MODULE OrderingProofs -----------------------------
(***************************************************************************)
(* Theorems about Ordering, for every set of processes, requests, carts,   *)
(* items, keys and order ids: its types, then the inductive invariant and  *)
(* the safety theorems it gives.  The argument is the one locking          *)
(* protocols rest on: a lock has one holder, every transaction holds the   *)
(* locks of the rows it has based a decision on, and so nobody else can    *)
(* change those rows under it.                                             *)
(***************************************************************************)
EXTENDS Ordering, TLAPS

(***************************************************************************)
(* Rows.                                                                   *)
(***************************************************************************)

\* A status update leaves an order.
LEMMA UpdatedType ==
  ASSUME NEW order \in Order, NEW status \in Statuses, NEW ref \in PartnerOrderIds
  PROVE  Updated(order, status, ref) \in Order
<1>1. /\ order.version + 1 \in Nat \ {0}
      /\ (IF ref = None THEN order.ref ELSE ref) \in PartnerOrderIds
  BY DEF Order
<1>2. Updated(order, status, ref) =
        [order EXCEPT !.status  = status,
                      !.ref     = IF ref = None THEN order.ref ELSE ref,
                      !.version = order.version + 1]
  BY DEF Updated, Order
<1> QED
  BY <1>1, <1>2 DEF Order

(***************************************************************************)
(* Types.                                                                  *)
(***************************************************************************)

\* What TypeOK says of the processes.
ProcessTypes ==
  /\ pc \in [Procs -> Labels]
  /\ req \in [Procs -> Requests \cup {None}]
  /\ held \in [Procs -> SUBSET Locks]
  /\ work \in [Procs -> Work]
  /\ \A p \in Procs : ReqType(p) /\ WorkType(p)

\* The end of a transaction keeps the processes' types, if no order is lost.
LEMMA FinishTypes ==
  ASSUME TypeOK, NEW p \in Procs, Finish(p), Placed \subseteq Placed'
  PROVE  ProcessTypes'
<1>1. /\ pc' \in [Procs -> Labels]
      /\ req' \in [Procs -> Requests \cup {None}]
      /\ held' \in [Procs -> SUBSET Locks]
      /\ work' \in [Procs -> Work]
  BY DEF TypeOK, Finish, Goto, Keep, Labels, Work
<1>2. ASSUME NEW q \in Procs
      PROVE  (ReqType(q) /\ WorkType(q))'
  <2>1. CASE q = p
    BY <2>1 DEF TypeOK, Finish, Goto, Keep, ReqType, WorkType, CartLabels,
         CheckoutLabels, CatalogLabels, StatusLabels
  <2>2. CASE q # p
    BY <2>2 DEF TypeOK, Finish, Goto, Keep, ReqType, WorkType
  <2> QED
    BY <2>1, <2>2
<1> QED
  BY <1>1, <1>2 DEF ProcessTypes

\* A statement that moves p on and leaves the tables alone keeps all types, if
\* what p now holds has the types of the label it has reached.
LEMMA StatementTypes ==
  ASSUME TypeOK, NEW p \in Procs, NEW label \in Labels, Goto(p, label),
         UNCHANGED tables, UNCHANGED answers,
         req' \in [Procs -> Requests \cup {None}],
         held' \in [Procs -> SUBSET Locks],
         work' \in [Procs -> Work],
         \A q \in Procs \ {p} : req'[q] = req[q] /\ work'[q] = work[q],
         (ReqType(p) /\ WorkType(p))'
  PROVE  TypeOK'
<1>1. pc' \in [Procs -> Labels]
  BY DEF TypeOK, Goto
<1>2. ASSUME NEW q \in Procs
      PROVE  (ReqType(q) /\ WorkType(q))'
  <2>1. CASE q # p
    BY <2>1 DEF TypeOK, Goto, ReqType, WorkType, tables, Placed
  <2> QED
    BY <2>1
<1> QED
  BY <1>1, <1>2 DEF TypeOK, tables

\* A transaction that ends without publishing anything keeps all types.
LEMMA RollbackTypes ==
  ASSUME TypeOK, NEW p \in Procs, Rollback(p)
  PROVE  TypeOK'
<1>1. ProcessTypes'
  BY FinishTypes DEF Rollback, tables, Placed
<1> QED
  BY <1>1 DEF TypeOK, ProcessTypes, Rollback, tables

\* The first step of a request keeps all types.
LEMMA BeginTypes ==
  ASSUME TypeOK, NEW p \in Procs, NEW r \in Requests, NEW label \in Labels,
         Begin(p, r, label), (ReqType(p) /\ WorkType(p))'
  PROVE  TypeOK'
<1>1. /\ Goto(p, label) /\ UNCHANGED tables /\ UNCHANGED answers
      /\ req' \in [Procs -> Requests \cup {None}]
      /\ held' \in [Procs -> SUBSET Locks]
      /\ work' \in [Procs -> Work]
      /\ \A q \in Procs \ {p} : req'[q] = req[q] /\ work'[q] = work[q]
  BY DEF Begin, TypeOK, tables
<1> QED
  BY <1>1, StatementTypes

\* Every statement of AddItem, UpdateItem and DeleteItem keeps all types.
LEMMA CartItemTypes ==
  ASSUME TypeOK, NEW p \in Procs, CartItemStep(p)
  PROVE  TypeOK'
<1> USE DEF Labels, CartLabels, CheckoutLabels, CatalogLabels, StatusLabels
<1>1. CASE BeginCartItem(p)
  <2>1. PICK r \in Requests :
          \/ r.op \in {"add", "update"} /\ ValidQuantity(r.quantity) /\ Begin(p, r, "lockCart")
          \/ r.op = "delete" /\ Begin(p, r, "deleteLine")
    BY <1>1 DEF BeginCartItem
  <2>2. \/ r \in CartRequests /\ r.quantity \in 1..MaxQuantity /\ Begin(p, r, "lockCart")
        \/ r \in DeleteRequests /\ Begin(p, r, "deleteLine")
    BY <2>1, RequestAssumption, DomainAssumption
    DEF ValidQuantity, CartRequests, DeleteRequests, CheckoutRequests, CatalogRequests,
        StatusRequests
  <2>3. CASE Begin(p, r, "lockCart")
    <3>1. (ReqType(p) /\ WorkType(p))'
      BY <2>3, <2>1, <2>2 DEF Begin, Goto, TypeOK, ReqType, WorkType, DeleteRequests
    <3> QED
      BY <2>3, <3>1, BeginTypes
  <2>4. CASE Begin(p, r, "deleteLine")
    <3>1. (ReqType(p) /\ WorkType(p))'
      BY <2>4, <2>1, <2>2 DEF Begin, Goto, TypeOK, ReqType, WorkType, CartRequests
    <3> QED
      BY <2>4, <3>1, BeginTypes
  <2> QED
    BY <2>1, <2>3, <2>4
<1>2. CASE LockCart(p)
  <2>1. CASE Rollback(p)
    BY <2>1, RollbackTypes
  <2>2. CASE ~Rollback(p)
    <3>1. (ReqType(p) /\ WorkType(p))'
      BY <1>2, <2>2
        DEF LockCart, Acquire, TypeOK, ReqType, WorkType, Goto, tables, Placed,
            CartRequests, DeleteRequests
    <3>2. /\ Goto(p, "readItem") /\ UNCHANGED tables /\ UNCHANGED answers
          /\ \A q \in Procs \ {p} : req'[q] = req[q] /\ work'[q] = work[q]
      BY <1>2, <2>2 DEF LockCart, TypeOK
    <3>3. /\ req' \in [Procs -> Requests \cup {None}]
          /\ held' \in [Procs -> SUBSET Locks]
          /\ work' \in [Procs -> Work]
      BY <1>2, <2>2 DEF LockCart, Acquire, TypeOK, ReqType, CartRequests, Locks
    <3> QED
      BY <3>1, <3>2, <3>3, StatementTypes
  <2> QED
    BY <2>1, <2>2
<1>3. CASE ReadItem(p)
  <2>1. CASE Rollback(p)
    BY <2>1, RollbackTypes
  <2>2. CASE ~Rollback(p)
    <3>1. (ReqType(p) /\ WorkType(p))'
      BY <1>3, <2>2
        DEF ReadItem, Keep, TypeOK, ReqType, WorkType, Goto, tables, Placed,
            CartRequests, Menu, MenuItem
    <3>2. /\ Goto(p, IF req[p].op = "add" THEN "checkMixed" ELSE "updateLine")
          /\ UNCHANGED tables
          /\ UNCHANGED answers
          /\ \A q \in Procs \ {p} : req'[q] = req[q] /\ work'[q] = work[q]
      BY <1>3, <2>2 DEF ReadItem, Keep, TypeOK
    <3>3. /\ req' \in [Procs -> Requests \cup {None}]
          /\ held' \in [Procs -> SUBSET Locks]
          /\ work' \in [Procs -> Work]
      BY <1>3, <2>2 DEF ReadItem, Keep, TypeOK, ReqType, CartRequests, Menu, MenuItem, Work
    <3> QED
      BY <3>1, <3>2, <3>3, StatementTypes
  <2> QED
    BY <2>1, <2>2
<1>4. CASE CheckMixed(p)
  <2>1. CASE Rollback(p)
    BY <2>1, RollbackTypes
  <2>2. CASE ~Rollback(p)
    <3>1. (ReqType(p) /\ WorkType(p))'
      BY <1>4, <2>2 DEF CheckMixed, TypeOK, ReqType, WorkType, Goto, tables, Placed
    <3>2. /\ Goto(p, "upsertLine") /\ UNCHANGED tables /\ UNCHANGED answers
          /\ \A q \in Procs \ {p} : req'[q] = req[q] /\ work'[q] = work[q]
      BY <1>4, <2>2 DEF CheckMixed, TypeOK
    <3>3. /\ req' \in [Procs -> Requests \cup {None}]
          /\ held' \in [Procs -> SUBSET Locks]
          /\ work' \in [Procs -> Work]
      BY <1>4, <2>2 DEF CheckMixed, TypeOK
    <3> QED
      BY <3>1, <3>2, <3>3, StatementTypes
  <2> QED
    BY <2>1, <2>2
<1>5. CASE UpsertLine(p)
  <2>1. CASE Rollback(p)
    BY <2>1, RollbackTypes
  <2>2. CASE ~Rollback(p)
    <3>1. (ReqType(p) /\ WorkType(p))'
      BY <1>5, <2>2, DomainAssumption
        DEF UpsertLine, Acquire, Keep, TypeOK, ReqType, WorkType, Goto, tables, Placed,
            CartRequests, Contents, Line
    <3>2. /\ Goto(p, "touchCart") /\ UNCHANGED tables /\ UNCHANGED answers
          /\ \A q \in Procs \ {p} : req'[q] = req[q] /\ work'[q] = work[q]
      BY <1>5, <2>2 DEF UpsertLine, Keep, TypeOK
    <3>3. /\ req' \in [Procs -> Requests \cup {None}]
          /\ held' \in [Procs -> SUBSET Locks]
          /\ work' \in [Procs -> Work]
      <4>1. req[p] \in CartRequests
        BY <1>5 DEF UpsertLine, TypeOK, ReqType
      <4>2. LineLock(req[p].cart, req[p].item) \in Locks
        BY <4>1 DEF CartRequests, Locks
      <4>3. work' = [work EXCEPT ![p] = work'[p]] /\ work'[p] \in Line \cup {None}
        BY <1>5, <2>2, <3>1 DEF UpsertLine, Keep, Goto, TypeOK, WorkType
      <4> QED
        BY <1>5, <2>2, <4>2, <4>3 DEF UpsertLine, Acquire, TypeOK, Work
    <3> QED
      BY <3>1, <3>2, <3>3, StatementTypes
  <2> QED
    BY <2>1, <2>2
<1>6. CASE UpdateLine(p)
  <2>1. CASE Rollback(p)
    BY <2>1, RollbackTypes
  <2>2. CASE ~Rollback(p)
    <3>1. (ReqType(p) /\ WorkType(p))'
      BY <1>6, <2>2, DomainAssumption
        DEF UpdateLine, Acquire, Keep, TypeOK, ReqType, WorkType, Goto, tables, Placed,
            CartRequests, Line
    <3>2. /\ Goto(p, "touchCart") /\ UNCHANGED tables /\ UNCHANGED answers
          /\ \A q \in Procs \ {p} : req'[q] = req[q] /\ work'[q] = work[q]
      BY <1>6, <2>2 DEF UpdateLine, Keep, TypeOK
    <3>3. /\ req' \in [Procs -> Requests \cup {None}]
          /\ held' \in [Procs -> SUBSET Locks]
          /\ work' \in [Procs -> Work]
      BY <1>6, <2>2, DomainAssumption
        DEF UpdateLine, Acquire, Keep, TypeOK, ReqType, WorkType, CartRequests, Line,
            Locks, Work
    <3> QED
      BY <3>1, <3>2, <3>3, StatementTypes
  <2> QED
    BY <2>1, <2>2
<1>7. CASE DeleteLine(p)
  <2>1. CASE Rollback(p)
    BY <2>1, RollbackTypes
  <2>2. CASE ~Rollback(p)
    <3>1. (ReqType(p) /\ WorkType(p))'
      BY <1>7, <2>2 DEF DeleteLine, Acquire, TypeOK, ReqType, WorkType, Goto, tables, Placed
    <3>2. /\ Goto(p, "touchCart") /\ UNCHANGED tables /\ UNCHANGED answers
          /\ \A q \in Procs \ {p} : req'[q] = req[q] /\ work'[q] = work[q]
      BY <1>7, <2>2 DEF DeleteLine, TypeOK
    <3>3. /\ req' \in [Procs -> Requests \cup {None}]
          /\ held' \in [Procs -> SUBSET Locks]
          /\ work' \in [Procs -> Work]
      BY <1>7, <2>2
        DEF DeleteLine, Acquire, TypeOK, ReqType, CartRequests, DeleteRequests, Locks
    <3> QED
      BY <3>1, <3>2, <3>3, StatementTypes
  <2> QED
    BY <2>1, <2>2
<1>8. CASE TouchCart(p)
  <2>1. (ReqType(p) /\ WorkType(p))'
    BY <1>8 DEF TouchCart, Acquire, TypeOK, ReqType, WorkType, Goto, tables, Placed
  <2>2. /\ Goto(p, "commitCart") /\ UNCHANGED tables /\ UNCHANGED answers
        /\ \A q \in Procs \ {p} : req'[q] = req[q] /\ work'[q] = work[q]
    BY <1>8 DEF TouchCart, TypeOK
  <2>3. /\ req' \in [Procs -> Requests \cup {None}]
        /\ held' \in [Procs -> SUBSET Locks]
        /\ work' \in [Procs -> Work]
    BY <1>8 DEF TouchCart, Acquire, TypeOK, ReqType, CartRequests, DeleteRequests, Locks
  <2> QED
    BY <2>1, <2>2, <2>3, StatementTypes
<1>9. CASE CommitCart(p)
  <2>1. lines' \in [Carts -> Contents]
    BY <1>9 DEF CommitCart, TypeOK, ReqType, WorkType, Contents, CartRequests, DeleteRequests
  <2>2. ProcessTypes'
    BY <1>9, FinishTypes DEF CommitCart, Placed
  <2> QED
    BY <1>9, <2>1, <2>2 DEF CommitCart, TypeOK, ProcessTypes
<1> QED
  BY <1>1, <1>2, <1>3, <1>4, <1>5, <1>6, <1>7, <1>8, <1>9 DEF CartItemStep

\* Every statement of CreateFromCart keeps all types.
LEMMA CheckoutTypes ==
  ASSUME TypeOK, NEW p \in Procs, CheckoutStep(p)
  PROVE  TypeOK'
<1> USE DEF Labels, CartLabels, CheckoutLabels, CatalogLabels, StatusLabels
<1>1. CASE BeginCheckout(p)
  <2>1. PICK r \in Requests : r.op = "checkout" /\ Begin(p, r, "lockKey")
    BY <1>1 DEF BeginCheckout
  <2>2. r \in CheckoutRequests
    BY <2>1, RequestAssumption
    DEF CartRequests, DeleteRequests, CheckoutRequests, CatalogRequests, StatusRequests
  <2>3. (ReqType(p) /\ WorkType(p))'
    BY <2>1, <2>2 DEF Begin, Goto, TypeOK, ReqType, WorkType
  <2> QED
    BY <2>1, <2>3, BeginTypes
<1>2. CASE LockKey(p)
  <2>1. (ReqType(p) /\ WorkType(p))'
    BY <1>2 DEF LockKey, Acquire, TypeOK, ReqType, WorkType, Goto, tables, Placed
  <2>2. /\ Goto(p, "lockBasket") /\ UNCHANGED tables /\ UNCHANGED answers
        /\ \A q \in Procs \ {p} : req'[q] = req[q] /\ work'[q] = work[q]
    BY <1>2 DEF LockKey, TypeOK
  <2>3. /\ req' \in [Procs -> Requests \cup {None}]
        /\ held' \in [Procs -> SUBSET Locks]
        /\ work' \in [Procs -> Work]
    BY <1>2 DEF LockKey, Acquire, TypeOK, ReqType, CheckoutRequests, Locks
  <2> QED
    BY <2>1, <2>2, <2>3, StatementTypes
<1>3. CASE LockBasket(p)
  <2>1. CASE Rollback(p)
    BY <2>1, RollbackTypes
  <2>2. CASE ~Rollback(p)
    <3>1. (ReqType(p) /\ WorkType(p))'
      BY <1>3, <2>2 DEF LockBasket, Acquire, TypeOK, ReqType, WorkType, Goto, tables, Placed
    <3>2. /\ Goto(p, "findOrder") /\ UNCHANGED tables /\ UNCHANGED answers
          /\ \A q \in Procs \ {p} : req'[q] = req[q] /\ work'[q] = work[q]
      BY <1>3, <2>2 DEF LockBasket, TypeOK
    <3>3. /\ req' \in [Procs -> Requests \cup {None}]
          /\ held' \in [Procs -> SUBSET Locks]
          /\ work' \in [Procs -> Work]
      BY <1>3, <2>2 DEF LockBasket, Acquire, TypeOK, ReqType, CheckoutRequests, Locks
    <3> QED
      BY <3>1, <3>2, <3>3, StatementTypes
  <2> QED
    BY <2>1, <2>2
<1>4. CASE FindOrder(p)
  <2>1. CASE Rollback(p)
    BY <2>1, RollbackTypes
  <2>2. CASE PlacedUnder(req[p].key) = {} /\ ~Rollback(p)
    <3>1. /\ Goto(p, "readItems") /\ UNCHANGED <<tables, req, held, work, answers>>
      BY <1>4, <2>2 DEF FindOrder
    <3>2. (ReqType(p) /\ WorkType(p))'
      BY <1>4, <3>1 DEF FindOrder, TypeOK, ReqType, WorkType, Goto
    <3> QED
      BY <3>1, <3>2, StatementTypes DEF TypeOK
  <2>3. CASE PlacedUnder(req[p].key) # {} /\ ~Rollback(p)
    <3>1. PICK id \in PlacedUnder(req[p].key) :
            Keep(p, id) /\ Goto(p, "replay") /\ UNCHANGED <<tables, req, held, answers>>
      BY <1>4, <2>3 DEF FindOrder
    <3>2. id \in OrderIds
      BY DEF PlacedUnder, Placed
    <3>3. (ReqType(p) /\ WorkType(p))'
      BY <1>4, <3>1, <3>2 DEF FindOrder, Keep, TypeOK, ReqType, WorkType, Goto
    <3>4. /\ work' \in [Procs -> Work]
          /\ \A q \in Procs \ {p} : work'[q] = work[q]
      BY <3>1, <3>2 DEF Keep, TypeOK, Work
    <3> QED
      BY <3>1, <3>3, <3>4, StatementTypes DEF TypeOK
  <2> QED
    BY <2>1, <2>2, <2>3
<1>5. CASE Replay(p)
  <2>1. ProcessTypes'
    BY <1>5, FinishTypes DEF Replay, tables, Placed
  <2>2. answers' \in SUBSET Answer
    BY <1>5 DEF Replay, TypeOK, ReqType, WorkType, Answer
  <2> QED
    BY <1>5, <2>1, <2>2 DEF Replay, tables, TypeOK, ProcessTypes
<1>6. CASE ReadItems(p)
  <2>1. CASE Rollback(p)
    BY <2>1, RollbackTypes
  <2>2. CASE ~Rollback(p)
    <3> DEFINE contents == lines[req[p].cart]
    <3>1. /\ Keep(p, contents) /\ Goto(p, "insertOrder") /\ Chosen(contents) # {}
          /\ UNCHANGED <<tables, req, held, answers>>
      BY <1>6, <2>2 DEF ReadItems, Orderable
    <3>2. req[p] \in CheckoutRequests /\ contents \in Contents
      BY <1>6 DEF ReadItems, TypeOK, ReqType, CheckoutRequests
    <3> HIDE DEF contents
    <3>3. /\ work' \in [Procs -> Work]
          /\ work'[p] = contents
          /\ \A q \in Procs \ {p} : work'[q] = work[q]
      BY <3>1, <3>2 DEF Keep, TypeOK, Work
    <3>4. (ReqType(p) /\ WorkType(p))'
      BY <3>1, <3>2, <3>3 DEF TypeOK, Goto, ReqType, WorkType
    <3> QED
      BY <3>1, <3>3, <3>4, StatementTypes DEF TypeOK
  <2> QED
    BY <2>1, <2>2
<1>7. CASE InsertOrder(p)
  <2>1. CASE Rollback(p)
    BY <2>1, RollbackTypes
  <2>2. CASE ~Rollback(p)
    <3> DEFINE order == NewOrder(req[p].key, req[p].cart, req[p].customer, work[p])
    <3>1. PICK id \in OrderIds : Keep(p, [id |-> id, order |-> order])
      BY <1>7, <2>2 DEF InsertOrder
    <3>2. /\ Cost(work[p]) \in 1..MaxInt
          /\ Goto(p, "commitOrder")
          /\ UNCHANGED <<tables, req, held, answers>>
      BY <1>7, <2>2 DEF InsertOrder
    <3>3. /\ req[p] \in CheckoutRequests
          /\ work[p] \in Contents
          /\ \E i \in Items : work[p][i] # None
      BY <1>7 DEF InsertOrder, TypeOK, ReqType, WorkType, Chosen
    <3>4. order \in Order
      <4>1. RestaurantOf[CHOOSE i \in Items : work[p][i] # None] \in Restaurants
        BY <3>3, DomainAssumption
      <4> QED
        BY <3>2, <3>3, <4>1 DEF NewOrder, Order, PartnerOrderIds, CheckoutRequests, Statuses
    <3>5. [id |-> id, order |-> order] \in Draft
      BY <3>4 DEF Draft
    <3> HIDE DEF order
    <3>6. /\ work' \in [Procs -> Work]
          /\ work'[p] \in Draft
          /\ \A q \in Procs \ {p} : work'[q] = work[q]
      BY <3>1, <3>5 DEF Keep, TypeOK, Work
    <3>7. (ReqType(p) /\ WorkType(p))'
      BY <3>2, <3>3, <3>6 DEF TypeOK, Goto, ReqType, WorkType
    <3> QED
      BY <3>2, <3>6, <3>7, StatementTypes DEF TypeOK
  <2> QED
    BY <2>1, <2>2
<1>8. CASE CommitOrder(p)
  <2>1. work[p] \in Draft /\ req[p] \in CheckoutRequests
    BY <1>8 DEF CommitOrder, TypeOK, ReqType, WorkType
  <2>2. orders' \in [OrderIds -> Order \cup {None}] /\ Placed \subseteq Placed'
    BY <1>8, <2>1, NoneIsNoRow DEF CommitOrder, TypeOK, Draft, Placed
  <2>3. ProcessTypes'
    BY <1>8, <2>2, FinishTypes DEF CommitOrder
  <2>4. answers' \in SUBSET Answer
    BY <1>8, <2>1 DEF CommitOrder, TypeOK, Answer, Draft
  <2> QED
    BY <1>8, <2>2, <2>3, <2>4 DEF CommitOrder, TypeOK, ProcessTypes
<1> QED
  BY <1>1, <1>2, <1>3, <1>4, <1>5, <1>6, <1>7, <1>8 DEF CheckoutStep

\* Every statement of a catalog sync keeps all types.
LEMMA CatalogTypes ==
  ASSUME TypeOK, NEW p \in Procs, CatalogStep(p)
  PROVE  TypeOK'
<1> USE DEF Labels, CartLabels, CheckoutLabels, CatalogLabels, StatusLabels
<1>1. CASE BeginCatalog(p)
  <2>1. PICK r \in Requests : r.op = "catalog" /\ Begin(p, r, "lockRestaurant")
    BY <1>1 DEF BeginCatalog
  <2>2. r \in CatalogRequests
    BY <2>1, RequestAssumption
    DEF CartRequests, DeleteRequests, CheckoutRequests, CatalogRequests, StatusRequests
  <2>3. (ReqType(p) /\ WorkType(p))'
    BY <2>1, <2>2 DEF Begin, Goto, TypeOK, ReqType, WorkType
  <2> QED
    BY <2>1, <2>3, BeginTypes
<1>2. CASE LockRestaurant(p)
  <2>1. (ReqType(p) /\ WorkType(p))'
    BY <1>2 DEF LockRestaurant, Acquire, TypeOK, ReqType, WorkType, Goto, tables, Placed
  <2>2. /\ Goto(p, "upsertItems") /\ UNCHANGED tables /\ UNCHANGED answers
        /\ \A q \in Procs \ {p} : req'[q] = req[q] /\ work'[q] = work[q]
    BY <1>2 DEF LockRestaurant, TypeOK
  <2>3. /\ req' \in [Procs -> Requests \cup {None}]
        /\ held' \in [Procs -> SUBSET Locks]
        /\ work' \in [Procs -> Work]
    BY <1>2 DEF LockRestaurant, Acquire, TypeOK, ReqType, CatalogRequests, Locks
  <2> QED
    BY <2>1, <2>2, <2>3, StatementTypes
<1>3. CASE UpsertItems(p)
  <2>1. (ReqType(p) /\ WorkType(p))'
    BY <1>3
      DEF UpsertItems, Keep, TypeOK, ReqType, WorkType, Goto, tables, Placed,
          CatalogRequests
  <2>2. /\ Goto(p, "deactivate") /\ UNCHANGED tables /\ UNCHANGED answers
        /\ \A q \in Procs \ {p} : req'[q] = req[q] /\ work'[q] = work[q]
    BY <1>3 DEF UpsertItems, Keep, TypeOK
  <2>3. /\ req' \in [Procs -> Requests \cup {None}]
        /\ held' \in [Procs -> SUBSET Locks]
        /\ work' \in [Procs -> Work]
    BY <1>3 DEF UpsertItems, Keep, TypeOK, ReqType, CatalogRequests, Work
  <2> QED
    BY <2>1, <2>2, <2>3, StatementTypes
<1>4. CASE Deactivate(p)
  <2> DEFINE rows == [i \in Items |->
               IF Deactivated(p, i) THEN [menu[i] EXCEPT !.available = FALSE] ELSE work[p][i]]
  <2>1. /\ Keep(p, rows) /\ Goto(p, "commitCatalog")
        /\ UNCHANGED <<tables, req, held, answers>>
    BY <1>4 DEF Deactivate
  <2>2. work[p] \in Menu /\ menu \in Menu
    BY <1>4 DEF Deactivate, TypeOK, WorkType
  <2>3. rows \in Menu
    BY <2>2 DEF Deactivated, Menu, MenuItem
  <2> HIDE DEF rows
  <2>4. /\ work' \in [Procs -> Work]
        /\ work'[p] \in Menu
        /\ \A q \in Procs \ {p} : work'[q] = work[q]
    BY <2>1, <2>3 DEF Keep, TypeOK, Work
  <2>5. (ReqType(p) /\ WorkType(p))'
    BY <1>4, <2>1, <2>4 DEF Deactivate, TypeOK, Goto, ReqType, WorkType
  <2> QED
    BY <2>1, <2>4, <2>5, StatementTypes DEF TypeOK
<1>5. CASE CommitCatalog(p)
  <2>1. menu' \in Menu
    BY <1>5 DEF CommitCatalog, TypeOK, WorkType, Menu
  <2>2. ProcessTypes'
    BY <1>5, FinishTypes DEF CommitCatalog, Placed
  <2> QED
    BY <1>5, <2>1, <2>2 DEF CommitCatalog, TypeOK, ProcessTypes
<1> QED
  BY <1>1, <1>2, <1>3, <1>4, <1>5 DEF CatalogStep

\* Every statement of a status update keeps all types.
LEMMA StatusTypes ==
  ASSUME TypeOK, NEW p \in Procs, StatusStep(p)
  PROVE  TypeOK'
<1> USE DEF Labels, CartLabels, CheckoutLabels, CatalogLabels, StatusLabels
<1>1. CASE BeginStatus(p)
  <2>1. PICK r \in Requests : r.op = "status" /\ ValidStatusUpdate(r) /\ Begin(p, r, "lockOrder")
    BY <1>1 DEF BeginStatus
  <2>2. r \in StatusRequests
    BY <2>1, RequestAssumption
    DEF CartRequests, DeleteRequests, CheckoutRequests, CatalogRequests, StatusRequests
  <2>3. (ReqType(p) /\ WorkType(p))'
    BY <2>1, <2>2 DEF Begin, Goto, TypeOK, ReqType, WorkType
  <2> QED
    BY <2>1, <2>3, BeginTypes
<1>2. CASE LockOrder(p)
  <2>1. CASE Rollback(p)
    BY <2>1, RollbackTypes
  <2>2. CASE ~Rollback(p)
    <3>1. (ReqType(p) /\ WorkType(p))'
      BY <1>2, <2>2
        DEF LockOrder, Acquire, OwnOrder, TypeOK, ReqType, WorkType, Goto, tables,
            Placed, StatusRequests
    <3>2. /\ Goto(p, "updateOrder") /\ UNCHANGED tables /\ UNCHANGED answers
          /\ \A q \in Procs \ {p} : req'[q] = req[q] /\ work'[q] = work[q]
      BY <1>2, <2>2 DEF LockOrder, TypeOK
    <3>3. /\ req' \in [Procs -> Requests \cup {None}]
          /\ held' \in [Procs -> SUBSET Locks]
          /\ work' \in [Procs -> Work]
      BY <1>2, <2>2 DEF LockOrder, Acquire, TypeOK, ReqType, StatusRequests, Locks
    <3> QED
      BY <3>1, <3>2, <3>3, StatementTypes
  <2> QED
    BY <2>1, <2>2
<1>3. CASE UpdateOrder(p)
  <2> DEFINE row == Updated(orders[req[p].order], req[p].status, req[p].ref)
  <2>1. /\ Keep(p, row) /\ Goto(p, "commitStatus") /\ Acquire(p, OrderLock(req[p].order))
        /\ UNCHANGED <<tables, req, answers>>
    BY <1>3 DEF UpdateOrder
  <2>2. req[p] \in StatusRequests /\ req[p].order \in Placed
    BY <1>3 DEF UpdateOrder, TypeOK, ReqType
  <2>3. row \in Order
    BY <2>2, UpdatedType DEF StatusRequests, Placed, TypeOK
  <2> HIDE DEF row
  <2>4. /\ work' \in [Procs -> Work]
        /\ work'[p] \in Order
        /\ \A q \in Procs \ {p} : work'[q] = work[q]
    BY <2>1, <2>3 DEF Keep, TypeOK, Work
  <2>5. held' \in [Procs -> SUBSET Locks]
    BY <2>1, <2>2 DEF Acquire, TypeOK, StatusRequests, Locks
  <2>6. (ReqType(p) /\ WorkType(p))'
    BY <2>1, <2>2, <2>4 DEF TypeOK, Goto, ReqType, WorkType, tables, Placed
  <2> QED
    BY <2>1, <2>4, <2>5, <2>6, StatementTypes DEF TypeOK
<1>4. CASE CommitStatus(p)
  <2>1. req[p] \in StatusRequests /\ work[p] \in Order
    BY <1>4 DEF CommitStatus, TypeOK, ReqType, WorkType
  <2>2. orders' \in [OrderIds -> Order \cup {None}] /\ Placed \subseteq Placed'
    BY <1>4, <2>1, NoneIsNoRow DEF CommitStatus, TypeOK, Placed
  <2>3. ProcessTypes'
    BY <1>4, <2>2, FinishTypes DEF CommitStatus
  <2> QED
    BY <1>4, <2>2, <2>3 DEF CommitStatus, TypeOK, ProcessTypes
<1> QED
  BY <1>1, <1>2, <1>3, <1>4 DEF StatusStep

\* Type correctness of every reachable state.
THEOREM TypeCorrect == Spec => []TypeOK
<1>1. Init => TypeOK
  BY DomainAssumption, DatabaseAssumption
  DEF Init, InitDatabase, TypeOK, ReqType, WorkType, Labels, CartLabels, CheckoutLabels,
      CatalogLabels, StatusLabels, Work, EmptyContents, Contents
<1>2. TypeOK /\ [Next]_vars => TypeOK'
  <2> SUFFICES ASSUME TypeOK, [Next]_vars PROVE TypeOK'
    OBVIOUS
  <2>1. CASE \E c \in Carts : InsertCart(c)
    BY <2>1 DEF InsertCart, TypeOK, ReqType, WorkType, Placed
  <2>2. CASE \E p \in Procs : CartItemStep(p)
    BY <2>2, CartItemTypes
  <2>3. CASE \E p \in Procs : CheckoutStep(p)
    BY <2>3, CheckoutTypes
  <2>4. CASE \E p \in Procs : CatalogStep(p)
    BY <2>4, CatalogTypes
  <2>5. CASE \E p \in Procs : StatusStep(p)
    BY <2>5, StatusTypes
  <2>6. CASE \E p \in Procs : Abort(p)
    BY <2>6, RollbackTypes DEF Abort
  <2>7. CASE UNCHANGED vars
    BY <2>7 DEF vars, TypeOK, ReqType, WorkType, Placed
  <2> QED
    BY <2>1, <2>2, <2>3, <2>4, <2>5, <2>6, <2>7 DEF Next
<1> QED
  BY <1>1, <1>2, PTL DEF Spec

(***************************************************************************)
(* Locks.                                                                  *)
(***************************************************************************)

\* Taking a free lock, or giving all of one's locks back, keeps them exclusive.
LEMMA LocksStayExclusive ==
  ASSUME TypeOK, MutualExclusion, NEW p \in Procs,
         \/ held' = held
         \/ \E lock : Acquire(p, lock)
         \/ held' = [held EXCEPT ![p] = {}]
  PROVE  MutualExclusion'
<1>1. CASE held' = held
  BY <1>1 DEF MutualExclusion
<1>2. CASE \E lock : Acquire(p, lock)
  <2>1. PICK lock : Acquire(p, lock)
    BY <1>2
  <2>2. SUFFICES ASSUME NEW q \in Procs, NEW r \in Procs, q # r
                 PROVE  held'[q] \cap held'[r] = {}
    BY DEF MutualExclusion
  <2>3. held[q] \cap held[r] = {}
    BY <2>2 DEF MutualExclusion
  <2>4. CASE q = p
    BY <2>1, <2>2, <2>3, <2>4 DEF Acquire, Free, TypeOK
  <2>5. CASE r = p
    BY <2>1, <2>2, <2>3, <2>5 DEF Acquire, Free, TypeOK
  <2> QED
    BY <2>1, <2>3, <2>4, <2>5 DEF Acquire, TypeOK
<1>3. CASE held' = [held EXCEPT ![p] = {}]
  BY <1>3 DEF MutualExclusion, TypeOK
<1> QED
  BY <1>1, <1>2, <1>3

(***************************************************************************)
(* Steps that publish nothing.                                             *)
(***************************************************************************)

\* What the invariant says of the tables alone.
TablesOK ==
  /\ CartNeverMixed
  /\ OneOrderPerKey
  /\ AnswersAgree
  /\ VersionCountsUpdates
  /\ TakenOrderHasRef

\* What the invariant says of the tables depends on nothing else.
LEMMA TablesStayOK ==
  ASSUME TablesOK, UNCHANGED <<tables, answers>>
  PROVE  TablesOK'
BY DEF TablesOK, CartNeverMixed, OneOrderPerKey, AnswersAgree, VersionCountsUpdates,
       TakenOrderHasRef, tables, Placed, SameRequest

\* Another process's step that publishes nothing and drafts no order leaves a
\* transaction undisturbed.
LEMMA OthersUndisturbed ==
  ASSUME TypeOK, NEW p \in Procs, NEW q \in Procs, q # p, Undisturbed(q),
         UNCHANGED tables,
         pc'[q] = pc[q], req'[q] = req[q], work'[q] = work[q], held'[q] = held[q],
         \A r \in Procs \ {p} : pc'[r] = pc[r] /\ work'[r] = work[r],
         pc'[p] # "commitOrder"
  PROVE  Undisturbed(q)'
<1>1. LocksHeld(q)'
  BY DEF Undisturbed, LocksHeld
<1>2. CartUnchanged(q)'
  BY DEF Undisturbed, CartUnchanged, tables, Mixed
<1>3. CheckoutUnchanged(q)'
  BY DEF Undisturbed, CheckoutUnchanged, tables, PlacedUnder, Placed, Inserted, SameRequest
<1>4. StatusUnchanged(q)'
  BY DEF Undisturbed, StatusUnchanged, tables, OwnOrder, Placed
<1> QED
  BY <1>1, <1>2, <1>3, <1>4 DEF Undisturbed

\* A statement keeps the invariant if its own transaction is undisturbed after it.
LEMMA StatementKeepsInv ==
  ASSUME IndInv, TypeOK', NEW p \in Procs, NEW label, Goto(p, label), label # "commitOrder",
         UNCHANGED tables, UNCHANGED answers, MutualExclusion', Undisturbed(p)',
         \A q \in Procs \ {p} :
           req'[q] = req[q] /\ work'[q] = work[q] /\ held'[q] = held[q]
  PROVE  IndInv'
<1>1. \A q \in Procs \ {p} : pc'[q] = pc[q]
  BY DEF IndInv, TypeOK, Goto
<1>2. pc'[p] # "commitOrder"
  BY DEF IndInv, TypeOK, Goto
<1>3. \A q \in Procs \ {p} : Undisturbed(q)'
  BY <1>1, <1>2, OthersUndisturbed DEF IndInv
<1>4. TablesOK'
  BY TablesStayOK DEF IndInv, TablesOK
<1> QED
  BY <1>3, <1>4 DEF IndInv, TablesOK

\* Neither does the arrival of a request whose first statement is yet to come.
LEMMA BeginKeepsInv ==
  ASSUME IndInv, TypeOK', NEW p \in Procs, NEW r \in Requests,
         NEW label \in {"lockCart", "deleteLine", "lockKey", "lockRestaurant", "lockOrder"},
         Begin(p, r, label), label = "lockOrder" => ValidStatusUpdate(r)
  PROVE  IndInv'
<1>1. /\ Goto(p, label) /\ UNCHANGED tables /\ UNCHANGED answers
      /\ \A q \in Procs \ {p} :
           req'[q] = req[q] /\ work'[q] = work[q] /\ held'[q] = held[q]
  BY DEF Begin, IndInv, TypeOK, tables
<1>2. pc'[p] = label /\ req'[p] = r
  BY <1>1 DEF Begin, Goto, IndInv, TypeOK
<1>3. Undisturbed(p)'
  BY <1>2 DEF Undisturbed, LocksHeld, CartUnchanged, CheckoutUnchanged, StatusUnchanged,
     StatusLabels
<1>4. MutualExclusion'
  BY LocksStayExclusive DEF Begin, IndInv
<1> QED
  BY <1>1, <1>3, <1>4, StatementKeepsInv

\* A transaction that is rolled back disturbs nobody.
LEMMA RollbackKeepsInv ==
  ASSUME IndInv, NEW p \in Procs, Rollback(p)
  PROVE  IndInv'
<1>1. TypeOK'
  BY RollbackTypes DEF IndInv
<1>2. MutualExclusion'
  BY LocksStayExclusive DEF IndInv, Rollback, Finish
<1>3. pc'[p] = "idle"
  BY DEF Rollback, Finish, Goto, IndInv, TypeOK
<1>4. Undisturbed(p)'
  BY <1>3 DEF Undisturbed, LocksHeld, CartUnchanged, CheckoutUnchanged, StatusUnchanged,
     StatusLabels
<1>5. /\ Goto(p, "idle") /\ UNCHANGED tables /\ UNCHANGED answers
      /\ \A q \in Procs \ {p} :
           req'[q] = req[q] /\ work'[q] = work[q] /\ held'[q] = held[q]
  BY DEF Rollback, Finish, Keep, IndInv, TypeOK
<1> QED
  BY <1>1, <1>2, <1>4, <1>5, StatementKeepsInv

(***************************************************************************)
(* Carts.                                                                  *)
(***************************************************************************)

\* Every statement of AddItem, UpdateItem and DeleteItem keeps the invariant.
LEMMA CartItemKeepsInv ==
  ASSUME IndInv, NEW p \in Procs, CartItemStep(p)
  PROVE  IndInv'
<1>0. TypeOK'
  BY CartItemTypes DEF IndInv
<1>1. CASE BeginCartItem(p)
  <2>1. PICK r \in Requests, label \in {"lockCart", "deleteLine"} : Begin(p, r, label)
    BY <1>1 DEF BeginCartItem
  <2> QED
    BY <1>0, <2>1, BeginKeepsInv
<1>2. CASE LockCart(p)
  <2>1. CASE Rollback(p)
    BY <2>1, RollbackKeepsInv
  <2>2. CASE ~Rollback(p)
    <3>1. /\ Goto(p, "readItem") /\ UNCHANGED tables /\ UNCHANGED answers
          /\ \A q \in Procs \ {p} :
               req'[q] = req[q] /\ work'[q] = work[q] /\ held'[q] = held[q]
      BY <1>2, <2>2 DEF LockCart, Acquire, IndInv, TypeOK
    <3>2. pc'[p] = "readItem" /\ req'[p] = req[p] /\ work'[p] = work[p]
      BY <1>2, <2>2, <3>1 DEF LockCart, Goto, IndInv, TypeOK
    <3>3. MutualExclusion'
      BY <1>2, <2>2, LocksStayExclusive DEF LockCart, IndInv
    <3>4. LocksHeld(p)'
      BY <1>2, <2>2, <3>1, <3>2
      DEF LockCart, LocksHeld, Undisturbed, IndInv, TypeOK, tables, Acquire
    <3>5. CartUnchanged(p)'
      BY <1>2, <2>2, <3>1, <3>2
      DEF LockCart, CartUnchanged, Undisturbed, IndInv, TypeOK, tables
    <3>6. CheckoutUnchanged(p)'
      BY <3>2 DEF CheckoutUnchanged
    <3>7. StatusUnchanged(p)'
      BY <3>2 DEF StatusUnchanged, StatusLabels
    <3> QED
      BY <1>0, <3>1, <3>3, <3>4, <3>5, <3>6, <3>7, StatementKeepsInv DEF Undisturbed
  <2> QED
    BY <2>1, <2>2
<1>3. CASE ReadItem(p)
  <2>1. CASE Rollback(p)
    BY <2>1, RollbackKeepsInv
  <2>2. CASE ~Rollback(p)
    <3>1. /\ Goto(p, IF req[p].op = "add" THEN "checkMixed" ELSE "updateLine")
          /\ UNCHANGED tables
          /\ UNCHANGED answers
          /\ \A q \in Procs \ {p} :
               req'[q] = req[q] /\ work'[q] = work[q] /\ held'[q] = held[q]
      BY <1>3, <2>2 DEF ReadItem, Keep, IndInv, TypeOK
    <3>2. pc'[p] = (IF req[p].op = "add" THEN "checkMixed" ELSE "updateLine") /\ req'[p] = req[p]
      BY <1>3, <2>2, <3>1 DEF ReadItem, Goto, IndInv, TypeOK
    <3>3. MutualExclusion'
      BY <1>3, <2>2, LocksStayExclusive DEF ReadItem, IndInv
    <3>4. LocksHeld(p)'
      BY <1>3, <2>2, <3>1, <3>2
      DEF ReadItem, LocksHeld, Undisturbed, IndInv, TypeOK, tables
    <3>5. CartUnchanged(p)'
      BY <1>3, <2>2, <3>1, <3>2
      DEF ReadItem, CartUnchanged, Undisturbed, IndInv, TypeOK, tables
    <3>6. CheckoutUnchanged(p)'
      BY <1>3, <2>2, <3>1, <3>2
      DEF ReadItem, CheckoutUnchanged, Undisturbed, IndInv, TypeOK, tables
    <3>7. StatusUnchanged(p)'
      BY <1>3, <2>2, <3>1, <3>2
      DEF ReadItem, StatusUnchanged, Undisturbed, IndInv, TypeOK, tables, StatusLabels
    <3> QED
      BY <1>0, <3>1, <3>3, <3>4, <3>5, <3>6, <3>7, StatementKeepsInv DEF Undisturbed
  <2> QED
    BY <2>1, <2>2
<1>4. CASE CheckMixed(p)
  <2>1. CASE Rollback(p)
    BY <2>1, RollbackKeepsInv
  <2>2. CASE ~Rollback(p)
    <3>1. /\ Goto(p, "upsertLine") /\ UNCHANGED tables /\ UNCHANGED answers
          /\ \A q \in Procs \ {p} :
               req'[q] = req[q] /\ work'[q] = work[q] /\ held'[q] = held[q]
      BY <1>4, <2>2 DEF CheckMixed, IndInv, TypeOK
    <3>2. pc'[p] = "upsertLine" /\ req'[p] = req[p] /\ work'[p] = work[p]
      BY <1>4, <2>2, <3>1 DEF CheckMixed, Goto, IndInv, TypeOK
    <3>3. MutualExclusion'
      BY <1>4, <2>2, LocksStayExclusive DEF CheckMixed, IndInv
    <3>4. LocksHeld(p)'
      BY <1>4, <2>2, <3>1, <3>2
      DEF CheckMixed, LocksHeld, Undisturbed, IndInv, TypeOK, tables
    <3>5. CartUnchanged(p)'
      BY <1>4, <2>2, <3>1, <3>2
      DEF CheckMixed, CartUnchanged, Undisturbed, IndInv, TypeOK, tables, Mixed
    <3>6. CheckoutUnchanged(p)'
      BY <3>2 DEF CheckoutUnchanged
    <3>7. StatusUnchanged(p)'
      BY <3>2 DEF StatusUnchanged, StatusLabels
    <3> QED
      BY <1>0, <3>1, <3>3, <3>4, <3>5, <3>6, <3>7, StatementKeepsInv DEF Undisturbed
  <2> QED
    BY <2>1, <2>2
<1>5. CASE UpsertLine(p)
  <2>1. CASE Rollback(p)
    BY <2>1, RollbackKeepsInv
  <2>2. CASE ~Rollback(p)
    <3>1. /\ Goto(p, "touchCart") /\ UNCHANGED tables /\ UNCHANGED answers
          /\ \A q \in Procs \ {p} :
               req'[q] = req[q] /\ work'[q] = work[q] /\ held'[q] = held[q]
      BY <1>5, <2>2 DEF UpsertLine, Acquire, Keep, IndInv, TypeOK
    <3>2. pc'[p] = "touchCart" /\ req'[p] = req[p]
      BY <1>5, <2>2, <3>1 DEF UpsertLine, Goto, IndInv, TypeOK
    <3>3. MutualExclusion'
      BY <1>5, <2>2, LocksStayExclusive DEF UpsertLine, IndInv
    <3>4. LocksHeld(p)'
      BY <1>5, <2>2, <3>1, <3>2
      DEF UpsertLine, LocksHeld, Undisturbed, IndInv, TypeOK, tables, Acquire
    <3>5. CartUnchanged(p)'
      <4>1. req[p].op = "add" /\ req[p] \in CartRequests /\ req[p].quantity \in 1..MaxQuantity
            /\ work[p] \in Terms /\ req[p].cart \in carts /\ ~Mixed(req[p].cart, req[p].item)
        BY <1>5 DEF UpsertLine, IndInv, TypeOK, ReqType, WorkType, CartLabels, Undisturbed,
           CartUnchanged
      <4>2. (lines[req[p].cart][req[p].item]) \in Line \cup {None}
        BY <4>1 DEF IndInv, TypeOK, CartRequests, Contents
      <4> DEFINE before == IF lines[req[p].cart][req[p].item] = None
                           THEN 0 ELSE lines[req[p].cart][req[p].item].quantity
      <4>3. before \in Nat
        BY <4>2, DomainAssumption DEF Line
      <4>4. work'[p] = [terms |-> work[p], quantity |-> req[p].quantity + before]
            /\ req[p].quantity + before <= MaxQuantity
        BY <1>5, <2>2 DEF UpsertLine, Keep, IndInv, TypeOK
      <4> HIDE DEF before
      <4>5. work'[p] \in Line
        BY <4>1, <4>3, <4>4, DomainAssumption DEF Line
      <4>6. work'[p] # None /\ work'[p].quantity = before + req[p].quantity
        BY <4>1, <4>3, <4>4, <4>5, NoneIsNoRow
      <4> QED
        BY <3>1, <3>2, <4>1, <4>6 DEF CartUnchanged, Mixed, tables, before
    <3>6. CheckoutUnchanged(p)'
      BY <3>2 DEF CheckoutUnchanged
    <3>7. StatusUnchanged(p)'
      BY <3>2 DEF StatusUnchanged, StatusLabels
    <3> QED
      BY <1>0, <3>1, <3>3, <3>4, <3>5, <3>6, <3>7, StatementKeepsInv DEF Undisturbed
  <2> QED
    BY <2>1, <2>2
<1>6. CASE UpdateLine(p)
  <2>1. CASE Rollback(p)
    BY <2>1, RollbackKeepsInv
  <2>2. CASE ~Rollback(p)
    <3>1. /\ Goto(p, "touchCart") /\ UNCHANGED tables /\ UNCHANGED answers
          /\ \A q \in Procs \ {p} :
               req'[q] = req[q] /\ work'[q] = work[q] /\ held'[q] = held[q]
      BY <1>6, <2>2 DEF UpdateLine, Acquire, Keep, IndInv, TypeOK
    <3>2. pc'[p] = "touchCart" /\ req'[p] = req[p]
      BY <1>6, <2>2, <3>1 DEF UpdateLine, Goto, IndInv, TypeOK
    <3>3. MutualExclusion'
      BY <1>6, <2>2, LocksStayExclusive DEF UpdateLine, IndInv
    <3>4. LocksHeld(p)'
      BY <1>6, <2>2, <3>1, <3>2
      DEF UpdateLine, LocksHeld, Undisturbed, IndInv, TypeOK, tables, Acquire
    <3>5. CartUnchanged(p)'
      <4>1. req[p].op = "update" /\ req[p].quantity \in 1..MaxQuantity /\ work[p] \in Terms
        BY <1>6 DEF UpdateLine, IndInv, TypeOK, ReqType, WorkType, CartLabels
      <4>2. work'[p] = [terms |-> work[p], quantity |-> req[p].quantity]
            /\ lines[req[p].cart][req[p].item] # None
        BY <1>6, <2>2 DEF UpdateLine, Keep, IndInv, TypeOK
      <4>3. work'[p] # None
        BY <4>1, <4>2, NoneIsNoRow DEF Line
      <4> QED
        BY <3>1, <3>2, <4>1, <4>2, <4>3 DEF CartUnchanged, tables
    <3>6. CheckoutUnchanged(p)'
      BY <3>2 DEF CheckoutUnchanged
    <3>7. StatusUnchanged(p)'
      BY <3>2 DEF StatusUnchanged, StatusLabels
    <3> QED
      BY <1>0, <3>1, <3>3, <3>4, <3>5, <3>6, <3>7, StatementKeepsInv DEF Undisturbed
  <2> QED
    BY <2>1, <2>2
<1>7. CASE DeleteLine(p)
  <2>1. CASE Rollback(p)
    BY <2>1, RollbackKeepsInv
  <2>2. CASE ~Rollback(p)
    <3>1. /\ Goto(p, "touchCart") /\ UNCHANGED tables /\ UNCHANGED answers
          /\ \A q \in Procs \ {p} :
               req'[q] = req[q] /\ work'[q] = work[q] /\ held'[q] = held[q]
      BY <1>7, <2>2 DEF DeleteLine, Acquire, IndInv, TypeOK
    <3>2. pc'[p] = "touchCart" /\ req'[p] = req[p] /\ work'[p] = work[p]
      BY <1>7, <2>2, <3>1 DEF DeleteLine, Goto, IndInv, TypeOK
    <3>3. MutualExclusion'
      BY <1>7, <2>2, LocksStayExclusive DEF DeleteLine, IndInv
    <3>4. LocksHeld(p)'
      BY <1>7, <2>2, <3>1, <3>2
      DEF DeleteLine, LocksHeld, Undisturbed, IndInv, TypeOK, ReqType, tables, Acquire
    <3>5. CartUnchanged(p)'
      BY <1>7, <2>2, <3>1, <3>2
      DEF DeleteLine, CartUnchanged, Undisturbed, IndInv, TypeOK, ReqType, WorkType, tables
    <3>6. CheckoutUnchanged(p)'
      BY <3>2 DEF CheckoutUnchanged
    <3>7. StatusUnchanged(p)'
      BY <3>2 DEF StatusUnchanged, StatusLabels
    <3> QED
      BY <1>0, <3>1, <3>3, <3>4, <3>5, <3>6, <3>7, StatementKeepsInv DEF Undisturbed
  <2> QED
    BY <2>1, <2>2
<1>8. CASE TouchCart(p)
  <2>1. /\ Goto(p, "commitCart") /\ UNCHANGED tables /\ UNCHANGED answers
        /\ \A q \in Procs \ {p} :
             req'[q] = req[q] /\ work'[q] = work[q] /\ held'[q] = held[q]
    BY <1>8 DEF TouchCart, Acquire, IndInv, TypeOK
  <2>2. pc'[p] = "commitCart" /\ req'[p] = req[p] /\ work'[p] = work[p]
    BY <1>8, <2>1 DEF TouchCart, Goto, IndInv, TypeOK
  <2>3. MutualExclusion'
    BY <1>8, LocksStayExclusive DEF TouchCart, IndInv
  <2>4. LocksHeld(p)'
    BY <1>8, <2>1, <2>2
    DEF TouchCart, LocksHeld, Undisturbed, IndInv, TypeOK, tables, Acquire
  <2>5. CartUnchanged(p)'
    BY <1>8, <2>1, <2>2
    DEF TouchCart, CartUnchanged, Undisturbed, IndInv, TypeOK, tables, Mixed
  <2>6. CheckoutUnchanged(p)'
    BY <2>2 DEF CheckoutUnchanged
  <2>7. StatusUnchanged(p)'
    BY <2>2 DEF StatusUnchanged, StatusLabels
  <2> QED
    BY <1>0, <2>1, <2>3, <2>4, <2>5, <2>6, <2>7, StatementKeepsInv DEF Undisturbed
<1>9. CASE CommitCart(p)
  <2> DEFINE c == req[p].cart
             i == req[p].item
  <2>1. /\ pc[p] = "commitCart"
        /\ lines' = [lines EXCEPT ![c][i] = work[p]]
        /\ Finish(p)
        /\ UNCHANGED <<menu, carts, orders, answers>>
    BY <1>9 DEF CommitCart
  <2>2. /\ c \in Carts /\ i \in Items
        /\ req[p].op \in {"add", "update", "delete"}
        /\ CartLock(c) \in held[p]
        /\ LineLock(c, i) \in held[p]
        /\ req[p].op = "add" => ~Mixed(c, i)
        /\ req[p].op # "add" => lines[c][i] # None
    BY <2>1 DEF IndInv, TypeOK, ReqType, CartLabels, CartRequests, DeleteRequests, Undisturbed,
       LocksHeld, CartUnchanged
  <2>3. \A d \in Carts, j \in Items :
           lines'[d][j] = IF d = c /\ j = i THEN work[p] ELSE lines[d][j]
    BY <2>1, <2>2 DEF IndInv, TypeOK, Contents
  <2>4. MutualExclusion'
    BY <2>1, LocksStayExclusive DEF Finish, IndInv
  <2>5. Undisturbed(p)'
    BY <2>1 DEF Finish, Goto, IndInv, TypeOK, Undisturbed, LocksHeld, CartUnchanged,
       CheckoutUnchanged, StatusUnchanged, StatusLabels
  <2>6. ASSUME NEW q \in Procs, q # p
        PROVE  Undisturbed(q)'
    <3>1. /\ pc'[q] = pc[q] /\ req'[q] = req[q] /\ work'[q] = work[q] /\ held'[q] = held[q]
          /\ \A r \in Procs : pc'[r] = "commitOrder" => pc[r] = "commitOrder" /\ work'[r] = work[r]
      BY <2>1, <2>6 DEF Finish, Goto, Keep, IndInv, TypeOK
    <3>2. CartLock(c) \notin held[q] /\ LineLock(c, i) \notin held[q]
      BY <2>2, <2>6 DEF IndInv, MutualExclusion
    <3>3. LocksHeld(q)'
      BY <3>1 DEF IndInv, Undisturbed, LocksHeld
    <3>4. CartUnchanged(q)'
      <4> DEFINE d == req[q].cart
                 j == req[q].item
      <4>1. pc[q] \in CartLabels => d \in Carts /\ j \in Items
        BY DEF IndInv, TypeOK, ReqType, CartRequests, DeleteRequests
      <4>2. /\ LocksHeld(q) /\ CartUnchanged(q)
            /\ pc[q] = "upsertLine" => req[q].op = "add"
        BY DEF IndInv, Undisturbed, TypeOK, ReqType
      <4>3. pc[q] \in {"touchCart", "commitCart"} => lines'[d][j] = lines[d][j]
        BY <2>3, <3>2, <4>1, <4>2 DEF LocksHeld, CartLabels
      <4>4. pc[q] = "upsertLine" \/ (pc[q] \in {"touchCart", "commitCart"} /\ req[q].op = "add")
              => ~Mixed(d, j)'
        <5>1. SUFFICES ASSUME pc[q] = "upsertLine"
                                \/ (pc[q] \in {"touchCart", "commitCart"} /\ req[q].op = "add")
                       PROVE  ~Mixed(d, j)'
          OBVIOUS
        <5>2. d # c /\ d \in Carts /\ ~Mixed(d, j)
          BY <3>2, <4>1, <4>2, <5>1 DEF LocksHeld, CartUnchanged, CartLabels
        <5> QED
          BY <2>3, <3>1, <5>2 DEF Mixed, Chosen
      <4> QED
        BY <2>1, <3>1, <4>2, <4>3, <4>4 DEF CartUnchanged
    <3>5. CheckoutUnchanged(q)'
      <4> DEFINE d == req[q].cart
      <4>1. pc[q] \in {"insertOrder", "commitOrder"} => lines'[d] = lines[d]
        <5>1. pc[q] \in {"insertOrder", "commitOrder"} => d # c /\ d \in Carts
          BY <3>2 DEF IndInv, Undisturbed, LocksHeld, TypeOK, ReqType, CheckoutLabels,
             CheckoutRequests
        <5> QED
          BY <2>1, <2>2, <5>1 DEF IndInv, TypeOK
      <4> QED
        BY <2>1, <3>1, <4>1 DEF IndInv, Undisturbed, CheckoutUnchanged, PlacedUnder, Placed,
           Inserted, SameRequest
    <3>6. StatusUnchanged(q)'
      BY <2>1, <3>1 DEF IndInv, Undisturbed, StatusUnchanged, OwnOrder, Placed
    <3> QED
      BY <3>3, <3>4, <3>5, <3>6 DEF Undisturbed
  <2>7. CartNeverMixed'
    <3>1. SUFFICES ASSUME NEW d \in Carts PROVE OneRestaurant(lines[d])'
      BY DEF CartNeverMixed
    <3>2. OneRestaurant(lines[d])
      BY DEF IndInv, CartNeverMixed
    <3>3. CASE d # c
      BY <2>3, <3>2, <3>3 DEF OneRestaurant, Chosen
    <3>4. CASE d = c
      <4>1. \A j \in Chosen(lines'[c]) : j = i \/ j \in Chosen(lines[c])
        BY <2>2, <2>3 DEF Chosen
      <4>2. \A j \in Chosen(lines[c]) : i \in Chosen(lines'[c]) => RestaurantOf[j] = RestaurantOf[i]
        <5>1. CASE req[p].op = "add"
          BY <2>2, <5>1 DEF Mixed
        <5>2. CASE req[p].op # "add"
          BY <2>2, <3>2, <3>4, <5>2 DEF OneRestaurant, Chosen
        <5> QED
          BY <5>1, <5>2
      <4> QED
        BY <3>2, <3>4, <4>1, <4>2 DEF OneRestaurant
    <3> QED
      BY <3>3, <3>4
  <2>8. /\ OneOrderPerKey' /\ AnswersAgree' /\ VersionCountsUpdates' /\ TakenOrderHasRef'
    BY <2>1 DEF IndInv, OneOrderPerKey, AnswersAgree, VersionCountsUpdates, TakenOrderHasRef,
       Placed, SameRequest
  <2> QED
    BY <1>0, <2>4, <2>5, <2>6, <2>7, <2>8 DEF IndInv
<1> QED
  BY <1>1, <1>2, <1>3, <1>4, <1>5, <1>6, <1>7, <1>8, <1>9 DEF CartItemStep

(***************************************************************************)
(* Checkout.                                                               *)
(***************************************************************************)

\* Every statement of CreateFromCart keeps the invariant.
LEMMA CheckoutKeepsInv ==
  ASSUME IndInv, NEW p \in Procs, CheckoutStep(p)
  PROVE  IndInv'
<1>0. TypeOK'
  BY CheckoutTypes DEF IndInv
<1>1. CASE BeginCheckout(p)
  BY <1>0, <1>1, BeginKeepsInv DEF BeginCheckout
<1>2. CASE LockKey(p)
  <2>1. /\ Goto(p, "lockBasket") /\ UNCHANGED tables /\ UNCHANGED answers
        /\ \A q \in Procs \ {p} :
             req'[q] = req[q] /\ work'[q] = work[q] /\ held'[q] = held[q]
    BY <1>2 DEF LockKey, Acquire, IndInv, TypeOK
  <2>2. pc'[p] = "lockBasket" /\ req'[p] = req[p] /\ work'[p] = work[p]
    BY <1>2, <2>1 DEF LockKey, Goto, IndInv, TypeOK
  <2>3. MutualExclusion'
    BY <1>2, LocksStayExclusive DEF LockKey, IndInv
  <2>4. LocksHeld(p)'
    BY <1>2, <2>1, <2>2
    DEF LockKey, LocksHeld, Undisturbed, IndInv, TypeOK, tables, Acquire
  <2>5. CartUnchanged(p)'
    BY <2>2 DEF CartUnchanged
  <2>6. CheckoutUnchanged(p)'
    BY <2>2 DEF CheckoutUnchanged
  <2>7. StatusUnchanged(p)'
    BY <2>2 DEF StatusUnchanged, StatusLabels
  <2> QED
    BY <1>0, <2>1, <2>3, <2>4, <2>5, <2>6, <2>7, StatementKeepsInv DEF Undisturbed
<1>3. CASE LockBasket(p)
  <2>1. CASE Rollback(p)
    BY <2>1, RollbackKeepsInv
  <2>2. CASE ~Rollback(p)
    <3>1. /\ Goto(p, "findOrder") /\ UNCHANGED tables /\ UNCHANGED answers
          /\ \A q \in Procs \ {p} :
               req'[q] = req[q] /\ work'[q] = work[q] /\ held'[q] = held[q]
      BY <1>3, <2>2 DEF LockBasket, Acquire, IndInv, TypeOK
    <3>2. pc'[p] = "findOrder" /\ req'[p] = req[p] /\ work'[p] = work[p]
      BY <1>3, <2>2, <3>1 DEF LockBasket, Goto, IndInv, TypeOK
    <3>3. MutualExclusion'
      BY <1>3, <2>2, LocksStayExclusive DEF LockBasket, IndInv
    <3>4. LocksHeld(p)'
      BY <1>3, <2>2, <3>1, <3>2
      DEF LockBasket, LocksHeld, Undisturbed, IndInv, TypeOK, tables, Acquire
    <3>5. CartUnchanged(p)'
      BY <3>2 DEF CartUnchanged
    <3>6. CheckoutUnchanged(p)'
      BY <3>2 DEF CheckoutUnchanged
    <3>7. StatusUnchanged(p)'
      BY <3>2 DEF StatusUnchanged, StatusLabels
    <3> QED
      BY <1>0, <3>1, <3>3, <3>4, <3>5, <3>6, <3>7, StatementKeepsInv DEF Undisturbed
  <2> QED
    BY <2>1, <2>2
<1>4. CASE FindOrder(p)
  <2>1. CASE Rollback(p)
    BY <2>1, RollbackKeepsInv
  <2>2. CASE ~Rollback(p)
    <3>1. PICK label \in {"readItems", "replay"} :
            /\ Goto(p, label) /\ UNCHANGED <<tables, req, held, answers>>
            /\ label = "readItems" => PlacedUnder(req[p].key) = {}
            /\ label = "replay" => /\ work'[p] \in PlacedUnder(req[p].key)
                                   /\ SameRequest(orders[work'[p]], req[p])
            /\ \A q \in Procs \ {p} : work'[q] = work[q]
      BY <1>4, <2>2 DEF FindOrder, Keep, IndInv, TypeOK
    <3>2. pc'[p] = label /\ req'[p] = req[p]
      BY <3>1 DEF Goto, IndInv, TypeOK
    <3>3. MutualExclusion'
      BY <3>1, LocksStayExclusive DEF IndInv
    <3>4. LocksHeld(p)'
      BY <1>4, <3>1, <3>2 DEF FindOrder, LocksHeld, Undisturbed, IndInv
    <3>5. CartUnchanged(p)'
      BY <3>2 DEF CartUnchanged
    <3>6. CheckoutUnchanged(p)'
      BY <3>1, <3>2 DEF CheckoutUnchanged, PlacedUnder, Placed, SameRequest, tables
    <3>7. StatusUnchanged(p)'
      BY <3>2 DEF StatusUnchanged, StatusLabels
    <3> QED
      BY <1>0, <3>1, <3>3, <3>4, <3>5, <3>6, <3>7, StatementKeepsInv DEF Undisturbed
  <2> QED
    BY <2>1, <2>2
<1>5. CASE Replay(p)
  <2> DEFINE new == [request |-> req[p], id |-> work[p]]
  <2>1. /\ pc[p] = "replay" /\ Finish(p) /\ UNCHANGED tables
        /\ answers' = answers \cup {new}
    BY <1>5 DEF Replay
  <2>2. /\ work[p] \in Placed /\ orders[work[p]].key = req[p].key
        /\ SameRequest(orders[work[p]], req[p]) /\ req[p] \in CheckoutRequests
    BY <2>1 DEF IndInv, Undisturbed, CheckoutUnchanged, PlacedUnder, TypeOK, ReqType,
       CheckoutLabels
  <2>3. AnswersAgree'
    <3>1. ASSUME NEW a \in answers, a.request.key = req[p].key PROVE a = new
      <4>1. /\ a.id \in Placed /\ orders[a.id].key = a.request.key
            /\ SameRequest(orders[a.id], a.request) /\ a \in Answer
        BY DEF IndInv, AnswersAgree, TypeOK
      <4>2. a.id = work[p]
        BY <2>2, <3>1, <4>1 DEF IndInv, OneOrderPerKey
      <4>3. a.request = req[p]
        BY <2>2, <3>1, <4>1, <4>2 DEF SameRequest, Answer, CheckoutRequests
      <4> QED
        BY <4>1, <4>2, <4>3 DEF Answer
    <3>2. new.request = req[p] /\ new.id = work[p]
      OBVIOUS
    <3> HIDE DEF new
    <3>3. \A a, b \in answers' : a.request.key = b.request.key => a = b
      BY <2>1, <3>1, <3>2 DEF IndInv, AnswersAgree
    <3>4. \A a \in answers' : /\ a.id \in Placed
                              /\ orders[a.id].key = a.request.key
                              /\ SameRequest(orders[a.id], a.request)
      BY <2>1, <2>2, <3>2 DEF IndInv, AnswersAgree
    <3> QED
      BY <2>1, <3>3, <3>4 DEF AnswersAgree, tables, Placed, SameRequest
  <2>4. MutualExclusion'
    BY <2>1, LocksStayExclusive DEF Finish, IndInv
  <2>5. /\ pc'[p] = "idle"
        /\ \A q \in Procs \ {p} :
             pc'[q] = pc[q] /\ req'[q] = req[q] /\ work'[q] = work[q] /\ held'[q] = held[q]
    BY <2>1 DEF Finish, Goto, Keep, IndInv, TypeOK
  <2>6. Undisturbed(p)'
    BY <2>5 DEF Undisturbed, LocksHeld, CartUnchanged, CheckoutUnchanged, StatusUnchanged,
       StatusLabels
  <2>7. \A q \in Procs \ {p} : Undisturbed(q)'
    BY <2>1, <2>5, OthersUndisturbed DEF IndInv
  <2>8. CartNeverMixed' /\ OneOrderPerKey' /\ VersionCountsUpdates' /\ TakenOrderHasRef'
    BY <2>1 DEF IndInv, CartNeverMixed, OneOrderPerKey, VersionCountsUpdates,
       TakenOrderHasRef, Placed, tables
  <2> QED
    BY <1>0, <2>3, <2>4, <2>6, <2>7, <2>8 DEF IndInv
<1>6. CASE ReadItems(p)
  <2>1. CASE Rollback(p)
    BY <2>1, RollbackKeepsInv
  <2>2. CASE ~Rollback(p)
    <3>1. /\ Goto(p, "insertOrder") /\ UNCHANGED tables /\ UNCHANGED answers
          /\ UNCHANGED <<req, held>>
          /\ OneRestaurant(lines[req[p].cart])
          /\ work'[p] = lines[req[p].cart]
          /\ \A q \in Procs \ {p} : work'[q] = work[q]
      BY <1>6, <2>2 DEF ReadItems, Keep, Orderable, IndInv, TypeOK
    <3>2. pc[p] = "readItems" /\ pc'[p] = "insertOrder"
      BY <1>6, <3>1 DEF ReadItems, Goto, IndInv, TypeOK
    <3>3. MutualExclusion'
      BY <3>1, LocksStayExclusive DEF IndInv
    <3>4. LocksHeld(p)'
      BY <3>1, <3>2 DEF LocksHeld, Undisturbed, IndInv
    <3>5. CartUnchanged(p)' /\ StatusUnchanged(p)'
      BY <3>2 DEF CartUnchanged, StatusUnchanged, StatusLabels
    <3>6. CheckoutUnchanged(p)'
      BY <3>1, <3>2 DEF IndInv, Undisturbed, CheckoutUnchanged, PlacedUnder, Placed, tables
    <3> QED
      BY <1>0, <3>1, <3>3, <3>4, <3>5, <3>6, StatementKeepsInv DEF Undisturbed
  <2> QED
    BY <2>1, <2>2
<1>7. CASE InsertOrder(p)
  <2>1. CASE Rollback(p)
    BY <2>1, RollbackKeepsInv
  <2>2. CASE ~Rollback(p)
    <3> DEFINE r == req[p]
               order == NewOrder(r.key, r.cart, r.customer, work[p])
    <3>1. /\ pc[p] = "insertOrder"
          /\ Goto(p, "commitOrder")
          /\ UNCHANGED <<tables, req, held, answers>>
      BY <1>7, <2>2 DEF InsertOrder
    <3>2. PICK id \in OrderIds : FreshId(p, id) /\ Keep(p, [id |-> id, order |-> order])
      BY <1>7, <2>2 DEF InsertOrder
    <3>3. /\ pc'[p] = "commitOrder"
          /\ work'[p].id = id /\ work'[p].order = order
          /\ \A q \in Procs \ {p} : pc'[q] = pc[q] /\ work'[q] = work[q]
      BY <3>1, <3>2 DEF Goto, Keep, IndInv, TypeOK
    <3>4. MutualExclusion'
      BY <3>1, LocksStayExclusive DEF IndInv
    <3>5. /\ PlacedUnder(r.key) = {}
          /\ work[p] = lines[r.cart] /\ OneRestaurant(lines[r.cart])
          /\ Chosen(lines[r.cart]) # {}
      BY <3>1 DEF IndInv, TypeOK, WorkType, Undisturbed, CheckoutUnchanged
    <3>6. Undisturbed(p)'
      <4>1. LocksHeld(p)'
        BY <3>1, <3>3 DEF IndInv, Undisturbed, LocksHeld
      <4>2. CartUnchanged(p)' /\ StatusUnchanged(p)'
        BY <3>3 DEF CartUnchanged, StatusUnchanged, StatusLabels
      <4>3. CheckoutUnchanged(p)'
        BY <3>1, <3>2, <3>3, <3>5 DEF CheckoutUnchanged, PlacedUnder, Placed, Inserted, FreshId,
           tables
      <4> QED
        BY <4>1, <4>2, <4>3 DEF Undisturbed
    <3>7. ASSUME NEW q \in Procs, q # p PROVE Undisturbed(q)'
      <4>1. LocksHeld(q)'
        BY <3>1, <3>3, <3>7 DEF IndInv, Undisturbed, LocksHeld
      <4>2. CartUnchanged(q)'
        BY <3>1, <3>3, <3>7 DEF IndInv, Undisturbed, CartUnchanged, Mixed, tables
      <4>3. CheckoutUnchanged(q)'
        <5>1. pc[q] = "commitOrder" => work[q].id # id
          BY <3>2, <3>7 DEF FreshId, Inserted
        <5> QED
          BY <3>1, <3>3, <3>7, <5>1 DEF IndInv, Undisturbed, CheckoutUnchanged, PlacedUnder,
             Placed, Inserted, SameRequest, tables
      <4>4. StatusUnchanged(q)'
        BY <3>1, <3>3, <3>7 DEF IndInv, Undisturbed, StatusUnchanged, OwnOrder, Placed, tables
      <4> QED
        BY <4>1, <4>2, <4>3, <4>4 DEF Undisturbed
    <3>8. TablesOK'
      BY <3>1, TablesStayOK DEF IndInv, TablesOK
    <3> QED
      BY <1>0, <3>4, <3>6, <3>7, <3>8 DEF IndInv, TablesOK
  <2> QED
    BY <2>1, <2>2
<1>8. CASE CommitOrder(p)
  <2> DEFINE id == work[p].id
             order == work[p].order
             r == req[p]
             new == [request |-> r, id |-> id]
  <2>1. /\ pc[p] = "commitOrder" /\ Finish(p)
        /\ orders' = [orders EXCEPT ![id] = order]
        /\ answers' = answers \cup {new}
        /\ UNCHANGED <<menu, carts, lines>>
    BY <1>8 DEF CommitOrder
  <2>2. /\ id \in OrderIds /\ order \in Order /\ r \in CheckoutRequests
        /\ orders[id] = None
        /\ PlacedUnder(r.key) = {}
        /\ KeyLock(r.key) \in held[p]
        /\ \A q \in Inserted(p) : work[q].id # id
        /\ order.key = r.key /\ order.cart = r.cart /\ order.customer = r.customer
        /\ order.status = "pending_partner" /\ order.version = 1
    <3>1. work[p] \in Draft /\ r \in CheckoutRequests
      BY <2>1 DEF IndInv, TypeOK, ReqType, WorkType, CheckoutLabels
    <3>2. /\ orders[id] = None
          /\ PlacedUnder(r.key) = {}
          /\ \A q \in Inserted(p) : work[q].id # id
          /\ order = NewOrder(r.key, r.cart, r.customer, lines[r.cart])
      BY <2>1 DEF IndInv, Undisturbed, CheckoutUnchanged
    <3>3. KeyLock(r.key) \in held[p]
      BY <2>1 DEF IndInv, Undisturbed, LocksHeld
    <3> QED
      BY <3>1, <3>2, <3>3 DEF Draft, NewOrder
  <2> HIDE DEF order, id
  <2>3. /\ Placed' = Placed \cup {id} /\ id \notin Placed
        /\ orders'[id] = order
        /\ \A other \in Placed : orders'[other] = orders[other]
    BY <2>1, <2>2, NoneIsNoRow DEF Placed, IndInv, TypeOK
  <2>4. MutualExclusion'
    BY <2>1, LocksStayExclusive DEF Finish, IndInv
  <2>5. /\ pc'[p] = "idle"
        /\ \A q \in Procs \ {p} :
             pc'[q] = pc[q] /\ req'[q] = req[q] /\ work'[q] = work[q] /\ held'[q] = held[q]
    BY <2>1 DEF Finish, Goto, Keep, IndInv, TypeOK
  <2>6. Undisturbed(p)'
    BY <2>5 DEF Undisturbed, LocksHeld, CartUnchanged, CheckoutUnchanged, StatusUnchanged,
       StatusLabels
  <2>7. ASSUME NEW q \in Procs, q # p PROVE Undisturbed(q)'
    <3>1. Undisturbed(q) /\ ReqType(q) /\ WorkType(q)
      BY DEF IndInv, TypeOK
    <3>2. LocksHeld(q)'
      BY <2>5, <2>7, <3>1 DEF Undisturbed, LocksHeld
    <3>3. CartUnchanged(q)'
      BY <2>1, <2>5, <2>7, <3>1 DEF Undisturbed, CartUnchanged, Mixed
    <3>4. CheckoutUnchanged(q)'
      <4>1. pc[q] \in {"readItems", "insertOrder", "commitOrder"} => req[q].key # r.key
        BY <2>2, <2>7, <3>1 DEF IndInv, MutualExclusion, Undisturbed, LocksHeld
      <4>2. \A k : k # r.key => PlacedUnder(k)' = PlacedUnder(k)
        BY <2>2, <2>3 DEF PlacedUnder
      <4>3. pc[q] = "commitOrder" => work[q].id # id
        BY <2>2, <2>7 DEF Inserted
      <4>4. pc[q] = "commitOrder" => orders'[work[q].id] = orders[work[q].id]
        BY <2>1, <3>1, <4>3 DEF WorkType, Draft, IndInv, TypeOK
      <4>5. pc[q] \in {"readItems", "insertOrder", "commitOrder"} => PlacedUnder(req[q].key)' = {}
        BY <2>5, <2>7, <3>1, <4>1, <4>2 DEF Undisturbed, CheckoutUnchanged
      <4>6. pc[q] = "replay" => /\ work[q] \in PlacedUnder(req[q].key)'
                                /\ SameRequest(orders'[work[q]], req[q])
        BY <2>3, <2>5, <2>7, <3>1 DEF Undisturbed, CheckoutUnchanged, PlacedUnder
      <4>7. Inserted(q)' \subseteq Inserted(q) /\ \A x \in Inserted(q)' : work'[x] = work[x]
        BY <2>5, <2>7 DEF Inserted
      <4> QED
        BY <2>1, <2>5, <2>7, <3>1, <4>4, <4>5, <4>6, <4>7
        DEF Undisturbed, CheckoutUnchanged, SameRequest
    <3>5. StatusUnchanged(q)'
      BY <2>3, <2>5, <2>7, <3>1 DEF Undisturbed, StatusUnchanged, OwnOrder, Acceptable
    <3> QED
      BY <3>2, <3>3, <3>4, <3>5 DEF Undisturbed
  <2>8. CartNeverMixed'
    BY <2>1 DEF IndInv, CartNeverMixed
  <2>9. OneOrderPerKey'
    BY <2>2, <2>3 DEF IndInv, OneOrderPerKey, PlacedUnder
  <2>10. AnswersAgree'
    <3>1. \A a \in answers : /\ a.id \in Placed /\ orders[a.id].key = a.request.key
                             /\ SameRequest(orders[a.id], a.request)
      BY DEF IndInv, AnswersAgree
    <3>2. \A a \in answers : a.request.key # r.key
      BY <2>2, <3>1 DEF PlacedUnder
    <3>3. new.request = r /\ new.id = id
      OBVIOUS
    <3> HIDE DEF new
    <3>4. \A a, b \in answers' : a.request.key = b.request.key => a = b
      BY <2>1, <3>2, <3>3 DEF IndInv, AnswersAgree
    <3>5. \A a \in answers' : /\ a.id \in Placed' /\ orders'[a.id].key = a.request.key
                              /\ SameRequest(orders'[a.id], a.request)
      BY <2>1, <2>2, <2>3, <3>1, <3>3 DEF SameRequest
    <3> QED
      BY <3>4, <3>5 DEF AnswersAgree, SameRequest
  <2>11. VersionCountsUpdates' /\ TakenOrderHasRef'
    <3>1. VersionCountsUpdates'
      BY <2>2, <2>3 DEF IndInv, VersionCountsUpdates, Stage
    <3>2. TakenOrderHasRef'
      BY <2>2, <2>3 DEF IndInv, TakenOrderHasRef, Taken
    <3> QED
      BY <3>1, <3>2
  <2> QED
    BY <1>0, <2>4, <2>6, <2>7, <2>8, <2>9, <2>10, <2>11 DEF IndInv
<1> QED
  BY <1>1, <1>2, <1>3, <1>4, <1>5, <1>6, <1>7, <1>8 DEF CheckoutStep

(***************************************************************************)
(* Catalogs and statuses.                                                  *)
(***************************************************************************)

\* Every statement of a catalog sync keeps the invariant.
LEMMA CatalogKeepsInv ==
  ASSUME IndInv, NEW p \in Procs, CatalogStep(p)
  PROVE  IndInv'
<1>0. TypeOK'
  BY CatalogTypes DEF IndInv
<1>1. CASE BeginCatalog(p)
  BY <1>0, <1>1, BeginKeepsInv DEF BeginCatalog
<1>2. CASE LockRestaurant(p)
  <2>1. /\ Goto(p, "upsertItems") /\ UNCHANGED tables /\ UNCHANGED answers
        /\ \A q \in Procs \ {p} :
             req'[q] = req[q] /\ work'[q] = work[q] /\ held'[q] = held[q]
    BY <1>2 DEF LockRestaurant, Acquire, IndInv, TypeOK
  <2>2. pc'[p] = "upsertItems" /\ req'[p] = req[p] /\ work'[p] = work[p]
    BY <1>2, <2>1 DEF LockRestaurant, Goto, IndInv, TypeOK
  <2>3. MutualExclusion'
    BY <1>2, LocksStayExclusive DEF LockRestaurant, IndInv
  <2>4. LocksHeld(p)'
    BY <1>2, <2>1, <2>2
    DEF LockRestaurant, LocksHeld, Undisturbed, IndInv, TypeOK, tables, Acquire
  <2>5. CartUnchanged(p)'
    BY <2>2 DEF CartUnchanged
  <2>6. CheckoutUnchanged(p)'
    BY <2>2 DEF CheckoutUnchanged
  <2>7. StatusUnchanged(p)'
    BY <2>2 DEF StatusUnchanged, StatusLabels
  <2> QED
    BY <1>0, <2>1, <2>3, <2>4, <2>5, <2>6, <2>7, StatementKeepsInv DEF Undisturbed
<1>3. CASE UpsertItems(p)
  <2>1. /\ Goto(p, "deactivate") /\ UNCHANGED tables /\ UNCHANGED answers
        /\ \A q \in Procs \ {p} :
             req'[q] = req[q] /\ work'[q] = work[q] /\ held'[q] = held[q]
    BY <1>3 DEF UpsertItems, Keep, IndInv, TypeOK
  <2>2. pc'[p] = "deactivate" /\ req'[p] = req[p]
    BY <1>3, <2>1 DEF UpsertItems, Goto, IndInv, TypeOK
  <2>3. MutualExclusion'
    BY <1>3, LocksStayExclusive DEF UpsertItems, IndInv
  <2>4. LocksHeld(p)'
    BY <1>3, <2>1, <2>2
    DEF UpsertItems, LocksHeld, Undisturbed, IndInv, TypeOK, tables
  <2>5. CartUnchanged(p)'
    BY <2>2 DEF CartUnchanged
  <2>6. CheckoutUnchanged(p)'
    BY <2>2 DEF CheckoutUnchanged
  <2>7. StatusUnchanged(p)'
    BY <2>2 DEF StatusUnchanged, StatusLabels
  <2> QED
    BY <1>0, <2>1, <2>3, <2>4, <2>5, <2>6, <2>7, StatementKeepsInv DEF Undisturbed
<1>4. CASE Deactivate(p)
  <2>1. /\ Goto(p, "commitCatalog") /\ UNCHANGED tables /\ UNCHANGED answers
        /\ \A q \in Procs \ {p} :
             req'[q] = req[q] /\ work'[q] = work[q] /\ held'[q] = held[q]
    BY <1>4 DEF Deactivate, Keep, IndInv, TypeOK
  <2>2. pc'[p] = "commitCatalog" /\ req'[p] = req[p]
    BY <1>4, <2>1 DEF Deactivate, Goto, IndInv, TypeOK
  <2>3. MutualExclusion'
    BY <1>4, LocksStayExclusive DEF Deactivate, IndInv
  <2>4. LocksHeld(p)'
    BY <1>4, <2>1, <2>2
    DEF Deactivate, LocksHeld, Undisturbed, IndInv, TypeOK, tables
  <2>5. CartUnchanged(p)'
    BY <2>2 DEF CartUnchanged
  <2>6. CheckoutUnchanged(p)'
    BY <2>2 DEF CheckoutUnchanged
  <2>7. StatusUnchanged(p)'
    BY <2>2 DEF StatusUnchanged, StatusLabels
  <2> QED
    BY <1>0, <2>1, <2>3, <2>4, <2>5, <2>6, <2>7, StatementKeepsInv DEF Undisturbed
<1>5. CASE CommitCatalog(p)
  <2>1. Finish(p) /\ UNCHANGED <<carts, lines, orders, answers>>
    BY <1>5 DEF CommitCatalog
  <2>2. MutualExclusion'
    BY <2>1, LocksStayExclusive DEF Finish, IndInv
  <2>3. /\ pc'[p] = "idle"
        /\ \A q \in Procs \ {p} :
             pc'[q] = pc[q] /\ req'[q] = req[q] /\ work'[q] = work[q] /\ held'[q] = held[q]
    BY <2>1 DEF Finish, Goto, Keep, IndInv, TypeOK
  <2>4. Undisturbed(p)'
    BY <2>3 DEF Undisturbed, LocksHeld, CartUnchanged, CheckoutUnchanged, StatusUnchanged,
       StatusLabels
  <2>5. ASSUME NEW q \in Procs, q # p PROVE Undisturbed(q)'
    <3>1. LocksHeld(q)'
      BY <2>3, <2>5 DEF IndInv, Undisturbed, LocksHeld
    <3>2. CartUnchanged(q)'
      BY <2>1, <2>3, <2>5 DEF IndInv, Undisturbed, CartUnchanged, Mixed
    <3>3. CheckoutUnchanged(q)'
      BY <2>1, <2>3, <2>5 DEF IndInv, Undisturbed, CheckoutUnchanged, PlacedUnder, Placed,
         Inserted, SameRequest
    <3>4. StatusUnchanged(q)'
      BY <2>1, <2>3, <2>5 DEF IndInv, Undisturbed, StatusUnchanged, OwnOrder, Placed
    <3> QED
      BY <3>1, <3>2, <3>3, <3>4 DEF Undisturbed
  <2>6. /\ CartNeverMixed' /\ OneOrderPerKey' /\ AnswersAgree'
        /\ VersionCountsUpdates' /\ TakenOrderHasRef'
    BY <2>1 DEF IndInv, CartNeverMixed, OneOrderPerKey, AnswersAgree, VersionCountsUpdates,
       TakenOrderHasRef, Placed, SameRequest
  <2> QED
    BY <1>0, <2>2, <2>4, <2>5, <2>6 DEF IndInv
<1> QED
  BY <1>1, <1>2, <1>3, <1>4, <1>5 DEF CatalogStep

\* An accepted move takes the version and the partner's reference along.
LEMMA UpdatedOrder ==
  ASSUME NEW order \in Order, NEW r \in StatusRequests, ValidStatusUpdate(r), Acceptable(order, r)
  PROVE  LET row == Updated(order, r.status, r.ref)
         IN  /\ row.key = order.key /\ row.cart = order.cart /\ row.customer = order.customer
             /\ row.restaurant = order.restaurant
             /\ row.status = r.status /\ row.version = order.version + 1
             /\ row.ref = IF r.ref = None THEN order.ref ELSE r.ref
BY DEF Updated, Order

\* Every statement of a status update keeps the invariant.
LEMMA StatusKeepsInv ==
  ASSUME IndInv, NEW p \in Procs, StatusStep(p)
  PROVE  IndInv'
<1>0. TypeOK'
  BY StatusTypes DEF IndInv
<1>1. CASE BeginStatus(p)
  BY <1>0, <1>1, BeginKeepsInv DEF BeginStatus
<1>2. CASE LockOrder(p)
  <2>1. CASE Rollback(p)
    BY <2>1, RollbackKeepsInv
  <2>2. CASE ~Rollback(p)
    <3>1. /\ Goto(p, "updateOrder") /\ UNCHANGED tables /\ UNCHANGED answers
          /\ \A q \in Procs \ {p} :
               req'[q] = req[q] /\ work'[q] = work[q] /\ held'[q] = held[q]
      BY <1>2, <2>2 DEF LockOrder, Acquire, IndInv, TypeOK
    <3>2. pc'[p] = "updateOrder" /\ req'[p] = req[p] /\ work'[p] = work[p]
      BY <1>2, <2>2, <3>1 DEF LockOrder, Goto, IndInv, TypeOK
    <3>3. MutualExclusion'
      BY <1>2, <2>2, LocksStayExclusive DEF LockOrder, IndInv
    <3>4. LocksHeld(p)'
      BY <1>2, <2>2, <3>1, <3>2
      DEF LockOrder, LocksHeld, Undisturbed, IndInv, TypeOK, tables, Acquire
    <3>5. CartUnchanged(p)'
      BY <3>2 DEF CartUnchanged
    <3>6. CheckoutUnchanged(p)'
      BY <3>2 DEF CheckoutUnchanged
    <3>7. StatusUnchanged(p)'
      BY <1>2, <2>2, <3>1, <3>2
      DEF LockOrder, StatusUnchanged, Undisturbed, IndInv, TypeOK, tables, StatusLabels,
          OwnOrder, Placed
    <3> QED
      BY <1>0, <3>1, <3>3, <3>4, <3>5, <3>6, <3>7, StatementKeepsInv DEF Undisturbed
  <2> QED
    BY <2>1, <2>2
<1>3. CASE UpdateOrder(p)
  <2>1. /\ Goto(p, "commitStatus") /\ UNCHANGED tables /\ UNCHANGED answers
        /\ \A q \in Procs \ {p} :
             req'[q] = req[q] /\ work'[q] = work[q] /\ held'[q] = held[q]
    BY <1>3 DEF UpdateOrder, Acquire, Keep, IndInv, TypeOK
  <2>2. pc'[p] = "commitStatus" /\ req'[p] = req[p]
    BY <1>3, <2>1 DEF UpdateOrder, Goto, IndInv, TypeOK
  <2>3. MutualExclusion'
    BY <1>3, LocksStayExclusive DEF UpdateOrder, IndInv
  <2>4. LocksHeld(p)'
    BY <1>3, <2>1, <2>2
    DEF UpdateOrder, LocksHeld, Undisturbed, IndInv, TypeOK, tables, Acquire
  <2>5. CartUnchanged(p)'
    BY <2>2 DEF CartUnchanged
  <2>6. CheckoutUnchanged(p)'
    BY <2>2 DEF CheckoutUnchanged
  <2>7. StatusUnchanged(p)'
    BY <1>3, <2>1, <2>2
    DEF UpdateOrder, StatusUnchanged, Undisturbed, IndInv, TypeOK, tables, StatusLabels,
        OwnOrder, Placed, Keep
  <2> QED
    BY <1>0, <2>1, <2>3, <2>4, <2>5, <2>6, <2>7, StatementKeepsInv DEF Undisturbed
<1>4. CASE CommitStatus(p)
  <2> DEFINE r == req[p]
             id == r.order
             row == Updated(orders[id], r.status, r.ref)
  <2>1. /\ pc[p] = "commitStatus" /\ Finish(p)
        /\ orders' = [orders EXCEPT ![id] = work[p]]
        /\ UNCHANGED <<menu, carts, lines, answers>>
    BY <1>4 DEF CommitStatus
  <2>2. /\ r \in StatusRequests
        /\ ValidStatusUpdate(r) /\ OwnOrder(r) /\ Acceptable(orders[id], r)
        /\ work[p] = row
        /\ OrderLock(id) \in held[p]
    BY <2>1 DEF IndInv, TypeOK, ReqType, StatusLabels, Undisturbed, StatusUnchanged, LocksHeld
  <2>3. id \in Placed /\ orders[id] \in Order /\ row \in Order
    BY <2>2, UpdatedType DEF OwnOrder, Placed, IndInv, TypeOK, StatusRequests
  <2>4. /\ row.key = orders[id].key /\ row.cart = orders[id].cart
        /\ row.customer = orders[id].customer
        /\ row.status = r.status /\ row.version = orders[id].version + 1
        /\ row.ref = IF r.ref = None THEN orders[id].ref ELSE r.ref
    BY <2>2, <2>3, UpdatedOrder
  <2> HIDE DEF row
  <2>5. /\ Placed' = Placed
        /\ orders'[id] = row
        /\ \A other \in OrderIds : other # id => orders'[other] = orders[other]
    BY <2>1, <2>2, <2>3, NoneIsNoRow DEF Placed, IndInv, TypeOK
  <2>6. MutualExclusion'
    BY <2>1, LocksStayExclusive DEF Finish, IndInv
  <2>7. /\ pc'[p] = "idle"
        /\ \A q \in Procs \ {p} :
             pc'[q] = pc[q] /\ req'[q] = req[q] /\ work'[q] = work[q] /\ held'[q] = held[q]
    BY <2>1 DEF Finish, Goto, Keep, IndInv, TypeOK
  <2>8. Undisturbed(p)'
    BY <2>7 DEF Undisturbed, LocksHeld, CartUnchanged, CheckoutUnchanged, StatusUnchanged,
       StatusLabels
  <2>9. \A k : PlacedUnder(k)' = PlacedUnder(k)
    BY <2>4, <2>5 DEF PlacedUnder, Placed
  <2>10. ASSUME NEW q \in Procs, q # p PROVE Undisturbed(q)'
    <3>1. Undisturbed(q) /\ ReqType(q) /\ WorkType(q)
      BY DEF IndInv, TypeOK
    <3>2. LocksHeld(q)'
      BY <2>7, <2>10, <3>1 DEF Undisturbed, LocksHeld
    <3>3. CartUnchanged(q)'
      BY <2>1, <2>7, <2>10, <3>1 DEF Undisturbed, CartUnchanged, Mixed
    <3>4. CheckoutUnchanged(q)'
      <4>1. pc[q] = "commitOrder" => orders'[work[q].id] = None
        BY <2>3, <2>5, <3>1 DEF Undisturbed, CheckoutUnchanged, WorkType, Draft, Placed
      <4>2. pc[q] = "replay" => SameRequest(orders'[work[q]], req[q])
        BY <2>4, <2>5, <3>1 DEF Undisturbed, CheckoutUnchanged, WorkType, SameRequest
      <4>3. Inserted(q)' \subseteq Inserted(q) /\ \A x \in Inserted(q)' : work'[x] = work[x]
        BY <2>7, <2>10 DEF Inserted
      <4> QED
        BY <2>1, <2>7, <2>9, <2>10, <3>1, <4>1, <4>2, <4>3
        DEF Undisturbed, CheckoutUnchanged, SameRequest
    <3>5. StatusUnchanged(q)'
      <4>1. pc[q] \in {"updateOrder", "commitStatus"} =>
              req[q].order # id /\ req[q].order \in OrderIds
        BY <2>2, <2>10, <3>1
          DEF IndInv, MutualExclusion, Undisturbed, LocksHeld, ReqType, Placed
      <4>2. pc[q] \in {"updateOrder", "commitStatus"} =>
              orders'[req[q].order] = orders[req[q].order]
        BY <2>5, <4>1
      <4> QED
        BY <2>5, <2>7, <2>10, <3>1, <4>2 DEF Undisturbed, StatusUnchanged, OwnOrder
    <3> QED
      BY <3>2, <3>3, <3>4, <3>5 DEF Undisturbed
  <2>11. CartNeverMixed'
    BY <2>1 DEF IndInv, CartNeverMixed
  <2>12. OneOrderPerKey'
    BY <2>4, <2>5 DEF IndInv, OneOrderPerKey, Placed
  <2>13. AnswersAgree'
    <3>1. \A a \in answers : a.id \in OrderIds
      BY DEF IndInv, TypeOK, Answer
    <3> QED
      BY <2>1, <2>4, <2>5, <3>1 DEF IndInv, AnswersAgree, SameRequest
  <2>14. VersionCountsUpdates'
    <3>1. IF row.status = "cancelled" THEN row.version \in 2..4
                                      ELSE row.version = Stage[row.status]
      <4>1. <<orders[id].status, row.status>> \in Moves
        BY <2>2, <2>4 DEF Acceptable, CanTransition
      <4>2. IF orders[id].status = "cancelled" THEN orders[id].version \in 2..4
                                   ELSE orders[id].version = Stage[orders[id].status]
        BY <2>3 DEF IndInv, VersionCountsUpdates
      <4> QED
        BY <2>4, <4>1, <4>2 DEF Moves, Stage
    <3> QED
      BY <2>5, <3>1 DEF IndInv, VersionCountsUpdates, Placed
  <2>15. TakenOrderHasRef'
    <3>1. row.status = "accepted" => NotBlank(row.ref)
      BY <2>2, <2>4, NoneIsNoRow DEF ValidStatusUpdate, NotBlank
    <3>2. row.status \in Taken => row.ref # None
      <4>1. <<orders[id].status, row.status>> \in Moves
        BY <2>2, <2>4 DEF Acceptable, CanTransition
      <4>2. orders[id].status \in Taken => orders[id].ref # None
        BY <2>3 DEF IndInv, TakenOrderHasRef
      <4>3. row.status = "accepted" => r.ref # None
        BY <2>2, <2>4, NoneIsNoRow DEF ValidStatusUpdate, NotBlank
      <4>4. row.status \in Taken => row.status = "accepted" \/ orders[id].status \in Taken
        BY <4>1 DEF Moves, Taken
      <4> QED
        BY <2>4, <4>2, <4>3, <4>4
    <3> QED
      BY <2>5, <3>1, <3>2 DEF IndInv, TakenOrderHasRef, Placed
  <2> QED
    BY <1>0, <2>6, <2>8, <2>10, <2>11, <2>12, <2>13, <2>14, <2>15 DEF IndInv
<1> QED
  BY <1>1, <1>2, <1>3, <1>4 DEF StatusStep

(***************************************************************************)
(* The theorems.                                                           *)
(***************************************************************************)

\* An empty database with nobody at work satisfies the invariant.
LEMMA InitInv == Init => IndInv
<1> SUFFICES ASSUME Init PROVE IndInv
  OBVIOUS
<1>1. TypeOK
  BY DomainAssumption, DatabaseAssumption
  DEF Init, InitDatabase, TypeOK, ReqType, WorkType, Labels, CartLabels, CheckoutLabels,
      CatalogLabels, StatusLabels, Work, EmptyContents, Contents
<1>2. \A p \in Procs : Undisturbed(p)
  BY DEF Init, InitDatabase, Undisturbed, LocksHeld, CartUnchanged, CheckoutUnchanged,
     StatusUnchanged, StatusLabels
<1>3. MutualExclusion
  BY DEF Init, InitDatabase, MutualExclusion
<1>4. TablesOK
  BY DEF Init, InitDatabase, TablesOK, CartNeverMixed, OneRestaurant, Chosen, EmptyContents,
     OneOrderPerKey, AnswersAgree, VersionCountsUpdates, TakenOrderHasRef, Placed
<1> QED
  BY <1>1, <1>2, <1>3, <1>4 DEF IndInv, TablesOK

\* A new cart is no part of any decision already taken.
LEMMA InsertCartKeepsInv ==
  ASSUME IndInv, NEW c \in Carts, InsertCart(c)
  PROVE  IndInv'
<1>1. TypeOK'
  BY DEF InsertCart, IndInv, TypeOK, ReqType, WorkType, Placed
<1>2. MutualExclusion'
  BY DEF InsertCart, IndInv, MutualExclusion
<1>3. ASSUME NEW p \in Procs PROVE Undisturbed(p)'
  <2>1. LocksHeld(p)'
    BY DEF InsertCart, IndInv, Undisturbed, LocksHeld
  <2>2. CartUnchanged(p)'
    BY DEF InsertCart, IndInv, Undisturbed, CartUnchanged, Mixed
  <2>3. CheckoutUnchanged(p)'
    BY DEF InsertCart, IndInv, Undisturbed, CheckoutUnchanged, PlacedUnder, Placed, Inserted,
       SameRequest
  <2>4. StatusUnchanged(p)'
    BY DEF InsertCart, IndInv, Undisturbed, StatusUnchanged, OwnOrder, Placed
  <2> QED
    BY <2>1, <2>2, <2>3, <2>4 DEF Undisturbed
<1>4. TablesOK'
  BY DEF InsertCart, IndInv, TablesOK, CartNeverMixed, OneOrderPerKey, AnswersAgree,
     VersionCountsUpdates, TakenOrderHasRef, Placed, SameRequest
<1> QED
  BY <1>1, <1>2, <1>3, <1>4 DEF IndInv, TablesOK

\* The invariant is inductive: one step per operation of the API.
LEMMA NextKeepsInv == IndInv /\ [Next]_vars => IndInv'
<1> SUFFICES ASSUME IndInv, [Next]_vars PROVE IndInv'
  OBVIOUS
<1>1. CASE \E c \in Carts : InsertCart(c)
  BY <1>1, InsertCartKeepsInv
<1>2. CASE \E p \in Procs : CartItemStep(p)
  BY <1>2, CartItemKeepsInv
<1>3. CASE \E p \in Procs : CheckoutStep(p)
  BY <1>3, CheckoutKeepsInv
<1>4. CASE \E p \in Procs : CatalogStep(p)
  BY <1>4, CatalogKeepsInv
<1>5. CASE \E p \in Procs : StatusStep(p)
  BY <1>5, StatusKeepsInv
<1>6. CASE \E p \in Procs : Abort(p)
  BY <1>6, RollbackKeepsInv DEF Abort
<1>7. CASE UNCHANGED vars
  <2>1. TypeOK'
    BY <1>7 DEF vars, IndInv, TypeOK, ReqType, WorkType, Placed
  <2>2. MutualExclusion'
    BY <1>7 DEF vars, IndInv, MutualExclusion
  <2>3. \A p \in Procs : Undisturbed(p)'
    BY <1>7 DEF vars, IndInv, Undisturbed, LocksHeld, CartUnchanged, CheckoutUnchanged,
       StatusUnchanged, Mixed, PlacedUnder, Placed, Inserted, SameRequest, OwnOrder
  <2>4. TablesOK'
    BY <1>7, TablesStayOK DEF vars, tables, IndInv, TablesOK
  <2> QED
    BY <2>1, <2>2, <2>3, <2>4 DEF IndInv, TablesOK
<1> QED
  BY <1>1, <1>2, <1>3, <1>4, <1>5, <1>6, <1>7 DEF Next

\* The invariant holds in every reachable state.
THEOREM InductiveInvariant == Spec => []IndInv
<1>1. Init => IndInv
  BY InitInv
<1>2. IndInv /\ [Next]_vars => IndInv'
  BY NextKeepsInv
<1> QED
  BY <1>1, <1>2, PTL DEF Spec

\* No cart ever holds items of two restaurants.
THEOREM CartsAreNeverMixed == Spec => []CartNeverMixed
<1>1. IndInv => CartNeverMixed
  BY DEF IndInv
<1> QED
  BY <1>1, InductiveInvariant, PTL

\* Every answer given for a key names the one order placed by that request.
THEOREM RetriesAreSafe == Spec => []AnswersAgree
<1>1. IndInv => AnswersAgree
  BY DEF IndInv
<1> QED
  BY <1>1, InductiveInvariant, PTL

\* The advisory lock keeps the insertion of an order off the unique index: two
\* checkouts between the lock and the commit have different keys.
THEOREM AdvisoryLockSuffices == Spec => []UniqueIndexIsNeverHit
<1>1. IndInv => UniqueIndexIsNeverHit
  <2> SUFFICES ASSUME IndInv, NEW p \in Procs, pc[p] = "insertOrder"
               PROVE  ~KeyUsed(p) /\ ~KeyPending(p)
    BY DEF UniqueIndexIsNeverHit
  <2>1. PlacedUnder(req[p].key) = {} /\ KeyLock(req[p].key) \in held[p]
    BY DEF IndInv, Undisturbed, CheckoutUnchanged, LocksHeld
  <2>2. ASSUME NEW q \in Inserted(p)
        PROVE  work[q].order.key # req[p].key
    <3>1. q \in Procs /\ q # p /\ pc[q] = "commitOrder"
      BY <2>2 DEF Inserted
    <3>2. /\ KeyLock(req[q].key) \in held[q]
          /\ work[q].order =
               NewOrder(req[q].key, req[q].cart, req[q].customer, lines[req[q].cart])
      BY <3>1 DEF IndInv, Undisturbed, LocksHeld, CheckoutUnchanged
    <3>3. req[q].key # req[p].key
      BY <2>1, <3>1, <3>2 DEF IndInv, MutualExclusion
    <3> QED
      BY <3>2, <3>3 DEF NewOrder
  <2> QED
    BY <2>1, <2>2 DEF KeyUsed, KeyPending
<1> QED
  BY <1>1, InductiveInvariant, PTL

\* A status update is written over the very version and status it was checked against.
THEOREM NoUpdateIsLost == Spec => []UpdateBuildsOnSeenVersion
<1>1. IndInv => UpdateBuildsOnSeenVersion
  BY DEF IndInv, Undisturbed, StatusUnchanged, UpdateBuildsOnSeenVersion
<1> QED
  BY <1>1, InductiveInvariant, PTL

\* The version of an order is determined by the moves it has made.
THEOREM VersionsCountUpdates == Spec => []VersionCountsUpdates
<1>1. IndInv => VersionCountsUpdates
  BY DEF IndInv
<1> QED
  BY <1>1, InductiveInvariant, PTL

\* An order cannot be accepted without the partner's number (orders.go:385),
\* and afterwards the column is never empty (orders.go:344).
THEOREM AcceptedOrdersAreNumbered == Spec => []TakenOrderHasRef
<1>1. IndInv => TakenOrderHasRef
  BY DEF IndInv
<1> QED
  BY <1>1, InductiveInvariant, PTL

\* Orders are written by two commits only.
LEMMA WhoWritesOrders ==
  ASSUME [Next]_vars, orders' # orders
  PROVE  \E p \in Procs : CommitOrder(p) \/ CommitStatus(p)
<1>1. ASSUME NEW p \in Procs, CartItemStep(p) PROVE FALSE
  BY <1>1 DEF CartItemStep, BeginCartItem, Begin, LockCart, ReadItem, CheckMixed, UpsertLine,
     UpdateLine, DeleteLine, TouchCart, CommitCart, Rollback, tables
<1>2. ASSUME NEW p \in Procs, CatalogStep(p) PROVE FALSE
  BY <1>2 DEF CatalogStep, BeginCatalog, Begin, LockRestaurant, UpsertItems, Deactivate,
     CommitCatalog, Rollback, tables
<1>3. ASSUME NEW p \in Procs, CheckoutStep(p) PROVE CommitOrder(p)
  BY <1>3 DEF CheckoutStep, BeginCheckout, Begin, LockKey, LockBasket, FindOrder, Replay,
     ReadItems, InsertOrder, Rollback, Finish, tables
<1>4. ASSUME NEW p \in Procs, StatusStep(p) PROVE CommitStatus(p)
  BY <1>4 DEF StatusStep, BeginStatus, Begin, LockOrder, UpdateOrder, Rollback, tables
<1>5. ASSUME NEW p \in Procs, Abort(p) PROVE FALSE
  BY <1>5 DEF Abort, Rollback, tables
<1>6. ASSUME NEW c \in Carts, InsertCart(c) PROVE FALSE
  BY <1>6 DEF InsertCart
<1>7. QED
  BY <1>1, <1>2, <1>3, <1>4, <1>5, <1>6 DEF Next, vars

\* The partner's number of an order is lost to an update that brings a string
\* of blanks along and to nothing else, whatever runs beside it (orders.go:344).
THEOREM OnlyBlanksEraseANumber == Spec => NumberLostOnlyToBlanks
<1> DEFINE Kept(id) ==
             NotBlank(orders[id].ref) /\ ~NotBlank(orders'[id].ref) =>
               \E p \in Procs : /\ pc[p] = "commitStatus"
                                /\ req[p].order = id
                                /\ req[p].ref = Blank
<1>1. IndInv /\ [Next]_vars => [\A id \in Placed : Kept(id)]_orders
  <2>1. SUFFICES ASSUME IndInv, [Next]_vars, orders' # orders, NEW id \in Placed,
                        NotBlank(orders[id].ref), ~NotBlank(orders'[id].ref)
                 PROVE  \E p \in Procs : /\ pc[p] = "commitStatus"
                                         /\ req[p].order = id
                                         /\ req[p].ref = Blank
    OBVIOUS
  <2>2. PICK p \in Procs : CommitOrder(p) \/ CommitStatus(p)
    BY <2>1, WhoWritesOrders
  <2>3. orders[id] \in Order /\ id \in OrderIds /\ orders[id] # None
    BY <2>1 DEF IndInv, TypeOK, Placed
  <2>4. CASE CommitOrder(p)
    <3>1. orders[work[p].id] = None
      BY <2>1, <2>4 DEF CommitOrder, IndInv, Undisturbed, CheckoutUnchanged
    <3>2. orders'[id] = orders[id]
      BY <2>1, <2>3, <2>4, <3>1 DEF CommitOrder, IndInv, TypeOK
    <3>3. QED
      BY <2>1, <3>2
  <2>5. CASE CommitStatus(p)
    <3> DEFINE r == req[p]
    <3>1. /\ pc[p] = "commitStatus" /\ r \in StatusRequests /\ Acceptable(orders[r.order], r)
          /\ ValidStatusUpdate(r)
          /\ work[p] = Updated(orders[r.order], r.status, r.ref)
      BY <2>1, <2>5 DEF CommitStatus, IndInv, TypeOK, ReqType, StatusLabels, Undisturbed,
                        StatusUnchanged
    <3>2. r.order = id /\ orders'[id] = work[p]
      BY <2>1, <2>3, <2>5 DEF CommitStatus, IndInv, TypeOK
    <3>3. orders'[id].ref = IF r.ref = None THEN orders[id].ref ELSE r.ref
      BY <2>3, <3>1, <3>2, UpdatedOrder
    <3>4. r.ref = Blank
      BY <2>1, <3>1, <3>3 DEF StatusRequests, PartnerOrderIds, NotBlank
    <3>5. QED
      BY <3>1, <3>2, <3>4
  <2>6. QED
    BY <2>2, <2>4, <2>5
<1>2. QED
  BY <1>1, InductiveInvariant, PTL DEF Spec, NumberLostOnlyToBlanks

(***************************************************************************)
(* Deadlocks.                                                              *)
(***************************************************************************)

\* A transaction holds no lock it has not come to yet.
HeldAtMost(p) ==
  LET r == req[p] IN
  /\ pc[p] \in {"idle", "lockCart", "deleteLine", "lockKey", "lockRestaurant", "lockOrder"} =>
       held[p] = {}
  /\ pc[p] \in {"readItem", "checkMixed", "upsertLine", "updateLine"} =>
       held[p] \subseteq {CartLock(r.cart)}
  /\ pc[p] \in {"touchCart", "commitCart"} =>
       held[p] \subseteq {CartLock(r.cart), LineLock(r.cart, r.item)}
  /\ pc[p] = "lockBasket" => held[p] \subseteq {KeyLock(r.key)}
  /\ pc[p] \in {"findOrder", "replay", "readItems", "insertOrder", "commitOrder"} =>
       held[p] \subseteq {KeyLock(r.key), CartLock(r.cart)}
  /\ pc[p] \in {"upsertItems", "deactivate", "commitCatalog"} =>
       held[p] \subseteq {RestaurantLock(r.restaurant)}
  /\ pc[p] \in {"updateOrder", "commitStatus"} => held[p] \subseteq {OrderLock(r.order)}

NothingHeldEarly == \A p \in Procs : HeldAtMost(p)

\* The step is p's alone.
OthersHold(p) ==
  \A q \in Procs \ {p} : pc'[q] = pc[q] /\ req'[q] = req[q] /\ held'[q] = held[q]

LEMMA FinishHolds ==
  ASSUME TypeOK, NEW p \in Procs, Finish(p)
  PROVE  OthersHold(p) /\ HeldAtMost(p)'
<1>1. pc'[p] = "idle" /\ held'[p] = {} /\ OthersHold(p)
  BY DEF Finish, Goto, TypeOK, OthersHold
<1>2. QED
  BY <1>1 DEF HeldAtMost

LEMMA BeginHolds ==
  ASSUME TypeOK, NEW p \in Procs, NEW r, HeldAtMost(p),
         NEW label \in {"lockCart", "deleteLine", "lockKey", "lockRestaurant", "lockOrder"},
         Begin(p, r, label)
  PROVE  OthersHold(p) /\ HeldAtMost(p)'
<1>1. pc'[p] = label /\ held'[p] = {} /\ OthersHold(p)
  BY DEF Begin, Goto, TypeOK, OthersHold, HeldAtMost
<1>2. QED
  BY <1>1 DEF HeldAtMost

LEMMA AcquireHolds ==
  ASSUME TypeOK, NEW p \in Procs, NEW label, NEW lock,
         Acquire(p, lock), Goto(p, label), UNCHANGED req
  PROVE  OthersHold(p) /\ pc'[p] = label /\ held'[p] = held[p] \cup {lock} /\ req'[p] = req[p]
  BY DEF Acquire, Goto, TypeOK, OthersHold

LEMMA StatementHolds ==
  ASSUME TypeOK, NEW p \in Procs, NEW label, Goto(p, label), UNCHANGED <<req, held>>
  PROVE  OthersHold(p) /\ pc'[p] = label /\ held'[p] = held[p] /\ req'[p] = req[p]
  BY DEF Goto, TypeOK, OthersHold

LEMMA CartItemHolds ==
  ASSUME TypeOK, NEW p \in Procs, HeldAtMost(p), CartItemStep(p)
  PROVE  OthersHold(p) /\ HeldAtMost(p)'
<1>1. CASE BeginCartItem(p)
  BY <1>1, BeginHolds DEF BeginCartItem
<1>2. CASE Rollback(p) \/ CommitCart(p)
  BY <1>2, FinishHolds DEF Rollback, CommitCart
<1>3. CASE LockCart(p) /\ ~Rollback(p)
  BY <1>3, AcquireHolds DEF LockCart, HeldAtMost
<1>4. CASE (ReadItem(p) \/ CheckMixed(p)) /\ ~Rollback(p)
  <2>1. PICK label \in {"checkMixed", "updateLine", "upsertLine"} :
          /\ pc[p] \in {"readItem", "checkMixed"}
          /\ Goto(p, label)
          /\ UNCHANGED <<req, held>>
    BY <1>4 DEF ReadItem, CheckMixed
  <2>2. QED
    BY <2>1, StatementHolds DEF HeldAtMost
<1>5. CASE (UpsertLine(p) \/ UpdateLine(p) \/ DeleteLine(p)) /\ ~Rollback(p)
  <2>1. /\ pc[p] \in {"upsertLine", "updateLine", "deleteLine"}
        /\ Acquire(p, LineLock(req[p].cart, req[p].item))
        /\ Goto(p, "touchCart")
        /\ UNCHANGED req
    BY <1>5 DEF UpsertLine, UpdateLine, DeleteLine
  <2>2. QED
    BY <2>1, AcquireHolds DEF HeldAtMost
<1>6. CASE TouchCart(p)
  BY <1>6, AcquireHolds DEF TouchCart, HeldAtMost
<1>7. QED
  BY <1>1, <1>2, <1>3, <1>4, <1>5, <1>6 DEF CartItemStep

LEMMA CheckoutHolds ==
  ASSUME TypeOK, NEW p \in Procs, HeldAtMost(p), CheckoutStep(p)
  PROVE  OthersHold(p) /\ HeldAtMost(p)'
<1>1. CASE BeginCheckout(p)
  BY <1>1, BeginHolds DEF BeginCheckout
<1>2. CASE Rollback(p) \/ Replay(p) \/ CommitOrder(p)
  BY <1>2, FinishHolds DEF Rollback, Replay, CommitOrder
<1>3. CASE LockKey(p)
  BY <1>3, AcquireHolds DEF LockKey, HeldAtMost
<1>4. CASE LockBasket(p) /\ ~Rollback(p)
  BY <1>4, AcquireHolds DEF LockBasket, HeldAtMost
<1>5. CASE (FindOrder(p) \/ ReadItems(p) \/ InsertOrder(p)) /\ ~Rollback(p)
  <2>1. PICK label \in {"readItems", "replay", "insertOrder", "commitOrder"} :
          /\ pc[p] \in {"findOrder", "readItems", "insertOrder"}
          /\ Goto(p, label)
          /\ UNCHANGED <<req, held>>
    BY <1>5 DEF FindOrder, ReadItems, InsertOrder
  <2>2. QED
    BY <2>1, StatementHolds DEF HeldAtMost
<1>6. QED
  BY <1>1, <1>2, <1>3, <1>4, <1>5 DEF CheckoutStep

LEMMA CatalogHolds ==
  ASSUME TypeOK, NEW p \in Procs, HeldAtMost(p), CatalogStep(p)
  PROVE  OthersHold(p) /\ HeldAtMost(p)'
<1>1. CASE BeginCatalog(p)
  BY <1>1, BeginHolds DEF BeginCatalog
<1>2. CASE CommitCatalog(p)
  BY <1>2, FinishHolds DEF CommitCatalog
<1>3. CASE LockRestaurant(p)
  BY <1>3, AcquireHolds DEF LockRestaurant, HeldAtMost
<1>4. CASE UpsertItems(p) \/ Deactivate(p)
  <2>1. PICK label \in {"deactivate", "commitCatalog"} :
          /\ pc[p] \in {"upsertItems", "deactivate"}
          /\ Goto(p, label)
          /\ UNCHANGED <<req, held>>
    BY <1>4 DEF UpsertItems, Deactivate
  <2>2. QED
    BY <2>1, StatementHolds DEF HeldAtMost
<1>5. QED
  BY <1>1, <1>2, <1>3, <1>4 DEF CatalogStep

LEMMA StatusHolds ==
  ASSUME TypeOK, NEW p \in Procs, HeldAtMost(p), StatusStep(p)
  PROVE  OthersHold(p) /\ HeldAtMost(p)'
<1>1. CASE BeginStatus(p)
  BY <1>1, BeginHolds DEF BeginStatus
<1>2. CASE Rollback(p) \/ CommitStatus(p)
  BY <1>2, FinishHolds DEF Rollback, CommitStatus
<1>3. CASE (LockOrder(p) \/ UpdateOrder(p)) /\ ~Rollback(p)
  <2>1. PICK label \in {"updateOrder", "commitStatus"} :
          /\ pc[p] \in {"lockOrder", "updateOrder"}
          /\ Acquire(p, OrderLock(req[p].order))
          /\ Goto(p, label)
          /\ UNCHANGED req
    BY <1>3 DEF LockOrder, UpdateOrder
  <2>2. QED
    BY <2>1, AcquireHolds DEF HeldAtMost
<1>4. QED
  BY <1>1, <1>2, <1>3 DEF StatusStep

LEMMA NextHolds ==
  ASSUME TypeOK, NothingHeldEarly, [Next]_vars
  PROVE  NothingHeldEarly'
<1>1. CASE UNCHANGED vars \/ \E c \in Carts : InsertCart(c)
  BY <1>1 DEF vars, InsertCart, HeldAtMost, NothingHeldEarly
<1>2. ASSUME NEW p \in Procs,
             CartItemStep(p) \/ CheckoutStep(p) \/ CatalogStep(p) \/ StatusStep(p) \/ Abort(p)
      PROVE  NothingHeldEarly'
  <2>1. OthersHold(p) /\ HeldAtMost(p)'
    BY <1>2, CartItemHolds, CheckoutHolds, CatalogHolds, StatusHolds, FinishHolds
    DEF Abort, Rollback, NothingHeldEarly
  <2>2. ASSUME NEW q \in Procs \ {p} PROVE HeldAtMost(q)'
    BY <2>1, <2>2 DEF OthersHold, HeldAtMost, NothingHeldEarly
  <2>3. QED
    BY <2>1, <2>2 DEF NothingHeldEarly
<1>3. QED
  BY <1>1, <1>2 DEF Next

\* Nobody who deletes nothing waits for itself, so the locks form an order:
\* a line's holder waits for nobody, a cart's only for a line, a key's only for
\* a cart; a restaurant's or an order's holder waits for nobody.
LEMMA LocksAreOrdered ==
  ASSUME IndInv, NothingHeldEarly, NEW S \in SUBSET Procs, Deadlocked(S)
  PROVE  \E p \in S : req[p].op = "delete"
<1>1. SUFFICES ASSUME \A p \in S : req[p].op # "delete" PROVE FALSE
  OBVIOUS
<1>2. /\ TypeOK /\ MutualExclusion
      /\ \A p \in S : /\ p \in Procs /\ pc[p] \in Labels
                      /\ HeldAtMost(p) /\ LocksHeld(p) /\ ReqType(p)
  BY DEF IndInv, TypeOK, Undisturbed, NothingHeldEarly
<1>3. ASSUME NEW p \in S
      PROVE  \E q \in S : \E lock \in held[q] : Wants(p, lock) /\ lock \notin held[p]
  BY <1>2 DEF Deadlocked, WaitsFor, MutualExclusion
<1>4. ASSUME NEW p \in S PROVE pc[p] \notin {"touchCart", "deleteLine", "updateOrder"}
  BY <1>1, <1>2, <1>3 DEF ReqType, LocksHeld, Wants
<1>5. ASSUME NEW p \in S
      PROVE  pc[p] \in {"lockCart", "lockBasket", "upsertLine", "updateLine", "lockKey",
                        "lockRestaurant", "lockOrder"}
  BY <1>3, <1>4 DEF Wants
<1>6. ASSUME NEW p \in S PROVE pc[p] \notin {"upsertLine", "updateLine"}
  <2>1. SUFFICES ASSUME pc[p] \in {"upsertLine", "updateLine"} PROVE FALSE
    OBVIOUS
  <2>2. PICK q \in S : LineLock(req[p].cart, req[p].item) \in held[q]
    BY <1>3, <2>1 DEF Wants
  <2>3. QED
    BY <1>2, <1>5, <2>2 DEF HeldAtMost, LineLock, CartLock, KeyLock
<1>7. ASSUME NEW p \in S PROVE pc[p] \notin {"lockCart", "lockBasket"}
  <2>1. SUFFICES ASSUME pc[p] \in {"lockCart", "lockBasket"} PROVE FALSE
    OBVIOUS
  <2>2. PICK q \in S : CartLock(req[p].cart) \in held[q]
    BY <1>3, <2>1 DEF Wants
  <2>3. QED
    BY <1>2, <1>5, <1>6, <2>2 DEF HeldAtMost, CartLock, KeyLock
<1>8. \A p \in S : held[p] = {}
  BY <1>2, <1>5, <1>6, <1>7 DEF HeldAtMost
<1>9. QED
  BY <1>3, <1>8 DEF Deadlocked

\* For any number of requests: whenever some wait for each other in a circle, a
\* DeleteItem is among them (carts.go:260-277 against 125-152 and 196-216,
\* orders.go:90-97).
THEOREM OnlyDeleteDeadlocks == Spec => []DeadlockNeedsDelete
<1>1. Init => NothingHeldEarly
  BY DEF Init, InitDatabase, HeldAtMost, NothingHeldEarly
<1>2. IndInv /\ NothingHeldEarly /\ [Next]_vars => NothingHeldEarly'
  BY NextHolds DEF IndInv
<1>3. IndInv /\ NothingHeldEarly => DeadlockNeedsDelete
  BY LocksAreOrdered DEF DeadlockNeedsDelete
<1>4. QED
  BY <1>1, <1>2, <1>3, InductiveInvariant, PTL DEF Spec

================================================================================
