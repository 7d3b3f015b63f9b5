------------------------------- MODULE Database --------------------------------
(***************************************************************************)
(* PostgreSQL as the models use it (internal/models/*.go): transactions at *)
(* READ COMMITTED that issue one statement at a time.  A statement sees    *)
(* the committed tables; what a transaction writes stays in work[p] until  *)
(* its commit publishes it; a row or advisory lock is held until the       *)
(* transaction ends, one way or the other.                                 *)
(*                                                                         *)
(* A process is one HTTP request being served by some instance of the API. *)
(* Instances share nothing but the database, so how many there are and     *)
(* which of them serves a request makes no difference.                     *)
(***************************************************************************)
EXTENDS Domain

CONSTANTS
  Procs,        \* request-serving goroutines, of all instances
  Requests,     \* the requests clients and partners may send, any number of times
  InitialMenu,  \* what catalog syncs have left before the run begins
  Hashes,       \* the values of hashtextextended(key, 0)
  HashOf        \* the advisory lock number of each key

VARIABLES
  menu,    \* committed rows of menu_items
  carts,   \* ids of the committed rows of carts
  lines,   \* committed rows of cart_items
  orders,  \* committed rows of orders and order_items
  pc,      \* the statement each process issues next, "idle" between requests
  req,     \* the request each process serves
  held,    \* the locks each process's transaction holds
  work,    \* what its transaction has read or written and needs again
  answers  \* the orders checkout has answered with, for every request so far

tables == <<menu, carts, lines, orders>>
vars == <<menu, carts, lines, orders, pc, req, held, work, answers>>

CartRequests == [op : {"add", "update"}, cart : Carts, item : Items, quantity : Nat]
DeleteRequests == [op : {"delete"}, cart : Carts, item : Items]
CheckoutRequests == [op : {"checkout"}, key : Keys, cart : Carts, customer : Customers]
CatalogRequests == [op : {"catalog"}, restaurant : Restaurants, listing : Menu]
StatusRequests == [op : {"status"}, partner : Restaurants, order : OrderIds,
                   status : Statuses, ref : PartnerOrderIds, version : Nat]

ASSUME RequestAssumption ==
  \A r \in Requests :
    \/ r \in CartRequests
    \/ r \in DeleteRequests
    \/ r \in CheckoutRequests
    \/ /\ r \in CatalogRequests
       /\ \A i \in Items : r.listing[i] # None => RestaurantOf[i] = r.restaurant
    \/ r \in StatusRequests

ASSUME DatabaseAssumption ==
  /\ InitialMenu \in Menu
  /\ HashOf \in [Keys -> Hashes]
  /\ None \notin Requests
  /\ None \notin CartRequests \cup DeleteRequests \cup CheckoutRequests
                   \cup CatalogRequests \cup StatusRequests

(***************************************************************************)
(* Locks: rows selected FOR UPDATE or written, and the advisory lock.      *)
(***************************************************************************)
KeyLock(k)        == <<"key", HashOf[k]>>
CartLock(c)       == <<"cart", c>>
LineLock(c, i)    == <<"line", c, i>>
RestaurantLock(r) == <<"restaurant", r>>
OrderLock(id)     == <<"order", id>>

Locks ==
  {KeyLock(k) : k \in Keys} \cup {CartLock(c) : c \in Carts}
    \cup {LineLock(c, i) : c \in Carts, i \in Items}
    \cup {RestaurantLock(r) : r \in Restaurants}
    \cup {OrderLock(id) : id \in OrderIds}

\* No other transaction holds the lock: one that does makes p wait.
Free(p, lock) == \A q \in Procs \ {p} : lock \notin held[q]

Acquire(p, lock) ==
  /\ Free(p, lock)
  /\ held' = [held EXCEPT ![p] = @ \cup {lock}]

Goto(p, label) == pc' = [pc EXCEPT ![p] = label]

Keep(p, value) == work' = [work EXCEPT ![p] = value]

Placed == {id \in OrderIds : orders[id] # None}

(***************************************************************************)
(* Transactions.                                                           *)
(***************************************************************************)
Begin(p, r, label) ==
  /\ pc[p] = "idle"
  /\ Goto(p, label)
  /\ req' = [req EXCEPT ![p] = r]
  /\ UNCHANGED <<menu, carts, lines, orders, held, work, answers>>

\* The end of the transaction: its locks are gone, the goroutine is free.
Finish(p) ==
  /\ Goto(p, "idle")
  /\ req' = [req EXCEPT ![p] = None]
  /\ held' = [held EXCEPT ![p] = {}]
  /\ Keep(p, None)

\* The deferred tx.Rollback(), after an error return.
Rollback(p) == Finish(p) /\ UNCHANGED <<tables, answers>>

\* The transaction fails for a reason of its own: the context's three or five
\* seconds are over, the connection or the instance is lost, or PostgreSQL
\* picked it as the victim of a deadlock.  Nothing of it stays.
Abort(p) == pc[p] # "idle" /\ Rollback(p)

InitDatabase ==
  /\ menu = InitialMenu
  /\ carts = {}
  /\ lines = [c \in Carts |-> EmptyContents]
  /\ orders = [id \in OrderIds |-> None]
  /\ pc = [p \in Procs |-> "idle"]
  /\ req = [p \in Procs |-> None]
  /\ held = [p \in Procs |-> {}]
  /\ work = [p \in Procs |-> None]
  /\ answers = {}

================================================================================
