----------------------------- MODULE ConnectionPool ----------------------------
(***************************************************************************)
(* The connection pool of one API process (openDB in cmd/api/main.go) as   *)
(* the models use it: a transaction keeps a connection from its BeginTx to *)
(* its end and takes the locks of its rows one after another meanwhile, a  *)
(* query keeps one until its rows are read, and most operations need       *)
(* several connections in turn.  What the statements do is in Ordering;    *)
(* here they only wait.                                                    *)
(***************************************************************************)
EXTENDS FiniteSets

CONSTANTS
  Procs,                   \* requests being served
  Conns,                   \* MaxOpenConns connections, 25 by default
  Keys, Carts, Items, Orders, Restaurants,
  None

KeyLock(k) == [table |-> "idempotency", row |-> <<k>>]
CartLock(c) == [table |-> "carts", row |-> <<c>>]
LineLock(c, i) == [table |-> "cart_items", row |-> <<c, i>>]
OrderLock(o) == [table |-> "orders", row |-> <<o>>]
RestaurantLock(r) == [table |-> "restaurants", row |-> <<r>>]
MenuLock(r, i) == [table |-> "menu_items", row |-> <<r, i>>]

Locks ==
  {KeyLock(k) : k \in Keys}
  \cup {CartLock(c) : c \in Carts}
  \cup {LineLock(c, i) : c \in Carts, i \in Items}
  \cup {OrderLock(o) : o \in Orders}
  \cup {RestaurantLock(r) : r \in Restaurants}
  \cup {MenuLock(r, i) : r \in Restaurants, i \in Items}

\* A transaction waits for one lock first, then for the rest one by one.
Tx(op, first, rest) == [op |-> op, first |-> first, rest |-> rest]

\* AddItem and UpdateItem
Changes == {Tx("change", CartLock(c), {LineLock(c, i)}) : c \in Carts, i \in Items}

\* DeleteItem
Deletes == {Tx("delete", LineLock(c, i), {CartLock(c)}) : c \in Carts, i \in Items}

\* CreateFromCart
Checkouts == {Tx("checkout", KeyLock(k), {CartLock(c)}) : k \in Keys, c \in Carts}

\* UpdateStatusForPartner
StatusUpdates == {Tx("status", OrderLock(o), {}) : o \in Orders}

\* Mutant: the items are written before the restaurant.
ItemsFirst ==
  {Tx("catalog", MenuLock(r, i), {MenuLock(r, j) : j \in Items \ {i}} \cup {RestaurantLock(r)}) :
     r \in Restaurants, i \in Items}

\* CatalogModel.Update: the restaurant, then the items in any order, as the
\* partner lists them and as the last UPDATE finds the others.
CatalogUpdates ==
  {Tx("catalog", RestaurantLock(r), {MenuLock(r, i) : i \in listed}) :
     r \in Restaurants, listed \in SUBSET Items}

Transactions == Changes \cup Deletes \cup Checkouts \cup StatusUpdates \cup CatalogUpdates

ASSUME PoolAssumption == Conns # {} /\ None \notin Procs \cup Locks \cup Transactions

VARIABLES
  at,      \* what each request does next, "idle" when it is answered
  tx,      \* its transaction, None without one
  want,    \* the lock its running statement takes, None without one
  owner,   \* who uses each connection
  locks    \* the locks each transaction holds

poolVars == <<at, tx, want, owner, locks>>

Steps == {"idle", "begin", "lock", "commit", "query", "scan", "queryItems", "scanItems"}

PoolInit ==
  /\ at = [p \in Procs |-> "idle"]
  /\ tx = [p \in Procs |-> None]
  /\ want = [p \in Procs |-> None]
  /\ owner = [c \in Conns |-> None]
  /\ locks = [p \in Procs |-> {}]

Owned(p) == {c \in Conns : owner[c] = p}

Freed(p) == [c \in Conns |-> IF owner[c] = p THEN None ELSE owner[c]]

Goes(p, steps) == \E s \in steps : at' = [at EXCEPT ![p] = s]

\* A transaction, or an operation that only reads.
Accept(p) ==
  /\ at[p] = "idle"
  /\ \/ Goes(p, {"begin"}) /\ \E t \in Transactions : tx' = [tx EXCEPT ![p] = t]
     \/ Goes(p, {"query"}) /\ UNCHANGED tx
  /\ UNCHANGED <<want, owner, locks>>

\* database/sql hands out a free connection, or makes the caller wait.
Connect(p, step) ==
  \E c \in Conns :
    /\ owner[c] = None
    /\ owner' = [owner EXCEPT ![c] = p]
    /\ Goes(p, {step})
    /\ UNCHANGED <<tx, locks>>

\* BeginTx; the next statement takes the first lock.
BeginTx(p) ==
  /\ at[p] = "begin"
  /\ Connect(p, "lock")
  /\ want' = [want EXCEPT ![p] = tx[p].first]

\* The statement returns once the advisory or row lock it takes is free, and
\* the next one takes another, until the transaction has all of its rows.
Lock(p) ==
  /\ at[p] = "lock"
  /\ \A q \in Procs \ {p} : want[p] \notin locks[q]
  /\ locks' = [locks EXCEPT ![p] = @ \cup {want[p]}]
  /\ \/ \E l \in tx[p].rest \ locks'[p] :
          want' = [want EXCEPT ![p] = l] /\ UNCHANGED at
     \/ /\ tx[p].rest \subseteq locks'[p]
        /\ want' = [want EXCEPT ![p] = None]
        /\ Goes(p, {"commit"})
  /\ UNCHANGED <<tx, owner>>

\* What each operation goes on with: CatalogModel.Update and a new order are
\* answered from the transaction, a repeated checkout and the rest read.
AfterCommit ==
  [change |-> {"query"}, delete |-> {"query"}, status |-> {"query"},
   checkout |-> {"idle", "query"}, catalog |-> {"idle"}]

\* The transaction ends and gives everything back.
EndTx(p) ==
  /\ owner' = Freed(p)
  /\ locks' = [locks EXCEPT ![p] = {}]
  /\ tx' = [tx EXCEPT ![p] = None]
  /\ want' = [want EXCEPT ![p] = None]

\* Mutant: the answer is read before the transaction ends.
CommitLater(p) ==
  /\ at[p] = "commit"
  /\ Goes(p, AfterCommit[tx[p].op])
  /\ IF at'[p] = "idle" THEN EndTx(p) ELSE UNCHANGED <<tx, want, owner, locks>>

Commit(p) ==
  /\ at[p] = "commit"
  /\ EndTx(p)
  /\ Goes(p, AfterCommit[tx[p].op])

\* The first query of Get, GetForPartner, GetAllForPartner, GetAll or a menu.
Query(p) == at[p] = "query" /\ Connect(p, "scan") /\ UNCHANGED want

\* Mutant: the first query's rows stay open during the second.
ScanAndKeep(p) ==
  /\ at[p] = "scan"
  /\ Goes(p, {"idle", "queryItems"})
  /\ owner' = IF at'[p] = "idle" THEN Freed(p) ELSE owner
  /\ UNCHANGED <<tx, want, locks>>

\* Scan after QueryRow, or rows.Close, before there is a second query.
Scan(p) ==
  /\ at[p] = "scan"
  /\ owner' = Freed(p)
  /\ Goes(p, {"idle", "queryItems"})
  /\ UNCHANGED <<tx, want, locks>>

\* getItems, getItemsForOrders
QueryItems(p) == at[p] = "queryItems" /\ Connect(p, "scanItems") /\ UNCHANGED want

ScanItems(p) ==
  /\ at[p] = "scanItems"
  /\ owner' = Freed(p)
  /\ Goes(p, {"idle"})
  /\ UNCHANGED <<tx, want, locks>>

\* An early return, an error, PostgreSQL's deadlock detector or the end of the
\* context: everything is given back.
Fail(p) == at[p] # "idle" /\ EndTx(p) /\ Goes(p, {"idle"})

Connects(p) == BeginTx(p) \/ Query(p) \/ QueryItems(p)
Ends(p) == Commit(p) \/ Scan(p) \/ ScanItems(p)

PoolNext == \E p \in Procs : Accept(p) \/ Connects(p) \/ Lock(p) \/ Ends(p) \/ Fail(p)

PoolSpec == PoolInit /\ [][PoolNext]_poolVars

\* Each of the two has a lock the other one waits for.
Crossed(p, q) ==
  /\ at[p] = "lock" /\ want[p] \in locks[q]
  /\ at[q] = "lock" /\ want[q] \in locks[p]

\* PostgreSQL's detector fails one of the two.
BreakUp(p) == (\E q \in Procs : Crossed(p, q)) /\ Fail(p)

\* database/sql serves its waiters, and PostgreSQL those of a lock, without
\* leaving one out for ever, what needs no waiting is done, and a pair that
\* waits for each other is detected; no deadline is relied on.
FairPoolSpec ==
  /\ PoolSpec
  /\ \A p \in Procs : SF_poolVars(Connects(p) \/ Lock(p) \/ Ends(p) \/ BreakUp(p))

(***************************************************************************)
(* Properties.                                                             *)
(***************************************************************************)

Connecting(p) == at[p] \in {"begin", "query", "queryItems"}

\* What p waits for is in the hands of S.
StuckIn(p, S) ==
  \/ Connecting(p) /\ \A c \in Conns : owner[c] \in S
  \/ at[p] = "lock" /\ \E q \in S \ {p} : want[p] \in locks[q]

\* Requests can wait for each other in a circle, but only over one cart:
\* whenever everybody in a group waits for what the group keeps, connections
\* included, a DeleteItem in it has a line and waits for the cart (carts.go:264,
\* 277) that an AddItem or UpdateItem has, which waits for that line
\* (carts.go:125, 152).  So an exhausted pool adds no circle of its own that no
\* detector would see: answers are read after the commit (carts.go:174) and
\* items after the orders' rows are closed (orders.go:229, 355); and catalog
\* updates never form one, in whatever order they list their items
\* (catalog.go:34, 42).
StuckOnlyOverALine ==
  \A S \in SUBSET Procs :
    S # {} /\ (\A p \in S : StuckIn(p, S)) =>
      \E d, a \in S : Crossed(d, a) /\ tx[d].op = "delete" /\ tx[a].op = "change"

\* Every request ends although none is ever timed out, as long as PostgreSQL
\* breaks up the pairs of StuckOnlyOverALine.
RequestsEnd == \A p \in Procs : at[p] # "idle" ~> at[p] = "idle"

\* Everybody uses connections and locks only as long as the step says, the
\* first lock of a transaction is there before the others are asked for, and
\* no two transactions have the same one.
PoolInv ==
  /\ at \in [Procs -> Steps]
  /\ tx \in [Procs -> Transactions \cup {None}]
  /\ want \in [Procs -> Locks \cup {None}]
  /\ owner \in [Conns -> Procs \cup {None}]
  /\ locks \in [Procs -> SUBSET Locks]
  /\ \A p \in Procs :
       /\ at[p] = "idle" \/ Connecting(p) => Owned(p) = {}
       /\ at[p] \in {"begin", "lock", "commit"} => tx[p] \in Transactions
       /\ at[p] \notin {"lock", "commit"} => locks[p] = {}
       /\ at[p] = "lock" =>
            \/ want[p] = tx[p].first /\ locks[p] = {}
            \/ /\ want[p] \in tx[p].rest \ locks[p]
               /\ tx[p].first \in locks[p]
               /\ locks[p] \subseteq {tx[p].first} \cup tx[p].rest
       /\ \A q \in Procs \ {p} : locks[p] \cap locks[q] = {}

================================================================================
