------------------------- MODULE ConnectionPoolProofs --------------------------
(***************************************************************************)
(* Proofs about ConnectionPool: who uses which connection and which lock,  *)
(* and which requests can wait for each other, for any number of requests, *)
(* connections, keys, carts, items, orders and restaurants.                *)
(***************************************************************************)
EXTENDS ConnectionPool, TLAPS

\* Everything a transaction may wait for is a lock.
LEMMA TransactionLocks ==
  ASSUME NEW t \in Transactions
  PROVE  t.first \in Locks /\ t.rest \subseteq Locks /\ t.op \in DOMAIN AfterCommit
<1>1. CASE t \in Changes
  BY <1>1 DEF Changes, Tx, Locks, AfterCommit
<1>2. CASE t \in Deletes
  BY <1>2 DEF Deletes, Tx, Locks, AfterCommit
<1>3. CASE t \in Checkouts
  BY <1>3 DEF Checkouts, Tx, Locks, AfterCommit
<1>4. CASE t \in StatusUpdates
  BY <1>4 DEF StatusUpdates, Tx, Locks, AfterCommit
<1>5. CASE t \in CatalogUpdates
  BY <1>5 DEF CatalogUpdates, Tx, Locks, AfterCommit
<1>6. QED
  BY <1>1, <1>2, <1>3, <1>4, <1>5 DEF Transactions

LEMMA InitEstablishes == PoolInit => PoolInv
  BY PoolAssumption DEF PoolInit, PoolInv, Steps, Connecting, Owned

\* Giving everything back keeps the invariant.
LEMMA FreeingPreserves ==
  ASSUME PoolInv, NEW p \in Procs, NEW s \in {"idle", "query", "queryItems"},
         at' = [at EXCEPT ![p] = s], owner' = Freed(p),
         locks' = [locks EXCEPT ![p] = {}],
         tx' \in [Procs -> Transactions \cup {None}],
         want' \in [Procs -> Locks \cup {None}],
         \A q \in Procs \ {p} : tx'[q] = tx[q] /\ want'[q] = want[q]
  PROVE  PoolInv'
<1>1. /\ at' \in [Procs -> Steps]
      /\ owner' \in [Conns -> Procs \cup {None}]
      /\ locks' \in [Procs -> SUBSET Locks]
  BY DEF PoolInv, Steps, Freed
<1>2. \A q \in Procs \ {p} : Owned(q)' = Owned(q) /\ at'[q] = at[q] /\ locks'[q] = locks[q]
  BY <1>1, PoolAssumption DEF PoolInv, Owned, Freed
<1>3. Owned(p)' = {} /\ at'[p] = s /\ locks'[p] = {}
  BY <1>1, PoolAssumption DEF PoolInv, Owned, Freed
<1>4. \A q, r \in Procs : q # r => locks'[q] \cap locks'[r] = {}
  BY <1>2, <1>3 DEF PoolInv
<1>5. \A q \in Procs \ {p} :
        /\ at'[q] = "idle" \/ Connecting(q)' => Owned(q)' = {}
        /\ at'[q] \in {"begin", "lock", "commit"} => tx'[q] \in Transactions
        /\ at'[q] \notin {"lock", "commit"} => locks'[q] = {}
        /\ at'[q] = "lock" =>
             \/ want'[q] = tx'[q].first /\ locks'[q] = {}
             \/ /\ want'[q] \in tx'[q].rest \ locks'[q]
                /\ tx'[q].first \in locks'[q]
                /\ locks'[q] \subseteq {tx'[q].first} \cup tx'[q].rest
  BY <1>2 DEF PoolInv, Connecting
<1>6. /\ at'[p] = "idle" \/ Connecting(p)' => Owned(p)' = {}
      /\ at'[p] \notin {"begin", "lock", "commit"}
  BY <1>3
<1>7. QED
  BY <1>1, <1>3, <1>4, <1>5, <1>6 DEF PoolInv

LEMMA ConnectPreserves ==
  ASSUME PoolInv, NEW p \in Procs, Connects(p)
  PROVE  PoolInv'
<1>1. PICK c \in Conns, s \in {"lock", "scan", "scanItems"} :
        /\ owner[c] = None
        /\ owner' = [owner EXCEPT ![c] = p]
        /\ at' = [at EXCEPT ![p] = s]
        /\ UNCHANGED <<tx, locks>>
        /\ IF s = "lock" THEN at[p] = "begin" /\ want' = [want EXCEPT ![p] = tx[p].first]
           ELSE at[p] \in {"query", "queryItems"} /\ want' = want
  BY DEF Connects, BeginTx, Query, QueryItems, Connect, Goes
<1>2. /\ at' \in [Procs -> Steps]
      /\ owner' \in [Conns -> Procs \cup {None}]
  BY <1>1 DEF PoolInv, Steps
<1>3. s = "lock" => tx[p] \in Transactions
  BY <1>1 DEF PoolInv
<1>4. want' \in [Procs -> Locks \cup {None}]
  BY <1>1, <1>3, TransactionLocks DEF PoolInv
<1>5. \A q \in Procs \ {p} : Owned(q)' = Owned(q) /\ at'[q] = at[q] /\ want'[q] = want[q]
  BY <1>1, <1>2, PoolAssumption DEF PoolInv, Owned
<1>6. at'[p] = s /\ locks[p] = {} /\ (s = "lock" => want'[p] = tx[p].first)
  BY <1>1 DEF PoolInv
<1>7. QED
  BY <1>1, <1>2, <1>3, <1>4, <1>5, <1>6 DEF PoolInv, Connecting

LEMMA AcceptPreserves == ASSUME PoolInv, NEW p \in Procs, Accept(p) PROVE PoolInv'
  BY DEF PoolInv, Accept, Goes, Connecting, Owned, Steps

LEMMA LockPreserves == ASSUME PoolInv, NEW p \in Procs, Lock(p) PROVE PoolInv'
<1>1. /\ tx[p] \in Transactions
      /\ tx[p].first \in Locks
      /\ tx[p].rest \subseteq Locks
      /\ want[p] \in {tx[p].first} \cup tx[p].rest
  BY TransactionLocks DEF PoolInv, Lock
<1>2. /\ locks' = [locks EXCEPT ![p] = @ \cup {want[p]}]
      /\ \A q \in Procs \ {p} : want[p] \notin locks[q]
      /\ UNCHANGED <<tx, owner>>
      /\ at[p] = "lock"
  BY DEF Lock
<1>3. /\ locks' \in [Procs -> SUBSET Locks]
      /\ locks'[p] = locks[p] \cup {want[p]}
      /\ \A q \in Procs \ {p} : locks'[q] = locks[q]
  BY <1>1, <1>2 DEF PoolInv
<1>4. \A q, r \in Procs : q # r => locks'[q] \cap locks'[r] = {}
  BY <1>2, <1>3 DEF PoolInv
<1>5. tx[p].first \in locks'[p] /\ locks'[p] \subseteq {tx[p].first} \cup tx[p].rest
  BY <1>1, <1>2, <1>3 DEF PoolInv
<1>6. CASE \E l \in tx[p].rest \ locks'[p] : want' = [want EXCEPT ![p] = l] /\ UNCHANGED at
  <2>1. PICK l \in tx[p].rest \ locks'[p] : want' = [want EXCEPT ![p] = l]
    BY <1>6
  <2>2. want' \in [Procs -> Locks \cup {None}] /\ want'[p] = l
        /\ \A q \in Procs \ {p} : want'[q] = want[q]
    BY <1>1, <2>1 DEF PoolInv
  <2>3. QED
    BY <1>1, <1>2, <1>3, <1>4, <1>5, <1>6, <2>2 DEF PoolInv, Connecting, Owned
<1>7. CASE want' = [want EXCEPT ![p] = None] /\ at' = [at EXCEPT ![p] = "commit"]
  <2>1. /\ at' \in [Procs -> Steps]
        /\ want' \in [Procs -> Locks \cup {None}]
        /\ at'[p] = "commit"
        /\ \A q \in Procs \ {p} : at'[q] = at[q] /\ want'[q] = want[q]
    BY <1>7 DEF PoolInv, Steps
  <2>2. QED
    BY <1>1, <1>2, <1>3, <1>4, <2>1 DEF PoolInv, Connecting, Owned
<1>8. QED
  BY <1>6, <1>7 DEF Lock, Goes

LEMMA EndTxPreserves ==
  ASSUME PoolInv, NEW p \in Procs, EndTx(p),
         NEW s \in {"idle", "query"}, at' = [at EXCEPT ![p] = s]
  PROVE  PoolInv'
<1>1. /\ tx' \in [Procs -> Transactions \cup {None}]
      /\ want' \in [Procs -> Locks \cup {None}]
      /\ \A q \in Procs \ {p} : tx'[q] = tx[q] /\ want'[q] = want[q]
  BY DEF EndTx, PoolInv
<1>2. QED
  BY <1>1, FreeingPreserves DEF EndTx

LEMMA EndPreserves == ASSUME PoolInv, NEW p \in Procs, Ends(p) \/ Fail(p) PROVE PoolInv'
<1>1. CASE Commit(p)
  <2>1. tx[p].op \in DOMAIN AfterCommit
    BY <1>1, TransactionLocks DEF Commit, PoolInv
  <2>2. AfterCommit[tx[p].op] \subseteq {"idle", "query"}
    BY <2>1 DEF AfterCommit
  <2>3. QED
    BY <1>1, <2>2, EndTxPreserves DEF Commit, Goes
<1>2. CASE Fail(p)
  BY <1>2, EndTxPreserves DEF Fail, Goes
<1>3. CASE Scan(p) \/ ScanItems(p)
  <2>1. PICK s \in {"idle", "queryItems"} : at' = [at EXCEPT ![p] = s]
    BY <1>3 DEF Scan, ScanItems, Goes
  <2>2. locks[p] = {} /\ locks' = locks /\ UNCHANGED <<tx, want>> /\ owner' = Freed(p)
    BY <1>3 DEF Scan, ScanItems, PoolInv
  <2>3. locks' = [locks EXCEPT ![p] = {}]
    BY <2>2 DEF PoolInv
  <2>4. /\ tx' \in [Procs -> Transactions \cup {None}]
        /\ want' \in [Procs -> Locks \cup {None}]
    BY <2>2 DEF PoolInv
  <2>5. QED
    BY <2>1, <2>2, <2>3, <2>4, FreeingPreserves
<1>4. QED
  BY <1>1, <1>2, <1>3 DEF Ends

\* Connections and locks are in the hands of those, and only those, whose
\* step is between the statement that took them and the one that gives them
\* back, and each lock in one hand (carts.go:113-162, orders.go:70-144,
\* 218-233).
THEOREM PoolInvariant == PoolSpec => []PoolInv
<1>1. ASSUME PoolInv, [PoolNext]_poolVars PROVE PoolInv'
  <2>1. CASE UNCHANGED poolVars
    BY <1>1, <2>1 DEF PoolInv, poolVars, Connecting, Owned
  <2>2. CASE PoolNext
    BY <1>1, <2>2, AcceptPreserves, ConnectPreserves, LockPreserves, EndPreserves DEF PoolNext
  <2>3. QED
    BY <1>1, <2>1, <2>2
<1>2. QED
  BY <1>1, InitEstablishes, PTL DEF PoolSpec

(***************************************************************************)
(* Who can be in a circle.                                                 *)
(***************************************************************************)

\* In a group where everybody is stuck, whoever has a lock has taken his first
\* one, misses another, and waits for somebody of the group who has it.
LEMMA HoldersWait ==
  ASSUME PoolInv, NEW S \in SUBSET Procs, \A p \in S : StuckIn(p, S),
         NEW p \in S, NEW l \in locks[p]
  PROVE  /\ at[p] = "lock"
         /\ tx[p] \in Transactions
         /\ want[p] \in tx[p].rest \ locks[p]
         /\ tx[p].first \in locks[p]
         /\ l \in {tx[p].first} \cup tx[p].rest
         /\ \E q \in S \ {p} : want[p] \in locks[q]
<1>1. at[p] \in {"lock", "commit"}
  BY DEF PoolInv
<1>2. at[p] = "lock" /\ \E q \in S \ {p} : want[p] \in locks[q]
  BY <1>1 DEF StuckIn, Connecting
<1>3. QED
  BY <1>2 DEF PoolInv

\* Somebody in a stuck group has a lock: those who only wait for connections
\* have none to wait for.
LEMMA SomebodyHoldsALock ==
  ASSUME PoolInv, NEW S \in SUBSET Procs, S # {}, \A p \in S : StuckIn(p, S)
  PROVE  \E p \in S : locks[p] # {}
<1>1. SUFFICES ASSUME \A p \in S : locks[p] = {} PROVE FALSE
  OBVIOUS
<1>2. \A p \in S : Connecting(p)
  BY <1>1 DEF StuckIn
<1>3. \A p \in S : Owned(p) = {}
  BY <1>2 DEF PoolInv
<1>4. PICK p \in S, c \in Conns : owner[c] \in S
  BY <1>2, PoolAssumption DEF StuckIn, Connecting
<1>5. QED
  BY <1>3, <1>4 DEF Owned

\* Which transactions lock a line, a cart as their second lock, or an item of
\* the menu.
LEMMA WhoLocksALine ==
  ASSUME NEW t \in Transactions, NEW c, NEW i,
         LineLock(c, i) \in {t.first} \cup t.rest
  PROVE  \/ t.op = "change" /\ t.first = CartLock(c)
         \/ t.op = "delete" /\ t.first = LineLock(c, i) /\ t.rest = {CartLock(c)}
<1>1. CASE t \in Changes
  BY <1>1 DEF Changes, Tx, CartLock, LineLock
<1>2. CASE t \in Deletes
  BY <1>2 DEF Deletes, Tx, CartLock, LineLock
<1>3. CASE t \in Checkouts \cup StatusUpdates \cup CatalogUpdates
  BY <1>3 DEF Checkouts, StatusUpdates, CatalogUpdates, Tx, KeyLock, CartLock, LineLock,
              OrderLock, RestaurantLock, MenuLock
<1>4. QED
  BY <1>1, <1>2, <1>3 DEF Transactions

LEMMA WhoLocksACart ==
  ASSUME NEW t \in Transactions, NEW c,
         CartLock(c) \in {t.first} \cup t.rest
  PROVE  \/ t.op = "change" /\ t.first = CartLock(c) /\ \E i : t.rest = {LineLock(c, i)}
         \/ t.rest = {CartLock(c)}
<1>1. CASE t \in Changes
  BY <1>1 DEF Changes, Tx, CartLock, LineLock
<1>2. CASE t \in Deletes
  BY <1>2 DEF Deletes, Tx, CartLock, LineLock
<1>3. CASE t \in Checkouts
  BY <1>3 DEF Checkouts, Tx, CartLock, KeyLock
<1>4. CASE t \in StatusUpdates \cup CatalogUpdates
  BY <1>4 DEF StatusUpdates, CatalogUpdates, Tx, CartLock, OrderLock, RestaurantLock, MenuLock
<1>5. QED
  BY <1>1, <1>2, <1>3, <1>4 DEF Transactions

LEMMA WhoLocksAnItem ==
  ASSUME NEW t \in Transactions, NEW r, NEW i,
         MenuLock(r, i) \in {t.first} \cup t.rest
  PROVE  t.first = RestaurantLock(r)
<1>1. CASE t \in CatalogUpdates
  BY <1>1 DEF CatalogUpdates, Tx, RestaurantLock, MenuLock
<1>2. CASE t \in Changes \cup Deletes
  BY <1>2 DEF Changes, Deletes, Tx, CartLock, LineLock, MenuLock
<1>3. CASE t \in Checkouts \cup StatusUpdates
  BY <1>3 DEF Checkouts, StatusUpdates, Tx, KeyLock, CartLock, OrderLock, MenuLock
<1>4. QED
  BY <1>1, <1>2, <1>3 DEF Transactions

\* What a transaction can miss when it has its first lock.
LEMMA WhatIsMissing ==
  ASSUME NEW t \in Transactions, NEW l \in t.rest
  PROVE  \/ \E c, i : t.op = "change" /\ t.first = CartLock(c) /\ l = LineLock(c, i)
         \/ \E c : l = CartLock(c)
         \/ \E r, i : t.first = RestaurantLock(r) /\ l = MenuLock(r, i)
  BY DEF Transactions, Changes, Deletes, Checkouts, StatusUpdates, CatalogUpdates, Tx

LEMMA OnlyOverALine == PoolInv => StuckOnlyOverALine
<1>1. SUFFICES ASSUME PoolInv, NEW S \in SUBSET Procs, S # {}, \A p \in S : StuckIn(p, S)
               PROVE  \E d, a \in S :
                        Crossed(d, a) /\ tx[d].op = "delete" /\ tx[a].op = "change"
  BY DEF StuckOnlyOverALine
\* One who has a cart and waits for a line waits for a DeleteItem that waits
\* for the cart.
<1>2. ASSUME NEW a \in S, NEW c, NEW i, tx[a].op = "change", CartLock(c) \in locks[a],
             want[a] = LineLock(c, i)
      PROVE  \E d \in S : Crossed(d, a) /\ tx[d].op = "delete"
  <2>1. at[a] = "lock" /\ \E q \in S \ {a} : want[a] \in locks[q]
    BY <1>1, <1>2, HoldersWait
  <2>2. PICK d \in S \ {a} : LineLock(c, i) \in locks[d]
    BY <1>2, <2>1
  <2>3. /\ at[d] = "lock" /\ tx[d] \in Transactions
        /\ want[d] \in tx[d].rest
        /\ tx[d].first \in locks[d]
        /\ LineLock(c, i) \in {tx[d].first} \cup tx[d].rest
    BY <1>1, <2>2, HoldersWait
  <2>4. CartLock(c) \notin locks[d]
    BY <1>1, <1>2, <2>2 DEF PoolInv
  <2>5. tx[d].op = "delete" /\ tx[d].rest = {CartLock(c)}
    BY <2>3, <2>4, WhoLocksALine
  <2>6. QED
    BY <1>2, <2>1, <2>2, <2>3, <2>5 DEF Crossed
\* Nobody waits for an item of a restaurant he has.
<1>3. ASSUME NEW p \in S, NEW l \in locks[p], NEW r, NEW i,
             tx[p].first = RestaurantLock(r), want[p] = MenuLock(r, i)
      PROVE  FALSE
  <2>1. tx[p].first \in locks[p] /\ \E q \in S \ {p} : want[p] \in locks[q]
    BY <1>1, <1>3, HoldersWait
  <2>2. PICK q \in S \ {p} : MenuLock(r, i) \in locks[q]
    BY <1>3, <2>1
  <2>3. /\ tx[q] \in Transactions
        /\ tx[q].first \in locks[q]
        /\ MenuLock(r, i) \in {tx[q].first} \cup tx[q].rest
    BY <1>1, <2>2, HoldersWait
  <2>4. RestaurantLock(r) \in locks[q]
    BY <2>3, WhoLocksAnItem
  <2>5. QED
    BY <1>1, <1>3, <2>1, <2>2, <2>4 DEF PoolInv
<1>4. PICK p \in S : locks[p] # {}
  BY <1>1, SomebodyHoldsALock
<1>5. PICK l : l \in locks[p]
  BY <1>4
<1>6. /\ at[p] = "lock" /\ tx[p] \in Transactions
      /\ want[p] \in tx[p].rest
      /\ tx[p].first \in locks[p]
      /\ \E q \in S \ {p} : want[p] \in locks[q]
  BY <1>1, <1>5, HoldersWait
<1>7. CASE \E c, i : tx[p].op = "change" /\ tx[p].first = CartLock(c) /\ want[p] = LineLock(c, i)
  BY <1>2, <1>6, <1>7
<1>8. CASE \E c : want[p] = CartLock(c)
  <2>1. PICK c : want[p] = CartLock(c)
    BY <1>8
  <2>2. PICK a \in S \ {p} : CartLock(c) \in locks[a]
    BY <1>6, <2>1
  <2>3. /\ tx[a] \in Transactions
        /\ want[a] \in tx[a].rest \ locks[a]
        /\ CartLock(c) \in {tx[a].first} \cup tx[a].rest
    BY <1>1, <2>2, HoldersWait
  <2>4. tx[a].op = "change" /\ \E i : tx[a].rest = {LineLock(c, i)}
    BY <2>2, <2>3, WhoLocksACart
  <2>5. PICK i : want[a] = LineLock(c, i)
    BY <2>3, <2>4
  <2>6. PICK d \in S : Crossed(d, a) /\ tx[d].op = "delete"
    BY <1>2, <2>2, <2>4, <2>5
  <2>7. QED
    BY <2>4, <2>6
<1>9. CASE \E r, i : tx[p].first = RestaurantLock(r) /\ want[p] = MenuLock(r, i)
  BY <1>3, <1>6, <1>9
<1>10. QED
  BY <1>6, <1>7, <1>8, <1>9, WhatIsMissing

\* Whoever can be stuck for good is stuck because of a DeleteItem and an
\* AddItem or UpdateItem of one cart (carts.go:125, 152, 264, 277), however
\* small the pool and whatever the requests.
THEOREM OnlyLinesBlock == PoolSpec => []StuckOnlyOverALine
  BY PoolInvariant, OnlyOverALine, PTL

================================================================================
