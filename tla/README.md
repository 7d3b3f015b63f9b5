# Food ordering API: the specification

TLA+ modules of the ordering platform in `src/`, TLC configurations that check
them on small instances, and theorems about them that TLAPS proves for every
value of the constants. Paths below are relative to `src/`.

## 1. The system

| Part | State | Talks to |
|---|---|---|
| API (`cmd/api`), a monolith, any number of instances | a connection pool, a rate limiter's buckets, metrics; nothing else outlives a request | PostgreSQL, Redis |
| Data models (`internal/models`) | PostgreSQL: restaurants, menu_items, carts, cart_items, orders, order_items | - |
| Menu cache (`internal/cache`) | Redis: two keys for each restaurant, 300 s each | - |
| Demo restaurant (`cmd/restaurant`) | `ready`, `processedOrders`, the page it works on | the API, over HTTP only |

Web customers and partners call the API; each request is a goroutine that runs
at most one database transaction at a time. The instances share nothing but the
database and Redis, so a model of the tables with one set of processes stands for
any number of them; pool, limiter, metrics and shutdown are modelled for one.

### Inventory

| Component | State | Operations | What is hard | What makes it correct |
|---|---|---|---|---|
| Order life cycle (`status.go`) | - | `CanTransitionOrderStatus` | - | orders only move along the table |
| Carts (`carts.go`, handlers) | carts, cart_items | Insert, AddItem, UpdateItem, DeleteItem, Get | check in one statement, write in another; locks taken in two orders | one restaurant per cart, quantities add up and stay within 99, no lock cycles |
| Checkout (`orders.go` `CreateFromCart`) | orders, order_items | checkout and its retries | two attempts at once, on two instances; the cart and the menu change meanwhile | one order per key, and it is the answer to every retry; the order is a copy of the cart, at terms the restaurant offered |
| Catalog sync (`catalog.go`) | restaurants, menu_items | Update | two syncs at once | a menu is the last listing, never a mixture |
| Partner status updates (`orders.go` `UpdateStatusForPartner`) | orders | PATCH status | lost updates | a version counts the updates; nobody overwrites what he has not seen |
| Menu cache (`menu.go`, `menu_items.go`, `partner_catalog.go`) | Redis | Get, Set, Delete, expiry | a late Set after a Delete, failing calls, lost instances | how long a replaced menu is shown |
| Demo restaurant worker (`worker.go`, `client.go`) | serviceState | sync, list, update | lost, late, repeated and refused calls, restarts, pages | every order is finished; nothing illegal is asked for |
| Order queries, filters, pagination metadata (`orders.go` `GetAll*`, `filters.go`, `query.go`) | - | page by page listings | offset pages while orders arrive and move, `created_at` older than the commit | what a walk through the pages may miss or repeat |
| Rate limiter (`middleware.go` `rateLimit`) | a token bucket for each address | allow, clean up | dropping a bucket before it is full, keeping it for ever | the rate is bounded, memory is given back, forgetting is never noticed |
| Handler chain, metrics (`middleware.go`, `metrics.go`, `helpers.go`) | in-flight gauge, request counter, log | refusals, answers, panics | who counts or answers when a handler panics or the client has gone | an exact gauge, a true record, an answer to everybody |
| Server lifecycle (`server.go`, `main.go`) | two goroutines and a channel | serve, signal, graceful shutdown | the listener returns before the requests have ended; deadlines that do not fit | the process ends; the database outlives the requests; prompt requests are answered |
| Connection pool (`main.go` `openDB`; all models) | 25 connections | every query and transaction | more requests than connections, while some wait for locks | the pool adds no circle of waiting requests to those over locks |
| Restaurant queries (`restaurants.go`) | - | reads, full-text search | - | partly: their use of connections; the search is PostgreSQL's |
| Upserts of `RestaurantModel`, `MenuItemModel` | restaurants, menu_items | - | - | not modelled: no route calls them |
| Start-up, configuration | - | - | - | not modelled: sequential, before anything is served |
| JSON helpers, errors, validator | - | - | - | not modelled; checks that guard a transaction are part of its module |
| Demo restaurant process (`main.go`, `server.go`) | - | configuration, two read-only endpoints | - | partly: it stops at any moment |
| Deployment | - | - | - | not modelled: no behaviour of the program |

## 2. The modules

An arrow leads to the module that extends the one it comes from.

```
OrderStatus -> Domain -> Database -> CartItems, Checkout,  -> Ordering -> MCOrdering, Offers -> MCShop
                  |                  Catalog, PartnerStatus      |
                  +-> Shop <........... implements .............+--> OrderingProofs, Offers -> ShopProofs
OrderStatus -> OrderLife <............ implements .............+
                  |
                  +... others' steps ... RestaurantWorker -> ThrottledWorker -> RestaurantWorkerProofs
TokenBuckets <.. implements ... RateLimiter -> Pipeline -> RateLimiterProofs
OrderStatus -> Listing -> ListingProofs
MenuCache -> MenuCacheProofs       Server -> ServerProofs       ConnectionPool -> ConnectionPoolProofs
```

**OrderStatus, Domain.** The statuses and their moves; the tables as sets of
rows, the row checkout inserts (`NewOrder`) and the row a status update leaves
(`Updated`). An item's name and price are always copied together and only
compared or multiplied, so the pair is one value of `Terms` with a price.
Partner and restaurant identify each other. A customer is one value for name,
phone, address and comment.

**Database.** PostgreSQL as the code uses it. A transaction at READ COMMITTED is
a sequence of statements; each is one action and reads the committed tables. What
it writes stays in `work[p]` until the commit. `held[p]` has its row locks and the
advisory lock of the idempotency key; a statement that needs a lock another
transaction holds is not enabled. `Abort` ends a transaction anywhere: a timeout,
a lost connection or instance, the victim of a deadlock. Foreign keys add no
conflict: they take `KEY SHARE` locks, which are compatible with the catalog's updates
of restaurants and menu items (no key changes) and, on carts, are only taken by
transactions that have locked the cart already (AddItem and checkout).

**CartItems, Checkout, Catalog, PartnerStatus.** One action for each statement of
`CartModel`, `CreateFromCart`, `CatalogModel.Update` and
`UpdateStatusForPartner`, in the order of the code, with every early return as
`Rollback`. The upserts of a catalog are one action, because the rows they write
are invisible and the restaurant's row keeps other syncs away. So are the inserts of
an order and its items. That a transaction's writes appear together or not at all is
PostgreSQL's promise, taken for granted; what is checked is what the code puts into one
transaction, and under which locks.

**Ordering** composes them and holds the properties. **Shop** is what the API
promises: the same requests, each in one step and with the values it asks for,
without transactions or locks; so it tells a lost quantity or a menu mixed of two
listings from what was asked. `ImplementsShop` states that the tables of Ordering
follow Shop; every variable of Shop is the committed table of the same name.
**OrderLife** is what a partner is promised about one order: it appears with version
1 and makes one legal move at a time. Ordering implements it
(`Ordering!ImplementsOrderLife`). RestaurantWorker uses it the other way round: whatever
OrderLife allows, others may do to the orders there, so the worker meets at least the
platform that Ordering is.

**Offers** adds to Ordering the menus that were committed while each request was
served, and states what customers agree to: neither AddItem, UpdateItem nor checkout
locks the menu rows it reads.

**MenuCache.** `listMenuItems` and the part of `updatePartnerCatalog` after the
commit. A menu is the number of the sync that wrote it, and time passes in ticks. A
Redis command that fails may have been executed; one that is executed, is
executed within its timeout.

**RestaurantWorker.** The loop of `worker.tick`, with the platform reduced to what the
worker sees of it: orders that customers place, and that others with the restaurant's key
move along as they like (`OthersMove`, any move of OrderLife). A PATCH is under way (`wire`, a bag) until it is handled; the
worker may stop waiting for it and go on, and the platform may handle it afterwards.
An update may be committed and still be answered with an error: reading the order back
can fail. **ThrottledWorker** puts the API's rate limiter in front of that platform. The
worker sends its updates in a row, and all but the first few are answered 429.

**Listing.** `GetAllForPartner` with sort, filter, limit and offset, and the last page of
the metadata, by which a client walks from page to page. Orders are placed and
moved by transactions whose `created_at` or `updated_at` is the moment they began. Any
number of updates of one order may have begun; they commit one after another.

**RateLimiter, TokenBuckets.** The map of buckets with `lastSeen` and the cleanup that a
request runs at most once per interval; and the limiter one would like to have, with a
bucket for every address for ever. A tick is the time in which a bucket earns a token.

**Pipeline** extends RateLimiter with the rest of the chain: recoverPanic, logRequest,
rateLimit, the router, observeHTTP, requirePartner, the handler. The response writer
and the two recorders around it are separate variables: the first `WriteHeader` reaches
the client, a recorder keeps the last. The limiter exempts `/metrics` by its path, so
a POST to it reaches the router unlimited and is unmatched there.

**Server.** `serve` and what `run` does around it: the main goroutine, the goroutine of
the signal, the unbuffered channel between them, the requests, and the timeouts in
seconds.

**ConnectionPool.** Which requests hold or wait for which of the pool's connections and
locks: BeginTx to commit, and rows until they are closed. A transaction takes all the
locks of its operation one after another and keeps them to its end: AddItem and
UpdateItem the cart and then the line, DeleteItem the line and then the cart, checkout
the key and then the cart, a catalog update the restaurant and then its items in any
order. What the statements do is in Ordering.

Each action's lines are in `PROJECT.json`, under `map`.

## 3. What the runs check

| Run | Instance | Shows | States, time |
|---|---|---|---|
| `shop` | 2 requests of every operation, 1 cart, 2 items of a restaurant, two competing listings | `OffersInv` (with `ShopInv` and `IndInv`, the invariants of the proofs), `ImplementsShop`, `OrdersWereOffered`, `LinesWereOffered` | 355 k, 57 s |
| `checkout` | 3 requests, 2 carts, 2 customers, 2 keys with one hash, 2 orders, items of 2 restaurants, a price that does not fit | `UniqueIndexIsNeverHit`, `AnswersAgree`, `TypeOK`, `CartNeverMixed`, `DeadlockNeedsDelete`, `ImplementsShop` | 171 k, 50 s |
| `status` | 2 requests, every status, version 0..5, with a reference, without one or with a blank one, a stranger, a sync that changes the price | `VersionCountsUpdates`, `TakenOrderHasRef`, `NumberLostOnlyToBlanks`, `UpdateBuildsOnSeenVersion`, `OrderHistory`, `ImplementsOrderLife` | 186 k, 34 s |
| `menu_cache` | 2 readers, 1 sync at a time, 2 syncs, TTL 2, all failures | `StalenessIsBounded`, `CacheInv`; `CacheCatchesUp` | 58 k, 9 s |
| `worker` | 2 orders on a page of 2, 1 fault, a bucket of 2, behind the limiter | `WorkerInv`, `RefusedOnlyAsStale`, `CountsOnlyUpdates`, `ReadyMeansPublished`; `EveryOrderIsFinished` | 316 k, 67 s |
| `pipeline` | a request at a time of 2 addresses, bucket 2, dropped after 2 ticks | `GaugeIsExact`, `StatusIsRecorded`, `EveryRequestIsAnswered`, `LimiterInv`, `RateIsBounded`, `IdleClientsAreForgotten`, `ImplementsTokenBuckets` | 584 k, 51 s |
| `listing` | 5 transactions, pages of 1 or 2, every sort, 3 filters | `MissedOnlyByMoves`, `RepeatsAreExplained` | 2.51 M, 93 s |
| `server` | 2 connections, the code's timeouts (5, 10, 7, 10 s) | `ServerInv`, `DatabaseOutlivesRequests`, `PromptRequestsAreAnswered`; `EndsOnceStopped` | 649 k, 66 s |
| `pool` | 3 requests, 2 connections, 1 key, 1 cart, 2 items, 1 order, 1 restaurant | `PoolInv`, `StuckOnlyOverALine`; `RequestsEnd` | 108 k, 73 s |
| `deadlock` | 2 requests | `NoDeadlock` is violated | |
| `stale_menu` | as `menu_cache`, without failures | `SyncInvalidates` is violated | |
| `starvation` | 2 orders, pages of 1, no faults | `EveryOrderIsFinished` is violated | |

Properties after a semicolon are liveness.

### The bounds

A request may be sent any number of times, so retries and repeated requests are all
there; what is bounded is how many are in progress. Conflicts of the code are between
two transactions, with a third as the one that notices or that closes a circle of
three, hence three processes in `checkout`. Two carts are there because a key may be
reused for another cart. The limit of a line is 1 instead of 99: sums at and above it
occur, and so do updates to a quantity above it. `MaxInt` is 1 in `checkout`, and
the item of the other restaurant costs 2, so that totals fit and do not fit. All keys
share one hash, which also makes different keys compete; it can only remove
interleavings that the proofs, for any `HashOf`, do cover. Two keys and `OrderIds` of
two make a second order possible; once the ids are used up, checkout waits in the
model, which no safety property notices.

In `shop` one listing makes the first item dearer and the other withdraws it and makes
the second dearer: no menu has both new prices, so an order that mixes listings is told
from every order that does not.

Two syncs in `menu_cache` are enough for a menu to be stale and staler. In `worker` the
fault is one of: a lost call, a timeout, a failed sync or list, a crash, an error after
the commit; the call it leaves under way meets those the worker sends next, and the
moves of others. The proofs hold for any number of faults. A bucket of 2 pays for a listing and one update and no more; with the
code's defaults (4 tokens each 2 s) it pays for three updates, of up to a hundred.

`Burst = MaxIdle` in `pipeline` is the tightest case `LimiterAssumption` admits, with
Interval 1; the default is a burst of 4 against 360 ticks. An observation lasts
`MaxWindow` ticks and begins again at any time. One request at a time suffices to
exercise what requests share there, the gauge and the buckets: each step on them is one
mutex or atomic operation. Two requests at once, and a burst of 3 with an interval of
2, were checked of the two halves separately with the same result.

Five transactions in `listing` make two pages of two with an order that is placed or
moved in between. `server` has the timeouts of the code and two connections, of which one may
keep the shutdown waiting while the other is cut off. `pool` has fewer connections than
requests, and every operation finds another one to compete with for its locks: a circle of
two, a third who waits for it, and two items that two syncs list in different orders.

Symmetry is used for processes and order ids, in runs without liveness only.
The sets of requests are closed under it.

TLC's deadlock check stays on but in `server`, whose process ends: in every other run
some request can always be sent. Transactions that wait for each other do not stop the
model, since `Abort` may end one; `NoDeadlock` and `DeadlockNeedsDelete` look for the
waiting itself, and `StuckOnlyOverALine` does when connections are waited for, too.

### Fairness

Ordering, Listing, RateLimiter and Pipeline have none and state no liveness: their
clients need not come back, and the database may abort any attempt.

- *MenuCache*: the requests that run come to an end (every call has a timeout) and time
  passes; syncs need not come, and Redis need not recover.
- *RestaurantWorker*: the goroutine runs, the ticker ticks and every call returns, since
  the HTTP client has a timeout; nothing obliges the platform to answer, but calls fail
  only `MaxFaults` times in a run. Without that bound `EveryOrderIsFinished` would be
  false: a restaurant whose every call fails finishes nothing.
- *ThrottledWorker*: weak fairness of the worker's own steps, and strong fairness of a tick
  that begins a full interval after the last. A ticker drops ticks that come while a tick
  is being worked on, so two may follow each other closely, but its next one is an
  interval later: a tick that finds its bucket filled comes again and again.
- *Server*: weak fairness of the goroutines, of time, and of handlers, whose contexts have
  timeouts. No signal need ever come.
- *ConnectionPool*: strong fairness of each request's next step, be it a connection, a
  lock or the end of a statement, because `database/sql` and PostgreSQL queue those who
  wait, and of `BreakUp`: PostgreSQL's deadlock detector fails a transaction of a pair in
  which each has what the other waits for. No deadline is relied on, but the detector is:
  without it the pairs of finding 1 would wait until their contexts end.

## 4. What is proved

Eight modules of proofs, for any finite or infinite sets of processes, carts, items,
keys, requests, addresses, connections and orders that satisfy the named assumptions of
the modules: `DomainAssumption` and `NoneIsNoRow` (Domain), `RequestAssumption` and
`DatabaseAssumption` (Database), `CacheAssumption`, `WorkerAssumption`,
`ThrottleAssumption`, `LimiterAssumption`, `PipelineAssumption`, `ListingAssumption`,
`ServerAssumption`, `PoolAssumption`. Every run evaluates those of its modules. Where a
number is compared with the size of a set, the set is finite by assumption: the requests
in progress (`PipelineAssumption`), the transactions of a run of Listing (`MaxStamps`).
Every safety property that a passing run checks is proved.

| Module | Theorems |
|---|---|
| OrderingProofs | `TypeCorrect` (`TypeOK`), `InductiveInvariant` (`[]IndInv`), and from it `CartsAreNeverMixed` (`CartNeverMixed`), `RetriesAreSafe` (`AnswersAgree`), `AdvisoryLockSuffices` (`UniqueIndexIsNeverHit`), `NoUpdateIsLost` (`UpdateBuildsOnSeenVersion`), `VersionsCountUpdates` (`VersionCountsUpdates`), `AcceptedOrdersAreNumbered` (`TakenOrderHasRef`), `OnlyBlanksEraseANumber` (`NumberLostOnlyToBlanks`), `OnlyDeleteDeadlocks` (`DeadlockNeedsDelete`) |
| ShopProofs | `ShopInvariant` (`[]ShopInv`), `OrderingIsAShop` (`ImplementsShop`), `OrderingKeepsTheContract` (`ImplementsOrderLife`), `OrdersAreFinal` (`OrderHistory`); of `HistorySpec`, `OffersInvariant` (`[]OffersInv`), `OrdersAreOffered` (`OrdersWereOffered`), `LinesAreOffered` (`LinesWereOffered`) |
| MenuCacheProofs | `CacheInvariant` (`[]CacheInv`), `StaleMenusExpire` (`StalenessIsBounded`) |
| RestaurantWorkerProofs | `WorkerInvariant` (`[]WorkerInv`), `OnlyStaleCallsAreRefused` (`RefusedOnlyAsStale`), `ReadyOnlyWhenPublished` (`ReadyMeansPublished`), `OnlyUpdatesAreCounted` (`CountsOnlyUpdates`); `ThrottledWorkerInvariant`, `ThrottledWorkerIsSafe` and `ThrottledWorkerCounts`, the same of `ThrottledSpec` |
| RateLimiterProofs | `LimiterInvariant` (`[]LimiterInv`), `NobodyExceedsTheRate` (`RateIsBounded`), `MemoryIsReclaimed` (`IdleClientsAreForgotten`), `ForgettingIsHarmless` (`ImplementsTokenBuckets`); of `PipelineSpec`, `PipelineKeepsLimits` (all of these), `PipelineInvariant` (`[]PipelineInv`), `GaugeNeverDrifts` (`GaugeIsExact`), `RecordsAreRight` (`StatusIsRecorded`), `NobodyIsLeftUnanswered` (`EveryRequestIsAnswered`) |
| ListingProofs | `ListingInvariant` (`[]ListingInv`), `WalksMissOnlyMoves` (`MissedOnlyByMoves`), `RepeatsHaveCauses` (`RepeatsAreExplained`), `CreationOrderMissesNothing` |
| ServerProofs | `ServerInvariant` (`[]ServerInv`), `ShutdownIsOrderly` (`DatabaseOutlivesRequests`), `PromptnessSuffices` (`PromptRequestsAreAnswered`) |
| ConnectionPoolProofs | `PoolInvariant` (`[]PoolInv`), `OnlyLinesBlock` (`StuckOnlyOverALine`) |

**Ordering.** None of the properties is inductive: that a cart is not
mixed after a commit depends on what AddItem found three statements earlier.
`IndInv` adds why that is still so. Locks are exclusive (`MutualExclusion`); a
transaction past a locking statement holds the lock (`LocksHeld`); whoever publishes
a change of a cart, of an order or under a key holds the corresponding lock; hence
what a transaction has found under its locks is still there
(`CartUnchanged`, `CheckoutUnchanged`, `StatusUnchanged`), and its commit keeps
the properties. DeleteItem is the interesting case: it writes a row
before it locks the cart, but it cannot commit before it has the cart's lock. Were that
last statement, whose visible effect is only a timestamp, dropped, checkout
would copy carts that no longer exist: the mutants of `shop` and
`checkout` do this.
`AdvisoryLockSuffices` needs no assumption on hashes; keys that collide only wait.

**Shop.** `ShopInv` says what each transaction is going to write, in terms of its request
and of what it read under its locks (`FollowsRequest`). With `IndInv`, which says that this
is still there, each commit is one step of Shop; every other step changes no
committed table. `OrdersAreFinal` and the contract with partners follow from the same
two invariants: an update is a legal move of the version it names.

**Offers.** A request reads the menu at one statement and uses it at later ones, when the
menu may be another. `SeenOffers` follows what it has read, label by label: it was on one
of the menus committed since the request began. An item that AddItem has read was on one of
them, and so was every line of the cart that checkout copies, all on the same one, because
one statement reads them. `seen` only grows while the request runs, so later syncs change
nothing. From AddItem's read on, the line it is going to write has the terms it has read.

**Deadlocks.** All transactions but DeleteItem's take their locks in one order: key, then
cart, then item or order. Whoever waits holds only lower locks than the one
it waits for (`LocksAreOrdered`), so the locks waited for rise along a chain of waiting
transactions, and a circle of them must contain a DeleteItem.

**MenuCache.** The age of a menu plus what is left of the time of a
copy never exceeds `TTL + MaxRead`; plus what is left of a reader's time, never
`MaxRead`. A tick moves one unit from one to the other; storing turns a reader's
limit into an entry's.

**RestaurantWorker.** What the worker has listed, asked for or believes processed was
true at the version it carries. Versions only grow and each has one status, so it stays
true however late a call is handled, and a move that was legal at that version is either
made or refused as stale. Being refused by the limiter changes nothing the worker knows.
The moves of an order are its versions after the first, without a cancellation. They are
counted as the cardinality of a set of pairs, which a counted answer has made one larger:
the worker only adds one to its counter in the step that applies its update.

**RateLimiter.** A bucket has earned a token in every tick since it was last used, up
to `Burst`. One that is dropped was idle for more than `MaxIdle >= Burst` ticks, so it was
full, and full is what a new one is. The flags do not enforce the inequality
(`LimiterAssumption`); without it the limit can be exceeded.

**Pipeline.** Each step of the chain is a step of the limiter or leaves it alone
(`PipelineLimits`), so what holds of the limiter holds in the chain. The gauge is the
cardinality of the set of requests inside, which each step changes by one element at
most. `Recorded` says, stage by stage, which of the three views of the status (wire,
outer and inner recorder) are set and agree; after a failed write they no longer need to.

**Listing.** What a client may miss is about ranks. In a finite set that a relation
orders, the ranks of the elements are 0, 1, 2 ... without gaps (`RankIsOnto`), and if one
element changes place, comes or goes, every other moves by one at most, all in the same
direction; so at most one of them crosses any given edge (`OneElementCrosses`).
`ListingInv` counts, at the edge between the pages that were read and those that were
not, the rows that slipped to the read side unseen (`Skipped`) and the listed ones that
were pushed to the other (`Pushed`). A change adds one to either at most; a new order,
which was not there when the walk began, can push but not hide one. Reading a page turns
rows of `Pushed` into `Repeats`. When the metadata promises no more pages, no row is past
the edge (`LastPageHolds`), and what is missed was skipped. After the end an order may
still leave the filter but never come back to it, since no status is taken twice
(`Stage`). TLC checked `ListingInv` on the instance of the run `listing`, and
`PipelineInv` on that of `pipeline`, before they were proved.

**Server.** The handshake: which states of the two goroutines go together. Whoever is
still served after Shutdown was called is as old as that call, so what is cut off
when its context ends has lasted `Grace`; the handlers' contexts account for
`MaxWork` of it, and the rest was spent sending the request.

**ConnectionPool.** Nobody holds a connection or a lock while he asks for a connection, so
in a group that waits for what it keeps itself somebody waits for a lock, and its holder
waits for another one. Whoever waits for his first lock has none that others wait for.
So the holder has his first lock and waits for one of the rest: no update of an order
does, and a catalog update does for an item of the restaurant whose row it has, which only
another update of that restaurant could have. A checkout waits for a cart, whose holder
can only be an AddItem or UpdateItem that waits for a line, and who has that line without
the cart is a DeleteItem that waits for the cart.

Only model-checked: liveness (`CacheCatchesUp`, `EveryOrderIsFinished`,
`EndsOnceStopped`, `RequestsEnd`), which is out of the prover's reach under fairness. That
`Cost` is a sum is evaluated by TLC; the proofs only use that the code checks that it
fits, since induction over data is out of reach, too.

## 5. What was found

1. **DeleteItem can deadlock with AddItem and UpdateItem** (`carts.go:264`). It locks the
   item and then the cart, they do the opposite. PostgreSQL aborts one and the
   customer gets a 500. Locking the cart first, as everywhere else, removes it;
   `OnlyDeleteDeadlocks` proves that nothing else needs to change.
2. **An old menu is cached after a sync** (`menu_items.go:63`). A reader that loaded it
   before the sync may store it after the sync's invalidation, without any failure.
   README.md:154 says the entries are removed. `StalenessIsBounded` says how bad
   it can be: the TTL and one request's time.
3. **The worker starves old orders** (`client.go:39`). It asks for the newest hundred
   orders of all statuses, while README.md:7 and docs/order-sequence.puml:60 speak of
   active ones and of all new ones. An unfinished order with a hundred newer ones is
   not seen again.

Smaller observations, for which no run is kept:

- Requests that the limiter refuses, that the router answers or whose handler panics are
  not in `http_requests_total`, the "Total number of HTTP requests" (`metrics.go:29`), and
  those that panic are not in the access log either.
- A PATCH may be committed and answered with 500, when reading the order back fails
  (`orders.go:355`); its repetition is then refused as stale.
- An instance that starts while Redis is down neither reads nor invalidates the cache for
  as long as it runs.
- The server's timeouts do not quite fit together: a request whose body took three
  seconds may be cut off by a shutdown or be answered after `WriteTimeout`.
- `PATCH {"status": "cooking", "partner_order_id": "  ", ...}` replaces the partner's number
  by blanks: they are refused only when an order is accepted (`orders.go:385`), and the
  update keeps the number only when the new one is empty (`orders.go:344`).
  `NumberLostOnlyToBlanks` says that nothing else loses it.
- A repeated `POST .../items` adds twice; a used key with a cart that does not
  exist is a 404, not a conflict; `is_open` is not looked at when ordering.

## 6. Not modelled

- *Restaurant queries*: they only read. Which restaurants a full-text search finds is
  PostgreSQL's; its pages are those of Listing, and its connections those of ConnectionPool.
- *Upserts of `RestaurantModel` and `MenuItemModel`* and `GetAllByCustomerPhone`: no route
  calls them.
- *Start-up and configuration*: run once and in sequence before anything is served, and end
  the process when they fail.
- *Partner keys, request ids, security headers*: functions of one request and a constant.
- *JSON, error texts, validation*: a request is a member of a small set; the checks that
  guard a transaction are in its module.
- *Health checks*: a ping.
- *Migrations*: the constraints they leave are in Domain and Database; applying and
  undoing them is not modelled.
- *The demo restaurant's endpoints and fixed catalog*, and *deployment*: no decision of the
  program depends on them.

## 7. What could follow

1. `DatabaseOutlivesRequests` composed with Ordering: that a shutdown aborts only
   transactions whose request was slow.
2. The liveness of ConnectionPool by a rank of who waits for whom, which is the argument of
   `StuckOnlyOverALine` taken further.
