--------------------------- MODULE RestaurantWorker ---------------------------
(***************************************************************************)
(* The demo restaurant (cmd/restaurant): a worker that publishes its       *)
(* catalog, polls its orders and moves each of them one status on, over a  *)
(* network that may delay, duplicate or lose calls.                        *)
(*                                                                         *)
(* The platform is what the worker sees of it: PATCH .../status takes      *)
(* effect at once, as Ordering shows it may be thought to, GET .../orders  *)
(* answers the newest page, and meanwhile customers and other clients of   *)
(* the partner API do with the orders whatever OrderLife allows.  Orders   *)
(* are numbered as they were created.  A call the worker has given up may  *)
(* still reach the platform.                                               *)
(***************************************************************************)
EXTENDS Integers, Sequences, Bags, FiniteSets, OrderStatus

CONSTANTS
  MaxOrders,   \* bound: orders of this restaurant
  PageSize,    \* 100 in the code
  MaxFaults,   \* bound: failed calls and crashes in a run
  None

\* An order, as far as the worker looks at it.
Row == [status : Statuses, version : Nat \ {0}]

ASSUME WorkerAssumption ==
  /\ MaxOrders \in Nat \ {0}
  /\ PageSize \in Nat \ {0}
  /\ MaxFaults \in Nat
  /\ None \notin Row \cup Statuses

VARIABLES
  orders,     \* the restaurant's orders, as the platform stores them
  catalog,    \* whether the platform has the restaurant's catalog
  wire,       \* PATCH calls sent and not handled yet
  at,         \* where the worker's goroutine is
  queue,      \* what it has listed and not dealt with yet
  ready,      \* serviceState.ready
  processed,  \* serviceState.processedOrders
  faults      \* ghost: faults so far

platform == <<orders, catalog>>
state == <<ready, processed>>
workerVars == <<orders, catalog, wire, at, queue, ready, processed, faults>>

Ids == 1..MaxOrders

\* An order as a page shows it; a PATCH call has the same shape, with the
\* status asked for.
Seen == [id : Ids, status : Statuses, version : Nat \ {0}]

Created == {id \in Ids : orders[id] # None}

\* Every variable has its type; in particular the worker only waits for an
\* answer to a call about an order it has listed (worker.go:80-95).
WorkerTypeOK ==
  /\ orders \in [Ids -> Row \cup {None}]
  /\ catalog \in BOOLEAN
  /\ IsABag(wire) /\ BagToSet(wire) \subseteq Seen
  /\ at \in {"idle", "sync", "list", "update", "await"}
  /\ queue \in Seq(Seen)
  /\ at = "await" => queue # <<>>
  /\ ready \in BOOLEAN
  /\ processed \in Nat
  /\ faults \in 0..MaxFaults

WorkerInit ==
  /\ orders = [id \in Ids |-> None]
  /\ catalog = FALSE
  /\ wire = EmptyBag
  /\ at = "idle"
  /\ queue = <<>>
  /\ ready = FALSE
  /\ processed = 0
  /\ faults = 0

Fault == faults < MaxFaults /\ faults' = faults + 1

(***************************************************************************)
(* The platform.                                                           *)
(***************************************************************************)

\* What may happen to an order when it is not the worker's doing.
Others == INSTANCE OrderLife WITH life <- orders

\* A customer orders: only from a restaurant whose menu is known.
CustomerOrders ==
  /\ catalog
  /\ \E id \in Ids : /\ \A earlier \in 1..(id - 1) : orders[earlier] # None
                     /\ Others!Appear(id)
  /\ UNCHANGED <<catalog, wire, at, queue, state, faults>>

Accepts(m) ==
  /\ orders[m.id].version = m.version
  /\ CanTransition(orders[m.id].status, m.status)

Apply(m) ==
  orders' = IF Accepts(m) THEN [orders EXCEPT ![m.id] = [status  |-> m.status,
                                                         version |-> m.version + 1]]
                          ELSE orders

\* Another client with the restaurant's key makes a legal move: the staff, or a
\* second worker.
OthersMove(id) ==
  /\ \E status \in Statuses : Others!Move(id, status)
  /\ UNCHANGED <<catalog, wire, at, queue, state, faults>>

\* A call is handled and its answer reaches nobody.
HandleLate(m) ==
  /\ BagIn(m, wire)
  /\ Apply(m)
  /\ wire' = wire (-) SetToBag({m})
  /\ UNCHANGED <<catalog, at, queue, state, faults>>

\* A call never arrives, or is refused by the rate limiter or a failing server.
Lose(m) ==
  /\ BagIn(m, wire)
  /\ Fault
  /\ wire' = wire (-) SetToBag({m})
  /\ UNCHANGED <<platform, at, queue, state>>

(***************************************************************************)
(* The worker.                                                             *)
(***************************************************************************)

Goes(to) == at' = to

\* The ticker fires, or run starts.
Tick ==
  /\ at = "idle"
  /\ Goes(IF ready THEN "list" ELSE "sync")
  /\ UNCHANGED <<platform, wire, queue, state, faults>>

SyncCatalog ==
  /\ at = "sync"
  /\ catalog' = TRUE
  /\ ready' = TRUE
  /\ Goes("list")
  /\ UNCHANGED <<orders, wire, queue, processed, faults>>

\* Mutant: ready is set before the error is looked at.
SyncFailsReady ==
  /\ at = "sync"
  /\ Fault
  /\ catalog' \in {catalog, TRUE}
  /\ ready' = TRUE
  /\ Goes("idle")
  /\ UNCHANGED <<orders, wire, queue, processed>>

\* The call fails; the platform may have served it all the same.
SyncFails ==
  /\ at = "sync"
  /\ Fault
  /\ catalog' \in {catalog, TRUE}
  /\ Goes("idle")
  /\ UNCHANGED <<orders, wire, queue, state>>

\* GET /v1/partner/orders?page_size=100&sort=-created_at, of every status.
NewestPage ==
  LET last == Cardinality(Created)
      size == IF last < PageSize THEN last ELSE PageSize
  IN  [k \in 1..size |-> LET id == last + 1 - k IN
         [id |-> id, status |-> orders[id].status, version |-> orders[id].version]]

ListOrders ==
  /\ at = "list"
  /\ queue' = NewestPage
  /\ Goes("update")
  /\ UNCHANGED <<platform, wire, state, faults>>

ListFails ==
  /\ at = "list"
  /\ Fault
  /\ Goes("idle")
  /\ UNCHANGED <<platform, wire, queue, state>>

\* The moves the worker makes, by the status it finds.
NextOf == [pending_partner |-> "accepted", accepted |-> "cooking", cooking |-> "ready",
           ready |-> "delivering", delivering |-> "delivered"]

\* Mutant: an accepted order is ready without being cooked.
NextStatusUncooked(status) ==
  IF status \in DOMAIN NextOf THEN [NextOf EXCEPT !.accepted = "ready"][status] ELSE None

\* The move nextStatus asks for, None if there is nothing left to do.
NextStatus(status) == IF status \in DOMAIN NextOf THEN NextOf[status] ELSE None

Current == [id |-> Head(queue).id, status |-> NextStatus(Head(queue).status),
            version |-> Head(queue).version]

Skip ==
  /\ at = "update"
  /\ queue # <<>>
  /\ NextStatus(Head(queue).status) = None
  /\ queue' = Tail(queue)
  /\ UNCHANGED <<platform, wire, at, state, faults>>

Send ==
  /\ at = "update"
  /\ queue # <<>>
  /\ NextStatus(Head(queue).status) # None
  /\ wire' = wire (+) SetToBag({Current})
  /\ Goes("await")
  /\ UNCHANGED <<platform, queue, state, faults>>

\* Mutant: a conflict counts as processed too.
AnsweredUnchecked ==
  /\ at = "await"
  /\ BagIn(Current, wire)
  /\ Apply(Current)
  /\ wire' = wire (-) SetToBag({Current})
  /\ processed' = processed + 1
  /\ queue' = Tail(queue)
  /\ Goes("update")
  /\ UNCHANGED <<catalog, ready, faults>>

\* The call is handled and answered: with 200, or with an error the worker
\* records before it goes on to the next order.
Answered ==
  /\ at = "await"
  /\ BagIn(Current, wire)
  /\ Apply(Current)
  /\ wire' = wire (-) SetToBag({Current})
  /\ processed' = IF Accepts(Current) THEN processed + 1 ELSE processed
  /\ queue' = Tail(queue)
  /\ Goes("update")
  /\ UNCHANGED <<catalog, ready, faults>>

\* Mutant: after a timeout the worker keeps waiting.
TimesOutInPlace ==
  /\ at = "await"
  /\ IF BagIn(Current, wire) THEN Fault ELSE UNCHANGED faults
  /\ queue' = Tail(queue)
  /\ UNCHANGED <<platform, wire, at, state>>

\* httpClient.Timeout: the answer is lost, or only late.
TimesOut ==
  /\ at = "await"
  /\ IF BagIn(Current, wire) THEN Fault ELSE UNCHANGED faults
  /\ queue' = Tail(queue)
  /\ Goes("update")
  /\ UNCHANGED <<platform, wire, state>>

EndTick ==
  /\ at = "update"
  /\ queue = <<>>
  /\ Goes("idle")
  /\ UNCHANGED <<platform, wire, queue, state, faults>>

\* The process is restarted: all it knew is gone, its calls are not.
Crash ==
  /\ Fault
  /\ Goes("idle")
  /\ queue' = <<>>
  /\ ready' = FALSE
  /\ processed' = 0
  /\ UNCHANGED <<platform, wire>>

WorkerStep ==
  \/ Tick \/ SyncCatalog \/ ListOrders \/ Skip \/ Send \/ Answered \/ EndTick

WorkerNext ==
  \/ CustomerOrders
  \/ \E id \in Ids : OthersMove(id)
  \/ \E m \in BagToSet(wire) : HandleLate(m) \/ Lose(m)
  \/ WorkerStep \/ SyncFails \/ ListFails \/ TimesOut \/ Crash

WorkerSpec == WorkerInit /\ [][WorkerNext]_workerVars

\* The goroutine runs, the ticker ticks and every call returns in the end.
FairWorkerSpec == WorkerSpec /\ WF_workerVars(WorkerStep \/ TimesOut)

(***************************************************************************)
(* Properties.                                                             *)
(***************************************************************************)

\* Whatever was listed long ago, delayed or sent twice: the platform refuses
\* a PATCH of the worker only because its version is old, never as an illegal
\* move (worker.go:106-124 against status.go:27-36).
RefusedOnlyAsStale ==
  \A m \in BagToSet(wire) :
    m.version = orders[m.id].version => CanTransition(orders[m.id].status, m.status)

\* How often an order was moved on, by whomever; a cancellation, which is never
\* the worker's, is left out.
MovesOf(id) == orders[id].version - IF orders[id].status = "cancelled" THEN 2 ELSE 1

\* The moves so far: the first, second, ... of every order.
MovesMade == UNION {{id} \X (1..MovesOf(id)) : id \in Created}

\* /state never reports more updates than the orders have had: calls are
\* repeated, answers get lost and come late, and others change the orders too,
\* but no conflict and no cancellation is counted (worker.go:88-95).
CountsOnlyUpdates == processed <= Cardinality(MovesMade)

\* /healthz reports ready only when the platform has the catalog
\* (worker.go:62-73, server.go:11-14).
ReadyMeansPublished == ready => catalog

Finished(id) == orders[id] # None /\ orders[id].status \in {"delivered", "cancelled"}

\* Every new order is taken through its whole life cycle (README.md:7).
EveryOrderIsFinished == \A id \in Ids : orders[id] # None ~> Finished(id)

(***************************************************************************)
(* Why it is correct: what the worker knows of an order may be old, but is *)
(* never wrong.                                                            *)
(***************************************************************************)

\* Orders are numbered without gaps.
NoGaps == \E n \in 0..MaxOrders : Created = 1..n

\* The order was as listed when it had the version listed.
WasSo(e) ==
  /\ orders[e.id] # None
  /\ e.version <= orders[e.id].version
  /\ e.version = orders[e.id].version => e.status = orders[e.id].status

\* The move asked for was legal when the order had the version named.
WasLegal(m) ==
  /\ orders[m.id] # None
  /\ m.version <= orders[m.id].version
  /\ m.version = orders[m.id].version => CanTransition(orders[m.id].status, m.status)

\* Whatever the worker has listed, and whatever it has asked for in a call that
\* is still under way, was true and legal at the version it carries, however
\* many restarts, moves of others and late calls lie between (worker.go:76-124).
WorkerInv ==
  /\ WorkerTypeOK
  /\ NoGaps
  /\ \A k \in 1..Len(queue) : WasSo(queue[k])
  /\ \A m \in BagToSet(wire) : WasLegal(m)
  /\ ReadyMeansPublished

================================================================================
