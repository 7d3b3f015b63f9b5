------------------------ MODULE RestaurantWorkerProofs -------------------------
(***************************************************************************)
(* Proofs about RestaurantWorker and ThrottledWorker, for any number of    *)
(* orders, any page size, any burst and any number of faults: what the     *)
(* worker knows was true once, and what it asks for was legal then.        *)
(***************************************************************************)
EXTENDS ThrottledWorker, FiniteSetTheorems, TLAPS

(***************************************************************************)
(* Bags.                                                                   *)
(***************************************************************************)

\* One more copy of e.
LEMMA PutInBag ==
  ASSUME NEW B, IsABag(B), NEW e
  PROVE  /\ IsABag(B (+) SetToBag({e}))
         /\ BagToSet(B (+) SetToBag({e})) = BagToSet(B) \cup {e}
  BY DEF IsABag, BagToSet, SetToBag, (+)

\* One copy of e less.
LEMMA TakeFromBag ==
  ASSUME NEW B, IsABag(B), NEW e
  PROVE  /\ IsABag(B (-) SetToBag({e}))
         /\ BagToSet(B (-) SetToBag({e})) \subseteq BagToSet(B)
  BY DEF IsABag, BagToSet, SetToBag, (-)

(***************************************************************************)
(* The orders.                                                             *)
(***************************************************************************)

\* Some order changes by a counted legal step, or nothing happens to them.
OrdersStep ==
  /\ orders' \in [Ids -> Row \cup {None}]
  /\ \A id \in Ids : orders[id] # None =>
       \/ orders'[id] = orders[id]
       \/ /\ orders'[id] # None
          /\ orders'[id].version = orders[id].version + 1

\* What was so, and what was legal, stays so when the orders move on.
LEMMA KnowledgeStaysTrue ==
  ASSUME WorkerTypeOK, OrdersStep, NEW e \in Seen
  PROVE  /\ WasSo(e) => WasSo(e)'
         /\ WasLegal(e) => WasLegal(e)'
<1>1. e.id \in Ids /\ e.version \in Nat
  BY DEF Seen
<1>2. ASSUME orders[e.id] # None
      PROVE  /\ orders[e.id].version \in Nat
             /\ orders'[e.id] # None
             /\ \/ orders'[e.id] = orders[e.id]
                \/ orders'[e.id].version = orders[e.id].version + 1
  BY <1>1, <1>2 DEF WorkerTypeOK, OrdersStep, Row
<1>3. QED
  BY <1>1, <1>2 DEF WasSo, WasLegal

\* A move keeps the set of orders; an order that appears leaves no gap.
LEMMA ApplyMoves ==
  ASSUME WorkerTypeOK, NEW m \in Seen, orders[m.id] # None, Apply(m)
  PROVE  OrdersStep /\ Created' = Created
<1>1. m.id \in Ids /\ m.status \in Statuses /\ m.version \in Nat \ {0}
  BY DEF Seen
<1>2. CASE Accepts(m)
  <2>1. orders' = [orders EXCEPT ![m.id] = [status |-> m.status, version |-> m.version + 1]]
    BY <1>2 DEF Apply
  <2>2. [status |-> m.status, version |-> m.version + 1] \in Row
    BY <1>1 DEF Row
  <2>3. QED
    BY <1>1, <1>2, <2>1, <2>2, WorkerAssumption
    DEF WorkerTypeOK, OrdersStep, Created, Accepts
<1>3. CASE ~Accepts(m)
  BY <1>3 DEF Apply, WorkerTypeOK, OrdersStep, Created
<1>4. QED
  BY <1>2, <1>3

LEMMA CustomerOrdersMoves ==
  ASSUME WorkerInv, CustomerOrders
  PROVE  OrdersStep /\ NoGaps'
<1> DEFINE new == [status |-> "pending_partner", version |-> 1]
<1>1. PICK id \in Ids : /\ orders[id] = None
                        /\ \A earlier \in 1..(id - 1) : orders[earlier] # None
                        /\ orders' = [orders EXCEPT ![id] = new]
  BY DEF CustomerOrders, Others!Appear
<1>2. new \in Row /\ new # None
  BY WorkerAssumption DEF Row, Statuses
<1>3. OrdersStep
  BY <1>1, <1>2 DEF OrdersStep, WorkerInv, WorkerTypeOK
<1>4. PICK n \in 0..MaxOrders : Created = 1..n
  BY DEF WorkerInv, NoGaps
<1>5. Created' = Created \cup {id}
  BY <1>1, <1>2 DEF Created, WorkerInv, WorkerTypeOK
<1>6. id = n + 1
  BY <1>1, <1>4, WorkerAssumption DEF Created, Ids
<1>7. Created' = 1..(n + 1) /\ n + 1 \in 0..MaxOrders
  BY <1>4, <1>5, <1>6, WorkerAssumption DEF Ids
<1>8. QED
  BY <1>3, <1>7 DEF NoGaps

\* A move another client makes is one the worker might have asked for.
LEMMA OthersMoveIsApplied ==
  ASSUME WorkerTypeOK, NEW id \in Ids, OthersMove(id)
  PROVE  \E m \in Seen : m.id = id /\ orders[id] # None /\ WasLegal(m) /\ Apply(m)
<1>1. PICK status \in Statuses : Others!Move(id, status)
  BY DEF OthersMove
<1>2. /\ orders[id] # None
      /\ CanTransition(orders[id].status, status)
      /\ orders' = [orders EXCEPT ![id] = [status |-> status, version |-> @.version + 1]]
  BY <1>1 DEF Others!Move, Others!CanTransition, Others!Moves, CanTransition, Moves
<1>3. orders[id] \in Row
  BY <1>2 DEF WorkerTypeOK
<1> DEFINE m == [id |-> id, status |-> status, version |-> orders[id].version]
<1>4. m \in Seen /\ WasLegal(m)
  BY <1>2, <1>3 DEF Seen, Row, WasLegal
<1>5. Apply(m)
  BY <1>2 DEF Apply, Accepts
<1>6. QED
  BY <1>2, <1>4, <1>5

LEMMA OthersMoveMoves ==
  ASSUME WorkerTypeOK, NEW id \in Ids, OthersMove(id)
  PROVE  OrdersStep /\ Created' = Created
  BY OthersMoveIsApplied, ApplyMoves

(***************************************************************************)
(* The page.                                                               *)
(***************************************************************************)

\* A page lists orders as they are.
LEMMA PageIsTrue ==
  ASSUME WorkerInv
  PROVE  /\ NewestPage \in Seq(Seen)
         /\ \A k \in 1..Len(NewestPage) : WasSo(NewestPage[k])
<1> DEFINE last == Cardinality(Created)
           size == IF last < PageSize THEN last ELSE PageSize
           entry(k) == [id      |-> last + 1 - k,
                        status  |-> orders[last + 1 - k].status,
                        version |-> orders[last + 1 - k].version]
<1>1. PICK n \in 0..MaxOrders : Created = 1..n
  BY DEF WorkerInv, NoGaps
<1>2. last = n
  BY <1>1, FS_Interval, WorkerAssumption
<1>3. size \in 0..n
  BY <1>2, WorkerAssumption
<1>4. \A k \in 1..size : last + 1 - k \in Created /\ last + 1 - k \in Ids
  BY <1>1, <1>2, <1>3, WorkerAssumption DEF Ids
<1>5. \A k \in 1..size : entry(k) \in Seen /\ WasSo(entry(k))
  <2>1. SUFFICES ASSUME NEW k \in 1..size PROVE entry(k) \in Seen /\ WasSo(entry(k))
    OBVIOUS
  <2>2. orders[last + 1 - k] \in Row /\ orders[last + 1 - k] # None /\ last + 1 - k \in Ids
    BY <1>4 DEF Created, WorkerInv, WorkerTypeOK
  <2>3. QED
    BY <2>2 DEF Seen, WasSo, Row
<1>6. NewestPage = [k \in 1..size |-> entry(k)]
  BY DEF NewestPage
<1>7. NewestPage \in Seq(Seen) /\ Len(NewestPage) = size
  BY <1>3, <1>5, <1>6
<1>8. QED
  BY <1>5, <1>6, <1>7

(***************************************************************************)
(* The invariant.                                                          *)
(***************************************************************************)

LEMMA WorkerInitInv == WorkerInit => WorkerInv
<1>1. SUFFICES ASSUME WorkerInit PROVE WorkerInv
  OBVIOUS
<1>2. IsABag(EmptyBag) /\ BagToSet(EmptyBag) = {}
  BY DEF EmptyBag, IsABag, BagToSet, SetToBag
<1>3. WorkerTypeOK
  <2>1. catalog \in BOOLEAN /\ ready \in BOOLEAN
    BY <1>1 DEF WorkerInit
  <2>2. QED
    BY <1>1, <1>2, <2>1, WorkerAssumption DEF WorkerInit, WorkerTypeOK
<1>4. NoGaps
  <2>1. Created = 1..0 /\ 0 \in 0..MaxOrders
    BY <1>1, WorkerAssumption DEF WorkerInit, Created
  <2>2. QED
    BY <2>1 DEF NoGaps
<1>5. QED
  BY <1>1, <1>2, <1>3, <1>4 DEF WorkerInit, WorkerInv, ReadyMeansPublished

\* The move NextStatus names is legal.
LEMMA NextStatusIsLegal ==
  ASSUME NEW s \in Statuses, NextStatus(s) # None
  PROVE  NextStatus(s) \in Statuses /\ CanTransition(s, NextStatus(s))
  BY DEF NextStatus, NextOf, Statuses, CanTransition, Moves

\* What the worker is about to ask for is something it knows of.
LEMMA CurrentIsLegal ==
  ASSUME WorkerInv, queue # <<>>, NextStatus(Head(queue).status) # None
  PROVE  Current \in Seen /\ WasLegal(Current)
<1>1. Head(queue) \in Seen /\ WasSo(Head(queue))
  BY DEF WorkerInv, WorkerTypeOK
<1>2. Head(queue).status \in Statuses
  BY <1>1 DEF Seen
<1>3. NextStatus(Head(queue).status) \in Statuses
      /\ CanTransition(Head(queue).status, NextStatus(Head(queue).status))
  BY <1>2, NextStatusIsLegal
<1>4. QED
  BY <1>1, <1>3 DEF Current, Seen, WasSo, WasLegal

LEMMA TailIsKnown ==
  ASSUME WorkerInv, queue # <<>>
  PROVE  Tail(queue) \in Seq(Seen) /\ \A k \in 1..Len(Tail(queue)) : WasSo(Tail(queue)[k])
<1>1. queue \in Seq(Seen)
  BY DEF WorkerInv, WorkerTypeOK
<1>2. /\ Tail(queue) \in Seq(Seen)
      /\ Len(Tail(queue)) = Len(queue) - 1
      /\ \A k \in 1..Len(Tail(queue)) : Tail(queue)[k] = queue[k + 1]
  BY <1>1
<1>3. QED
  BY <1>1, <1>2 DEF WorkerInv

\* The worker forgets or learns, and the orders stay as they are.
LEMMA QuietStepKeepsInv ==
  ASSUME WorkerInv, WorkerTypeOK', UNCHANGED orders,
         \A k \in 1..Len(queue') : WasSo(queue'[k]),
         \A m \in BagToSet(wire') : WasLegal(m),
         ReadyMeansPublished'
  PROVE  WorkerInv'
  BY DEF WorkerInv, WasSo, WasLegal, NoGaps, Created

\* The orders move on, and what the worker knows is no more than before.
LEMMA MoveKeepsInv ==
  ASSUME WorkerInv, OrdersStep, NoGaps', WorkerTypeOK',
         \A k \in 1..Len(queue') : queue'[k] \in Seen /\ WasSo(queue'[k]),
         BagToSet(wire') \subseteq BagToSet(wire),
         UNCHANGED <<catalog, ready>>
  PROVE  WorkerInv'
<1>1. \A e \in Seen : (WasSo(e) => WasSo(e)') /\ (WasLegal(e) => WasLegal(e)')
  BY KnowledgeStaysTrue DEF WorkerInv
<1>2. (\A k \in 1..Len(queue) : WasSo(queue[k]))'
  BY <1>1 DEF WasSo
<1>3. (\A m \in BagToSet(wire) : WasLegal(m))'
  BY <1>1 DEF WorkerInv, WorkerTypeOK, WasLegal
<1>4. ReadyMeansPublished'
  BY DEF WorkerInv, ReadyMeansPublished
<1>5. QED
  BY <1>2, <1>3, <1>4 DEF WorkerInv

\* Nothing the worker knows changes.
LEMMA SameQueue ==
  ASSUME WorkerInv
  PROVE  queue \in Seq(Seen) /\ \A k \in 1..Len(queue) : queue[k] \in Seen /\ WasSo(queue[k])
  BY DEF WorkerInv, WorkerTypeOK

LEMMA FaultIsCounted == ASSUME WorkerInv, Fault PROVE faults' \in 0..MaxFaults
  BY WorkerAssumption DEF Fault, WorkerInv, WorkerTypeOK

LEMMA PlatformKeepsInv ==
  ASSUME WorkerInv,
         \/ CustomerOrders
         \/ \E id \in Ids : OthersMove(id)
         \/ \E m \in BagToSet(wire) : HandleLate(m) \/ Lose(m)
  PROVE  WorkerInv'
<1>1. CASE CustomerOrders
  <2>1. WorkerTypeOK'
    BY <1>1, CustomerOrdersMoves DEF CustomerOrders, OrdersStep, WorkerInv, WorkerTypeOK, state
  <2>2. QED
    BY <1>1, <2>1, CustomerOrdersMoves, SameQueue, MoveKeepsInv DEF CustomerOrders, state
<1>2. ASSUME NEW id \in Ids, OthersMove(id) PROVE WorkerInv'
  <2>1. OrdersStep /\ NoGaps'
    BY <1>2, OthersMoveMoves DEF WorkerInv, NoGaps
  <2>2. WorkerTypeOK'
    BY <1>2, <2>1 DEF OthersMove, OrdersStep, WorkerInv, WorkerTypeOK, state
  <2>3. QED
    BY <1>2, <2>1, <2>2, SameQueue, MoveKeepsInv DEF OthersMove, state
<1>3. ASSUME NEW m \in BagToSet(wire), HandleLate(m) PROVE WorkerInv'
  <2>1. m \in Seen /\ WasLegal(m)
    BY <1>3 DEF WorkerInv, WorkerTypeOK
  <2>2. OrdersStep /\ NoGaps'
    BY <1>3, <2>1, ApplyMoves DEF HandleLate, WorkerInv, NoGaps, WasLegal
  <2>3. IsABag(wire') /\ BagToSet(wire') \subseteq BagToSet(wire)
    BY <1>3, TakeFromBag DEF HandleLate, WorkerInv, WorkerTypeOK
  <2>4. WorkerTypeOK'
    BY <1>3, <2>2, <2>3 DEF HandleLate, OrdersStep, WorkerInv, WorkerTypeOK, state
  <2>5. QED
    BY <1>3, <2>2, <2>3, <2>4, SameQueue, MoveKeepsInv DEF HandleLate, state
<1>4. ASSUME NEW m \in BagToSet(wire), Lose(m) PROVE WorkerInv'
  <2>1. IsABag(wire') /\ BagToSet(wire') \subseteq BagToSet(wire)
    BY <1>4, TakeFromBag DEF Lose, WorkerInv, WorkerTypeOK
  <2>2. faults' \in 0..MaxFaults
    BY <1>4, FaultIsCounted DEF Lose
  <2>3. WorkerTypeOK'
    BY <1>4, <2>1, <2>2 DEF Lose, WorkerInv, WorkerTypeOK, platform, state
  <2>4. QED
    BY <1>4, <2>1, <2>3, QuietStepKeepsInv
    DEF Lose, WorkerInv, ReadyMeansPublished, platform, state
<1>5. QED
  BY <1>1, <1>2, <1>3, <1>4

LEMMA WorkerMovesKeepInv ==
  ASSUME WorkerInv, WorkerStep \/ SyncFails \/ ListFails \/ TimesOut \/ Crash
  PROVE  WorkerInv'
<1> USE DEF Goes
<1>1. CASE Tick
  <2>1. WorkerTypeOK'
    BY <1>1 DEF Tick, WorkerInv, WorkerTypeOK, platform, state
  <2>2. QED
    BY <1>1, <2>1, QuietStepKeepsInv DEF Tick, WorkerInv, ReadyMeansPublished, platform, state
<1>2. CASE SyncCatalog
  <2>1. catalog' \in BOOLEAN /\ ready' \in BOOLEAN /\ catalog'
    BY <1>2 DEF SyncCatalog
  <2>2. WorkerTypeOK'
    BY <1>2, <2>1 DEF SyncCatalog, WorkerInv, WorkerTypeOK
  <2>3. QED
    BY <1>2, <2>1, <2>2, QuietStepKeepsInv DEF SyncCatalog, WorkerInv, ReadyMeansPublished
<1>3. CASE SyncFails
  <2>1. catalog' \in BOOLEAN /\ (catalog => catalog')
    <3>1. CASE catalog' = catalog
      BY <3>1 DEF WorkerInv, WorkerTypeOK
    <3>2. CASE catalog'
      BY <3>2
    <3>3. QED
      BY <1>3, <3>1, <3>2 DEF SyncFails
  <2>2. faults' \in 0..MaxFaults
    BY <1>3, FaultIsCounted DEF SyncFails
  <2>3. WorkerTypeOK'
    BY <1>3, <2>1, <2>2 DEF SyncFails, WorkerInv, WorkerTypeOK, state
  <2>4. QED
    BY <1>3, <2>1, <2>3, QuietStepKeepsInv
    DEF SyncFails, WorkerInv, ReadyMeansPublished, state
<1>4. CASE ListOrders
  <2>1. WorkerTypeOK'
    BY <1>4, PageIsTrue DEF ListOrders, WorkerInv, WorkerTypeOK, platform, state
  <2>2. QED
    BY <1>4, <2>1, PageIsTrue, QuietStepKeepsInv
    DEF ListOrders, WorkerInv, ReadyMeansPublished, platform, state
<1>5. CASE ListFails
  <2>1. faults' \in 0..MaxFaults
    BY <1>5, FaultIsCounted DEF ListFails
  <2>2. WorkerTypeOK'
    BY <1>5, <2>1 DEF ListFails, WorkerInv, WorkerTypeOK, platform, state
  <2>3. QED
    BY <1>5, <2>2, QuietStepKeepsInv
    DEF ListFails, WorkerInv, ReadyMeansPublished, platform, state
<1>6. CASE Skip \/ TimesOut
  <2>1. queue # <<>>
    BY <1>6 DEF Skip, TimesOut, WorkerInv, WorkerTypeOK
  <2>2. faults' \in 0..MaxFaults
    BY <1>6, FaultIsCounted DEF Skip, TimesOut, WorkerInv, WorkerTypeOK
  <2>3. WorkerTypeOK'
    BY <1>6, <2>1, <2>2, TailIsKnown
    DEF Skip, TimesOut, WorkerInv, WorkerTypeOK, platform, state
  <2>4. QED
    BY <1>6, <2>1, <2>3, TailIsKnown, QuietStepKeepsInv
    DEF Skip, TimesOut, WorkerInv, ReadyMeansPublished, platform, state
<1>7. CASE Send
  <2>1. Current \in Seen /\ WasLegal(Current) /\ queue # <<>>
    BY <1>7, CurrentIsLegal DEF Send
  <2>2. IsABag(wire') /\ BagToSet(wire') = BagToSet(wire) \cup {Current}
    BY <1>7, PutInBag DEF Send, WorkerInv, WorkerTypeOK
  <2>3. WorkerTypeOK'
    BY <1>7, <2>1, <2>2 DEF Send, WorkerInv, WorkerTypeOK, platform, state
  <2>4. QED
    BY <1>7, <2>1, <2>2, <2>3, QuietStepKeepsInv
    DEF Send, WorkerInv, ReadyMeansPublished, platform, state
<1>8. CASE Answered
  <2>1. Current \in Seen /\ WasLegal(Current) /\ queue # <<>>
    BY <1>8 DEF Answered, WorkerInv, WorkerTypeOK, BagIn
  <2>2. OrdersStep /\ NoGaps'
    BY <1>8, <2>1, ApplyMoves DEF Answered, WorkerInv, NoGaps, WasLegal
  <2>3. IsABag(wire') /\ BagToSet(wire') \subseteq BagToSet(wire)
    BY <1>8, TakeFromBag DEF Answered, WorkerInv, WorkerTypeOK
  <2>4. processed' \in Nat
    BY <1>8 DEF Answered, WorkerInv, WorkerTypeOK
  <2>5. WorkerTypeOK'
    BY <1>8, <2>1, <2>2, <2>3, <2>4, TailIsKnown
    DEF Answered, OrdersStep, WorkerInv, WorkerTypeOK
  <2>6. \A k \in 1..Len(queue') : queue'[k] \in Seen /\ WasSo(queue'[k])
    BY <1>8, <2>1, TailIsKnown DEF Answered
  <2>7. QED
    BY <1>8, <2>2, <2>3, <2>5, <2>6, MoveKeepsInv DEF Answered
<1>9. CASE EndTick
  <2>1. WorkerTypeOK'
    BY <1>9 DEF EndTick, WorkerInv, WorkerTypeOK, platform, state
  <2>2. QED
    BY <1>9, <2>1, QuietStepKeepsInv
    DEF EndTick, WorkerInv, ReadyMeansPublished, platform, state
<1>10. CASE Crash
  <2>1. ready' \in BOOLEAN /\ ~ready'
    BY <1>10 DEF Crash
  <2>2. faults' \in 0..MaxFaults
    BY <1>10, FaultIsCounted DEF Crash
  <2>3. WorkerTypeOK'
    BY <1>10, <2>1, <2>2 DEF Crash, WorkerInv, WorkerTypeOK, platform
  <2>4. QED
    BY <1>10, <2>1, <2>3, QuietStepKeepsInv DEF Crash, WorkerInv, ReadyMeansPublished, platform
<1>11. QED
  BY <1>1, <1>2, <1>3, <1>4, <1>5, <1>6, <1>7, <1>8, <1>9, <1>10 DEF WorkerStep

LEMMA WorkerStepKeepsInv ==
  ASSUME WorkerInv, [WorkerNext]_workerVars
  PROVE  WorkerInv'
<1>1. CASE UNCHANGED workerVars
  <2>1. WorkerTypeOK'
    BY <1>1 DEF workerVars, WorkerInv, WorkerTypeOK, platform, state
  <2>2. QED
    BY <1>1, <2>1, QuietStepKeepsInv DEF workerVars, WorkerInv, ReadyMeansPublished
<1>2. QED
  BY <1>1, PlatformKeepsInv, WorkerMovesKeepInv DEF WorkerNext

\* Whatever the worker has listed or asked for was so, and was legal, at the
\* version it carries, through restarts, cancellations and late calls
\* (worker.go:76-124).
THEOREM WorkerInvariant == WorkerSpec => []WorkerInv
BY WorkerStepKeepsInv, WorkerInitInv, PTL DEF WorkerSpec

\* The platform refuses a call of the worker only because its version is old,
\* never as an illegal move (worker.go:106-124 against status.go:27-36).
THEOREM OnlyStaleCallsAreRefused == WorkerSpec => []RefusedOnlyAsStale
<1>1. WorkerInv => RefusedOnlyAsStale
  BY DEF WorkerInv, RefusedOnlyAsStale, WasLegal
<1>2. QED
  BY <1>1, WorkerInvariant, PTL

\* Ready is never reported before the catalog is published (worker.go:62-73).
THEOREM ReadyOnlyWhenPublished == WorkerSpec => []ReadyMeansPublished
<1>1. WorkerInv => ReadyMeansPublished
  BY DEF WorkerInv
<1>2. QED
  BY <1>1, WorkerInvariant, PTL

(***************************************************************************)
(* What is counted.                                                        *)
(***************************************************************************)

\* A move adds one to the moves made, and is a new one.
LEMMA ApplyCounts ==
  ASSUME WorkerInv, NEW m \in Seen, WasLegal(m), Apply(m), OrdersStep
  PROVE  /\ \/ MovesMade' = MovesMade
            \/ MovesMade' = MovesMade \cup {<<m.id, m.version>>}
         /\ Accepts(m) /\ m.status # "cancelled" =>
              /\ MovesMade' = MovesMade \cup {<<m.id, m.version>>}
              /\ <<m.id, m.version>> \notin MovesMade
<1>1. m.id \in Created /\ m.id \in Ids /\ m.version \in Nat \ {0} /\ m.status \in Statuses
  BY DEF Seen, WasLegal, Created
<1>2. \A id \in Created : orders[id].version \in Nat \ {0}
  BY DEF Created, WorkerInv, WorkerTypeOK, Row
<1>3. CASE ~Accepts(m)
  <2>1. orders' = orders
    BY <1>3 DEF Apply
  <2>2. QED
    BY <1>3, <2>1 DEF MovesMade, MovesOf, Created
<1>4. CASE Accepts(m)
  <2> DEFINE new == [status |-> m.status, version |-> m.version + 1]
  <2>1. orders' = [orders EXCEPT ![m.id] = new] /\ orders[m.id].version = m.version
    BY <1>4 DEF Apply, Accepts
  <2>2. orders[m.id].status # "cancelled"
    BY <1>4 DEF Accepts, CanTransition, Moves
  <2>3. orders'[m.id] = new /\ \A id \in Ids \ {m.id} : orders'[id] = orders[id]
    BY <1>1, <2>1 DEF WorkerInv, WorkerTypeOK
  <2>4. Created' = Created
    BY <1>1, <2>3 DEF OrdersStep, Created
  <2>5. MovesOf(m.id) = m.version - 1 /\ \A id \in Created \ {m.id} : MovesOf(id)' = MovesOf(id)
    BY <2>1, <2>2, <2>3 DEF MovesOf, Created
  <2>6. MovesOf(m.id)' = IF m.status = "cancelled" THEN m.version - 1 ELSE m.version
    BY <1>1, <2>3 DEF MovesOf
  <2>7. CASE m.status = "cancelled"
    <3>1. \A id \in Created : MovesOf(id)' = MovesOf(id)
      BY <2>5, <2>6, <2>7
    <3>2. MovesMade' = MovesMade
      BY <2>4, <3>1 DEF MovesMade
    <3>3. QED
      BY <2>7, <3>2
  <2>8. CASE m.status # "cancelled"
    <3>1. 1..MovesOf(m.id)' = (1..MovesOf(m.id)) \cup {m.version}
      BY <1>1, <2>5, <2>6, <2>8
    <3>2. MovesMade' = MovesMade \cup {<<m.id, m.version>>}
      <4>1. ASSUME NEW id, NEW k
            PROVE  <<id, k>> \in MovesMade' <=> (<<id, k>> \in MovesMade \/ <<id, k>> = <<m.id, m.version>>)
        BY <1>1, <2>4, <2>5, <3>1 DEF MovesMade
      <4>2. (\A e \in MovesMade : e = <<e[1], e[2]>>) /\ (\A e \in MovesMade' : e = <<e[1], e[2]>>)
        BY DEF MovesMade
      <4>3. QED
        BY <4>1, <4>2
    <3>3. <<m.id, m.version>> \notin MovesMade
      BY <1>1, <2>5 DEF MovesMade
    <3>4. QED
      BY <3>2, <3>3
  <2>9. QED
    BY <2>7, <2>8
<1>5. QED
  BY <1>3, <1>4

\* A new order has not been moved.
LEMMA CustomersCountNothing ==
  ASSUME WorkerInv, CustomerOrders
  PROVE  MovesMade' = MovesMade
<1> DEFINE new == [status |-> "pending_partner", version |-> 1]
<1>1. PICK id \in Ids : orders[id] = None /\ orders' = [orders EXCEPT ![id] = new]
  BY DEF CustomerOrders, Others!Appear
<1>2. new # None
  BY WorkerAssumption DEF Row, Statuses
<1>3. orders'[id] = new /\ \A other \in Ids \ {id} : orders'[other] = orders[other]
  BY <1>1 DEF WorkerInv, WorkerTypeOK
<1>4. Created' = Created \cup {id} /\ id \notin Created
  BY <1>1, <1>2, <1>3 DEF Created
<1>5. MovesOf(id)' = 0 /\ \A other \in Created : MovesOf(other)' = MovesOf(other)
  BY <1>1, <1>3 DEF MovesOf, Created
<1>6. {id} \X (1..MovesOf(id)') = {}
  BY <1>5
<1>7. QED
  BY <1>4, <1>5, <1>6 DEF MovesMade

CountInv == IsFiniteSet(MovesMade) /\ CountsOnlyUpdates

\* What is counted was made.
LEMMA CountGrows ==
  ASSUME WorkerInv, CountInv, NEW move,
         MovesMade' = MovesMade \/ MovesMade' = MovesMade \cup {move},
         \/ processed' \in {processed, 0}
         \/ /\ processed' = processed + 1
            /\ MovesMade' = MovesMade \cup {move}
            /\ move \notin MovesMade
  PROVE  CountInv'
<1>1. processed \in Nat /\ Cardinality(MovesMade) \in Nat /\ processed <= Cardinality(MovesMade)
  BY FS_CardinalityType DEF WorkerInv, WorkerTypeOK, CountInv, CountsOnlyUpdates
<1>2. /\ IsFiniteSet(MovesMade \cup {move})
      /\ Cardinality(MovesMade \cup {move}) =
           IF move \in MovesMade THEN Cardinality(MovesMade) ELSE Cardinality(MovesMade) + 1
  BY FS_AddElement DEF CountInv
<1>3. IsFiniteSet(MovesMade')
  BY <1>2 DEF CountInv
<1>4. processed' <= Cardinality(MovesMade')
  BY <1>1, <1>2
<1>5. QED
  BY <1>3, <1>4 DEF CountInv, CountsOnlyUpdates

LEMMA WorkerCounts ==
  ASSUME WorkerInv, CountInv, [WorkerNext]_workerVars
  PROVE  CountInv'
<1>1. CASE UNCHANGED orders /\ processed' \in {processed, 0}
  BY <1>1, CountGrows DEF MovesMade, MovesOf, Created
<1>2. CASE CustomerOrders
  BY <1>2, CustomersCountNothing, CountGrows DEF CustomerOrders, state
<1>3. ASSUME NEW m \in BagToSet(wire), HandleLate(m) PROVE CountInv'
  <2>1. m \in Seen /\ WasLegal(m) /\ Apply(m) /\ processed' = processed
    BY <1>3 DEF HandleLate, WorkerInv, WorkerTypeOK, state
  <2>2. OrdersStep
    BY <2>1, ApplyMoves DEF WorkerInv, WasLegal
  <2>3. QED
    BY <2>1, <2>2, ApplyCounts, CountGrows
<1>4. CASE Answered
  <2>1. Current \in Seen /\ WasLegal(Current) /\ Apply(Current)
    BY <1>4 DEF Answered, WorkerInv, WorkerTypeOK, BagIn
  <2>2. OrdersStep
    BY <2>1, ApplyMoves DEF WorkerInv, WasLegal
  <2>3. Current.status # "cancelled"
    <3>1. NextStatus(Head(queue).status) # None
      BY <2>1, WorkerAssumption DEF Current, Seen
    <3>2. QED
      BY <3>1 DEF Current, NextStatus, NextOf
  <2>4. processed' = IF Accepts(Current) THEN processed + 1 ELSE processed
    BY <1>4 DEF Answered
  <2>5. CASE Accepts(Current)
    BY <2>1, <2>2, <2>3, <2>4, <2>5, ApplyCounts, CountGrows
  <2>6. CASE ~Accepts(Current)
    BY <2>1, <2>2, <2>4, <2>6, ApplyCounts, CountGrows
  <2>7. QED
    BY <2>5, <2>6
<1>5. ASSUME NEW id \in Ids, OthersMove(id) PROVE CountInv'
  <2>1. PICK m \in Seen : m.id = id /\ orders[id] # None /\ WasLegal(m) /\ Apply(m)
    BY <1>5, OthersMoveIsApplied DEF WorkerInv
  <2>2. OrdersStep /\ processed' = processed
    BY <1>5, <2>1, ApplyMoves DEF OthersMove, WorkerInv, state
  <2>3. QED
    BY <2>1, <2>2, ApplyCounts, CountGrows
<1>6. QED
  BY <1>1, <1>2, <1>3, <1>4, <1>5
  DEF WorkerNext, WorkerStep, Lose, Tick, SyncCatalog, ListOrders, Skip, Send, EndTick,
      SyncFails, ListFails, TimesOut, Crash, platform, state, workerVars

LEMMA NothingCounted == WorkerInit => CountInv
<1>1. SUFFICES ASSUME WorkerInit PROVE CountInv
  OBVIOUS
<1>2. MovesMade = {} /\ processed = 0
  BY <1>1 DEF WorkerInit, MovesMade, Created
<1>3. QED
  BY <1>2, FS_EmptySet DEF CountInv, CountsOnlyUpdates

\* /state never reports more updates than the orders have had, whatever is
\* repeated, lost or late (worker.go:88-95).
THEOREM OnlyUpdatesAreCounted == WorkerSpec => []CountsOnlyUpdates
<1>1. CountInv => CountsOnlyUpdates
  BY DEF CountInv
<1>2. QED
  BY <1>1, NothingCounted, WorkerCounts, WorkerInvariant, PTL DEF WorkerSpec

(***************************************************************************)
(* Behind the rate limiter.                                                *)
(***************************************************************************)

\* The steps a refusal adds: the worker forgets, and the orders stay as they are.
LEMMA RefusalsKeepInv ==
  ASSUME WorkerInv,
         CallRefused \/ UpdateRefused \/ \E m \in BagToSet(wire) : LateRefused(m)
  PROVE  WorkerInv' /\ UNCHANGED orders
<1> USE DEF Goes, platform, state
<1>1. CASE CallRefused
  <2>1. WorkerTypeOK'
    BY <1>1 DEF CallRefused, WorkerInv, WorkerTypeOK
  <2>2. QED
    BY <1>1, <2>1, QuietStepKeepsInv DEF CallRefused, WorkerInv, ReadyMeansPublished
<1>2. CASE UpdateRefused
  <2>1. queue # <<>>
    BY <1>2 DEF UpdateRefused, WorkerInv, WorkerTypeOK
  <2>2. IsABag(wire') /\ BagToSet(wire') \subseteq BagToSet(wire)
    BY <1>2, TakeFromBag DEF UpdateRefused, WorkerInv, WorkerTypeOK
  <2>3. WorkerTypeOK'
    BY <1>2, <2>1, <2>2, TailIsKnown DEF UpdateRefused, WorkerInv, WorkerTypeOK
  <2>4. QED
    BY <1>2, <2>1, <2>2, <2>3, TailIsKnown, QuietStepKeepsInv
    DEF UpdateRefused, WorkerInv, ReadyMeansPublished
<1>3. ASSUME NEW m \in BagToSet(wire), LateRefused(m) PROVE WorkerInv' /\ UNCHANGED orders
  <2>1. IsABag(wire') /\ BagToSet(wire') \subseteq BagToSet(wire)
    BY <1>3, TakeFromBag DEF LateRefused, WorkerInv, WorkerTypeOK
  <2>2. WorkerTypeOK'
    BY <1>3, <2>1 DEF LateRefused, WorkerInv, WorkerTypeOK
  <2>3. QED
    BY <1>3, <2>1, <2>2, QuietStepKeepsInv DEF LateRefused, WorkerInv, ReadyMeansPublished
<1>4. QED
  BY <1>1, <1>2, <1>3

\* Behind the limiter the worker does what it does without, or is refused.
LEMMA ThrottledStepIsKnown ==
  ASSUME ThrottledNext
  PROVE  \/ WorkerNext \/ UNCHANGED workerVars
         \/ CallRefused \/ UpdateRefused \/ \E m \in BagToSet(wire) : LateRefused(m)
  BY DEF ThrottledNext, ThrottledStep, TickAfter, Earn, WorkerNext, WorkerStep

\* A refusal, 429 at any call, teaches the worker nothing wrong
\* (middleware.go:155-160, worker.go:88-95).
THEOREM ThrottledWorkerInvariant == ThrottledSpec => []WorkerInv
<1>1. WorkerInv /\ [ThrottledNext]_throttledVars => WorkerInv'
  <2>1. SUFFICES ASSUME WorkerInv, [ThrottledNext]_throttledVars PROVE WorkerInv'
    OBVIOUS
  <2>2. CASE WorkerNext \/ UNCHANGED workerVars
    BY <2>1, <2>2, WorkerStepKeepsInv
  <2>3. QED
    BY <2>1, <2>2, ThrottledStepIsKnown, RefusalsKeepInv DEF throttledVars
<1>2. QED
  BY <1>1, WorkerInitInv, PTL DEF ThrottledSpec, ThrottledInit

\* Refused calls make the worker send no illegal move, and none is believed to
\* have published the catalog (worker.go:62-73, worker.go:106-124).
THEOREM ThrottledWorkerIsSafe ==
  ThrottledSpec => [](RefusedOnlyAsStale /\ ReadyMeansPublished)
<1>1. WorkerInv => RefusedOnlyAsStale /\ ReadyMeansPublished
  BY DEF WorkerInv, RefusedOnlyAsStale, WasLegal
<1>2. QED
  BY <1>1, ThrottledWorkerInvariant, PTL

\* Behind the limiter, too, nothing but updates is counted: a refusal is none
\* (middleware.go:155-160, worker.go:88-95).
THEOREM ThrottledWorkerCounts == ThrottledSpec => []CountsOnlyUpdates
<1>1. WorkerInv /\ CountInv /\ [ThrottledNext]_throttledVars => CountInv'
  <2>1. SUFFICES ASSUME WorkerInv, CountInv, [ThrottledNext]_throttledVars PROVE CountInv'
    OBVIOUS
  <2>2. CASE WorkerNext \/ UNCHANGED workerVars
    BY <2>1, <2>2, WorkerCounts
  <2>3. CASE CallRefused \/ UpdateRefused \/ \E m \in BagToSet(wire) : LateRefused(m)
    <3>1. UNCHANGED <<orders, processed>>
      BY <2>3 DEF CallRefused, UpdateRefused, LateRefused, platform, state
    <3>2. QED
      BY <2>1, <3>1 DEF CountInv, CountsOnlyUpdates, MovesMade, MovesOf, Created
  <2>4. QED
    BY <2>1, <2>2, <2>3, ThrottledStepIsKnown DEF throttledVars
<1>2. CountInv => CountsOnlyUpdates
  BY DEF CountInv
<1>3. QED
  BY <1>1, <1>2, NothingCounted, ThrottledWorkerInvariant, PTL DEF ThrottledSpec, ThrottledInit

================================================================================
