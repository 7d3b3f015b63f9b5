-------------------------------- MODULE Listing --------------------------------
(***************************************************************************)
(* GET /v1/partner/orders, page by page (cmd/api/partner_orders.go,        *)
(* OrderModel.GetAllForPartner, internal/models/filters.go), while the     *)
(* partner's orders are placed and moved on by others.                     *)
(*                                                                         *)
(* created_at and updated_at are now() of a transaction: the moment it     *)
(* began.  A row with an early time may therefore appear late.  An order   *)
(* is numbered by that moment, and ids follow it.                          *)
(***************************************************************************)
EXTENDS Integers, FiniteSets, OrderStatus

CONSTANTS
  MaxStamps,   \* bound: transactions that begin in a run
  Sizes,       \* page sizes asked for, 1..100 in the code
  Filters,     \* statuses asked for, "" for all
  None

\* The safelist of sort, "-" for a descending one.
Sorts == [column : {"created_at", "updated_at", "status"}, descending : BOOLEAN]

ASSUME ListingAssumption ==
  /\ MaxStamps \in Nat
  /\ Sizes \subseteq 1..100
  /\ Filters \subseteq Statuses \cup {""}
  /\ None \notin [status : Statuses, updated : Nat]
  /\ None \notin [sort : Sorts, filter : Filters, size : Sizes, page : Nat]

VARIABLES
  orders,   \* the partner's committed orders, by the moment they were begun at
  clock,    \* transactions begun so far
  open,     \* transactions that place or move an order, not committed yet
  walk,     \* what the client asks for, and the page it asks for next, or None
  listed,   \* how often each order was on a page of this walk
  ghosts    \* ghost: the orders there were when the walk began, and changes since

listing == <<orders, clock, open, walk, listed, ghosts>>

Stamps == 1..MaxStamps

Placed == {id \in Stamps : orders[id] # None}

Quiet == [before |-> {}, placed |-> 0, moved |-> 0]

ListingInit ==
  /\ orders = [id \in Stamps |-> None]
  /\ clock = 0
  /\ open = {}
  /\ walk = None
  /\ listed = [id \in Stamps |-> 0]
  /\ ghosts = Quiet

(***************************************************************************)
(* The query.                                                              *)
(***************************************************************************)

\* text sorts by the alphabet.
Alphabetical == [accepted |-> 1, cancelled |-> 2, cooking |-> 3, delivered |-> 4,
                 delivering |-> 5, pending_partner |-> 6, ready |-> 7]

Key(column, id) ==
  CASE column = "created_at" -> id
    [] column = "updated_at" -> orders[id].updated
    [] column = "status"     -> Alphabetical[orders[id].status]

\* ORDER BY column direction, id ASC
Precedes(sort, a, b) ==
  LET x == Key(sort.column, a)
      y == Key(sort.column, b)
  IN  IF x = y THEN a < b ELSE IF sort.descending THEN x > y ELSE x < y

Matching(filter) == {id \in Placed : filter = "" \/ orders[id].status = filter}

\* How many rows the query sorts before an order.
Before(id, matching, sort) == Cardinality({b \in matching : b # id /\ Precedes(sort, b, id)})

Offset(page, size) == (page - 1) * size

\* Mutant: one row more than asked for, to see whether there is another page.
RowsAndOneMore(matching, sort, page, size) ==
  {id \in matching :
     Before(id, matching, sort) \in Offset(page, size)..(Offset(page, size) + size)}

\* LIMIT size OFFSET offset
Rows(matching, sort, page, size) ==
  {id \in matching :
     Before(id, matching, sort) \in Offset(page, size)..(Offset(page, size) + size - 1)}

\* Mutant: the last page is left out unless it is full.
LastPageDown(total, size) == total \div size

\* The last page by CalculateMetadata, 0 of an empty Metadata.
LastPage(total, size) == (total + size - 1) \div size

\* count(*) OVER () is a column of the rows: without rows there is no total.
Total(rows, matching) == IF rows = {} THEN 0 ELSE Cardinality(matching)

(***************************************************************************)
(* The client.                                                             *)
(***************************************************************************)
Reading == walk # None /\ walk.page > 0

BeginWalk(sort, filter, size) ==
  /\ walk = None
  /\ walk' = [sort |-> sort, filter |-> filter, size |-> size, page |-> 1]
  /\ listed' = [id \in Stamps |-> 0]
  /\ ghosts' = [Quiet EXCEPT !.before = Matching(filter)]
  /\ UNCHANGED <<orders, clock, open>>

\* One request: the page, and whether the metadata promises another one.
ReadPage ==
  /\ Reading
  /\ LET matching == Matching(walk.filter)
         rows == Rows(matching, walk.sort, walk.page, walk.size)
         last == LastPage(Total(rows, matching), walk.size)
     IN  /\ listed' = [id \in Stamps |-> listed[id] + IF id \in rows THEN 1 ELSE 0]
         /\ walk' = [walk EXCEPT !.page = IF @ < last THEN @ + 1 ELSE 0]
  /\ UNCHANGED <<orders, clock, open, ghosts>>

\* The client has its list, as of now, and forgets it.
EndWalk ==
  /\ walk # None /\ ~Reading
  /\ walk' = None
  /\ listed' = [id \in Stamps |-> 0]
  /\ ghosts' = Quiet
  /\ UNCHANGED <<orders, clock, open>>

(***************************************************************************)
(* Customers and the partner's other clients.                              *)
(***************************************************************************)
Opens(id) ==
  /\ clock < MaxStamps
  /\ clock' = clock + 1
  /\ open' = open \cup {[order |-> id, stamp |-> clock + 1]}
  /\ UNCHANGED <<orders, walk, listed, ghosts>>

BeginPlace == Opens(clock + 1)

\* Updates of one order may overlap: FOR UPDATE makes the rest of them wait,
\* and their versions let through those that fit, but all have begun.
BeginMove(id) == id \in Placed /\ Opens(id)

Ends(t) ==
  /\ open' = open \ {t}
  /\ UNCHANGED <<clock, walk, listed>>

CommitPlace(t) ==
  /\ t \in open
  /\ orders[t.order] = None
  /\ orders' = [orders EXCEPT ![t.order] = [status |-> "pending_partner", updated |-> t.stamp]]
  /\ ghosts' = [ghosts EXCEPT !.placed = IF Reading THEN @ + 1 ELSE @]
  /\ Ends(t)

\* An update moves the order in the client's list, unless the list is one of
\* all orders in the order of their creation.
MovesRows == Reading /\ (walk.sort.column # "created_at" \/ walk.filter # "")

CommitMove(t, status) ==
  /\ t \in open
  /\ orders[t.order] # None
  /\ CanTransition(orders[t.order].status, status)
  /\ orders' = [orders EXCEPT ![t.order] = [status |-> status, updated |-> t.stamp]]
  /\ ghosts' = [ghosts EXCEPT !.moved = IF MovesRows THEN @ + 1 ELSE @]
  /\ Ends(t)

Abort(t) ==
  /\ t \in open
  /\ Ends(t)
  /\ UNCHANGED <<orders, ghosts>>

ListingNext ==
  \/ \E sort \in Sorts, filter \in Filters, size \in Sizes : BeginWalk(sort, filter, size)
  \/ ReadPage \/ EndWalk
  \/ BeginPlace
  \/ \E id \in Stamps : BeginMove(id)
  \/ \E t \in open : CommitPlace(t) \/ Abort(t) \/ \E s \in Statuses : CommitMove(t, s)

ListingSpec == ListingInit /\ [][ListingNext]_listing

(***************************************************************************)
(* Properties.                                                             *)
(***************************************************************************)
Listed == {id \in Stamps : listed[id] > 0}

Missed == (ghosts.before \cap Matching(walk.filter)) \ Listed

\* A client that reads page after page until the metadata promises no more
\* misses at most one order for each update that moved a row meanwhile.  Orders
\* that are placed, in whatever order their transactions commit, hide none: so
\* a walk through all orders by created_at, as the demo restaurant's listing is
\* sorted, misses nothing (orders.go:190-201, filters.go:31-51).
MissedOnlyByMoves ==
  walk # None /\ ~Reading => Cardinality(Missed) <= ghosts.moved

\* The second, third, ... time each order was listed.
Repeats == UNION {{id} \X (2..listed[id]) : id \in Stamps}

\* An order is only listed twice in a walk because something was placed or
\* moved in between, once for each of them (orders.go:190-201).
RepeatsAreExplained == Cardinality(Repeats) <= ghosts.placed + ghosts.moved

(***************************************************************************)
(* Why: a change shifts at most one row over the edge between the pages    *)
(* the client has read and those it has not.                               *)
(***************************************************************************)
ListingTypeOK ==
  /\ orders \in [Stamps -> [status : Statuses, updated : Stamps] \cup {None}]
  /\ clock \in 0..MaxStamps
  /\ open \subseteq [order : Stamps, stamp : Stamps]
  /\ walk \in [sort : Sorts, filter : Filters, size : Sizes, page : Nat] \cup {None}
  /\ listed \in [Stamps -> Nat]
  /\ ghosts \in [before : SUBSET Stamps, placed : Nat, moved : Nat]

\* How many rows of the client's list come before an order, and how many are
\* on the pages it has read.
Position(id) == Before(id, Matching(walk.filter), walk.sort)
Edge == Offset(walk.page, walk.size)

\* Rows that have slipped to the pages that were read, and were on none.
Skipped == {id \in (ghosts.before \cap Matching(walk.filter)) \ Listed : Position(id) < Edge}

\* Rows that were listed and are on the pages still to be read again.
Pushed == {id \in Matching(walk.filter) \cap Listed : Position(id) >= Edge}

\* An order that has left a status never returns to it.
Stage == [pending_partner |-> 1, accepted |-> 2, cooking |-> 3, ready |-> 4,
          delivering |-> 5, delivered |-> 6, cancelled |-> 7]

ListingInv ==
  /\ ListingTypeOK
  /\ ghosts.before \subseteq Placed
  /\ Listed \subseteq Placed
  /\ walk # None /\ walk.filter # "" =>
       \A id \in ghosts.before : Stage[orders[id].status] >= Stage[walk.filter]
  /\ IsFiniteSet(Repeats)
  /\ Reading => /\ Cardinality(Skipped) <= ghosts.moved
                /\ Cardinality(Repeats) + Cardinality(Pushed) <= ghosts.placed + ghosts.moved
  /\ MissedOnlyByMoves
  /\ RepeatsAreExplained

================================================================================
