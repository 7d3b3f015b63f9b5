----------------------------- MODULE ListingProofs -----------------------------
(***************************************************************************)
(* What a client that reads page after page misses or sees twice, for any  *)
(* number of orders and changes, any page size, sort and filter.  The      *)
(* argument is about ranks: a change of one row moves the others by one    *)
(* place at most, so at most one of them crosses the edge between the      *)
(* pages that were read and those that were not.                           *)
(***************************************************************************)
EXTENDS Listing, FiniteSetTheorems, TLAPS

(***************************************************************************)
(* Ranks in a finite set S that a relation R orders.                       *)
(***************************************************************************)
Ordered(R, S) ==
  /\ IsFiniteSet(S)
  /\ \A a \in S : <<a, a>> \notin R
  /\ \A a, b, c \in S : <<a, b>> \in R /\ <<b, c>> \in R => <<a, c>> \in R
  /\ \A a, b \in S : a = b \/ <<a, b>> \in R \/ <<b, a>> \in R

Below(R, S, x) == {b \in S : <<b, x>> \in R}

Rank(R, S, x) == Cardinality(Below(R, S, x))

\* The elements in the first n places, and the others.
Low(R, S, n) == {x \in S : Rank(R, S, x) < n}
High(R, S, n) == {x \in S : Rank(R, S, x) >= n}

LEMMA RankType ==
  ASSUME NEW R, NEW S, IsFiniteSet(S), NEW x
  PROVE  IsFiniteSet(Below(R, S, x)) /\ Rank(R, S, x) \in Nat
<1>1. IsFiniteSet(Below(R, S, x))
  BY FS_Subset DEF Below
<1>2. QED
  BY <1>1, FS_CardinalityType DEF Rank

\* Ranks follow the order, and so are distinct.
LEMMA RankGrows ==
  ASSUME NEW R, NEW S, Ordered(R, S), NEW a \in S, NEW b \in S, <<a, b>> \in R
  PROVE  Rank(R, S, a) < Rank(R, S, b)
<1>1. IsFiniteSet(Below(R, S, b)) /\ Rank(R, S, a) \in Nat /\ Rank(R, S, b) \in Nat
  BY RankType DEF Ordered
<1>2. Below(R, S, a) \subseteq Below(R, S, b)
  BY DEF Ordered, Below
<1>3. a \in Below(R, S, b) /\ a \notin Below(R, S, a)
  BY DEF Ordered, Below
<1>4. Rank(R, S, a) <= Rank(R, S, b) /\ Rank(R, S, a) # Rank(R, S, b)
  BY <1>1, <1>2, <1>3, FS_Subset DEF Rank
<1>5. QED
  BY <1>1, <1>4

LEMMA RankDistinguishes ==
  ASSUME NEW R, NEW S, Ordered(R, S), NEW a \in S, NEW b \in S,
         Rank(R, S, a) = Rank(R, S, b)
  PROVE  a = b
<1>1. Rank(R, S, a) \in Nat /\ Rank(R, S, b) \in Nat
  BY RankType DEF Ordered
<1>2. <<a, b>> \notin R
  BY <1>1, RankGrows
<1>3. <<b, a>> \notin R
  <2>1. <<b, a>> \in R => Rank(R, S, b) < Rank(R, S, a)
    BY RankGrows
  <2>2. QED
    BY <1>1, <2>1
<1>4. QED
  BY <1>2, <1>3 DEF Ordered

\* The places are numbered without gaps from 0 on.
LEMMA RankIsOnto ==
  ASSUME NEW R, NEW S, Ordered(R, S)
  PROVE  /\ Cardinality(S) \in Nat
         /\ \A x \in S : Rank(R, S, x) < Cardinality(S)
         /\ \A k \in 0..(Cardinality(S) - 1) : \E x \in S : Rank(R, S, x) = k
<1> DEFINE n == Cardinality(S)
           f == [x \in S |-> Rank(R, S, x)]
<1>1. IsFiniteSet(S) /\ n \in Nat
  BY FS_CardinalityType DEF Ordered
<1>2. ASSUME NEW x \in S PROVE Rank(R, S, x) \in 0..(n - 1)
  <2>1. Below(R, S, x) \subseteq S /\ x \in S /\ x \notin Below(R, S, x)
    BY DEF Below, Ordered
  <2>2. Rank(R, S, x) <= n /\ Rank(R, S, x) # n
    BY <1>1, <2>1, FS_Subset DEF Rank
  <2>3. Rank(R, S, x) \in Nat
    BY <1>1, RankType
  <2>4. QED
    BY <1>1, <2>2, <2>3
<1>3. f \in Injection(S, 0..(n - 1))
  <2>1. f \in [S -> 0..(n - 1)]
    BY <1>2
  <2>2. \A a, b \in S : f[a] = f[b] => a = b
    BY RankDistinguishes
  <2>3. QED
    BY <2>1, <2>2 DEF Injection, IsInjective
<1>4. IsFiniteSet(0..(n - 1)) /\ Cardinality(0..(n - 1)) = n
  BY <1>1, FS_Interval
<1>5. f \in Surjection(S, 0..(n - 1))
  BY <1>3, <1>4, FS_Injection
<1>6. \A k \in 0..(n - 1) : \E x \in S : f[x] = k
  BY <1>5 DEF Surjection
<1>7. QED
  BY <1>1, <1>2, <1>6

\* Without m, what comes after it moves up by one place.
LEMMA RankWithout ==
  ASSUME NEW R, NEW S, IsFiniteSet(S), NEW m, NEW x
  PROVE  Rank(R, S, x) = Rank(R, S \ {m}, x) + IF m \in S /\ <<m, x>> \in R THEN 1 ELSE 0
<1>1. IsFiniteSet(S \ {m})
  BY FS_RemoveElement
<1>2. IsFiniteSet(Below(R, S \ {m}, x)) /\ Rank(R, S \ {m}, x) \in Nat
  BY <1>1, RankType
<1>3. CASE m \in S /\ <<m, x>> \in R
  <2>1. Below(R, S, x) = Below(R, S \ {m}, x) \cup {m} /\ m \notin Below(R, S \ {m}, x)
    BY <1>3 DEF Below
  <2>2. QED
    BY <1>2, <1>3, <2>1, FS_AddElement DEF Rank
<1>4. CASE ~(m \in S /\ <<m, x>> \in R)
  <2>1. Below(R, S, x) = Below(R, S \ {m}, x)
    BY <1>4 DEF Below
  <2>2. QED
    BY <1>2, <1>4, <2>1 DEF Rank
<1>5. QED
  BY <1>3, <1>4

\* Nothing but the place of m, in S and in T, may have changed.
Differ(R, S, Q, T, m) ==
  /\ S \ {m} = T \ {m}
  /\ \A a, b \in S \ {m} : <<a, b>> \in R <=> <<a, b>> \in Q

LEMMA OneElementCrosses ==
  ASSUME NEW R, NEW S, Ordered(R, S), NEW Q, NEW T, Ordered(Q, T),
         NEW m, Differ(R, S, Q, T, m), NEW n \in Nat
  PROVE  /\ \A x, y \in Low(Q, T, n) \ Low(R, S, n) : x = y
         /\ \A x, y \in High(Q, T, n) \ High(R, S, n) : x = y
         /\ m \notin S => Low(Q, T, n) \ {m} \subseteq Low(R, S, n)
<1> DEFINE C == S \ {m}
           rank(x) == Rank(R, C, x)
<1>1. C = T \ {m} /\ C \subseteq S /\ C \subseteq T /\ IsFiniteSet(C) /\ Ordered(R, C)
  BY FS_RemoveElement DEF Differ, Ordered
<1>2. ASSUME NEW x \in C
      PROVE  /\ rank(x) \in Nat
             /\ Rank(R, S, x) = rank(x) + IF m \in S /\ <<m, x>> \in R THEN 1 ELSE 0
             /\ Rank(Q, T, x) = rank(x) + IF m \in T /\ <<m, x>> \in Q THEN 1 ELSE 0
  <2>1. Below(R, C, x) = Below(Q, C, x)
    BY DEF Below, Differ
  <2>2. Rank(Q, T \ {m}, x) = rank(x)
    BY <1>1, <2>1 DEF Rank
  <2>3. /\ Rank(R, S, x) = rank(x) + IF m \in S /\ <<m, x>> \in R THEN 1 ELSE 0
        /\ Rank(Q, T, x) = rank(x) + IF m \in T /\ <<m, x>> \in Q THEN 1 ELSE 0
    BY <2>2, RankWithout DEF Ordered
  <2>4. rank(x) \in Nat
    BY <1>1, RankType
  <2> HIDE DEF rank
  <2>5. QED
    BY <2>3, <2>4
<1> HIDE DEF rank
<1>3. ASSUME NEW x \in C, x \in Low(Q, T, n) \ Low(R, S, n)
      PROVE  rank(x) = n - 1 /\ m \in Low(R, S, n)
  <2>1. x \in S /\ Rank(Q, T, x) < n /\ ~(Rank(R, S, x) < n)
    BY <1>1, <1>3 DEF Low
  <2>2. rank(x) = n - 1 /\ m \in S /\ <<m, x>> \in R /\ Rank(R, S, x) = n
    BY <1>2, <2>1
  <2>3. Rank(R, S, m) < n
    BY <2>1, <2>2, RankGrows
  <2>4. QED
    BY <2>2, <2>3 DEF Low
<1>4. ASSUME NEW x \in C, x \in High(Q, T, n) \ High(R, S, n)
      PROVE  rank(x) = n - 1 /\ m \notin High(Q, T, n)
  <2>1. x \in S /\ x \in T /\ Rank(Q, T, x) >= n /\ ~(Rank(R, S, x) >= n)
    BY <1>1, <1>4 DEF High
  <2>2. rank(x) = n - 1 /\ m \in T /\ <<m, x>> \in Q /\ Rank(Q, T, x) = n
    BY <1>2, <2>1
  <2>3. Rank(Q, T, m) < n
    BY <2>1, <2>2, RankGrows
  <2>4. Rank(Q, T, m) \in Nat
    BY RankType DEF Ordered
  <2>5. QED
    BY <2>2, <2>3, <2>4 DEF High
<1>5. \A x, y \in C : rank(x) = rank(y) => x = y
  BY <1>1, RankDistinguishes DEF rank
<1>6. Low(Q, T, n) \subseteq C \cup {m} /\ High(Q, T, n) \subseteq C \cup {m}
  BY <1>1 DEF Low, High
<1>7. \A x, y \in Low(Q, T, n) \ Low(R, S, n) : x = y
  BY <1>3, <1>5, <1>6
<1>8. \A x, y \in High(Q, T, n) \ High(R, S, n) : x = y
  BY <1>4, <1>5, <1>6
<1>9. m \notin S => Low(Q, T, n) \ {m} \subseteq Low(R, S, n)
  BY <1>3, <1>6 DEF Low
<1>10. QED
  BY <1>7, <1>8, <1>9

\* A set that gains one element at most.
LEMMA OneMore ==
  ASSUME NEW A, NEW B, IsFiniteSet(A), \A x, y \in B \ A : x = y
  PROVE  IsFiniteSet(B) /\ Cardinality(B) <= Cardinality(A) + 1
<1>1. PICK x : B \subseteq A \cup {x}
  OBVIOUS
<1>2. /\ IsFiniteSet(A \cup {x})
      /\ Cardinality(A) \in Nat
      /\ Cardinality(A \cup {x}) <= Cardinality(A) + 1
  BY FS_AddElement, FS_CardinalityType
<1>3. IsFiniteSet(B) /\ Cardinality(B) <= Cardinality(A \cup {x}) /\ Cardinality(B) \in Nat
      /\ Cardinality(A \cup {x}) \in Nat
  BY <1>1, <1>2, FS_Subset, FS_CardinalityType
<1>4. QED
  BY <1>2, <1>3

(***************************************************************************)
(* The client's list, ordered as the query sorts it.                       *)
(***************************************************************************)
List == Matching(walk.filter)

Less == {e \in Placed \X Placed : Precedes(walk.sort, e[1], e[2])}

LEMMA Bounds ==
  MaxStamps \in Nat /\ Sizes \subseteq Nat \ {0} /\ Filters \subseteq Statuses \cup {""}
<1>1. MaxStamps \in Nat /\ Sizes \subseteq 1..100 /\ Filters \subseteq Statuses \cup {""}
  BY ListingAssumption
<1>2. 1..100 \subseteq Nat \ {0}
  OBVIOUS
<1>3. Sizes \subseteq Nat \ {0}
  BY <1>1, <1>2
<1>4. QED
  BY <1>1, <1>3

LEMMA NextStamp ==
  ASSUME ListingTypeOK, clock < MaxStamps
  PROVE  clock + 1 \in Stamps /\ clock + 1 \in 0..MaxStamps
<1>1. MaxStamps \in Nat
  BY Bounds
<1>2. clock \in 0..MaxStamps
  BY DEF ListingTypeOK
<1>3. QED
  BY <1>1, <1>2 DEF Stamps

LEMMA StampsAreFinite == IsFiniteSet(Stamps) /\ Stamps \subseteq Nat \ {0}
<1>1. MaxStamps \in Nat
  BY Bounds
<1>2. IsFiniteSet(1..MaxStamps)
  BY <1>1, FS_Interval
<1>3. QED
  BY <1>2 DEF Stamps

\* Every column has values that can be compared.
LEMMA KeyType ==
  ASSUME ListingTypeOK, walk # None, NEW id \in Placed
  PROVE  Key(walk.sort.column, id) \in Int
<1>1. walk.sort.column \in {"created_at", "updated_at", "status"}
  BY DEF ListingTypeOK, Sorts
<1>2. id \in Stamps /\ id \in Int
  BY DEF Placed, Stamps
<1>3. orders[id] \in [status : Statuses, updated : Stamps]
  BY <1>2 DEF ListingTypeOK, Placed
<1>4. orders[id].status \in Statuses /\ orders[id].updated \in Int
  BY <1>3 DEF Stamps
<1>5. \A s \in Statuses : Alphabetical[s] \in Int
  BY DEF Statuses, Alphabetical
<1>6. CASE walk.sort.column = "created_at"
  BY <1>2, <1>6 DEF Key
<1>7. CASE walk.sort.column = "updated_at"
  BY <1>4, <1>7 DEF Key
<1>8. CASE walk.sort.column = "status"
  BY <1>4, <1>5, <1>8 DEF Key
<1>9. QED
  BY <1>1, <1>6, <1>7, <1>8

LEMMA ListIsOrdered == ListingTypeOK /\ walk # None => Ordered(Less, List)
<1> SUFFICES ASSUME ListingTypeOK, walk # None
             PROVE  Ordered(Less, List)
  OBVIOUS
<1> DEFINE key(id) == Key(walk.sort.column, id)
<1>1. \A id \in Placed : key(id) \in Int /\ id \in Int
  BY KeyType DEF Placed, Stamps
<1> HIDE DEF key
<1>2. \A a, b \in Placed :
        <<a, b>> \in Less <=>
          \/ key(a) = key(b) /\ a < b
          \/ key(a) # key(b) /\ walk.sort.descending /\ key(a) > key(b)
          \/ key(a) # key(b) /\ ~walk.sort.descending /\ key(a) < key(b)
  BY DEF Less, Precedes, key
<1>3. List \subseteq Placed /\ IsFiniteSet(List)
  <2>1. List \subseteq Placed /\ Placed \subseteq Stamps
    BY DEF List, Matching, Placed
  <2>2. QED
    BY <2>1, StampsAreFinite, FS_Subset
<1>4. \A a \in List : <<a, a>> \notin Less
  BY <1>1, <1>2, <1>3
<1>5. ASSUME NEW a \in List, NEW b \in List, NEW c \in List,
             <<a, b>> \in Less, <<b, c>> \in Less
      PROVE  <<a, c>> \in Less
  BY <1>1, <1>2, <1>3, <1>5
<1>6. ASSUME NEW a \in List, NEW b \in List
      PROVE  a = b \/ <<a, b>> \in Less \/ <<b, a>> \in Less
  <2>1. a \in Placed /\ b \in Placed
    BY <1>3
  <2>2. key(a) \in Int /\ key(b) \in Int /\ a \in Int /\ b \in Int
    BY <1>1, <2>1
  <2>3. CASE key(a) = key(b)
    BY <1>2, <2>1, <2>2, <2>3
  <2>4. CASE key(a) # key(b)
    BY <1>2, <2>1, <2>2, <2>4
  <2>5. QED
    BY <2>3, <2>4
<1>7. QED
  BY <1>3, <1>4, <1>5, <1>6 DEF Ordered

\* OFFSET and LIMIT count the rows that come before.
LEMMA PositionIsRank ==
  ListingTypeOK /\ walk # None => \A id \in List : Position(id) = Rank(Less, List, id)
<1> SUFFICES ASSUME ListingTypeOK, walk # None, NEW id \in List
             PROVE  Position(id) = Rank(Less, List, id)
  OBVIOUS
<1>1. List \subseteq Placed
  BY DEF List, Matching
<1>2. \A b \in List : <<b, id>> \in Less <=> Precedes(walk.sort, b, id)
  BY <1>1 DEF Less
<1>3. <<id, id>> \notin Less
  BY ListIsOrdered DEF Ordered
<1>4. {b \in List : b # id /\ Precedes(walk.sort, b, id)} = Below(Less, List, id)
  BY <1>2, <1>3 DEF Below
<1>5. QED
  BY <1>4 DEF Position, Before, Rank, List

LEMMA SkippedAndPushed ==
  ListingTypeOK /\ walk # None =>
    /\ Skipped = (ghosts.before \ Listed) \cap Low(Less, List, Edge)
    /\ Pushed = Listed \cap High(Less, List, Edge)
BY PositionIsRank DEF Skipped, Pushed, Low, High, List

(***************************************************************************)
(* Types, and the numbers of a walk.                                       *)
(***************************************************************************)
LEMMA WalkType ==
  ASSUME ListingTypeOK, walk # None
  PROVE  /\ walk \in [sort : Sorts, filter : Filters, size : Sizes, page : Nat]
         /\ walk.size \in Nat \ {0} /\ walk.page \in Nat
         /\ walk.page > 0 => walk.page \in Nat \ {0}
         /\ walk.filter \in Statuses \cup {""}
<1>1. walk \in [sort : Sorts, filter : Filters, size : Sizes, page : Nat]
  BY DEF ListingTypeOK
<1>2. walk.size \in Sizes /\ walk.page \in Nat /\ walk.filter \in Filters
  BY <1>1
<1>3. walk.page > 0 => walk.page \in Nat \ {0}
  BY <1>2
<1>4. walk.size \in Nat \ {0} /\ walk.filter \in Statuses \cup {""}
  BY <1>2, Bounds
<1>5. QED
  BY <1>1, <1>2, <1>3, <1>4

LEMMA EdgeType ==
  ASSUME NEW page \in Nat \ {0}, NEW size \in Nat
  PROVE  /\ Offset(page, size) \in Nat
         /\ Offset(page + 1, size) = Offset(page, size) + size
<1>1. \A k, l \in Nat : k * l \in Nat
  OBVIOUS
<1>2. page - 1 \in Nat
  OBVIOUS
<1>3. (page + 1 - 1) * size = (page - 1) * size + size
  OBVIOUS
<1>4. QED
  BY <1>1, <1>2, <1>3 DEF Offset

\* The last page by the metadata holds the last row.
LEMMA LastPageHolds ==
  ASSUME NEW total \in Nat, NEW size \in Nat \ {0}, NEW page \in Nat \ {0},
         ~(page < LastPage(total, size))
  PROVE  total <= Offset(page, size) + size
<1> DEFINE q == (total + size - 1) \div size
<1>1. q \in Nat /\ q <= page
  BY DEF LastPage
<1>2. total + size - 1 = size * q + ((total + size - 1) % size)
  OBVIOUS
<1>3. (total + size - 1) % size \in 0..(size - 1)
  OBVIOUS
<1> HIDE DEF q
<1>4. total <= size * q
  BY <1>1, <1>2, <1>3
<1>5. size * q <= page * size
  BY <1>1
<1>6. (page - 1) * size + size = page * size
  OBVIOUS
<1>7. QED
  BY <1>1, <1>4, <1>5, <1>6 DEF Offset

LEMMA StagesGrow ==
  /\ \A s \in Statuses : Stage[s] \in Nat
  /\ \A s, t \in Statuses : CanTransition(s, t) => Stage[s] < Stage[t]
<1>1. \A s \in Statuses : Stage[s] \in Nat
  BY DEF Statuses, Stage
<1>2. ASSUME NEW s \in Statuses, NEW t \in Statuses, CanTransition(s, t)
      PROVE  Stage[s] < Stage[t]
  BY <1>2 DEF CanTransition, Moves, Stage
<1>3. QED
  BY <1>1, <1>2

LEMMA SetsAreFinite ==
  ListingTypeOK =>
    /\ IsFiniteSet(Skipped) /\ Cardinality(Skipped) \in Nat
    /\ IsFiniteSet(Pushed) /\ Cardinality(Pushed) \in Nat
    /\ IsFiniteSet(Missed) /\ Cardinality(Missed) \in Nat
<1> SUFFICES ASSUME ListingTypeOK
             PROVE  /\ IsFiniteSet(Skipped) /\ Cardinality(Skipped) \in Nat
                    /\ IsFiniteSet(Pushed) /\ Cardinality(Pushed) \in Nat
                    /\ IsFiniteSet(Missed) /\ Cardinality(Missed) \in Nat
  OBVIOUS
<1>1. Skipped \subseteq Stamps /\ Pushed \subseteq Stamps /\ Missed \subseteq Stamps
  BY DEF Skipped, Pushed, Missed, Matching, Placed
<1>2. QED
  BY <1>1, StampsAreFinite, FS_Subset, FS_CardinalityType

LEMMA ListingTypes ==
  ASSUME ListingTypeOK, [ListingNext]_listing
  PROVE  ListingTypeOK'
<1>1. ASSUME NEW sort \in Sorts, NEW filter \in Filters, NEW size \in Sizes,
             BeginWalk(sort, filter, size)
      PROVE  ListingTypeOK'
  <2>1. Matching(filter) \in SUBSET Stamps
    BY DEF Matching, Placed
  <2>2. QED
    BY <1>1, <2>1 DEF BeginWalk, ListingTypeOK, Quiet
<1>2. CASE ReadPage
  <2>1. walk # None /\ walk \in [sort : Sorts, filter : Filters, size : Sizes, page : Nat]
    BY <1>2, WalkType DEF ReadPage, Reading
  <2>2. PICK page \in Nat : walk' = [walk EXCEPT !.page = page]
    <3>1. PICK last : walk' = [walk EXCEPT !.page = IF @ < last THEN @ + 1 ELSE 0]
      BY <1>2 DEF ReadPage
    <3>2. (IF walk.page < last THEN walk.page + 1 ELSE 0) \in Nat
      BY <2>1
    <3>3. QED
      BY <2>1, <3>1, <3>2
  <2>3. walk' \in [sort : Sorts, filter : Filters, size : Sizes, page : Nat]
    BY <2>1, <2>2
  <2>4. PICK rows : listed' = [id \in Stamps |-> listed[id] + IF id \in rows THEN 1 ELSE 0]
    BY <1>2 DEF ReadPage
  <2>5. listed' \in [Stamps -> Nat]
    BY <2>4 DEF ListingTypeOK
  <2>6. QED
    BY <1>2, <2>3, <2>5 DEF ReadPage, ListingTypeOK
<1>3. CASE EndWalk
  BY <1>3 DEF EndWalk, ListingTypeOK, Quiet
<1>4. ASSUME NEW id \in Stamps, Opens(id)
      PROVE  ListingTypeOK'
  <2>1. clock + 1 \in Stamps /\ clock + 1 \in 0..MaxStamps
    BY <1>4, NextStamp DEF Opens
  <2>2. QED
    BY <1>4, <2>1 DEF Opens, ListingTypeOK
<1>5. CASE BeginPlace
  <2>1. clock + 1 \in Stamps
    BY <1>5, NextStamp DEF BeginPlace, Opens
  <2>2. QED
    BY <1>4, <1>5, <2>1 DEF BeginPlace
<1>6. ASSUME NEW id \in Stamps, BeginMove(id)
      PROVE  ListingTypeOK'
  BY <1>4, <1>6 DEF BeginMove
<1>7. ASSUME NEW t \in open, NEW s \in Statuses, CommitPlace(t) \/ CommitMove(t, s) \/ Abort(t)
      PROVE  ListingTypeOK'
  <2>1. t.order \in Stamps /\ t.stamp \in Stamps
    BY DEF ListingTypeOK
  <2>2. CASE Abort(t)
    BY <2>2 DEF Abort, Ends, ListingTypeOK
  <2>3. CASE CommitPlace(t)
    <3>1. [status |-> "pending_partner", updated |-> t.stamp]
            \in [status : Statuses, updated : Stamps]
      BY <2>1 DEF Statuses
    <3>2. orders' \in [Stamps -> [status : Statuses, updated : Stamps] \cup {None}]
      BY <2>3, <3>1 DEF CommitPlace, ListingTypeOK
    <3>3. ghosts' \in [before : SUBSET Stamps, placed : Nat, moved : Nat]
      BY <2>3 DEF CommitPlace, ListingTypeOK
    <3>4. QED
      BY <2>3, <3>2, <3>3 DEF CommitPlace, Ends, ListingTypeOK
  <2>4. CASE CommitMove(t, s)
    <3>1. orders' \in [Stamps -> [status : Statuses, updated : Stamps] \cup {None}]
      BY <2>1, <2>4 DEF CommitMove, ListingTypeOK
    <3>2. ghosts' \in [before : SUBSET Stamps, placed : Nat, moved : Nat]
      BY <2>4 DEF CommitMove, ListingTypeOK
    <3>3. QED
      BY <2>4, <3>1, <3>2 DEF CommitMove, Ends, ListingTypeOK
  <2>5. QED
    BY <1>7, <2>2, <2>3, <2>4
<1>8. CASE UNCHANGED listing
  BY <1>8 DEF listing, ListingTypeOK
<1>9. Statuses # {}
  BY DEF Statuses
<1>10. QED
  BY <1>1, <1>2, <1>3, <1>5, <1>6, <1>7, <1>8, <1>9 DEF ListingNext

(***************************************************************************)
(* A change of one order.                                                  *)
(***************************************************************************)
LEMMA ChangeOfOne ==
  ASSUME walk' = walk, NEW m \in Stamps, NEW v, ListingTypeOK,
         orders' = [orders EXCEPT ![m] = v]
  PROVE  Differ(Less, List, Less', List', m)
<1>1. \A id \in Stamps : id # m => orders'[id] = orders[id]
  BY DEF ListingTypeOK
<1>2. Placed \ {m} = Placed' \ {m} /\ List \ {m} = List' \ {m}
  BY <1>1 DEF Placed, List, Matching
<1>3. ASSUME NEW a \in List \ {m}, NEW b \in List \ {m}
      PROVE  <<a, b>> \in Less <=> <<a, b>> \in Less'
  <2>1. a \in Placed \ {m} /\ b \in Placed \ {m}
    BY DEF List, Matching
  <2>2. a \in Placed' /\ b \in Placed' /\ orders'[a] = orders[a] /\ orders'[b] = orders[b]
    BY <1>1, <1>2, <2>1 DEF Placed
  <2>3. Key(walk.sort.column, a)' = Key(walk.sort.column, a)
    BY <2>2 DEF Key
  <2>4. Key(walk.sort.column, b)' = Key(walk.sort.column, b)
    BY <2>2 DEF Key
  <2>5. Precedes(walk.sort, a, b)' <=> Precedes(walk.sort, a, b)
    BY <2>3, <2>4 DEF Precedes
  <2>6. QED
    BY <2>1, <2>2, <2>5 DEF Less
<1>4. QED
  BY <1>2, <1>3 DEF Differ

\* It moves one row at most to the pages that were read, and one row at most
\* from them to the pages still to be read.
LEMMA ShiftOfOne ==
  ASSUME ListingTypeOK, ListingTypeOK', Reading, walk' = walk, listed' = listed,
         ghosts'.before = ghosts.before,
         NEW m \in Stamps, NEW v, orders' = [orders EXCEPT ![m] = v]
  PROVE  /\ Cardinality(Skipped') <= Cardinality(Skipped) + 1
         /\ Cardinality(Pushed') <= Cardinality(Pushed) + 1
         /\ m \notin Placed \cup ghosts.before => Cardinality(Skipped') <= Cardinality(Skipped)
<1>1. walk # None /\ walk' # None /\ Edge \in Nat /\ Edge' = Edge /\ Listed' = Listed
  <2>1. walk # None /\ walk.page > 0
    BY DEF Reading
  <2>2. walk.page \in Nat \ {0} /\ walk.size \in Nat
    BY <2>1, WalkType
  <2>3. QED
    BY <2>1, <2>2, EdgeType DEF Edge, Listed
<1>2. Differ(Less, List, Less', List', m)
  BY ChangeOfOne
<1>3. Ordered(Less, List)
  BY <1>1, ListIsOrdered
<1>4. Ordered(Less', List')
  <2>1. (ListingTypeOK /\ walk # None => Ordered(Less, List))'
    BY ListIsOrdered, PTL
  <2>2. QED
    BY <1>1, <2>1
<1>5. /\ Skipped = (ghosts.before \ Listed) \cap Low(Less, List, Edge)
      /\ Pushed = Listed \cap High(Less, List, Edge)
  BY <1>1, SkippedAndPushed
<1>6. /\ Skipped' = (ghosts.before \ Listed) \cap Low(Less', List', Edge)
      /\ Pushed' = Listed \cap High(Less', List', Edge)
  <2>1. (ListingTypeOK /\ walk # None =>
           /\ Skipped = (ghosts.before \ Listed) \cap Low(Less, List, Edge)
           /\ Pushed = Listed \cap High(Less, List, Edge))'
    BY SkippedAndPushed, PTL
  <2>2. QED
    BY <1>1, <2>1
<1>7. /\ \A x, y \in Low(Less', List', Edge) \ Low(Less, List, Edge) : x = y
      /\ \A x, y \in High(Less', List', Edge) \ High(Less, List, Edge) : x = y
      /\ m \notin List => Low(Less', List', Edge) \ {m} \subseteq Low(Less, List, Edge)
  BY <1>1, <1>2, <1>3, <1>4, OneElementCrosses
<1>8. IsFiniteSet(Skipped) /\ IsFiniteSet(Pushed)
  BY SetsAreFinite
<1>9. Cardinality(Skipped') <= Cardinality(Skipped) + 1
  <2>1. \A x, y \in Skipped' \ Skipped : x = y
    BY <1>5, <1>6, <1>7
  <2>2. QED
    BY <1>8, <2>1, OneMore
<1>10. Cardinality(Pushed') <= Cardinality(Pushed) + 1
  <2>1. \A x, y \in Pushed' \ Pushed : x = y
    BY <1>5, <1>6, <1>7
  <2>2. QED
    BY <1>8, <2>1, OneMore
<1>11. ASSUME m \notin Placed \cup ghosts.before
       PROVE  Cardinality(Skipped') <= Cardinality(Skipped)
  <2>1. m \notin List
    BY <1>11 DEF List, Matching
  <2>2. Skipped' \subseteq Skipped
    BY <1>5, <1>6, <1>7, <1>11, <2>1
  <2>3. QED
    BY <1>8, <2>2, FS_Subset
<1>12. QED
  BY <1>9, <1>10, <1>11

(***************************************************************************)
(* A page is read.                                                         *)
(***************************************************************************)
LEMMA RepeatsGrow ==
  ASSUME ListingTypeOK, IsFiniteSet(Repeats), NEW rows,
         listed' = [id \in Stamps |-> listed[id] + IF id \in rows THEN 1 ELSE 0]
  PROVE  /\ IsFiniteSet(Repeats')
         /\ Cardinality(Repeats') <= Cardinality(Repeats) + Cardinality(rows \cap Listed)
<1> DEFINE W == rows \cap Listed
           f == [id \in W |-> <<id, listed[id] + 1>>]
           New == {f[id] : id \in W}
<1>1. W \subseteq Stamps /\ IsFiniteSet(W) /\ Cardinality(W) \in Nat
  BY StampsAreFinite, FS_Subset, FS_CardinalityType DEF Listed
<1>2. f \in Surjection(W, New)
  BY DEF Surjection
<1>3. IsFiniteSet(New) /\ Cardinality(New) <= Cardinality(W) /\ Cardinality(New) \in Nat
  <2> HIDE DEF f, New, W
  <2>1. QED
    BY <1>1, <1>2, FS_Surjection, FS_CardinalityType
<1>4. Repeats' \subseteq Repeats \cup New
  <2> SUFFICES ASSUME NEW r \in Repeats' PROVE r \in Repeats \cup New
    OBVIOUS
  <2>1. PICK id \in Stamps : r \in {id} \X (2..listed'[id])
    BY DEF Repeats
  <2>2. PICK k \in 2..listed'[id] : r = <<id, k>>
    BY <2>1
  <2>3. listed[id] \in Nat /\ listed'[id] = listed[id] + IF id \in rows THEN 1 ELSE 0
    BY DEF ListingTypeOK
  <2>4. CASE k <= listed[id]
    <3>1. r \in {id} \X (2..listed[id])
      BY <2>2, <2>3, <2>4
    <3>2. QED
      BY <3>1 DEF Repeats
  <2>5. CASE ~(k <= listed[id])
    <3>1. id \in rows /\ k = listed[id] + 1 /\ listed[id] > 0
      BY <2>2, <2>3, <2>5
    <3>2. id \in W /\ r = f[id]
      BY <2>2, <3>1 DEF Listed
    <3>3. QED
      BY <3>2
  <2>6. QED
    BY <2>4, <2>5
<1>5. /\ IsFiniteSet(Repeats \cup New)
      /\ Cardinality(Repeats \cup New) <= Cardinality(Repeats) + Cardinality(New)
      /\ Cardinality(Repeats \cup New) \in Nat /\ Cardinality(Repeats) \in Nat
  <2> HIDE DEF New
  <2>1. IsFiniteSet(Repeats \cup New) /\ IsFiniteSet(Repeats \cap New)
    BY <1>3, FS_Union, FS_Subset
  <2>2. /\ Cardinality(Repeats \cup New) \in Nat /\ Cardinality(Repeats) \in Nat
        /\ Cardinality(Repeats \cap New) \in Nat
    BY <2>1, FS_CardinalityType
  <2>3. Cardinality(Repeats \cup New)
          = Cardinality(Repeats) + Cardinality(New) - Cardinality(Repeats \cap New)
    BY <1>3, FS_Union
  <2>4. QED
    BY <1>3, <2>1, <2>2, <2>3
<1> HIDE DEF New, W
<1>6. IsFiniteSet(Repeats') /\ Cardinality(Repeats') <= Cardinality(Repeats \cup New)
      /\ Cardinality(Repeats') \in Nat
  BY <1>4, <1>5, FS_Subset, FS_CardinalityType
<1>7. Cardinality(Repeats') <= Cardinality(Repeats) + Cardinality(W)
  BY <1>1, <1>3, <1>5, <1>6
<1>8. QED
  BY <1>6, <1>7 DEF W

\* The rows of a page, and what the metadata says of the rows after it.
LEMMA PageRead ==
  ASSUME ListingTypeOK, ReadPage
  PROVE  \E rows \in SUBSET List :
           /\ Edge \in Nat /\ walk.size \in Nat /\ walk.page \in Nat
           /\ \A id \in List : Position(id) \in Nat
           /\ \A id \in rows : Position(id) >= Edge
           /\ \A id \in List \ rows : Position(id) < Edge \/ Position(id) >= Edge + walk.size
           /\ \A id \in rows : Position(id) < Edge + walk.size
           /\ listed' = [id \in Stamps |-> listed[id] + IF id \in rows THEN 1 ELSE 0]
           /\ \/ walk' = [walk EXCEPT !.page = walk.page + 1]
              \/ /\ walk' = [walk EXCEPT !.page = 0]
                 /\ \A id \in List \ rows : Position(id) < Edge
<1> DEFINE rows == Rows(List, walk.sort, walk.page, walk.size)
           n == Cardinality(List)
           last == LastPage(Total(rows, List), walk.size)
<1>1. walk # None /\ walk.page > 0
  BY DEF ReadPage, Reading
<1>2. walk.page \in Nat \ {0} /\ walk.size \in Nat \ {0}
  BY <1>1, WalkType
<1>3. Edge \in Nat
  BY <1>2, EdgeType DEF Edge
<1>4. Ordered(Less, List) /\ \A id \in List : Position(id) = Rank(Less, List, id)
  BY <1>1, ListIsOrdered, PositionIsRank
<1>5. /\ n \in Nat
      /\ \A id \in List : Position(id) < n
      /\ \A k \in 0..(n - 1) : \E id \in List : Position(id) = k
  BY <1>4, RankIsOnto
<1>6. \A id \in List : Position(id) \in Nat
  BY <1>4, RankType DEF Ordered
<1>7. rows = {id \in List : Position(id) \in Edge..(Edge + walk.size - 1)}
  BY DEF Rows, Position, Edge, List
<1>8. /\ rows \subseteq List
      /\ \A id \in rows : Position(id) >= Edge /\ Position(id) < Edge + walk.size
      /\ \A id \in List \ rows : Position(id) < Edge \/ Position(id) >= Edge + walk.size
  <2> HIDE DEF rows
  <2>1. QED
    BY <1>2, <1>3, <1>6, <1>7
<1>9. /\ listed' = [id \in Stamps |-> listed[id] + IF id \in rows THEN 1 ELSE 0]
      /\ walk' = [walk EXCEPT !.page = IF walk.page < last THEN walk.page + 1 ELSE 0]
  BY DEF ReadPage, List
<1>10. CASE walk.page < last
  <2>1. walk' = [walk EXCEPT !.page = walk.page + 1]
    BY <1>9, <1>10
  <2> HIDE DEF rows, last
  <2>2. QED
    BY <1>2, <1>3, <1>6, <1>8, <1>9, <2>1
<1>11. CASE ~(walk.page < last)
  <2>1. walk' = [walk EXCEPT !.page = 0]
    BY <1>9, <1>11
  <2>2. \A id \in List \ rows : Position(id) < Edge
    <3>1. CASE rows = {}
      <4> HIDE DEF rows, n
      <4>1. ~(Edge \in 0..(n - 1))
        <5>1. ASSUME NEW id \in List PROVE Position(id) # Edge
          BY <1>2, <1>3, <1>8, <3>1
        <5>2. QED
          BY <1>5, <5>1
      <4>2. \A id \in List : Position(id) < Edge
        BY <1>3, <1>5, <1>6, <4>1
      <4>3. QED
        BY <4>2
    <3>2. CASE rows # {}
      <4>1. ~(walk.page < LastPage(n, walk.size))
        BY <1>11, <3>2 DEF Total
      <4>2. n <= Edge + walk.size
        <5> HIDE DEF n
        <5>1. QED
          BY <1>2, <1>5, <4>1, LastPageHolds DEF Edge
      <4>3. \A id \in List : Position(id) < Edge + walk.size
        <5> HIDE DEF n
        <5>1. QED
          BY <1>2, <1>3, <1>5, <1>6, <4>2
      <4> HIDE DEF rows
      <4>4. QED
        BY <1>2, <1>3, <1>6, <1>8, <4>3
    <3>3. QED
      BY <3>1, <3>2
  <2> HIDE DEF rows, last
  <2>3. QED
    BY <1>2, <1>3, <1>6, <1>8, <1>9, <2>1, <2>2
<1>12. QED
  BY <1>10, <1>11

(***************************************************************************)
(* The invariant, one action at a time.                                    *)
(***************************************************************************)
LEMMA InvSameRows ==
  ASSUME ListingInv, ListingTypeOK', UNCHANGED <<orders, walk, listed, ghosts>>
  PROVE  ListingInv'
<1>1. /\ Placed' = Placed /\ Listed' = Listed /\ Repeats' = Repeats
      /\ Skipped' = Skipped /\ Pushed' = Pushed /\ Missed' = Missed
  BY DEF Placed, Listed, Repeats, Skipped, Pushed, Missed, Position, Edge, Before, Precedes,
         Key, Matching
<1>2. QED
  BY <1>1 DEF ListingInv, MissedOnlyByMoves, RepeatsAreExplained, Reading

\* Nothing was listed, and nothing is on the pages before the first.
LEMMA InvBegin ==
  ASSUME ListingInv, ListingTypeOK', NEW sort \in Sorts, NEW filter \in Filters,
         NEW size \in Sizes, BeginWalk(sort, filter, size)
  PROVE  ListingInv'
<1>1. walk' # None /\ walk'.page = 1 /\ walk'.filter = filter /\ walk'.size \in Nat
  <2>1. walk' = [sort |-> sort, filter |-> filter, size |-> size, page |-> 1]
    BY DEF BeginWalk
  <2>2. walk' \in [sort : Sorts, filter : Filters, size : Sizes, page : Nat]
    BY <2>1
  <2>3. walk' # None
    BY <2>2, ListingAssumption
  <2>4. QED
    BY <2>1, <2>3, Bounds
<1>2. Listed' = {} /\ Repeats' = {} /\ Pushed' = {} /\ Placed' = Placed
  BY DEF BeginWalk, Listed, Repeats, Pushed, Placed
<1>3. ghosts'.before = Matching(filter) /\ ghosts'.placed = 0 /\ ghosts'.moved = 0
  BY DEF BeginWalk, Quiet
<1>4. Skipped' = {}
  <2>1. Edge' = 0
    BY <1>1 DEF Edge, Offset
  <2>2. (ListingTypeOK /\ walk # None => \A id \in List : Position(id) = Rank(Less, List, id))'
    BY PositionIsRank, PTL
  <2>3. (ListingTypeOK /\ walk # None => Ordered(Less, List))'
    BY ListIsOrdered, PTL
  <2>4. \A id \in List' : Position(id)' \in Nat
    BY <1>1, <2>2, <2>3, RankType DEF Ordered
  <2>5. \A id \in List' : ~(Position(id)' < 0)
    BY <2>4
  <2>6. QED
    BY <2>1, <2>5 DEF Skipped, List
<1>5. \A id \in ghosts'.before : filter # "" => orders'[id].status = filter
  BY <1>3 DEF BeginWalk, Matching
<1>6. filter # "" => Stage[filter] >= Stage[filter]
  <2>1. filter # "" => filter \in Statuses
    BY Bounds
  <2>2. filter # "" => Stage[filter] \in Nat
    BY <2>1, StagesGrow
  <2>3. \A k \in Nat : k >= k
    OBVIOUS
  <2>4. QED
    BY <2>2, <2>3
<1>7. ghosts'.before \subseteq Placed'
  BY <1>2, <1>3 DEF Matching
<1>8. Reading'
  BY <1>1 DEF Reading
<1>9. IsFiniteSet({}) /\ Cardinality({}) = 0
  BY FS_EmptySet
<1>10. /\ IsFiniteSet(Repeats')
       /\ Cardinality(Skipped') <= ghosts'.moved
       /\ Cardinality(Repeats') + Cardinality(Pushed') <= ghosts'.placed + ghosts'.moved
       /\ Cardinality(Repeats') <= ghosts'.placed + ghosts'.moved
  BY <1>2, <1>3, <1>4, <1>9
<1>11. filter # "" =>
         \A id \in ghosts'.before : Stage[orders'[id].status] >= Stage[filter]
  BY <1>5, <1>6
<1>12. QED
  BY <1>1, <1>2, <1>7, <1>8, <1>10, <1>11
     DEF ListingInv, MissedOnlyByMoves, RepeatsAreExplained

LEMMA InvEnd ==
  ASSUME ListingInv, ListingTypeOK', EndWalk
  PROVE  ListingInv'
<1>1. walk' = None /\ ~Reading'
  BY DEF EndWalk, Reading
<1>2. Listed' = {} /\ Repeats' = {} /\ Placed' = Placed
  BY DEF EndWalk, Listed, Repeats, Placed
<1>3. ghosts'.before = {} /\ ghosts'.placed = 0 /\ ghosts'.moved = 0
  BY DEF EndWalk, Quiet
<1>4. IsFiniteSet({}) /\ Cardinality({}) = 0
  BY FS_EmptySet
<1>5. IsFiniteSet(Repeats') /\ Cardinality(Repeats') <= ghosts'.placed + ghosts'.moved
  BY <1>2, <1>3, <1>4
<1>6. QED
  BY <1>1, <1>2, <1>3, <1>5 DEF ListingInv, MissedOnlyByMoves, RepeatsAreExplained

\* The rows of a page that were listed before are those pushed to it.
LEMMA InvReadPage ==
  ASSUME ListingInv, ListingTypeOK', ReadPage
  PROVE  ListingInv'
<1>1. /\ ListingTypeOK /\ ListingTypeOK' /\ IsFiniteSet(Repeats)
      /\ Cardinality(Skipped) <= ghosts.moved
      /\ Cardinality(Repeats) + Cardinality(Pushed) <= ghosts.placed + ghosts.moved
      /\ ghosts.placed \in Nat /\ ghosts.moved \in Nat
  BY DEF ListingInv, ListingTypeOK, ReadPage
<1>2. PICK rows \in SUBSET List :
           /\ Edge \in Nat /\ walk.size \in Nat /\ walk.page \in Nat
           /\ \A id \in List : Position(id) \in Nat
           /\ \A id \in rows : Position(id) >= Edge
           /\ \A id \in List \ rows : Position(id) < Edge \/ Position(id) >= Edge + walk.size
           /\ \A id \in rows : Position(id) < Edge + walk.size
           /\ listed' = [id \in Stamps |-> listed[id] + IF id \in rows THEN 1 ELSE 0]
           /\ \/ walk' = [walk EXCEPT !.page = walk.page + 1]
              \/ /\ walk' = [walk EXCEPT !.page = 0]
                 /\ \A id \in List \ rows : Position(id) < Edge
  BY <1>1, PageRead
<1>3. UNCHANGED <<orders, ghosts>> /\ walk # None
  BY DEF ReadPage, Reading
<1>4. /\ walk'.sort = walk.sort /\ walk'.filter = walk.filter /\ walk'.size = walk.size
      /\ walk' # None
      /\ \/ walk'.page = walk.page + 1
         \/ walk'.page = 0 /\ \A id \in List \ rows : Position(id) < Edge
  <2>1. walk \in [sort : Sorts, filter : Filters, size : Sizes, page : Nat]
    BY <1>1, <1>3, WalkType
  <2>2. walk' \in [sort : Sorts, filter : Filters, size : Sizes, page : Nat]
    BY <1>2, <2>1
  <2>3. walk' # None
    BY <2>2, ListingAssumption
  <2>4. QED
    BY <1>2, <2>1, <2>3
<1>5. Placed' = Placed /\ List' = List /\ List \subseteq Placed /\ Placed \subseteq Stamps
      /\ \A id : Position(id)' = Position(id)
  <2>1. Placed' = Placed /\ List \subseteq Placed /\ Placed \subseteq Stamps
    BY <1>3 DEF Placed, List, Matching
  <2>2. List' = List /\ Matching(walk.filter)' = Matching(walk.filter)
    BY <1>3, <1>4, <2>1 DEF List, Matching
  <2>3. ASSUME NEW id PROVE Position(id)' = Position(id)
    <3>1. \A b : Key(walk.sort.column, b)' = Key(walk.sort.column, b)
      BY <1>3, <1>4 DEF Key
    <3>2. \A b : Precedes(walk.sort, b, id)' <=> Precedes(walk.sort, b, id)
      BY <1>4, <3>1 DEF Precedes
    <3>3. QED
      BY <2>2, <3>2 DEF Position, Before
  <2>4. QED
    BY <2>1, <2>2, <2>3
<1>6. Listed' = Listed \cup rows
  BY <1>1, <1>2, <1>5 DEF Listed, ListingTypeOK
<1>7. /\ IsFiniteSet(Repeats')
      /\ Cardinality(Repeats') <= Cardinality(Repeats) + Cardinality(rows \cap Listed)
  BY <1>1, <1>2, RepeatsGrow
<1>8. IsFiniteSet(Pushed) /\ IsFiniteSet(Skipped)
  BY <1>1, SetsAreFinite
<1>9. rows \cap Listed \subseteq Pushed
  BY <1>2 DEF Pushed, List
<1>10. /\ Cardinality(rows \cap Listed) \in Nat
       /\ Cardinality(rows \cap Listed) <= Cardinality(Pushed)
       /\ Cardinality(Repeats) \in Nat /\ Cardinality(Repeats') \in Nat
       /\ Cardinality(Pushed) \in Nat /\ Cardinality(Skipped) \in Nat
  BY <1>1, <1>7, <1>8, <1>9, FS_Subset, FS_CardinalityType
<1>11. RepeatsAreExplained'
  BY <1>1, <1>3, <1>7, <1>10 DEF RepeatsAreExplained
<1>12. /\ ghosts'.before \subseteq Placed'
       /\ Listed' \subseteq Placed'
       /\ walk' # None /\ walk'.filter # "" =>
            \A id \in ghosts'.before : Stage[orders'[id].status] >= Stage[walk'.filter]
  BY <1>3, <1>4, <1>5, <1>6 DEF ListingInv
<1>13. CASE walk'.page = walk.page + 1
  <2>1. Reading' /\ Reading
    BY <1>2, <1>4, <1>13 DEF Reading, ReadPage
  <2>2. Edge' = Edge + walk.size
    <3>1. walk.page > 0 /\ walk # None
      BY <2>1 DEF Reading
    <3>2. walk.page \in Nat \ {0} /\ walk.size \in Nat
      BY <1>1, <3>1, WalkType
    <3>3. QED
      BY <1>4, <1>13, <3>2, EdgeType DEF Edge
  <2>3. Skipped' \subseteq Skipped
    BY <1>2, <1>3, <1>5, <1>6, <2>2 DEF Skipped, List
  <2>4. Pushed' \subseteq Pushed \ (rows \cap Listed)
    <3> SUFFICES ASSUME NEW id \in Pushed' PROVE id \in Pushed \ (rows \cap Listed)
      OBVIOUS
    <3>1. id \in List /\ id \in Listed \cup rows /\ Position(id) >= Edge + walk.size
      BY <1>5, <1>6, <2>2 DEF Pushed, List
    <3>2. id \notin rows /\ Position(id) >= Edge
      BY <1>2, <3>1
    <3>3. QED
      BY <3>1, <3>2 DEF Pushed, List
  <2>5. Cardinality(Skipped') <= Cardinality(Skipped)
    BY <1>8, <2>3, FS_Subset
  <2>6. Cardinality(Pushed') <= Cardinality(Pushed) - Cardinality(rows \cap Listed)
    <3>1. /\ IsFiniteSet(Pushed \ (rows \cap Listed))
          /\ Cardinality(Pushed \ (rows \cap Listed))
               = Cardinality(Pushed) - Cardinality(Pushed \cap (rows \cap Listed))
      BY <1>8, FS_Difference
    <3>2. Pushed \cap (rows \cap Listed) = rows \cap Listed
      BY <1>9
    <3>3. Cardinality(Pushed') <= Cardinality(Pushed \ (rows \cap Listed))
      BY <2>4, <3>1, FS_Subset
    <3>4. QED
      BY <3>1, <3>2, <3>3
  <2>7. Cardinality(Pushed') \in Nat /\ Cardinality(Skipped') \in Nat
    BY <1>8, <2>3, <2>4, FS_Subset, FS_CardinalityType
  <2>8. /\ Cardinality(Skipped') <= ghosts'.moved
        /\ Cardinality(Repeats') + Cardinality(Pushed') <= ghosts'.placed + ghosts'.moved
    BY <1>1, <1>3, <1>7, <1>10, <2>5, <2>6, <2>7
  <2>9. QED
    BY <1>1, <1>7, <1>11, <1>12, <2>1, <2>8 DEF ListingInv, MissedOnlyByMoves
<1>14. CASE walk'.page = 0 /\ \A id \in List \ rows : Position(id) < Edge
  <2>1. ~Reading'
    BY <1>14 DEF Reading
  <2>2. Missed' \subseteq Skipped
    BY <1>3, <1>5, <1>6, <1>14 DEF Missed, Skipped, List
  <2>3. Cardinality(Missed') <= Cardinality(Skipped) /\ Cardinality(Missed') \in Nat
    BY <1>8, <2>2, FS_Subset, FS_CardinalityType
  <2>4. Cardinality(Missed') <= ghosts'.moved
    BY <1>1, <1>3, <1>10, <2>3
  <2>5. QED
    BY <1>1, <1>7, <1>11, <1>12, <2>1, <2>4 DEF ListingInv, MissedOnlyByMoves
<1>15. QED
  BY <1>4, <1>13, <1>14

\* What every change of an order leaves as it is.
LEMMA SameWalk ==
  ASSUME UNCHANGED <<walk, listed>>
  PROVE  Listed' = Listed /\ Repeats' = Repeats /\ (Reading' <=> Reading)
BY DEF Listed, Repeats, Reading

LEMMA InvPlace ==
  ASSUME ListingInv, ListingTypeOK', NEW t \in open, CommitPlace(t)
  PROVE  ListingInv'
<1> DEFINE m == t.order
           v == [status |-> "pending_partner", updated |-> t.stamp]
<1>1. m \in Stamps /\ m \notin Placed \cup ghosts.before
  BY DEF ListingInv, ListingTypeOK, CommitPlace, Placed
<1>2. /\ ListingTypeOK /\ IsFiniteSet(Repeats)
      /\ ghosts.placed \in Nat /\ ghosts.moved \in Nat
  BY DEF ListingInv, ListingTypeOK
<1>3. /\ orders' = [orders EXCEPT ![m] = v] /\ UNCHANGED <<walk, listed>>
      /\ ghosts'.before = ghosts.before /\ ghosts'.moved = ghosts.moved
      /\ ghosts'.placed = IF Reading THEN ghosts.placed + 1 ELSE ghosts.placed
  BY DEF CommitPlace, Ends, ListingInv, ListingTypeOK
<1> HIDE DEF m, v
<1>4. Listed' = Listed /\ Repeats' = Repeats /\ (Reading' <=> Reading)
  BY <1>3, SameWalk
<1>5. \A id \in Stamps : id # m => orders'[id] = orders[id]
  BY <1>2, <1>3 DEF ListingTypeOK
<1>6. Placed \subseteq Placed'
  BY <1>1, <1>5 DEF Placed
<1>7. /\ ghosts'.before \subseteq Placed'
      /\ Listed' \subseteq Placed'
      /\ walk' # None /\ walk'.filter # "" =>
           \A id \in ghosts'.before : Stage[orders'[id].status] >= Stage[walk'.filter]
  <2>1. ghosts.before \subseteq Placed /\ Placed \subseteq Stamps
    BY DEF ListingInv, Placed
  <2>2. QED
    BY <1>1, <1>3, <1>4, <1>5, <1>6, <2>1 DEF ListingInv
<1>8. Cardinality(Repeats) \in Nat /\ Cardinality(Pushed) \in Nat /\ Cardinality(Skipped) \in Nat
  BY <1>2, SetsAreFinite, FS_CardinalityType
<1>9. CASE Reading
  <2>1. /\ Cardinality(Skipped') <= Cardinality(Skipped)
        /\ Cardinality(Pushed') <= Cardinality(Pushed) + 1
    BY <1>1, <1>2, <1>3, <1>9, ShiftOfOne
  <2>2. /\ Cardinality(Skipped) <= ghosts.moved
        /\ Cardinality(Repeats) + Cardinality(Pushed) <= ghosts.placed + ghosts.moved
    BY <1>9 DEF ListingInv
  <2>3. (ListingTypeOK => /\ IsFiniteSet(Skipped) /\ Cardinality(Skipped) \in Nat
                          /\ IsFiniteSet(Pushed) /\ Cardinality(Pushed) \in Nat
                          /\ IsFiniteSet(Missed) /\ Cardinality(Missed) \in Nat)'
    BY SetsAreFinite, PTL
  <2>4. /\ Cardinality(Skipped') <= ghosts'.moved
        /\ Cardinality(Repeats') + Cardinality(Pushed') <= ghosts'.placed + ghosts'.moved
        /\ Cardinality(Repeats') <= ghosts'.placed + ghosts'.moved
    BY <1>2, <1>3, <1>4, <1>8, <1>9, <2>1, <2>2, <2>3
  <2>5. QED
    BY <1>2, <1>4, <1>7, <1>9, <2>4 DEF ListingInv, MissedOnlyByMoves, RepeatsAreExplained
<1>10. CASE ~Reading
  <2>1. RepeatsAreExplained'
    BY <1>3, <1>4, <1>10 DEF ListingInv, RepeatsAreExplained
  <2>2. MissedOnlyByMoves'
    <3> SUFFICES ASSUME walk # None
                 PROVE  Cardinality(Missed') <= ghosts'.moved
      BY <1>3 DEF MissedOnlyByMoves
    <3>1. Missed' \subseteq Missed
      BY <1>1, <1>3, <1>4, <1>5 DEF Missed, Matching, Placed
    <3>2. Cardinality(Missed) <= ghosts.moved
      BY <1>10 DEF ListingInv, MissedOnlyByMoves
    <3>3. IsFiniteSet(Missed) /\ Cardinality(Missed) \in Nat
      BY <1>2, SetsAreFinite
    <3>4. Cardinality(Missed') <= Cardinality(Missed) /\ Cardinality(Missed') \in Nat
      BY <3>1, <3>3, FS_Subset, FS_CardinalityType
    <3>5. QED
      BY <1>2, <1>3, <3>2, <3>3, <3>4
  <2>3. QED
    BY <1>2, <1>4, <1>7, <1>10, <2>1, <2>2 DEF ListingInv
<1>11. QED
  BY <1>9, <1>10

LEMMA InvMove ==
  ASSUME ListingInv, ListingTypeOK', NEW t \in open, NEW status \in Statuses,
         CommitMove(t, status)
  PROVE  ListingInv'
<1> DEFINE m == t.order
           v == [status |-> status, updated |-> t.stamp]
<1>1. /\ m \in Stamps /\ m \in Placed /\ v.status = status
      /\ orders[m].status \in Statuses /\ CanTransition(orders[m].status, status)
  BY DEF ListingInv, ListingTypeOK, CommitMove, Placed
<1>2. /\ ListingTypeOK /\ IsFiniteSet(Repeats)
      /\ ghosts.placed \in Nat /\ ghosts.moved \in Nat
  BY DEF ListingInv, ListingTypeOK
<1>3. /\ orders' = [orders EXCEPT ![m] = v] /\ UNCHANGED <<walk, listed>>
      /\ ghosts'.before = ghosts.before /\ ghosts'.placed = ghosts.placed
      /\ ghosts'.moved = IF MovesRows THEN ghosts.moved + 1 ELSE ghosts.moved
  BY DEF CommitMove, Ends, ListingInv, ListingTypeOK
<1>4. v # None
  <2>1. t.stamp \in Nat
    BY StampsAreFinite DEF ListingInv, ListingTypeOK
  <2>2. v \in [status : Statuses, updated : Nat]
    BY <2>1
  <2>3. QED
    BY <2>2, ListingAssumption
<1> HIDE DEF m, v
<1>5. Listed' = Listed /\ Repeats' = Repeats /\ (Reading' <=> Reading)
  BY <1>3, SameWalk
<1>6. /\ \A id \in Stamps : id # m => orders'[id] = orders[id]
      /\ orders'[m] = v
  BY <1>1, <1>2, <1>3 DEF ListingTypeOK
<1>7. Placed' = Placed
  BY <1>1, <1>4, <1>6 DEF Placed
<1>8. Stage[orders[m].status] < Stage[status]
  BY <1>1, StagesGrow
<1>9. /\ ghosts'.before \subseteq Placed'
      /\ Listed' \subseteq Placed'
      /\ walk' # None /\ walk'.filter # "" =>
           \A id \in ghosts'.before : Stage[orders'[id].status] >= Stage[walk'.filter]
  <2>1. ghosts.before \subseteq Placed /\ Placed \subseteq Stamps
    BY DEF ListingInv, Placed
  <2>2. ASSUME walk # None, walk.filter # "", NEW id \in ghosts.before
        PROVE  Stage[orders'[id].status] >= Stage[walk.filter]
    <3>1. Stage[orders[id].status] >= Stage[walk.filter]
      BY <2>2 DEF ListingInv
    <3>2. CASE id # m
      BY <1>6, <2>1, <3>1, <3>2
    <3>3. CASE id = m
      <4>1. walk.filter \in Statuses
        BY <1>2, <2>2, WalkType
      <4>2. /\ Stage[status] \in Nat /\ Stage[orders[m].status] \in Nat
            /\ Stage[walk.filter] \in Nat
        BY <1>1, <4>1, StagesGrow
      <4>3. Stage[status] >= Stage[walk.filter]
        BY <1>8, <3>1, <3>3, <4>2
      <4>4. QED
        BY <1>1, <1>6, <3>3, <4>3
    <3>4. QED
      BY <3>2, <3>3
  <2>3. QED
    BY <1>3, <1>5, <1>7, <2>1, <2>2 DEF ListingInv
<1>10. Cardinality(Repeats) \in Nat /\ Cardinality(Pushed) \in Nat /\ Cardinality(Skipped) \in Nat
  BY <1>2, SetsAreFinite, FS_CardinalityType
<1>11. CASE Reading
  <2>1. /\ Cardinality(Skipped) <= ghosts.moved
        /\ Cardinality(Repeats) + Cardinality(Pushed) <= ghosts.placed + ghosts.moved
    BY <1>11 DEF ListingInv
  <2>2. Cardinality(Skipped') \in Nat /\ Cardinality(Pushed') \in Nat
    <3>1. (ListingTypeOK => /\ IsFiniteSet(Skipped) /\ Cardinality(Skipped) \in Nat
                            /\ IsFiniteSet(Pushed) /\ Cardinality(Pushed) \in Nat
                            /\ IsFiniteSet(Missed) /\ Cardinality(Missed) \in Nat)'
      BY SetsAreFinite, PTL
    <3>2. QED
      BY <3>1
  <2>3. /\ Cardinality(Skipped') <= ghosts'.moved
        /\ Cardinality(Repeats') + Cardinality(Pushed') <= ghosts'.placed + ghosts'.moved
    <3>1. CASE MovesRows
      <4>1. /\ Cardinality(Skipped') <= Cardinality(Skipped) + 1
            /\ Cardinality(Pushed') <= Cardinality(Pushed) + 1
        BY <1>1, <1>2, <1>3, <1>11, ShiftOfOne
      <4>2. QED
        BY <1>2, <1>3, <1>5, <1>10, <2>1, <2>2, <3>1, <4>1
    <3>2. CASE ~MovesRows
      <4>1. walk.sort.column = "created_at" /\ walk.filter = ""
        BY <1>11, <3>2 DEF MovesRows
      <4>2. Matching(walk.filter)' = Matching(walk.filter)
        BY <1>3, <1>7, <4>1 DEF Matching
      <4>3. \A id : Position(id)' = Position(id)
        BY <1>3, <4>1, <4>2 DEF Position, Before, Precedes, Key
      <4>4. Skipped' = Skipped /\ Pushed' = Pushed
        BY <1>3, <1>5, <4>2, <4>3 DEF Skipped, Pushed, Edge
      <4>5. QED
        BY <1>3, <1>5, <2>1, <3>2, <4>4
    <3>3. QED
      BY <3>1, <3>2
  <2>4. Cardinality(Repeats') <= ghosts'.placed + ghosts'.moved
    BY <1>2, <1>3, <1>5, <1>10, <2>2, <2>3
  <2>5. QED
    BY <1>2, <1>5, <1>9, <1>11, <2>3, <2>4 DEF ListingInv, MissedOnlyByMoves, RepeatsAreExplained
<1>12. CASE ~Reading
  <2>1. ghosts'.moved = ghosts.moved
    BY <1>3, <1>12 DEF MovesRows
  <2>2. RepeatsAreExplained'
    BY <1>3, <1>5, <2>1 DEF ListingInv, RepeatsAreExplained
  <2>3. MissedOnlyByMoves'
    <3> SUFFICES ASSUME walk # None
                 PROVE  Cardinality(Missed') <= ghosts'.moved
      BY <1>3 DEF MissedOnlyByMoves
    <3>1. ASSUME NEW id \in ghosts.before, id \in Matching(walk.filter)'
          PROVE  id \in Matching(walk.filter)
      <4>1. id \in Placed
        BY <1>7, <3>1 DEF Matching
      <4>2. CASE id # m \/ walk.filter = ""
        BY <1>3, <1>6, <3>1, <4>1, <4>2 DEF Matching, Placed
      <4>3. CASE id = m /\ walk.filter # ""
        <5>1. status = walk.filter
          BY <1>1, <1>3, <1>6, <3>1, <4>3 DEF Matching
        <5>2. Stage[orders[m].status] >= Stage[status]
          BY <4>3, <5>1 DEF ListingInv
        <5>3. Stage[status] \in Nat /\ Stage[orders[m].status] \in Nat
          BY <1>1, StagesGrow
        <5>4. QED
          BY <1>8, <5>2, <5>3
      <4>4. QED
        BY <4>2, <4>3
    <3>2. Missed' \subseteq Missed
      BY <1>3, <1>5, <3>1 DEF Missed
    <3>3. Cardinality(Missed) <= ghosts.moved
      BY <1>12 DEF ListingInv, MissedOnlyByMoves
    <3>4. IsFiniteSet(Missed) /\ Cardinality(Missed) \in Nat
      BY <1>2, SetsAreFinite
    <3>5. Cardinality(Missed') <= Cardinality(Missed) /\ Cardinality(Missed') \in Nat
      BY <3>2, <3>4, FS_Subset, FS_CardinalityType
    <3>6. QED
      BY <1>2, <2>1, <3>3, <3>4, <3>5
  <2>4. QED
    BY <1>2, <1>5, <1>9, <1>12, <2>2, <2>3 DEF ListingInv
<1>13. QED
  BY <1>11, <1>12

(***************************************************************************)
(* The theorems.                                                           *)
(***************************************************************************)
\* Every state of the listing satisfies the invariant: what has slipped over
\* the edge of the page being read never outnumbers the changes since the walk
\* began (orders.go:190-201, filters.go:31-51).
THEOREM ListingInvariant == ListingSpec => []ListingInv
<1>1. ListingInit => ListingInv
  <2> SUFFICES ASSUME ListingInit PROVE ListingInv
    OBVIOUS
  <2>1. ListingTypeOK
    <3>1. MaxStamps \in Nat
      BY Bounds
    <3>2. 0 \in 0..MaxStamps
      BY <3>1
    <3>3. QED
      BY <3>2 DEF ListingInit, ListingTypeOK, Quiet
  <2>2. Listed = {} /\ Repeats = {} /\ walk = None /\ ~Reading
    BY DEF ListingInit, Listed, Repeats, Reading
  <2>3. ghosts.before = {} /\ ghosts.placed = 0 /\ ghosts.moved = 0
    BY DEF ListingInit, Quiet
  <2>4. IsFiniteSet({}) /\ Cardinality({}) = 0
    BY FS_EmptySet
  <2>5. IsFiniteSet(Repeats) /\ Cardinality(Repeats) <= ghosts.placed + ghosts.moved
    BY <2>2, <2>3, <2>4
  <2>6. QED
    BY <2>1, <2>2, <2>3, <2>5 DEF ListingInv, MissedOnlyByMoves, RepeatsAreExplained
<1>2. ListingInv /\ [ListingNext]_listing => ListingInv'
  <2> SUFFICES ASSUME ListingInv, [ListingNext]_listing PROVE ListingInv'
    OBVIOUS
  <2>1. ListingTypeOK'
    BY ListingTypes DEF ListingInv
  <2>2. ASSUME NEW sort \in Sorts, NEW filter \in Filters, NEW size \in Sizes,
               BeginWalk(sort, filter, size)
        PROVE  ListingInv'
    BY <2>1, <2>2, InvBegin
  <2>3. CASE ReadPage
    BY <2>1, <2>3, InvReadPage
  <2>4. CASE EndWalk
    BY <2>1, <2>4, InvEnd
  <2>5. CASE UNCHANGED <<orders, walk, listed, ghosts>>
    BY <2>1, <2>5, InvSameRows
  <2>6. ASSUME BeginPlace \/ \E id \in Stamps : BeginMove(id)
        PROVE  ListingInv'
    BY <2>5, <2>6 DEF BeginPlace, BeginMove, Opens
  <2>7. ASSUME NEW t \in open, Abort(t)
        PROVE  ListingInv'
    BY <2>5, <2>7 DEF Abort, Ends
  <2>8. ASSUME NEW t \in open, CommitPlace(t)
        PROVE  ListingInv'
    BY <2>1, <2>8, InvPlace
  <2>9. ASSUME NEW t \in open, NEW s \in Statuses, CommitMove(t, s)
        PROVE  ListingInv'
    BY <2>1, <2>9, InvMove
  <2>10. CASE UNCHANGED listing
    BY <2>5, <2>10 DEF listing
  <2>11. QED
    BY <2>2, <2>3, <2>4, <2>6, <2>7, <2>8, <2>9, <2>10 DEF ListingNext
<1>3. QED
  BY <1>1, <1>2, PTL DEF ListingSpec

\* A walk to the last page the metadata promises misses at most one of the
\* orders that were there all along for each update that moved a row, and none
\* for an order that is placed meanwhile (orders.go:190-201, filters.go:31-51).
THEOREM WalksMissOnlyMoves == ListingSpec => []MissedOnlyByMoves
<1>1. ListingInv => MissedOnlyByMoves
  BY DEF ListingInv
<1>2. QED
  BY <1>1, ListingInvariant, PTL

\* A walk lists an order again at most once for each order that is placed or
\* moved meanwhile (orders.go:190-201).
THEOREM RepeatsHaveCauses == ListingSpec => []RepeatsAreExplained
<1>1. ListingInv => RepeatsAreExplained
  BY DEF ListingInv
<1>2. QED
  BY <1>1, ListingInvariant, PTL

\* A list of all orders in the order of their creation.
ByCreation == walk # None /\ walk.sort.column = "created_at" /\ walk.filter = ""

\* The demo restaurant's listing misses nothing: a walk through all orders by
\* created_at has, at its end, been given every order there was when it began,
\* whatever was placed and moved meanwhile (orders.go:190-201).
THEOREM CreationOrderMissesNothing ==
  ListingSpec => [](ByCreation /\ ~Reading => Missed = {})
<1> DEFINE Inv == ByCreation => ghosts.moved = 0
<1>1. ListingInit => Inv
  BY DEF ListingInit, ByCreation
<1>2. ListingInv /\ Inv /\ [ListingNext]_listing => Inv'
  <2> SUFFICES ASSUME ListingInv, Inv, [ListingNext]_listing PROVE Inv'
    OBVIOUS
  <2>1. ListingTypeOK
    BY DEF ListingInv
  <2>2. ASSUME NEW sort \in Sorts, NEW filter \in Filters, NEW size \in Sizes,
               BeginWalk(sort, filter, size)
        PROVE  Inv'
    BY <2>2 DEF BeginWalk, Quiet
  <2>3. CASE ReadPage
    <3>1. walk \in [sort : Sorts, filter : Filters, size : Sizes, page : Nat]
      BY <2>1, <2>3, WalkType DEF ReadPage, Reading
    <3>2. PICK page : walk' = [walk EXCEPT !.page = page]
      BY <2>3 DEF ReadPage
    <3>3. walk'.sort = walk.sort /\ walk'.filter = walk.filter /\ walk # None
      BY <2>3, <3>1, <3>2 DEF ReadPage, Reading
    <3>4. QED
      BY <2>3, <3>3 DEF ReadPage, ByCreation
  <2>4. CASE EndWalk
    BY <2>4 DEF EndWalk, ByCreation
  <2>5. CASE UNCHANGED <<walk, ghosts>>
    BY <2>5 DEF ByCreation
  <2>6. ASSUME BeginPlace \/ \E id \in Stamps : BeginMove(id)
        PROVE  Inv'
    BY <2>5, <2>6 DEF BeginPlace, BeginMove, Opens
  <2>7. ASSUME NEW t \in open, NEW s \in Statuses,
               CommitPlace(t) \/ CommitMove(t, s) \/ Abort(t)
        PROVE  Inv'
    <3>1. walk' = walk /\ (ByCreation => ghosts'.moved = ghosts.moved)
      BY <2>1, <2>7 DEF CommitPlace, CommitMove, Abort, Ends, ListingTypeOK, ByCreation,
                        MovesRows
    <3>2. QED
      BY <3>1 DEF ByCreation
  <2>8. CASE UNCHANGED listing
    BY <2>5, <2>8 DEF listing
  <2>9. Statuses # {}
    BY DEF Statuses
  <2>10. QED
    BY <2>2, <2>3, <2>4, <2>6, <2>7, <2>8, <2>9 DEF ListingNext
<1>3. ListingInv /\ Inv => (ByCreation /\ ~Reading => Missed = {})
  <2> SUFFICES ASSUME ListingInv, Inv, ByCreation, ~Reading PROVE Missed = {}
    OBVIOUS
  <2>1. IsFiniteSet(Missed) /\ Cardinality(Missed) \in Nat
    BY SetsAreFinite DEF ListingInv
  <2>2. Cardinality(Missed) <= 0
    BY DEF ListingInv, MissedOnlyByMoves, ByCreation
  <2>3. Cardinality(Missed) = 0
    BY <2>1, <2>2
  <2>4. QED
    BY <2>1, <2>3, FS_EmptySet
<1>4. QED
  BY <1>1, <1>2, <1>3, ListingInvariant, PTL DEF ListingSpec

================================================================================
