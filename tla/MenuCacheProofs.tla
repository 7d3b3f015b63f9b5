---------------------------- MODULE MenuCacheProofs ----------------------------
(***************************************************************************)
(* The bound on how long a replaced menu is shown, for any number of       *)
(* readers and syncs, any TTL and any number of failures.                  *)
(***************************************************************************)
EXTENDS MenuCache, TLAPS

\* What a stored or loaded menu looks like after one tick: the same menu with
\* one tick less to be kept.
LEMMA OneTickLess ==
  ASSUME NEW r \in Entry \cup Loaded, r.left > 0, r.left = 1 => r \in Loaded
  PROVE  LET next == [r EXCEPT !.left = @ - 1]
         IN  /\ r \in Entry => next \in Entry
             /\ r \in Loaded => next \in Loaded
             /\ next.menu = r.menu
             /\ next.left = r.left - 1
             /\ r.menu \in Menus
             /\ r.left \in Nat
BY CacheAssumption DEF Loaded, Entry

\* What is left of a time, on top of an age, does not grow with a tick.
LEMMA StillInTime ==
  ASSUME NEW before \in Nat, NEW after \in Nat, NEW left \in Nat, NEW limit \in Nat,
         after <= before + 1, before + left <= limit
  PROVE  after + (left - 1) <= limit
OBVIOUS

\* A tick changes neither the menu nor where requests are; a replaced menu
\* grows older by one at most, the current one not at all.
LEMMA TickAges ==
  ASSUME CacheInv, Tick
  PROVE  /\ menu' = menu /\ pc' = pc
         /\ age' \in [Menus -> 0..Horizon]
         /\ \A m \in Menus : /\ m = menu \/ m > menu => age'[m] = 0
                             /\ age[m] \in Nat
                             /\ age'[m] \in Nat
                             /\ age'[m] <= age[m] + 1
BY CacheAssumption DEF Tick, CacheInv, CacheTypeOK, Menus, Horizon

\* An entry is still in time a tick later, or is gone.
LEMMA TickKeepsEntries ==
  ASSUME CacheInv, Tick, NEW v \in Views
  PROVE  cache'[v] \in Entry \cup {None} /\ EntryInTime(cache[v])'
<1>1. cache[v] \in Entry \cup {None} /\ EntryInTime(cache[v])
  BY DEF CacheInv, CacheTypeOK
<1>2. cache'[v] = Aged(cache[v])
  BY DEF Tick
<1>3. CASE cache[v] = None \/ cache[v].left = 1
  BY <1>2, <1>3 DEF Aged, EntryInTime
<1>4. CASE cache[v] # None /\ cache[v].left # 1
  <2>1. cache[v] \in Entry /\ cache[v].left > 0
    BY <1>1, <1>4, CacheAssumption DEF Entry
  <2>2. /\ cache'[v] \in Entry
        /\ cache'[v].menu = cache[v].menu
        /\ cache'[v].left = cache[v].left - 1
        /\ cache[v].menu \in Menus
        /\ cache[v].left \in Nat
    BY <1>2, <1>4, <2>1, OneTickLess DEF Aged
  <2>3. cache'[v].menu <= menu'
    BY <1>1, <1>4, <2>2, TickAges DEF EntryInTime
  <2>4. ASSUME cache'[v].menu < menu'
        PROVE  age'[cache'[v].menu] + cache'[v].left <= TTL + MaxRead
    <3>1. age[cache[v].menu] + cache[v].left <= TTL + MaxRead
      BY <1>1, <1>4, <2>2, <2>4, TickAges DEF EntryInTime
    <3>2. TTL + MaxRead \in Nat
      BY CacheAssumption
    <3>3. QED
      BY <2>2, <3>1, <3>2, TickAges, StillInTime
  <2>5. QED
    BY <2>2, <2>3, <2>4 DEF EntryInTime
<1>5. QED
  BY <1>3, <1>4

\* A reader is still in time a tick later.
LEMMA TickKeepsReaders ==
  ASSUME CacheInv, Tick, NEW p \in Readers
  PROVE  /\ loaded'[p] \in Loaded \cup Views \cup {None}
         /\ pc'[p] = "load" => loaded'[p] \in Views
         /\ pc'[p] = "store" => loaded'[p] \in Loaded
         /\ pc'[p] # "delete"
         /\ ReaderInTime(p)'
<1>1. /\ loaded[p] \in Loaded \cup Views \cup {None}
      /\ pc[p] = "load" => loaded[p] \in Views
      /\ pc[p] = "store" => loaded[p] \in Loaded
      /\ pc[p] # "delete"
      /\ ReaderInTime(p)
      /\ pc'[p] = pc[p]
  BY TickAges DEF CacheInv, CacheTypeOK
<1>2. CASE pc[p] # "store"
  <2>1. loaded'[p] = loaded[p]
    BY <1>2 DEF Tick
  <2>2. QED
    BY <1>1, <1>2, <2>1 DEF ReaderInTime
<1>3. CASE pc[p] = "store"
  <2>1. /\ loaded[p] \in Loaded
        /\ loaded[p].left > 0
        /\ loaded'[p] = [loaded[p] EXCEPT !.left = @ - 1]
    BY <1>1, <1>3 DEF Tick, MayTick
  <2>2. /\ loaded'[p] \in Loaded
        /\ loaded'[p].menu = loaded[p].menu
        /\ loaded'[p].left = loaded[p].left - 1
        /\ loaded[p].menu \in Menus
        /\ loaded[p].left \in Nat
    BY <2>1, OneTickLess
  <2>3. loaded'[p].menu <= menu'
    BY <1>1, <1>3, <2>2, TickAges DEF ReaderInTime
  <2>4. ASSUME loaded'[p].menu < menu'
        PROVE  age'[loaded'[p].menu] + loaded'[p].left <= MaxRead
    <3>1. age[loaded[p].menu] + loaded[p].left <= MaxRead
      BY <1>1, <1>3, <2>2, <2>4, TickAges DEF ReaderInTime
    <3>2. MaxRead \in Nat
      BY CacheAssumption
    <3>3. QED
      BY <2>2, <3>1, <3>2, TickAges, StillInTime
  <2>5. QED
    BY <1>1, <1>3, <2>2, <2>3, <2>4 DEF ReaderInTime
<1>4. QED
  BY <1>2, <1>3

\* Time passes.
LEMMA TickKeepsInv ==
  ASSUME CacheInv, Tick
  PROVE  CacheInv'
<1>1. menu' \in Menus /\ pc' \in [Readers \cup Syncs -> {"idle", "load", "store", "delete"}]
  BY TickAges DEF CacheInv, CacheTypeOK
<1>2. cache' \in [Views -> Entry \cup {None}]
  BY TickKeepsEntries DEF Tick
<1>3. loaded' \in [Readers -> Loaded \cup Views \cup {None}]
  BY TickKeepsReaders DEF Tick
<1>4. age'[menu'] = 0 /\ \A m \in Menus : m > menu' => age'[m] = 0
  BY <1>1, TickAges
<1>5. QED
  BY <1>1, <1>2, <1>3, <1>4, TickAges, TickKeepsEntries, TickKeepsReaders
     DEF CacheInv, CacheTypeOK

\* Every step keeps what is left of an entry or a reader within its limit.
LEMMA CacheStepKeepsInv == CacheInv /\ [CacheNext]_cacheVars => CacheInv'
<1> SUFFICES ASSUME CacheInv, [CacheNext]_cacheVars PROVE CacheInv'
  OBVIOUS
<1> USE CacheAssumption
    DEF CacheInv, CacheTypeOK, Entry, Loaded, Menus, Horizon, EntryInTime, ReaderInTime
<1>1. ASSUME NEW p \in Readers, NEW view \in Views, Miss(p, view) PROVE CacheInv'
  BY <1>1 DEF Miss, At, Hold
<1>2. ASSUME NEW p \in Readers, Load(p) PROVE CacheInv'
  BY <1>2 DEF Load, At, Hold
<1>3. ASSUME NEW p \in Readers, Store(p) PROVE CacheInv'
  BY <1>3 DEF Store, At, Hold
<1>4. ASSUME NEW p \in Readers, GiveUp(p) PROVE CacheInv'
  BY <1>4 DEF GiveUp, Hold
<1>5. ASSUME NEW s \in Syncs, Commit(s) PROVE CacheInv'
  BY <1>5 DEF Commit, At
<1>6. ASSUME NEW s \in Syncs, Delete(s) PROVE CacheInv'
  BY <1>6 DEF Delete, At
<1>7. ASSUME NEW s \in Syncs, DeleteFails(s) PROVE CacheInv'
  BY <1>7 DEF DeleteFails, At
<1>8. CASE Tick
  BY <1>8, TickKeepsInv
<1>9. CASE UNCHANGED cacheVars
  BY <1>9 DEF cacheVars
<1>10. QED
  BY <1>1, <1>2, <1>3, <1>4, <1>5, <1>6, <1>7, <1>8, <1>9 DEF CacheNext, ReaderStep

\* The invariant that bounds what is left of every entry and of every reader.
THEOREM CacheInvariant == CacheSpec => []CacheInv
<1>1. CacheInit => CacheInv
  BY CacheAssumption
     DEF CacheInit, CacheInv, CacheTypeOK, Menus, Horizon, EntryInTime, ReaderInTime
<1>2. QED
  BY <1>1, CacheStepKeepsInv, PTL DEF CacheSpec

\* Nobody is shown a menu that was replaced longer ago than the TTL and the
\* time one request takes, whatever fails (menu.go:80, menu_items.go:55-63).
THEOREM StaleMenusExpire == CacheSpec => []StalenessIsBounded
<1>1. CacheInv => StalenessIsBounded
  BY CacheAssumption
     DEF CacheInv, CacheTypeOK, Entry, Menus, Horizon, EntryInTime, StalenessIsBounded, Stale
<1>2. QED
  BY <1>1, CacheInvariant, PTL

================================================================================
