------------------------------- MODULE MenuCache -------------------------------
(***************************************************************************)
(* The menu of one restaurant and its cached copies: GET .../menu          *)
(* (cmd/api/menu_items.go), PUT /v1/partner/catalog as far as the cache    *)
(* sees it (cmd/api/partner_catalog.go) and internal/cache/menu.go.        *)
(*                                                                         *)
(* A menu is the number of the sync that wrote it.  Time passes in ticks:  *)
(* what Redis stores lives TTL ticks, and what a reader has loaded is      *)
(* stored, or given up, within MaxRead of them.                            *)
(***************************************************************************)
EXTENDS Naturals

CONSTANTS
  Readers,       \* requests for the menu being served at a time
  Syncs,         \* catalog requests being served at a time
  Views,         \* "all" and "available", a key of Redis each
  TTL,           \* 300 seconds in the code
  MaxRead,       \* the timeouts of the query and of one Redis call together
  MaxSyncs,      \* bound: syncs in a run
  MayFail,       \* whether calls of Redis, or what follows a commit, may fail
  None

Menus == 0..MaxSyncs
Horizon == TTL + MaxRead + 1

Entry == [menu : Menus, left : 1..TTL]
Loaded == [view : Views, menu : Menus, left : 0..MaxRead]

ASSUME CacheAssumption ==
  /\ TTL \in Nat \ {0}
  /\ MaxRead \in Nat
  /\ MaxSyncs \in Nat
  /\ MayFail \in BOOLEAN
  /\ None \notin Entry \cup Loaded \cup Views
  /\ Readers \cap Syncs = {}

VARIABLES
  menu,    \* the committed menu
  cache,   \* what Redis stores under each key, and for how long yet
  pc,      \* where each request is
  loaded,  \* what each reader has loaded, and how long it may keep it
  age      \* ghost: ticks since each menu was replaced, up to Horizon

cacheVars == <<menu, cache, pc, loaded, age>>

\* Every variable, and what each reader holds in it, has its type.
CacheTypeOK ==
  /\ menu \in Menus
  /\ cache \in [Views -> Entry \cup {None}]
  /\ pc \in [Readers \cup Syncs -> {"idle", "load", "store", "delete"}]
  /\ loaded \in [Readers -> Loaded \cup Views \cup {None}]
  /\ \A p \in Readers : /\ pc[p] = "load" => loaded[p] \in Views
                        /\ pc[p] = "store" => loaded[p] \in Loaded
                        /\ pc[p] # "delete"
  /\ age \in [Menus -> 0..Horizon]

CacheInit ==
  /\ menu = 0
  /\ cache = [v \in Views |-> None]
  /\ pc = [p \in Readers \cup Syncs |-> "idle"]
  /\ loaded = [p \in Readers |-> None]
  /\ age = [m \in Menus |-> 0]

At(p, from, to) == pc[p] = from /\ pc' = [pc EXCEPT ![p] = to]

Hold(p, value) == loaded' = [loaded EXCEPT ![p] = value]

(***************************************************************************)
(* A reader.                                                               *)
(***************************************************************************)

\* MenuCache.Get finds nothing, or fails.  A hit is answered at once and
\* changes nothing.
Miss(p, view) ==
  /\ At(p, "idle", "load")
  /\ MayFail \/ cache[view] = None
  /\ Hold(p, view)
  /\ UNCHANGED <<menu, cache, age>>

\* menu.GetAllForRestaurant
Load(p) ==
  /\ At(p, "load", "store")
  /\ Hold(p, [view |-> loaded[p], menu |-> menu, left |-> MaxRead])
  /\ UNCHANGED <<menu, cache, age>>

\* MenuCache.Set overwrites whatever is there, for a new TTL.
Store(p) ==
  /\ At(p, "store", "idle")
  /\ cache' = [cache EXCEPT ![loaded[p].view] = [menu |-> loaded[p].menu, left |-> TTL]]
  /\ Hold(p, None)
  /\ UNCHANGED <<menu, age>>

\* The query or Set fails, or the request is lost with its instance.
GiveUp(p) ==
  /\ MayFail
  /\ pc[p] # "idle"
  /\ pc' = [pc EXCEPT ![p] = "idle"]
  /\ Hold(p, None)
  /\ UNCHANGED <<menu, cache, age>>

(***************************************************************************)
(* A sync: the transaction of CatalogModel.Update, and what follows it.    *)
(***************************************************************************)
Commit(s) ==
  /\ menu < MaxSyncs
  /\ At(s, "idle", "delete")
  /\ menu' = menu + 1
  /\ UNCHANGED <<cache, loaded, age>>

\* MenuCache.Delete: both views at once.
Delete(s) ==
  /\ At(s, "delete", "idle")
  /\ cache' = [v \in Views |-> None]
  /\ UNCHANGED <<menu, loaded, age>>

\* Delete fails, which is logged and answered like success; or the client
\* disconnects, which cancels r.Context(); or the instance is lost.
DeleteFails(s) ==
  /\ MayFail
  /\ At(s, "delete", "idle")
  /\ UNCHANGED <<menu, cache, loaded, age>>

(***************************************************************************)
(* Time.                                                                   *)
(***************************************************************************)

\* Mutant: Set is called without an expiration.
Ageless(entry) == entry

\* What is left of an entry one tick later.
Aged(entry) ==
  IF entry = None THEN None
  ELSE IF entry.left = 1 THEN None
  ELSE [entry EXCEPT !.left = @ - 1]

\* Mutant: the query and the Redis call have no timeout.
MayAlwaysTick == TRUE

\* No reader's time is over.
MayTick == \A p \in Readers : pc[p] = "store" => loaded[p].left > 0

Tick ==
  /\ MayTick
  /\ cache' = [v \in Views |-> Aged(cache[v])]
  /\ loaded' = [p \in Readers |-> IF pc[p] = "store" THEN [loaded[p] EXCEPT !.left = @ - 1]
                                                      ELSE loaded[p]]
  /\ age' = [m \in Menus |-> IF m < menu /\ age[m] < Horizon THEN age[m] + 1 ELSE age[m]]
  /\ UNCHANGED <<menu, pc>>

ReaderStep(p) == (\E view \in Views : Miss(p, view)) \/ Load(p) \/ Store(p) \/ GiveUp(p)

CacheNext ==
  \/ \E p \in Readers : ReaderStep(p)
  \/ \E s \in Syncs : Commit(s) \/ Delete(s) \/ DeleteFails(s)
  \/ Tick

\* Requests that run come to an end, and time passes.
CacheFairness ==
  /\ \A p \in Readers : WF_cacheVars(Load(p)) /\ WF_cacheVars(Store(p) \/ GiveUp(p))
  /\ WF_cacheVars(Tick)

CacheSpec == CacheInit /\ [][CacheNext]_cacheVars

FairCacheSpec == CacheSpec /\ CacheFairness

(***************************************************************************)
(* Properties.                                                             *)
(***************************************************************************)

Stale(view) == cache[view] # None /\ cache[view].menu < menu

\* Whatever Redis, the readers and the syncs do, nobody is shown a menu that
\* was replaced longer ago than the TTL and the time one request takes: a
\* late Set and a failed Delete cost five minutes and a bit (menu.go:80,
\* menu_items.go:55-63, partner_catalog.go:44).
StalenessIsBounded ==
  \A v \in Views : Stale(v) => age[cache[v].menu] < TTL + MaxRead

\* When no more syncs come, the cache and the database agree for good.
CacheCatchesUp == <>[](\A v \in Views : ~Stale(v))

\* Once a sync has removed the cached copies, no copy of an older menu is left
\* (README.md:154, docs/partner-journey.puml:18).
SyncInvalidates ==
  (\A s \in Syncs : pc[s] = "idle") => \A v \in Views : ~Stale(v)

(***************************************************************************)
(* Why the bound holds: what is left of an entry's or a reader's time, on  *)
(* top of how old its menu is, never exceeds what it started with.         *)
(***************************************************************************)
EntryInTime(entry) ==
  entry # None =>
    /\ entry.menu <= menu
    /\ entry.menu < menu => age[entry.menu] + entry.left <= TTL + MaxRead

ReaderInTime(p) ==
  pc[p] = "store" =>
    /\ loaded[p].menu <= menu
    /\ loaded[p].menu < menu => age[loaded[p].menu] + loaded[p].left <= MaxRead

\* No entry and no reader has more time left than the limits allow for the age
\* of its menu (menu.go:77-80, the timeouts of menu_items.go).
CacheInv ==
  /\ CacheTypeOK
  /\ age[menu] = 0
  /\ \A m \in Menus : m > menu => age[m] = 0
  /\ \A v \in Views : EntryInTime(cache[v])
  /\ \A p \in Readers : ReaderInTime(p)

================================================================================
