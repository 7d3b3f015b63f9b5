---------------------------- MODULE RateLimiterProofs ----------------------------
(***************************************************************************)
(* Dropping the buckets of idle addresses is harmless, for any number of   *)
(* addresses and any limits that LimiterAssumption allows; and the gauge,  *)
(* the counter and the log of the handler chain in front of which the      *)
(* limiter stands are right, for any number of requests at once.           *)
(***************************************************************************)
EXTENDS Pipeline, FiniteSetTheorems, TLAPS

\* The cleanup only drops full buckets, so what is available to an address is
\* what its bucket, kept or dropped, would hold.
LEMMA CleanupDropsFullBuckets ==
  ASSUME LimiterInv
  PROVE  /\ Kept \subseteq DOMAIN clients
         /\ Balance \in [Addresses -> 0..Burst]
         /\ \A a \in Addresses : Available(a) = Balance[a]
         /\ \A a \in DOMAIN clients \ Kept : clients[a].tokens = Burst
<1> USE LimiterAssumption DEF LimiterInv, Client
<1>1. Kept \subseteq DOMAIN clients
  BY DEF Kept
<1>2. ASSUME NEW a \in DOMAIN clients \ Kept PROVE clients[a].tokens = Burst
  <2>1. clients[a] \in Client /\ clients[a].idle > MaxIdle
    BY <1>2 DEF Kept, LongAgo
  <2>2. QED
    BY <1>2, <2>1
<1>3. Balance \in [Addresses -> 0..Burst]
  BY DEF Balance
<1>4. ASSUME NEW a \in Addresses PROVE Available(a) = Balance[a]
  BY <1>1, <1>2 DEF Available, Balance
<1>5. QED
  BY <1>1, <1>2, <1>3, <1>4

\* A request leaves its address with the tokens it is charged for and all other
\* addresses with what they had.
LEMMA SeenChangesOneBalance ==
  ASSUME LimiterInv, NEW a \in Addresses, NEW left \in 0..Burst, Seen(a, left)
  PROVE  /\ DOMAIN clients' = Kept \cup {a}
         /\ clients'[a] = [tokens |-> left, idle |-> 0]
         /\ \A b \in Kept : b # a => clients'[b] = clients[b]
         /\ Balance' = [Balance EXCEPT ![a] = left]
         /\ Balance[a] = left => Balance' = Balance
<1>1. /\ DOMAIN clients' = Kept \cup {a}
      /\ clients'[a] = [tokens |-> left, idle |-> 0]
      /\ \A b \in Kept : b # a => clients'[b] = clients[b]
  BY DEF Seen
<1>2. ASSUME NEW b \in Addresses, b # a PROVE Balance'[b] = Balance[b]
  BY <1>1, <1>2, CleanupDropsFullBuckets DEF Balance
<1>3. Balance'[a] = left
  BY <1>1 DEF Balance
<1>4. ASSUME Balance[a] = left PROVE Balance' = Balance
  <2>1. \A b \in Addresses : Balance'[b] = Balance[b]
    BY <1>2, <1>3, <1>4
  <2>2. QED
    BY <2>1 DEF Balance
<1>5. QED
  BY <1>1, <1>2, <1>3, <1>4, CleanupDropsFullBuckets DEF Balance

\* What Seen does to the invariant's parts about the map.
LEMMA SeenKeepsClients ==
  ASSUME LimiterInv, NEW a \in Addresses, NEW left \in 0..Burst, Seen(a, left)
  PROVE  /\ DOMAIN clients' \subseteq Addresses
         /\ clients' \in [DOMAIN clients' -> Client]
         /\ sinceCleanup' \in 0..Interval
         /\ \A b \in DOMAIN clients' :
              /\ clients'[b].tokens < Burst => clients'[b].idle <= clients'[b].tokens
              /\ clients'[b].idle <= MaxIdle + sinceCleanup' \/ sinceCleanup' = Interval
              /\ clients'[b].idle < MaxIdle + Interval
<1> USE LimiterAssumption
<1>1. /\ DOMAIN clients' = Kept \cup {a}
      /\ clients'[a] = [tokens |-> left, idle |-> 0]
      /\ \A b \in Kept : b # a => clients'[b] = clients[b]
      /\ Kept \subseteq DOMAIN clients
  BY SeenChangesOneBalance, CleanupDropsFullBuckets
<1>2. sinceCleanup' \in 0..Interval
  BY DEF Seen, LimiterInv
<1>3. clients' = [b \in Kept \cup {a} |-> clients'[b]]
  BY DEF Seen
<1>4. [tokens |-> left, idle |-> 0] \in Client
  BY DEF Client, LongAgo
<1>5. ASSUME NEW b \in DOMAIN clients', b # a
      PROVE  /\ clients'[b] \in Client
             /\ clients'[b].tokens < Burst => clients'[b].idle <= clients'[b].tokens
             /\ clients'[b].idle <= MaxIdle + sinceCleanup' \/ sinceCleanup' = Interval
             /\ clients'[b].idle < MaxIdle + Interval
  <2>1. b \in Kept /\ clients'[b] = clients[b] /\ clients[b] \in Client
    BY <1>1, <1>5 DEF LimiterInv
  <2>2. clients[b].tokens < Burst => clients[b].idle <= clients[b].tokens
    BY <1>1, <2>1 DEF LimiterInv
  <2>3. CASE sinceCleanup < Interval
    BY <1>1, <2>1, <2>2, <2>3 DEF LimiterInv, Seen, Client, LongAgo
  <2>4. CASE ~(sinceCleanup < Interval)
    BY <2>1, <2>2, <2>4 DEF Seen, Kept, Client, LongAgo
  <2>5. QED
    BY <2>3, <2>4
<1>6. QED
  BY <1>1, <1>2, <1>3, <1>4, <1>5 DEF LimiterInv, Client

\* A request that is admitted pays for it; one that is refused changes no
\* balance.
LEMMA RequestKeepsInv ==
  ASSUME LimiterInv, NEW a \in Addresses, Admit(a) \/ Refuse(a)
  PROVE  LimiterInv' /\ \A b \in DOMAIN clients' : clients'[b].idle < MaxIdle + Interval
<1> USE LimiterAssumption
<1>1. Available(a) = Balance[a] /\ Balance[a] \in 0..Burst /\ window.address \in Addresses
  BY CleanupDropsFullBuckets DEF LimiterInv, Window
<1>2. CASE Admit(a)
  <2>1. Balance[a] - 1 \in 0..Burst /\ Seen(a, Balance[a] - 1)
    BY <1>1, <1>2 DEF Admit
  <2>2. Balance' = [Balance EXCEPT ![a] = Balance[a] - 1]
    BY <2>1, SeenChangesOneBalance
  <2>3. window' \in Window /\ verdict' \in [Addresses -> {"none", "admitted", "refused"}]
    BY <1>2 DEF Admit, LimiterInv, Window
  <2>4. Balance'[window'.address] + window'.admitted <= Burst + window'.elapsed
    <3>1. CASE a = window.address
      BY <1>1, <1>2, <2>2, <3>1, CleanupDropsFullBuckets DEF Admit, LimiterInv, Window
    <3>2. CASE a # window.address
      BY <1>1, <1>2, <2>2, <3>2, CleanupDropsFullBuckets DEF Admit, LimiterInv, Window
    <3>3. QED
      BY <3>1, <3>2
  <2>5. QED
    BY <2>1, <2>3, <2>4, SeenKeepsClients DEF LimiterInv
<1>3. CASE Refuse(a)
  <2>1. 0 \in 0..Burst /\ Seen(a, 0) /\ Balance[a] = 0
    BY <1>1, <1>3 DEF Refuse
  <2>2. Balance' = Balance
    BY <2>1, SeenChangesOneBalance
  <2>3. window' = window /\ verdict' \in [Addresses -> {"none", "admitted", "refused"}]
    BY <1>3 DEF Refuse, LimiterInv
  <2>4. QED
    BY <2>1, <2>2, <2>3, SeenKeepsClients DEF LimiterInv
<1>4. QED
  BY <1>2, <1>3

\* A tick fills the buckets and, at most by as much, the observed allowance.
LEMMA TickKeepsInv ==
  ASSUME LimiterInv, Tick
  PROVE  LimiterInv'
<1> USE LimiterAssumption
<1>1. /\ DOMAIN clients' = DOMAIN clients
      /\ \A a \in DOMAIN clients : clients'[a] = Later(clients[a])
      /\ clients' = [a \in DOMAIN clients |-> Later(clients[a])]
  BY DEF Tick
<1>2. ASSUME NEW a \in DOMAIN clients
      PROVE  /\ clients'[a] \in Client
             /\ clients'[a].tokens < Burst => clients'[a].idle <= clients'[a].tokens
             /\ clients'[a].idle <= MaxIdle + sinceCleanup' \/ sinceCleanup' = Interval
             /\ clients'[a].tokens <= clients[a].tokens + 1
  <2>1. /\ clients[a] \in Client
        /\ clients[a].tokens < Burst => clients[a].idle <= clients[a].tokens
        /\ clients[a].idle <= MaxIdle + sinceCleanup \/ sinceCleanup = Interval
        /\ sinceCleanup \in 0..Interval
    BY DEF LimiterInv
  <2>2. clients'[a] = Later(clients[a])
    BY <1>1
  <2>3. /\ sinceCleanup' \in 0..Interval
        /\ sinceCleanup' = sinceCleanup + 1 \/ sinceCleanup' = Interval
    BY <2>1 DEF Tick
  <2>4. QED
    BY <2>1, <2>2, <2>3 DEF Later, Client, LongAgo
<1>3. /\ window' \in Window
      /\ window'.address = window.address
      /\ window'.admitted = window.admitted
      /\ window'.elapsed = window.elapsed + 1
  BY DEF Tick, LimiterInv, Window
<1>4. /\ sinceCleanup' \in 0..Interval
      /\ verdict' \in [Addresses -> {"none", "admitted", "refused"}]
      /\ DOMAIN clients' \subseteq Addresses
      /\ clients' \in [DOMAIN clients' -> Client]
  BY <1>1, <1>2 DEF Tick, LimiterInv
<1>5. Balance'[window'.address] + window'.admitted <= Burst + window'.elapsed
  <2>1. /\ window.address \in Addresses /\ window.admitted \in Nat /\ window.elapsed \in Nat
        /\ Balance[window.address] + window.admitted <= Burst + window.elapsed
    BY DEF LimiterInv, Window
  <2>2. /\ Balance'[window.address] \in 0..Burst
        /\ Balance[window.address] \in 0..Burst
        /\ Balance'[window.address] <= Balance[window.address] + 1
    BY <1>1, <1>2, <2>1 DEF Balance, LimiterInv, Client
  <2>3. QED
    BY <1>3, <2>1, <2>2
<1>6. QED
  BY <1>1, <1>2, <1>3, <1>4, <1>5 DEF LimiterInv

\* Every step keeps the invariant.
LEMMA LimiterStepKeepsInv == LimiterInv /\ [LimiterNext]_limiter => LimiterInv'
<1> SUFFICES ASSUME LimiterInv, [LimiterNext]_limiter PROVE LimiterInv'
  OBVIOUS
<1>1. CASE Tick
  BY <1>1, TickKeepsInv
<1>2. ASSUME NEW a \in Addresses, Admit(a) \/ Refuse(a) PROVE LimiterInv'
  BY <1>2, RequestKeepsInv
<1>3. ASSUME NEW a \in Addresses, Observe(a) PROVE LimiterInv'
  <2>1. Balance[a] \in 0..Burst
    BY CleanupDropsFullBuckets
  <2>2. window' \in Window /\ UNCHANGED <<clients, sinceCleanup, verdict>>
    BY <1>3, LimiterAssumption DEF Observe, Window
  <2>3. QED
    BY <1>3, <2>1, <2>2, LimiterAssumption DEF Observe, LimiterInv, Balance
<1>4. CASE UNCHANGED limiter
  BY <1>4 DEF limiter, LimiterInv, Balance
<1>5. QED
  BY <1>1, <1>2, <1>3, <1>4 DEF LimiterNext

\* The map is empty in the beginning.
LEMMA LimiterInitInv == LimiterInit => LimiterInv
BY LimiterAssumption DEF LimiterInit, LimiterInv, Client, Window, Balance

\* A bucket has refilled as long as it was idle, and what was admitted is paid
\* for (middleware.go:138-155).
THEOREM LimiterInvariant == LimiterSpec => []LimiterInv
BY LimiterInitInv, LimiterStepKeepsInv, PTL DEF LimiterSpec

\* An address never gets more through than a burst and what it has earned,
\* over any period (middleware.go:142-155).
THEOREM NobodyExceedsTheRate == LimiterSpec => []RateIsBounded
<1>1. LimiterInv => RateIsBounded
  BY CleanupDropsFullBuckets, LimiterAssumption DEF LimiterInv, RateIsBounded, Window
<1>2. QED
  BY <1>1, LimiterInvariant, PTL

\* No request leaves the bucket of a long idle address behind
\* (middleware.go:140-147).
THEOREM MemoryIsReclaimed == LimiterSpec => IdleClientsAreForgotten
<1>1. LimiterInv /\ [LimiterNext]_limiter =>
        [(\E a \in Addresses : Admit(a) \/ Refuse(a)) =>
           \A a \in DOMAIN clients' : clients'[a].idle < MaxIdle + Interval]_limiter
  BY RequestKeepsInv
<1>2. QED
  BY <1>1, LimiterInvariant, PTL DEF LimiterSpec, IdleClientsAreForgotten

\* Every step of the limiter is a step of the eternal buckets, or changes none
\* of them.
LEMMA LimiterStepIsBucketStep ==
  ASSUME LimiterInv, [LimiterNext]_limiter
  PROVE  [Buckets!Next]_(Buckets!buckets)
<1>1. CASE Tick
  <2>1. Balance' = [a \in Addresses |-> IF Balance[a] < Burst THEN Balance[a] + 1 ELSE Burst]
    BY <1>1, LimiterAssumption DEF Tick, Later, Balance, LimiterInv, Client
  <2>2. QED
    BY <1>1, <2>1 DEF Tick, Buckets!Next, Buckets!Refill
<1>2. ASSUME NEW a \in Addresses, Admit(a) PROVE Buckets!Admit(a)
  <2>1. Balance[a] - 1 \in 0..Burst /\ Seen(a, Balance[a] - 1) /\ Balance[a] > 0
    BY <1>2, CleanupDropsFullBuckets, LimiterAssumption DEF Admit
  <2>2. QED
    BY <1>2, <2>1, SeenChangesOneBalance DEF Admit, Buckets!Admit
<1>3. ASSUME NEW a \in Addresses, Refuse(a) PROVE Buckets!Refuse(a)
  <2>1. 0 \in 0..Burst /\ Seen(a, 0) /\ Balance[a] = 0
    BY <1>3, CleanupDropsFullBuckets, LimiterAssumption DEF Refuse
  <2>2. Balance' = Balance
    BY <2>1, SeenChangesOneBalance
  <2>3. QED
    BY <1>3, <2>1, <2>2 DEF Refuse, Buckets!Refuse
<1>4. ASSUME NEW a \in Addresses, Observe(a) PROVE UNCHANGED Buckets!buckets
  BY <1>4 DEF Observe, Buckets!buckets, Balance
<1>5. CASE UNCHANGED limiter
  BY <1>5 DEF limiter, Buckets!buckets, Balance
<1>6. QED
  BY <1>1, <1>2, <1>3, <1>4, <1>5 DEF LimiterNext, Buckets!Next

\* The limiter, which forgets idle addresses, implements the one that keeps a
\* bucket for every address for ever (middleware.go:139-161).
THEOREM ForgettingIsHarmless == LimiterSpec => ImplementsTokenBuckets
<1>1. LimiterInit => Buckets!Init
  BY DEF LimiterInit, Buckets!Init, Balance
<1>2. LimiterInv /\ [LimiterNext]_limiter => [Buckets!Next]_(Buckets!buckets)
  BY LimiterStepIsBucketStep
<1>3. QED
  BY <1>1, <1>2, LimiterInvariant, PTL
     DEF LimiterSpec, ImplementsTokenBuckets, Buckets!Spec

(***************************************************************************)
(* The pipeline keeps the limiter as it is.                                *)
(***************************************************************************)

LEMMA PipelineStepIsLimiterStep ==
  [PipelineNext]_pipelineVars => [LimiterNext]_limiter
  BY DEF PipelineNext, pipelineVars, PassLimit, RefuseRate, LimiterNext

\* Behind the handlers, whatever they do, the limiter is the limiter
\* (routes.go, middleware.go:110-163).
THEOREM PipelineLimits == PipelineSpec => LimiterSpec
<1>1. PipelineInit => LimiterInit
  BY DEF PipelineInit
<1>2. QED
  BY <1>1, PipelineStepIsLimiterStep, PTL DEF PipelineSpec, LimiterSpec

\* Everything proved of the limiter alone holds of the limiter in its place
\* (middleware.go:139-161).
THEOREM PipelineKeepsLimits ==
  PipelineSpec => /\ []LimiterInv
                  /\ []RateIsBounded
                  /\ IdleClientsAreForgotten
                  /\ ImplementsTokenBuckets
  BY PipelineLimits, LimiterInvariant, NobodyExceedsTheRate, MemoryIsReclaimed,
     ForgettingIsHarmless

(***************************************************************************)
(* The gauge.                                                              *)
(***************************************************************************)

InsidePlaces == {"authenticate", "handle", "body", "count"}

\* A request keeps its route, and the gauges stay, while it is as much inside
\* the route as before.
LEMMA StayingKeepsGauge ==
  ASSUME PipelineTypeOK, GaugeIsExact, NEW p \in Procs, NEW place, Goes(p, place),
         \A q \in Procs : q # p \/ at[p] # "idle" => route'[q] = route[q],
         at[p] \in InsidePlaces <=> place \in InsidePlaces,
         UNCHANGED inFlight
  PROVE  GaugeIsExact'
<1>1. ASSUME NEW r \in Routes PROVE Inside(r)' = Inside(r)
  BY DEF Inside, Goes, PipelineTypeOK, InsidePlaces
<1>2. QED
  BY <1>1 DEF GaugeIsExact

LEMMA EnteringCounts ==
  ASSUME PipelineTypeOK, GaugeIsExact, NEW p \in Procs, NEW place \in InsidePlaces,
         at[p] \notin InsidePlaces, Goes(p, place), UNCHANGED route,
         inFlight' = [inFlight EXCEPT ![route[p]] = @ + 1]
  PROVE  GaugeIsExact' /\ inFlight' \in [Routes -> Nat]
<1>1. route[p] \in Routes /\ inFlight \in [Routes -> Nat]
  BY DEF PipelineTypeOK
<1>2. ASSUME NEW r \in Routes PROVE inFlight'[r] = Cardinality(Inside(r)')
  <2>1. CASE r = route[p]
    <3>1. Inside(r)' = Inside(r) \cup {p} /\ p \notin Inside(r)
      BY <2>1 DEF Inside, Goes, PipelineTypeOK, InsidePlaces
    <3>2. IsFiniteSet(Inside(r))
      BY FS_Subset, PipelineAssumption DEF Inside
    <3>3. Cardinality(Inside(r)') = Cardinality(Inside(r)) + 1
      BY <3>1, <3>2, FS_AddElement
    <3>4. QED
      BY <1>1, <2>1, <3>3 DEF GaugeIsExact
  <2>2. CASE r # route[p]
    <3>1. Inside(r)' = Inside(r)
      BY <2>2 DEF Inside, Goes, PipelineTypeOK, InsidePlaces
    <3>2. QED
      BY <1>1, <2>2, <3>1 DEF GaugeIsExact
  <2>3. QED
    BY <2>1, <2>2
<1>3. QED
  BY <1>1, <1>2 DEF GaugeIsExact

LEMMA LeavingCounts ==
  ASSUME PipelineTypeOK, GaugeIsExact, NEW p \in Procs, NEW place,
         place \notin InsidePlaces,
         at[p] \in InsidePlaces, Goes(p, place), UNCHANGED route,
         inFlight' = [inFlight EXCEPT ![route[p]] = @ - 1]
  PROVE  GaugeIsExact' /\ inFlight' \in [Routes -> Nat]
<1>1. route[p] \in Routes /\ inFlight \in [Routes -> Nat]
  BY DEF PipelineTypeOK
<1>2. ASSUME NEW r \in Routes
      PROVE  inFlight'[r] = Cardinality(Inside(r)') /\ inFlight'[r] \in Nat
  <2>1. CASE r = route[p]
    <3>1. Inside(r)' = Inside(r) \ {p} /\ p \in Inside(r)
      BY <2>1 DEF Inside, Goes, PipelineTypeOK, InsidePlaces
    <3>2. IsFiniteSet(Inside(r)) /\ IsFiniteSet(Inside(r) \ {p})
      BY FS_Subset, PipelineAssumption DEF Inside
    <3>3. Cardinality(Inside(r)') = Cardinality(Inside(r)) - 1
      BY <3>1, <3>2, FS_RemoveElement
    <3>4. Cardinality(Inside(r)') \in Nat
      BY <3>1, <3>2, FS_CardinalityType
    <3>5. QED
      BY <1>1, <2>1, <3>3, <3>4 DEF GaugeIsExact
  <2>2. CASE r # route[p]
    <3>1. Inside(r)' = Inside(r)
      BY <2>2 DEF Inside, Goes, PipelineTypeOK, InsidePlaces
    <3>2. QED
      BY <1>1, <2>2, <3>1 DEF GaugeIsExact
  <2>3. QED
    BY <2>1, <2>2
<1>3. QED
  BY <1>1, <1>2 DEF GaugeIsExact

(***************************************************************************)
(* The records.                                                            *)
(***************************************************************************)

\* A step of p leaves what is recorded of the other requests.
OthersUntouched(p) ==
  \A q \in Procs \ {p} :
    /\ at'[q] = at[q] /\ wire'[q] = wire[q] /\ outer'[q] = outer[q] /\ inner'[q] = inner[q]
    /\ broken'[q] = broken[q] /\ counted'[q] = counted[q] /\ logged'[q] = logged[q]

\* What is recorded of one request when it has ended.
EndsRecorded(p) ==
  /\ logged[p] # Unset /\ ~broken[p] => logged[p] = wire[p]
  /\ logged[p] # Unset /\ counted[p] # Unset => logged[p] = counted[p]

\* What a step of p has to show.
KeepsRecords(p) ==
  /\ PipelineTypeOK'
  /\ GaugeIsExact'
  /\ OthersUntouched(p)
  /\ Recorded(p)'
  /\ EndsRecorded(p)'

LEMMA OneRequestSuffices ==
  ASSUME PipelineInv, NEW p \in Procs, KeepsRecords(p) PROVE PipelineInv'
<1>1. ASSUME NEW q \in Procs PROVE Recorded(q)' /\ EndsRecorded(q)'
  BY DEF PipelineInv, KeepsRecords, OthersUntouched, Recorded, EndsRecorded, StatusIsRecorded
<1>2. StatusIsRecorded'
  BY <1>1 DEF StatusIsRecorded, EndsRecorded
<1>3. QED
  BY <1>1, <1>2 DEF PipelineInv, KeepsRecords

\* A status is written in one place of each recorder it reaches.
LEMMA WritesOne ==
  ASSUME PipelineTypeOK, NEW p \in Procs, NEW status \in Nat,
         WriteOuter(p, status) \/ WriteInner(p, status)
  PROVE  /\ wire' \in [Procs -> Nat] /\ outer' \in [Procs -> Nat] /\ inner' \in [Procs -> Nat]
         /\ \A q \in Procs \ {p} :
              wire'[q] = wire[q] /\ outer'[q] = outer[q] /\ inner'[q] = inner[q]
  BY DEF WriteOuter, WriteInner, Sends, PipelineTypeOK, Unset

\* So does a step that writes one, or none.
LEMMA WritingKeepsTypes ==
  ASSUME PipelineTypeOK, NEW p \in Procs, NEW place \in Places, Goes(p, place),
         \/ \E status \in Nat : WriteOuter(p, status) \/ WriteInner(p, status)
         \/ UNCHANGED <<wire, outer, inner>>,
         UNCHANGED broken \/ broken' = [broken EXCEPT ![p] = TRUE],
         UNCHANGED <<route, counted, logged, inFlight>>
  PROVE  PipelineTypeOK' /\ OthersUntouched(p)
<1>1. /\ wire' \in [Procs -> Nat] /\ outer' \in [Procs -> Nat] /\ inner' \in [Procs -> Nat]
      /\ \A q \in Procs \ {p} :
           wire'[q] = wire[q] /\ outer'[q] = outer[q] /\ inner'[q] = inner[q]
  BY WritesOne DEF PipelineTypeOK
<1>2. at' \in [Procs -> Places] /\ \A q \in Procs \ {p} : at'[q] = at[q]
  BY DEF PipelineTypeOK, Goes
<1>3. broken' \in [Procs -> BOOLEAN] /\ \A q \in Procs \ {p} : broken'[q] = broken[q]
  BY DEF PipelineTypeOK
<1>4. QED
  BY <1>1, <1>2, <1>3 DEF PipelineTypeOK, OthersUntouched

LEMMA ArrivalKeepsRecords ==
  ASSUME PipelineInv, NEW p \in Procs, Arrive(p) PROVE KeepsRecords(p)
<1> USE DEF Unset, Goes, PipelineTypeOK, Places, PipelineInv
<1>1. PipelineTypeOK'
  BY DEF Arrive
<1>2. GaugeIsExact'
  BY StayingKeepsGauge DEF Arrive, InsidePlaces
<1>3. OthersUntouched(p)
  BY DEF Arrive, OthersUntouched
<1>4. Recorded(p)' /\ EndsRecorded(p)'
  BY DEF Arrive, Recorded, EndsRecorded
<1>5. QED
  BY <1>1, <1>2, <1>3, <1>4 DEF KeepsRecords

LEMMA LimitKeepsRecords ==
  ASSUME PipelineInv, NEW p \in Procs, PassLimit(p) \/ RefuseRate(p) PROVE KeepsRecords(p)
<1> USE DEF Unset, Goes, PipelineTypeOK, Places, PipelineInv
<1>1. CASE PassLimit(p)
  <2>1. PipelineTypeOK' /\ OthersUntouched(p)
    BY <1>1 DEF PassLimit, OthersUntouched
  <2>2. GaugeIsExact'
    BY <1>1, StayingKeepsGauge DEF PassLimit, InsidePlaces
  <2>3. Recorded(p)' /\ EndsRecorded(p)'
    BY <1>1 DEF PassLimit, Recorded, EndsRecorded
  <2>4. QED
    BY <2>1, <2>2, <2>3 DEF KeepsRecords
<1>2. CASE RefuseRate(p)
  <2>1. PipelineTypeOK' /\ OthersUntouched(p)
    <3>1. \E status \in Nat : WriteOuter(p, status)
      <4>1. WriteOuter(p, 429) \/ WriteOuter(p, 500)
        BY <1>2 DEF RefuseRate
      <4>2. QED
        BY <4>1
    <3>2. QED
      BY <1>2, <3>1, WritingKeepsTypes DEF RefuseRate
  <2>2. GaugeIsExact'
    BY <1>2, StayingKeepsGauge DEF RefuseRate, InsidePlaces
  <2>3. Recorded(p)' /\ EndsRecorded(p)'
    BY <1>2 DEF RefuseRate, WriteOuter, Sends, Recorded, EndsRecorded
  <2>4. QED
    BY <2>1, <2>2, <2>3 DEF KeepsRecords
<1>3. QED
  BY <1>1, <1>2

LEMMA RouterKeepsRecords ==
  ASSUME PipelineInv, NEW p \in Procs, RouterAnswers(p) \/ WriteRefusal(p)
  PROVE  KeepsRecords(p)
<1> USE DEF Unset, Goes, PipelineTypeOK, Places, PipelineInv
<1>1. PipelineTypeOK' /\ OthersUntouched(p)
  BY WritingKeepsTypes DEF RouterAnswers, WriteRefusal
<1>2. GaugeIsExact'
  BY StayingKeepsGauge DEF RouterAnswers, WriteRefusal, InsidePlaces
<1>3. Recorded(p)' /\ EndsRecorded(p)'
  BY DEF RouterAnswers, WriteRefusal, WriteOuter, Sends, Recorded, EndsRecorded
<1>4. QED
  BY <1>1, <1>2, <1>3 DEF KeepsRecords

LEMMA HandlerKeepsRecords ==
  ASSUME PipelineInv, NEW p \in Procs, Authenticate(p) \/ Handle(p) \/ WriteBody(p)
  PROVE  KeepsRecords(p)
<1> USE DEF Unset, Goes, PipelineTypeOK, Places, PipelineInv
<1>1. PipelineTypeOK' /\ OthersUntouched(p)
  BY WritingKeepsTypes DEF Authenticate, Handle, WriteBody
<1>2. GaugeIsExact'
  BY StayingKeepsGauge DEF Authenticate, Handle, WriteBody, InsidePlaces
<1>3. Recorded(p)' /\ EndsRecorded(p)'
  BY DEF Authenticate, Handle, WriteBody, WriteInner, Sends, Recorded, EndsRecorded
<1>4. QED
  BY <1>1, <1>2, <1>3 DEF KeepsRecords

LEMMA RouteKeepsRecords ==
  ASSUME PipelineInv, NEW p \in Procs, EnterRoute(p) \/ Count(p) \/ Panic(p)
  PROVE  KeepsRecords(p)
<1> USE DEF Unset, PipelineInv
<1>1. GaugeIsExact' /\ inFlight' \in [Routes -> Nat]
  <2>1. CASE EnterRoute(p)
    BY <2>1, EnteringCounts DEF EnterRoute, InsidePlaces
  <2>2. CASE Count(p) \/ Panic(p)
    BY <2>2, LeavingCounts DEF Count, Panic, InsidePlaces
  <2>3. QED
    BY <2>1, <2>2
<1>2. PipelineTypeOK' /\ OthersUntouched(p)
  BY <1>1 DEF EnterRoute, Count, Panic, Sends, Goes, PipelineTypeOK, Places, OthersUntouched
<1>3. Recorded(p)' /\ EndsRecorded(p)'
  BY DEF EnterRoute, Count, Panic, Sends, Goes, PipelineTypeOK, Recorded, EndsRecorded
<1>4. QED
  BY <1>1, <1>2, <1>3 DEF KeepsRecords

LEMMA LogKeepsRecords ==
  ASSUME PipelineInv, NEW p \in Procs, Log(p) PROVE KeepsRecords(p)
<1> USE DEF Unset, Goes, PipelineTypeOK, Places, PipelineInv
<1>1. PipelineTypeOK' /\ OthersUntouched(p)
  BY DEF Log, Sends, OthersUntouched
<1>2. GaugeIsExact'
  BY StayingKeepsGauge DEF Log, InsidePlaces
<1>3. Recorded(p)' /\ EndsRecorded(p)'
  BY DEF Log, Sends, Recorded, EndsRecorded
<1>4. QED
  BY <1>1, <1>2, <1>3 DEF KeepsRecords

LEMMA PipelineStepKeepsInv == PipelineInv /\ [PipelineNext]_pipelineVars => PipelineInv'
<1> SUFFICES ASSUME PipelineInv, [PipelineNext]_pipelineVars PROVE PipelineInv'
  OBVIOUS
<1>1. CASE UNCHANGED requestVars
  BY <1>1 DEF requestVars, PipelineInv, PipelineTypeOK, GaugeIsExact, Inside,
              StatusIsRecorded, Recorded
<1>2. ASSUME NEW p \in Procs,
             \/ PassLimit(p) \/ RefuseRate(p) \/ Arrive(p) \/ EnterRoute(p)
             \/ Authenticate(p) \/ RouterAnswers(p) \/ Handle(p) \/ WriteBody(p)
             \/ WriteRefusal(p) \/ Count(p) \/ Log(p) \/ Panic(p)
      PROVE  PipelineInv'
  BY <1>2, ArrivalKeepsRecords, LimitKeepsRecords, RouterKeepsRecords, HandlerKeepsRecords,
     RouteKeepsRecords, LogKeepsRecords, OneRequestSuffices
<1>3. QED
  BY <1>1, <1>2 DEF PipelineNext, pipelineVars

LEMMA PipelineInitInv == PipelineInit => PipelineInv
<1> SUFFICES ASSUME PipelineInit PROVE PipelineInv
  OBVIOUS
<1>1. PipelineTypeOK
  BY DEF PipelineInit, PipelineTypeOK, Places, Routes, Unset
<1>2. \A r \in Routes : Inside(r) = {} /\ inFlight[r] = 0
  BY DEF PipelineInit, Inside
<1>3. GaugeIsExact
  BY <1>2, FS_EmptySet DEF GaugeIsExact
<1>4. StatusIsRecorded /\ \A p \in Procs : Recorded(p)
  BY DEF PipelineInit, StatusIsRecorded, Recorded
<1>5. QED
  BY <1>1, <1>3, <1>4 DEF PipelineInv

\* The recorders hold what the client gets, by how far a request has come
\* (middleware.go:35-60, metrics.go:91-107).
THEOREM PipelineInvariant == PipelineSpec => []PipelineInv
  BY PipelineInitInv, PipelineStepKeepsInv, PTL DEF PipelineSpec

\* The gauge of a route never drifts, panics and broken connections included
\* (metrics.go:99-100).
THEOREM GaugeNeverDrifts == PipelineSpec => []GaugeIsExact
<1>1. PipelineInv => GaugeIsExact
  BY DEF PipelineInv
<1>2. QED
  BY <1>1, PipelineInvariant, PTL

\* Log and counter agree with each other and, of an unbroken connection, with
\* what the client got (middleware.go:50-60, helpers.go:29-32).
THEOREM RecordsAreRight == PipelineSpec => []StatusIsRecorded
<1>1. PipelineInv => StatusIsRecorded
  BY DEF PipelineInv
<1>2. QED
  BY <1>1, PipelineInvariant, PTL

\* A step that ends a request has sent a status (middleware.go:166-177).
THEOREM NobodyIsLeftUnanswered == PipelineSpec => EveryRequestIsAnswered
<1> DEFINE Answered(p) == at[p] # "idle" /\ at'[p] = "idle" => wire'[p] # Unset
<1>1. PipelineInv /\ [PipelineNext]_pipelineVars => [\A p \in Procs : Answered(p)]_pipelineVars
  <2>1. SUFFICES ASSUME PipelineInv, PipelineNext, NEW p \in Procs, at[p] # "idle",
                        at'[p] = "idle"
                 PROVE  wire'[p] # Unset
    OBVIOUS
  <2>2. PipelineTypeOK
    BY <2>1 DEF PipelineInv
  <2>3. Log(p) \/ Panic(p)
    BY <2>1, <2>2
    DEF PipelineNext, PassLimit, RefuseRate, Arrive, EnterRoute, Authenticate, RouterAnswers,
        Handle, WriteBody, WriteRefusal, Count, Log, Panic, Goes, PipelineTypeOK, requestVars
  <2>4. QED
    BY <2>2, <2>3 DEF Log, Panic, Sends, PipelineTypeOK, Unset
<1>2. QED
  BY <1>1, PipelineInvariant, PTL DEF PipelineSpec, EveryRequestIsAnswered

================================================================================
