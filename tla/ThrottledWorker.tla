---------------------------- MODULE ThrottledWorker ----------------------------
(***************************************************************************)
(* The demo restaurant (RestaurantWorker) behind the API's rate limiter.   *)
(* It sends one PATCH per listed order, up to a hundred in a row, and the  *)
(* limiter knows it as one address: all but the first few are answered     *)
(* 429, which the worker records like any error.  The bucket is the one    *)
(* of TokenBuckets, which RateLimiter implements.  Refused as it mostly    *)
(* is, the worker still finishes every order (EveryOrderIsFinished): the   *)
(* updates it gets through are those of the newest unfinished orders, and  *)
(* their being finished makes room for the older ones.                     *)
(***************************************************************************)
EXTENDS RestaurantWorker

CONSTANTS
  Burst,       \* -limiter-burst: 4
  PollTokens   \* tokens earned in one -poll-interval: 4, of 2 seconds at 2 per second

\* A tick can pay for its listing and for one update.
ASSUME ThrottleAssumption == Burst \in Nat /\ PollTokens \in 2..Burst

VARIABLE tokens   \* what is in the bucket of the worker's address

throttledVars == <<workerVars, tokens>>

\* limiter.Allow
Pays == tokens > 0 /\ tokens' = tokens - 1

\* Mutant: limiter.Reserve, which charges those it refuses, too.
IsRefusedAndCharged ==
  /\ tokens <= 0
  /\ tokens' = IF tokens > 0 - MaxOrders THEN tokens - 1 ELSE tokens

\* 429, which costs nothing.
IsRefused == tokens = 0 /\ UNCHANGED tokens

Earns(n) == tokens' = IF tokens + n < Burst THEN tokens + n ELSE Burst

\* A call is refused: the tick ends.
CallRefused ==
  /\ at \in {"sync", "list"}
  /\ IsRefused
  /\ Goes("idle")
  /\ UNCHANGED <<platform, wire, queue, state, faults>>

\* An update is refused: the worker goes on to the next order.
UpdateRefused ==
  /\ at = "await"
  /\ BagIn(Current, wire)
  /\ IsRefused
  /\ wire' = wire (-) SetToBag({Current})
  /\ queue' = Tail(queue)
  /\ Goes("update")
  /\ UNCHANGED <<platform, state, faults>>

\* A call the worker has given up reaches the limiter.
LateRefused(m) ==
  /\ BagIn(m, wire)
  /\ IsRefused
  /\ wire' = wire (-) SetToBag({m})
  /\ UNCHANGED <<platform, at, queue, state, faults>>

\* The next tick begins; it may have been due while the last one lasted.
TickAfter(n) == Tick /\ Earns(n)

ThrottledStep ==
  \/ (SyncCatalog \/ ListOrders \/ Answered) /\ Pays
  \/ CallRefused \/ UpdateRefused
  \/ (Skip \/ Send \/ EndTick \/ TimesOut) /\ UNCHANGED tokens
  \/ TickAfter(0) \/ TickAfter(PollTokens)

\* Calls may take long enough for a token to be earned meanwhile.
Earn == tokens < Burst /\ Earns(1) /\ UNCHANGED workerVars

ThrottledNext ==
  \/ ThrottledStep \/ Earn
  \/ (CustomerOrders \/ Crash \/ \E id \in Ids : OthersMove(id)) /\ UNCHANGED tokens
  \/ (SyncFails \/ ListFails) /\ (UNCHANGED tokens \/ Pays)
  \/ \E m \in BagToSet(wire) : \/ HandleLate(m) /\ Pays
                               \/ Lose(m) /\ (UNCHANGED tokens \/ Pays)
                               \/ LateRefused(m)

ThrottledInit == WorkerInit /\ tokens = Burst

ThrottledSpec == ThrottledInit /\ [][ThrottledNext]_throttledVars

\* The goroutine runs, and again and again a full interval lies between two
\* ticks: the ticker does not fire more often.
FairThrottledSpec ==
  /\ ThrottledSpec
  /\ WF_throttledVars(ThrottledStep)
  /\ SF_throttledVars(TickAfter(PollTokens))

================================================================================
