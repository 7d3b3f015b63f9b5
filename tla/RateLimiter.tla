------------------------------ MODULE RateLimiter ------------------------------
(***************************************************************************)
(* The rate limiter of one instance of the API (cmd/api/middleware.go,     *)
(* rateLimit): a map from addresses to buckets, in which the buckets of    *)
(* idle addresses are dropped by requests of others.  The whole of it runs *)
(* under one mutex, so a request is one action.                            *)
(*                                                                         *)
(* A tick is the time in which a bucket of golang.org/x/time/rate earns a  *)
(* token, 1/rps seconds.                                                   *)
(***************************************************************************)
EXTENDS Naturals

CONSTANTS
  Addresses,   \* the hosts of r.RemoteAddr
  Burst,       \* -limiter-burst: 4
  MaxIdle,     \* ticks in three minutes: 360 at the default of 2 requests per second
  Interval,    \* ticks in a minute
  MaxWindow    \* bound: ticks an observation lasts

\* An idle bucket must have refilled by the time it is dropped.  The flags do
\* not enforce it; their defaults satisfy it by far.
ASSUME LimiterAssumption ==
  /\ Burst \in Nat \ {0}
  /\ MaxIdle \in Nat
  /\ Interval \in Nat \ {0}
  /\ MaxWindow \in Nat
  /\ Burst <= MaxIdle

VARIABLES
  clients,       \* the map: what is left in each bucket, and ticks since lastSeen
  sinceCleanup,  \* ticks since lastCleanup, up to Interval
  verdict,       \* what became of the latest request of each address
  window         \* ghost: an address observed, for how long, and its requests admitted

limiter == <<clients, sinceCleanup, verdict, window>>

LongAgo == MaxIdle + Interval + 1

Client == [tokens : 0..Burst, idle : 0..LongAgo]
Window == [address : Addresses, elapsed : 0..MaxWindow, admitted : Nat]

LimiterInit ==
  /\ clients = [a \in {} |-> [tokens |-> Burst, idle |-> 0]]
  /\ sinceCleanup = 0
  /\ verdict = [a \in Addresses |-> "none"]
  /\ window \in [address : Addresses, elapsed : {0}, admitted : {0}]

\* Mutant: the cleanup runs, but it compares with the wrong duration.
KeptOneInterval ==
  IF sinceCleanup < Interval THEN DOMAIN clients
  ELSE {a \in DOMAIN clients : clients[a].idle < Interval}

\* Mutant: the cleanup forgets nobody.
KeptAlways == DOMAIN clients

\* The cleanup, at most once per interval: who is still known after it.
Kept ==
  IF sinceCleanup < Interval THEN DOMAIN clients
  ELSE {a \in DOMAIN clients : clients[a].idle <= MaxIdle}

Available(a) == IF a \in Kept THEN clients[a].tokens ELSE Burst

\* Mutant: lastSeen is only set when the bucket is made.
SeenOnce(a, left) ==
  /\ clients' = [b \in Kept \cup {a} |->
                   IF b # a THEN clients[b]
                   ELSE [tokens |-> left, idle |-> IF a \in Kept THEN clients[a].idle ELSE 0]]
  /\ sinceCleanup' = IF sinceCleanup < Interval THEN sinceCleanup ELSE 0

\* The request of a, whose bucket is left with so many tokens.  It counts as
\* seen even when it is refused.
Seen(a, left) ==
  /\ clients' = [b \in Kept \cup {a} |->
                   IF b = a THEN [tokens |-> left, idle |-> 0] ELSE clients[b]]
  /\ sinceCleanup' = IF sinceCleanup < Interval THEN sinceCleanup ELSE 0

Admit(a) ==
  /\ Available(a) > 0
  /\ Seen(a, Available(a) - 1)
  /\ verdict' = [verdict EXCEPT ![a] = "admitted"]
  /\ window' = IF a = window.address THEN [window EXCEPT !.admitted = @ + 1] ELSE window

\* 429 Too Many Requests
Refuse(a) ==
  /\ Available(a) = 0
  /\ Seen(a, 0)
  /\ verdict' = [verdict EXCEPT ![a] = "refused"]
  /\ UNCHANGED window

Later(client) ==
  [tokens |-> IF client.tokens < Burst THEN client.tokens + 1 ELSE Burst,
   idle   |-> IF client.idle < LongAgo THEN client.idle + 1 ELSE LongAgo]

Tick ==
  /\ window.elapsed < MaxWindow
  /\ clients' = [a \in DOMAIN clients |-> Later(clients[a])]
  /\ sinceCleanup' = IF sinceCleanup < Interval THEN sinceCleanup + 1 ELSE Interval
  /\ window' = [window EXCEPT !.elapsed = @ + 1]
  /\ UNCHANGED verdict

\* The observation begins anew, at any moment, of any address.
Observe(a) ==
  /\ window' = [address |-> a, elapsed |-> 0, admitted |-> 0]
  /\ UNCHANGED <<clients, sinceCleanup, verdict>>

LimiterNext == Tick \/ \E a \in Addresses : Admit(a) \/ Refuse(a) \/ Observe(a)

LimiterSpec == LimiterInit /\ [][LimiterNext]_limiter

(***************************************************************************)
(* Properties.                                                             *)
(***************************************************************************)

\* Over any period, an address gets no more requests through than one burst
\* and the tokens earned meanwhile, although its bucket may be dropped and
\* made anew in between (middleware.go:142-155).
RateIsBounded == window.admitted <= Burst + window.elapsed

\* Memory: a request never leaves a bucket behind that has been idle for
\* as long as the limit and one interval (middleware.go:140-147).
IdleClientsAreForgotten ==
  [][(\E a \in Addresses : Admit(a) \/ Refuse(a)) =>
       \A a \in DOMAIN clients' : clients'[a].idle < MaxIdle + Interval]_limiter

\* What a bucket holds, or would hold had it not been dropped.
Balance == [a \in Addresses |-> IF a \in DOMAIN clients THEN clients[a].tokens ELSE Burst]

Buckets == INSTANCE TokenBuckets WITH tokens <- Balance

\* Dropping buckets changes no answer: the limiter behaves as if every address
\* kept its bucket for ever (middleware.go:139-161).
ImplementsTokenBuckets == Buckets!Spec

(***************************************************************************)
(* Why: a bucket has earned a token in every tick since it was last used.  *)
(***************************************************************************)

\* An idle bucket refills; a bucket that has been idle for too long is due for
\* the next cleanup, which is not more than an interval away; and what was
\* admitted is paid for by what is missing (middleware.go:138-155).
LimiterInv ==
  /\ DOMAIN clients \subseteq Addresses
  /\ clients \in [DOMAIN clients -> Client]
  /\ sinceCleanup \in 0..Interval
  /\ verdict \in [Addresses -> {"none", "admitted", "refused"}]
  /\ window \in Window
  /\ \A a \in DOMAIN clients : /\ clients[a].tokens < Burst => clients[a].idle <= clients[a].tokens
                               /\ clients[a].idle <= MaxIdle + sinceCleanup
                                    \/ sinceCleanup = Interval
  /\ Balance[window.address] + window.admitted <= Burst + window.elapsed

================================================================================
