------------------------------ MODULE TokenBuckets ------------------------------
(***************************************************************************)
(* What a rate limiter promises: every address has a bucket of its own,    *)
(* for ever.  A bucket earns a token with every tick, up to Burst of them, *)
(* and a request is admitted for a token.                                  *)
(***************************************************************************)
EXTENDS Naturals

CONSTANTS
  Addresses,
  Burst       \* tokens a bucket holds at most

VARIABLES
  tokens,   \* what is in each bucket
  verdict   \* what became of the latest request of each address

buckets == <<tokens, verdict>>

Init ==
  /\ tokens = [a \in Addresses |-> Burst]
  /\ verdict = [a \in Addresses |-> "none"]

Admit(a) ==
  /\ tokens[a] > 0
  /\ tokens' = [tokens EXCEPT ![a] = @ - 1]
  /\ verdict' = [verdict EXCEPT ![a] = "admitted"]

Refuse(a) ==
  /\ tokens[a] = 0
  /\ verdict' = [verdict EXCEPT ![a] = "refused"]
  /\ UNCHANGED tokens

Refill ==
  /\ tokens' = [a \in Addresses |-> IF tokens[a] < Burst THEN tokens[a] + 1 ELSE Burst]
  /\ UNCHANGED verdict

Next == Refill \/ \E a \in Addresses : Admit(a) \/ Refuse(a)

Spec == Init /\ [][Next]_buckets

================================================================================
