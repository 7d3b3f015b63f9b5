------------------------------- MODULE OrderLife -------------------------------
(***************************************************************************)
(* What partners may rely on about their orders: an order appears with     *)
(* version 1, waiting for the partner, and changes only by one legal move  *)
(* at a time, each of which makes its version greater by one.  The         *)
(* platform keeps this promise (Ordering), and whatever it allows, the     *)
(* demo restaurant must expect of others (RestaurantWorker).               *)
(***************************************************************************)
EXTENDS Naturals, OrderStatus

CONSTANTS Ids, None

VARIABLE life  \* [Ids -> [status, version] or None]

LifeInit == life = [id \in Ids |-> None]

Appear(id) ==
  /\ life[id] = None
  /\ life' = [life EXCEPT ![id] = [status |-> "pending_partner", version |-> 1]]

Move(id, to) ==
  /\ life[id] # None
  /\ CanTransition(life[id].status, to)
  /\ life' = [life EXCEPT ![id] = [status |-> to, version |-> @.version + 1]]

LifeNext == \E id \in Ids : Appear(id) \/ \E to \in Statuses : Move(id, to)

LifeSpec == LifeInit /\ [][LifeNext]_life

================================================================================
