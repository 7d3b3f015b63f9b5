----------------------------- MODULE PartnerStatus -----------------------------
(***************************************************************************)
(* OrderModel.UpdateStatusForPartner (internal/models/orders.go): a        *)
(* partner moves one of its own orders along the life cycle, naming the    *)
(* version it has seen.                                                    *)
(***************************************************************************)
EXTENDS Database

\* Mutant: accepted with any string but the empty one.
ValidIfGiven(r) == r.version > 0 /\ (r.status = "accepted" => r.ref # None)

\* ValidateOrderStatusUpdateInput: a number must be given to accept an order,
\* and otherwise anything may be.
ValidStatusUpdate(r) == r.version > 0 /\ (r.status = "accepted" => NotBlank(r.ref))

BeginStatus(p) ==
  \E r \in Requests :
    r.op = "status" /\ ValidStatusUpdate(r) /\ Begin(p, r, "lockOrder")

\* The order exists and belongs to the partner.
OwnOrder(r) == r.order \in Placed /\ orders[r.order].restaurant = r.partner

\* Mutant: any move is legal.
AcceptableVersion(order, r) == order.version = r.version

\* The partner has seen the current version and asks for a legal move.
Acceptable(order, r) ==
  order.version = r.version /\ CanTransition(order.status, r.status)

\* Mutant: the order is read without FOR UPDATE.
ReadOrder(p) ==
  LET r == req[p] IN
  /\ pc[p] = "lockOrder"
  /\ \/ ~(OwnOrder(r) /\ Acceptable(orders[r.order], r)) /\ Rollback(p)
     \/ /\ OwnOrder(r)
        /\ Acceptable(orders[r.order], r)
        /\ Goto(p, "updateOrder")
        /\ UNCHANGED <<tables, req, held, work, answers>>

\* SELECT status, version ... FOR UPDATE, and the checks of what it returns.
LockOrder(p) ==
  LET r == req[p] IN
  /\ pc[p] = "lockOrder"
  /\ \/ ~OwnOrder(r) /\ Rollback(p)
     \/ /\ OwnOrder(r)
        /\ Free(p, OrderLock(r.order))
        /\ ~Acceptable(orders[r.order], r)
        /\ Rollback(p)
     \/ /\ OwnOrder(r)
        /\ Acquire(p, OrderLock(r.order))
        /\ Acceptable(orders[r.order], r)
        /\ Goto(p, "updateOrder")
        /\ UNCHANGED <<tables, req, work, answers>>

\* UPDATE orders: the row is written as it is now, whatever was read before.
UpdateOrder(p) ==
  LET r == req[p] IN
  /\ pc[p] = "updateOrder"
  /\ Acquire(p, OrderLock(r.order))
  /\ Keep(p, Updated(orders[r.order], r.status, r.ref))
  /\ Goto(p, "commitStatus")
  /\ UNCHANGED <<tables, req, answers>>

CommitStatus(p) ==
  /\ pc[p] = "commitStatus"
  /\ orders' = [orders EXCEPT ![req[p].order] = work[p]]
  /\ Finish(p)
  /\ UNCHANGED <<menu, carts, lines, answers>>

StatusStep(p) ==
  BeginStatus(p) \/ LockOrder(p) \/ UpdateOrder(p) \/ CommitStatus(p)

================================================================================
