------------------------------ MODULE OrderStatus ------------------------------
(***************************************************************************)
(* The life of an order: the seven statuses of internal/models/status.go   *)
(* and the moves between them.                                             *)
(***************************************************************************)

Statuses == {"pending_partner", "accepted", "cooking", "ready",
             "delivering", "delivered", "cancelled"}

\* The transition table of the code, as the set of its edges.
Moves == {<<"pending_partner", "accepted">>, <<"pending_partner", "cancelled">>,
          <<"accepted", "cooking">>, <<"accepted", "cancelled">>,
          <<"cooking", "ready">>, <<"cooking", "cancelled">>,
          <<"ready", "delivering">>,
          <<"delivering", "delivered">>}

CanTransition(from, to) == <<from, to>> \in Moves

\* The statuses an order has between the partner's acceptance and delivery.
Taken == {"accepted", "cooking", "ready", "delivering", "delivered"}

================================================================================
