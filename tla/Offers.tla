-------------------------------- MODULE Offers ---------------------------------
(***************************************************************************)
(* What customers agree to and what restaurants offer.  Neither AddItem,   *)
(* UpdateItem nor CreateFromCart locks the menu rows it reads, so a        *)
(* catalog sync may commit between the statement that compares or copies a *)
(* price and the commit that makes it final.  Ordering is extended with    *)
(* the menus that were committed while each request was being served.      *)
(***************************************************************************)
EXTENDS Ordering

VARIABLE seen  \* ghost: the committed menus since each cart or checkout request began

historyVars == <<vars, seen>>

HistoryInit == Init /\ seen = [p \in Procs |-> {}]

HistoryNext ==
  /\ Next
  /\ seen' = [p \in Procs |-> IF pc'[p] \in CartLabels \cup CheckoutLabels
                              THEN seen[p] \cup {menu, menu'}
                              ELSE {}]

HistorySpec == HistoryInit /\ [][HistoryNext]_historyVars

\* The menu m has the item, at these terms.
Offered(m, i, terms) == m[i] # None /\ m[i].available /\ m[i].terms = terms

\* The lines of contents, all of them offered by one and the same menu.
AllOffered(contents, m) == \A i \in Chosen(contents) : Offered(m, i, contents[i].terms)

\* An order that appears is one the restaurant would have taken as a whole at
\* some moment while it was being placed, at these prices: syncs that overtake
\* checkout, even several of them, never make it pick items of two menus or a
\* price that was withdrawn before the request (orders.go:115 against 123-135).
OrdersWereOffered ==
  [][\A id \in OrderIds :
       orders[id] = None /\ orders'[id] # None =>
         \E p \in Procs :
           /\ pc[p] = "commitOrder"
           /\ orders'[id].key = req[p].key
           /\ \E m \in seen[p] : AllOffered(orders'[id].items, m)
    ]_historyVars

\* A line that is added or updated shows the terms of the item at some moment
\* of that very request, whatever the line showed before (carts.go:133-152,
\* 204-216): what a customer sees after an update is never older than it.
LinesWereOffered ==
  [][\A c \in Carts, i \in Items :
       lines'[c][i] # lines[c][i] /\ lines'[c][i] # None =>
         \E p \in Procs :
           /\ pc[p] = "commitCart"
           /\ req[p].cart = c
           /\ \E m \in seen[p] : Offered(m, i, lines'[c][i].terms)
    ]_historyVars

(***************************************************************************)
(* Why: the terms a transaction has copied stay those of a menu it has     *)
(* seen, for as long as it runs.                                           *)
(***************************************************************************)
SeenOffers(p) ==
  LET i == req[p].item IN
  /\ pc[p] \in {"checkMixed", "upsertLine", "updateLine"} =>
       \E m \in seen[p] : Offered(m, i, work[p])
  /\ pc[p] \in {"touchCart", "commitCart"} /\ work[p] # None =>
       \E m \in seen[p] : Offered(m, i, work[p].terms)
  /\ pc[p] = "insertOrder" => \E m \in seen[p] : AllOffered(work[p], m)
  /\ pc[p] = "commitOrder" => \E m \in seen[p] : AllOffered(work[p].order.items, m)

OffersInv == ShopInv /\ \A p \in Procs : SeenOffers(p)

================================================================================
