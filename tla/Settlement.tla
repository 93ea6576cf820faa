----------------------------- MODULE Settlement -----------------------------
(***************************************************************************)
(* What the shop promises about money and orders, with no calls, events,   *)
(* provider references or retries in sight: money is captured for a        *)
(* payment, then booked, and an order is settled exactly when the first of *)
(* its payments is booked while it is still open.  A cancelled order stays *)
(* cancelled.  Payments.tla is shown to implement this specification.      *)
(***************************************************************************)
CONSTANTS
  Orders,     \* ids of the orders
  Payments,   \* ids of the payments
  OrderOf     \* OrderOf[p] is the order payment p is for

VARIABLES
  captured,   \* the payments the provider has taken money for
  booked,     \* the payments with a payment_succeeded ledger row
  state       \* "open", "settled" or "cancelled", for every order

settlementVars == <<captured, booked, state>>

SettlementInit ==
  /\ captured = {}
  /\ booked = {}
  /\ state = [o \in Orders |-> "open"]

Capture(p) ==
  /\ captured' = captured \cup {p}
  /\ UNCHANGED <<booked, state>>

Book(p) ==
  /\ p \in captured
  /\ booked' = booked \cup {p}
  /\ state' = [state EXCEPT ![OrderOf[p]] = IF @ = "open" THEN "settled" ELSE @]
  /\ UNCHANGED captured

Cancel(o) ==
  /\ state[o] = "open"
  /\ state' = [state EXCEPT ![o] = "cancelled"]
  /\ UNCHANGED <<captured, booked>>

SettlementNext ==
  \/ \E p \in Payments : Capture(p) \/ Book(p)
  \/ \E o \in Orders : Cancel(o)

SettlementSpec == SettlementInit /\ [][SettlementNext]_settlementVars
=============================================================================
