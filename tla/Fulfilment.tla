----------------------------- MODULE Fulfilment -----------------------------
(***************************************************************************)
(* An order from its payment to its parcel: payments, refunds, the         *)
(* webhook, the back office and the label workers on one table of orders.  *)
(* The web server runs all of them, and the worker process                 *)
(* (cmd/worker/main.go) a second label worker.                             *)
(*                                                                         *)
(* Refunds and Shipping each take the other for granted: Refunds leaves    *)
(* shipping by label out, and Shipping lets OrderStep stand for everybody  *)
(* else.  Here each of them is the other's environment.                    *)
(***************************************************************************)
EXTENDS Refunds, Shipping

fulfilmentVars == <<vars, shipVars>>

FulfilmentInit == Init /\ ShippingInit

FulfilmentNext ==
  \/ Next /\ UNCHANGED shipVars
  \/ ShippingStep /\ UNCHANGED <<payVars, refundVars>>

FulfilmentSpec == FulfilmentInit /\ [][FulfilmentNext]_fulfilmentVars
-----------------------------------------------------------------------------
(* A parcel is on its way, and a label is bought, only for an order for    *)
(* which the provider has taken money and the ledger has booked it, and    *)
(* which is neither open nor cancelled: however calls, events, refunds and *)
(* workers have overtaken each other since the order was read.  It may     *)
(* have been refunded meanwhile.                                           *)
PaidFor(o) ==
  /\ status[o] \in Settled
  /\ \E p \in Payments : OrderOf[p] = o /\ Booked(p) /\ CapturedFor(p)

ParcelsArePaid ==
  \A s \in Shipments :
    shipment[s].status = "shipped" \/ labels[s] > 0 => PaidFor(shipment[s].order)

(* What Shipping assumes of the others is what they do: to the shipping    *)
(* service, payments, refunds, the webhook and the back office are         *)
(* OrderStep, and never stop being that because orders are shipped.        *)
ImplementsShipping == ShippingSpec
=============================================================================
