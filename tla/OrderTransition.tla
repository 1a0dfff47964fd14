--------------------------- MODULE OrderTransition ---------------------------
(***************************************************************************)
(* The pure rules of an order: which status may follow which, when prepaid *)
(* money must have arrived first, and when the goods count as handed over  *)
(* to a carrier (apps/api/src/modules/orders/order-transition.ts, with the *)
(* Gomdon predicates it uses from integrations/gomdon/gomdon-status.ts).   *)
(* Codes, dates and names are abstracted to what these rules tell apart.   *)
(***************************************************************************)
EXTENDS Naturals

PaymentMethod == {"COD", "ZALOPAY", "VNPAY", "BANK_TRANSFER", "WALLET", "XU"}
PaymentStatus == {"UNPAID", "PAID", "REFUNDED", "FAILED"}

(* FORWARD_CHAIN: where each open status stands on the way to the customer. *)
ForwardChain == [PENDING_PAYMENT |-> 1, CONFIRMED |-> 2, PACKED |-> 3, SHIPPING |-> 4, DELIVERED |-> 5]
Open == {"PENDING_PAYMENT", "CONFIRMED", "PACKED", "SHIPPING", "DELIVERED"}
Closed == {"CANCELLED", "RETURNED"}
OrderStatus == Open \cup Closed

(* What may follow an open status: any later link of the chain (jumps are  *)
(* allowed), or CANCELLED before delivery and RETURNED after it.           *)
NextStatuses(from) ==
  CASE from \in Closed -> {}
    [] from = "DELIVERED" -> {"RETURNED"}
    [] OTHER -> {"CANCELLED"} \cup {to \in Open : ForwardChain[to] > ForwardChain[from]}

CanTransition(from, to) == to = from \/ to \in NextStatuses(from)

Prepaid(method) == method # "COD"

(* Mutant: only the carrier's statuses are gated.                          *)
RequiresPaymentToShip(from, to) == to \in {"SHIPPING", "DELIVERED"}
RequiresPaymentBefore(from, to) ==
  \/ to \in {"SHIPPING", "DELIVERED"}
  \/ from = "PENDING_PAYMENT" /\ to \notin {"PENDING_PAYMENT", "CANCELLED"}

(* assertPaidBeforeFulfilment does not throw. Goods sold to a dealer on    *)
(* credit travel unpaid: they are settled in the credit ledger.            *)
PaidBeforeFulfilment(o, from, to) ==
  \/ ~ RequiresPaymentBefore(from, to)
  \/ ~ Prepaid(o.paymentMethod)
  \/ o.paymentStatus = "PAID"
  \/ o.onCredit

-----------------------------------------------------------------------------
(* Carrier facts. shippingCode tells whose waybill the order carries:      *)
(* CARRIER is one Pancake or the shop typed in, GOMDON the recycling       *)
(* pick-up's own. gomdon is the Gomdon status: being created, booked (1),  *)
(* failed pick-up (10) counts as booked, picked up (3 4 5 6 11 12),        *)
(* delivered (7), back or lost (8 9), void (2).                            *)
ShippingCode == {"NONE", "CARRIER", "GOMDON"}
GomdonStatus == {"NONE", "CREATING", "BOOKED", "PICKED_UP", "DELIVERED", "BACK", "VOID"}

HasGomdonWaybill(o) == o.gomdon \notin {"NONE", "CREATING"}
IsGomdonPickedUp(o) == o.gomdon \in {"PICKED_UP", "DELIVERED", "BACK"}
GomdonOwnsShipping(o) == HasGomdonWaybill(o) /\ o.gomdon # "VOID"
IsGomdonPayable(o) == o.paymentMethod = "COD" \/ o.paymentStatus = "PAID"

(* cancelHandover # null: the goods are with a carrier, so the order can   *)
(* no longer be cancelled. A cancellation Pancake itself reports is not    *)
(* stopped by a carrier waybill alone.                                     *)
HandedOver(o, pancakeReportedCancel) ==
  /\ ~ (HasGomdonWaybill(o) /\ o.gomdon = "BACK")
  /\ \/ o.status = "SHIPPING"
     \/ o.shippedAt
     \/ /\ ~ pancakeReportedCancel
        /\ o.shippingCode = "CARRIER"
     \/ IsGomdonPickedUp(o)
=============================================================================
