--------------------------- MODULE OrderSettlement ---------------------------
(***************************************************************************)
(* What an order promises, with nothing in between: it advances, is paid,  *)
(* and closes in single steps, and the step that closes it settles its     *)
(* goods and its money at once.  There are no readers, no stale copies, no  *)
(* carriers and no races here; OrderLifecycle is shown to implement it.    *)
(***************************************************************************)
EXTENDS OrderTransition

CONSTANT OrderKinds

VARIABLES kind,      \* how the order was placed: never changes
          status, payment,
          books,     \* stock and money given back, money held for accounting
          goodsOut   \* closed while the customer still has the goods
vars == << kind, status, payment, books, goodsOut >>

Init ==
  /\ kind \in OrderKinds
  /\ status = IF kind.paymentMethod \in {"WALLET", "COD"} \/ kind.onCredit THEN "CONFIRMED" ELSE "PENDING_PAYMENT"
  /\ payment = IF kind.paymentMethod = "WALLET" THEN "PAID" ELSE "UNPAID"
  /\ books = [stock |-> 0, refunds |-> 0, held |-> "NONE"]
  /\ goodsOut = FALSE

PaidFor == ~ Prepaid(kind.paymentMethod) \/ kind.onCredit \/ payment = "PAID"

(* On to a later status; a prepaid order first needs its money.            *)
Advance ==
  /\ \E to \in NextStatuses(status) \cap Open :
       /\ PaidFor
       /\ status' = to
  /\ UNCHANGED << kind, payment, books, goodsOut >>

(* The money arrives, only while the order is open.                        *)
Pay ==
  /\ Prepaid(kind.paymentMethod) /\ ~ kind.onCredit
  /\ payment = "UNPAID" /\ status \in Open
  /\ payment' = "PAID"
  /\ status' = IF status = "PENDING_PAYMENT" THEN "CONFIRMED" ELSE status
  /\ UNCHANGED << kind, books, goodsOut >>

(* Money the customer paid: up front, or in cash to the courier.           *)
Owed == IF Prepaid(kind.paymentMethod) THEN payment = "PAID" ELSE status = "DELIVERED"

(* Close: what is owed is refunded or held for accounting in this step,    *)
(* and the goods go back to stock unless the customer still has them.      *)
Close(restocks, holds) ==
  /\ \E to \in NextStatuses(status) \cap Closed :
       /\ ~ restocks => to = "RETURNED"
       /\ status' = to
  /\ holds => Owed
  /\ books' = [stock |-> IF restocks THEN 1 ELSE 0,
               refunds |-> IF Owed /\ ~ holds THEN 1 ELSE 0,
               held |-> IF holds THEN "UNVERIFIED" ELSE "NONE"]
  /\ payment' = IF Owed /\ ~ holds THEN "REFUNDED" ELSE payment
  /\ goodsOut' = ~ restocks
  /\ UNCHANGED kind

(* Accounting pays what was held, or finds that nothing is owed.           *)
Settle ==
  /\ books.held = "UNVERIFIED"
  /\ \E confirmed \in {0, 1} : books' = [books EXCEPT !.held = "SETTLED", !.refunds = confirmed]
  /\ payment' = IF payment = "PAID" THEN "REFUNDED" ELSE payment
  /\ UNCHANGED << kind, status, goodsOut >>

(* The returned goods arrive.                                              *)
Receive ==
  /\ goodsOut
  /\ goodsOut' = FALSE
  /\ books' = [books EXCEPT !.stock = 1]
  /\ UNCHANGED << kind, status, payment >>

Next ==
  \/ Advance \/ Pay \/ Settle \/ Receive
  \/ \E restocks, holds \in BOOLEAN : Close(restocks, holds)

Spec == Init /\ [][Next]_vars
=============================================================================
