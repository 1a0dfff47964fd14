---------------------------- MODULE OrderLifecycle ----------------------------
(***************************************************************************)
(* One order row and every program that writes it concurrently: the guarded *)
(* status flip of OrderStatusService.setStatus and its callers (admin,      *)
(* partner shop, Pancake and Gomdon webhooks, the unpaid-order cron), the   *)
(* customer's own cancellation, the two ways a payment is recorded, and     *)
(* returns.  Each worker is a request, job or cron run: it reads the row,   *)
(* may wait for Pancake, and later writes with a WHERE clause on what it    *)
(* read; any other worker may write in between, and a process may die       *)
(* between two steps.  A database transaction is one step.                  *)
(***************************************************************************)
EXTENDS OrderTransition

CONSTANTS Handlers,    \* web requests and queue jobs running at once
          Expiry,      \* the worker of PendingPaymentExpiryCron
          OrderKinds,  \* the orders considered, as placed
          Callers(_),  \* which groups of callers an order meets
          MaxCrashes   \* how many times a process may die (a bound for TLC)

Workers == Handlers \cup {Expiry}

Kind == [paymentMethod : PaymentMethod, type : {"RETAIL", "DEALER"}, onCredit : BOOLEAN,
         placedForCustomer : BOOLEAN, fulfiller : {"TUBU", "MERCHANT"}, recycling : BOOLEAN]

ASSUME ExpiryAssumption == Expiry \notin Handlers
ASSUME KindsAssumption ==
  /\ OrderKinds \subseteq Kind
  /\ \A k \in OrderKinds : /\ k.type = "DEALER" => k.paymentMethod = "BANK_TRANSFER"
                           /\ k.onCredit => k.type = "DEALER"
ASSUME BoundAssumption == MaxCrashes \in Nat

VARIABLES order,          \* the row of table orders
          returnRequest,  \* the order's newest return request (whole order)
          books,          \* money and goods given back so far
          job,            \* what each worker is doing
          crashes
vars == << order, returnRequest, books, job, crashes >>

-----------------------------------------------------------------------------
(* Requests to setStatus.  GOMDON and EXPIRY are the two SYSTEM callers.   *)
(* askedBy is set on the nested request that follows Pancake's refusal of  *)
(* a cancellation; expected = "ANY" when the caller names no status.       *)
Actor == {"STAFF", "MERCHANT", "CUSTOMER", "PANCAKE", "GOMDON", "EXPIRY"}
Asker == {"NONE", "CUSTOMER", "STAFF", "SYSTEM"}
Request == [actor : Actor, target : OrderStatus, expected : OrderStatus \cup {"ANY"},
            returned : BOOLEAN, askedBy : Asker]

Ask(actor, target) ==
  [actor |-> actor, target |-> target, expected |-> "ANY", returned |-> FALSE, askedBy |-> "NONE"]

IsHuman(actor) == actor \in {"STAFF", "MERCHANT", "CUSTOMER"}
(* Mutant: the cron's refusals are not remembered on the order.            *)
OnlyGomdonIsSystem(actor) == actor = "GOMDON"
IsSystem(actor) == actor \in {"GOMDON", "EXPIRY"}
AskerOf(actor) ==
  CASE actor = "CUSTOMER" -> "CUSTOMER"
    [] IsHuman(actor) /\ actor # "CUSTOMER" -> "STAFF"
    [] OTHER -> "SYSTEM"

(* The columns of the row a worker carries between its read and its write. *)
Seen == [status : OrderStatus, paymentStatus : PaymentStatus, shippedAt : BOOLEAN,
         shippingCode : ShippingCode, gomdon : GomdonStatus]
Snapshot == [status |-> order.status, paymentStatus |-> order.paymentStatus,
             shippedAt |-> order.shippedAt, shippingCode |-> order.shippingCode,
             gomdon |-> order.gomdon]

Stage == {"idle", "setStatus", "precheck", "flip", "block", "customerTx",
          "pay", "payFlip", "gateway", "waybill", "partialReturn", "returnCreate"}
NoRequest == Ask("STAFF", "CANCELLED")
NoSnapshot == [status |-> "CANCELLED", paymentStatus |-> "UNPAID", shippedAt |-> FALSE,
               shippingCode |-> "NONE", gomdon |-> "NONE"]
Idle == [at |-> "idle", req |-> NoRequest, seen |-> NoSnapshot, tries |-> 0]
MaxPayTries == 3
Job == [at : Stage, req : Request, seen : Seen, tries : 0 .. MaxPayTries - 1]

Order == [paymentMethod : PaymentMethod, type : {"RETAIL", "DEALER"}, onCredit : BOOLEAN,
          placedForCustomer : BOOLEAN, fulfiller : {"TUBU", "MERCHANT"}, recycling : BOOLEAN,
          status : OrderStatus, paymentStatus : PaymentStatus, shippedAt : BOOLEAN,
          shippingCode : ShippingCode, gomdon : GomdonStatus,
          autoCancelBlockedAt : BOOLEAN, manualPartialReturn : BOOLEAN]

(* A wallet order is paid when placed; cash on delivery and dealer credit  *)
(* start confirmed and unpaid; everything else waits for its money.        *)
Placed(k) ==
  [paymentMethod |-> k.paymentMethod, type |-> k.type, onCredit |-> k.onCredit,
   placedForCustomer |-> k.placedForCustomer, fulfiller |-> k.fulfiller, recycling |-> k.recycling,
   status |-> IF k.paymentMethod \in {"WALLET", "COD"} \/ k.onCredit THEN "CONFIRMED" ELSE "PENDING_PAYMENT",
   paymentStatus |-> IF k.paymentMethod = "WALLET" THEN "PAID" ELSE "UNPAID",
   shippedAt |-> FALSE, shippingCode |-> "NONE", gomdon |-> "NONE",
   autoCancelBlockedAt |-> FALSE, manualPartialReturn |-> FALSE]

Init ==
  /\ order \in {Placed(k) : k \in OrderKinds}
  /\ returnRequest = "NONE"
  /\ books = [stock |-> 0, refunds |-> 0, held |-> "NONE"]
  /\ job = [w \in Workers |-> Idle]
  /\ crashes = 0

Start(w, at, req, seen) ==
  job' = [job EXCEPT ![w] = [at |-> at, req |-> req, seen |-> seen, tries |-> 0]]
GoTo(w, at, seen) == job' = [job EXCEPT ![w].at = at, ![w].seen = seen]
Stop(w) == job' = [job EXCEPT ![w] = Idle]
IsIdle(w) == job[w] = Idle
At(w, at) == job[w].at = at
OnlyJob == UNCHANGED << order, returnRequest, books, crashes >>

(* setStatus returned (ok) or threw: over, unless it was the resync after  *)
(* Pancake refused a cancellation; then the order is marked so that nobody *)
(* asks again when the system asked or the order could not follow Pancake. *)
Return(w, ok) ==
  LET r == job[w].req
  IN IF r.askedBy = "SYSTEM" \/ (r.askedBy # "NONE" /\ ~ ok)
     THEN Start(w, "block", NoRequest, NoSnapshot)
     ELSE Stop(w)

-----------------------------------------------------------------------------
(* Callers of setStatus: what each reads and decides before it calls.      *)

(* Admin, staff and the old shop portal: any status, from no given one.    *)
StaffRequest(h) ==
  /\ "staff" \in Callers(order) /\ IsIdle(h)
  /\ \E target \in OrderStatus \ {"PENDING_PAYMENT"} :
       Start(h, "setStatus", Ask("STAFF", target), NoSnapshot)
  /\ OnlyJob

(* The partner shop's buttons: pack, ship, deliver, failed delivery (the   *)
(* goods come back to the sender), cancel; each from the status it read.   *)
MerchantMoves ==
  {[from |-> "CONFIRMED", target |-> "PACKED", returned |-> FALSE],
   [from |-> "SHIPPING", target |-> "DELIVERED", returned |-> FALSE],
   [from |-> "SHIPPING", target |-> "CANCELLED", returned |-> TRUE]}
  \cup [from : {"CONFIRMED", "PACKED"}, target : {"SHIPPING", "CANCELLED"}, returned : {FALSE}]

MerchantRequest(h) ==
  /\ "merchant" \in Callers(order) /\ IsIdle(h)
  /\ order.fulfiller = "MERCHANT"
  /\ \E m \in MerchantMoves :
       /\ m.from = order.status
       /\ Start(h, "setStatus", [Ask("MERCHANT", m.target) EXCEPT !.expected = m.from, !.returned = m.returned],
                NoSnapshot)
  /\ OnlyJob

(* A Pancake status webhook. While a Gomdon waybill lives, shipping and    *)
(* delivery are Gomdon's to say.                                           *)
PancakeStatus(h) ==
  /\ "pancake" \in Callers(order) /\ IsIdle(h)
  /\ order.fulfiller = "TUBU"
  /\ \E target \in {"CONFIRMED", "PACKED", "SHIPPING", "DELIVERED", "CANCELLED"} :
       /\ target \in {"SHIPPING", "DELIVERED"} => ~ GomdonOwnsShipping(order)
       /\ Start(h, "setStatus", Ask("PANCAKE", target), NoSnapshot)
  /\ OnlyJob

(* Pancake code 5: the goods are back in the warehouse.                    *)
PancakeReturned(h) ==
  /\ "pancake" \in Callers(order) /\ IsIdle(h)
  /\ order.fulfiller = "TUBU"
  /\ order.status \in Open
  /\ order.status = "DELIVERED" => returnRequest # "REQUESTED"
  /\ Start(h, "setStatus",
           [Ask("PANCAKE", IF order.status = "DELIVERED" THEN "RETURNED" ELSE "CANCELLED") EXCEPT !.returned = TRUE],
           NoSnapshot)
  /\ OnlyJob

(* A Gomdon webhook: its status never goes back and never leaves a final   *)
(* one; the waybill becomes the order's; in transit or delivered, and the  *)
(* order payable, it asks for the order's status to follow.  A waybill that *)
(* the order does not know (the answer that made it is under way, was lost, *)
(* or a person made it) is attached, unless it was cancelled.               *)
GomdonMayReport(from) ==
  CASE from \in {"NONE", "CREATING"} -> {"BOOKED", "PICKED_UP", "DELIVERED", "BACK"}
    [] from \in {"BOOKED", "PICKED_UP"} -> {"PICKED_UP", "DELIVERED", "BACK", "VOID"}
    [] OTHER -> {}

GomdonAsks(o, report) ==
  /\ IsGomdonPayable(o)
  /\ \/ report = "PICKED_UP" /\ o.status \in {"CONFIRMED", "PACKED"}
     \/ report = "DELIVERED" /\ o.status \in {"CONFIRMED", "PACKED", "SHIPPING"}

GomdonReport(h) ==
  /\ "gomdon" \in Callers(order) /\ IsIdle(h) /\ order.recycling
  /\ \E report \in GomdonMayReport(order.gomdon) :
       /\ order' = [order EXCEPT !.gomdon = report, !.shippingCode = "GOMDON"]
       /\ IF GomdonAsks(order, report)
          THEN Start(h, "setStatus",
                     Ask("GOMDON", IF report = "PICKED_UP" THEN "SHIPPING" ELSE "DELIVERED"), NoSnapshot)
          ELSE job' = job
  /\ UNCHANGED << returnRequest, books, crashes >>

(* The cron's scan: prepaid orders still unpaid past their time (every     *)
(* unpaid order here is old enough), except those marked as handed over.   *)
Stale(o) == /\ o.status = "PENDING_PAYMENT" /\ o.paymentStatus = "UNPAID"
            /\ Prepaid(o.paymentMethod) /\ ~ o.autoCancelBlockedAt

ExpiryScan(w) ==
  /\ w = Expiry /\ IsIdle(w)
  /\ Stale(order)
  /\ Start(w, "setStatus", [Ask("EXPIRY", "CANCELLED") EXCEPT !.expected = "PENDING_PAYMENT"], NoSnapshot)
  /\ OnlyJob

-----------------------------------------------------------------------------
(* OrderStatusService.setStatus: read and judge, ask Pancake, flip.        *)

(* The call returns the order as it is: it already has the status, or the  *)
(* caller's condition no longer holds.                                     *)
NothingToDo(o, r) ==
  \/ o.status = r.target
  \/ r.actor = "EXPIRY" /\ o.paymentStatus # "UNPAID"
  \/ r.expected # "ANY" /\ o.status # r.expected

HandoverBlocks(o, r) ==
  r.target = "CANCELLED" /\ ~ r.returned /\ HandedOver(o, r.actor = "PANCAKE")

Allowed(o, r) == CanTransition(o.status, r.target) /\ PaidBeforeFulfilment(o, o.status, r.target)

AsksPancake(r) == r.target = "CANCELLED" /\ (IsHuman(r.actor) \/ r.actor = "EXPIRY")

SetStatusRead(w) ==
  LET r == job[w].req
  IN /\ At(w, "setStatus")
     /\ \/ NothingToDo(order, r) /\ Return(w, TRUE)
        \/ ~ NothingToDo(order, r) /\ ~ Allowed(order, r) /\ Return(w, FALSE)
        \/ /\ ~ NothingToDo(order, r) /\ Allowed(order, r) /\ HandoverBlocks(order, r)
           /\ IF IsSystem(r.actor) THEN GoTo(w, "block", NoSnapshot) ELSE Return(w, FALSE)
        \/ /\ ~ NothingToDo(order, r) /\ Allowed(order, r) /\ ~ HandoverBlocks(order, r)
           /\ GoTo(w, IF AsksPancake(r) THEN "precheck" ELSE "flip", Snapshot)
     /\ OnlyJob

(* precheckPancakeCancel. Pancake agrees (or the order is not there); a    *)
(* background asker goes on when Pancake cannot be reached or refuses.     *)
Proceed(w) == GoTo(w, IF job[w].req.actor = "CUSTOMER" THEN "customerTx" ELSE "flip", job[w].seen)

PrecheckAgrees(w) ==
  /\ At(w, "precheck")
  /\ Proceed(w)
  /\ OnlyJob

PrecheckUnreachable(w) ==
  /\ At(w, "precheck")
  /\ order.fulfiller = "TUBU"
  /\ IF IsHuman(job[w].req.actor) THEN Stop(w) ELSE Proceed(w)
  /\ OnlyJob

(* Pancake says the goods have left: the order follows Pancake's status    *)
(* where it can, and the cancellation is refused.                          *)
PrecheckHandedOver(w) ==
  LET asker == AskerOf(job[w].req.actor)
      seen == job[w].seen
  IN /\ At(w, "precheck")
     /\ order.fulfiller = "TUBU"
     /\ \E reported \in {"SHIPPING", "DELIVERED", "OTHER"} :
          CASE reported = seen.status /\ asker # "SYSTEM" -> Stop(w)
            [] reported \notin {seen.status, "OTHER"} /\ ~ GomdonOwnsShipping(seen) ->
                 Start(w, "setStatus", [Ask("PANCAKE", reported) EXCEPT !.askedBy = asker], NoSnapshot)
            [] OTHER -> Start(w, "block", NoRequest, NoSnapshot)
     /\ OnlyJob

BlockAutoCancel(w) ==
  /\ At(w, "block")
  /\ order' = [order EXCEPT !.autoCancelBlockedAt = TRUE]
  /\ Stop(w)
  /\ UNCHANGED << returnRequest, books, crashes >>

-----------------------------------------------------------------------------
(* Giving back what an order took, in the transaction that closes it.      *)

(* Cash on delivery: only a delivered order was paid for, and Pancake's    *)
(* "goods are back" proves nothing, so accounting must look first.         *)
WithholdsCod(o, r) ==
  /\ r.actor = "PANCAKE" /\ r.returned /\ r.target = "RETURNED"
  /\ o.paymentMethod = "COD" /\ o.status = "DELIVERED"

(* Mutant: any earlier return request, even a rejected one, counts as      *)
(* having taken care of the money.                                         *)
ManualPartialReturnUnlessAsked(r) ==
  r.actor = "PANCAKE" /\ r.returned /\ order.manualPartialReturn /\ returnRequest = "NONE"

(* Staff may have paid by hand after Pancake's partial return: hold the    *)
(* money unless a return approved here took care of it.                    *)
ManualPartialReturn(r) ==
  /\ r.actor = "PANCAKE" /\ r.returned
  /\ order.manualPartialReturn
  /\ returnRequest \notin {"APPROVED", "RECEIVED"}

WithholdsPrepaid(o, r) ==
  /\ ManualPartialReturn(r)
  /\ Prepaid(o.paymentMethod) /\ o.paymentMethod # "XU"
  /\ o.paymentStatus = "PAID" /\ ~ o.onCredit

(* Mutant: money held for accounting is also paid out.                     *)
GivesHeldMoneyBack(o, withheldCod, withheldPrepaid) ==
  \/ Prepaid(o.paymentMethod) /\ o.paymentStatus = "PAID"
  \/ o.paymentMethod = "COD" /\ o.status = "DELIVERED" /\ o.paymentStatus = "UNPAID"

(* reverseFinancials takes the money decision from the row as it is under  *)
(* the lock, never from what the worker read before.                       *)
GivesMoneyBack(o, withheldCod, withheldPrepaid) ==
  \/ Prepaid(o.paymentMethod) /\ o.paymentStatus = "PAID" /\ ~ withheldPrepaid
  \/ o.paymentMethod = "COD" /\ o.status = "DELIVERED" /\ o.paymentStatus = "UNPAID" /\ ~ withheldCod

ReverseFinancials(restocks, withheldCod, withheldPrepaid) ==
  LET pays == GivesMoneyBack(order, withheldCod, withheldPrepaid)
  IN [stock |-> IF restocks THEN books.stock + 1 ELSE books.stock,
      refunds |-> IF pays /\ ~ order.onCredit THEN books.refunds + 1 ELSE books.refunds,
      held |-> IF withheldCod \/ withheldPrepaid THEN "UNVERIFIED" ELSE books.held]

PaymentAfterReversal(withheldCod, withheldPrepaid) ==
  IF GivesMoneyBack(order, withheldCod, withheldPrepaid) THEN "REFUNDED" ELSE order.paymentStatus

(* Mutants: the flip updates by id; the flip compares only the status.     *)
FlipById(r, seen) == TRUE
FlipByStatus(r, seen) == order.status = seen.status

(* The WHERE of the flip: the status read, the handover columns when goods *)
(* could leave in between, the money the judgement relied on.              *)
FlipMatches(r, seen) ==
  /\ order.status = seen.status
  /\ r.target = "CANCELLED" /\ ~ r.returned =>
       /\ order.shippedAt = seen.shippedAt
       /\ order.gomdon = seen.gomdon
       /\ r.actor # "PANCAKE" => order.shippingCode = seen.shippingCode
  /\ RequiresPaymentBefore(seen.status, r.target) /\ seen.paymentStatus = "PAID" => order.paymentStatus = "PAID"
  /\ r.actor = "EXPIRY" => order.paymentStatus = "UNPAID"

FlipWins(w) ==
  LET r == job[w].req
      closes == r.target \in Closed
      ships == r.actor = "MERCHANT" /\ r.target = "SHIPPING"
      withheldCod == closes /\ WithholdsCod(order, r)
      withheldPrepaid == closes /\ WithholdsPrepaid(order, r)
  IN /\ At(w, "flip")
     /\ FlipMatches(r, job[w].seen)
     /\ order' = [order EXCEPT
          !.status = r.target,
          !.paymentStatus = IF closes THEN PaymentAfterReversal(withheldCod, withheldPrepaid) ELSE @,
          !.shippedAt = @ \/ ships,
          !.shippingCode = IF ships THEN "CARRIER" ELSE @]
     /\ books' = IF closes THEN ReverseFinancials(TRUE, withheldCod, withheldPrepaid) ELSE books
     /\ Return(w, TRUE)
     /\ UNCHANGED << returnRequest, crashes >>

FlipLoses(w) ==
  LET r == job[w].req
  IN /\ At(w, "flip")
     /\ ~ FlipMatches(r, job[w].seen)
     /\ Return(w, ~ (order.status \in Closed /\ r.target \in {"SHIPPING", "DELIVERED"}))
     /\ OnlyJob

-----------------------------------------------------------------------------
(* The customer cancels: an early check, Pancake, then everything again    *)
(* under the row lock (orders.service.ts).                                 *)
CustomerCancellable(o) ==
  {"PENDING_PAYMENT", "CONFIRMED"} \cup IF o.type = "DEALER" THEN {} ELSE {"PACKED"}

(* Placed by a seller and paid by the buyer: of the two, only the seller is *)
(* refused then.                                                           *)
PaidByBuyer(o) == o.placedForCustomer /\ o.paymentStatus = "PAID"
CustomerMayCancel(o) ==
  /\ o.status \in CustomerCancellable(o)
  /\ ~ o.autoCancelBlockedAt
  /\ ~ HandedOver(o, FALSE)

CustomerCancel(h) ==
  /\ "customer" \in Callers(order) /\ IsIdle(h)
  /\ CustomerMayCancel(order)
  /\ Start(h, "precheck", Ask("CUSTOMER", "CANCELLED"), Snapshot)
  /\ OnlyJob

(* Mutants: the transaction trusts the early check; it decides the refund  *)
(* from the row read before Pancake was asked.                             *)
CustomerCancelsUnchecked(w) ==
  /\ At(w, "customerTx")
  /\ order' = [order EXCEPT !.status = "CANCELLED", !.paymentStatus = PaymentAfterReversal(FALSE, FALSE)]
  /\ books' = ReverseFinancials(TRUE, FALSE, FALSE)
  /\ Stop(w)
  /\ UNCHANGED << returnRequest, crashes >>

CustomerCancelsOnOldRead(w) ==
  /\ At(w, "customerTx")
  /\ IF CustomerMayCancel(order)
     THEN /\ order' = [order EXCEPT !.status = "CANCELLED",
                           !.paymentStatus = IF job[w].seen.paymentStatus = "PAID" THEN "REFUNDED" ELSE @]
          /\ books' = [books EXCEPT !.stock = @ + 1,
                           !.refunds = IF job[w].seen.paymentStatus = "PAID" THEN @ + 1 ELSE @]
     ELSE UNCHANGED << order, books >>
  /\ Stop(w)
  /\ UNCHANGED << returnRequest, crashes >>

CustomerCancelTx(w) ==
  /\ At(w, "customerTx")
  /\ \/ /\ CustomerMayCancel(order)
        /\ order' = [order EXCEPT !.status = "CANCELLED",
                                  !.paymentStatus = PaymentAfterReversal(FALSE, FALSE)]
        /\ books' = ReverseFinancials(TRUE, FALSE, FALSE)
     \/ /\ CustomerMayCancel(order) => PaidByBuyer(order)
        /\ UNCHANGED << order, books >>
  /\ Stop(w)
  /\ UNCHANGED << returnRequest, crashes >>

-----------------------------------------------------------------------------
(* Money arrives.  A bank transfer is confirmed by the admin or by Pancake *)
(* (markPaid: read, flip, up to three tries; the dealer page stops at one),*)
(* a ZaloPay payment by the gateway's callback or by asking the gateway.   *)
(* Mutants: a closed order may be paid; the columns are mixed up.          *)
PayableClosed(o) == o.paymentStatus = "UNPAID"
AfterPaymentMixedUp(status) == "PAID"

Payable(o) == o.paymentStatus = "UNPAID" /\ o.status \in Open
AfterPayment(status) == IF status = "PENDING_PAYMENT" THEN "CONFIRMED" ELSE status

MarkPaid(h) ==
  /\ "bank" \in Callers(order) /\ IsIdle(h)
  /\ order.paymentMethod = "BANK_TRANSFER" /\ ~ order.onCredit
  /\ Start(h, "pay", NoRequest, NoSnapshot)
  /\ OnlyJob

MarkPaidRead(w) ==
  /\ At(w, "pay")
  /\ IF Payable(order) THEN GoTo(w, "payFlip", Snapshot) ELSE Stop(w)
  /\ OnlyJob

(* Mutant: the payment does not look at the status again.                  *)
PayFlipByPayment(seen) == order.paymentStatus = "UNPAID"
PayFlipMatches(seen) == order.paymentStatus = "UNPAID" /\ order.status = seen.status

MarkPaidWins(w) ==
  /\ At(w, "payFlip")
  /\ PayFlipMatches(job[w].seen)
  /\ order' = [order EXCEPT !.paymentStatus = "PAID", !.status = AfterPayment(job[w].seen.status)]
  /\ Stop(w)
  /\ UNCHANGED << returnRequest, books, crashes >>

MarkPaidLoses(w) ==
  /\ At(w, "payFlip")
  /\ ~ PayFlipMatches(job[w].seen)
  /\ IF job[w].tries + 1 < MaxPayTries
     THEN job' = [job EXCEPT ![w].at = "pay", ![w].seen = NoSnapshot, ![w].tries = @ + 1]
     ELSE Stop(w)
  /\ OnlyJob

GatewayPaid(h) ==
  /\ "gateway" \in Callers(order) /\ IsIdle(h)
  /\ order.paymentMethod = "ZALOPAY" /\ order.status \in Open
  /\ Start(h, "gateway", NoRequest, Snapshot)
  /\ OnlyJob

(* The status written depends on the status read, the guard does not.      *)
GatewayFlip(w) ==
  /\ At(w, "gateway")
  /\ order' = IF Payable(order)
              THEN [order EXCEPT !.paymentStatus = "PAID",
                                 !.status = IF job[w].seen.status = "PENDING_PAYMENT" THEN "CONFIRMED" ELSE @]
              ELSE order
  /\ Stop(w)
  /\ UNCHANGED << returnRequest, books, crashes >>

-----------------------------------------------------------------------------
(* Carriers.  Pancake assigns a waybill (not while Gomdon owns shipping,   *)
(* judged on what was read; the write skips a closed order).  The Gomdon   *)
(* waybill is claimed, then created; the creation may be refused.          *)
WaybillRead(h) ==
  /\ "waybill" \in Callers(order) /\ IsIdle(h)
  /\ order.fulfiller = "TUBU"
  /\ order.status \in Open /\ ~ GomdonOwnsShipping(order)
  /\ Start(h, "waybill", NoRequest, NoSnapshot)
  /\ OnlyJob

WaybillWrite(w) ==
  /\ At(w, "waybill")
  /\ order' = IF order.status \in Open THEN [order EXCEPT !.shippingCode = "CARRIER"] ELSE order
  /\ Stop(w)
  /\ UNCHANGED << returnRequest, books, crashes >>

GomdonClaim ==
  /\ "gomdon" \in Callers(order)
  /\ order.recycling /\ order.gomdon = "NONE"
  /\ order.status \in {"PENDING_PAYMENT", "CONFIRMED", "PACKED"}
  /\ order.shippingCode = "NONE"
  /\ IsGomdonPayable(order)
  /\ order' = [order EXCEPT !.gomdon = "CREATING"]
  /\ UNCHANGED << returnRequest, books, job, crashes >>

GomdonCreated ==
  /\ order.gomdon = "CREATING"
  /\ \/ order' = [order EXCEPT !.gomdon = "BOOKED", !.shippingCode = "GOMDON"]
     \/ order' = [order EXCEPT !.gomdon = "NONE"]
  /\ UNCHANGED << returnRequest, books, job, crashes >>

-----------------------------------------------------------------------------
(* Returns of the whole order (order-returns.service.ts), Pancake's        *)
(* partial return without a request here, and accounting's decision on     *)
(* money held back.                                                        *)
ReturnRequestRead(h) ==
  /\ "returns" \in Callers(order) /\ IsIdle(h)
  /\ order.status = "DELIVERED" /\ returnRequest # "REQUESTED"
  /\ Start(h, "returnCreate", NoRequest, NoSnapshot)
  /\ OnlyJob

(* Only one request may be open; the order may have moved on meanwhile (a  *)
(* request on a returned order can only be rejected: it is not kept here). *)
ReturnRequestCreate(w) ==
  /\ At(w, "returnCreate")
  /\ returnRequest' = IF returnRequest \in {"NONE", "REJECTED"} THEN "REQUESTED" ELSE returnRequest
  /\ Stop(w)
  /\ UNCHANGED << order, books, crashes >>

RejectReturn ==
  /\ returnRequest = "REQUESTED"
  /\ returnRequest' = "REJECTED"
  /\ UNCHANGED << order, books, job, crashes >>

ApproveReturn ==
  /\ returnRequest = "REQUESTED"
  /\ order.status = "DELIVERED"
  /\ returnRequest' = "APPROVED"
  /\ order' = [order EXCEPT !.status = "RETURNED", !.paymentStatus = PaymentAfterReversal(FALSE, FALSE)]
  /\ books' = ReverseFinancials(FALSE, FALSE, FALSE)
  /\ UNCHANGED << job, crashes >>

ReceiveReturn ==
  /\ returnRequest = "APPROVED"
  /\ returnRequest' = "RECEIVED"
  /\ books' = [books EXCEPT !.stock = @ + 1]
  /\ UNCHANGED << order, job, crashes >>

PartialReturnRead(h) ==
  /\ "partialReturn" \in Callers(order) /\ IsIdle(h)
  /\ order.fulfiller = "TUBU" /\ order.status \in Open
  /\ returnRequest \notin {"REQUESTED", "APPROVED", "RECEIVED"}
  /\ Start(h, "partialReturn", NoRequest, NoSnapshot)
  /\ OnlyJob

PartialReturnMark(w) ==
  /\ At(w, "partialReturn")
  /\ order' = IF order.status \in Open THEN [order EXCEPT !.manualPartialReturn = TRUE] ELSE order
  /\ Stop(w)
  /\ UNCHANGED << returnRequest, books, crashes >>

(* Mutant: accounting pays, the order keeps saying it is paid.             *)
SettleHeldUnmarked ==
  /\ books.held = "UNVERIFIED"
  /\ \E confirmed \in {0, 1} :
       books' = [books EXCEPT !.held = "SETTLED", !.refunds = @ + confirmed]
  /\ UNCHANGED << order, returnRequest, job, crashes >>

(* Confirmed: the customer is owed it; dismissed: staff already paid, or   *)
(* the carrier never collected.  A prepaid order now counts as refunded.   *)
SettleHeld ==
  /\ books.held = "UNVERIFIED"
  /\ \E confirmed \in {0, 1} :
       books' = [books EXCEPT !.held = "SETTLED", !.refunds = @ + confirmed]
  /\ order' = IF Prepaid(order.paymentMethod) /\ order.paymentStatus = "PAID"
              THEN [order EXCEPT !.paymentStatus = "REFUNDED"] ELSE order
  /\ UNCHANGED << returnRequest, job, crashes >>

-----------------------------------------------------------------------------
(* A process dies, or the job's retry starts over: what it held is lost.   *)
Crash(w) ==
  /\ crashes < MaxCrashes
  /\ ~ IsIdle(w)
  /\ crashes' = crashes + 1
  /\ Stop(w)
  /\ UNCHANGED << order, returnRequest, books >>

Begin(h) ==
  \/ StaffRequest(h) \/ MerchantRequest(h) \/ PancakeStatus(h) \/ PancakeReturned(h)
  \/ GomdonReport(h) \/ CustomerCancel(h) \/ MarkPaid(h) \/ GatewayPaid(h)
  \/ WaybillRead(h) \/ ReturnRequestRead(h) \/ PartialReturnRead(h)

Continue(w) ==
  \/ SetStatusRead(w) \/ PrecheckAgrees(w) \/ PrecheckUnreachable(w) \/ PrecheckHandedOver(w)
  \/ BlockAutoCancel(w) \/ FlipWins(w) \/ FlipLoses(w) \/ CustomerCancelTx(w)
  \/ MarkPaidRead(w) \/ MarkPaidWins(w) \/ MarkPaidLoses(w) \/ GatewayFlip(w)
  \/ WaybillWrite(w) \/ ReturnRequestCreate(w) \/ PartialReturnMark(w)

Statement ==
  \/ GomdonClaim \/ GomdonCreated \/ RejectReturn \/ ApproveReturn \/ ReceiveReturn \/ SettleHeld

Next ==
  \/ \E h \in Handlers : Begin(h)
  \/ ExpiryScan(Expiry)
  \/ \E w \in Workers : Continue(w) \/ Crash(w)
  \/ Statement

Spec == Init /\ [][Next]_vars

(* The cron runs every few minutes and finishes what it scanned; Pancake's *)
(* answer or the HTTP timeout always comes.                                *)
Fairness == WF_vars(ExpiryScan(Expiry) \/ Continue(Expiry))
FairSpec == Spec /\ Fairness

-----------------------------------------------------------------------------
(* Properties.                                                             *)
Paid(o) == o.paymentStatus = "PAID"
ClosedOrder == order.status \in Closed

(* Every variable has its type; nothing is given back twice over.          *)
TypeOK ==
  /\ order \in Order
  /\ returnRequest \in {"NONE", "REQUESTED", "REJECTED", "APPROVED", "RECEIVED"}
  /\ books \in [stock : Nat, refunds : Nat, held : {"NONE", "UNVERIFIED", "SETTLED"}]
  /\ job \in [Workers -> Job]
  /\ crashes \in 0 .. MaxCrashes

(* Stock goes back exactly once for a closed order, whoever closed it and  *)
(* however many raced to (reverseFinancials has no guard of its own); a    *)
(* return approved here waits for the goods instead.                       *)
StockReleasedOnce ==
  books.stock = IF ClosedOrder /\ returnRequest # "APPROVED" THEN 1 ELSE 0

(* No closed order keeps a customer's money: whatever was paid, also by a  *)
(* payment racing the cancellation, is refunded or held for accounting.    *)
NoPaidMoneyKept ==
  ClosedOrder /\ Paid(order) => books.held = "UNVERIFIED"

(* Money goes back at most one way: an automatic refund, or a sum held for *)
(* accounting, never both; only a paid or a delivered cash order gives any.*)
OneWayOut ==
  /\ books.refunds + (IF books.held = "UNVERIFIED" THEN 1 ELSE 0) <= 1
  /\ books.refunds = 1 \/ books.held # "NONE" => ClosedOrder
  /\ books.refunds = 1 /\ order.paymentMethod = "COD" => order.status = "RETURNED"
  /\ order.paymentStatus = "REFUNDED" => books.refunds = 1 \/ books.held = "SETTLED"

(* Goods never travel, and no reward starts, before prepaid money arrived  *)
(* (C-024), whichever order webhooks and payments come in.                 *)
UnpaidPrepaidHeld ==
  order.status \in {"CONFIRMED", "PACKED", "SHIPPING", "DELIVERED"}
    => PaidBeforeFulfilment(order, order.status, "DELIVERED")

(* A status only moves along the table: never back from delivered or out   *)
(* of a closed status (P0-1), whatever stale read a writer started from.   *)
StatusOnlyMovesForward == [][CanTransition(order.status, order'.status)]_vars

(* A closed order is frozen: late payments never revive it or make it paid *)
(* (P1-3); only money held or owed may still become refunded.              *)
ClosedIsFrozen ==
  [][ClosedOrder =>
       /\ order'.status = order.status
       /\ order'.paymentStatus # order.paymentStatus => Paid(order) /\ order'.paymentStatus = "REFUNDED"]_vars

Cancels == order.status # "CANCELLED" /\ order'.status = "CANCELLED"
Moves(w) == job'[w] # job[w]

(* The cron only ever cancels an order that is unpaid and still waiting at *)
(* that very step: a payment that lands after its scan saves the order.    *)
ExpiryNeverCancelsPaid ==
  [][Cancels /\ Moves(Expiry) => order.paymentStatus = "UNPAID" /\ order.status = "PENDING_PAYMENT"]_vars

(* D1: once the goods are with a carrier nobody cancels, unless they came  *)
(* back; a waybill, pick-up or hand-over that lands between the            *)
(* canceller's read and its write stops it.                                *)
NoCancelAfterHandover ==
  [][Cancels => \E w \in Workers :
       /\ Moves(w)
       /\ job[w].req.returned \/ ~ HandedOver(order, job[w].req.actor = "PANCAKE")]_vars

(* Pancake reported a partial return that staff may have paid by hand:     *)
(* the return of the whole order that follows pays nothing by itself, even *)
(* when the mark is written after that return was judged.                  *)
HandRefundNotRepeated ==
  [][\A w \in Workers :
       /\ ~ ClosedOrder /\ order'.status \in Closed
       /\ Moves(w) /\ job[w].req.actor = "PANCAKE" /\ job[w].req.returned
       /\ order.manualPartialReturn
       => books'.refunds = books.refunds]_vars

(* The cron gets every abandoned order out of the way: paid, cancelled, or *)
(* marked for a person because the goods had left.                         *)
AbandonedOrderLeaves == Stale(order) ~> ~ Stale(order)

-----------------------------------------------------------------------------
(* However its writers interleave, the order behaves like one that changes *)
(* hands atomically: every step is a step of OrderSettlement or changes    *)
(* nothing that OrderSettlement sees.                                      *)
PlacedAs ==
  [paymentMethod |-> order.paymentMethod, type |-> order.type, onCredit |-> order.onCredit,
   placedForCustomer |-> order.placedForCustomer, fulfiller |-> order.fulfiller,
   recycling |-> order.recycling]

Settlement == INSTANCE OrderSettlement WITH
  kind <- PlacedAs,
  status <- order.status,
  payment <- order.paymentStatus,
  books <- books,
  goodsOut <- returnRequest = "APPROVED"

SettlementSpec == Settlement!Spec
=============================================================================
