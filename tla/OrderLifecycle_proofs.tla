------------------------ MODULE OrderLifecycle_proofs ------------------------
(***************************************************************************)
(* Proofs about OrderLifecycle for any number of handlers, any kinds of    *)
(* orders, any callers and any number of crashes.                          *)
(***************************************************************************)
EXTENDS OrderLifecycle, TLAPS

-----------------------------------------------------------------------------
(* Type correctness.                                                       *)

(* What starting, moving on and stopping a worker do to its job.           *)
LEMMA StartType ==
  ASSUME job \in [Workers -> Job], NEW w \in Workers, NEW at \in Stage, NEW req \in Request,
         NEW seen \in Seen, Start(w, at, req, seen)
  PROVE  job' \in [Workers -> Job]
BY DEF Start, Job, MaxPayTries

LEMMA GoToType ==
  ASSUME job \in [Workers -> Job], NEW w \in Workers, NEW at \in Stage, NEW seen \in Seen, GoTo(w, at, seen)
  PROVE  job' \in [Workers -> Job]
BY DEF GoTo, Job

LEMMA NothingType == NoRequest \in Request /\ NoSnapshot \in Seen /\ Idle \in Job
BY DEF NoRequest, NoSnapshot, Idle, Ask, Request, Seen, Job, Stage, MaxPayTries, Actor, Asker,
       OrderStatus, Open, Closed, PaymentStatus, ShippingCode, GomdonStatus

LEMMA StopType ==
  ASSUME job \in [Workers -> Job], NEW w \in Workers, Stop(w)
  PROVE  job' \in [Workers -> Job]
BY NothingType DEF Stop

LEMMA ReturnType ==
  ASSUME job \in [Workers -> Job], NEW w \in Workers, NEW ok, Return(w, ok)
  PROVE  job' \in [Workers -> Job]
<1>1. CASE Stop(w)
  BY <1>1, StopType
<1>2. CASE Start(w, "block", NoRequest, NoSnapshot)
  BY <1>2, StartType, NothingType DEF Stage
<1>3. QED BY <1>1, <1>2 DEF Return

LEMMA AskType ==
  ASSUME NEW actor \in Actor, NEW target \in OrderStatus
  PROVE  Ask(actor, target) \in Request
BY DEF Ask, Request, Asker

LEMMA SnapshotType == order \in Order => Snapshot \in Seen
BY DEF Snapshot, Seen, Order

(* Every order that is placed is a row.                                    *)
LEMMA PlacedType == \A k \in OrderKinds : Placed(k) \in Order
BY KindsAssumption DEF Placed, Order, Kind, PaymentMethod, OrderStatus, Open, Closed, PaymentStatus, ShippingCode, GomdonStatus

LEMMA InitType == Init => TypeOK
BY PlacedType, NothingType, BoundAssumption DEF Init, TypeOK

(* A step that only moves a worker keeps the types if the new job has one. *)
LEMMA OnlyJobType ==
  ASSUME TypeOK, OnlyJob, job' \in [Workers -> Job]
  PROVE  TypeOK'
BY DEF TypeOK, OnlyJob

(* The same for a step that only writes the row.                           *)
LEMMA RowType ==
  ASSUME TypeOK, order' \in Order, job' \in [Workers -> Job], UNCHANGED << returnRequest, books, crashes >>
  PROVE  TypeOK'
BY DEF TypeOK

LEMMA HandlersWork == Handlers \subseteq Workers /\ Expiry \in Workers
BY DEF Workers

LEMMA BeginType ==
  ASSUME TypeOK, NEW h \in Handlers, Begin(h)
  PROVE  TypeOK'
<1>0. h \in Workers /\ job \in [Workers -> Job] /\ order \in Order
  BY HandlersWork DEF TypeOK
<1>1. CASE StaffRequest(h)
  <2>1. PICK target \in OrderStatus : Start(h, "setStatus", Ask("STAFF", target), NoSnapshot)
    BY <1>1 DEF StaffRequest
  <2>2. job' \in [Workers -> Job]
    BY <1>0, <2>1, StartType, AskType, NothingType DEF Actor, Stage
  <2>3. QED BY <1>1, <2>2, OnlyJobType DEF StaffRequest
<1>2. CASE MerchantRequest(h)
  <2>1. PICK m \in MerchantMoves :
          Start(h, "setStatus", [Ask("MERCHANT", m.target) EXCEPT !.expected = m.from, !.returned = m.returned], NoSnapshot)
    BY <1>2 DEF MerchantRequest
  <2>2. m.target \in OrderStatus /\ m.from \in OrderStatus /\ m.returned \in BOOLEAN
    <3>1. CASE m \in [from : {"CONFIRMED", "PACKED"}, target : {"SHIPPING", "CANCELLED"}, returned : {FALSE}]
      BY <3>1 DEF OrderStatus, Open, Closed
    <3>2. CASE m = [from |-> "CONFIRMED", target |-> "PACKED", returned |-> FALSE]
      BY <3>2 DEF OrderStatus, Open
    <3>3. CASE m = [from |-> "SHIPPING", target |-> "DELIVERED", returned |-> FALSE]
      BY <3>3 DEF OrderStatus, Open
    <3>4. CASE m = [from |-> "SHIPPING", target |-> "CANCELLED", returned |-> TRUE]
      BY <3>4 DEF OrderStatus, Open, Closed
    <3>5. QED BY <3>1, <3>2, <3>3, <3>4 DEF MerchantMoves
  <2>3. [Ask("MERCHANT", m.target) EXCEPT !.expected = m.from, !.returned = m.returned] \in Request
    BY <2>2 DEF Ask, Request, Actor, Asker
  <2>4. job' \in [Workers -> Job]
    BY <1>0, <2>1, <2>3, StartType, NothingType DEF Stage
  <2>5. QED BY <1>2, <2>4, OnlyJobType DEF MerchantRequest
<1>3. CASE PancakeStatus(h)
  <2>1. PICK target \in OrderStatus : Start(h, "setStatus", Ask("PANCAKE", target), NoSnapshot)
    BY <1>3 DEF PancakeStatus, OrderStatus, Open, Closed
  <2>2. job' \in [Workers -> Job]
    BY <1>0, <2>1, StartType, AskType, NothingType DEF Actor, Stage
  <2>3. QED BY <1>3, <2>2, OnlyJobType DEF PancakeStatus
<1>4. CASE PancakeReturned(h)
  <2>1. PICK target \in OrderStatus :
          Start(h, "setStatus", [Ask("PANCAKE", target) EXCEPT !.returned = TRUE], NoSnapshot)
    BY <1>4 DEF PancakeReturned, OrderStatus, Closed
  <2>2. [Ask("PANCAKE", target) EXCEPT !.returned = TRUE] \in Request
    BY <2>1 DEF Ask, Request, Actor, Asker
  <2>3. job' \in [Workers -> Job]
    BY <1>0, <2>1, <2>2, StartType, NothingType DEF Stage
  <2>4. QED BY <1>4, <2>3, OnlyJobType DEF PancakeReturned
<1>5. CASE GomdonReport(h)
  <2>1. PICK report \in GomdonMayReport(order.gomdon) :
          /\ order' = [order EXCEPT !.gomdon = report, !.shippingCode = "GOMDON"]
          /\ IF GomdonAsks(order, report)
             THEN Start(h, "setStatus", Ask("GOMDON", IF report = "PICKED_UP" THEN "SHIPPING" ELSE "DELIVERED"), NoSnapshot)
             ELSE job' = job
    BY <1>5 DEF GomdonReport
  <2>2. report \in GomdonStatus
    BY <2>1 DEF GomdonMayReport, GomdonStatus
  <2>3. order' \in Order
    BY <1>0, <2>1, <2>2 DEF Order, ShippingCode
  <2>4. job' \in [Workers -> Job]
    <3>1. Ask("GOMDON", IF report = "PICKED_UP" THEN "SHIPPING" ELSE "DELIVERED") \in Request
      BY AskType DEF Actor, OrderStatus, Open
    <3>2. QED BY <1>0, <2>1, <3>1, StartType, NothingType DEF Stage
  <2>5. QED BY <1>5, <2>3, <2>4, RowType DEF GomdonReport
<1>6. CASE CustomerCancel(h)
  <2>1. Ask("CUSTOMER", "CANCELLED") \in Request
    BY AskType DEF Actor, OrderStatus, Closed
  <2>2. job' \in [Workers -> Job]
    BY <1>0, <1>6, <2>1, StartType, SnapshotType DEF CustomerCancel, Stage
  <2>3. QED BY <1>6, <2>2, OnlyJobType DEF CustomerCancel
<1>7. CASE MarkPaid(h)
  <2>1. job' \in [Workers -> Job]
    BY <1>0, <1>7, StartType, NothingType DEF MarkPaid, Stage
  <2>2. QED BY <1>7, <2>1, OnlyJobType DEF MarkPaid
<1>8. CASE GatewayPaid(h)
  <2>1. job' \in [Workers -> Job]
    BY <1>0, <1>8, StartType, NothingType, SnapshotType DEF GatewayPaid, Stage
  <2>2. QED BY <1>8, <2>1, OnlyJobType DEF GatewayPaid
<1>9. CASE WaybillRead(h) \/ ReturnRequestRead(h) \/ PartialReturnRead(h)
  <2>1. \E at \in Stage : Start(h, at, NoRequest, NoSnapshot)
    BY <1>9 DEF WaybillRead, ReturnRequestRead, PartialReturnRead, Stage
  <2>2. job' \in [Workers -> Job]
    BY <1>0, <2>1, StartType, NothingType
  <2>3. QED BY <1>9, <2>2, OnlyJobType DEF WaybillRead, ReturnRequestRead, PartialReturnRead
<1>10. QED
  BY <1>1, <1>2, <1>3, <1>4, <1>5, <1>6, <1>7, <1>8, <1>9 DEF Begin

(* The row after a closing: only its payment may change, to REFUNDED.      *)
LEMMA PaymentAfterReversalType ==
  ASSUME order \in Order, NEW a \in BOOLEAN, NEW b \in BOOLEAN
  PROVE  PaymentAfterReversal(a, b) \in PaymentStatus
BY DEF PaymentAfterReversal, Order, PaymentStatus

LEMMA ReverseFinancialsType ==
  ASSUME books \in [stock : Nat, refunds : Nat, held : {"NONE", "UNVERIFIED", "SETTLED"}],
         NEW restocks \in BOOLEAN, NEW a \in BOOLEAN, NEW b \in BOOLEAN
  PROVE  ReverseFinancials(restocks, a, b) \in [stock : Nat, refunds : Nat, held : {"NONE", "UNVERIFIED", "SETTLED"}]
BY DEF ReverseFinancials

LEMMA WithholdsType ==
  ASSUME NEW o, NEW r
  PROVE  WithholdsCod(o, r) \in BOOLEAN /\ WithholdsPrepaid(o, r) \in BOOLEAN
BY DEF WithholdsCod, WithholdsPrepaid

LEMMA JobFields ==
  ASSUME job \in [Workers -> Job], NEW w \in Workers
  PROVE  /\ job[w].req \in Request /\ job[w].seen \in Seen
         /\ job[w].tries \in 0 .. MaxPayTries - 1 /\ job[w].at \in Stage
         /\ job[w].req.actor \in Actor /\ job[w].req.target \in OrderStatus
         /\ job[w].req.askedBy \in Asker /\ job[w].req.returned \in BOOLEAN
         /\ job[w].seen.status \in OrderStatus /\ job[w].seen.paymentStatus \in PaymentStatus
BY DEF Job, Request, Seen

LEMMA ContinueType ==
  ASSUME TypeOK, NEW w \in Workers, Continue(w)
  PROVE  TypeOK'
<1>0. job \in [Workers -> Job] /\ order \in Order
  BY DEF TypeOK
<1>a. job[w].req \in Request /\ job[w].seen \in Seen /\ job[w].req.target \in OrderStatus
  BY <1>0, JobFields
<1>1. CASE SetStatusRead(w)
  <2>1. \/ \E ok \in BOOLEAN : Return(w, ok)
        \/ \E at \in Stage, seen \in Seen : GoTo(w, at, seen)
    <3>1. Snapshot \in Seen /\ NoSnapshot \in Seen
      BY <1>0, SnapshotType, NothingType
    <3>2. "block" \in Stage /\ "precheck" \in Stage /\ "flip" \in Stage
      BY DEF Stage
    <3>3. QED BY <1>1, <3>1, <3>2 DEF SetStatusRead
  <2>2. job' \in [Workers -> Job]
    BY <1>0, <2>1, ReturnType, GoToType
  <2>3. QED BY <1>1, <2>2, OnlyJobType DEF SetStatusRead
<1>2. CASE PrecheckAgrees(w) \/ PrecheckUnreachable(w)
  <2>1. Stop(w) \/ \E at \in Stage : GoTo(w, at, job[w].seen)
    BY <1>2 DEF PrecheckAgrees, PrecheckUnreachable, Proceed, Stage
  <2>2. job' \in [Workers -> Job]
    BY <1>0, <1>a, <2>1, StopType, GoToType
  <2>3. QED BY <1>2, <2>2, OnlyJobType DEF PrecheckAgrees, PrecheckUnreachable
<1>3. CASE PrecheckHandedOver(w)
  <2> DEFINE asker == AskerOf(job[w].req.actor)
             nested(reported) == [Ask("PANCAKE", reported) EXCEPT !.askedBy = asker]
  <2>1. PICK reported \in {"SHIPPING", "DELIVERED", "OTHER"} :
          \/ Stop(w)
          \/ reported # "OTHER" /\ Start(w, "setStatus", nested(reported), NoSnapshot)
          \/ Start(w, "block", NoRequest, NoSnapshot)
    BY <1>3 DEF PrecheckHandedOver
  <2>2. asker \in Asker
    BY DEF AskerOf, Asker
  <2>3. reported # "OTHER" => nested(reported) \in Request
    <3>1. reported # "OTHER" => reported \in OrderStatus
      BY DEF OrderStatus, Open
    <3>2. QED BY <2>2, <3>1 DEF Ask, Request, Actor
  <2>4. job' \in [Workers -> Job]
    BY <1>0, <2>1, <2>3, StartType, StopType, NothingType DEF Stage
  <2>5. QED BY <1>3, <2>4, OnlyJobType DEF PrecheckHandedOver
<1>4. CASE BlockAutoCancel(w)
  <2>1. order' \in Order
    BY <1>0, <1>4 DEF BlockAutoCancel, Order
  <2>2. job' \in [Workers -> Job]
    BY <1>0, <1>4, StopType DEF BlockAutoCancel
  <2>3. QED BY <1>4, <2>1, <2>2, RowType DEF BlockAutoCancel
<1>5. CASE FlipWins(w)
  <2> DEFINE r == job[w].req
             closes == r.target \in Closed
             ships == r.actor = "MERCHANT" /\ r.target = "SHIPPING"
             cod == closes /\ WithholdsCod(order, r)
             prepaid == closes /\ WithholdsPrepaid(order, r)
  <2>1. /\ order' = [order EXCEPT
             !.status = r.target,
             !.paymentStatus = IF closes THEN PaymentAfterReversal(cod, prepaid) ELSE @,
             !.shippedAt = @ \/ ships,
             !.shippingCode = IF ships THEN "CARRIER" ELSE @]
        /\ books' = IF closes THEN ReverseFinancials(TRUE, cod, prepaid) ELSE books
        /\ Return(w, TRUE)
        /\ UNCHANGED << returnRequest, crashes >>
    BY <1>5 DEF FlipWins
  <2>2. cod \in BOOLEAN /\ prepaid \in BOOLEAN /\ ships \in BOOLEAN
    OBVIOUS
  <2>3. PaymentAfterReversal(cod, prepaid) \in PaymentStatus
    BY <1>0, <2>2, PaymentAfterReversalType
  <2>4. order' \in Order
    <3> HIDE DEF cod, prepaid, ships, closes
    <3>1. QED BY <1>0, <1>a, <2>1, <2>2, <2>3 DEF Order, ShippingCode
  <2>5. books' \in [stock : Nat, refunds : Nat, held : {"NONE", "UNVERIFIED", "SETTLED"}]
    BY <2>1, <2>2, ReverseFinancialsType DEF TypeOK
  <2>6. job' \in [Workers -> Job]
    BY <1>0, <2>1, ReturnType
  <2>7. QED BY <2>1, <2>4, <2>5, <2>6 DEF TypeOK
<1>6. CASE FlipLoses(w)
  <2>1. job' \in [Workers -> Job]
    BY <1>0, <1>6, ReturnType DEF FlipLoses
  <2>2. QED BY <1>6, <2>1, OnlyJobType DEF FlipLoses
<1>7. CASE CustomerCancelTx(w)
  <2>1. order' \in Order
    <3>1. PaymentAfterReversal(FALSE, FALSE) \in PaymentStatus
      BY <1>0, PaymentAfterReversalType
    <3>2. QED BY <1>0, <1>7, <3>1 DEF CustomerCancelTx, Order, OrderStatus, Closed
  <2>2. books' \in [stock : Nat, refunds : Nat, held : {"NONE", "UNVERIFIED", "SETTLED"}]
    BY <1>7, ReverseFinancialsType DEF CustomerCancelTx, TypeOK
  <2>3. job' \in [Workers -> Job]
    BY <1>0, <1>7, StopType DEF CustomerCancelTx
  <2>4. QED BY <1>7, <2>1, <2>2, <2>3 DEF CustomerCancelTx, TypeOK
<1>8. CASE MarkPaidRead(w)
  <2>1. Stop(w) \/ GoTo(w, "payFlip", Snapshot)
    BY <1>8 DEF MarkPaidRead
  <2>2. job' \in [Workers -> Job]
    BY <1>0, <2>1, StopType, GoToType, SnapshotType DEF Stage
  <2>3. QED BY <1>8, <2>2, OnlyJobType DEF MarkPaidRead
<1>9. CASE MarkPaidWins(w)
  <2>1. AfterPayment(job[w].seen.status) \in OrderStatus
    BY <1>0, JobFields DEF AfterPayment, OrderStatus, Open
  <2>2. order' \in Order
    BY <1>0, <1>9, <2>1 DEF MarkPaidWins, Order, PaymentStatus
  <2>3. job' \in [Workers -> Job]
    BY <1>0, <1>9, StopType DEF MarkPaidWins
  <2>4. QED BY <1>9, <2>2, <2>3, RowType DEF MarkPaidWins
<1>10. CASE MarkPaidLoses(w)
  <2>1. job' \in [Workers -> Job]
    <3>1. CASE Stop(w)
      BY <1>0, <3>1, StopType
    <3>2. CASE /\ job[w].tries + 1 < MaxPayTries
               /\ job' = [job EXCEPT ![w].at = "pay", ![w].seen = NoSnapshot, ![w].tries = @ + 1]
      <4>1. job[w].tries + 1 \in 0 .. MaxPayTries - 1
        BY <1>0, <3>2, JobFields DEF MaxPayTries
      <4>2. QED BY <1>0, <3>2, <4>1, NothingType DEF Job, Stage
    <3>3. QED BY <1>10, <3>1, <3>2 DEF MarkPaidLoses
  <2>2. QED BY <1>10, <2>1, OnlyJobType DEF MarkPaidLoses
<1>11. CASE GatewayFlip(w)
  <2>1. order' \in Order
    BY <1>0, <1>11 DEF GatewayFlip, Order, PaymentStatus, OrderStatus, Open
  <2>2. job' \in [Workers -> Job]
    BY <1>0, <1>11, StopType DEF GatewayFlip
  <2>3. QED BY <1>11, <2>1, <2>2, RowType DEF GatewayFlip
<1>12. CASE WaybillWrite(w) \/ PartialReturnMark(w)
  <2>1. order' \in Order
    BY <1>0, <1>12 DEF WaybillWrite, PartialReturnMark, Order, ShippingCode
  <2>2. job' \in [Workers -> Job]
    BY <1>0, <1>12, StopType DEF WaybillWrite, PartialReturnMark
  <2>3. QED BY <1>12, <2>1, <2>2, RowType DEF WaybillWrite, PartialReturnMark
<1>13. CASE ReturnRequestCreate(w)
  <2>1. job' \in [Workers -> Job]
    BY <1>0, <1>13, StopType DEF ReturnRequestCreate
  <2>2. QED BY <1>13, <2>1 DEF ReturnRequestCreate, TypeOK
<1>14. QED
  BY <1>1, <1>2, <1>3, <1>4, <1>5, <1>6, <1>7, <1>8, <1>9, <1>10, <1>11, <1>12, <1>13 DEF Continue

LEMMA StatementType ==
  ASSUME TypeOK, Statement
  PROVE  TypeOK'
<1>0. order \in Order /\ books \in [stock : Nat, refunds : Nat, held : {"NONE", "UNVERIFIED", "SETTLED"}]
  BY DEF TypeOK
<1>1. CASE GomdonClaim \/ GomdonCreated
  <2>1. order' \in Order
    BY <1>0, <1>1 DEF GomdonClaim, GomdonCreated, Order, GomdonStatus, ShippingCode
  <2>2. QED BY <1>1, <2>1, RowType DEF GomdonClaim, GomdonCreated, TypeOK
<1>2. CASE RejectReturn
  BY <1>2 DEF RejectReturn, TypeOK
<1>3. CASE ApproveReturn
  <2>1. PaymentAfterReversal(FALSE, FALSE) \in PaymentStatus
    BY <1>0, PaymentAfterReversalType
  <2>2. order' \in Order
    BY <1>0, <1>3, <2>1 DEF ApproveReturn, Order, OrderStatus, Closed
  <2>3. books' \in [stock : Nat, refunds : Nat, held : {"NONE", "UNVERIFIED", "SETTLED"}]
    BY <1>0, <1>3, ReverseFinancialsType DEF ApproveReturn
  <2>4. QED BY <1>3, <2>2, <2>3 DEF ApproveReturn, TypeOK
<1>4. CASE ReceiveReturn
  BY <1>0, <1>4 DEF ReceiveReturn, TypeOK
<1>5. CASE SettleHeld
  <2>1. order' \in Order
    BY <1>0, <1>5 DEF SettleHeld, Order, PaymentStatus
  <2>2. books' \in [stock : Nat, refunds : Nat, held : {"NONE", "UNVERIFIED", "SETTLED"}]
    <3>1. PICK confirmed \in {0, 1} : books' = [books EXCEPT !.held = "SETTLED", !.refunds = @ + confirmed]
      BY <1>5 DEF SettleHeld
    <3>2. books.refunds + confirmed \in Nat
      BY <1>0
    <3>3. QED BY <1>0, <3>1, <3>2
  <2>3. QED BY <1>5, <2>1, <2>2 DEF SettleHeld, TypeOK
<1>6. QED BY <1>1, <1>2, <1>3, <1>4, <1>5 DEF Statement

LEMMA NextType ==
  ASSUME TypeOK, [Next]_vars
  PROVE  TypeOK'
<1>1. CASE \E h \in Handlers : Begin(h)
  BY <1>1, BeginType
<1>2. CASE ExpiryScan(Expiry)
  <2>1. [Ask("EXPIRY", "CANCELLED") EXCEPT !.expected = "PENDING_PAYMENT"] \in Request
    BY DEF Ask, Request, Actor, Asker, OrderStatus, Open, Closed
  <2>2. job' \in [Workers -> Job]
    BY <1>2, <2>1, HandlersWork, StartType, NothingType DEF ExpiryScan, Stage, TypeOK
  <2>3. QED BY <1>2, <2>2, OnlyJobType DEF ExpiryScan
<1>3. CASE \E w \in Workers : Continue(w)
  BY <1>3, ContinueType
<1>4. CASE \E w \in Workers : Crash(w)
  <2>1. PICK w \in Workers : Crash(w)
    BY <1>4
  <2>2. job' \in [Workers -> Job]
    BY <2>1, StopType DEF Crash, TypeOK
  <2>3. crashes' \in 0 .. MaxCrashes
    BY <2>1, BoundAssumption DEF Crash, TypeOK
  <2>4. QED BY <2>1, <2>2, <2>3 DEF Crash, TypeOK
<1>5. CASE Statement
  BY <1>5, StatementType
<1>6. CASE UNCHANGED vars
  BY <1>6 DEF vars, TypeOK
<1>7. QED BY <1>1, <1>2, <1>3, <1>4, <1>5, <1>6 DEF Next

(* Every reachable state has its types: whatever a worker carries from its *)
(* read to its write is a request and a snapshot the code can have.        *)
THEOREM TypeCorrect == Spec => []TypeOK
<1>1. TypeOK /\ [Next]_vars => TypeOK'
  BY NextType
<1>2. QED BY InitType, <1>1, PTL DEF Spec

-----------------------------------------------------------------------------
(* The inductive invariant.                                                *)

(* What a worker relies on between its read and its write.                 *)
Judged(w) ==
  LET r == job[w].req
      seen == job[w].seen
  IN /\ job[w].at \in {"precheck", "flip"} =>
          /\ r.target \in NextStatuses(seen.status)
          /\ \/ ~ RequiresPaymentBefore(seen.status, r.target)
             \/ ~ Prepaid(order.paymentMethod)
             \/ seen.paymentStatus = "PAID"
             \/ order.onCredit
     /\ job[w].at = "payFlip" => seen.status \in Open
     /\ job[w].at \in {"pay", "payFlip"} => order.paymentMethod = "BANK_TRANSFER" /\ ~ order.onCredit
     /\ job[w].at = "gateway" => order.paymentMethod = "ZALOPAY"
AllJudged == \A w \in Workers : Judged(w)

CreditIsTransfer == order.onCredit => order.paymentMethod = "BANK_TRANSFER"
PaidUpFront == Paid(order) => Prepaid(order.paymentMethod) /\ ~ order.onCredit
ApprovedIsReturned == returnRequest \in {"APPROVED", "RECEIVED"} => order.status = "RETURNED"
OpenOwesNothing == ~ ClosedOrder => books.refunds = 0 /\ books.held = "NONE"
HeldCashIsReturned == books.held # "NONE" /\ order.paymentMethod = "COD" => order.status = "RETURNED"

(* What the row and the books say of each other.                           *)
Settled ==
  /\ CreditIsTransfer /\ PaidUpFront /\ ApprovedIsReturned /\ OpenOwesNothing /\ HeldCashIsReturned
  /\ StockReleasedOnce /\ NoPaidMoneyKept /\ OneWayOut /\ UnpaidPrepaidHeld

IInv == TypeOK /\ AllJudged /\ Settled

(* How an order was placed never changes.                                  *)
PlacedColumns == << order.paymentMethod, order.type, order.onCredit, order.placedForCustomer,
                    order.fulfiller, order.recycling >>

LEMMA PlacedColumnsKept ==
  ASSUME TypeOK, [Next]_vars
  PROVE  UNCHANGED PlacedColumns
<1>0. order \in Order
  BY DEF TypeOK
<1>1. CASE UNCHANGED order
  BY <1>1 DEF PlacedColumns
<1>2. CASE \E h \in Handlers : GomdonReport(h)
  BY <1>0, <1>2 DEF GomdonReport, PlacedColumns, Order
<1>3. CASE \E w \in Workers : BlockAutoCancel(w) \/ MarkPaidWins(w) \/ GatewayFlip(w) \/ WaybillWrite(w) \/ PartialReturnMark(w)
  BY <1>0, <1>3 DEF BlockAutoCancel, MarkPaidWins, GatewayFlip, WaybillWrite, PartialReturnMark, PlacedColumns, Order
<1>4. CASE \E w \in Workers : FlipWins(w)
  BY <1>0, <1>4 DEF FlipWins, PlacedColumns, Order
<1>5. CASE \E w \in Workers : CustomerCancelTx(w)
  BY <1>0, <1>5 DEF CustomerCancelTx, PlacedColumns, Order
<1>6. CASE GomdonClaim \/ GomdonCreated \/ ApproveReturn \/ SettleHeld
  BY <1>0, <1>6 DEF GomdonClaim, GomdonCreated, ApproveReturn, SettleHeld, PlacedColumns, Order
<1>7. CASE \E h \in Handlers : Begin(h) /\ ~ GomdonReport(h)
  <2>1. UNCHANGED order
    BY <1>7 DEF Begin, StaffRequest, MerchantRequest, PancakeStatus, PancakeReturned, CustomerCancel, MarkPaid,
                GatewayPaid, WaybillRead, ReturnRequestRead, PartialReturnRead, OnlyJob
  <2>2. QED BY <2>1, <1>1
<1>8. CASE \E w \in Workers : \/ SetStatusRead(w) \/ PrecheckAgrees(w) \/ PrecheckUnreachable(w) \/ PrecheckHandedOver(w)
                              \/ FlipLoses(w) \/ MarkPaidRead(w) \/ MarkPaidLoses(w) \/ ReturnRequestCreate(w) \/ Crash(w)
  <2>1. UNCHANGED order
    BY <1>8 DEF SetStatusRead, PrecheckAgrees, PrecheckUnreachable, PrecheckHandedOver, FlipLoses, MarkPaidRead,
                MarkPaidLoses, ReturnRequestCreate, Crash, OnlyJob
  <2>2. QED BY <2>1, <1>1
<1>9. CASE ExpiryScan(Expiry) \/ RejectReturn \/ ReceiveReturn \/ UNCHANGED vars
  <2>1. UNCHANGED order
    BY <1>9 DEF ExpiryScan, RejectReturn, ReceiveReturn, vars, OnlyJob
  <2>2. QED BY <2>1, <1>1
<1>10. QED
  BY <1>2, <1>3, <1>4, <1>5, <1>6, <1>7, <1>8, <1>9 DEF Next, Continue, Statement

-----------------------------------------------------------------------------
(* What workers rely on is kept.                                           *)
LEMMA StartJob ==
  ASSUME job \in [Workers -> Job], NEW w \in Workers, NEW at, NEW req, NEW seen, Start(w, at, req, seen)
  PROVE  /\ job'[w].at = at /\ job'[w].req = req /\ job'[w].seen = seen
         /\ \A v \in Workers \ {w} : job'[v] = job[v]
BY DEF Start

LEMMA GoToJob ==
  ASSUME job \in [Workers -> Job], NEW w \in Workers, NEW at, NEW seen, GoTo(w, at, seen)
  PROVE  /\ job'[w].at = at /\ job'[w].req = job[w].req /\ job'[w].seen = seen
         /\ \A v \in Workers \ {w} : job'[v] = job[v]
BY DEF GoTo, Job

LEMMA StopJob ==
  ASSUME job \in [Workers -> Job], NEW w \in Workers, Stop(w)
  PROVE  job'[w].at = "idle" /\ \A v \in Workers \ {w} : job'[v] = job[v]
BY DEF Stop, Idle

LEMMA ReturnJob ==
  ASSUME job \in [Workers -> Job], NEW w \in Workers, NEW ok, Return(w, ok)
  PROVE  job'[w].at \in {"idle", "block"} /\ \A v \in Workers \ {w} : job'[v] = job[v]
<1>1. CASE Stop(w)
  BY <1>1, StopJob
<1>2. CASE Start(w, "block", NoRequest, NoSnapshot)
  BY <1>2, StartJob
<1>3. QED BY <1>1, <1>2 DEF Return

(* Stages at which a worker relies on nothing.                             *)
Relying == {"precheck", "flip", "pay", "payFlip", "gateway"}

LEMMA OneWorkerMoves ==
  ASSUME AllJudged, UNCHANGED PlacedColumns, NEW w \in Workers,
         \A v \in Workers \ {w} : job'[v] = job[v],
         job'[w].at \notin Relying \/ Judged(w)'
  PROVE  AllJudged'
<1>1. ASSUME NEW v \in Workers PROVE Judged(v)'
  <2>1. CASE v = w /\ Judged(w)'
    BY <2>1
  <2>2. CASE v = w /\ job'[w].at \notin Relying
    BY <2>2 DEF Judged, Relying
  <2>3. CASE v # w
    <3>1. job'[v] = job[v] /\ Judged(v)
      BY <2>3 DEF AllJudged
    <3>2. order'.paymentMethod = order.paymentMethod /\ order'.onCredit = order.onCredit
      BY DEF PlacedColumns
    <3>3. QED BY <3>1, <3>2 DEF Judged
  <2>4. QED BY <2>1, <2>2, <2>3
<1>2. QED BY <1>1 DEF AllJudged

LEMMA BeginJudged ==
  ASSUME IInv, UNCHANGED PlacedColumns, NEW h \in Handlers, Begin(h)
  PROVE  AllJudged'
<1>0. h \in Workers /\ job \in [Workers -> Job] /\ AllJudged /\ order \in Order
  BY HandlersWork DEF IInv, TypeOK
<1>p. order'.paymentMethod = order.paymentMethod /\ order'.onCredit = order.onCredit
  BY DEF PlacedColumns
<1>1. CASE \/ StaffRequest(h) \/ MerchantRequest(h) \/ PancakeStatus(h) \/ PancakeReturned(h) \/ GomdonReport(h)
  <2>1. \/ \E req : Start(h, "setStatus", req, NoSnapshot)
        \/ job' = job
    BY <1>1 DEF StaffRequest, MerchantRequest, PancakeStatus, PancakeReturned, GomdonReport
  <2>2. CASE \E req : Start(h, "setStatus", req, NoSnapshot)
    <3>1. job'[h].at = "setStatus" /\ \A v \in Workers \ {h} : job'[v] = job[v]
      BY <1>0, <2>2, StartJob
    <3>2. QED BY <1>0, <3>1, OneWorkerMoves DEF Relying
  <2>3. CASE job' = job
    BY <1>0, <1>p, <2>3 DEF AllJudged, Judged
  <2>4. QED BY <2>1, <2>2, <2>3
<1>2. CASE WaybillRead(h) \/ ReturnRequestRead(h) \/ PartialReturnRead(h)
  <2>1. \E at \in {"waybill", "returnCreate", "partialReturn"} : Start(h, at, NoRequest, NoSnapshot)
    BY <1>2 DEF WaybillRead, ReturnRequestRead, PartialReturnRead
  <2>2. job'[h].at \notin Relying /\ \A v \in Workers \ {h} : job'[v] = job[v]
    BY <1>0, <2>1, StartJob DEF Relying
  <2>3. QED BY <1>0, <2>2, OneWorkerMoves
<1>3. CASE CustomerCancel(h)
  <2>1. /\ job'[h].at = "precheck" /\ job'[h].req = Ask("CUSTOMER", "CANCELLED") /\ job'[h].seen = Snapshot
        /\ \A v \in Workers \ {h} : job'[v] = job[v]
    BY <1>0, <1>3, StartJob DEF CustomerCancel
  <2>2. job'[h].req.target = "CANCELLED" /\ job'[h].seen.status = order.status
    BY <2>1 DEF Ask, Snapshot
  <2>3. order.status \in {"PENDING_PAYMENT", "CONFIRMED", "PACKED"}
    BY <1>3 DEF CustomerCancel, CustomerMayCancel, CustomerCancellable
  <2>4. "CANCELLED" \in NextStatuses(order.status) /\ ~ RequiresPaymentBefore(order.status, "CANCELLED")
    BY <2>3 DEF NextStatuses, RequiresPaymentBefore, Closed
  <2>5. Judged(h)'
    BY <2>1, <2>2, <2>4 DEF Judged
  <2>6. QED BY <1>0, <2>1, <2>5, OneWorkerMoves
<1>4. CASE MarkPaid(h)
  <2>1. job'[h].at = "pay" /\ \A v \in Workers \ {h} : job'[v] = job[v]
    BY <1>0, <1>4, StartJob DEF MarkPaid
  <2>2. Judged(h)'
    BY <1>4, <1>p, <2>1 DEF Judged, MarkPaid
  <2>3. QED BY <1>0, <2>1, <2>2, OneWorkerMoves
<1>5. CASE GatewayPaid(h)
  <2>1. job'[h].at = "gateway" /\ \A v \in Workers \ {h} : job'[v] = job[v]
    BY <1>0, <1>5, StartJob DEF GatewayPaid
  <2>2. Judged(h)'
    BY <1>5, <1>p, <2>1 DEF Judged, GatewayPaid
  <2>3. QED BY <1>0, <2>1, <2>2, OneWorkerMoves
<1>6. QED BY <1>1, <1>2, <1>3, <1>4, <1>5 DEF Begin

LEMMA ContinueJudged ==
  ASSUME IInv, UNCHANGED PlacedColumns, NEW w \in Workers, Continue(w)
  PROVE  AllJudged'
<1>0. job \in [Workers -> Job] /\ AllJudged /\ Judged(w) /\ order \in Order
  BY DEF IInv, TypeOK, AllJudged
<1>p. order'.paymentMethod = order.paymentMethod /\ order'.onCredit = order.onCredit
  BY DEF PlacedColumns
<1>1. CASE SetStatusRead(w)
  <2> DEFINE r == job[w].req
  <2>1. \/ \E ok \in BOOLEAN : Return(w, ok)
        \/ GoTo(w, "block", NoSnapshot)
        \/ /\ ~ NothingToDo(order, r) /\ Allowed(order, r)
           /\ GoTo(w, "precheck", Snapshot) \/ GoTo(w, "flip", Snapshot)
    BY <1>1 DEF SetStatusRead
  <2>2. CASE \E ok \in BOOLEAN : Return(w, ok)
    <3>1. job'[w].at \notin Relying /\ \A v \in Workers \ {w} : job'[v] = job[v]
      BY <1>0, <2>2, ReturnJob DEF Relying
    <3>2. QED BY <1>0, <3>1, OneWorkerMoves
  <2>3. CASE GoTo(w, "block", NoSnapshot)
    <3>1. job'[w].at \notin Relying /\ \A v \in Workers \ {w} : job'[v] = job[v]
      BY <1>0, <2>3, GoToJob DEF Relying
    <3>2. QED BY <1>0, <3>1, OneWorkerMoves
  <2>4. CASE /\ ~ NothingToDo(order, r) /\ Allowed(order, r)
             /\ GoTo(w, "precheck", Snapshot) \/ GoTo(w, "flip", Snapshot)
    <3>1. /\ job'[w].at \in {"precheck", "flip"} /\ job'[w].req = r /\ job'[w].seen = Snapshot
          /\ \A v \in Workers \ {w} : job'[v] = job[v]
      BY <1>0, <2>4, GoToJob
    <3>2. job'[w].seen.status = order.status /\ job'[w].seen.paymentStatus = order.paymentStatus
      BY <3>1 DEF Snapshot
    <3>3. r.target \in NextStatuses(order.status) /\ PaidBeforeFulfilment(order, order.status, r.target)
      BY <2>4 DEF NothingToDo, Allowed, CanTransition
    <3>4. Judged(w)'
      BY <1>p, <3>1, <3>2, <3>3 DEF Judged, PaidBeforeFulfilment
    <3>5. QED BY <1>0, <3>1, <3>4, OneWorkerMoves
  <2>5. QED BY <2>1, <2>2, <2>3, <2>4
<1>2. CASE PrecheckAgrees(w) \/ PrecheckUnreachable(w)
  <2>0. job[w].at = "precheck"
    BY <1>2 DEF PrecheckAgrees, PrecheckUnreachable, At
  <2>1. Stop(w) \/ GoTo(w, "customerTx", job[w].seen) \/ GoTo(w, "flip", job[w].seen)
    BY <1>2 DEF PrecheckAgrees, PrecheckUnreachable, Proceed
  <2>2. CASE Stop(w)
    BY <1>0, <2>2, StopJob, OneWorkerMoves DEF Relying
  <2>3. CASE GoTo(w, "customerTx", job[w].seen)
    <3>1. job'[w].at = "customerTx" /\ \A v \in Workers \ {w} : job'[v] = job[v]
      BY <1>0, <2>3, GoToJob
    <3>2. QED BY <1>0, <3>1, OneWorkerMoves DEF Relying
  <2>4. CASE GoTo(w, "flip", job[w].seen)
    <3>1. /\ job'[w].at = "flip" /\ job'[w].req = job[w].req /\ job'[w].seen = job[w].seen
          /\ \A v \in Workers \ {w} : job'[v] = job[v]
      BY <1>0, <2>4, GoToJob
    <3>2. Judged(w)'
      BY <1>0, <1>p, <2>0, <3>1 DEF Judged
    <3>3. QED BY <1>0, <3>1, <3>2, OneWorkerMoves
  <2>5. QED BY <2>1, <2>2, <2>3, <2>4
<1>3. CASE PrecheckHandedOver(w)
  <2>1. Stop(w) \/ \E at \in {"setStatus", "block"} : \E req : Start(w, at, req, NoSnapshot)
    BY <1>3 DEF PrecheckHandedOver
  <2>2. CASE Stop(w)
    BY <1>0, <2>2, StopJob, OneWorkerMoves DEF Relying
  <2>3. CASE \E at \in {"setStatus", "block"} : \E req : Start(w, at, req, NoSnapshot)
    <3>1. job'[w].at \in {"setStatus", "block"} /\ \A v \in Workers \ {w} : job'[v] = job[v]
      BY <1>0, <2>3, StartJob
    <3>2. QED BY <1>0, <3>1, OneWorkerMoves DEF Relying
  <2>4. QED BY <2>1, <2>2, <2>3
<1>4. CASE FlipWins(w) \/ FlipLoses(w)
  <2>1. \E ok \in BOOLEAN : Return(w, ok)
    BY <1>4 DEF FlipWins, FlipLoses
  <2>2. job'[w].at \notin Relying /\ \A v \in Workers \ {w} : job'[v] = job[v]
    BY <1>0, <2>1, ReturnJob DEF Relying
  <2>3. QED BY <1>0, <2>2, OneWorkerMoves
<1>5. CASE MarkPaidRead(w)
  <2>1. CASE Stop(w)
    BY <1>0, <2>1, StopJob, OneWorkerMoves DEF Relying
  <2>2. CASE Payable(order) /\ GoTo(w, "payFlip", Snapshot)
    <3>1. /\ job'[w].at = "payFlip" /\ job'[w].seen = Snapshot
          /\ \A v \in Workers \ {w} : job'[v] = job[v]
      BY <1>0, <2>2, GoToJob
    <3>2. job'[w].seen.status \in Open
      BY <2>2, <3>1 DEF Snapshot, Payable
    <3>3. job[w].at = "pay"
      BY <1>5 DEF MarkPaidRead, At
    <3>4. Judged(w)'
      BY <1>0, <1>p, <3>1, <3>2, <3>3 DEF Judged
    <3>5. QED BY <1>0, <3>1, <3>4, OneWorkerMoves
  <2>3. QED BY <1>5, <2>1, <2>2 DEF MarkPaidRead
<1>6. CASE MarkPaidLoses(w)
  <2>1. CASE Stop(w)
    BY <1>0, <2>1, StopJob, OneWorkerMoves DEF Relying
  <2>2. CASE job' = [job EXCEPT ![w].at = "pay", ![w].seen = NoSnapshot, ![w].tries = @ + 1]
    <3>1. job'[w].at = "pay" /\ \A v \in Workers \ {w} : job'[v] = job[v]
      BY <1>0, <2>2 DEF Job
    <3>2. job[w].at = "payFlip"
      BY <1>6 DEF MarkPaidLoses, At
    <3>3. Judged(w)'
      BY <1>0, <1>p, <3>1, <3>2 DEF Judged
    <3>4. QED BY <1>0, <3>1, <3>3, OneWorkerMoves
  <2>3. QED BY <1>6, <2>1, <2>2 DEF MarkPaidLoses
<1>7. CASE \/ BlockAutoCancel(w) \/ CustomerCancelTx(w) \/ MarkPaidWins(w) \/ GatewayFlip(w)
           \/ WaybillWrite(w) \/ ReturnRequestCreate(w) \/ PartialReturnMark(w)
  <2>1. Stop(w)
    BY <1>7 DEF BlockAutoCancel, CustomerCancelTx, MarkPaidWins, GatewayFlip, WaybillWrite, ReturnRequestCreate, PartialReturnMark
  <2>2. QED BY <1>0, <2>1, StopJob, OneWorkerMoves DEF Relying
<1>8. QED BY <1>1, <1>2, <1>3, <1>4, <1>5, <1>6, <1>7 DEF Continue

LEMMA NextJudged ==
  ASSUME IInv, [Next]_vars
  PROVE  AllJudged'
<1>0. job \in [Workers -> Job] /\ AllJudged /\ UNCHANGED PlacedColumns
  BY PlacedColumnsKept DEF IInv, TypeOK
<1>1. CASE \E h \in Handlers : Begin(h)
  BY <1>0, <1>1, BeginJudged
<1>2. CASE \E w \in Workers : Continue(w)
  BY <1>0, <1>2, ContinueJudged
<1>3. CASE ExpiryScan(Expiry)
  <2>1. job'[Expiry].at = "setStatus" /\ \A v \in Workers \ {Expiry} : job'[v] = job[v]
    BY <1>0, <1>3, HandlersWork, StartJob DEF ExpiryScan
  <2>2. QED BY <1>0, <2>1, HandlersWork, OneWorkerMoves DEF Relying
<1>4. CASE \E w \in Workers : Crash(w)
  BY <1>0, <1>4, StopJob, OneWorkerMoves DEF Crash, Relying
<1>5. CASE Statement \/ UNCHANGED vars
  <2>1. job' = job
    BY <1>5 DEF Statement, GomdonClaim, GomdonCreated, RejectReturn, ApproveReturn, ReceiveReturn, SettleHeld, vars
  <2>2. order'.paymentMethod = order.paymentMethod /\ order'.onCredit = order.onCredit
    BY <1>0 DEF PlacedColumns
  <2>3. QED BY <1>0, <2>1, <2>2 DEF AllJudged, Judged
<1>6. QED BY <1>1, <1>2, <1>3, <1>4, <1>5 DEF Next

-----------------------------------------------------------------------------
(* What the row and the books say of each other is kept.                   *)

(* A step that changes no status, no money and no return keeps it.         *)
LEMMA QuietStep ==
  ASSUME Settled, UNCHANGED << PlacedColumns, order.status, order.paymentStatus, returnRequest, books >>
  PROVE  Settled'
BY DEF Settled, PlacedColumns, CreditIsTransfer, PaidUpFront, ApprovedIsReturned, OpenOwesNothing, HeldCashIsReturned,
       StockReleasedOnce, NoPaidMoneyKept, OneWayOut, UnpaidPrepaidHeld, ClosedOrder, Paid, PaidBeforeFulfilment

(* A step to an open status with its money in place keeps it.              *)
LEMMA OpenStep ==
  ASSUME Settled, ~ ClosedOrder, UNCHANGED << PlacedColumns, returnRequest, books >>,
         order'.status \in Open,
         order'.paymentStatus = "REFUNDED" => order.paymentStatus = "REFUNDED",
         PaidUpFront', UnpaidPrepaidHeld'
  PROVE  Settled'
<1>1. ~ ClosedOrder'
  BY DEF ClosedOrder, Open, Closed
<1>2. returnRequest \notin {"APPROVED", "RECEIVED"}
  BY DEF Settled, ApprovedIsReturned, ClosedOrder, Closed
<1>3. books.stock = 0 /\ books.refunds = 0 /\ books.held = "NONE"
  BY DEF Settled, StockReleasedOnce, OpenOwesNothing
<1>4. order.paymentStatus # "REFUNDED"
  BY <1>3 DEF Settled, OneWayOut
<1>5. CreditIsTransfer'
  BY DEF Settled, CreditIsTransfer, PlacedColumns
<1>6. ApprovedIsReturned' /\ OpenOwesNothing' /\ HeldCashIsReturned' /\ StockReleasedOnce' /\ NoPaidMoneyKept'
  BY <1>1, <1>2, <1>3 DEF ApprovedIsReturned, OpenOwesNothing, HeldCashIsReturned, StockReleasedOnce, NoPaidMoneyKept
<1>7. OneWayOut'
  BY <1>3, <1>4 DEF OneWayOut
<1>8. QED BY <1>5, <1>6, <1>7 DEF Settled

(* The table of transitions: closed is final, delivery is only followed by *)
(* a return, and nothing comes before the first status.                    *)
LEMMA NextStatusesFacts ==
  /\ \A s \in Closed : NextStatuses(s) = {}
  /\ NextStatuses("DELIVERED") = {"RETURNED"}
  /\ \A s \in Open : "PENDING_PAYMENT" \notin NextStatuses(s)
<1>1. \A s \in Closed : NextStatuses(s) = {}
  BY DEF NextStatuses, Closed
<1>2. NextStatuses("DELIVERED") = {"RETURNED"}
  BY DEF NextStatuses, Closed
<1>3. ASSUME NEW s \in Open PROVE "PENDING_PAYMENT" \notin NextStatuses(s)
  BY DEF NextStatuses, ForwardChain, Open, Closed
<1>4. QED BY <1>1, <1>2, <1>3

(* Closing an order settles it: goods and money go back once, one way.     *)
LEMMA ClosingStep ==
  ASSUME TypeOK, Settled,
         NEW to \in Closed, NEW restocks \in BOOLEAN, NEW cod \in BOOLEAN, NEW prepaid \in BOOLEAN,
         to \in NextStatuses(order.status),
         cod => order.paymentMethod = "COD" /\ order.status = "DELIVERED",
         prepaid => Prepaid(order.paymentMethod) /\ Paid(order),
         UNCHANGED PlacedColumns,
         order'.status = to, order'.paymentStatus = PaymentAfterReversal(cod, prepaid),
         books' = ReverseFinancials(restocks, cod, prepaid),
         \/ restocks /\ returnRequest' = returnRequest
         \/ ~ restocks /\ returnRequest' = "APPROVED" /\ to = "RETURNED"
  PROVE  Settled'
<1>1. ~ ClosedOrder
  BY NextStatusesFacts DEF ClosedOrder
<1>2. ClosedOrder'
  BY DEF ClosedOrder
<1>3. returnRequest \notin {"APPROVED", "RECEIVED"}
  BY <1>1 DEF Settled, ApprovedIsReturned, ClosedOrder, Closed
<1>4. books.stock = 0 /\ books.refunds = 0 /\ books.held = "NONE" /\ order.paymentStatus # "REFUNDED"
  BY <1>1 DEF Settled, StockReleasedOnce, OpenOwesNothing, OneWayOut
<1>5. order'.paymentMethod = order.paymentMethod /\ order'.onCredit = order.onCredit
  BY DEF PlacedColumns
<1>6. order.status = "DELIVERED" => to = "RETURNED"
  BY NextStatusesFacts
<1>7. Paid(order) => Prepaid(order.paymentMethod) /\ ~ order.onCredit
  BY DEF Settled, PaidUpFront
<1>8. order.onCredit => order.paymentMethod = "BANK_TRANSFER"
  BY DEF Settled, CreditIsTransfer
<1> DEFINE pays == GivesMoneyBack(order, cod, prepaid)
<1>9. /\ books'.stock = IF restocks THEN 1 ELSE 0
      /\ books'.refunds = IF pays /\ ~ order.onCredit THEN 1 ELSE 0
      /\ books'.held = IF cod \/ prepaid THEN "UNVERIFIED" ELSE "NONE"
      /\ order'.paymentStatus = IF pays THEN "REFUNDED" ELSE order.paymentStatus
  BY <1>4 DEF ReverseFinancials, PaymentAfterReversal
<1>10. pays => ~ cod /\ ~ prepaid /\ ~ order.onCredit
  BY <1>7, <1>8 DEF GivesMoneyBack, Prepaid, Paid
<1>11. pays /\ order.paymentMethod = "COD" => to = "RETURNED"
  BY <1>6 DEF GivesMoneyBack, Prepaid
<1>12. Paid(order) /\ ~ pays => prepaid
  BY <1>7 DEF GivesMoneyBack, Paid
<1> HIDE DEF pays
<1>13. CreditIsTransfer' /\ PaidUpFront'
  BY <1>5, <1>7, <1>8, <1>9 DEF CreditIsTransfer, PaidUpFront, Paid
<1>14. ApprovedIsReturned' /\ StockReleasedOnce'
  BY <1>2, <1>3, <1>9 DEF ApprovedIsReturned, StockReleasedOnce
<1>15. OpenOwesNothing' /\ UnpaidPrepaidHeld'
  BY <1>2 DEF OpenOwesNothing, UnpaidPrepaidHeld, ClosedOrder, Closed
<1>16. HeldCashIsReturned'
  BY <1>5, <1>6, <1>9 DEF HeldCashIsReturned, Prepaid
<1>17. NoPaidMoneyKept'
  BY <1>9, <1>12 DEF NoPaidMoneyKept, Paid
<1>18. OneWayOut'
  BY <1>2, <1>4, <1>5, <1>9, <1>10, <1>11 DEF OneWayOut
<1>19. QED BY <1>13, <1>14, <1>15, <1>16, <1>17, <1>18 DEF Settled

LEMMA FlipWinsSettled ==
  ASSUME IInv, UNCHANGED PlacedColumns, NEW w \in Workers, FlipWins(w)
  PROVE  Settled'
<1> DEFINE r == job[w].req
           seen == job[w].seen
           closes == r.target \in Closed
           cod == closes /\ WithholdsCod(order, r)
           prepaid == closes /\ WithholdsPrepaid(order, r)
<1>0. TypeOK /\ Settled /\ Judged(w) /\ job[w].at = "flip" /\ order.status = seen.status
  BY DEF IInv, AllJudged, FlipWins, At, FlipMatches
<1>1. r.target \in NextStatuses(order.status) /\ r.target \in OrderStatus /\ order.status \in OrderStatus
  BY <1>0, JobFields DEF Judged, TypeOK, Order
<1>2. /\ order'.status = r.target
      /\ order'.paymentStatus = IF closes THEN PaymentAfterReversal(cod, prepaid) ELSE order.paymentStatus
      /\ books' = IF closes THEN ReverseFinancials(TRUE, cod, prepaid) ELSE books
      /\ returnRequest' = returnRequest
  BY <1>0 DEF FlipWins, TypeOK, Order
<1>3. CASE closes
  <2>1. cod => order.paymentMethod = "COD" /\ order.status = "DELIVERED"
    BY DEF WithholdsCod
  <2>2. prepaid => Prepaid(order.paymentMethod) /\ Paid(order)
    BY DEF WithholdsPrepaid, Paid
  <2>3. cod \in BOOLEAN /\ prepaid \in BOOLEAN
    OBVIOUS
  <2> HIDE DEF cod, prepaid
  <2>4. QED BY <1>0, <1>1, <1>2, <1>3, <2>1, <2>2, <2>3, ClosingStep
<1>4. CASE ~ closes
  <2>1. order.status \in Open /\ ~ ClosedOrder
    BY <1>1, NextStatusesFacts DEF OrderStatus, ClosedOrder
  <2>2. r.target \in Open \ {"PENDING_PAYMENT"} /\ r.target # "CANCELLED"
    BY <1>1, <1>4, <2>1, NextStatusesFacts DEF OrderStatus, Closed
  <2>3. order'.paymentMethod = order.paymentMethod /\ order'.onCredit = order.onCredit
    BY DEF PlacedColumns
  <2>4. ~ Prepaid(order.paymentMethod) \/ order.paymentStatus = "PAID" \/ order.onCredit
    <3>1. CASE ~ RequiresPaymentBefore(order.status, r.target)
      <4>1. order.status \in {"CONFIRMED", "PACKED", "SHIPPING", "DELIVERED"}
        BY <2>1, <2>2, <3>1 DEF RequiresPaymentBefore, Open
      <4>2. QED BY <1>0, <4>1 DEF Settled, UnpaidPrepaidHeld, PaidBeforeFulfilment, RequiresPaymentBefore
    <3>2. CASE seen.paymentStatus = "PAID" /\ RequiresPaymentBefore(order.status, r.target)
      BY <1>0, <3>2 DEF FlipWins, FlipMatches
    <3>3. QED BY <1>0, <3>1, <3>2 DEF Judged
  <2>5. PaidUpFront' /\ UnpaidPrepaidHeld'
    BY <1>0, <1>2, <1>4, <2>3, <2>4 DEF Settled, PaidUpFront, Paid, UnpaidPrepaidHeld, PaidBeforeFulfilment
  <2>6. QED BY <1>0, <1>2, <1>4, <2>1, <2>2, <2>5, OpenStep
<1>5. QED BY <1>3, <1>4

LEMMA PaymentSettled ==
  ASSUME IInv, UNCHANGED PlacedColumns, NEW w \in Workers, MarkPaidWins(w) \/ GatewayFlip(w)
  PROVE  Settled'
<1>0. TypeOK /\ Settled /\ Judged(w) /\ order \in Order
  BY DEF IInv, AllJudged, TypeOK
<1>1. UNCHANGED << returnRequest, books >>
  BY DEF MarkPaidWins, GatewayFlip
<1>2. CASE UNCHANGED order
  BY <1>0, <1>1, <1>2, QuietStep
<1>3. CASE ~ UNCHANGED order
  <2>1. /\ Prepaid(order.paymentMethod) /\ ~ order.onCredit
    BY <1>0 DEF Judged, MarkPaidWins, GatewayFlip, At, Prepaid, Settled, CreditIsTransfer
  <2>2. order.status \in Open /\ order'.status \in Open /\ order'.paymentStatus = "PAID"
    <3>1. CASE MarkPaidWins(w)
      BY <1>0, <3>1 DEF Judged, MarkPaidWins, At, PayFlipMatches, AfterPayment, Order, Open
    <3>2. CASE GatewayFlip(w)
      BY <1>0, <1>3, <3>2 DEF GatewayFlip, Payable, Order, Open
    <3>3. QED BY <3>1, <3>2
  <2>3. ~ ClosedOrder
    BY <2>2 DEF ClosedOrder, Open, Closed
  <2>4. PaidUpFront' /\ UnpaidPrepaidHeld'
    BY <2>1, <2>2 DEF PaidUpFront, Paid, UnpaidPrepaidHeld, PaidBeforeFulfilment, PlacedColumns
  <2>5. QED BY <1>0, <1>1, <2>2, <2>3, <2>4, OpenStep
<1>4. QED BY <1>2, <1>3

LEMMA CustomerCancelSettled ==
  ASSUME IInv, UNCHANGED PlacedColumns, NEW w \in Workers, CustomerCancelTx(w)
  PROVE  Settled'
<1>0. TypeOK /\ Settled /\ order \in Order
  BY DEF IInv, TypeOK
<1>1. CASE CustomerMayCancel(order) /\ ~ UNCHANGED << order, books >>
  <2>1. order.status \in {"PENDING_PAYMENT", "CONFIRMED", "PACKED"}
    BY <1>1 DEF CustomerMayCancel, CustomerCancellable
  <2>2. "CANCELLED" \in NextStatuses(order.status)
    BY <2>1 DEF NextStatuses, Closed
  <2>3. /\ order'.status = "CANCELLED" /\ order'.paymentStatus = PaymentAfterReversal(FALSE, FALSE)
        /\ books' = ReverseFinancials(TRUE, FALSE, FALSE) /\ returnRequest' = returnRequest
    BY <1>0, <1>1 DEF CustomerCancelTx, Order
  <2>4. "CANCELLED" \in Closed
    BY DEF Closed
  <2>5. QED BY <1>0, <2>2, <2>3, <2>4, ClosingStep
<1>2. CASE UNCHANGED << order, books >>
  BY <1>0, <1>2, QuietStep DEF CustomerCancelTx
<1>3. QED BY <1>1, <1>2 DEF CustomerCancelTx

LEMMA StatementSettled ==
  ASSUME IInv, UNCHANGED PlacedColumns, Statement
  PROVE  Settled'
<1>0. TypeOK /\ Settled /\ order \in Order /\ books \in [stock : Nat, refunds : Nat, held : {"NONE", "UNVERIFIED", "SETTLED"}]
  BY DEF IInv, TypeOK
<1>p. order'.paymentMethod = order.paymentMethod /\ order'.onCredit = order.onCredit
  BY DEF PlacedColumns
<1>1. CASE GomdonClaim \/ GomdonCreated
  BY <1>0, <1>1, QuietStep DEF GomdonClaim, GomdonCreated, Order
<1>2. CASE RejectReturn
  BY <1>0, <1>2 DEF RejectReturn, Settled, CreditIsTransfer, PaidUpFront, ApprovedIsReturned, OpenOwesNothing,
     HeldCashIsReturned, StockReleasedOnce, NoPaidMoneyKept, OneWayOut, UnpaidPrepaidHeld, ClosedOrder, Paid
<1>3. CASE ApproveReturn
  <2>1. /\ order'.status = "RETURNED" /\ order'.paymentStatus = PaymentAfterReversal(FALSE, FALSE)
        /\ books' = ReverseFinancials(FALSE, FALSE, FALSE) /\ returnRequest' = "APPROVED"
        /\ order.status = "DELIVERED"
    BY <1>0, <1>3 DEF ApproveReturn, Order
  <2>2. "RETURNED" \in Closed /\ "RETURNED" \in NextStatuses(order.status)
    BY <2>1, NextStatusesFacts DEF Closed
  <2>3. QED BY <1>0, <2>1, <2>2, ClosingStep
<1>4. CASE ReceiveReturn
  <2>1. ClosedOrder /\ books.stock = 0
    BY <1>0, <1>4 DEF ReceiveReturn, Settled, ApprovedIsReturned, StockReleasedOnce, ClosedOrder, Closed
  <2>2. books'.stock = 1 /\ books'.refunds = books.refunds /\ books'.held = books.held /\ order' = order
    BY <1>0, <1>4, <2>1 DEF ReceiveReturn
  <2>3. ApprovedIsReturned' /\ StockReleasedOnce'
    BY <1>0, <1>4, <2>1, <2>2 DEF ReceiveReturn, Settled, ApprovedIsReturned, StockReleasedOnce, ClosedOrder
  <2>4. CreditIsTransfer' /\ PaidUpFront' /\ UnpaidPrepaidHeld'
    BY <1>0, <2>2 DEF Settled, CreditIsTransfer, PaidUpFront, UnpaidPrepaidHeld, Paid
  <2>5. OpenOwesNothing' /\ HeldCashIsReturned' /\ NoPaidMoneyKept' /\ OneWayOut'
    BY <1>0, <2>2 DEF Settled, OpenOwesNothing, HeldCashIsReturned, NoPaidMoneyKept, OneWayOut, ClosedOrder, Paid
  <2>6. QED BY <2>3, <2>4, <2>5 DEF Settled
<1>5. CASE SettleHeld
  <2>1. PICK confirmed \in {0, 1} : books' = [books EXCEPT !.held = "SETTLED", !.refunds = @ + confirmed]
    BY <1>5 DEF SettleHeld
  <2>2. ClosedOrder /\ books.refunds = 0
    BY <1>0, <1>5 DEF SettleHeld, Settled, OpenOwesNothing, OneWayOut
  <2>3. books'.stock = books.stock /\ books'.refunds = confirmed /\ books'.held = "SETTLED"
    BY <1>0, <2>1, <2>2
  <2>4. /\ order'.status = order.status /\ returnRequest' = returnRequest
        /\ order'.paymentStatus = IF Paid(order) THEN "REFUNDED" ELSE order.paymentStatus
    BY <1>0, <1>5 DEF SettleHeld, Order, Settled, PaidUpFront, Paid
  <2>5. ClosedOrder' /\ ~ Paid(order)'
    BY <2>2, <2>4 DEF ClosedOrder, Paid
  <2>6. CreditIsTransfer' /\ PaidUpFront' /\ OpenOwesNothing' /\ NoPaidMoneyKept'
    BY <1>0, <1>p, <2>5 DEF Settled, CreditIsTransfer, PaidUpFront, OpenOwesNothing, NoPaidMoneyKept
  <2>7. ApprovedIsReturned' /\ StockReleasedOnce' /\ HeldCashIsReturned'
    BY <1>0, <1>5, <1>p, <2>2, <2>3, <2>4, <2>5
       DEF Settled, ApprovedIsReturned, StockReleasedOnce, HeldCashIsReturned, SettleHeld
  <2>8. OneWayOut'
    BY <1>0, <1>5, <1>p, <2>3, <2>4, <2>5 DEF Settled, OneWayOut, HeldCashIsReturned, SettleHeld
  <2>9. UnpaidPrepaidHeld'
    BY <2>5 DEF UnpaidPrepaidHeld, ClosedOrder, Closed
  <2>10. QED BY <2>6, <2>7, <2>8, <2>9 DEF Settled
<1>6. QED BY <1>1, <1>2, <1>3, <1>4, <1>5 DEF Statement

(* What a worker reads when it begins changes nothing that settles.        *)
LEMMA BeginQuiet ==
  ASSUME order \in Order, NEW h \in Handlers, Begin(h)
  PROVE  UNCHANGED << order.status, order.paymentStatus, returnRequest, books >>
<1>1. CASE GomdonReport(h)
  BY <1>1 DEF GomdonReport, Order
<1>2. CASE \/ StaffRequest(h) \/ MerchantRequest(h) \/ PancakeStatus(h) \/ PancakeReturned(h)
  BY <1>2 DEF StaffRequest, MerchantRequest, PancakeStatus, PancakeReturned, OnlyJob
<1>3. CASE \/ CustomerCancel(h) \/ MarkPaid(h) \/ GatewayPaid(h)
           \/ WaybillRead(h) \/ ReturnRequestRead(h) \/ PartialReturnRead(h)
  BY <1>3 DEF CustomerCancel, MarkPaid, GatewayPaid, WaybillRead, ReturnRequestRead, PartialReturnRead, OnlyJob
<1>4. QED BY <1>1, <1>2, <1>3 DEF Begin

LEMMA NextSettled ==
  ASSUME IInv, [Next]_vars
  PROVE  Settled'
<1>0. TypeOK /\ Settled /\ UNCHANGED PlacedColumns /\ order \in Order
  BY PlacedColumnsKept DEF IInv, TypeOK
<1>1. CASE \E h \in Handlers : Begin(h)
  <2>1. UNCHANGED << order.status, order.paymentStatus, returnRequest, books >>
    BY <1>0, <1>1, BeginQuiet
  <2>2. QED BY <1>0, <2>1, QuietStep
<1>2. CASE \E w \in Workers : Continue(w)
  <2>1. PICK w \in Workers : Continue(w)
    BY <1>2
  <2>2. CASE FlipWins(w)
    BY <1>0, <2>2, FlipWinsSettled
  <2>3. CASE MarkPaidWins(w) \/ GatewayFlip(w)
    BY <1>0, <2>3, PaymentSettled
  <2>4. CASE CustomerCancelTx(w)
    BY <1>0, <2>4, CustomerCancelSettled
  <2>5. CASE ReturnRequestCreate(w)
    BY <1>0, <2>5 DEF ReturnRequestCreate, Settled, CreditIsTransfer, PaidUpFront, ApprovedIsReturned, OpenOwesNothing,
       HeldCashIsReturned, StockReleasedOnce, NoPaidMoneyKept, OneWayOut, UnpaidPrepaidHeld, ClosedOrder, Paid
  <2>6. CASE \/ SetStatusRead(w) \/ PrecheckAgrees(w) \/ PrecheckUnreachable(w) \/ PrecheckHandedOver(w)
             \/ BlockAutoCancel(w) \/ FlipLoses(w) \/ MarkPaidRead(w) \/ MarkPaidLoses(w)
             \/ WaybillWrite(w) \/ PartialReturnMark(w)
    <3>1. UNCHANGED << order.status, order.paymentStatus, returnRequest, books >>
      BY <1>0, <2>6 DEF SetStatusRead, PrecheckAgrees, PrecheckUnreachable, PrecheckHandedOver, BlockAutoCancel, FlipLoses,
         MarkPaidRead, MarkPaidLoses, WaybillWrite, PartialReturnMark, OnlyJob, Order
    <3>2. QED BY <1>0, <3>1, QuietStep
  <2>7. QED BY <2>1, <2>2, <2>3, <2>4, <2>5, <2>6 DEF Continue
<1>3. CASE ExpiryScan(Expiry) \/ (\E w \in Workers : Crash(w)) \/ UNCHANGED vars
  <2>1. UNCHANGED << order, returnRequest, books >>
    BY <1>3 DEF ExpiryScan, Crash, vars, OnlyJob
  <2>2. QED BY <1>0, <2>1, QuietStep
<1>4. CASE Statement
  BY <1>0, <1>4, StatementSettled
<1>5. QED BY <1>1, <1>2, <1>3, <1>4 DEF Next

LEMMA InitInv == Init => IInv
<1> SUFFICES ASSUME Init PROVE IInv
  OBVIOUS
<1>1. TypeOK
  BY InitType
<1>2. AllJudged
  BY DEF Init, AllJudged, Judged, Idle
<1>3. PICK k \in OrderKinds : order = Placed(k)
  BY DEF Init
<1>4. /\ k \in Kind
      /\ k.type = "DEALER" => k.paymentMethod = "BANK_TRANSFER"
      /\ k.onCredit => k.type = "DEALER"
  BY KindsAssumption
<1>5. CreditIsTransfer
  BY <1>3, <1>4 DEF CreditIsTransfer, Placed
<1>6. PaidUpFront
  BY <1>3, <1>4 DEF PaidUpFront, Paid, Placed, Prepaid
<1>7. order.status \in {"PENDING_PAYMENT", "CONFIRMED"} /\ order.paymentStatus \in {"UNPAID", "PAID"} /\ ~ ClosedOrder
  BY <1>3 DEF Placed, ClosedOrder, Closed
<1>8. returnRequest = "NONE" /\ books.stock = 0 /\ books.refunds = 0 /\ books.held = "NONE"
  BY DEF Init
<1>9. ApprovedIsReturned /\ OpenOwesNothing /\ HeldCashIsReturned /\ StockReleasedOnce /\ NoPaidMoneyKept /\ OneWayOut
  BY <1>7, <1>8 DEF ApprovedIsReturned, OpenOwesNothing, HeldCashIsReturned, StockReleasedOnce, NoPaidMoneyKept, OneWayOut
<1>10. UnpaidPrepaidHeld
  BY <1>3, <1>4 DEF UnpaidPrepaidHeld, PaidBeforeFulfilment, Placed, Prepaid
<1>11. QED BY <1>1, <1>2, <1>5, <1>6, <1>9, <1>10 DEF IInv, Settled

(* The inductive invariant holds in every reachable state.                 *)
THEOREM Inductive == Spec => []IInv
<1>1. IInv /\ [Next]_vars => IInv'
  BY NextType, NextJudged, NextSettled DEF IInv
<1>2. QED BY InitInv, <1>1, PTL DEF Spec

-----------------------------------------------------------------------------
(* The properties.                                                         *)

(* Stock goes back exactly once for a closed order, whoever races to close *)
(* it, and only with the goods when a return was approved.                 *)
THEOREM StockIsReleasedOnce == Spec => []StockReleasedOnce
<1>1. IInv => StockReleasedOnce
  BY DEF IInv, Settled
<1>2. QED BY Inductive, <1>1, PTL

(* No closed order keeps a customer's money.                               *)
THEOREM MoneyIsNotKept == Spec => []NoPaidMoneyKept
<1>1. IInv => NoPaidMoneyKept
  BY DEF IInv, Settled
<1>2. QED BY Inductive, <1>1, PTL

(* Money goes back at most one way, and only where some was received.      *)
THEOREM MoneyGoesOneWay == Spec => []OneWayOut
<1>1. IInv => OneWayOut
  BY DEF IInv, Settled
<1>2. QED BY Inductive, <1>1, PTL

(* Nothing leaves unpaid unless it is cash on delivery or dealer credit.   *)
THEOREM UnpaidStays == Spec => []UnpaidPrepaidHeld
<1>1. IInv => UnpaidPrepaidHeld
  BY DEF IInv, Settled
<1>2. QED BY Inductive, <1>1, PTL

(* A step that changes the status or the payment is one of six.            *)
LEMMA StatusSteps ==
  ASSUME IInv, [Next]_vars
  PROVE  \/ UNCHANGED << order.status, order.paymentStatus >>
         \/ \E w \in Workers : FlipWins(w) \/ MarkPaidWins(w) \/ GatewayFlip(w) \/ CustomerCancelTx(w)
         \/ ApproveReturn \/ SettleHeld
<1>0. order \in Order
  BY DEF IInv, TypeOK
<1>1. CASE \E h \in Handlers : Begin(h)
  BY <1>0, <1>1, BeginQuiet
<1>2. CASE \E w \in Workers : \/ SetStatusRead(w) \/ PrecheckAgrees(w) \/ PrecheckUnreachable(w) \/ PrecheckHandedOver(w)
                              \/ BlockAutoCancel(w) \/ FlipLoses(w) \/ MarkPaidRead(w) \/ MarkPaidLoses(w)
                              \/ WaybillWrite(w) \/ PartialReturnMark(w) \/ ReturnRequestCreate(w) \/ Crash(w)
  BY <1>0, <1>2 DEF SetStatusRead, PrecheckAgrees, PrecheckUnreachable, PrecheckHandedOver, BlockAutoCancel, FlipLoses,
     MarkPaidRead, MarkPaidLoses, WaybillWrite, PartialReturnMark, ReturnRequestCreate, Crash, OnlyJob, Order
<1>3. CASE ExpiryScan(Expiry) \/ GomdonClaim \/ GomdonCreated \/ RejectReturn \/ ReceiveReturn \/ UNCHANGED vars
  BY <1>0, <1>3 DEF ExpiryScan, GomdonClaim, GomdonCreated, RejectReturn, ReceiveReturn, vars, OnlyJob, Order
<1>4. QED BY <1>1, <1>2, <1>3 DEF Next, Continue, Statement

(* What each of them does to an order.                                     *)
LEMMA FlipWinsMoves ==
  ASSUME IInv, NEW w \in Workers, FlipWins(w)
  PROVE  order.status \in Open /\ order'.status \in NextStatuses(order.status)
<1>0. Judged(w) /\ job[w].at = "flip" /\ order \in Order /\ order.status = job[w].seen.status
  BY DEF IInv, AllJudged, FlipWins, At, FlipMatches, TypeOK
<1>1. order'.status = job[w].req.target
  BY <1>0 DEF FlipWins, Order
<1>2. order.status \in OrderStatus
  BY <1>0 DEF Order
<1>3. QED BY <1>0, <1>1, <1>2, NextStatusesFacts DEF Judged, OrderStatus

LEMMA CustomerCancelMoves ==
  ASSUME IInv, NEW w \in Workers, CustomerCancelTx(w)
  PROVE  \/ UNCHANGED order
         \/ order.status \in Open /\ order'.status \in NextStatuses(order.status)
<1>1. CASE CustomerMayCancel(order) /\ ~ UNCHANGED << order, books >>
  <2>1. order.status \in {"PENDING_PAYMENT", "CONFIRMED", "PACKED"}
    BY <1>1 DEF CustomerMayCancel, CustomerCancellable
  <2>2. order'.status = "CANCELLED"
    BY <1>1 DEF CustomerCancelTx, IInv, TypeOK, Order
  <2>3. QED BY <2>1, <2>2 DEF NextStatuses, Open, Closed
<1>2. QED BY <1>1 DEF CustomerCancelTx

LEMMA PaymentMoves ==
  ASSUME IInv, NEW w \in Workers, MarkPaidWins(w) \/ GatewayFlip(w)
  PROVE  \/ UNCHANGED order
         \/ order.status \in Open /\ order'.status \in {order.status, AfterPayment(order.status)}
<1>0. Judged(w) /\ order \in Order /\ Settled
  BY DEF IInv, AllJudged, TypeOK
<1>1. CASE MarkPaidWins(w)
  BY <1>0, <1>1 DEF MarkPaidWins, PayFlipMatches, Judged, At, Order
<1>2. CASE GatewayFlip(w) /\ ~ UNCHANGED order
  <2>1. /\ order.paymentMethod = "ZALOPAY" /\ order.paymentStatus = "UNPAID" /\ order.status \in Open
        /\ order'.status = IF job[w].seen.status = "PENDING_PAYMENT" THEN "CONFIRMED" ELSE order.status
    BY <1>0, <1>2 DEF GatewayFlip, Judged, At, Payable, Order
  <2>2. order.status = "PENDING_PAYMENT"
    BY <1>0, <2>1 DEF Settled, UnpaidPrepaidHeld, PaidBeforeFulfilment, RequiresPaymentBefore, Prepaid, CreditIsTransfer, Open
  <2>3. QED BY <2>1, <2>2 DEF AfterPayment
<1>3. QED BY <1>1, <1>2

(* A status only moves along the table, whatever stale read a writer       *)
(* started from.                                                           *)
THEOREM StatusMovesForward == Spec => StatusOnlyMovesForward
<1>1. ASSUME IInv, [Next]_vars PROVE CanTransition(order.status, order'.status)
  <2>1. CASE UNCHANGED order.status
    BY <2>1 DEF CanTransition
  <2>2. CASE \E w \in Workers : FlipWins(w)
    BY <1>1, <2>2, FlipWinsMoves DEF CanTransition
  <2>3. CASE \E w \in Workers : CustomerCancelTx(w)
    BY <1>1, <2>3, CustomerCancelMoves DEF CanTransition
  <2>4. CASE \E w \in Workers : MarkPaidWins(w) \/ GatewayFlip(w)
    <3>1. "CONFIRMED" \in NextStatuses("PENDING_PAYMENT")
      BY DEF NextStatuses, ForwardChain, Open, Closed
    <3>2. QED BY <1>1, <2>4, <3>1, PaymentMoves DEF CanTransition, AfterPayment
  <2>5. CASE ApproveReturn
    <3>1. order.status = "DELIVERED" /\ order'.status = "RETURNED"
      BY <1>1, <2>5 DEF ApproveReturn, IInv, TypeOK, Order
    <3>2. QED BY <3>1, NextStatusesFacts DEF CanTransition
  <2>6. CASE SettleHeld
    BY <1>1, <2>1, <2>6 DEF SettleHeld, IInv, TypeOK, Order
  <2>7. QED BY <1>1, <2>1, <2>2, <2>3, <2>4, <2>5, <2>6, StatusSteps
<1>2. IInv /\ [Next]_vars => [CanTransition(order.status, order'.status)]_vars
  BY <1>1
<1>3. QED BY Inductive, <1>2, PTL DEF Spec, StatusOnlyMovesForward

(* A closed order never comes back to life and is never paid again; only   *)
(* money it holds may become refunded.                                     *)
THEOREM ClosedStaysFrozen == Spec => ClosedIsFrozen
<1> DEFINE Frozen == ClosedOrder =>
              /\ order'.status = order.status
              /\ order'.paymentStatus # order.paymentStatus => Paid(order) /\ order'.paymentStatus = "REFUNDED"
<1>1. ASSUME IInv, [Next]_vars, ClosedOrder PROVE Frozen
  <2>0. order.status \notin Open
    BY <1>1 DEF ClosedOrder, Open, Closed
  <2>1. CASE UNCHANGED << order.status, order.paymentStatus >>
    BY <2>1
  <2>2. CASE \E w \in Workers : FlipWins(w) \/ MarkPaidWins(w) \/ GatewayFlip(w) \/ CustomerCancelTx(w)
    <3>1. UNCHANGED order
      BY <1>1, <2>0, <2>2, FlipWinsMoves, PaymentMoves, CustomerCancelMoves
    <3>2. QED BY <3>1
  <2>3. CASE ApproveReturn
    BY <1>1, <2>0, <2>3 DEF ApproveReturn, Open
  <2>4. CASE SettleHeld
    BY <1>1, <2>4 DEF SettleHeld, IInv, TypeOK, Order, Paid
  <2>5. QED BY <1>1, <2>1, <2>2, <2>3, <2>4, StatusSteps
<1>2. IInv /\ [Next]_vars => [Frozen]_vars
  BY <1>1
<1>3. QED BY Inductive, <1>2, PTL DEF Spec, ClosedIsFrozen

-----------------------------------------------------------------------------
(* Who may cancel. These facts are about the workers' copies alone.        *)
Careful(w) ==
  LET r == job[w].req
      seen == job[w].seen
      cancels == job[w].at \in {"precheck", "flip"} /\ r.target = "CANCELLED"
  IN /\ cancels /\ ~ r.returned => ~ HandedOver(seen, r.actor = "PANCAKE")
     /\ job[w].at = "precheck" => r.target = "CANCELLED"
     /\ job[w].at = "customerTx" => r.actor = "CUSTOMER"
     /\ w = Expiry =>
          /\ job[w].at \in {"setStatus", "precheck", "flip"} /\ r.target = "CANCELLED" =>
               r.actor = "EXPIRY" /\ r.expected = "PENDING_PAYMENT"
          /\ cancels => seen.status = "PENDING_PAYMENT"
          /\ job[w].at # "customerTx"
AllCareful == \A w \in Workers : Careful(w)

(* Stages at which nothing is said of a worker.                            *)
Careless == Stage \ {"setStatus", "precheck", "flip", "customerTx"}

LEMMA OneWorkerCareful ==
  ASSUME AllCareful, NEW w \in Workers, \A v \in Workers \ {w} : job'[v] = job[v],
         job'[w].at \in Careless \/ Careful(w)'
  PROVE  AllCareful'
<1>1. ASSUME NEW v \in Workers PROVE Careful(v)'
  <2>1. CASE v = w /\ job'[w].at \in Careless
    BY <2>1 DEF Careful, Careless
  <2>2. CASE v # w
    BY <2>2 DEF AllCareful, Careful
  <2>3. QED BY <2>1, <2>2
<1>2. QED BY <1>1 DEF AllCareful

LEMMA BeginCareful ==
  ASSUME TypeOK, AllCareful, NEW h \in Handlers, Begin(h)
  PROVE  AllCareful'
<1>0. h \in Workers /\ h # Expiry /\ job \in [Workers -> Job]
  BY HandlersWork, ExpiryAssumption DEF TypeOK
<1>1. CASE \/ StaffRequest(h) \/ MerchantRequest(h) \/ PancakeStatus(h) \/ PancakeReturned(h) \/ GomdonReport(h)
  <2>1. \/ \E req : Start(h, "setStatus", req, NoSnapshot)
        \/ job' = job
    <3>1. CASE StaffRequest(h)
      BY <3>1 DEF StaffRequest
    <3>2. CASE MerchantRequest(h)
      BY <3>2, ZenonT(30) DEF MerchantRequest
    <3>3. CASE PancakeStatus(h) \/ PancakeReturned(h)
      BY <3>3 DEF PancakeStatus, PancakeReturned
    <3>4. CASE GomdonReport(h)
      BY <3>4 DEF GomdonReport
    <3>5. QED BY <1>1, <3>1, <3>2, <3>3, <3>4
  <2>2. CASE \E req : Start(h, "setStatus", req, NoSnapshot)
    <3>1. job'[h].at = "setStatus" /\ \A v \in Workers \ {h} : job'[v] = job[v]
      BY <1>0, <2>2, StartJob
    <3>2. Careful(h)'
      BY <1>0, <3>1 DEF Careful
    <3>3. QED BY <1>0, <3>1, <3>2, OneWorkerCareful
  <2>3. CASE job' = job
    BY <2>3 DEF AllCareful, Careful
  <2>4. QED BY <2>1, <2>2, <2>3
<1>2. CASE CustomerCancel(h)
  <2>1. /\ job'[h].at = "precheck" /\ job'[h].req = Ask("CUSTOMER", "CANCELLED") /\ job'[h].seen = Snapshot
        /\ \A v \in Workers \ {h} : job'[v] = job[v]
    BY <1>0, <1>2, StartJob DEF CustomerCancel
  <2>2. job'[h].req.target = "CANCELLED" /\ job'[h].req.actor = "CUSTOMER"
    BY <2>1 DEF Ask
  <2>3. ~ HandedOver(Snapshot, FALSE)
    BY <1>2 DEF CustomerCancel, CustomerMayCancel, HandedOver, HasGomdonWaybill, IsGomdonPickedUp, Snapshot
  <2>4. Careful(h)'
    BY <1>0, <2>1, <2>2, <2>3 DEF Careful
  <2>5. QED BY <1>0, <2>1, <2>4, OneWorkerCareful
<1>3. CASE \/ MarkPaid(h) \/ GatewayPaid(h) \/ WaybillRead(h) \/ ReturnRequestRead(h) \/ PartialReturnRead(h)
  <2>1. \E at \in Careless : \E seen : Start(h, at, NoRequest, seen)
    BY <1>3 DEF MarkPaid, GatewayPaid, WaybillRead, ReturnRequestRead, PartialReturnRead, Careless, Stage
  <2>2. job'[h].at \in Careless /\ \A v \in Workers \ {h} : job'[v] = job[v]
    BY <1>0, <2>1, StartJob
  <2>3. QED BY <1>0, <2>2, OneWorkerCareful
<1>4. QED BY <1>1, <1>2, <1>3 DEF Begin

LEMMA ContinueCareful ==
  ASSUME TypeOK, AllCareful, NEW w \in Workers, Continue(w)
  PROVE  AllCareful'
<1>0. job \in [Workers -> Job] /\ Careful(w) /\ order \in Order
  BY DEF TypeOK, AllCareful
<1>i. "idle" \in Careless /\ "block" \in Careless /\ "pay" \in Careless /\ "payFlip" \in Careless
  BY DEF Careless, Stage
<1>a. ASSUME Stop(w) \/ \E ok : Return(w, ok) PROVE AllCareful'
  BY <1>0, <1>i, <1>a, StopJob, ReturnJob, OneWorkerCareful
<1>1. CASE SetStatusRead(w)
  <2> DEFINE r == job[w].req
  <2>0. job[w].at = "setStatus"
    BY <1>1 DEF SetStatusRead, At
  <2>1. CASE GoTo(w, "block", NoSnapshot)
    BY <1>0, <1>i, <2>1, GoToJob, OneWorkerCareful
  <2>2. CASE /\ ~ NothingToDo(order, r) /\ ~ HandoverBlocks(order, r)
             /\ GoTo(w, IF AsksPancake(r) THEN "precheck" ELSE "flip", Snapshot)
    <3>1. /\ job'[w].at = IF AsksPancake(r) THEN "precheck" ELSE "flip"
          /\ job'[w].req = r /\ job'[w].seen = Snapshot
          /\ \A v \in Workers \ {w} : job'[v] = job[v]
      BY <1>0, <2>2, GoToJob
    <3>2. r.target = "CANCELLED" /\ ~ r.returned => ~ HandedOver(Snapshot, r.actor = "PANCAKE")
      BY <2>2 DEF HandoverBlocks, HandedOver, HasGomdonWaybill, IsGomdonPickedUp, Snapshot
    <3>3. job'[w].at = "precheck" => r.target = "CANCELLED"
      BY <3>1 DEF AsksPancake
    <3>4. w = Expiry /\ r.target = "CANCELLED" =>
            r.actor = "EXPIRY" /\ r.expected = "PENDING_PAYMENT" /\ Snapshot.status = "PENDING_PAYMENT"
      BY <1>0, <2>0, <2>2 DEF Careful, NothingToDo, Snapshot
    <3>5. job'[w].at \in {"precheck", "flip"}
      BY <3>1
    <3>6. Careful(w)'
      BY <3>1, <3>2, <3>3, <3>4, <3>5 DEF Careful
    <3>7. QED BY <3>1, <3>6, OneWorkerCareful
  <2>3. QED BY <1>1, <1>a, <2>1, <2>2 DEF SetStatusRead
<1>2. CASE PrecheckAgrees(w) \/ PrecheckUnreachable(w)
  <2>0. job[w].at = "precheck"
    BY <1>2 DEF PrecheckAgrees, PrecheckUnreachable, At
  <2>1. CASE Proceed(w)
    <3>1. /\ job'[w].at = IF job[w].req.actor = "CUSTOMER" THEN "customerTx" ELSE "flip"
          /\ job'[w].req = job[w].req /\ job'[w].seen = job[w].seen
          /\ \A v \in Workers \ {w} : job'[v] = job[v]
      BY <1>0, <2>1, GoToJob DEF Proceed
    <3>2. Careful(w)'
      BY <1>0, <2>0, <3>1 DEF Careful
    <3>3. QED BY <3>1, <3>2, OneWorkerCareful
  <2>2. QED BY <1>2, <1>a, <2>1 DEF PrecheckAgrees, PrecheckUnreachable
<1>3. CASE PrecheckHandedOver(w)
  <2> DEFINE asker == AskerOf(job[w].req.actor)
             nested(reported) == [Ask("PANCAKE", reported) EXCEPT !.askedBy = asker]
  <2>1. CASE \E reported \in {"SHIPPING", "DELIVERED"} : Start(w, "setStatus", nested(reported), NoSnapshot)
    <3>1. PICK reported \in {"SHIPPING", "DELIVERED"} : Start(w, "setStatus", nested(reported), NoSnapshot)
      BY <2>1
    <3>2. job'[w].at = "setStatus" /\ job'[w].req = nested(reported) /\ \A v \in Workers \ {w} : job'[v] = job[v]
      BY <1>0, <3>1, StartJob
    <3>3. job'[w].req.target # "CANCELLED"
      BY <3>2 DEF Ask
    <3>4. Careful(w)'
      BY <3>2, <3>3 DEF Careful
    <3>5. QED BY <3>2, <3>4, OneWorkerCareful
  <2>2. CASE Start(w, "block", NoRequest, NoSnapshot)
    BY <1>0, <1>i, <2>2, StartJob, OneWorkerCareful
  <2>3. Stop(w) \/ (\E reported \in {"SHIPPING", "DELIVERED"} : Start(w, "setStatus", nested(reported), NoSnapshot))
          \/ Start(w, "block", NoRequest, NoSnapshot)
    BY <1>3 DEF PrecheckHandedOver
  <2>4. QED BY <1>a, <2>1, <2>2, <2>3
<1>4. CASE FlipWins(w) \/ FlipLoses(w)
  BY <1>4, <1>a DEF FlipWins, FlipLoses
<1>5. CASE MarkPaidRead(w) \/ MarkPaidLoses(w)
  <2>1. CASE GoTo(w, "payFlip", Snapshot)
    BY <1>0, <1>i, <2>1, GoToJob, OneWorkerCareful
  <2>2. CASE job' = [job EXCEPT ![w].at = "pay", ![w].seen = NoSnapshot, ![w].tries = @ + 1]
    <3>1. job'[w].at = "pay" /\ \A v \in Workers \ {w} : job'[v] = job[v]
      BY <1>0, <2>2 DEF Job
    <3>2. QED BY <1>i, <3>1, OneWorkerCareful
  <2>3. QED BY <1>5, <1>a, <2>1, <2>2 DEF MarkPaidRead, MarkPaidLoses
<1>6. CASE \/ BlockAutoCancel(w) \/ CustomerCancelTx(w) \/ MarkPaidWins(w) \/ GatewayFlip(w)
           \/ WaybillWrite(w) \/ ReturnRequestCreate(w) \/ PartialReturnMark(w)
  BY <1>6, <1>a DEF BlockAutoCancel, CustomerCancelTx, MarkPaidWins, GatewayFlip, WaybillWrite, ReturnRequestCreate,
     PartialReturnMark
<1>7. QED BY <1>1, <1>2, <1>3, <1>4, <1>5, <1>6 DEF Continue

LEMMA NextCareful ==
  ASSUME TypeOK, AllCareful, [Next]_vars
  PROVE  AllCareful'
<1>0. job \in [Workers -> Job]
  BY DEF TypeOK
<1>1. CASE \E h \in Handlers : Begin(h)
  BY <1>1, BeginCareful
<1>2. CASE \E w \in Workers : Continue(w)
  BY <1>2, ContinueCareful
<1>3. CASE ExpiryScan(Expiry)
  <2> DEFINE req == [Ask("EXPIRY", "CANCELLED") EXCEPT !.expected = "PENDING_PAYMENT"]
  <2>1. job'[Expiry].at = "setStatus" /\ job'[Expiry].req = req /\ \A v \in Workers \ {Expiry} : job'[v] = job[v]
    BY <1>0, <1>3, HandlersWork, StartJob DEF ExpiryScan
  <2>2. req.actor = "EXPIRY" /\ req.expected = "PENDING_PAYMENT"
    BY DEF Ask
  <2>3. Careful(Expiry)'
    BY <2>1, <2>2 DEF Careful
  <2>4. QED BY <2>1, <2>3, HandlersWork, OneWorkerCareful
<1>4. CASE \E w \in Workers : Crash(w)
  <2>1. "idle" \in Careless
    BY DEF Careless, Stage
  <2>2. QED BY <1>0, <1>4, <2>1, StopJob, OneWorkerCareful DEF Crash
<1>5. CASE Statement \/ UNCHANGED vars
  <2>1. job' = job
    BY <1>5 DEF Statement, GomdonClaim, GomdonCreated, RejectReturn, ApproveReturn, ReceiveReturn, SettleHeld, vars
  <2>2. QED BY <2>1 DEF AllCareful, Careful
<1>6. QED BY <1>1, <1>2, <1>3, <1>4, <1>5 DEF Next

LEMMA WorkersAreCareful == Spec => []AllCareful
<1>1. Init => AllCareful
  BY DEF Init, AllCareful, Careful, Idle
<1>2. TypeOK /\ AllCareful /\ [Next]_vars => AllCareful'
  BY NextCareful
<1>3. QED BY <1>1, <1>2, TypeCorrect, PTL DEF Spec

(* Only a flip and the customer's own transaction cancel an order.         *)
LEMMA CancelSteps ==
  ASSUME IInv, [Next]_vars, Cancels
  PROVE  \E w \in Workers :
           /\ \/ FlipWins(w) /\ job[w].req.target = "CANCELLED"
              \/ CustomerCancelTx(w) /\ CustomerMayCancel(order)
           /\ Moves(w) /\ \A v \in Workers : Moves(v) => v = w
<1>0. order \in Order /\ job \in [Workers -> Job] /\ order'.status # order.status /\ order'.status = "CANCELLED"
  BY DEF IInv, TypeOK, Cancels
<1>1. CASE \E w \in Workers : FlipWins(w)
  <2>1. PICK w \in Workers : FlipWins(w)
    BY <1>1
  <2>2. job[w].req.target = "CANCELLED"
    BY <1>0, <2>1 DEF FlipWins, Order
  <2>3. Return(w, TRUE) /\ job[w].at = "flip"
    BY <2>1 DEF FlipWins, At
  <2>4. job'[w].at # job[w].at /\ \A v \in Workers \ {w} : job'[v] = job[v]
    BY <1>0, <2>3, ReturnJob
  <2>5. QED BY <2>1, <2>2, <2>4 DEF Moves
<1>2. CASE \E w \in Workers : CustomerCancelTx(w)
  <2>1. PICK w \in Workers : CustomerCancelTx(w)
    BY <1>2
  <2>2. CustomerMayCancel(order) /\ Stop(w) /\ job[w].at = "customerTx"
    BY <1>0, <2>1 DEF CustomerCancelTx, At
  <2>3. job'[w].at # job[w].at /\ \A v \in Workers \ {w} : job'[v] = job[v]
    BY <1>0, <2>2, StopJob
  <2>4. QED BY <2>1, <2>2, <2>3 DEF Moves
<1>3. CASE \E w \in Workers : MarkPaidWins(w) \/ GatewayFlip(w)
  BY <1>0, <1>3, PaymentMoves DEF AfterPayment, Open
<1>4. CASE ApproveReturn \/ SettleHeld
  BY <1>0, <1>4 DEF ApproveReturn, SettleHeld, Order
<1>5. QED BY <1>0, <1>1, <1>2, <1>3, <1>4, StatusSteps

(* Once the goods are with a carrier nobody cancels, unless they came      *)
(* back, whatever lands between the canceller's read and its write.        *)
THEOREM NobodyCancelsAfterHandover == Spec => NoCancelAfterHandover
<1>1. ASSUME IInv, AllCareful, [Next]_vars, Cancels
      PROVE  \E w \in Workers :
               /\ Moves(w)
               /\ job[w].req.returned \/ ~ HandedOver(order, job[w].req.actor = "PANCAKE")
  <2>1. PICK w \in Workers :
          /\ \/ FlipWins(w) /\ job[w].req.target = "CANCELLED"
             \/ CustomerCancelTx(w) /\ CustomerMayCancel(order)
          /\ Moves(w)
    BY <1>1, CancelSteps
  <2>2. CASE FlipWins(w) /\ job[w].req.target = "CANCELLED" /\ ~ job[w].req.returned
    <3>1. ~ HandedOver(job[w].seen, job[w].req.actor = "PANCAKE")
      BY <1>1, <2>2 DEF AllCareful, Careful, FlipWins, At
    <3>2. /\ order.status = job[w].seen.status /\ order.shippedAt = job[w].seen.shippedAt
          /\ order.gomdon = job[w].seen.gomdon
          /\ job[w].req.actor # "PANCAKE" => order.shippingCode = job[w].seen.shippingCode
      BY <2>2 DEF FlipWins, FlipMatches
    <3>3. ~ HandedOver(order, job[w].req.actor = "PANCAKE")
      BY <3>1, <3>2 DEF HandedOver, HasGomdonWaybill, IsGomdonPickedUp
    <3>4. QED BY <2>1, <3>3
  <2>3. CASE CustomerCancelTx(w) /\ CustomerMayCancel(order)
    <3>1. ~ HandedOver(order, job[w].req.actor = "PANCAKE")
      BY <2>3 DEF CustomerMayCancel, HandedOver
    <3>2. QED BY <2>1, <3>1
  <2>4. QED BY <2>1, <2>2, <2>3
<1>2. IInv /\ AllCareful /\ [Next]_vars =>
        [Cancels => \E w \in Workers :
           /\ Moves(w)
           /\ job[w].req.returned \/ ~ HandedOver(order, job[w].req.actor = "PANCAKE")]_vars
  BY <1>1
<1>3. QED BY Inductive, WorkersAreCareful, <1>2, PTL DEF Spec, NoCancelAfterHandover

(* The cron cancels only what is unpaid and waiting at that very step.     *)
THEOREM ExpirySparesThePaid == Spec => ExpiryNeverCancelsPaid
<1> DEFINE Unpaid == order.paymentStatus = "UNPAID" /\ order.status = "PENDING_PAYMENT"
<1>1. ASSUME IInv, AllCareful, [Next]_vars, Cancels, Moves(Expiry) PROVE Unpaid
  <2>1. \/ FlipWins(Expiry) /\ job[Expiry].req.target = "CANCELLED"
        \/ CustomerCancelTx(Expiry)
    BY <1>1, CancelSteps, HandlersWork
  <2>2. Careful(Expiry)
    BY <1>1, HandlersWork DEF AllCareful
  <2>3. ~ CustomerCancelTx(Expiry)
    BY <2>2 DEF Careful, CustomerCancelTx, At
  <2>4. QED BY <2>1, <2>2, <2>3 DEF Careful, FlipWins, FlipMatches, At
<1>2. IInv /\ AllCareful /\ [Next]_vars => [Cancels /\ Moves(Expiry) => Unpaid]_vars
  BY <1>1
<1>3. QED BY Inductive, WorkersAreCareful, <1>2, PTL DEF Spec, ExpiryNeverCancelsPaid

-----------------------------------------------------------------------------
(* How an order may have been paid, and what the gateway's worker read.    *)
Receipts ==
  /\ order.paymentStatus # "FAILED"
  /\ Paid(order) => order.paymentMethod \in {"WALLET", "BANK_TRANSFER", "ZALOPAY"}
  /\ \A w \in Workers : At(w, "gateway") /\ order.status = "PENDING_PAYMENT" => job[w].seen.status = "PENDING_PAYMENT"

(* A worker that moves to another stage than the gateway's.                *)
Elsewhere(v) ==
  \/ Stop(v) \/ \E ok : Return(v, ok)
  \/ \E at \in Stage \ {"gateway"} : (\E req, seen : Start(v, at, req, seen)) \/ (\E seen : GoTo(v, at, seen))

LEMMA ElsewhereMoves ==
  ASSUME TypeOK, NEW v \in Workers, Elsewhere(v), NEW w \in Workers, job'[w].at = "gateway"
  PROVE  job'[w] = job[w]
<1>0. job \in [Workers -> Job]
  BY DEF TypeOK
<1>1. job'[v].at # "gateway" /\ \A u \in Workers \ {v} : job'[u] = job[u]
  BY <1>0, StopJob, ReturnJob, StartJob, GoToJob DEF Elsewhere
<1>2. QED BY <1>1

(* Only the payment that ZaloPay reports brings a worker there.            *)
LEMMA GatewayEntered ==
  ASSUME TypeOK, [Next]_vars, NEW w \in Workers, job'[w].at = "gateway"
  PROVE  job'[w] = job[w] \/ (w \in Handlers /\ GatewayPaid(w))
<1>0. job \in [Workers -> Job]
  BY DEF TypeOK
<1>s. {"setStatus", "precheck", "flip", "block", "customerTx", "pay", "payFlip", "waybill", "partialReturn", "returnCreate"}
        \subseteq Stage \ {"gateway"}
  BY DEF Stage
<1>1. ASSUME NEW h \in Handlers, Begin(h) PROVE job'[w] = job[w] \/ (w \in Handlers /\ GatewayPaid(w))
  <2>0. h \in Workers
    BY HandlersWork
  <2>1. CASE GatewayPaid(h)
    <3>1. \A u \in Workers \ {h} : job'[u] = job[u]
      BY <1>0, <2>0, <2>1, StartJob DEF GatewayPaid
    <3>2. QED BY <2>1, <3>1
  <2>2. CASE job' = job
    BY <2>2
  <2>3. CASE Elsewhere(h)
    BY <2>0, <2>3, ElsewhereMoves
  <2>4. CASE StaffRequest(h) \/ PancakeStatus(h) \/ PancakeReturned(h)
    BY <1>s, <2>3, <2>4 DEF StaffRequest, PancakeStatus, PancakeReturned, Elsewhere
  <2>5. CASE MerchantRequest(h)
    <3>1. PICK req : Start(h, "setStatus", req, NoSnapshot)
      BY <2>5, ZenonT(30) DEF MerchantRequest
    <3>2. QED BY <1>s, <2>3, <3>1 DEF Elsewhere
  <2>6. CASE GomdonReport(h)
    BY <1>s, <2>2, <2>3, <2>6 DEF GomdonReport, Elsewhere
  <2>7. CASE CustomerCancel(h) \/ MarkPaid(h) \/ WaybillRead(h) \/ ReturnRequestRead(h) \/ PartialReturnRead(h)
    BY <1>s, <2>3, <2>7 DEF CustomerCancel, MarkPaid, WaybillRead, ReturnRequestRead, PartialReturnRead, Elsewhere
  <2>8. QED BY <1>1, <2>1, <2>4, <2>5, <2>6, <2>7 DEF Begin
<1>2. ASSUME NEW v \in Workers, Continue(v) PROVE job'[w] = job[w]
  <2>1. CASE Elsewhere(v)
    BY <2>1, ElsewhereMoves
  <2>2. CASE SetStatusRead(v) \/ FlipWins(v) \/ FlipLoses(v)
    BY <1>s, <2>1, <2>2 DEF SetStatusRead, FlipWins, FlipLoses, Elsewhere
  <2>3. CASE PrecheckAgrees(v) \/ PrecheckUnreachable(v)
    BY <1>s, <2>1, <2>3 DEF PrecheckAgrees, PrecheckUnreachable, Proceed, Elsewhere
  <2>4. CASE PrecheckHandedOver(v)
    <3>1. Stop(v) \/ \E at \in {"setStatus", "block"} : \E req : Start(v, at, req, NoSnapshot)
      BY <2>4 DEF PrecheckHandedOver
    <3>2. QED BY <1>s, <2>1, <3>1 DEF Elsewhere
  <2>5. CASE MarkPaidRead(v)
    BY <1>s, <2>1, <2>5 DEF MarkPaidRead, Elsewhere
  <2>6. CASE MarkPaidLoses(v)
    <3>1. CASE job' = [job EXCEPT ![v].at = "pay", ![v].seen = NoSnapshot, ![v].tries = @ + 1]
      BY <1>0, <3>1 DEF Job
    <3>2. QED BY <2>1, <2>6, <3>1 DEF MarkPaidLoses, Elsewhere
  <2>7. CASE \/ BlockAutoCancel(v) \/ CustomerCancelTx(v) \/ MarkPaidWins(v) \/ GatewayFlip(v)
             \/ WaybillWrite(v) \/ ReturnRequestCreate(v) \/ PartialReturnMark(v)
    BY <2>1, <2>7 DEF BlockAutoCancel, CustomerCancelTx, MarkPaidWins, GatewayFlip, WaybillWrite, ReturnRequestCreate,
       PartialReturnMark, Elsewhere
  <2>8. QED BY <1>2, <2>2, <2>3, <2>4, <2>5, <2>6, <2>7 DEF Continue
<1>3. CASE ExpiryScan(Expiry)
  BY <1>s, <1>3, HandlersWork, ElsewhereMoves DEF ExpiryScan, Elsewhere
<1>4. CASE \E v \in Workers : Crash(v)
  BY <1>4, ElsewhereMoves DEF Crash, Elsewhere
<1>5. CASE Statement \/ UNCHANGED vars
  BY <1>5 DEF Statement, GomdonClaim, GomdonCreated, RejectReturn, ApproveReturn, ReceiveReturn, SettleHeld, vars
<1>6. QED BY <1>1, <1>2, <1>3, <1>4, <1>5 DEF Next

LEMMA GatewayCopies ==
  ASSUME IInv, Receipts, [Next]_vars, NEW w \in Workers, job'[w].at = "gateway", order'.status = "PENDING_PAYMENT"
  PROVE  job'[w].seen.status = "PENDING_PAYMENT"
<1>0. order \in Order /\ job \in [Workers -> Job] /\ order.status \in OrderStatus
  BY DEF IInv, TypeOK, Order
<1>1. order.status = "PENDING_PAYMENT"
  <2>1. CASE UNCHANGED order.status
    BY <2>1
  <2>2. CASE \E v \in Workers : FlipWins(v) \/ CustomerCancelTx(v) \/ MarkPaidWins(v) \/ GatewayFlip(v)
    <3>1. order'.status \in NextStatuses(order.status) \cup {order.status} \cup {AfterPayment(order.status)}
      BY <2>2, FlipWinsMoves, CustomerCancelMoves, PaymentMoves
    <3>2. QED BY <1>0, <3>1, NextStatusesFacts DEF AfterPayment, OrderStatus
  <2>3. CASE ApproveReturn \/ SettleHeld
    BY <1>0, <2>3 DEF ApproveReturn, SettleHeld, Order
  <2>4. QED BY <2>1, <2>2, <2>3, StatusSteps
<1>2. CASE job'[w] = job[w]
  BY <1>1, <1>2 DEF Receipts, At
<1>3. CASE GatewayPaid(w) /\ w \in Handlers
  BY <1>0, <1>1, <1>3, StartJob DEF GatewayPaid, Snapshot
<1>4. QED BY <1>2, <1>3, GatewayEntered DEF IInv

LEMMA NextReceipts ==
  ASSUME IInv, Receipts, [Next]_vars
  PROVE  Receipts'
<1>0. order \in Order /\ UNCHANGED PlacedColumns
  BY PlacedColumnsKept DEF IInv, TypeOK
<1>1. \A w \in Workers : At(w, "gateway")' /\ order'.status = "PENDING_PAYMENT" => job'[w].seen.status = "PENDING_PAYMENT"
  BY GatewayCopies DEF At
<1>2. \/ order'.paymentStatus = order.paymentStatus \/ order'.paymentStatus = "REFUNDED"
      \/ order'.paymentStatus = "PAID" /\ order.paymentMethod \in {"BANK_TRANSFER", "ZALOPAY"}
  <2>1. CASE UNCHANGED order.paymentStatus
    BY <2>1
  <2>2. CASE \E w \in Workers : FlipWins(w)
    BY <1>0, <2>2 DEF FlipWins, PaymentAfterReversal, Order
  <2>3. CASE \E w \in Workers : CustomerCancelTx(w)
    BY <1>0, <2>3 DEF CustomerCancelTx, PaymentAfterReversal, Order
  <2>4. CASE \E w \in Workers : MarkPaidWins(w)
    BY <1>0, <2>4 DEF MarkPaidWins, IInv, AllJudged, Judged, At, Order
  <2>5. CASE \E w \in Workers : GatewayFlip(w)
    BY <1>0, <2>5 DEF GatewayFlip, IInv, AllJudged, Judged, At, Order
  <2>6. CASE ApproveReturn
    BY <1>0, <2>6 DEF ApproveReturn, PaymentAfterReversal, Order
  <2>7. CASE SettleHeld
    BY <1>0, <2>7 DEF SettleHeld, Order
  <2>8. QED BY <2>1, <2>2, <2>3, <2>4, <2>5, <2>6, <2>7, StatusSteps
<1>3. order'.paymentMethod = order.paymentMethod
  BY <1>0 DEF PlacedColumns
<1>4. QED BY <1>1, <1>2, <1>3 DEF Receipts, Paid

LEMMA ReceiptsHold == Spec => []Receipts
<1>1. Init => Receipts
  <2> SUFFICES ASSUME Init PROVE Receipts
    OBVIOUS
  <2>1. PICK k \in OrderKinds : order = Placed(k)
    BY DEF Init
  <2>2. QED BY <2>1 DEF Init, Receipts, Placed, Paid, At, Idle
<1>2. IInv /\ Receipts /\ [Next]_vars => Receipts'
  BY NextReceipts
<1>3. QED BY <1>1, <1>2, Inductive, PTL DEF Spec

(* Money that staff may have paid by hand is not paid again by the return  *)
(* of the whole order that Pancake reports later.                          *)
THEOREM HandRefundsAreNotRepeated == Spec => HandRefundNotRepeated
<1> DEFINE Repeats(w) ==
             /\ ~ ClosedOrder /\ order'.status \in Closed
             /\ Moves(w) /\ job[w].req.actor = "PANCAKE" /\ job[w].req.returned
             /\ order.manualPartialReturn
<1>1. ASSUME IInv, AllCareful, Receipts, [Next]_vars, NEW w \in Workers, Repeats(w)
      PROVE  books'.refunds = books.refunds
  <2>0. /\ order \in Order /\ job \in [Workers -> Job] /\ Settled /\ ~ ClosedOrder
        /\ order'.status # order.status
    BY <1>1 DEF IInv, TypeOK, ClosedOrder
  <2>1. CASE \E v \in Workers : FlipWins(v)
    <3>1. PICK v \in Workers : FlipWins(v)
      BY <2>1
    <3>2. v = w
      <4>1. Return(v, TRUE)
        BY <3>1 DEF FlipWins
      <4>2. \A u \in Workers \ {v} : job'[u] = job[u]
        BY <2>0, <4>1, ReturnJob
      <4>3. QED BY <1>1, <4>2 DEF Moves
    <3> DEFINE r == job[w].req
               closes == r.target \in Closed
               cod == closes /\ WithholdsCod(order, r)
               prepaid == closes /\ WithholdsPrepaid(order, r)
    <3>3. order'.status = r.target /\ closes /\ books' = ReverseFinancials(TRUE, cod, prepaid)
      <4>1. order'.status = r.target
        BY <2>0, <3>1, <3>2 DEF FlipWins, Order
      <4>2. books' = IF closes THEN ReverseFinancials(TRUE, cod, prepaid) ELSE books
        BY <3>1, <3>2 DEF FlipWins
      <4>3. QED BY <1>1, <4>1, <4>2
    <3>4. r.target \in NextStatuses(order.status)
      BY <1>1, <3>1, <3>2, <3>3, FlipWinsMoves
    <3>5. order.paymentMethod = "COD" /\ order.status = "DELIVERED" => cod
      BY <1>1, <3>3, <3>4, NextStatusesFacts DEF WithholdsCod
    <3>6. returnRequest \notin {"APPROVED", "RECEIVED"} /\ (Paid(order) => ~ order.onCredit)
      BY <2>0 DEF Settled, ApprovedIsReturned, ClosedOrder, Closed, PaidUpFront
    <3>7. Prepaid(order.paymentMethod) /\ order.paymentStatus = "PAID" => prepaid
      BY <1>1, <3>3, <3>6 DEF WithholdsPrepaid, ManualPartialReturn, Receipts, Paid
    <3>8. ~ GivesMoneyBack(order, cod, prepaid)
      BY <3>5, <3>7 DEF GivesMoneyBack
    <3>9. QED BY <3>3, <3>8 DEF ReverseFinancials
  <2>2. CASE \E v \in Workers : CustomerCancelTx(v)
    <3>1. PICK v \in Workers : CustomerCancelTx(v)
      BY <2>2
    <3>2. v = w
      BY <1>1, <2>0, <3>1, StopJob DEF CustomerCancelTx, Moves
    <3>3. job[w].req.actor = "CUSTOMER"
      BY <1>1, <3>1, <3>2 DEF CustomerCancelTx, At, AllCareful, Careful
    <3>4. QED BY <1>1, <3>3
  <2>3. CASE \E v \in Workers : MarkPaidWins(v) \/ GatewayFlip(v)
    BY <2>3 DEF MarkPaidWins, GatewayFlip
  <2>4. CASE ApproveReturn
    BY <1>1, <2>4 DEF ApproveReturn, Moves
  <2>5. CASE SettleHeld
    BY <1>1, <2>5 DEF SettleHeld, Moves
  <2>6. QED BY <1>1, <2>0, <2>1, <2>2, <2>3, <2>4, <2>5, StatusSteps
<1>2. IInv /\ AllCareful /\ Receipts /\ [Next]_vars =>
        [\A w \in Workers :
           /\ ~ ClosedOrder /\ order'.status \in Closed
           /\ Moves(w) /\ job[w].req.actor = "PANCAKE" /\ job[w].req.returned
           /\ order.manualPartialReturn
           => books'.refunds = books.refunds]_vars
  BY <1>1
<1>3. QED BY Inductive, WorkersAreCareful, ReceiptsHold, <1>2, PTL DEF Spec, HandRefundNotRepeated

-----------------------------------------------------------------------------
(* The order implements OrderSettlement.                                   *)

(* Both read the same table of transitions.                                *)
LEMMA SameTable ==
  /\ Settlement!Open = Open /\ Settlement!Closed = Closed
  /\ \A s \in OrderStatus : Settlement!NextStatuses(s) = NextStatuses(s)
  /\ Settlement!Prepaid(order.paymentMethod) <=> Prepaid(order.paymentMethod)
<1>1. Settlement!Open = Open /\ Settlement!Closed = Closed
  BY DEF Settlement!Open, Settlement!Closed, Open, Closed
<1>2. ASSUME NEW s \in OrderStatus PROVE Settlement!NextStatuses(s) = NextStatuses(s)
  BY DEF Settlement!NextStatuses, NextStatuses, Settlement!ForwardChain, ForwardChain,
         Settlement!Open, Settlement!Closed, Open, Closed
<1>3. QED BY <1>1, <1>2 DEF Settlement!Prepaid, Prepaid

LEMMA InitSettles == Init => Settlement!Init
<1> SUFFICES ASSUME Init PROVE Settlement!Init
  OBVIOUS
<1>1. PICK k \in OrderKinds : order = Placed(k)
  BY DEF Init
<1>2. PlacedAs = k
  BY <1>1, KindsAssumption DEF PlacedAs, Placed, Kind
<1>3. QED BY <1>1, <1>2 DEF Init, Settlement!Init, Placed, PlacedAs

LEMMA SameKind == UNCHANGED PlacedColumns => UNCHANGED PlacedAs
BY DEF PlacedColumns, PlacedAs

(* A step that settles nothing is invisible there.                         *)
LEMMA Stutters ==
  ASSUME UNCHANGED << PlacedColumns, order.status, order.paymentStatus, books >>,
         returnRequest' = "APPROVED" <=> returnRequest = "APPROVED"
  PROVE  UNCHANGED Settlement!vars
BY SameKind DEF Settlement!vars

(* Whoever closes the order, it is one closing there.                      *)
LEMMA Closes ==
  ASSUME IInv, Receipts,
         NEW to \in Closed, NEW restocks \in BOOLEAN, NEW cod \in BOOLEAN, NEW prepaid \in BOOLEAN,
         to \in NextStatuses(order.status),
         cod => order.paymentMethod = "COD" /\ order.status = "DELIVERED",
         prepaid => Prepaid(order.paymentMethod) /\ Paid(order),
         UNCHANGED PlacedColumns,
         order'.status = to, order'.paymentStatus = PaymentAfterReversal(cod, prepaid),
         books' = ReverseFinancials(restocks, cod, prepaid),
         \/ restocks /\ returnRequest' = returnRequest
         \/ ~ restocks /\ returnRequest' = "APPROVED" /\ to = "RETURNED"
  PROVE  Settlement!Close(restocks, cod \/ prepaid)
<1>0. TypeOK /\ Settled /\ order.status \in OrderStatus /\ ~ ClosedOrder
  BY NextStatusesFacts DEF IInv, TypeOK, Order, ClosedOrder
<1>1. returnRequest # "APPROVED"
  BY <1>0 DEF Settled, ApprovedIsReturned, ClosedOrder, Closed
<1>2. /\ books.stock = 0 /\ books.refunds = 0 /\ books.held = "NONE"
      /\ order.paymentStatus \in {"UNPAID", "PAID"}
  BY <1>0 DEF Settled, StockReleasedOnce, OpenOwesNothing, OneWayOut, Receipts, TypeOK, Order, PaymentStatus
<1>3. order.paymentStatus = "PAID" => Prepaid(order.paymentMethod) /\ ~ order.onCredit
  BY <1>0 DEF Settled, PaidUpFront, Paid
<1>4. order.onCredit => order.paymentMethod = "BANK_TRANSFER"
  BY <1>0 DEF Settled, CreditIsTransfer
<1> DEFINE holds == cod \/ prepaid
           pays == GivesMoneyBack(order, cod, prepaid)
<1>5. Settlement!Owed <=> IF Prepaid(order.paymentMethod) THEN order.paymentStatus = "PAID" ELSE order.status = "DELIVERED"
  BY SameTable DEF Settlement!Owed, Settlement!Prepaid, Prepaid, PlacedAs
<1>6. holds => Settlement!Owed
  BY <1>5 DEF Prepaid, Paid
<1>7. pays <=> Settlement!Owed /\ ~ holds
  BY <1>2, <1>3, <1>5 DEF GivesMoneyBack, Prepaid, Paid
<1>8. pays => ~ order.onCredit
  BY <1>3, <1>4 DEF GivesMoneyBack, Prepaid
<1> HIDE DEF pays
<1>9. books' = [stock |-> IF restocks THEN 1 ELSE 0, refunds |-> IF pays THEN 1 ELSE 0,
                held |-> IF holds THEN "UNVERIFIED" ELSE "NONE"]
  BY <1>2, <1>8 DEF ReverseFinancials, pays
<1>10. order'.paymentStatus = IF pays THEN "REFUNDED" ELSE order.paymentStatus
  BY DEF PaymentAfterReversal, pays
<1>11. (returnRequest' = "APPROVED") = ~ restocks
  BY <1>1
<1>12. to \in Settlement!NextStatuses(order.status) \cap Settlement!Closed
  BY <1>0, SameTable
<1>13. ~ restocks => to = "RETURNED"
  OBVIOUS
<1> HIDE DEF holds
<1>14. Settlement!Close(restocks, holds)
  BY <1>6, <1>7, <1>9, <1>10, <1>11, <1>12, <1>13, SameKind DEF Settlement!Close
<1>15. QED BY <1>14 DEF holds

LEMMA FlipSettles ==
  ASSUME IInv, Receipts, IInv', UNCHANGED PlacedColumns, NEW w \in Workers, FlipWins(w)
  PROVE  Settlement!Next
<1> DEFINE r == job[w].req
           closes == r.target \in Closed
           cod == closes /\ WithholdsCod(order, r)
           prepaid == closes /\ WithholdsPrepaid(order, r)
<1>1. r.target \in NextStatuses(order.status) /\ r.target \in OrderStatus /\ order.status \in Open /\ order \in Order
  <2>1. order'.status = r.target
    BY DEF FlipWins, IInv, TypeOK, Order
  <2>2. QED BY <2>1, FlipWinsMoves, JobFields DEF IInv, TypeOK
<1>2. /\ order'.status = r.target
      /\ order'.paymentStatus = IF closes THEN PaymentAfterReversal(cod, prepaid) ELSE order.paymentStatus
      /\ books' = IF closes THEN ReverseFinancials(TRUE, cod, prepaid) ELSE books
      /\ returnRequest' = returnRequest
  BY <1>1 DEF FlipWins, Order
<1>3. CASE closes
  <2>1. cod => order.paymentMethod = "COD" /\ order.status = "DELIVERED"
    BY DEF WithholdsCod
  <2>2. prepaid => Prepaid(order.paymentMethod) /\ Paid(order)
    BY DEF WithholdsPrepaid, Paid
  <2>3. cod \in BOOLEAN /\ prepaid \in BOOLEAN /\ (cod \/ prepaid) \in BOOLEAN
    OBVIOUS
  <2> HIDE DEF cod, prepaid
  <2>4. Settlement!Close(TRUE, cod \/ prepaid)
    BY <1>1, <1>2, <1>3, <2>1, <2>2, <2>3, Closes
  <2>5. QED BY <2>3, <2>4 DEF Settlement!Next
<1>4. CASE ~ closes
  <2>1. r.target \in Open /\ r.target # "PENDING_PAYMENT"
    BY <1>1, <1>4, NextStatusesFacts DEF OrderStatus
  <2>2. ~ Prepaid(order'.paymentMethod) \/ order'.onCredit \/ order'.paymentStatus = "PAID"
    BY <1>2, <2>1 DEF IInv, Settled, UnpaidPrepaidHeld, PaidBeforeFulfilment, RequiresPaymentBefore, Open
  <2>3. Settlement!PaidFor
    BY <1>2, <1>4, <2>2, SameTable DEF Settlement!PaidFor, Settlement!Prepaid, Prepaid, PlacedAs, PlacedColumns
  <2>4. r.target \in Settlement!NextStatuses(order.status) \cap Settlement!Open
    BY <1>1, <2>1, SameTable DEF OrderStatus
  <2>5. Settlement!Advance
    BY <1>2, <1>4, <2>3, <2>4, SameKind DEF Settlement!Advance
  <2>6. QED BY <2>5 DEF Settlement!Next
<1>5. QED BY <1>3, <1>4

LEMMA PaymentSettles ==
  ASSUME IInv, Receipts, UNCHANGED PlacedColumns, NEW w \in Workers, MarkPaidWins(w) \/ GatewayFlip(w)
  PROVE  Settlement!Next \/ UNCHANGED Settlement!vars
<1>0. Judged(w) /\ order \in Order /\ Settled /\ UNCHANGED << returnRequest, books >>
  BY DEF IInv, AllJudged, TypeOK, MarkPaidWins, GatewayFlip
<1>1. CASE UNCHANGED order
  BY <1>0, <1>1, Stutters
<1>2. CASE ~ UNCHANGED order
  <2>1. Prepaid(order.paymentMethod) /\ ~ order.onCredit
    BY <1>0 DEF Judged, MarkPaidWins, GatewayFlip, At, Prepaid, Settled, CreditIsTransfer
  <2>2. order.paymentStatus = "UNPAID" /\ order.status \in Open /\ order'.paymentStatus = "PAID"
    <3>1. CASE MarkPaidWins(w)
      BY <1>0, <3>1 DEF MarkPaidWins, PayFlipMatches, Judged, At, Order
    <3>2. CASE GatewayFlip(w)
      BY <1>0, <1>2, <3>2 DEF GatewayFlip, Payable, Order
    <3>3. QED BY <3>1, <3>2
  <2>3. order.status = "PENDING_PAYMENT"
    BY <1>0, <2>1, <2>2 DEF Settled, UnpaidPrepaidHeld, PaidBeforeFulfilment, RequiresPaymentBefore, Open
  <2>4. order'.status = "CONFIRMED"
    <3>1. CASE MarkPaidWins(w)
      BY <1>0, <2>3, <3>1 DEF MarkPaidWins, PayFlipMatches, AfterPayment, Order
    <3>2. CASE GatewayFlip(w)
      <4>1. job[w].seen.status = "PENDING_PAYMENT"
        BY <2>3, <3>2 DEF GatewayFlip, Receipts
      <4>2. QED BY <1>0, <1>2, <3>2, <4>1 DEF GatewayFlip, Order
    <3>3. QED BY <3>1, <3>2
  <2>5. Settlement!Prepaid(order.paymentMethod)
    BY <2>1, SameTable
  <2>6. Settlement!Pay
    BY <1>0, <2>1, <2>2, <2>3, <2>4, SameTable, SameKind DEF Settlement!Pay, PlacedAs, Settlement!Prepaid, Prepaid
  <2>7. QED BY <2>6 DEF Settlement!Next
<1>3. QED BY <1>1, <1>2

LEMMA CustomerCancelSettles ==
  ASSUME IInv, Receipts, UNCHANGED PlacedColumns, NEW w \in Workers, CustomerCancelTx(w)
  PROVE  Settlement!Next \/ UNCHANGED Settlement!vars
<1>0. order \in Order
  BY DEF IInv, TypeOK
<1>1. CASE CustomerMayCancel(order) /\ ~ UNCHANGED << order, books >>
  <2>1. "CANCELLED" \in NextStatuses(order.status) /\ "CANCELLED" \in Closed
    BY <1>1 DEF CustomerMayCancel, CustomerCancellable, NextStatuses, Closed
  <2>2. /\ order'.status = "CANCELLED" /\ order'.paymentStatus = PaymentAfterReversal(FALSE, FALSE)
        /\ books' = ReverseFinancials(TRUE, FALSE, FALSE) /\ returnRequest' = returnRequest
    BY <1>0, <1>1 DEF CustomerCancelTx, Order
  <2>3. Settlement!Close(TRUE, FALSE \/ FALSE)
    BY <2>1, <2>2, Closes
  <2>4. QED BY <2>3 DEF Settlement!Next
<1>2. CASE UNCHANGED << order, books >>
  BY <1>2, Stutters DEF CustomerCancelTx
<1>3. QED BY <1>1, <1>2 DEF CustomerCancelTx

LEMMA StatementSettles ==
  ASSUME IInv, Receipts, UNCHANGED PlacedColumns, Statement
  PROVE  Settlement!Next \/ UNCHANGED Settlement!vars
<1>0. order \in Order /\ Settled /\ books \in [stock : Nat, refunds : Nat, held : {"NONE", "UNVERIFIED", "SETTLED"}]
  BY DEF IInv, TypeOK
<1>1. CASE GomdonClaim \/ GomdonCreated
  BY <1>0, <1>1, Stutters DEF GomdonClaim, GomdonCreated, Order
<1>2. CASE RejectReturn
  BY <1>2, Stutters DEF RejectReturn
<1>3. CASE ApproveReturn
  <2>1. /\ order'.status = "RETURNED" /\ order'.paymentStatus = PaymentAfterReversal(FALSE, FALSE)
        /\ books' = ReverseFinancials(FALSE, FALSE, FALSE) /\ returnRequest' = "APPROVED"
        /\ order.status = "DELIVERED"
    BY <1>0, <1>3 DEF ApproveReturn, Order
  <2>2. "RETURNED" \in Closed /\ "RETURNED" \in NextStatuses(order.status)
    BY <2>1, NextStatusesFacts DEF Closed
  <2>3. Settlement!Close(FALSE, FALSE \/ FALSE)
    BY <2>1, <2>2, Closes
  <2>4. QED BY <2>3 DEF Settlement!Next
<1>4. CASE ReceiveReturn
  <2>1. books.stock = 0
    BY <1>0, <1>4 DEF ReceiveReturn, Settled, StockReleasedOnce
  <2>2. books' = [books EXCEPT !.stock = 1]
    BY <1>0, <1>4, <2>1 DEF ReceiveReturn
  <2>3. Settlement!Receive
    BY <1>4, <2>2, SameKind DEF ReceiveReturn, Settlement!Receive
  <2>4. QED BY <2>3 DEF Settlement!Next
<1>5. CASE SettleHeld
  <2>1. PICK confirmed \in {0, 1} : books' = [books EXCEPT !.held = "SETTLED", !.refunds = @ + confirmed]
    BY <1>5 DEF SettleHeld
  <2>2. books.held = "UNVERIFIED" /\ books.refunds = 0
    BY <1>0, <1>5 DEF SettleHeld, Settled, OneWayOut
  <2>3. books.refunds + confirmed = confirmed
    BY <2>2
  <2>4. books' = [books EXCEPT !.held = "SETTLED", !.refunds = confirmed]
    BY <2>1, <2>3
  <2>5. /\ order'.status = order.status /\ returnRequest' = returnRequest
        /\ order'.paymentStatus = IF Paid(order) THEN "REFUNDED" ELSE order.paymentStatus
    BY <1>0, <1>5 DEF SettleHeld, Order, Settled, PaidUpFront, Paid
  <2>6. Settlement!Settle
    BY <2>2, <2>4, <2>5, SameKind DEF Settlement!Settle, Paid
  <2>7. QED BY <2>6 DEF Settlement!Next
<1>6. QED BY <1>1, <1>2, <1>3, <1>4, <1>5 DEF Statement

LEMMA NextSettles ==
  ASSUME IInv, Receipts, IInv', [Next]_vars
  PROVE  [Settlement!Next]_(Settlement!vars)
<1>0. UNCHANGED PlacedColumns /\ order \in Order
  BY PlacedColumnsKept DEF IInv, TypeOK
<1>1. CASE \E h \in Handlers : Begin(h)
  <2>1. UNCHANGED << order.status, order.paymentStatus, returnRequest, books >>
    BY <1>0, <1>1, BeginQuiet
  <2>2. QED BY <1>0, <2>1, Stutters
<1>2. CASE \E w \in Workers : Continue(w)
  <2>1. PICK w \in Workers : Continue(w)
    BY <1>2
  <2>2. CASE FlipWins(w)
    BY <1>0, <2>2, FlipSettles
  <2>3. CASE MarkPaidWins(w) \/ GatewayFlip(w)
    BY <1>0, <2>3, PaymentSettles
  <2>4. CASE CustomerCancelTx(w)
    BY <1>0, <2>4, CustomerCancelSettles
  <2>5. CASE ReturnRequestCreate(w)
    BY <1>0, <2>5, Stutters DEF ReturnRequestCreate
  <2>6. CASE \/ SetStatusRead(w) \/ PrecheckAgrees(w) \/ PrecheckUnreachable(w) \/ PrecheckHandedOver(w)
             \/ BlockAutoCancel(w) \/ FlipLoses(w) \/ MarkPaidRead(w) \/ MarkPaidLoses(w)
             \/ WaybillWrite(w) \/ PartialReturnMark(w)
    <3>1. UNCHANGED << order.status, order.paymentStatus, returnRequest, books >>
      BY <1>0, <2>6 DEF SetStatusRead, PrecheckAgrees, PrecheckUnreachable, PrecheckHandedOver, BlockAutoCancel, FlipLoses,
         MarkPaidRead, MarkPaidLoses, WaybillWrite, PartialReturnMark, OnlyJob, Order
    <3>2. QED BY <1>0, <3>1, Stutters
  <2>7. QED BY <2>1, <2>2, <2>3, <2>4, <2>5, <2>6 DEF Continue
<1>3. CASE ExpiryScan(Expiry) \/ (\E w \in Workers : Crash(w)) \/ UNCHANGED vars
  <2>1. UNCHANGED << order, returnRequest, books >>
    BY <1>3 DEF ExpiryScan, Crash, vars, OnlyJob
  <2>2. QED BY <1>0, <2>1, Stutters
<1>4. CASE Statement
  BY <1>0, <1>4, StatementSettles
<1>5. QED BY <1>1, <1>2, <1>3, <1>4 DEF Next

(* However its writers interleave, every step of an order is one step of   *)
(* OrderSettlement, or nothing that it sees.                               *)
THEOREM ImplementsSettlement == Spec => SettlementSpec
<1>1. IInv /\ Receipts /\ IInv' /\ [Next]_vars => [Settlement!Next]_(Settlement!vars)
  BY NextSettles
<1>2. QED BY Inductive, ReceiptsHold, InitSettles, <1>1, PTL DEF Spec, SettlementSpec, Settlement!Spec

=============================================================================
