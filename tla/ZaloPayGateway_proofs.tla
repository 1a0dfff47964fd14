------------------------ MODULE ZaloPayGateway_proofs ------------------------
(***************************************************************************)
(* Proofs about ZaloPayGateway for any attempts, any number of web         *)
(* requests and any number of crashes.                                     *)
(***************************************************************************)
EXTENDS ZaloPayGateway, FiniteSetTheorems, TLAPS

-----------------------------------------------------------------------------
(* The inductive invariant.                                                *)

(* What a worker may still have to do with an attempt. Only money in the   *)
(* right amount is applied to the order or recorded as a refund.           *)
ForCaptured == {<< "flip" >>, << "record" >>, << "record", "resolve" >>, << "resolve", "record" >>}
ForAny == {<< "resolve" >>, << "flag", "resolve" >>}
Work == ForCaptured \cup ForAny
HandsOnMoney ==
  \A w \in Workers :
    /\ At(w, "read") => job[w].attempt \in Attempts /\ gateway[job[w].attempt] \in Captured
    /\ At(w, "do") =>
         /\ job[w].attempt \in Attempts /\ job[w].todo \in Work
         /\ job[w].todo \in ForCaptured => gateway[job[w].attempt] = "CAPTURED"

(* The order says what was applied to it.                                  *)
OrderSaysPaid ==
  /\ order.paymentStatus = "UNPAID" <=> succeeded = {}
  /\ \A a, b \in succeeded : a = b
  /\ order.paymentStatus = "PAID" => order.status # "CANCELLED"
  /\ order.paymentStatus = "REFUNDED" => order.status = "CANCELLED"
  /\ \A a \in succeeded : gateway[a] = "CAPTURED"

(* A refund tells why the payment could not be applied, and the order can  *)
(* no longer change so that it could.                                      *)
RefundsAreFinal ==
  \A r \in refunds :
    /\ gateway[r.attempt] = "CAPTURED" /\ r.attempt \notin succeeded
    /\ r.kind = "LATE_PAYMENT" => order.status = "CANCELLED" /\ order.paymentStatus = "UNPAID"
    /\ r.kind = "OVERPAYMENT" => order.paymentStatus # "UNPAID"

Inv == TypeOK /\ HandsOnMoney /\ OrderSaysPaid /\ RefundsAreFinal

-----------------------------------------------------------------------------
(* Type correctness.                                                       *)

LEMMA JobType ==
  /\ Idle \in Job
  /\ Work \subseteq Seq(Step)
BY DEF Idle, Job, NoAttempt, Status, Work, ForCaptured, ForAny, Step

LEMMA InitInv == Init => Inv
<1> SUFFICES ASSUME Init PROVE Inv
  OBVIOUS
<1>1. TypeOK
  BY JobType, CrashAssumption DEF Init, TypeOK, Order, Status, GatewayState
<1>2. HandsOnMoney
  BY DEF Init, HandsOnMoney, At, Idle
<1>3. OrderSaysPaid /\ RefundsAreFinal
  BY DEF Init, OrderSaysPaid, RefundsAreFinal
<1>4. QED BY <1>1, <1>2, <1>3 DEF Inv

(* A step that changes one job only keeps the invariant when the new job   *)
(* has its type and fits the money in its hands.                           *)
Fits(j) ==
  /\ j \in Job
  /\ j.at = "read" => j.attempt \in Attempts /\ gateway[j.attempt] \in Captured
  /\ j.at = "do" =>
       /\ j.attempt \in Attempts /\ j.todo \in Work
       /\ j.todo \in ForCaptured => gateway[j.attempt] = "CAPTURED"

LEMMA JobFits ==
  ASSUME Inv, NEW w \in Workers
  PROVE  Fits(job[w])
BY DEF Inv, TypeOK, HandsOnMoney, Fits, At

LEMMA IdleFits == Fits(Idle)
BY JobType DEF Fits, Idle

LEMMA OneJob ==
  ASSUME Inv, NEW w \in Workers, NEW j, Fits(j), job' = [job EXCEPT ![w] = j], gateway' = gateway
  PROVE  job' \in [Workers -> Job] /\ HandsOnMoney'
BY DEF Inv, TypeOK, HandsOnMoney, Fits, At

(* The rest of the invariant does not look at the jobs.                    *)
LEMMA OnlyJobInv ==
  ASSUME Inv, NEW w \in Workers, NEW j, Fits(j), job' = [job EXCEPT ![w] = j], OnlyJob
  PROVE  Inv'
<1>1. job' \in [Workers -> Job] /\ HandsOnMoney'
  BY OneJob DEF OnlyJob, money
<1>2. QED BY <1>1 DEF Inv, TypeOK, OrderSaysPaid, RefundsAreFinal, OnlyJob, money

(* What is left of the work after its first step.                          *)
LEMMA WorkShapes ==
  /\ \A t \in Work : Head(t) \in Step /\ (Len(t) > 1 => t \in {<< "record", "resolve" >>, << "resolve", "record" >>, << "flag", "resolve" >>})
  /\ Tail(<< "record", "resolve" >>) = << "resolve" >>
  /\ Tail(<< "resolve", "record" >>) = << "record" >>
  /\ Tail(<< "flag", "resolve" >>) = << "resolve" >>
BY DEF Work, ForCaptured, ForAny, Step

-----------------------------------------------------------------------------
(* The steps that only move a worker.                                      *)

LEMMA CreatePaymentInv ==
  ASSUME Inv, NEW h \in Handlers, CreatePayment(h)
  PROVE  Inv'
<1> DEFINE j == [Idle EXCEPT !.at = "ask", !.caller = "create", !.rest = Unresolved]
<1>1. Fits(j)
  BY JobType DEF Fits, Idle, Job, Unresolved
<1>2. h \in Workers /\ job' = [job EXCEPT ![h] = j]
  BY DEF CreatePayment, Workers
<1>3. QED BY <1>1, <1>2, OnlyJobInv DEF CreatePayment

LEMMA ReconcileInv ==
  ASSUME Inv, Reconcile(Cron)
  PROVE  Inv'
<1> DEFINE j == [Idle EXCEPT !.at = "ask", !.caller = "cron", !.rest = Unresolved]
<1>1. Fits(j)
  BY JobType DEF Fits, Idle, Job, Unresolved
<1>2. Cron \in Workers /\ job' = [job EXCEPT ![Cron] = j]
  BY DEF Reconcile, Workers
<1>3. QED BY <1>1, <1>2, OnlyJobInv DEF Reconcile

LEMMA CallbackInv ==
  ASSUME Inv, NEW h \in Handlers, NEW a \in Attempts, Callback(h, a)
  PROVE  Inv'
<1> DEFINE j == [Idle EXCEPT !.at = "read", !.attempt = a]
<1>1. Fits(j)
  BY JobType DEF Fits, Idle, Job, Callback
<1>2. h \in Workers /\ job' = [job EXCEPT ![h] = j]
  BY DEF Callback, Workers
<1>3. QED BY <1>1, <1>2, OnlyJobInv DEF Callback

LEMMA QueryAnsweredInv ==
  ASSUME Inv, NEW w \in Workers, NEW a \in Attempts, QueryAnswered(w, a)
  PROVE  Inv'
<1> DEFINE asked == [job[w] EXCEPT !.rest = @ \ {a}]
<1>1. Fits(job[w]) /\ job[w] \in Job
  BY JobFits DEF Fits
<1>2. CASE gateway[a] \in Captured /\ job' = [job EXCEPT ![w] = [asked EXCEPT !.at = "read", !.attempt = a]]
  <2>1. Fits([asked EXCEPT !.at = "read", !.attempt = a])
    BY <1>1, <1>2 DEF Fits, Job
  <2>2. QED BY <1>2, <2>1, OnlyJobInv DEF QueryAnswered
<1>3. CASE job' = [job EXCEPT ![w] = [asked EXCEPT !.at = "do", !.attempt = a, !.todo = << "resolve" >>]]
  <2>1. << "resolve" >> \in Work /\ << "resolve" >> \notin ForCaptured /\ << "resolve" >> \in Seq(Step)
    BY DEF Work, ForAny, ForCaptured, Step
  <2>2. Fits([asked EXCEPT !.at = "do", !.attempt = a, !.todo = << "resolve" >>])
    BY <1>1, <2>1 DEF Fits, Job
  <2>3. QED BY <1>3, <2>2, OnlyJobInv DEF QueryAnswered
<1>4. ASSUME NEW busy \in BOOLEAN, At(w, "ask"), job' = [job EXCEPT ![w] = [asked EXCEPT !.processing = @ \/ busy]]
      PROVE  Inv'
  <2>1. Fits([asked EXCEPT !.processing = @ \/ busy])
    BY <1>1, <1>4 DEF Fits, Job, At
  <2>2. QED BY <1>4, <2>1, OnlyJobInv DEF QueryAnswered
<1>5. QED BY <1>2, <1>3, <1>4 DEF QueryAnswered

LEMMA QueryFailsInv ==
  ASSUME Inv, NEW w \in Workers, NEW a \in Attempts, QueryFails(w, a)
  PROVE  Inv'
<1>1. Fits([job[w] EXCEPT !.rest = @ \ {a}])
  BY JobFits DEF Fits, Job, At, QueryFails
<1>2. job' = [job EXCEPT ![w] = [job[w] EXCEPT !.rest = @ \ {a}]]
  BY DEF QueryFails
<1>3. QED BY <1>1, <1>2, OnlyJobInv DEF QueryFails

LEMMA AllAskedInv ==
  ASSUME Inv, NEW w \in Workers, AllAsked(w)
  PROVE  Inv'
<1>1. Fits([job[w] EXCEPT !.at = "create"])
  BY JobFits DEF Fits, Job
<1>2. CASE job' = [job EXCEPT ![w].at = "create"]
  BY <1>1, <1>2, OnlyJobInv DEF AllAsked
<1>3. CASE Stop(w)
  BY <1>3, IdleFits, OnlyJobInv DEF AllAsked, Stop
<1>4. QED BY <1>2, <1>3 DEF AllAsked

LEMMA CreateRefusedInv ==
  ASSUME Inv, NEW w \in Workers, CreateRefused(w)
  PROVE  Inv'
BY IdleFits, OnlyJobInv DEF CreateRefused, Stop

(* What is planned for an attempt fits the money captured for it.          *)
LEMMA ApplyReadInv ==
  ASSUME Inv, NEW w \in Workers, ApplyRead(w)
  PROVE  Inv'
<1> DEFINE a == job[w].attempt
           j == [job[w] EXCEPT !.at = "do", !.seen = order.status, !.todo = Plan(a)]
<1>1. a \in Attempts /\ gateway[a] \in Captured /\ job[w] \in Job
  BY DEF Inv, HandsOnMoney, ApplyRead, TypeOK
<1>2. Plan(a) \in Work /\ (Plan(a) \in ForCaptured => gateway[a] = "CAPTURED")
  <2>1. CASE gateway[a] = "ODD"
    <3>1. Plan(a) = << "flag", "resolve" >>
      BY <2>1 DEF Plan
    <3>2. << "flag", "resolve" >> \in Work
      BY DEF Work, ForAny
    <3>3. << "flag", "resolve" >> \notin ForCaptured
      <4>1. << "flag", "resolve" >>[1] = "flag"
        OBVIOUS
      <4>2. \A t \in ForCaptured : t[1] # "flag"
        BY DEF ForCaptured
      <4>3. QED BY <4>1, <4>2
    <3>4. QED BY <3>1, <3>2, <3>3
  <2>2. CASE gateway[a] # "ODD" /\ order.status = "CANCELLED"
    <3>1. Plan(a) = << "record", "resolve" >>
      BY <2>2 DEF Plan
    <3>2. QED BY <1>1, <2>2, <3>1 DEF Work, ForCaptured, Captured
  <2>3. CASE gateway[a] # "ODD" /\ order.status # "CANCELLED"
    <3>1. Plan(a) = << "flip" >>
      BY <2>3 DEF Plan
    <3>2. QED BY <1>1, <2>3, <3>1 DEF Work, ForCaptured, Captured
  <2>4. QED BY <2>1, <2>2, <2>3
<1>3. Plan(a) \in Seq(Step) /\ order.status \in Status
  BY <1>2, JobType DEF Inv, TypeOK, Order
<1>4. j \in Job
  BY <1>1, <1>3 DEF Job
<1>5. Fits(j)
  BY <1>1, <1>2, <1>4 DEF Fits, Job
<1>6. job' = [job EXCEPT ![w] = j]
  BY DEF ApplyRead
<1>7. QED BY <1>5, <1>6, OnlyJobInv DEF ApplyRead

-----------------------------------------------------------------------------
(* The steps that write.                                                   *)

LEMMA CreateAtGatewayInv ==
  ASSUME Inv, NEW w \in Workers, NEW a \in Attempts, CreateAtGateway(w, a)
  PROVE  Inv'
<1>1. job' \in [Workers -> Job] /\ gateway' \in [Attempts -> GatewayState]
  <2>1. [job[w] EXCEPT !.at = "record", !.attempt = a] \in Job
    BY JobFits DEF Fits, Job
  <2>2. job' = [job EXCEPT ![w] = [job[w] EXCEPT !.at = "record", !.attempt = a]]
    BY DEF CreateAtGateway, Inv, TypeOK
  <2>3. QED BY <2>1, <2>2 DEF Inv, TypeOK, CreateAtGateway, GatewayState
<1>2. \A b \in Attempts : gateway[b] \in Captured => gateway'[b] = gateway[b]
  BY DEF CreateAtGateway, Inv, TypeOK, Captured
<1>3. HandsOnMoney'
  BY <1>2 DEF Inv, TypeOK, HandsOnMoney, CreateAtGateway, At, Job, Captured
<1>4. OrderSaysPaid' /\ RefundsAreFinal'
  BY <1>2 DEF Inv, TypeOK, OrderSaysPaid, RefundsAreFinal, CreateAtGateway, Refund, Captured
<1>5. QED BY <1>1, <1>3, <1>4 DEF Inv, TypeOK, CreateAtGateway

LEMMA PayInv ==
  ASSUME Inv, NEW a \in Attempts, Pay(a)
  PROVE  Inv'
<1>1. gateway' \in [Attempts -> GatewayState]
  BY DEF Inv, TypeOK, Pay, GatewayState, Captured
<1>2. \A b \in Attempts : gateway[b] \in Captured => gateway'[b] = gateway[b]
  BY DEF Pay, Inv, TypeOK, Captured
<1>3. HandsOnMoney'
  BY <1>2 DEF Inv, TypeOK, HandsOnMoney, Pay, At, Captured
<1>4. OrderSaysPaid' /\ RefundsAreFinal'
  BY <1>2 DEF Inv, TypeOK, OrderSaysPaid, RefundsAreFinal, Pay, Refund, Captured
<1>5. QED BY <1>1, <1>3, <1>4 DEF Inv, TypeOK, Pay

LEMMA RecordAttemptInv ==
  ASSUME Inv, NEW w \in Workers, RecordAttempt(w)
  PROVE  Inv'
<1>1. job' \in [Workers -> Job] /\ HandsOnMoney'
  BY IdleFits, OneJob DEF RecordAttempt, Stop
<1>2. attempt' \in [Attempts -> {"NONE", "OPEN", "RESOLVED"}]
  BY DEF Inv, TypeOK, RecordAttempt
<1>3. QED BY <1>1, <1>2 DEF Inv, TypeOK, OrderSaysPaid, RefundsAreFinal, RecordAttempt

(* A cancelled order gives back what it was paid.                          *)
LEMMA CancelInv ==
  ASSUME Inv, Cancel
  PROVE  Inv'
<1>1. TypeOK'
  BY DEF Inv, TypeOK, Cancel, Order, Status, money
<1>2. HandsOnMoney'
  BY DEF Inv, HandsOnMoney, Cancel, At, money
<1>3. OrderSaysPaid'
  BY DEF Inv, TypeOK, Order, OrderSaysPaid, Cancel, money
<1>4. RefundsAreFinal'
  BY DEF Inv, TypeOK, Order, OrderSaysPaid, RefundsAreFinal, Cancel, money
<1>5. QED BY <1>1, <1>2, <1>3, <1>4 DEF Inv

(* The attempt in hand.                                                    *)
LEMMA InHand ==
  ASSUME Inv, NEW w \in Workers, NEW step, Todo(w, step)
  PROVE  /\ job[w].attempt \in Attempts /\ job[w].todo \in Work /\ job[w] \in Job
         /\ Head(job[w].todo) = step
         /\ job[w].todo \in ForCaptured => gateway[job[w].attempt] = "CAPTURED"
BY DEF Inv, HandsOnMoney, Todo, TypeOK

(* What is left when a step is done fits as well.                          *)
LEMMA DoneFits ==
  ASSUME Inv, NEW w \in Workers, NEW step, Todo(w, step), Done(w), gateway' = gateway
  PROVE  job' \in [Workers -> Job] /\ HandsOnMoney'
<1> DEFINE t == job[w].todo
<1>1. Fits(job[w]) /\ t \in Work /\ job[w] \in Job /\ job[w].at = "do" /\ job[w].attempt \in Attempts
  BY JobFits, InHand DEF Todo, At, Fits
<1>2. CASE Len(t) > 1
  <2>1. t \in {<< "record", "resolve" >>, << "resolve", "record" >>, << "flag", "resolve" >>}
    BY <1>1, <1>2, WorkShapes
  <2>2. Tail(t) \in Work /\ (Tail(t) \in ForCaptured => t \in ForCaptured)
    <3>1. CASE t = << "record", "resolve" >>
      BY <3>1, WorkShapes DEF Work, ForAny, ForCaptured
    <3>2. CASE t = << "resolve", "record" >>
      BY <3>2, WorkShapes DEF Work, ForAny, ForCaptured
    <3>3. CASE t = << "flag", "resolve" >>
      BY <3>3, WorkShapes DEF Work, ForAny, ForCaptured
    <3>4. QED BY <2>1, <3>1, <3>2, <3>3
  <2>3. Tail(t) \in Seq(Step)
    BY <2>2, JobType
  <2>4. Fits([job[w] EXCEPT !.todo = Tail(t)])
    BY <1>1, <2>2, <2>3 DEF Fits, Job
  <2>5. job' = [job EXCEPT ![w] = [job[w] EXCEPT !.todo = Tail(t)]]
    BY <1>2 DEF Done
  <2>6. QED BY <2>4, <2>5, OneJob
<1>3. CASE ~ (Len(t) > 1) /\ job[w].caller = "callback"
  BY <1>3, IdleFits, OneJob DEF Done, Stop
<1>4. CASE ~ (Len(t) > 1) /\ job[w].caller # "callback"
  <2> DEFINE j == [job[w] EXCEPT !.at = "ask", !.attempt = NoAttempt, !.todo = << >>]
  <2>1. j \in Job /\ j.at = "ask"
    <3>1. << >> \in Seq(Step)
      OBVIOUS
    <3>2. QED BY <1>1, <3>1 DEF Job
  <2>2. Fits(j)
    BY <2>1 DEF Fits
  <2>3. job' = [job EXCEPT ![w] = j]
    BY <1>4 DEF Done
  <2>4. QED BY <2>2, <2>3, OneJob
<1>5. QED BY <1>2, <1>3, <1>4

LEMMA ResolveInv ==
  ASSUME Inv, NEW w \in Workers, Resolve(w)
  PROVE  Inv'
<1>1. job' \in [Workers -> Job] /\ HandsOnMoney'
  BY DoneFits DEF Resolve
<1>2. attempt' \in [Attempts -> {"NONE", "OPEN", "RESOLVED"}]
  BY DEF Inv, TypeOK, Resolve
<1>3. QED BY <1>1, <1>2 DEF Inv, TypeOK, OrderSaysPaid, RefundsAreFinal, Resolve

LEMMA FlagMismatchInv ==
  ASSUME Inv, NEW w \in Workers, FlagMismatch(w)
  PROVE  Inv'
<1>1. job' \in [Workers -> Job] /\ HandsOnMoney'
  BY DoneFits DEF FlagMismatch
<1>2. flagged' \subseteq Attempts
  BY InHand DEF Inv, TypeOK, FlagMismatch
<1>3. QED BY <1>1, <1>2 DEF Inv, TypeOK, OrderSaysPaid, RefundsAreFinal, FlagMismatch

(* The flip takes an unpaid order, so nothing has been applied and nothing *)
(* refunded unless the order is cancelled, when the flip does not match.   *)
LEMMA FlipInv ==
  ASSUME Inv, NEW w \in Workers, Flip(w)
  PROVE  Inv'
<1> DEFINE a == job[w].attempt
<1>1. a \in Attempts /\ gateway[a] = "CAPTURED" /\ job[w] \in Job /\ job[w].seen \in Status
  <2>1. job[w].todo = << "flip" >>
    BY InHand DEF Flip, Work, ForCaptured, ForAny
  <2>2. << "flip" >> \in ForCaptured
    BY DEF ForCaptured
  <2>3. QED BY <2>1, <2>2, InHand DEF Flip, Job
<1>2. CASE FlipMatches(w)
  <2>1. job' = [job EXCEPT ![w] = [job[w] EXCEPT !.todo = << "resolve" >>]]
    BY <1>2 DEF Flip
  <2>2. Fits([job[w] EXCEPT !.todo = << "resolve" >>])
    BY <1>1, JobType, JobFits DEF Fits, Job, Work, ForAny, Step
  <2>3. job' \in [Workers -> Job] /\ HandsOnMoney'
    BY <2>1, <2>2, OneJob DEF Flip
  <2>4. order' \in Order /\ order'.status # "CANCELLED" /\ order'.paymentStatus = "PAID" /\ order.paymentStatus = "UNPAID"
    <3>1. order.status \in Status /\ order.status # "CANCELLED"
      BY <1>2 DEF FlipMatches, Inv, TypeOK, Order
    <3>2. order' = [status |-> IF job[w].seen = "PENDING_PAYMENT" THEN "CONFIRMED" ELSE order.status,
                    paymentStatus |-> "PAID"]
      BY <1>2 DEF Flip
    <3>3. QED BY <1>2, <3>1, <3>2 DEF Order, Status, FlipMatches
  <2>5. succeeded' = {a}
    BY <1>2, <2>4 DEF Flip, Inv, OrderSaysPaid
  <2>6. OrderSaysPaid'
    BY <1>1, <2>4, <2>5 DEF OrderSaysPaid, Flip
  <2>7. refunds = {}
    BY <1>2, <2>4 DEF Inv, TypeOK, RefundsAreFinal, Refund, FlipMatches
  <2>8. RefundsAreFinal'
    BY <2>7 DEF RefundsAreFinal, Flip
  <2>9. QED BY <1>1, <2>3, <2>4, <2>5, <2>6, <2>8 DEF Inv, TypeOK, Flip
<1>3. CASE ~ FlipMatches(w)
  <2>1. job' = [job EXCEPT ![w] = [job[w] EXCEPT !.todo = << "resolve", "record" >>]]
    BY <1>3 DEF Flip
  <2>2. Fits([job[w] EXCEPT !.todo = << "resolve", "record" >>])
    <3>1. << "resolve", "record" >> \in Work /\ << "resolve", "record" >> \in Seq(Step)
      BY JobType DEF Work, ForCaptured
    <3>2. [job[w] EXCEPT !.todo = << "resolve", "record" >>] \in Job
      BY <1>1, <3>1 DEF Job
    <3>3. QED BY <1>1, <3>1, <3>2, JobFits DEF Fits, Job, Flip, Todo, At
  <2>3. job' \in [Workers -> Job] /\ HandsOnMoney'
    BY <2>1, <2>2, OneJob DEF Flip
  <2>4. QED BY <1>3, <2>3 DEF Inv, TypeOK, OrderSaysPaid, RefundsAreFinal, Flip
<1>4. QED BY <1>2, <1>3

(* A refund is recorded only for a payment that can no longer be applied.  *)
LEMMA RecordUnappliedInv ==
  ASSUME Inv, NEW w \in Workers, RecordUnapplied(w)
  PROVE  Inv'
<1> DEFINE a == job[w].attempt
<1>1. a \in Attempts /\ gateway[a] = "CAPTURED"
  <2>1. job[w].todo \in Work /\ Head(job[w].todo) = "record"
    BY InHand DEF RecordUnapplied
  <2>2. job[w].todo \in ForCaptured
    BY <2>1 DEF Work, ForCaptured, ForAny
  <2>3. QED BY <2>2, InHand DEF RecordUnapplied
<1>2. job' \in [Workers -> Job] /\ HandsOnMoney'
  BY DoneFits DEF RecordUnapplied
<1>3. flagged' \subseteq Attempts
  BY <1>1 DEF Inv, TypeOK, RecordUnapplied
<1>4. \A r \in Unapplied(a) :
         /\ r \in Refund /\ r.attempt = a /\ a \notin succeeded
         /\ r.kind = "LATE_PAYMENT" => order.status = "CANCELLED" /\ order.paymentStatus = "UNPAID"
         /\ r.kind = "OVERPAYMENT" => order.paymentStatus # "UNPAID"
  BY <1>1 DEF Unapplied, Refund, Inv, OrderSaysPaid
<1>5. refunds' = refunds \cup Unapplied(a) /\ UNCHANGED << order, gateway, attempt, succeeded, crashes >>
  BY DEF RecordUnapplied
<1>6. refunds' \subseteq Refund
  BY <1>4, <1>5 DEF Inv, TypeOK
<1>7. RefundsAreFinal'
  BY <1>1, <1>4, <1>5 DEF Inv, RefundsAreFinal
<1>8. QED BY <1>2, <1>3, <1>5, <1>6, <1>7 DEF Inv, TypeOK, OrderSaysPaid

LEMMA CrashInv ==
  ASSUME Inv, NEW w \in Workers, Crash(w)
  PROVE  Inv'
<1>1. job' \in [Workers -> Job] /\ HandsOnMoney'
  BY IdleFits, OneJob DEF Crash, Stop, money
<1>2. crashes' \in 0 .. MaxCrashes
  BY CrashAssumption DEF Inv, TypeOK, Crash
<1>3. QED BY <1>1, <1>2 DEF Inv, TypeOK, OrderSaysPaid, RefundsAreFinal, Crash, money

LEMMA NextInv ==
  ASSUME Inv, [Next]_vars
  PROVE  Inv'
<1>1. ASSUME NEW h \in Handlers, CreatePayment(h) \/ \E a \in Attempts : Callback(h, a)
      PROVE  Inv'
  BY <1>1, CreatePaymentInv, CallbackInv
<1>2. CASE Reconcile(Cron)
  BY <1>2, ReconcileInv
<1>3. ASSUME NEW w \in Workers, Continue(w)
      PROVE  Inv'
  BY <1>3, QueryAnsweredInv, QueryFailsInv, CreateAtGatewayInv, AllAskedInv, CreateRefusedInv,
     RecordAttemptInv, ApplyReadInv, FlipInv, ResolveInv, RecordUnappliedInv, FlagMismatchInv DEF Continue
<1>4. ASSUME NEW w \in Workers, Crash(w)
      PROVE  Inv'
  BY <1>4, CrashInv
<1>5. CASE \E a \in Attempts : Pay(a)
  BY <1>5, PayInv
<1>6. CASE Cancel
  BY <1>6, CancelInv
<1>7. CASE UNCHANGED vars
  BY <1>7 DEF vars, Inv, TypeOK, HandsOnMoney, OrderSaysPaid, RefundsAreFinal, At
<1>8. QED BY <1>1, <1>2, <1>3, <1>4, <1>5, <1>6, <1>7 DEF Next

-----------------------------------------------------------------------------
(* The invariant holds in every reachable state.                           *)
THEOREM Inductive == Spec => []Inv
<1>1. Inv /\ [Next]_vars => Inv'
  BY NextInv
<1>2. QED BY <1>1, InitInv, PTL DEF Spec

(* Every variable has its type, for any number of attempts and requests.   *)
THEOREM TypeCorrect == Spec => []TypeOK
<1>1. Inv => TypeOK
  BY DEF Inv
<1>2. QED BY <1>1, Inductive, PTL

(* However many attempts are paid at once, one of them pays the order, and *)
(* the order says so exactly then.                                         *)
THEOREM OneAttemptPays == Spec => []PaidByOne
<1>1. Inv => PaidByOne
  <2> SUFFICES ASSUME Inv PROVE PaidByOne
    OBVIOUS
  <2>1. order.paymentStatus \in {"UNPAID", "PAID", "REFUNDED"}
    BY DEF Inv, TypeOK, Order
  <2>2. CASE succeeded = {}
    BY <2>1, <2>2, FS_EmptySet DEF PaidByOne, Inv, OrderSaysPaid
  <2>3. CASE succeeded # {}
    <3>1. PICK a \in succeeded : succeeded = {a}
      BY <2>3 DEF Inv, OrderSaysPaid
    <3>2. Cardinality(succeeded) = 1
      BY <3>1, FS_Singleton
    <3>3. QED BY <2>1, <2>3, <3>2 DEF PaidByOne, Inv, OrderSaysPaid
  <2>4. QED BY <2>2, <2>3
<1>2. QED BY <1>1, Inductive, PTL

(* However often a payment is reported, it pays the order or is refunded   *)
(* for one reason, never two of these, and only captured money does.       *)
THEOREM OneOutcomeEach == Spec => []OneOutcome
<1>1. Inv => OneOutcome
  <2> SUFFICES ASSUME Inv, NEW a \in Attempts
               PROVE  LET outcomes == Cardinality({r \in refunds : r.attempt = a}) + (IF a \in succeeded THEN 1 ELSE 0)
                      IN outcomes <= 1 /\ (outcomes = 1 => gateway[a] = "CAPTURED")
    BY DEF OneOutcome
  <2> DEFINE rows == {r \in refunds : r.attempt = a}
  <2>1. \A r, s \in rows : r = s
    <3>1. \A r \in rows : r \in Refund /\ r.attempt = a
      BY DEF Inv, TypeOK
    <3>2. \A r, s \in rows : r.kind = s.kind
      BY <3>1 DEF Inv, RefundsAreFinal, Refund
    <3>3. QED BY <3>1, <3>2 DEF Refund
  <2>2. CASE rows = {}
    <3>1. Cardinality(rows) = 0
      BY <2>2, FS_EmptySet
    <3>2. QED BY <3>1 DEF Inv, OrderSaysPaid
  <2>3. CASE rows # {}
    <3>1. PICK r \in rows : rows = {r}
      BY <2>1, <2>3
    <3>2. Cardinality(rows) = 1
      BY <3>1, FS_Singleton
    <3>3. a \notin succeeded /\ gateway[a] = "CAPTURED"
      BY <3>1 DEF Inv, RefundsAreFinal
    <3>4. QED BY <3>2, <3>3
  <2>4. QED BY <2>2, <2>3
<1>2. QED BY <1>1, Inductive, PTL
=============================================================================
