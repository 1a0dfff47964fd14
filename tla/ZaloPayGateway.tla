---------------------------- MODULE ZaloPayGateway ----------------------------
(***************************************************************************)
(* The payment attempts of one ZaloPay order.  A web request opens an      *)
(* attempt after asking the gateway about older ones; the gateway takes    *)
(* the money and calls back never, once or many times; a cron asks about   *)
(* attempts without a result.  Callback and query go through the same      *)
(* applyGatewayPayment, while the order may be cancelled at any moment.    *)
(* Money is applied to the order once; any other payment becomes a refund. *)
(***************************************************************************)
EXTENDS Naturals, FiniteSets, Sequences

CONSTANTS Attempts,    \* payment attempts (app_trans_id)
          Handlers,    \* web requests running at once
          Cron,        \* the worker of ZalopayReconcileCron
          MaxCrashes   \* how many times a process may die (a bound for TLC)

Workers == Handlers \cup {Cron}

ASSUME CronAssumption == Cron \notin Handlers
ASSUME CrashAssumption == MaxCrashes \in Nat

VARIABLES order,     \* status and paymentStatus of the order
          gateway,   \* what ZaloPay knows of each attempt
          attempt,   \* its row in payment_attempts: none, open, resolvedAt set
          succeeded, \* attempts with succeededAt
          refunds,   \* rows of order_customer_refunds keyed by an attempt
          flagged,   \* attempts a person has to look at
          job,       \* what each worker is doing
          crashes
money == << gateway, attempt, succeeded, refunds, flagged >>
vars == << order, gateway, attempt, succeeded, refunds, flagged, job, crashes >>

Status == {"PENDING_PAYMENT", "CONFIRMED", "CANCELLED"}
Order == [status : Status, paymentStatus : {"UNPAID", "PAID", "REFUNDED"}]
(* ODD: the money came, but not in the amount that was asked for.          *)
GatewayState == {"NONE", "CREATED", "CAPTURED", "ODD", "FAILED"}
Captured == {"CAPTURED", "ODD"}
Refund == [kind : {"LATE_PAYMENT", "OVERPAYMENT"}, attempt : Attempts]

(* A job: whose call it is, the attempts still to ask about, the attempt   *)
(* in hand, the status read for it, and what is left to do with it.        *)
Step == {"flip", "record", "resolve", "flag"}
NoAttempt == "NONE"
Idle == [at |-> "idle", caller |-> "callback", rest |-> {}, attempt |-> NoAttempt,
         seen |-> "CANCELLED", todo |-> << >>, processing |-> FALSE]
Job == [at : {"idle", "ask", "read", "do", "create", "record"},
        caller : {"callback", "create", "cron"}, rest : SUBSET Attempts,
        attempt : Attempts \cup {NoAttempt}, seen : Status, todo : Seq(Step), processing : BOOLEAN]

Init ==
  /\ order = [status |-> "PENDING_PAYMENT", paymentStatus |-> "UNPAID"]
  /\ gateway = [a \in Attempts |-> "NONE"]
  /\ attempt = [a \in Attempts |-> "NONE"]
  /\ succeeded = {} /\ refunds = {} /\ flagged = {}
  /\ job = [w \in Workers |-> Idle]
  /\ crashes = 0

At(w, at) == job[w].at = at
Stop(w) == job' = [job EXCEPT ![w] = Idle]
OnlyJob == UNCHANGED << order, money, crashes >>

-----------------------------------------------------------------------------
(* createPayment: only for an order that waits for its money, and only     *)
(* after the older attempts have been asked about.                         *)
Unresolved == {a \in Attempts : attempt[a] = "OPEN"}
Waiting == order.status = "PENDING_PAYMENT" /\ order.paymentStatus # "PAID"

CreatePayment(h) ==
  /\ At(h, "idle") /\ Waiting
  /\ job' = [job EXCEPT ![h] = [Idle EXCEPT !.at = "ask", !.caller = "create", !.rest = Unresolved]]
  /\ OnlyJob

(* The cron: every attempt without a result, whatever became of the order. *)
Reconcile(w) ==
  /\ w = Cron /\ At(w, "idle")
  /\ Unresolved # {}
  /\ job' = [job EXCEPT ![w] = [Idle EXCEPT !.at = "ask", !.caller = "cron", !.rest = Unresolved]]
  /\ OnlyJob

(* The gateway's answer about one attempt: paid, failed, or nothing yet    *)
(* (perhaps just being processed, which stops a new attempt).              *)
QueryAnswered(w, a) ==
  LET j == job[w]
      asked == [j EXCEPT !.rest = @ \ {a}]
  IN /\ At(w, "ask") /\ a \in j.rest
     /\ \/ /\ gateway[a] \in Captured
           /\ job' = [job EXCEPT ![w] = [asked EXCEPT !.at = "read", !.attempt = a]]
        \/ /\ gateway[a] = "FAILED"
           /\ job' = [job EXCEPT ![w] = [asked EXCEPT !.at = "do", !.attempt = a, !.todo = << "resolve" >>]]
        \/ /\ gateway[a] = "CREATED"
           /\ \E busy \in BOOLEAN : job' = [job EXCEPT ![w] = [asked EXCEPT !.processing = @ \/ busy]]
     /\ OnlyJob

(* ZaloPay cannot be reached: go on with the next attempt.                 *)
QueryFails(w, a) ==
  /\ At(w, "ask") /\ a \in job[w].rest
  /\ job' = [job EXCEPT ![w].rest = @ \ {a}]
  /\ OnlyJob

(* All asked. The cron is done; a request reads the order again.           *)
AllAsked(w) ==
  /\ At(w, "ask") /\ job[w].rest = {}
  /\ IF job[w].caller = "create" /\ Waiting /\ ~ job[w].processing
     THEN job' = [job EXCEPT ![w].at = "create"]
     ELSE Stop(w)
  /\ OnlyJob

(* ZaloPay opens the transaction first, the row is written afterwards, and *)
(* the customer gets the link last; or ZaloPay refuses.                    *)
CreateAtGateway(w, a) ==
  /\ At(w, "create") /\ gateway[a] = "NONE"
  /\ gateway' = [gateway EXCEPT ![a] = "CREATED"]
  /\ job' = [job EXCEPT ![w].at = "record", ![w].attempt = a]
  /\ UNCHANGED << order, attempt, succeeded, refunds, flagged, crashes >>

CreateRefused(w) ==
  /\ At(w, "create")
  /\ Stop(w)
  /\ OnlyJob

RecordAttempt(w) ==
  /\ At(w, "record")
  /\ attempt' = [attempt EXCEPT ![job[w].attempt] = "OPEN"]
  /\ Stop(w)
  /\ UNCHANGED << order, gateway, succeeded, refunds, flagged, crashes >>

-----------------------------------------------------------------------------
(* ZaloPay and the customer: a payment, its expiry, its callbacks.         *)
Pay(a) ==
  /\ gateway[a] = "CREATED" /\ attempt[a] # "NONE"
  /\ \E outcome \in Captured \cup {"FAILED"} : gateway' = [gateway EXCEPT ![a] = outcome]
  /\ UNCHANGED << order, attempt, succeeded, refunds, flagged, job, crashes >>

Callback(h, a) ==
  /\ At(h, "idle") /\ gateway[a] \in Captured
  /\ job' = [job EXCEPT ![h] = [Idle EXCEPT !.at = "read", !.attempt = a]]
  /\ OnlyJob

(* The order is cancelled; money it holds goes back (OrderLifecycle).      *)
Cancel ==
  /\ order.status # "CANCELLED"
  /\ order' = [status |-> "CANCELLED",
               paymentStatus |-> IF order.paymentStatus = "PAID" THEN "REFUNDED" ELSE order.paymentStatus]
  /\ UNCHANGED << money, job, crashes >>

-----------------------------------------------------------------------------
(* applyGatewayPayment.                                                    *)

(* Mutant: the attempt gets its result before the order.                   *)
PlanResolvingFirst(a) ==
  CASE gateway[a] = "ODD" -> << "flag", "resolve" >>
    [] gateway[a] # "ODD" /\ order.status = "CANCELLED" -> << "record", "resolve" >>
    [] OTHER -> << "resolve", "flip" >>

(* A wrong amount is for a person; a closed order is not revived.          *)
Plan(a) ==
  CASE gateway[a] = "ODD" -> << "flag", "resolve" >>
    [] gateway[a] # "ODD" /\ order.status = "CANCELLED" -> << "record", "resolve" >>
    [] OTHER -> << "flip" >>

ApplyRead(w) ==
  /\ At(w, "read")
  /\ job' = [job EXCEPT ![w] = [@ EXCEPT !.at = "do", !.seen = order.status, !.todo = Plan(job[w].attempt)]]
  /\ OnlyJob

Todo(w, step) == At(w, "do") /\ Head(job[w].todo) = step

(* Drops the step just done; after the last one a callback is over, and a  *)
(* query goes on with the next attempt.                                    *)
Done(w) ==
  IF Len(job[w].todo) > 1 THEN job' = [job EXCEPT ![w].todo = Tail(@)]
  ELSE IF job[w].caller = "callback" THEN Stop(w)
  ELSE job' = [job EXCEPT ![w] = [@ EXCEPT !.at = "ask", !.attempt = NoAttempt, !.todo = << >>]]

(* Mutant: the order is paid on the status that was read.                  *)
FlipOnRead(w) == job[w].seen # "CANCELLED"

(* The WHERE of the flip.                                                  *)
FlipMatches(w) == order.paymentStatus = "UNPAID" /\ order.status # "CANCELLED"

(* In one transaction the order is paid and the attempt marked as its      *)
(* payment. A loser still has to account for the money.                    *)
Flip(w) ==
  /\ Todo(w, "flip")
  /\ IF FlipMatches(w)
     THEN /\ order' = [status |-> IF job[w].seen = "PENDING_PAYMENT" THEN "CONFIRMED" ELSE order.status,
                       paymentStatus |-> "PAID"]
          /\ succeeded' = succeeded \cup {job[w].attempt}
          /\ job' = [job EXCEPT ![w].todo = << "resolve" >>]
     ELSE /\ UNCHANGED << order, succeeded >>
          /\ job' = [job EXCEPT ![w].todo = << "resolve", "record" >>]
  /\ UNCHANGED << gateway, attempt, refunds, flagged, crashes >>

Resolve(w) ==
  /\ Todo(w, "resolve")
  /\ attempt' = [attempt EXCEPT ![job[w].attempt] = "RESOLVED"]
  /\ Done(w)
  /\ UNCHANGED << order, gateway, succeeded, refunds, flagged, crashes >>

(* Mutant: a callback sent again is not recognized.                        *)
UnappliedAgain(a) ==
  CASE order.paymentStatus = "UNPAID" -> {[kind |-> "LATE_PAYMENT", attempt |-> a]}
    [] OTHER -> {[kind |-> "OVERPAYMENT", attempt |-> a]}

(* The refund a payment that was not applied becomes; none when it is the  *)
(* very payment that was applied. Rows are unique by kind and attempt.     *)
Unapplied(a) ==
  CASE order.paymentStatus = "UNPAID" /\ order.status = "CANCELLED" -> {[kind |-> "LATE_PAYMENT", attempt |-> a]}
    [] order.paymentStatus # "UNPAID" /\ succeeded # {} /\ a \notin succeeded -> {[kind |-> "OVERPAYMENT", attempt |-> a]}
    [] OTHER -> {}

RecordUnapplied(w) ==
  LET a == job[w].attempt
  IN /\ Todo(w, "record")
     /\ refunds' = refunds \cup Unapplied(a)
     /\ flagged' = IF order.paymentStatus # "UNPAID" /\ succeeded = {} THEN flagged \cup {a} ELSE flagged
     /\ Done(w)
     /\ UNCHANGED << order, gateway, attempt, succeeded, crashes >>

(* Mutant: the worker lets go of the attempt before it is noted.           *)
FlagTooLate(w) ==
  /\ Todo(w, "flag")
  /\ Len(job[w].todo) = 2 /\ job' = [job EXCEPT ![w] = [@ EXCEPT !.todo = << "resolve" >>, !.attempt = NoAttempt]]
  /\ flagged' = flagged \cup {job'[w].attempt}
  /\ UNCHANGED << order, gateway, attempt, succeeded, refunds, crashes >>

FlagMismatch(w) ==
  /\ Todo(w, "flag")
  /\ flagged' = flagged \cup {job[w].attempt}
  /\ Done(w)
  /\ UNCHANGED << order, gateway, attempt, succeeded, refunds, crashes >>

-----------------------------------------------------------------------------
Crash(w) ==
  /\ crashes < MaxCrashes
  /\ ~ At(w, "idle")
  /\ crashes' = crashes + 1
  /\ Stop(w)
  /\ UNCHANGED << order, money >>

Continue(w) ==
  \/ \E a \in Attempts : QueryAnswered(w, a) \/ QueryFails(w, a) \/ CreateAtGateway(w, a)
  \/ AllAsked(w) \/ CreateRefused(w) \/ RecordAttempt(w)
  \/ ApplyRead(w) \/ Flip(w) \/ Resolve(w) \/ RecordUnapplied(w) \/ FlagMismatch(w)

Next ==
  \/ \E h \in Handlers : CreatePayment(h) \/ \E a \in Attempts : Callback(h, a)
  \/ Reconcile(Cron)
  \/ \E w \in Workers : Continue(w) \/ Crash(w)
  \/ \E a \in Attempts : Pay(a)
  \/ Cancel

Spec == Init /\ [][Next]_vars

(* The cron runs every five minutes and finishes its round; ZaloPay does   *)
(* answer about an attempt that is asked about again and again. Neither    *)
(* callbacks nor web requests are promised anything.                       *)
Fairness ==
  /\ WF_vars(Reconcile(Cron)) /\ WF_vars(Continue(Cron))
  /\ \A a \in Attempts : SF_vars(QueryAnswered(Cron, a))
FairSpec == Spec /\ Fairness

-----------------------------------------------------------------------------
(* Every variable has its type.                                            *)
TypeOK ==
  /\ order \in Order
  /\ gateway \in [Attempts -> GatewayState]
  /\ attempt \in [Attempts -> {"NONE", "OPEN", "RESOLVED"}]
  /\ succeeded \subseteq Attempts /\ flagged \subseteq Attempts
  /\ refunds \subseteq Refund
  /\ job \in [Workers -> Job]
  /\ crashes \in 0 .. MaxCrashes

(* An order is paid by one attempt only, and says so exactly then: two     *)
(* callbacks, a query and a cancellation racing never apply two payments.  *)
PaidByOne ==
  /\ Cardinality(succeeded) = (IF order.paymentStatus = "UNPAID" THEN 0 ELSE 1)
  /\ order.status = "CANCELLED" => order.paymentStatus # "PAID"

(* A payment has one outcome: it pays the order, or it is refunded as late *)
(* or as too much, never two of these, however often it is reported; and   *)
(* only captured money, in the right amount, has one.                      *)
OneOutcome ==
  \A a \in Attempts :
    LET outcomes == Cardinality({r \in refunds : r.attempt = a}) + (IF a \in succeeded THEN 1 ELSE 0)
    IN outcomes <= 1 /\ (outcomes = 1 => gateway[a] = "CAPTURED")

(* Money captured for an open order pays it: even when its callback is     *)
(* lost and processes die, the order does not wait for ever (callback and  *)
(* query resolve an attempt only after the flip).                          *)
OpenOrderGetsPaid ==
  \A a \in Attempts :
    gateway[a] = "CAPTURED" /\ order.paymentStatus = "UNPAID" ~>
      order.paymentStatus # "UNPAID" \/ order.status = "CANCELLED"

(* Every payment captured is accounted for in the end: it pays the order   *)
(* or becomes a refund (zalopay-reconcile.cron.ts:12-17).                  *)
CapturedIsAccountedFor ==
  \A a \in Attempts :
    gateway[a] = "CAPTURED" ~> a \in succeeded \/ \E r \in refunds : r.attempt = a
=============================================================================
