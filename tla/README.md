# TLA+ models of the Tubu Tree order backend

Tubu Tree is an e-commerce monorepo: `apps/api` (NestJS, Prisma on Postgres,
BullMQ on Redis) serves a web shop (`apps/web`), a Zalo mini app
(`apps/miniapp`) and the back office, and talks to four outside parties:
**Pancake** (the POS that holds stock and ships orders), **Gomdon** (a carrier
for orders with a recycling pick-up), **ZaloPay** and the customers' banks.
Everything that can go wrong between actors goes wrong in `apps/api`: many
request handlers, queue jobs and cron runs read the same rows, wait for an
outside answer, and write later. This directory models that part of it, checks
the models with TLC and proves the central claims with TLAPS.

Paths below are relative to `apps/api/src` unless they start with `apps/`.

## 1. Inventory

### 1.1 Components of the order core

| component | state it keeps | operations | talks to |
|---|---|---|---|
| order status table (`modules/orders/order-transition.ts`) | none | what may follow a status, payment before fulfilment, has the order been handed over | called by every writer of an order |
| order status writers (`order-status.service.ts`, `orders.service.ts`, `pending-payment-expiry.cron.ts`, admin, merchant) | `orders.status`, `paymentStatus`, `shippedAt`, `shippingCode`, `autoCancelBlockedAt` | `setStatus`, `cancelOrder`, `markPaid`, expiry of unpaid orders | Pancake (asked before a cancellation), order reversal, order effects |
| order reversal (`order-reversal.service.ts`) | stock, refunds, `orders.paymentStatus` | `reverseFinancials` inside the closing transaction | called by the writers and by returns |
| returns (`order-returns.service.ts`, `customer-refunds.service.ts`) | `return_requests`, `order_customer_refunds` | request, reject, approve, receive; accounting confirms or dismisses held money | order reversal |
| refund queue (`order_customer_refunds`) | one row per refund owed | unique rows for late and excess payments | ZaloPay, returns, accounting |
| order effects (`order-status.service.ts`, two resync crons) | `deliveredEffectsAt`, `reversalEffectsAt` | points, commission, water after a delivery or a closing | loyalty, affiliate, game |
| points (`modules/loyalty`) | point rows by order | credit, reversal, lots, expiry, tiers | order effects, checkout |
| affiliate commissions (`modules/affiliate`) | commission rows, wallet | lock, approve when due, payout, reject | order effects, wallet |
| garden game (`modules/game`) | water rows, profiles | grant for a checkout group, take back, claim | order effects |
| ZaloPay payments (`modules/integrations/payment`) | `payment_attempts` | create, callback, query, reconcile cron | ZaloPay, orders, refund queue |
| bank transfers | - | QR code, the customer's notice, confirmation (`markPaid`) | orders |
| Pancake webhooks (`modules/integrations/pancake`) | columns of the order | status, waybill, full and partial return | `setStatus` |
| Pancake push (`pancake-order.service.ts`, `pancake-sync-hooks.ts`, its jobs and cron) | `pancakeOrderId`, `pancakePushStatus` and its moments, the mark of the last create command, `pancakeCancelStatus` | push an order with retries, report its payment, cancel it there before or after it is cancelled here | Pancake, order status writers |
| Pancake catalogue sync | the catalogue, a lock | import products and stock | Pancake, run lock |
| Gomdon carrier (`modules/integrations/gomdon`) | `gomdonStatus`, waybill | claim, create, reports, reconciliation | `setStatus` |
| cron leader (`common/cron-leader`) | row `cron` of `cron_leases` | acquire or renew, release, start and stop the jobs of a process | every `@Cron` |
| run lock (`common/cron-leader/run-exclusive.ts`, `run-lease.ts`) | rows `run:<key>` of `cron_leases` | claim, renew, release | long jobs |
| checkout, cart, stock, flash sale, coupons, wallet (`modules/checkout`, `cart`, `flash-sale`, `coupons`, `wallet`) | cart lines, quantities, quotas, uses, purses, the idempotency key | edit a cart, place an order, answer a repeated press; give back on closing | order reversal |
| subscriptions (`modules/subscriptions`) | rows of `subscriptions`: status, `nextRunAt`, interval, retries | create, stop, resume, skip, change the interval; the sweep of 03:00 | checkout (it places orders), cron leader |
| dealer credit | debits and a limit | orders on credit | orders |

Other components (waste exchange, external points, group buy, accounts,
catalogue, messaging, content, back office, the clients) are listed in
`PROJECT.json` with what is planned for them or why they are left out.

### 1.2 How they interact

```
 customer / staff / shop ----+                     +--> order reversal (same transaction)
 Pancake, Gomdon webhooks ---+--> order writers ---+--> order effects  (after the commit)
 expiry cron ----------------+        |  ^               points, commission, water
 ZaloPay callback, cron ----- payment flip |             ^
                                      v  |               +-- two resync crons (by the marks)
                              Pancake asked before a cancellation
 every cron runs only in the process that holds the lease of the cron leader
```

The shared state is rows of Postgres. A worker is a request, a queue job or a
cron run; it follows one pattern everywhere: **read the row, judge it, perhaps
wait for an outside answer, then write with a `WHERE` that repeats what the
judgement relied on**. Whether the `WHERE` repeats enough is the question of
most of these models. What comes after the commit is a chain of transactions
that may stop anywhere; a column on the order (a *mark*) and a cron repeat it.

### 1.3 Hard behaviours

`PROJECT.json` lists them under "hazards", each at the line where it bites.
In groups:

* **stale judgement**: the order changed while Pancake was asked, between the
  read and the flip of a payment, or between a carrier's read and its waybill;
* **unguarded helpers**: `reverseFinancials` restocks and refunds whenever it is
  called; only one of several racing closers may call it;
* **messages late, twice, never, or out of order**: ZaloPay callbacks, Pancake's
  and Gomdon's webhooks, a payment for a cancelled order;
* **partial failure and crashes** between the commit and its effects, and
  between the two writes of a gateway payment;
* **two ways to give the same money back**: an automatic refund and a refund
  staff paid by hand after Pancake's partial return;
* **rows locked one after the other** by checkouts and cancellations: a count
  that is compared before it is locked, two orders of locking that form a circle;
* **a command without an answer**: an order at Pancake that was made by a call
  nobody waits for any more, found late, cancelled on one side only;
* **a date moved by two hands**: a subscription's customer and its nightly sweep;
* **liveness**: an unpaid order Pancake refuses to cancel, a closed order whose
  effects failed, a payment whose callback is lost, a delivery that is due, a
  leader that died;
* **leases**: a process learns late that it lost one.

### 1.4 What makes each component correct

* order core: a status only moves along the table; goods never travel before
  prepaid money arrived; a closed order is frozen, has its goods back in stock
  once and keeps no paid money; nobody cancels what a carrier holds; abandoned
  orders leave; all of it together looks like single atomic steps;
* effects: a mark never lies; everything unmarked is marked in the end; the
  wallet holds exactly the paid commissions; group water goes back;
* payments: an order is paid by one attempt; every other payment has at most
  one refund; an open order that was paid for gets paid;
* checkout: every counter is what the living orders took and within its limit; a
  line of a cart and an idempotency key make one order each; nobody deadlocks;
* Pancake push: one order there for one order here, paid there when it is marked
  so, and no cancellation forgotten on either side (a death in one place loses
  one: finding 5);
* subscriptions: no two deliveries in a row, unless requests cross in one of three
  ways (finding 6), and none dropped without a word;
* leases: at most one process leads, the lead comes back, exclusive runs do not
  overlap unless a lock ran out, and a run that lost its lock is told.

## 2. Modules

| module | what it is |
|---|---|
| `OrderTransition` | pure rules: statuses, the payment gate, carriers, the hand-over |
| `OrderLifecycle` | one order row and all its concurrent writers (EXTENDS `OrderTransition`) |
| `OrderSettlement` | the abstract promise: the order changes hands atomically (EXTENDS `OrderTransition`) |
| `OrderEffects` | what follows a delivery or a closing; the packages of one checkout |
| `Checkout` | carts, checkouts and cancellations as transactions that lock rows |
| `CheckoutSales` | the abstract promise: an order is sold, and taken back, in one step |
| `ZaloPayGateway` | the payment attempts of one order |
| `PancakePush` | one order on its way to Pancake, and off it again |
| `Subscriptions` | one subscription, its customer and its nightly sweep |
| `CronLeader` | the timed lease of the process that runs the crons |
| `RunExclusive` | the lock of one exclusive job |
| `MC*` | small instances of the above for TLC |
| `*_proofs` | theorems about the module each is named after (`CronLeases_proofs`: about `CronLeader` and `RunExclusive`, the two locks of table `cron_leases`); every module with state has its theorems |

How they fit: `Checkout` ends where an order exists, with a cancellation that
has won its flip; who wins the flip is `OrderLifecycle`'s subject, and what
follows it is `OrderEffects`'. `ZaloPayGateway` and `PancakePush` look at the
same order from the side of one outside party: they keep of its status only
what that party's code reads. `OrderLifecycle` in turn lets Pancake answer
anything. Composing them into one state would multiply independent histories;
instead, what one module assumes of another is an action of it that may happen at
any time (`Leave`, `Pay`, `Flip` in `PancakePush`; a lost payment race in
`ZaloPayGateway`).

### 2.1 OrderLifecycle

`order` is the row of table `orders`, reduced to the columns its rules read.
Values are grouped by what the rules tell apart: `shippingCode = "CARRIER"` is
any waybill that Pancake or a shop assigned, and the numeric Gomdon codes are
seven classes (see the comment in `OrderTransition`). `books` counts what
was given back (stock, refunds, a sum held for accounting); `returnRequest` is
the newest request for a return of the whole order. `job[w]` is what worker `w`
is doing: the step `at`, the request, and `seen`, its copy of the row.

| action | code |
|---|---|
| `StaffRequest`, `MerchantRequest`, `PancakeStatus`, `PancakeReturned`, `GomdonReport`, `ExpiryScan` | the callers of `setStatus` and what each reads first |
| `SetStatusRead` | `setStatus` to the end of its checks: nothing to do, refused, refused because handed over, or on to Pancake or the flip |
| `PrecheckAgrees`, `PrecheckUnreachable`, `PrecheckHandedOver`, `BlockAutoCancel` | `precheckPancakeCancel`: every answer, the nested resync, and the mark `autoCancelBlockedAt` |
| `FlipWins`, `FlipLoses` | the guarded `updateMany` and `reverseFinancials` in its transaction |
| `CustomerCancel`, `CustomerCancelTx` | `cancelOrder`: an early check, Pancake, the check under the row lock |
| `MarkPaid`, `MarkPaidRead`, `MarkPaidWins`, `MarkPaidLoses` | `markPaid` with its three tries |
| `GatewayPaid`, `GatewayFlip` | the payment flip of ZaloPay as the order sees it |
| `WaybillRead`, `WaybillWrite`, `GomdonClaim`, `GomdonCreated` | the two carriers |
| `ReturnRequestRead` ... `ReceiveReturn`, `PartialReturnRead`, `PartialReturnMark`, `SettleHeld` | returns, Pancake's partial return, accounting |
| `Crash` | a process dies; what it held in memory is gone |

One database transaction is one step: the transactions concerned either lock
the row or write it with one guarded statement. Between the steps of a worker
any other worker may act. Pancake, the carriers and the customers are
environments: they may say anything the code is prepared to hear. Amounts,
lines, points, coupons, addresses and messages are left out. The constant
`Callers` says which groups of callers meet which kind of order, so that a run
explores those that interfere. It restricts runs, not proofs: the theorems hold
for any value of it, so also with all callers at once.

`OrderSettlement` has neither workers nor copies. Its `Close` settles goods and
money in the step that closes the order. `SettlementSpec` in `OrderLifecycle`
is its specification under the mapping "the row is the status, the payment and
the books; the goods are out while a return is approved and not received".

### 2.2 OrderEffects

The orders are the packages of one checkout: one customer, one referrer, one
grant of water for the group. A worker runs the chain of
`runDeliveredEffects` (points, commission hold, water, mark) or of
`reverseClosedOrderEffects` (points, commission, water, mark); each step is a
transaction that may fail (`StepFails`) or be the last one (`Crash`). `path`
distinguishes a shop's or Pancake's closing, the customer's `cancelOrder`
(which has no water step), and a repeated request (which writes no mark when it
reverses). `DeliveredResync` and `ReversalResync` are the crons. `ApproveDue`,
`RequestPayout` and `OpenGame` are the other writers of the same rows. How a
status may change is `OrderLifecycle`'s subject; here an order is open,
delivered or closed.

### 2.3 Checkout

A *submit* is one press of "place the order", `submit[s]` its progress, the cart
it read, what it is about to take (`uses`), its Idempotency-Key and its answer.
`taken` counts each resource: stock of a variation, quota and per-customer
purchases of a flash-sale item, uses of a coupon in all and per customer, Green
Points and the wallet. A transaction (`PLACE` or `CANCEL` of a submit) has
locks it `held` and a `todo` of locks it will ask for, in the order in which the
code's statements touch the rows; `PlaceRank` and `CancelRank` are those two
orders. Postgres's row locks are modelled with their modes, because the foreign
key of an order takes `KEY SHARE` on its customer and a debit of points takes
`UPDATE` on the same row. What a transaction writes is seen only after its
commit, so a lock and its condition are one step (`TakeLock`) and all writes are
made at the end (`Place`, `Cancel`).

| action | code |
|---|---|
| `KeyLookup`, `Replay` | the first lookup of the key in `placeOrder`, and its refusals |
| `ReadCart` | the cart, prices and balances as read before the transaction; `recentlyPlacedOrder` for an empty cart |
| `TakeLock`, `Place` | the transaction: lock of the cart, stock, quotas, key, points, wallet, coupon, and the commit |
| `AfterFailure` | the catch: the winner's order for a lost key or cart, the latest order for a consumed cart |
| `StartCancel`, `TakeCancelLock`, `Cancel` | `reverseFinancials` as the opposite of a checkout |
| `AddLine`, `ChangeLine`, `RemoveLine` | the cart, edited at any moment without its lock |
| `CrashPlace`, `CrashCancel` | a process that dies or a broken connection: rolled back, nobody answered |

`CheckoutSales` is what a customer and an accountant may believe: `Sell` takes,
in one step, resources that are left in that step and lines that nobody bought,
under a key that no order has; `TakeBack` gives back all of it, once; an `Edit` of a
cart brings no sold line back. The reads before the transaction, the locks, the
failures and the second presses are stutters there. The refinement mapping gives
each placed order a `sale`: what its submit took (`uses`), the cart lines it was
made of, and its key.

### 2.4 PancakePush

`row` is the order's row as the push sees it: status, payment, `pancakeOrderId`
(`id`, a position in `made`), push status, whether it carries the mark of a
create command (`sent`), what was reported as paid (`synced`), the answer to
a cancellation, and whether all that follows a cancellation is done (`done`, the
column `reversalEffectsAt`). The code compares moments: a run writes only while the moment of
the last attempt is the one it wrote. Of moments the model keeps whose they are
(`run[r].holds`) and whether the lease and the window of a command are over
(`past`). `made` are the orders at Pancake; `late` counts create commands that
nobody waits for any more and that may still take effect. A run's steps are
those of `pushOrder`:

| action | code |
|---|---|
| `StartPush`, `Skip`, `MarkStale`, `Claim` | the gate and the claim of the right to push |
| `ReadMark`, `Mark`, `ReleaseSettling`, `SendAgain` | the mark of a create command, written by compare-and-set before each one |
| `Lookup`, `Accept`, `Refuse`, `NoAnswer`, `LateEffect`, `Index` | the look-up by code, the command, and all that may become of it |
| `ClearMark`, `WriteAttemptError`, `MarkPushFailure`, `SaveCreated`, `AfterSave` | the ends of a run |
| `ReportPayment`, `PaymentReported` | `syncPayment` |
| `MarkOverdue`, `StampBatch`, `RetryPushByAdmin` | the cron of retries and the button of the back office |
| `PrecheckCancel` ... `FlagDivergence` | `precheckPancakeCancel` and `afterLocalCancel` (`pancake-sync-hooks.ts`) |
| `MarkReversalDone`, `ResyncReversal` | the mark at the end of a cancelling request, and the cron that takes up a cancelled order without it |
| `StartCancelJob` ... `JobSettles` | `cancelOnPancake` and its job |
| `LeaseEnds`, `WindowEnds` | time |
| `Crash`, `AskerDies`, `JobDies` | the death of the process of a run, a cancelling request, a job, each at any of its steps |

The lease may run out at any moment. The window of a command may not: the model
assumes, as the code does, that five minutes are enough for a command to be sent, take
effect and be found (`WindowEnds` waits for that). A death of the cancelling
request after its flip is repaired: `reversalEffectsAt` is still null, so
`ReversalEffectsResyncCron` runs the end of the cancellation again, and
`resyncReversalEffects` queues the cancellation at Pancake if no answer is
written (`order-status.service.ts:655-656`). The cron leaves an order alone until
the request has had five minutes (`REVERSAL_EFFECTS_GRACE_MINUTES`); that a
request is over by then is an assumption of the model (`ResyncReversal` waits
for `asker` to be idle). A death of the *run* between its save and its second
read of the order is not repaired by anything: finding 5.

### 2.5 Subscriptions

Time is counted in days, and a day is before or after three o'clock. `sub` is
the row, `sweep` the nightly `processDue` with the row it read, `edits[q]` what
request `q` of the customer, which has read the row, will write. The sweep is
`StartSweep`, `ScanPage`, `ClaimCycle` (the date moves first), `PlaceOrder` or
`PlaceNothing`, `CheckWritten` (was it written although an error came back?),
`Postpone` (`retryOrSkipCycle`), `PauseSubscription`; `CutOff` is its death.
`ReadToResume`, `ReadToStop`, `ReadToSkip` and their writes are the endpoints
that write by id, whatever the status was; `ChangeInterval` works under the row's
lock. No guard keeps a request from another one or from the sweep: any number of
requests may be under way (the constant `Requests`), before, between and after
the steps of a sweep. `heard` says that the customer got an order, a message or an
answer since three o'clock. `crossed` is a history variable that no guard reads.
It becomes true when a request begins while another is under way, when anything is
asked for after the interval was changed between a claim and its order, and when a
subscription that runs is resumed.

### 2.6 ZaloPayGateway

`gateway` is what ZaloPay knows of an attempt, `attempt` its row in
`payment_attempts`, `succeeded` the column `succeededAt`, `refunds` the unique
rows by kind and attempt. A worker asks about attempts one by one and applies
an answer in the steps of `applyGatewayPayment` (`todo`): the flip, then the
result on the attempt, then the refund when the flip lost, or the other way
round when the order was already closed when read. A process may die between
any two. A payment in another amount (`ODD`) goes to a person. An attempt can be paid only after its row was written, because
the payment link reaches the customer with the answer to the same request.

### 2.7 CronLeader and RunExclusive

In `CronLeader` time is a number: `Elapse` takes one unit off every timer and
lease and cannot pass a timer that is due or a statement that must have been
answered. `Tick`, `TryAcquire` and `Answered` are the sending, the execution in
Postgres and the answer of the one statement of `tick()`; `Fails` is an error
before or after execution. A statement may outlive its process. The deployed
times are a renewal every 30 s and a lease of 90 s.

In `RunExclusive` time is not measured: `Lapse` lets the lock run out at any
moment, which covers every timing, also those where the process renews in time.
That is sound for its safety properties and says nothing of when a lock is lost.

`MCCron` extends both and `Subscriptions`, a job that the leader starts. They
share no state, so it explores each by itself (variable `part`) rather than the
product of the three; that one sweep runs at a time is what the lead provides.

## 3. Model checking

`tlc -config <cfg> <module>`; distinct states and seconds on two workers.

| run | configuration | states | what it shows |
|---|---|---|---|
| order_status | `MCOrderLifecycle` | 2 227 941 (91 s) | Nine kinds of orders, each with the callers that write the same columns, and a crash: bank transfers confirmed while staff, the customer and Pancake act; a partner shop's gateway and cash orders; two carriers; returns of all kinds. The safety of the core and the refinement of `OrderSettlement`. |
| rewards | `MCRewards` | 1 665 447 (164 s) | Two packages with two faults, closed by the shop: the marks never lie, the wallet holds the paid commissions, group water goes back. And one package with two requests and both ways of closing: with the two crons alone being fair, a closed order is undone and a delivered one rewarded. |
| effects_water | `MCOrderEffectsWater` | violation | Finding 2 below. |
| unpaid_orders | `MCUnpaidOrders` | 296 511 (122 s) | Two payment attempts, lost and repeated callbacks, cron, cancellation, a crash: one payment pays, others have at most one refund, an open order gets paid. And an order by transfer: with the cron alone being fair, it is paid, cancelled or marked for a person. |
| zalopay_lost_refund | `MCZaloPayGatewayLost` | violation | Finding 1 below. |
| cron_lease | `MCCron` | 1 034 760 (129 s) | One leader, the lead comes back, runs overlap only when a lock ran out, a loss is real and never hidden; a subscription does not deliver twice in a row unless requests crossed, and drops nothing silently. |
| cron_next_day | `MCCronNextDay` | violation | Finding 6 below. |
| checkout | `MCCheckout` | 1 174 114 (135 s) | A customer who presses twice and one who wants the same goods, with points, wallet, coupon and flash sale, cancellations, deaths and an edit of the cart: the books balance, nothing is bought twice, no circle of locks; the refinement of `CheckoutSales`. |
| checkout_replay | `MCCheckoutReplay` | violation | Finding 3 below. |
| pancake_push | `MCPancakePush` | 7 683 964 (180 s) | Two runs push one order while its payment, a cancelling request, its job, the hand-out, the crons of retries and of unfinished cancellations, lost and late answers come in between, and deaths at any step: one order there, paid when it says so, and a cancellation forgotten only in the three cases that the property names. |
| pancake_absent | `MCPancakePushAbsent` | violation | Finding 4 below. |
| pancake_forgotten | `MCPancakePushForgotten` | violation | Finding 5 below. |

Three MC modules put parts without common state into one run: `MCRewards` and
`MCUnpaidOrders` (a safety instance and a liveness instance) and `MCCron`. A
variable `part` says which part takes steps, so the states add up and do not
multiply, and a property of one part is about the behaviours in which that part
moves.

### 3.1 Properties

`StatusOnlyMovesForward`, `ClosedIsFrozen`, `UnpaidPrepaidHeld`,
`StockReleasedOnce`, `NoPaidMoneyKept` and `OneWayOut` are the core of
`OrderLifecycle`; `ExpiryNeverCancelsPaid`, `NoCancelAfterHandover` and
`HandRefundNotRepeated` say of single steps what may not be done on an old
judgement; `AbandonedOrderLeaves` is its liveness. `OrderEffects`:
`ReversalMarkHonest`, `DeliveredMarkHonest`, `WalletHoldsPaid`,
`GroupWaterTakenBack`, and the liveness `EffectsAreDone` (`ResyncsGetThere` in
`MCRewards`).
`Checkout`: `BooksBalance`, `CartBoughtOnce`, `NoWaitCycle`, and `SalesSpec`
(which contains `KeyPlacesOnce`).
`ZaloPayGateway`: `PaidByOne`, `OneOutcome`, `OpenOrderGetsPaid`
(`CapturedOrderGetsPaid` in `MCUnpaidOrders`).
`PancakePush`: `OneWarehouseOrder`, `PaidThere`, `NothingForgotten`,
`StaleKept`. `Subscriptions`: `ApartUnlessCrossed`, `DueIsHeard`. Leases:
`OneLeader`, `LeadComesBack`, `OneRun`, `LossIsReal`, `LockIsTakenOnce`. The
comment at each definition states it and the code it is about. Beside the
definitions that translate the code stand *mutants*: the same definition as a
plausible mistake would have it (a flip by id, a mark written too early).
`PROJECT.json` pairs every property with a mutant under which TLC finds it
violated, so no property holds because nothing could break it.

`HandRefundNotRepeated` is about the order's row at the very step of the flip:
`ManualPartialReturn` is read in the closing transaction, so that a mark
written after the return was judged still holds the money back.

`NoWaitCycle` is checked in every state over every set of waiting transactions:
checkouts and cancellations ask for their rows in two different orders
(quotas before purchases, or item by item), and it is only because an earlier
row always covers the later ones that no circle closes. `NothingForgotten` is
about quiet states, in which neither a run nor a request is under way: the two
systems agree, or the row says that they do not. It has three exceptions, each kept
as narrow as the code's gap is: a run died between its save of a cancelled order
and its second read of it (`cut`, finding 5); Pancake's answer to the cancelling
request was lost on the way, or died with that request before it was written
(`lost`: a person gets an error, or nothing, and asks again); a cancelled order
got a second order at Pancake (after finding 4). `NoCancelMissed` is the first
half without exceptions, as the comment in the code has it; TLC refutes it.

`ApartUnlessCrossed` likewise has exactly the crossings that lose the distance of
two orders. Outside them the customer may stop, resume, skip and change as often
as he likes, with any of these requests read before and written after any step of
a sweep. `OrdersApart` is the claim without them.

### 3.2 Bounds, and why they are enough

* **Workers**: two handlers and the cron. Every hazard listed is one worker
  writing between another's read and write; two handlers and the cron give
  three-way races (a payment, a cancellation and the cron). The theorems cover
  any number.
* **One order** in `OrderLifecycle`: no writer looks at two orders at once. **Two
  packages** in `OrderEffects`: group water is the only thing that joins
  orders, and two are the first group in which one may be left over.
* **Callers per kind of order** (`StatusCallers`): groups that write the same
  columns. All kinds of orders that differ in a rule appear: prepaid by transfer,
  by gateway, by wallet, cash, dealer credit, placed for a customer, partner
  shop, recycling pick-up. VNPay and XU orders are in the types and in the
  proofs, but not in the instance: the rules treat VNPay as any prepaid order,
  and XU differs only in `WithholdsPrepaid`.
* **Checkout**: three submits of two customers, two goods, each on sale with one
  piece of quota; of one good there are two pieces. Each purse and each coupon
  has one use. So every limit is contended and the last one of it is taken. A submit takes one unit of
  a resource: a larger quantity reaches the limit sooner and in the same step.
  `MaxChanges = 1` edit of a cart is the one that comes between the computation
  and the lock. The second run has three submits with two keys and no scarcity.
* **PancakePush**: two runs at once and any number after each other. `MaxMade = 2`
  orders at Pancake: one too many is what the invariant forbids, and a cancelled
  order may get a second one. One order, since no statement of the push looks at two.
* **Subscriptions**: intervals of 4 and 5 days stand for weeks. What matters is
  that an interval is longer than the nights that may pass without a sweep
  (`MaxDown`, one) and the retries (`MaxRetries`, one, a day apart), as
  `IntervalsAssumption` says; seven days and more are. `LastDay = 5` reaches a
  second order, its retry and a skip. TLC has one request that reads and writes
  later (`Requests`), beside the change of interval, which takes one step: a second
  one under way is a crossing, and by then `ApartUnlessCrossed` claims nothing.
  The theorem is for any number. A request does not last from one day to the next.
* **Crashes and faults**: `MaxCrashes`, `MaxFaults`, at most one or two (three
  for leases). A second crash of the same worker meets the same states again.
* **Attempts**: two payments; a third is one more loser.
* **Times**: `Ttl = 6`, `Renew = 2`, `Delay = 2` is the deployed ratio 90 : 30
  with answers within 30 s. TLC finds two leaders as soon as `Renew + 2 * Delay`
  exceeds `Ttl`, so the assumption is as weak as it can be. The deployed
  connection string has `pool_timeout=30` (`docker-compose.prod.yml:67`, at the root of the repository): a
  statement may wait 30 s for a connection alone, which leaves nothing for the
  statement itself. The lease is safe under the assumption that an answer comes
  within 30 s in all; nothing in the code enforces it.
* **Symmetry** of handlers, orders and requests is used in safety runs only.

### 3.3 Fairness

* unpaid_orders, the transfer: only the cron worker, weakly: it runs every few minutes, and the
  call to Pancake has a timeout. Handlers may stop for good anywhere.
* rewards, the single package: strong fairness of each cron *per order* (a cron pages
  through all unmarked orders on each run, though an order may be marked or
  worked on in between) and weak fairness of the chain it has begun. Failures
  are bounded by `MaxFaults`: the claim is that the work is done once the
  failures stop.
* unpaid_orders, the gateway: the cron's rounds, and strong fairness of ZaloPay's answer
  about an attempt that is asked about again and again. The cron asks only
  within 48 hours of the attempt; the model assumes that an answer comes within
  that window.
* cron_lease: time passes, timers fire and Postgres answers. For the
  subscriptions: days pass and a sweep that has begun goes on unless it is cut
  off (once); a day may pass without a sweep (`MaxDown`).
* No run assumes anything of web requests, callbacks or customers.

Every run says `CHECK_DEADLOCK FALSE`: an order that is closed, settled and
past its crashes has nothing left to do, submits that are all answered leave
nothing to place, and the lock of `MCCron` ends with its last run.

## 4. Findings

1. **A captured payment may be forgotten** (`zalopay_lost_refund`,
   `modules/integrations/payment/zalopay.service.ts:301`). When the flip loses,
   the attempt gets `resolvedAt` before the refund is recorded. If the process
   dies between the two, the cron, which asks about attempts without a result,
   never comes back to it; only another callback would. The branch for an order
   that was closed when read does it in the safe order (lines 259-263).
2. **Water of a cancelled group stays** (`effects_water`,
   `modules/orders/orders.service.ts:544`). The customer's cancellation takes
   back points and commission and marks the order, but not the game's water. When one
   package was delivered and returned before the customer cancels the last open
   one, every package is closed and marked and the water is still granted.
   `game-order-water.service.ts:136` promises that it goes back. The same
   property holds in `rewards`, where only the shop closes orders.

3. **A repeated press gets another order's answer** (`checkout_replay`,
   `modules/checkout/checkout.service.ts:390`). The cart became empty between the
   lookup of the key and the computation: `recentlyPlacedOrder` answers with the
   customer's latest order, although the key now belongs to an earlier one. The
   comment at line 712 promises the order of the key. Only the answer is wrong:
   `KeyPlacesOnce` holds.
4. **A cancelled order alive at the warehouse** (`pancake_absent`,
   `modules/integrations/pancake/pancake-order.service.ts:873`). A cancellation
   looks for the order by code inside the window in which a create command may
   still take effect, finds nothing and closes as `NOT_FOUND`; the mark is
   removed, so nobody asks again. The comment at lines 309-310 says that in the
   window no run may conclude that there is no order. After that, and only for such an order,
   a slow run may send a second create command, against lines
   283-285 ("a run slower than its lease does not cause a second command"):
   `OneWarehouseOrder` is about orders that are not cancelled.

5. **A cancellation is missed** (`pancake_forgotten`,
   `modules/integrations/pancake/pancake-order.service.ts:966`). An order is
   cancelled while it is being made. `saveCreated` writes its id and only then
   reads the order again to pass the cancellation on (line 986). If the process dies
   between the two, every later run returns early because there is an id (line 331),
   the cancelling request found nothing to cancel and has marked itself done,
   so the cron of unfinished cancellations leaves the order out, and `retryCancels`
   (`pancake-push-reconcile.service.ts:304-316`) looks only for answers that are
   `PENDING` or `FAILED`. The comment at line 985 says that such an order is cancelled
   at Pancake at once. Writing `PENDING` in the statement that saves the id, or
   letting `retryCancels` take up cancelled orders with an id and no answer, would
   close it.
6. **Two deliveries on two days in a row** (`cron_next_day`,
   `modules/subscriptions/subscriptions.service.ts:894`). The interval is changed
   and changed back between the claim of a cycle and its order. `placeCycleOrder`
   counts the next date again only if the interval differs from the one the scan
   read; it does not any more, and the date that the two changes left may be
   tomorrow. The comment at lines 894-895 says that it counts again so that there
   are no two orders on two days in a row. Two other crossings have the same end:
   two requests of which one was read before the claim and is written after it, and
   a resume of a subscription that runs, or that was stopped after such a change.

## 5. Proofs

`tlapm <module>`; every obligation is proved, from the named assumptions on the
constants alone.

**OrderLifecycle_proofs** (assumes `ExpiryAssumption`, `KindsAssumption`,
`BoundAssumption`; any handlers, order kinds, callers and number of crashes).
`TypeCorrect` is by cases on `Next`. The safety invariants are not inductive:
that a closed order restocked once needs that the worker who closes it left an
open order, which needs what the worker *judged*. The inductive invariant is

```
IInv == TypeOK /\ AllJudged /\ Settled
```

* `AllJudged`: a worker that waits for Pancake or is about to flip holds a
  target that may follow the status it *saw*, with the money it saw; a worker
  about to confirm a transfer holds a transfer that is not on credit; a gateway
  worker holds a ZaloPay order. These facts are about the worker's copy and
  about columns that never change (`PlacedColumnsKept`), so no other worker can
  disturb them. The `WHERE` of the flip then carries them over to the row.
* `Settled`: the safety properties and what they lean on: an open order owes
  nothing, an approved return belongs to a returned order, paid money was
  prepaid and not on credit, held cash belongs to a returned order.

`Inductive` gives `StockIsReleasedOnce`, `MoneyIsNotKept`, `MoneyGoesOneWay`
and `UnpaidStays` by projection. `StatusMovesForward` and `ClosedStaysFrozen`
are action properties: `StatusSteps` shows that six actions touch a status or a
payment, and one lemma for each says how it moves them. The argument for the
gateway is the interesting one: its flip writes a status that was *read*, and
only guards on the row being open and unpaid. It is right because an open,
unpaid, prepaid order is always `PENDING_PAYMENT` (`UnpaidPrepaidHeld`).

Three action properties and the refinement need two more invariants. `AllCareful`
is about the workers' copies alone: a worker about to cancel saw an order that
was not handed over, and the expiry worker's cancellations are the cron's own,
from `PENDING_PAYMENT`. With the `WHERE` of the flip it gives
`NobodyCancelsAfterHandover` and `ExpirySparesThePaid`. `Receipts` says which
payment methods can be paid at all, and that a gateway worker did not read a
later status than the row still has; it gives `HandRefundsAreNotRepeated` and
is what the payment step of the refinement leans on. `ImplementsSettlement`
maps the flip to `Advance` or `Close`, the payments to `Pay`, the customer's
transaction and an approved return to `Close`, and every other step to a stutter
(`NextSettles`); `Closes` is the shared argument that any closing settles goods and
money in one step.

**CronLeases_proofs** (assumes `NobodyAssumption`, `TimesAssumption`,
`MarginAssumption`, `NoRunAssumption`; any number of processes and runs, any
times). `LeaderInv` says that a process that leads holds the lease, and that the
lease outlasts the time in which its next answer must come: the oldest statement
under way, or else the next tick. The same holds of a statement that was won and
not yet heard. `OnlyOneLeads` follows, since one row has one holder. `LockInv`
says that a run under way whose lock never ran out holds the row, that a missed
renewal means a lock that ran out, and that only a run under way has a renewal.
It gives `RunsDoNotOverlap` and `NoFalseAlarm`; `OverlapIsSeen` is the action
property that no run gets its row back.

**MCCron_proofs** carries the results about the three parts of `MCCron` over to
their composition. The lemma `EachByItself`, which says nothing of the code, lets
`TypeCorrect` (of all variables) and `CronsAreSafe` follow from the theorems about
the parts.

**ZaloPayGateway_proofs** (any attempts, workers and crashes). `OneAttemptPays`
and `OneOutcomeEach` are not inductive by themselves: whether a worker pays the order a second
time depends on what it still has to do. The invariant is `TypeOK` and

* `HandsOnMoney`: whatever a worker under way will apply to the order or record
  as a refund is money the gateway captured in the right amount;
* `OrderSaysPaid`: the order is unpaid exactly when no attempt has succeeded, at
  most one has, a paid order is not cancelled, and a refunded one is;
* `RefundsAreFinal`: a refund of a late payment means that the order is
  cancelled and unpaid, a refund of an overpayment that it is not unpaid. No
  step takes either back, so an attempt cannot come to both outcomes.

**OrderEffects_proofs** (any packages, requests and faults). The invariant
says of a worker in the middle of a chain which of its effects are already
there, and that no later writer takes them away: points and commissions of a
closed order do not come back, since what would grant them asks for a delivered
order. `ReversedMeansUndone` and
`DeliveredMeansRewarded` follow. `ShopTakesWaterBack` is stated with the
assumption that customers do not cancel by themselves (finding 2 shows why).
`WalletBalances` follows the number of the paid commissions, which goes up and
down by one with the wallet.

**Checkout_proofs** (assumes `SubmitsAssumption`, `RequestsAssumption`,
`BoundsAssumption`, `CartsAssumption`; any customers, goods, keys and limits, any
finite number of submits). The
invariant that carries `BooksAlwaysBalance`: what a transaction has locked, no
other writes, so what it found enough when it took the lock is enough when it
commits (`LockedIsEnough`); and no two checkouts hold conflicting locks
(`NoTwoHold`). The cardinality of the takers of a resource goes up and down by one with the
commits. `NoLineBoughtTwice` needs that the ids of cart lines are never used
again and that the cart is compared under its lock; `OneOrderPerKey` that a
submit which holds its key's row found no order with it.

`NobodyWaitsInACircle` is the longest argument. `NoWaitCycle` speaks of every set
of waiting transactions, and no invariant about two of them gives it. `WInv` says
of each transaction that `held` and `todo` together are the locks that what it
takes needs, and none is in both (`AllTheirs`, `Once`), that it holds what its order of locking
puts before what it waits for (`InOrder`), and that no two hold rows that exclude
each other (`Apart`). `NoWaitOnPurchase` is where the two orders of locking
meet: both take an item's quota before the purchases of that item, so the holder of
a purchase row and whoever waits for it would both hold that quota.
`AgainstUser` deals with the one row that is taken in two modes: a checkout shares
its customer's row by the foreign key and later updates it, but two checkouts
of one customer were kept apart by the cart. With these, `Level` ranks the
remaining rows by kind and item, `WaitsClimb` shows that each wait leads to a
wait at a higher level, and on a finite set the transaction with the fewest
waits above it has nobody of the set to wait for (`FewerAbove`, `NoCircle`).

`SoldInOneStep` is the refinement of `CheckoutSales`. A submit that is not done has
placed nothing, so its steps before the commit are not seen (`NotSeen`).
`PlaceSells` maps the commit to `Sell`: since all its locks are held, everything it
takes is still left and its key is still free (`AllLocked`); its lines are unsold
because of `CartBoughtOnce` in the next state; that it sells something at all needs the
additional invariant `Buys`. `CancelTakesBack` shows that the code's decrement,
which is guarded against going below zero, is exact. `EditSells` rests on
`BoughtIsGone`.

**PancakePush_proofs** (any number of runs, any bound on orders at Pancake).
That there is one order at Pancake is not inductive. `OneCommand` says, of an
order that is not cancelled, where the one command can be: if the row has no
mark and no id, nothing is there or on its way; when the window of the mark is
over, nothing is on its way and what was made can be found; a command
without a run is the only one and nothing was made; and a run in the look-up
or the call is alone. `MildStep` shows that most steps leave all of that alone, so that
only the steps that mark, call, hear, clear or save need a proof of their own.
`ReportedIsPaid` needs that a run that saves or reports has a paid order in
hand, and `IdsKnown` that every id anyone carries exists. `GivenUpStaysSo` is an
action property by cases.

`NothingIsForgotten` speaks of quiet states only, so its invariant `FInv` says
what is owed while something is under way. `Remembered`: a cancelled order with
an id and no answer is either one whose run saved it and is about to read it again,
or has died before (`Watched`), or what follows its cancellation is not marked as
done, so that the request or the cron will still queue it. `Agreed`, as long as no answer was
lost and one order was made: whoever says that Pancake cancelled is right, and an
order living here that Pancake cancelled is known to the request that will flip
it or flag it. `AnswerWritten` lists who writes the answer and what; `GoneStep` that
only two calls cancel an order there and nothing revives it.

**Subscriptions_proofs** (any intervals, retries and nights without a sweep that satisfy
`IntervalsAssumption`; any number of requests). `NoTwoOrdersInARow` is
`ApartUnlessCrossed`. As long as nothing crossed (`Uncrossed`), the next date is
more than a day after the last order in every state in which a sweep could claim it
(`DateApart`), and so is what a sweep (`SweepApart`) or the one request under way
(`EditsApart`) will write; no night is so late that a postponed order meets the next
one (`NotLate`). That a stop and a resume on either side of a claim bring back no
date of an order already placed is the point of `EditApart`: which dates a request may
carry depends on what it will write and on how far the sweep is.

**Only model-checked**: the liveness properties (`AbandonedOrderLeaves`,
`ResyncsGetThere`, `CapturedOrderGetsPaid`, `LeadComesBack`,
`NothingDroppedSilently`), which are out of the prover's reach. Every safety
property of a passing run is proved. No module uses a recursive operator.

## 6. Not modelled, and the plan

Left out for good: pure reads and renderings, the clients, messages, reports,
content, permissions; catalogue import. Not modelled inside what is modelled:
amounts, order lines, splits of an order, edits of an address, and the clock
behind deadlines. One small abstraction on which no property rests: the request and
the settlement of a payout are one step in `OrderEffects`.

Plan, in this order:

1. Partial returns and the refund queue: lines, allocation of a refund over
   lines, never more than was paid. Proof: the bound on the sum.
2. Points with lots, expiry and spending; referral rewards and the locks they
   take on two customers. Proof: the balance is the sum of the lots.
3. Commission payouts in detail, dealer credit with its limit, top-ups and
   withdrawals of the wallet.
4. Gomdon's reconciliation of lost reports; `RunLease` as the catalogue sync
   uses it (its `renew` is an upsert); the error kinds and attention flags of
   the Pancake push.
5. External points and the waste exchange, each a life cycle of its own.
6. Splits of an order and edits of its address; the merge of a guest's cart and
   ledgers.
