----------------------------- MODULE OrderEffects -----------------------------
(***************************************************************************)
(* What follows the commit that delivers or closes an order: loyalty       *)
(* points, the referrer's commission and its way into the wallet, and the  *)
(* game's water.  Each is a transaction of its own, run one after another   *)
(* by the request that changed the status, by a repeated request and by    *)
(* two resync crons; a column marks the order once all of them are done.   *)
(* The orders are the packages of one checkout (one customer, one grant of *)
(* water); OrderLifecycle says how their statuses change.                  *)
(***************************************************************************)
EXTENDS Integers, FiniteSets

CONSTANTS Orders,         \* the packages of one checkout group
          Requests,       \* web requests and queue jobs running at once
          DeliveredCron,  \* the worker of DeliveredEffectsResyncCron
          ReversalCron,   \* the worker of ReversalEffectsResyncCron
          Closers,        \* how orders are closed: "shop", "customer"
          MaxFaults       \* how many steps may fail or crash (a bound for TLC)

Workers == Requests \cup {DeliveredCron, ReversalCron}

ASSUME WorkersAssumption == DeliveredCron \notin Requests /\ ReversalCron \notin Requests /\ DeliveredCron # ReversalCron
ASSUME OrdersAssumption == IsFiniteSet(Orders)
ASSUME FaultsAssumption == MaxFaults \in Nat

VARIABLES status,       \* of each order
          points,       \* rows ORDER_DELIVERED and ORDER_REVERSED of each order
          commission,   \* of each order's referrer
          wallet,       \* commissions paid into the referrer's wallet, net
          water,        \* the group's row ORDER_WATER
          profile,      \* the customer has opened the game
          delivered,    \* orders whose deliveredEffectsAt is set
          reversed,     \* orders whose reversalEffectsAt is set
          job,          \* what each worker is doing
          faults
rows == << status, points, commission, wallet, water, profile, delivered, reversed >>
vars == << status, points, commission, wallet, water, profile, delivered, reversed, job, faults >>

Closed == {"CANCELLED", "RETURNED"}
OrderStatus == {"OPEN", "DELIVERED"} \cup Closed
Points == {"NONE", "CREDITED", "TAKEN_BACK"}
Commission == {"PENDING", "LOCKED", "APPROVED", "PAID", "REJECTED"}
Water == {"NONE", "PENDING", "GRANTED", "REVERSED", "DROPPED"}

(* The steps of runDeliveredEffects and of reverseClosedOrderEffects; a    *)
(* customer's cancellation has no takeWater, a repeated request no mark.   *)
Stage == {"idle", "credit", "lock", "water", "markDelivered",
          "takePoints", "reject", "takeWater", "markReversed"}
Path == {"shop", "customer", "repeat"}
NoOrder == "NONE"
Idle == [at |-> "idle", order |-> NoOrder, path |-> "shop", failed |-> FALSE]
Job == [at : Stage, order : Orders \cup {NoOrder}, path : Path, failed : BOOLEAN]

Init ==
  /\ status = [o \in Orders |-> "OPEN"]
  /\ points = [o \in Orders |-> "NONE"]
  /\ commission = [o \in Orders |-> "PENDING"]
  /\ wallet = 0
  /\ water = "NONE"
  /\ profile \in BOOLEAN
  /\ delivered = {} /\ reversed = {}
  /\ job = [w \in Workers |-> Idle]
  /\ faults = 0

At(w, stage) == job[w].at = stage
Start(w, stage, o, path) ==
  /\ At(w, "idle")
  /\ job' = [job EXCEPT ![w] = [at |-> stage, order |-> o, path |-> path, failed |-> FALSE]]
GoTo(w, stage) == job' = [job EXCEPT ![w].at = stage]
Stop(w) == job' = [job EXCEPT ![w] = Idle]

-----------------------------------------------------------------------------
(* The commit that delivers or closes; the effects follow it.              *)

(* Mutant: the mark is written with the status.                            *)
DeliverMarked(r, o) ==
  /\ status[o] = "OPEN"
  /\ status' = [status EXCEPT ![o] = "DELIVERED"]
  /\ delivered' = delivered \cup {o}
  /\ Start(r, "credit", o, "shop")
  /\ UNCHANGED << points, commission, wallet, water, profile, reversed, faults >>

Deliver(r, o) ==
  /\ status[o] = "OPEN"
  /\ status' = [status EXCEPT ![o] = "DELIVERED"]
  /\ Start(r, "credit", o, "shop")
  /\ UNCHANGED << points, commission, wallet, water, profile, delivered, reversed, faults >>

(* setStatus and the approval of a return.                                 *)
Close(r, o) ==
  /\ "shop" \in Closers
  /\ status[o] \notin Closed
  /\ status' = [status EXCEPT ![o] = IF status[o] = "DELIVERED" THEN "RETURNED" ELSE "CANCELLED"]
  /\ Start(r, "takePoints", o, "shop")
  /\ UNCHANGED << points, commission, wallet, water, profile, delivered, reversed, faults >>

CustomerCancels(r, o) ==
  /\ "customer" \in Closers
  /\ status[o] = "OPEN"
  /\ status' = [status EXCEPT ![o] = "CANCELLED"]
  /\ Start(r, "takePoints", o, "customer")
  /\ UNCHANGED << points, commission, wallet, water, profile, delivered, reversed, faults >>

(* The same status asked for again: a webhook or a click that is retried.  *)
Repeat(r, o) ==
  /\ \/ status[o] = "DELIVERED" /\ o \notin delivered /\ Start(r, "credit", o, "repeat")
     \/ status[o] \in Closed /\ Start(r, "takePoints", o, "repeat")
  /\ UNCHANGED << rows, faults >>

(* Mutants: the crons recognize unfinished orders by something else than   *)
(* the mark.                                                               *)
DeliveredResyncByPoints(o) ==
  /\ status[o] = "DELIVERED" /\ points[o] = "NONE"
  /\ Start(DeliveredCron, "credit", o, "shop")
  /\ UNCHANGED << rows, faults >>

ReversalResyncCancelled(o) ==
  /\ status[o] = "CANCELLED" /\ o \notin reversed
  /\ Start(ReversalCron, "takePoints", o, "shop")
  /\ UNCHANGED << rows, faults >>

DeliveredResync(o) ==
  /\ status[o] = "DELIVERED" /\ o \notin delivered
  /\ Start(DeliveredCron, "credit", o, "shop")
  /\ UNCHANGED << rows, faults >>

ReversalResync(o) ==
  /\ status[o] \in Closed /\ o \notin reversed
  /\ Start(ReversalCron, "takePoints", o, "shop")
  /\ UNCHANGED << rows, faults >>

-----------------------------------------------------------------------------
(* runDeliveredEffects.                                                    *)

(* Mutant: points are credited on the status the request saw.              *)
CreditPointsUnlocked(w) ==
  /\ At(w, "credit")
  /\ points' = [points EXCEPT ![job[w].order] = IF @ = "NONE" THEN "CREDITED" ELSE @]
  /\ GoTo(w, "lock")
  /\ UNCHANGED << status, commission, wallet, water, profile, delivered, reversed, faults >>

(* One row per order; the order is read FOR SHARE and must be DELIVERED.   *)
CreditPoints(w) ==
  LET o == job[w].order
  IN /\ At(w, "credit")
     /\ points' = [points EXCEPT ![o] = IF @ = "NONE" /\ status[o] = "DELIVERED" THEN "CREDITED" ELSE @]
     /\ GoTo(w, "lock")
     /\ UNCHANGED << status, commission, wallet, water, profile, delivered, reversed, faults >>

(* Starts the hold of a commission; whatever the order has become since.   *)
LockCommission(w) ==
  LET o == job[w].order
  IN /\ At(w, "lock")
     /\ commission' = [commission EXCEPT ![o] = IF @ = "PENDING" THEN "LOCKED" ELSE @]
     /\ GoTo(w, "water")
     /\ UNCHANGED << status, points, wallet, water, profile, delivered, reversed, faults >>

(* One row for the whole group; it waits when there is no game profile.    *)
GrantWater(w) ==
  /\ At(w, "water")
  /\ water' = IF water = "NONE" /\ status[job[w].order] = "DELIVERED"
              THEN IF profile THEN "GRANTED" ELSE "PENDING"
              ELSE water
  /\ IF job[w].failed THEN Stop(w) ELSE GoTo(w, "markDelivered")
  /\ UNCHANGED << status, points, commission, wallet, profile, delivered, reversed, faults >>

(* Mutant: the worker lets go of the order before it marks it.             *)
MarkDeliveredTooLate(w) ==
  /\ At(w, "markDelivered")
  /\ Stop(w)
  /\ delivered' = delivered \cup {job'[w].order}
  /\ UNCHANGED << status, points, commission, wallet, water, profile, reversed, faults >>

(* The whole chain succeeded.                                              *)
MarkDelivered(w) ==
  /\ At(w, "markDelivered")
  /\ delivered' = delivered \cup {job[w].order}
  /\ Stop(w)
  /\ UNCHANGED << status, points, commission, wallet, water, profile, reversed, faults >>

-----------------------------------------------------------------------------
(* reverseClosedOrderEffects, and the mark when all of it succeeded.       *)
TakePoints(w) ==
  /\ At(w, "takePoints")
  /\ points' = [points EXCEPT ![job[w].order] = IF @ = "CREDITED" THEN "TAKEN_BACK" ELSE @]
  /\ GoTo(w, "reject")
  /\ UNCHANGED << status, commission, wallet, water, profile, delivered, reversed, faults >>

AfterReject(w) ==
  IF job[w].path # "customer" THEN GoTo(w, "takeWater")
  ELSE IF job[w].failed THEN Stop(w) ELSE GoTo(w, "markReversed")

(* Mutant: a commission already paid keeps its money.                      *)
RejectUnpaidOnly(w) ==
  /\ At(w, "reject")
  /\ commission' = [commission EXCEPT ![job[w].order] = "REJECTED"]
  /\ AfterReject(w)
  /\ UNCHANGED << status, points, wallet, water, profile, delivered, reversed, faults >>

(* Under the commission's row lock: money that reached the wallet is taken *)
(* out again, even below zero.                                             *)
RejectCommission(w) ==
  LET o == job[w].order
  IN /\ At(w, "reject")
     /\ wallet' = IF commission[o] = "PAID" THEN wallet - 1 ELSE wallet
     /\ commission' = [commission EXCEPT ![o] = "REJECTED"]
     /\ AfterReject(w)
     /\ UNCHANGED << status, points, water, profile, delivered, reversed, faults >>

(* Mutant: a cancelled package does not count as closed.                   *)
GroupReturned == \A o \in Orders : status[o] = "RETURNED"

(* Only once every package of the group is closed.                         *)
GroupClosed == \A o \in Orders : status[o] \in Closed

(* Mutant: the mark is written although a step failed.                     *)
AfterWaterAnyway(w) == IF job[w].path = "repeat" THEN Stop(w) ELSE GoTo(w, "markReversed")

AfterWater(w) == IF job[w].failed \/ job[w].path = "repeat" THEN Stop(w) ELSE GoTo(w, "markReversed")

TakeWater(w) ==
  /\ At(w, "takeWater")
  /\ water' = CASE GroupClosed /\ water = "GRANTED" -> "REVERSED"
                [] GroupClosed /\ water = "PENDING" -> "DROPPED"
                [] OTHER -> water
  /\ AfterWater(w)
  /\ UNCHANGED << status, points, commission, wallet, profile, delivered, reversed, faults >>

MarkReversed(w) ==
  /\ At(w, "markReversed")
  /\ reversed' = reversed \cup {job[w].order}
  /\ Stop(w)
  /\ UNCHANGED << status, points, commission, wallet, water, profile, delivered, faults >>

-----------------------------------------------------------------------------
(* A transaction fails.  A failed credit or lock ends the call; a failed   *)
(* referral reward (tried before the water), a failed grant of water and   *)
(* any failed reversal are noted: the rest goes on, the mark is not set.   *)
StepFails(w) ==
  /\ faults < MaxFaults
  /\ faults' = faults + 1
  /\ \/ job[w].at \in {"credit", "lock", "water", "markDelivered", "markReversed"} /\ Stop(w)
     \/ At(w, "water") /\ job' = [job EXCEPT ![w].failed = TRUE]
     \/ At(w, "takePoints") /\ job' = [job EXCEPT ![w].failed = TRUE, ![w].at = "reject"]
     \/ At(w, "reject") /\ job[w].path # "customer" /\ job' = [job EXCEPT ![w].failed = TRUE, ![w].at = "takeWater"]
     \/ At(w, "reject") /\ job[w].path = "customer" /\ Stop(w)
     \/ At(w, "takeWater") /\ Stop(w)
  /\ UNCHANGED rows

Crash(w) ==
  /\ faults < MaxFaults
  /\ faults' = faults + 1
  /\ ~ At(w, "idle")
  /\ Stop(w)
  /\ UNCHANGED rows

-----------------------------------------------------------------------------
(* The commission's way into the wallet, and the customer's first game.    *)

(* approveDue: held long enough, and the order is still delivered.         *)
ApproveDue ==
  /\ \E o \in Orders : commission[o] = "LOCKED" /\ status[o] = "DELIVERED"
  /\ commission' = [o \in Orders |->
       IF commission[o] = "LOCKED" /\ status[o] = "DELIVERED" THEN "APPROVED" ELSE commission[o]]
  /\ UNCHANGED << status, points, wallet, water, profile, delivered, reversed, job, faults >>

(* requestPayout: all that is approved on delivered orders, in one go.     *)
Payable == {o \in Orders : commission[o] = "APPROVED" /\ status[o] = "DELIVERED"}

RequestPayout ==
  /\ Payable # {}
  /\ commission' = [o \in Orders |-> IF o \in Payable THEN "PAID" ELSE commission[o]]
  /\ wallet' = wallet + Cardinality(Payable)
  /\ UNCHANGED << status, points, water, profile, delivered, reversed, job, faults >>

(* claimPending: a group closed meanwhile gets nothing.                    *)
OpenGame ==
  /\ ~ profile
  /\ profile' = TRUE
  /\ water' = IF water = "PENDING" THEN IF GroupClosed THEN "DROPPED" ELSE "GRANTED" ELSE water
  /\ UNCHANGED << status, points, commission, wallet, delivered, reversed, job, faults >>

Request(r, o) == Deliver(r, o) \/ Close(r, o) \/ CustomerCancels(r, o) \/ Repeat(r, o)

Effect(w) ==
  \/ CreditPoints(w) \/ LockCommission(w) \/ GrantWater(w) \/ MarkDelivered(w)
  \/ TakePoints(w) \/ RejectCommission(w) \/ TakeWater(w) \/ MarkReversed(w)

Next ==
  \/ \E r \in Requests, o \in Orders : Request(r, o)
  \/ \E o \in Orders : DeliveredResync(o) \/ ReversalResync(o)
  \/ \E w \in Workers : Effect(w) \/ StepFails(w) \/ Crash(w)
  \/ ApproveDue \/ RequestPayout \/ OpenGame

Spec == Init /\ [][Next]_vars

(* Each cron runs every few minutes, pages through all unmarked orders and *)
(* finishes what it started; requests and the game may stop at any time.   *)
Fairness ==
  /\ \A o \in Orders : SF_vars(DeliveredResync(o)) /\ SF_vars(ReversalResync(o))
  /\ WF_vars(Effect(DeliveredCron)) /\ WF_vars(Effect(ReversalCron))
FairSpec == Spec /\ Fairness

-----------------------------------------------------------------------------
(* Every variable has its type.                                            *)
TypeOK ==
  /\ status \in [Orders -> OrderStatus]
  /\ points \in [Orders -> Points]
  /\ commission \in [Orders -> Commission]
  /\ wallet \in Int
  /\ water \in Water
  /\ profile \in BOOLEAN
  /\ delivered \subseteq Orders /\ reversed \subseteq Orders
  /\ job \in [Workers -> Job]
  /\ faults \in 0 .. MaxFaults

(* reversalEffectsAt never lies: nobody looks at a marked order again, so  *)
(* a marked order has no points and no commission, whatever was still      *)
(* running for its delivery when it closed.                                *)
ReversalMarkHonest ==
  \A o \in reversed : status[o] \in Closed /\ points[o] # "CREDITED" /\ commission[o] = "REJECTED"

(* deliveredEffectsAt never lies: a delivered order that is marked has its *)
(* points, its commission on hold and its group's water, even when several *)
(* workers ran the effects and some of them failed.                        *)
DeliveredMarkHonest ==
  \A o \in delivered : status[o] = "DELIVERED" =>
     points[o] = "CREDITED" /\ commission[o] \in {"LOCKED", "APPROVED", "PAID"} /\ water # "NONE"

(* The wallet holds exactly the commissions that are paid: no reversal     *)
(* racing the approval and the payout leaves money of a closed order in it.*)
WalletHoldsPaid == wallet = Cardinality({o \in Orders : commission[o] = "PAID"})

(* Once all packages of a checkout are closed and their reversals done,    *)
(* the group's water has been taken back (game-order-water.service.ts).    *)
GroupWaterTakenBack == Orders \subseteq reversed => water \notin {"GRANTED", "PENDING"}

(* No closed order keeps its rewards for good: in the end it is marked,    *)
(* although requests die between two effects.                              *)
ClosedIsUndone == \A o \in Orders : status[o] \in Closed ~> o \in reversed

(* No delivered order goes without its rewards for good.                   *)
DeliveredIsRewarded == \A o \in Orders : status[o] = "DELIVERED" ~> o \in delivered \/ status[o] = "RETURNED"
(* Every closed order is undone in the end and every delivered one          *)
(* rewarded, whoever dies on the way (the two resync crons).                *)
EffectsAreDone == ClosedIsUndone /\ DeliveredIsRewarded
=============================================================================
