----------------------------- MODULE Subscriptions -----------------------------
(***************************************************************************)
(* One subscription: an order every few weeks, placed by the cron of 03:00  *)
(* (processDue), while the customer pauses, resumes, skips and changes it.  *)
(* Time is counted in days; nextRunAt is always the beginning of a day, so  *)
(* a day is before or after three o'clock.  A night's sweep moves the date  *)
(* first and places the order then; what goes wrong is put off, paused or   *)
(* told.  Quantity, address and price are read under the row's lock and are *)
(* left out.  One sweep is under way at a time (CronLeader), and any of the *)
(* requests, which read the row and write it later.                         *)
(***************************************************************************)
EXTENDS Integers

CONSTANTS Intervals,  \* in days
          MaxRetries, \* subscribe.stock_retry_days
          MaxDown,    \* nights in a row without a sweep
          Requests,   \* the customer's requests that may be under way at once
          LastDay     \* a bound for TLC

ASSUME IntervalsAssumption ==
  /\ MaxRetries \in Nat /\ MaxDown \in Nat /\ LastDay \in Nat
  /\ Intervals \subseteq Nat /\ \A i \in Intervals : i > MaxDown + 2 /\ i > MaxRetries

VARIABLES sub,     \* the row of the subscription
          clock,   \* the day, is it past three, and the day of the last sweep
          orders,  \* the orders of the subscription: the date they were due and the day they were placed
          sweep,   \* what the sweep is doing and the row it read
          edits,   \* per request, what it will write
          heard,   \* did the customer get an order, a notice or an answer since three o'clock
          cut,     \* a sweep was cut off before it ended (history)
          crossed  \* requests crossed each other, or a second one a claim (history)
subVars == << sub, clock, orders, sweep, edits, heard, cut, crossed >>

Never == -1
Today == clock.day
NoEdit == [at |-> "IDLE", status |-> "ACTIVE", next |-> 0]
NoEdits == [q \in Requests |-> NoEdit]
NoSweep == [at |-> "IDLE", next |-> 0, interval |-> 0, retries |-> 0]

SubInit ==
  /\ sub = [status |-> "NONE", next |-> 0, interval |-> 0, retries |-> 0, last |-> Never]
  /\ orders = {}
  /\ clock = [day |-> 0, three |-> FALSE, swept |-> Never]
  /\ sweep = NoSweep /\ edits = NoEdits
  /\ heard = FALSE /\ cut = FALSE /\ crossed = FALSE

-----------------------------------------------------------------------------
(* Time, from the day the subscription is made.  Neither a sweep nor a      *)
(* request takes a day.                                                     *)
ThreeOClock ==
  /\ ~ clock.three /\ sub.status # "NONE"
  /\ clock' = [clock EXCEPT !.three = TRUE]
  /\ heard' = FALSE
  /\ UNCHANGED << sub, orders, sweep, edits, cut, crossed >>

NextDay ==
  /\ clock.three /\ Today < LastDay /\ Today - clock.swept <= MaxDown
  /\ sweep.at = "IDLE"
  /\ clock' = [clock EXCEPT !.day = @ + 1, !.three = FALSE]
  /\ edits' = NoEdits
  /\ UNCHANGED << sub, orders, sweep, heard, cut, crossed >>

-----------------------------------------------------------------------------
(* The customer.                                                            *)

(* The first order at once, in the transaction that makes the subscription, *)
(* or on a day to come.                                                     *)
Create ==
  /\ sub.status = "NONE"
  /\ \E i \in Intervals :
       \/ /\ sub' = [status |-> "ACTIVE", next |-> i, interval |-> i, retries |-> 0, last |-> Today]
          /\ orders' = {[due |-> Never, day |-> Today]}
       \/ /\ \E start \in 1 .. 2 :
               sub' = [status |-> "ACTIVE", next |-> start, interval |-> i, retries |-> 0, last |-> Never]
          /\ UNCHANGED orders
  /\ heard' = TRUE
  /\ UNCHANGED << clock, sweep, edits, cut, crossed >>

(* Resuming keeps a date that is still to come, and moves one that has      *)
(* passed by an interval from today.                                        *)
ResumeOn == IF sub.next > Today \/ (sub.next = Today /\ ~ clock.three) THEN sub.next ELSE Today + sub.interval

(* History only, no guard: a request that begins while another is under     *)
(* way, or after the interval was changed between a claim and its order, or *)
(* that resumes a subscription that runs.                                   *)
ChangedSinceClaim == sweep.at = "PLACE" /\ sub.interval # sweep.interval
Crosses(status) ==
  crossed' = (crossed \/ ChangedSinceClaim \/ edits # NoEdits \/ (sub.status = "ACTIVE" /\ status = "RESUME"))

Begins(q, at, status, next) ==
  /\ edits[q].at = "IDLE"
  /\ edits' = [edits EXCEPT ![q] = [at |-> at, status |-> status, next |-> next]]
  /\ UNCHANGED << sub, clock, orders, sweep, heard, cut >>
(* Whatever the status: one that runs may be resumed, one that is stopped   *)
(* be stopped again.                                                        *)
ReadToResume(q) == sub.status # "NONE" /\ Begins(q, "WRITE", "ACTIVE", ResumeOn) /\ Crosses("RESUME")
ReadToStop(q) ==
  sub.status # "NONE" /\ Crosses("STOP") /\ \E status \in {"PAUSED", "CANCELLED"} : Begins(q, "WRITE", status, sub.next)
ReadToSkip(q) == sub.status = "ACTIVE" /\ sub.next <= LastDay /\ Crosses("SKIP") /\ Begins(q, "SKIP", "ACTIVE", sub.next + sub.interval)

(* Both write by id, whatever became of the row they read.                  *)
Writes(q, at, row) ==
  /\ edits[q].at = at
  /\ sub' = row
  /\ edits' = [edits EXCEPT ![q] = NoEdit]
  /\ heard' = TRUE
  /\ UNCHANGED << clock, orders, sweep, cut, crossed >>
WriteStatus(q) == Writes(q, "WRITE", [sub EXCEPT !.status = edits[q].status, !.next = edits[q].next, !.retries = 0])
WriteSkip(q) == Writes(q, "SKIP", [sub EXCEPT !.next = edits[q].next, !.retries = 0])

(* Under the row's lock: the new interval counts from the last order, and   *)
(* the next one is not today.                                               *)
Later(a, b) == IF a < b THEN b ELSE a
ChangeInterval(i) ==
  /\ sub.status \in {"ACTIVE", "PAUSED"} /\ i # sub.interval
  /\ sub' = IF sub.last = Never THEN [sub EXCEPT !.interval = i]
            ELSE [sub EXCEPT !.interval = i, !.next = Later(sub.last + i, Today + 1), !.retries = 0]
  /\ heard' = TRUE
  /\ crossed' = (crossed \/ ChangedSinceClaim)
  /\ UNCHANGED << clock, orders, sweep, edits, cut >>

-----------------------------------------------------------------------------
(* A sweep.                                                                 *)
IsDue == sub.status = "ACTIVE" /\ sub.next <= Today
Goes(at) == sweep' = [sweep EXCEPT !.at = at]
(* The next page, if this one was full.                                     *)
Leaves == \E at \in {"SCAN", "IDLE"} : sweep' = [NoSweep EXCEPT !.at = at]

StartSweep ==
  /\ clock.three /\ sweep.at = "IDLE" /\ clock.swept < Today
  /\ Goes("SCAN") /\ clock' = [clock EXCEPT !.swept = Today]
  /\ UNCHANGED << sub, orders, edits, heard, cut, crossed >>

ScanPage ==
  /\ sweep.at = "SCAN"
  /\ IF IsDue THEN sweep' = [at |-> "CLAIM", next |-> sub.next, interval |-> sub.interval, retries |-> sub.retries]
              ELSE Goes("IDLE")
  /\ UNCHANGED << sub, clock, orders, edits, heard, cut, crossed >>

ClaimCycle ==
  /\ sweep.at = "CLAIM"
  /\ IF sub.status = "ACTIVE" /\ sub.next = sweep.next
     THEN Goes("PLACE") /\ sub' = [sub EXCEPT !.next = Today + sweep.interval]
     ELSE Leaves /\ UNCHANGED sub
  /\ UNCHANGED << clock, orders, edits, heard, cut, crossed >>

(* The order of a cycle has a key of its own, unique in the database.       *)
KeyTaken == \E o \in orders : o.due = sweep.next
(* Mutant: the date is not counted again after the interval changed.        *)
NextAsClaimed == IF sub.next <= sweep.next THEN sweep.next + sub.interval ELSE sub.next
NextAfter ==
  IF sub.next <= sweep.next THEN sweep.next + sub.interval
  ELSE IF sub.interval # sweep.interval THEN Today + sub.interval ELSE sub.next

(* The commit; its answer may be lost.                                      *)
PlaceOrder ==
  /\ sweep.at = "PLACE" /\ sub.status = "ACTIVE" /\ ~ KeyTaken
  /\ orders' = orders \cup {[due |-> sweep.next, day |-> Today]}
  /\ sub' = [sub EXCEPT !.last = Today, !.retries = 0, !.next = NextAfter]
  /\ heard' = TRUE
  /\ Leaves \/ Goes("CHECK")
  /\ UNCHANGED << clock, edits, cut, crossed >>

(* The transaction is rolled back: the subscription is not active any more, *)
(* the goods are out of stock, the order cannot be made or paid, or         *)
(* something else, a key that is taken among it.                            *)
PlaceNothing ==
  /\ sweep.at = "PLACE"
  /\ \/ sub.status # "ACTIVE" /\ Leaves
     \/ sub.status = "ACTIVE" /\ \E at \in {"POSTPONE", "PAUSE", "CHECK"} : Goes(at)
  /\ UNCHANGED << sub, clock, orders, edits, heard, cut, crossed >>

(* Mutant: an error that is not known is only logged.                       *)
CheckOnly == sweep.at = "CHECK" /\ Leaves /\ UNCHANGED << sub, clock, orders, edits, heard, cut, crossed >>
(* After any other error: was the order written all the same?               *)
CheckWritten ==
  /\ sweep.at = "CHECK"
  /\ IF KeyTaken THEN Leaves ELSE Goes("POSTPONE")
  /\ UNCHANGED << sub, clock, orders, edits, heard, cut, crossed >>

(* retryOrSkipCycle: tomorrow again, or not this time; the first failure    *)
(* and the last are told.                                                   *)
Postpone ==
  /\ sweep.at = "POSTPONE"
  /\ sub' = IF sub.status # "ACTIVE" THEN sub
            ELSE IF sweep.retries < MaxRetries THEN [sub EXCEPT !.next = Today + 1, !.retries = @ + 1]
            ELSE IF sweep.retries > 0 THEN [sub EXCEPT !.retries = 0] ELSE sub
  /\ heard' = (heard \/ sweep.retries = 0 \/ sweep.retries >= MaxRetries)
  /\ Leaves
  /\ UNCHANGED << clock, orders, edits, cut, crossed >>

PauseSubscription ==
  /\ sweep.at = "PAUSE"
  /\ sub' = IF sub.status = "ACTIVE" THEN [sub EXCEPT !.status = "PAUSED"] ELSE sub
  /\ heard' = TRUE
  /\ Leaves
  /\ UNCHANGED << clock, orders, edits, cut, crossed >>

(* The process dies, or a statement of the error path fails in its turn:    *)
(* what was claimed and not placed is not asked for again.  A sweep that    *)
(* dies before its claim is a night without a sweep.                        *)
CutOff ==
  /\ sweep.at \notin {"IDLE", "SCAN", "CLAIM"} /\ ~ cut
  /\ Leaves
  /\ cut' = TRUE
  /\ UNCHANGED << sub, clock, orders, edits, heard, crossed >>

SweepStep ==
  \/ StartSweep \/ ScanPage \/ ClaimCycle \/ PlaceOrder \/ PlaceNothing
  \/ CheckWritten \/ Postpone \/ PauseSubscription
CustomerStep ==
  \/ Create \/ \E i \in Intervals : ChangeInterval(i)
  \/ \E q \in Requests :
       ReadToResume(q) \/ ReadToStop(q) \/ ReadToSkip(q) \/ WriteStatus(q) \/ WriteSkip(q)
SubNext == ThreeOClock \/ NextDay \/ CustomerStep \/ SweepStep \/ CutOff

SubSpec == SubInit /\ [][SubNext]_subVars
(* The days pass and the sweeps go on; the customer may stop at any time.   *)
SubFairness == WF_subVars(ThreeOClock) /\ WF_subVars(NextDay) /\ WF_subVars(SweepStep)

-----------------------------------------------------------------------------
(* Every variable has its type.                                             *)
SubTypeOK ==
  /\ sub \in [status : {"NONE", "ACTIVE", "PAUSED", "CANCELLED"}, next : Nat, interval : Intervals \cup {0},
              retries : Nat, last : Nat \cup {Never}]
  /\ clock \in [day : Nat, three : BOOLEAN, swept : Nat \cup {Never}]
  /\ orders \subseteq [due : Nat \cup {Never}, day : Nat]
  /\ sweep \in [at : {"IDLE", "SCAN", "CLAIM", "PLACE", "CHECK", "POSTPONE", "PAUSE"}, next : Nat,
                interval : Intervals \cup {0}, retries : Nat]
  /\ edits \in [Requests -> [at : {"IDLE", "WRITE", "SKIP"}, status : {"ACTIVE", "PAUSED", "CANCELLED"}, next : Nat]]
  /\ heard \in BOOLEAN /\ cut \in BOOLEAN /\ crossed \in BOOLEAN

(* A customer never gets two orders on one day or on two days in a row,     *)
(* whatever changes while the sweep is under way: so says the comment of    *)
(* placeCycleOrder (subscriptions.service.ts:894-895).                      *)
OrdersApart == \A o, p \in orders : o # p => o.day - p.day \notin {-1, 0, 1}

(* The code keeps it but for three ways to lose it, and no other: a request *)
(* crosses another one; one more change is asked for after the interval was *)
(* changed between a claim and its order; a subscription that runs is       *)
(* resumed.  Without them any request may be read and written anywhere      *)
(* around a sweep, and an order be tried again any number of nights         *)
(* (setStatus, skipCycle and update against processDue).                    *)
ApartUnlessCrossed == crossed \/ OrdersApart

(* No delivery that is due is dropped silently: the customer gets it, is    *)
(* told that it is late, paused or skipped, or has changed the date; only   *)
(* a sweep that is cut off between the claim and the order is never told.   *)
(* A date that a late request brings back is not due again once its order   *)
(* is placed.                                                               *)
Placed(date) == \E o \in orders : o.due = date
DueIsHeard == clock.three /\ IsDue /\ sub.retries = 0 /\ ~ Placed(sub.next) ~> heard \/ cut
=============================================================================
