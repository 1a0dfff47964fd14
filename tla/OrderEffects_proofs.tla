------------------------- MODULE OrderEffects_proofs -------------------------
(***************************************************************************)
(* Proofs about OrderEffects for checkouts of any number of packages, any  *)
(* number of requests and any number of faults.                            *)
(***************************************************************************)
EXTENDS OrderEffects, FiniteSetTheorems, TLAPS

-----------------------------------------------------------------------------
(* The inductive invariant.                                                *)

Rewarding == {"credit", "lock", "water", "markDelivered"}
Undoing == {"takePoints", "reject", "takeWater", "markReversed"}
Held == {"LOCKED", "APPROVED", "PAID"}

(* Only a closed order has lost what it had.                               *)
LostOnlyIfClosed ==
  \A o \in Orders : points[o] = "TAKEN_BACK" \/ commission[o] = "REJECTED" => status[o] \in Closed

(* A worker that rewards does so for an order that was delivered, and has  *)
(* done all before its step while the order still is.                      *)
RewardsInOrder ==
  \A w \in Workers : job[w].at \in Rewarding =>
    /\ job[w].order \in Orders /\ status[job[w].order] \in {"DELIVERED"} \cup Closed
    /\ status[job[w].order] = "DELIVERED" =>
         /\ job[w].at # "credit" => points[job[w].order] = "CREDITED"
         /\ job[w].at \in {"water", "markDelivered"} => commission[job[w].order] \in Held
         /\ job[w].at = "markDelivered" => water # "NONE"

(* A worker that undoes does so for a closed order, and unless a step      *)
(* failed all before its step is undone.                                   *)
UndoesInOrder ==
  \A w \in Workers : job[w].at \in Undoing =>
    /\ job[w].order \in Orders /\ status[job[w].order] \in Closed
    /\ job[w].at = "markReversed" => ~ job[w].failed
    /\ ~ job[w].failed =>
         /\ job[w].at # "takePoints" => points[job[w].order] # "CREDITED"
         /\ job[w].at \in {"takeWater", "markReversed"} => commission[job[w].order] = "REJECTED"

(* Only an order that was delivered carries the delivered mark.            *)
MarkedWasDelivered == \A o \in delivered : status[o] # "OPEN"

IInv ==
  /\ TypeOK /\ LostOnlyIfClosed /\ MarkedWasDelivered /\ RewardsInOrder /\ UndoesInOrder
  /\ ReversalMarkHonest /\ DeliveredMarkHonest /\ WalletHoldsPaid

(* Without cancellations by the customer, who leaves the water alone: as   *)
(* long as a closed group has its water, some package has not yet been     *)
(* through the step that takes it.                                         *)
NobodySkipsWater == \A w \in Workers : job[w].path # "customer"
WaterWaits ==
  GroupClosed /\ water \in {"GRANTED", "PENDING"} =>
    \E o \in Orders : o \notin reversed /\ \A w \in Workers : ~ (At(w, "markReversed") /\ job[w].order = o)
WaterInv == IInv /\ NobodySkipsWater /\ WaterWaits

-----------------------------------------------------------------------------
(* What starting, moving on and stopping do to a worker.                   *)

Others(w) == \A v \in Workers : v # w => job'[v] = job[v]

LEMMA StartJob ==
  ASSUME TypeOK, NEW w \in Workers, NEW stage \in Stage, NEW o \in Orders, NEW path \in Path, Start(w, stage, o, path)
  PROVE  /\ job' \in [Workers -> Job] /\ Others(w)
         /\ job'[w].at = stage /\ job'[w].order = o /\ job'[w].path = path /\ ~ job'[w].failed
BY DEF TypeOK, Start, Job, Others

LEMMA GoToJob ==
  ASSUME TypeOK, NEW w \in Workers, NEW stage \in Stage, GoTo(w, stage)
  PROVE  /\ job' \in [Workers -> Job] /\ Others(w)
         /\ job'[w].at = stage /\ job'[w].order = job[w].order /\ job'[w].path = job[w].path
         /\ job'[w].failed = job[w].failed
BY DEF TypeOK, GoTo, Job, Others

LEMMA StopJob ==
  ASSUME TypeOK, NEW w \in Workers, Stop(w)
  PROVE  job' \in [Workers -> Job] /\ Others(w) /\ job'[w] = Idle
<1>1. Idle \in Job
  BY DEF Idle, Job, Stage, Path
<1>2. QED BY <1>1 DEF TypeOK, Stop, Others

LEMMA IdleIs == Idle.at = "idle" /\ Idle.at \notin Rewarding \cup Undoing /\ Idle.path = "shop"
BY DEF Idle, Rewarding, Undoing

LEMMA InitInv == Init => WaterInv
<1> SUFFICES ASSUME Init PROVE WaterInv
  OBVIOUS
<1>1. TypeOK
  <2>1. Idle \in Job
    BY DEF Idle, Job, Stage, Path
  <2>2. QED BY <2>1, FaultsAssumption DEF Init, TypeOK, OrderStatus, Points, Commission, Water
<1>2. \A w \in Workers : job[w].at \notin Rewarding \cup Undoing /\ job[w].path = "shop"
  BY IdleIs DEF Init
<1>3. LostOnlyIfClosed /\ MarkedWasDelivered /\ RewardsInOrder /\ UndoesInOrder /\ NobodySkipsWater
  BY <1>2 DEF Init, LostOnlyIfClosed, MarkedWasDelivered, RewardsInOrder, UndoesInOrder, NobodySkipsWater
<1>4. ReversalMarkHonest /\ DeliveredMarkHonest /\ WaterWaits
  BY DEF Init, ReversalMarkHonest, DeliveredMarkHonest, WaterWaits
<1>5. WalletHoldsPaid
  <2>1. {o \in Orders : commission[o] = "PAID"} = {}
    BY DEF Init
  <2>2. QED BY <2>1, FS_EmptySet DEF Init, WalletHoldsPaid
<1>6. QED BY <1>1, <1>3, <1>4, <1>5 DEF WaterInv, IInv

-----------------------------------------------------------------------------
(* The steps that change no row of an order but its status, or none.       *)

(* A worker may start, move or stop when its new job fits the rows.        *)
Fits(j) ==
  /\ j.at \in Rewarding =>
       /\ j.order \in Orders /\ status[j.order] \in {"DELIVERED"} \cup Closed
       /\ status[j.order] = "DELIVERED" =>
            /\ j.at # "credit" => points[j.order] = "CREDITED"
            /\ j.at \in {"water", "markDelivered"} => commission[j.order] \in Held
            /\ j.at = "markDelivered" => water # "NONE"
  /\ j.at \in Undoing =>
       /\ j.order \in Orders /\ status[j.order] \in Closed
       /\ j.at = "markReversed" => ~ j.failed
       /\ ~ j.failed =>
            /\ j.at # "takePoints" => points[j.order] # "CREDITED"
            /\ j.at \in {"takeWater", "markReversed"} => commission[j.order] = "REJECTED"

LEMMA JobsFit == (RewardsInOrder /\ UndoesInOrder) <=> \A w \in Workers : Fits(job[w])
BY DEF RewardsInOrder, UndoesInOrder, Fits

LEMMA IdleFits == Fits(Idle)
BY IdleIs DEF Fits

(* Nothing but a job changes, and perhaps the count of faults.             *)
LEMMA JobOnly ==
  ASSUME IInv, NEW w \in Workers, job' \in [Workers -> Job], Others(w), Fits(job'[w]),
         faults' \in 0 .. MaxFaults, UNCHANGED rows
  PROVE  IInv'
<1>1. UNCHANGED << status, points, commission, wallet, water, profile, delivered, reversed >>
  BY DEF rows
<1>2. TypeOK'
  BY <1>1 DEF IInv, TypeOK
<1>3. \A v \in Workers : Fits(job'[v])
  BY JobsFit DEF IInv, Others
<1>4. (RewardsInOrder /\ UndoesInOrder)'
  BY <1>1, <1>3 DEF RewardsInOrder, UndoesInOrder, Fits
<1>5. (LostOnlyIfClosed /\ MarkedWasDelivered /\ ReversalMarkHonest /\ DeliveredMarkHonest /\ WalletHoldsPaid)'
  BY <1>1 DEF IInv, LostOnlyIfClosed, MarkedWasDelivered, ReversalMarkHonest, DeliveredMarkHonest, WalletHoldsPaid
<1>6. QED BY <1>2, <1>4, <1>5 DEF IInv

LEMMA StopInv ==
  ASSUME IInv, NEW w \in Workers, Stop(w), faults' \in 0 .. MaxFaults, UNCHANGED rows
  PROVE  IInv'
<1>1. job' \in [Workers -> Job] /\ Others(w) /\ job'[w] = Idle
  BY StopJob DEF IInv
<1>2. QED BY <1>1, IdleFits, JobOnly

LEMMA FaultsStay ==
  ASSUME IInv
  PROVE  /\ faults \in 0 .. MaxFaults
         /\ faults < MaxFaults => faults + 1 \in 0 .. MaxFaults
BY FaultsAssumption DEF IInv, TypeOK

LEMMA RepeatInv ==
  ASSUME IInv, NEW w \in Workers, NEW o \in Orders, NEW path \in Path, UNCHANGED << rows, faults >>,
         \/ status[o] = "DELIVERED" /\ Start(w, "credit", o, path)
         \/ status[o] \in Closed /\ Start(w, "takePoints", o, path)
  PROVE  IInv'
<1>1. CASE status[o] = "DELIVERED" /\ Start(w, "credit", o, path)
  <2>1. /\ job' \in [Workers -> Job] /\ Others(w)
        /\ job'[w].at = "credit" /\ job'[w].order = o
    BY <1>1, StartJob DEF IInv, Stage
  <2>2. Fits(job'[w])
    BY <1>1, <2>1 DEF Fits, Rewarding, Undoing
  <2>3. QED BY <2>1, <2>2, JobOnly, FaultsStay
<1>2. CASE status[o] \in Closed /\ Start(w, "takePoints", o, path)
  <2>1. /\ job' \in [Workers -> Job] /\ Others(w)
        /\ job'[w].at = "takePoints" /\ job'[w].order = o
    BY <1>2, StartJob DEF IInv, Stage
  <2>2. Fits(job'[w])
    BY <1>2, <2>1 DEF Fits, Rewarding, Undoing
  <2>3. QED BY <2>1, <2>2, JobOnly, FaultsStay
<1>3. QED BY <1>1, <1>2

(* The commit: an open order is delivered, or one not yet closed closes.   *)
LEMMA StatusInv ==
  ASSUME IInv, NEW w \in Workers, NEW o \in Orders, NEW path \in Path, NEW to,
         status[o] \notin Closed, status' = [status EXCEPT ![o] = to],
         \/ status[o] = "OPEN" /\ to = "DELIVERED" /\ Start(w, "credit", o, path)
         \/ to \in Closed /\ Start(w, "takePoints", o, path),
         UNCHANGED << points, commission, wallet, water, profile, delivered, reversed, faults >>
  PROVE  IInv'
<1>1. to \in {"DELIVERED"} \cup Closed
  OBVIOUS
<1>2. status' \in [Orders -> OrderStatus] /\ status'[o] = to /\ \A p \in Orders : p # o => status'[p] = status[p]
  BY <1>1 DEF IInv, TypeOK, OrderStatus
<1>3. \A p \in Orders : /\ status[p] \in Closed => status'[p] = status[p]
                        /\ status[p] = "DELIVERED" => status'[p] \in {"DELIVERED"} \cup Closed
                        /\ status'[p] = "DELIVERED" => p = o \/ status[p] = "DELIVERED"
  BY <1>1, <1>2
<1>4. job' \in [Workers -> Job] /\ Others(w) /\ job'[w].order = o
      /\ job'[w].at = IF to = "DELIVERED" THEN "credit" ELSE "takePoints"
  <2>1. CASE status[o] = "OPEN" /\ to = "DELIVERED" /\ Start(w, "credit", o, path)
    BY <2>1, StartJob DEF IInv, Stage
  <2>2. CASE to \in Closed /\ Start(w, "takePoints", o, path)
    BY <2>2, StartJob DEF IInv, Stage, Closed
  <2>3. QED BY <2>1, <2>2
<1>5. TypeOK'
  BY <1>2, <1>4 DEF IInv, TypeOK
<1>6. LostOnlyIfClosed'
  BY <1>3 DEF IInv, LostOnlyIfClosed
<1>7. \A v \in Workers : v # w => Fits(job[v])
  BY JobsFit DEF IInv
<1>8. \A v \in Workers : status[o] = "OPEN" /\ v # w /\ job[v].at \in Rewarding \cup Undoing => job[v].order # o
  BY DEF IInv, RewardsInOrder, UndoesInOrder, Closed
<1>9. RewardsInOrder'
  <2>1. SUFFICES ASSUME NEW v \in Workers, job'[v].at \in Rewarding
                 PROVE  /\ job'[v].order \in Orders /\ status'[job'[v].order] \in {"DELIVERED"} \cup Closed
                        /\ status'[job'[v].order] = "DELIVERED" =>
                             /\ job'[v].at # "credit" => points[job'[v].order] = "CREDITED"
                             /\ job'[v].at \in {"water", "markDelivered"} => commission[job'[v].order] \in Held
                             /\ job'[v].at = "markDelivered" => water # "NONE"
    BY DEF RewardsInOrder
  <2>2. CASE v = w
    BY <1>1, <1>2, <1>4, <2>1, <2>2 DEF Rewarding
  <2>3. CASE v # w
    <3>1. job'[v] = job[v]
      BY <1>4, <2>3 DEF Others
    <3>2. job[v].order \in Orders /\ status[job[v].order] \in {"DELIVERED"} \cup Closed
      BY <2>1, <3>1 DEF IInv, RewardsInOrder
    <3>3. status'[job[v].order] = "DELIVERED" => status[job[v].order] = "DELIVERED"
      BY <1>1, <1>2, <3>2
    <3>4. status'[job[v].order] \in {"DELIVERED"} \cup Closed
      BY <1>3, <3>2
    <3>5. QED BY <2>1, <3>1, <3>2, <3>3, <3>4 DEF IInv, RewardsInOrder
  <2>4. QED BY <2>2, <2>3
<1>10. UndoesInOrder'
  <2>1. SUFFICES ASSUME NEW v \in Workers, job'[v].at \in Undoing
                 PROVE  /\ job'[v].order \in Orders /\ status'[job'[v].order] \in Closed
                        /\ job'[v].at = "markReversed" => ~ job'[v].failed
                        /\ ~ job'[v].failed =>
                             /\ job'[v].at # "takePoints" => points[job'[v].order] # "CREDITED"
                             /\ job'[v].at \in {"takeWater", "markReversed"} => commission[job'[v].order] = "REJECTED"
    BY DEF UndoesInOrder
  <2>2. CASE v = w
    BY <1>1, <1>2, <1>4, <2>1, <2>2 DEF Undoing
  <2>3. CASE v # w
    <3>1. job'[v] = job[v]
      BY <1>4, <2>3 DEF Others
    <3>2. QED BY <1>3, <2>1, <3>1 DEF IInv, UndoesInOrder
  <2>4. QED BY <2>2, <2>3
<1>11. ReversalMarkHonest'
  BY <1>3 DEF IInv, TypeOK, ReversalMarkHonest
<1>12. MarkedWasDelivered'
  BY <1>1, <1>2 DEF IInv, TypeOK, MarkedWasDelivered, Closed
<1>13. DeliveredMarkHonest'
  <2>1. o \in delivered => to # "DELIVERED"
    BY DEF IInv, MarkedWasDelivered, Closed
  <2>2. QED BY <1>2, <2>1 DEF IInv, TypeOK, DeliveredMarkHonest
<1>14. WalletHoldsPaid'
  BY DEF IInv, WalletHoldsPaid
<1>15. QED BY <1>5, <1>6, <1>9, <1>10, <1>11, <1>12, <1>13, <1>14 DEF IInv

-----------------------------------------------------------------------------
(* The effects.                                                            *)

(* What no effect does to a row: a delivered order keeps its rewards, a    *)
(* closed one gets none back, only a closed one loses any.                 *)
Keeps ==
  /\ points' \in [Orders -> Points] /\ commission' \in [Orders -> Commission] /\ water' \in Water
  /\ \A p \in Orders :
       /\ status[p] = "DELIVERED" => /\ points[p] = "CREDITED" => points'[p] = "CREDITED"
                                     /\ commission[p] \in Held => commission'[p] \in Held
       /\ status[p] \in Closed => /\ points[p] # "CREDITED" => points'[p] # "CREDITED"
                                  /\ commission[p] = "REJECTED" => commission'[p] = "REJECTED"
       /\ status[p] \notin Closed => /\ points'[p] = "TAKEN_BACK" => points[p] = "TAKEN_BACK"
                                     /\ commission'[p] = "REJECTED" => commission[p] = "REJECTED"
  /\ water # "NONE" => water' # "NONE"

LEMMA RowsInv ==
  ASSUME IInv, Keeps, UNCHANGED << status, delivered, reversed, faults >>, profile' \in BOOLEAN,
         wallet' \in Int, WalletHoldsPaid', job' \in [Workers -> Job],
         \A v \in Workers : job'[v] = job[v] \/ Fits(job[v])'
  PROVE  IInv'
<1>1. TypeOK'
  BY DEF IInv, TypeOK, Keeps
<1>2. LostOnlyIfClosed' /\ MarkedWasDelivered'
  BY DEF IInv, LostOnlyIfClosed, MarkedWasDelivered, Keeps
<1>3. \A v \in Workers : Fits(job[v])'
  <2>1. SUFFICES ASSUME NEW v \in Workers, job'[v] = job[v] PROVE Fits(job[v])'
    OBVIOUS
  <2>2. Fits(job[v])
    BY JobsFit DEF IInv
  <2>3. status[job[v].order] = "DELIVERED" => status[job[v].order] \notin Closed
    BY DEF Closed
  <2>4. QED BY <2>1, <2>2, <2>3 DEF Fits, Keeps
<1>4. RewardsInOrder' /\ UndoesInOrder'
  BY <1>3 DEF RewardsInOrder, UndoesInOrder, Fits
<1>5. ReversalMarkHonest' /\ DeliveredMarkHonest'
  BY DEF IInv, TypeOK, ReversalMarkHonest, DeliveredMarkHonest, Keeps, Held
<1>6. QED BY <1>1, <1>2, <1>4, <1>5 DEF IInv

(* The wallet owes nothing to a step that pays and takes back nothing.     *)
LEMMA PaidSame ==
  ASSUME IInv, wallet' = wallet, \A p \in Orders : commission'[p] = "PAID" <=> commission[p] = "PAID"
  PROVE  wallet' \in Int /\ WalletHoldsPaid'
<1>1. {p \in Orders : commission'[p] = "PAID"} = {p \in Orders : commission[p] = "PAID"}
  OBVIOUS
<1>2. QED BY <1>1 DEF IInv, TypeOK, WalletHoldsPaid

LEMMA CreditInv == ASSUME IInv, NEW w \in Workers, CreditPoints(w) PROVE IInv'
<1> DEFINE o == job[w].order
<1>1. /\ job[w].at = "credit" /\ o \in Orders /\ status[o] \in {"DELIVERED"} \cup Closed
  BY DEF IInv, RewardsInOrder, Rewarding, CreditPoints, At
<1>2. points' = [points EXCEPT ![o] = IF @ = "NONE" /\ status[o] = "DELIVERED" THEN "CREDITED" ELSE @]
  BY DEF CreditPoints
<1>3. /\ job' \in [Workers -> Job] /\ Others(w)
      /\ job'[w].at = "lock" /\ job'[w].order = o
  BY GoToJob DEF IInv, CreditPoints, Stage
<1>4. UNCHANGED << status, commission, wallet, water, profile, delivered, reversed, faults >>
  BY DEF CreditPoints
<1>5. status[o] = "DELIVERED" => points'[o] = "CREDITED"
  BY <1>1, <1>2 DEF IInv, TypeOK, LostOnlyIfClosed, Points, Closed
<1>6. Keeps
  <2>1. points' \in [Orders -> Points] /\ \A p \in Orders : points'[p] = points[p] \/ (p = o /\ status[o] = "DELIVERED" /\ points'[p] = "CREDITED")
    BY <1>1, <1>2 DEF IInv, TypeOK, Points
  <2>2. QED BY <1>4, <2>1 DEF IInv, TypeOK, Keeps, Closed
<1>7. Fits(job[w])'
  BY <1>1, <1>3, <1>4, <1>5 DEF Fits, Rewarding, Undoing
<1>8. wallet' \in Int /\ WalletHoldsPaid'
  BY <1>4, PaidSame
<1>9. QED BY <1>3, <1>4, <1>6, <1>7, <1>8, RowsInv DEF Others, IInv, TypeOK

LEMMA LockInv == ASSUME IInv, NEW w \in Workers, LockCommission(w) PROVE IInv'
<1> DEFINE o == job[w].order
<1>1. /\ job[w].at = "lock" /\ o \in Orders /\ status[o] \in {"DELIVERED"} \cup Closed
      /\ status[o] = "DELIVERED" => points[o] = "CREDITED"
  BY DEF IInv, RewardsInOrder, Rewarding, LockCommission, At
<1>2. commission' = [commission EXCEPT ![o] = IF @ = "PENDING" THEN "LOCKED" ELSE @]
  BY DEF LockCommission
<1>3. /\ job' \in [Workers -> Job] /\ Others(w)
      /\ job'[w].at = "water" /\ job'[w].order = o
  BY GoToJob DEF IInv, LockCommission, Stage
<1>4. UNCHANGED << status, points, wallet, water, profile, delivered, reversed, faults >>
  BY DEF LockCommission
<1>5. /\ commission' \in [Orders -> Commission]
      /\ \A p \in Orders : commission'[p] = commission[p] \/ (p = o /\ commission[p] = "PENDING" /\ commission'[p] = "LOCKED")
  BY <1>1, <1>2 DEF IInv, TypeOK, Commission
<1>6. status[o] = "DELIVERED" => commission'[o] \in Held
  BY <1>1, <1>2 DEF IInv, TypeOK, LostOnlyIfClosed, Commission, Closed, Held
<1>7. Keeps
  BY <1>4, <1>5 DEF IInv, TypeOK, Keeps, Closed, Held
<1>8. Fits(job[w])'
  BY <1>1, <1>3, <1>4, <1>6 DEF Fits, Rewarding, Undoing
<1>9. wallet' \in Int /\ WalletHoldsPaid'
  BY <1>4, <1>5, PaidSame
<1>10. QED BY <1>3, <1>4, <1>7, <1>8, <1>9, RowsInv DEF Others, IInv, TypeOK

LEMMA GrantInv == ASSUME IInv, NEW w \in Workers, GrantWater(w) PROVE IInv'
<1> DEFINE o == job[w].order
<1>1. /\ job[w].at = "water" /\ o \in Orders /\ status[o] \in {"DELIVERED"} \cup Closed
      /\ status[o] = "DELIVERED" => points[o] = "CREDITED" /\ commission[o] \in Held
  BY DEF IInv, RewardsInOrder, Rewarding, GrantWater, At
<1>2. /\ water' \in Water
      /\ water # "NONE" => water' # "NONE"
      /\ status[o] = "DELIVERED" => water' # "NONE"
  BY DEF GrantWater, IInv, TypeOK, Water
<1>3. UNCHANGED << status, points, commission, wallet, profile, delivered, reversed, faults >>
  BY DEF GrantWater
<1>4. Keeps
  BY <1>2, <1>3 DEF IInv, TypeOK, Keeps
<1>5. /\ job' \in [Workers -> Job] /\ Others(w)
      /\ job'[w] = Idle \/ (job'[w].at = "markDelivered" /\ job'[w].order = o)
  <2>1. CASE Stop(w)
    BY <2>1, StopJob DEF IInv
  <2>2. CASE GoTo(w, "markDelivered")
    BY <2>2, GoToJob DEF IInv, Stage
  <2>3. QED BY <2>1, <2>2 DEF GrantWater
<1>6. Fits(job[w])'
  <2>1. CASE job'[w] = Idle
    BY <2>1, IdleIs DEF Fits
  <2>2. CASE job'[w].at = "markDelivered" /\ job'[w].order = o
    BY <1>1, <1>2, <1>3, <2>2 DEF Fits, Rewarding, Undoing
  <2>3. QED BY <1>5, <2>1, <2>2
<1>7. wallet' \in Int /\ WalletHoldsPaid'
  BY <1>3, PaidSame
<1>8. QED BY <1>3, <1>4, <1>5, <1>6, <1>7, RowsInv DEF Others, IInv, TypeOK

LEMMA TakePointsInv == ASSUME IInv, NEW w \in Workers, TakePoints(w) PROVE IInv'
<1> DEFINE o == job[w].order
<1>1. job[w].at = "takePoints" /\ o \in Orders /\ status[o] \in Closed
  BY DEF IInv, UndoesInOrder, Undoing, TakePoints, At
<1>2. points' = [points EXCEPT ![o] = IF @ = "CREDITED" THEN "TAKEN_BACK" ELSE @]
  BY DEF TakePoints
<1>3. /\ job' \in [Workers -> Job] /\ Others(w)
      /\ job'[w].at = "reject" /\ job'[w].order = o
  BY GoToJob DEF IInv, TakePoints, Stage
<1>4. UNCHANGED << status, commission, wallet, water, profile, delivered, reversed, faults >>
  BY DEF TakePoints
<1>5. /\ points' \in [Orders -> Points] /\ points'[o] # "CREDITED"
      /\ \A p \in Orders : points'[p] = points[p] \/ (p = o /\ points'[p] = "TAKEN_BACK")
  BY <1>1, <1>2 DEF IInv, TypeOK, Points
<1>6. Keeps
  BY <1>1, <1>4, <1>5 DEF IInv, TypeOK, Keeps, Closed
<1>7. Fits(job[w])'
  BY <1>1, <1>3, <1>4, <1>5 DEF Fits, Rewarding, Undoing
<1>8. wallet' \in Int /\ WalletHoldsPaid'
  BY <1>4, PaidSame
<1>9. QED BY <1>3, <1>4, <1>6, <1>7, <1>8, RowsInv DEF Others, IInv, TypeOK

LEMMA RejectInv == ASSUME IInv, NEW w \in Workers, RejectCommission(w) PROVE IInv'
<1> DEFINE o == job[w].order
           Paid == {p \in Orders : commission[p] = "PAID"}
<1>1. /\ job[w].at = "reject" /\ o \in Orders /\ status[o] \in Closed
      /\ ~ job[w].failed => points[o] # "CREDITED"
  BY DEF IInv, UndoesInOrder, Undoing, RejectCommission, At
<1>2. /\ wallet' = IF commission[o] = "PAID" THEN wallet - 1 ELSE wallet
      /\ commission' = [commission EXCEPT ![o] = "REJECTED"]
  BY DEF RejectCommission
<1>3. UNCHANGED << status, points, water, profile, delivered, reversed, faults >>
  BY DEF RejectCommission
<1>4. /\ commission' \in [Orders -> Commission] /\ commission'[o] = "REJECTED"
      /\ \A p \in Orders : p # o => commission'[p] = commission[p]
  BY <1>1, <1>2 DEF IInv, TypeOK, Commission
<1>5. Keeps
  BY <1>1, <1>3, <1>4 DEF IInv, TypeOK, Keeps, Closed
<1>6. /\ job' \in [Workers -> Job] /\ Others(w)
      /\ \/ job'[w] = Idle
         \/ /\ job'[w].at = "takeWater" /\ job'[w].order = o /\ job'[w].failed = job[w].failed
         \/ /\ job'[w].at = "markReversed" /\ job'[w].order = o /\ job'[w].failed = job[w].failed /\ ~ job[w].failed
  <2>1. CASE GoTo(w, "takeWater")
    BY <2>1, GoToJob DEF IInv, Stage
  <2>2. CASE Stop(w)
    BY <2>2, StopJob DEF IInv
  <2>3. CASE ~ job[w].failed /\ GoTo(w, "markReversed")
    BY <2>3, GoToJob DEF IInv, Stage
  <2>4. QED BY <2>1, <2>2, <2>3 DEF RejectCommission, AfterReject
<1>7. Fits(job[w])'
  <2>1. CASE job'[w] = Idle
    BY <2>1, IdleIs DEF Fits
  <2>2. CASE job'[w].at \in {"takeWater", "markReversed"} /\ job'[w].order = o /\ job'[w].failed = job[w].failed
                /\ (job'[w].at = "markReversed" => ~ job[w].failed)
    BY <1>1, <1>3, <1>4, <2>2 DEF Fits, Rewarding, Undoing
  <2>3. QED BY <1>6, <2>1, <2>2
<1>8. wallet' \in Int /\ WalletHoldsPaid'
  <2>1. CASE commission[o] = "PAID"
    <3>1. {p \in Orders : commission'[p] = "PAID"} = Paid \ {o} /\ o \in Paid
      BY <1>1, <1>4, <2>1
    <3>2. IsFiniteSet(Paid)
      BY OrdersAssumption, FS_Subset
    <3>3. Cardinality(Paid \ {o}) = Cardinality(Paid) - 1
      BY <3>1, <3>2, FS_RemoveElement
    <3>4. wallet = Cardinality(Paid) /\ wallet \in Int
      BY DEF IInv, TypeOK, WalletHoldsPaid
    <3>5. wallet' = wallet - 1
      BY <1>2, <2>1
    <3>6. wallet' = Cardinality(Paid \ {o}) /\ wallet' \in Int
      BY <3>3, <3>4, <3>5
    <3>7. wallet' = Cardinality({p \in Orders : commission'[p] = "PAID"})
      BY <3>1, <3>6
    <3>8. QED BY <3>6, <3>7 DEF WalletHoldsPaid
  <2>2. CASE commission[o] # "PAID"
    BY <1>2, <1>4, <2>2, PaidSame
  <2>3. QED BY <2>1, <2>2
<1>9. profile' \in BOOLEAN
  BY <1>3 DEF IInv, TypeOK
<1>10. QED BY <1>3, <1>5, <1>6, <1>7, <1>8, <1>9, RowsInv DEF Others

LEMMA TakeWaterInv == ASSUME IInv, NEW w \in Workers, TakeWater(w) PROVE IInv'
<1> DEFINE o == job[w].order
<1>1. /\ job[w].at = "takeWater" /\ o \in Orders /\ status[o] \in Closed
      /\ ~ job[w].failed => points[o] # "CREDITED" /\ commission[o] = "REJECTED"
  BY DEF IInv, UndoesInOrder, Undoing, TakeWater, At
<1>2. /\ water' \in Water
      /\ water # "NONE" => water' # "NONE"
  BY DEF TakeWater, IInv, TypeOK, Water
<1>3. UNCHANGED << status, points, commission, wallet, profile, delivered, reversed, faults >>
  BY DEF TakeWater
<1>4. Keeps
  BY <1>2, <1>3 DEF IInv, TypeOK, Keeps
<1>5. /\ job' \in [Workers -> Job] /\ Others(w)
      /\ \/ job'[w] = Idle
         \/ job'[w].at = "markReversed" /\ job'[w].order = o /\ job'[w].failed = job[w].failed /\ ~ job[w].failed
  <2>1. CASE Stop(w)
    BY <2>1, StopJob DEF IInv
  <2>2. CASE ~ job[w].failed /\ GoTo(w, "markReversed")
    BY <2>2, GoToJob DEF IInv, Stage
  <2>3. QED BY <2>1, <2>2 DEF TakeWater, AfterWater
<1>6. Fits(job[w])'
  <2>1. CASE job'[w] = Idle
    BY <2>1, IdleIs DEF Fits
  <2>2. CASE job'[w].at = "markReversed" /\ job'[w].order = o /\ job'[w].failed = job[w].failed /\ ~ job[w].failed
    BY <1>1, <1>3, <2>2 DEF Fits, Rewarding, Undoing
  <2>3. QED BY <1>5, <2>1, <2>2
<1>7. wallet' \in Int /\ WalletHoldsPaid'
  BY <1>3, PaidSame
<1>8. QED BY <1>3, <1>4, <1>5, <1>6, <1>7, RowsInv DEF Others, IInv, TypeOK

(* The marks.                                                              *)
LEMMA MarkInv ==
  ASSUME IInv, NEW w \in Workers, Stop(w),
         delivered' \in SUBSET Orders, reversed' \in SUBSET Orders,
         \A o \in delivered' \ delivered :
            /\ status[o] # "OPEN"
            /\ status[o] = "DELIVERED" => points[o] = "CREDITED" /\ commission[o] \in Held /\ water # "NONE",
         \A o \in reversed' \ reversed : status[o] \in Closed /\ points[o] # "CREDITED" /\ commission[o] = "REJECTED",
         UNCHANGED << status, points, commission, wallet, water, profile, faults >>
  PROVE  IInv'
<1>1. job' \in [Workers -> Job] /\ Others(w) /\ job'[w] = Idle
  BY StopJob DEF IInv
<1>2. TypeOK'
  BY <1>1 DEF IInv, TypeOK
<1>3. LostOnlyIfClosed' /\ MarkedWasDelivered'
  BY DEF IInv, LostOnlyIfClosed, MarkedWasDelivered
<1>4. \A v \in Workers : Fits(job'[v])
  BY <1>1, IdleFits, JobsFit DEF IInv, Others
<1>5. RewardsInOrder' /\ UndoesInOrder'
  BY <1>4 DEF RewardsInOrder, UndoesInOrder, Fits
<1>6. ReversalMarkHonest' /\ DeliveredMarkHonest'
  BY DEF IInv, ReversalMarkHonest, DeliveredMarkHonest, Held
<1>7. WalletHoldsPaid'
  BY DEF IInv, WalletHoldsPaid
<1>8. QED BY <1>2, <1>3, <1>5, <1>6, <1>7 DEF IInv

LEMMA MarksInv ==
  ASSUME IInv, NEW w \in Workers, MarkDelivered(w) \/ MarkReversed(w) PROVE IInv'
<1> DEFINE o == job[w].order
<1>1. CASE MarkDelivered(w)
  <2>1. /\ o \in Orders /\ status[o] # "OPEN"
        /\ status[o] = "DELIVERED" => points[o] = "CREDITED" /\ commission[o] \in Held /\ water # "NONE"
    BY <1>1 DEF IInv, RewardsInOrder, Rewarding, MarkDelivered, At, Closed
  <2>2. /\ Stop(w) /\ delivered' = delivered \cup {o}
        /\ UNCHANGED << status, points, commission, wallet, water, profile, reversed, faults >>
    BY <1>1 DEF MarkDelivered
  <2>3. delivered' \in SUBSET Orders /\ reversed' \in SUBSET Orders
    BY <2>1, <2>2 DEF IInv, TypeOK
  <2>4. QED BY <2>1, <2>2, <2>3, MarkInv
<1>2. CASE MarkReversed(w)
  <2>1. o \in Orders /\ status[o] \in Closed /\ points[o] # "CREDITED" /\ commission[o] = "REJECTED"
    BY <1>2 DEF IInv, UndoesInOrder, Undoing, MarkReversed, At
  <2>2. /\ Stop(w) /\ reversed' = reversed \cup {o}
        /\ UNCHANGED << status, points, commission, wallet, water, profile, delivered, faults >>
    BY <1>2 DEF MarkReversed
  <2>3. delivered' \in SUBSET Orders /\ reversed' \in SUBSET Orders
    BY <2>1, <2>2 DEF IInv, TypeOK
  <2>4. QED BY <2>1, <2>2, <2>3, MarkInv
<1>3. QED BY <1>1, <1>2

(* A step that fails is noted or ends the call; a crash ends it.           *)
LEMMA StepFailsInv == ASSUME IInv, NEW w \in Workers, StepFails(w) PROVE IInv'
<1> DEFINE o == job[w].order
<1>1. faults' \in 0 .. MaxFaults /\ UNCHANGED rows
  BY FaultsStay DEF StepFails
<1>2. UNCHANGED << status, points, commission, wallet, water, profile, delivered, reversed >>
  BY <1>1 DEF rows
<1>3. Fits(job[w]) /\ job \in [Workers -> Job]
  BY JobsFit DEF IInv, TypeOK
<1>4. CASE Stop(w)
  BY <1>1, <1>4, StopInv
<1>5. CASE job[w].at = "water" /\ job' = [job EXCEPT ![w].failed = TRUE]
  <2>1. /\ job' \in [Workers -> Job] /\ Others(w)
        /\ job'[w].at = "water" /\ job'[w].order = o
    BY <1>3, <1>5 DEF Others, Job
  <2>2. Fits(job'[w])
    BY <1>3, <1>5, <2>1 DEF Fits, Rewarding, Undoing
  <2>3. QED BY <1>1, <2>1, <2>2, JobOnly
<1>6. CASE job[w].at = "takePoints" /\ job' = [job EXCEPT ![w].failed = TRUE, ![w].at = "reject"]
  <2>1. /\ job' \in [Workers -> Job] /\ Others(w)
        /\ job'[w].at = "reject" /\ job'[w].order = o /\ job'[w].failed
    BY <1>3, <1>6 DEF Others, Job, Stage
  <2>2. Fits(job'[w])
    BY <1>3, <1>6, <2>1 DEF Fits, Rewarding, Undoing
  <2>3. QED BY <1>1, <2>1, <2>2, JobOnly
<1>7. CASE job[w].at = "reject" /\ job' = [job EXCEPT ![w].failed = TRUE, ![w].at = "takeWater"]
  <2>1. /\ job' \in [Workers -> Job] /\ Others(w)
        /\ job'[w].at = "takeWater" /\ job'[w].order = o /\ job'[w].failed
    BY <1>3, <1>7 DEF Others, Job, Stage
  <2>2. Fits(job'[w])
    BY <1>3, <1>7, <2>1 DEF Fits, Rewarding, Undoing
  <2>3. QED BY <1>1, <2>1, <2>2, JobOnly
<1>8. QED BY <1>4, <1>5, <1>6, <1>7 DEF StepFails, At

(* The wallet, and the game.                                               *)

LEMMA ApproveInv == ASSUME IInv, ApproveDue PROVE IInv'
<1>1. \A p \in Orders : commission'[p] = IF commission[p] = "LOCKED" /\ status[p] = "DELIVERED" THEN "APPROVED" ELSE commission[p]
  BY DEF ApproveDue
<1>2. UNCHANGED << status, points, wallet, water, profile, delivered, reversed, job, faults >>
  BY DEF ApproveDue
<1>3. commission' \in [Orders -> Commission]
  BY DEF ApproveDue, IInv, TypeOK, Commission
<1>4. Keeps
  BY <1>1, <1>2, <1>3 DEF IInv, TypeOK, Keeps, Closed, Held
<1>5. wallet' \in Int /\ WalletHoldsPaid'
  BY <1>1, <1>2, PaidSame
<1>6. QED BY <1>2, <1>4, <1>5, RowsInv DEF IInv, TypeOK

LEMMA PayoutInv == ASSUME IInv, RequestPayout PROVE IInv'
<1> DEFINE Paid == {p \in Orders : commission[p] = "PAID"}
<1>1. \A p \in Orders : commission'[p] = IF p \in Payable THEN "PAID" ELSE commission[p]
  BY DEF RequestPayout
<1>2. UNCHANGED << status, points, water, profile, delivered, reversed, job, faults >>
      /\ wallet' = wallet + Cardinality(Payable)
  BY DEF RequestPayout
<1>3. commission' \in [Orders -> Commission]
  BY DEF RequestPayout, IInv, TypeOK, Commission
<1>4. Keeps
  BY <1>1, <1>2, <1>3 DEF IInv, TypeOK, Keeps, Closed, Held, Payable
<1>5. wallet' \in Int /\ WalletHoldsPaid'
  <2>1. IsFiniteSet(Paid) /\ IsFiniteSet(Payable)
    BY OrdersAssumption, FS_Subset DEF Payable
  <2>2. Paid \cap Payable = {}
    BY DEF Payable
  <2>3. {p \in Orders : commission'[p] = "PAID"} = Paid \cup Payable
    BY <1>1 DEF Payable
  <2>4. Cardinality(Paid \cup Payable) = Cardinality(Paid) + Cardinality(Payable) - Cardinality(Paid \cap Payable)
    BY <2>1, FS_Union
  <2>5. Cardinality(Paid \cap Payable) = 0
    BY <2>2, FS_EmptySet
  <2>6. Cardinality(Paid) \in Nat /\ Cardinality(Payable) \in Nat
    BY <2>1, FS_CardinalityType
  <2>7. wallet = Cardinality(Paid)
    BY DEF IInv, WalletHoldsPaid
  <2>8. wallet' = Cardinality(Paid \cup Payable) /\ wallet' \in Int
    BY <1>2, <2>4, <2>5, <2>6, <2>7
  <2>9. wallet' = Cardinality({p \in Orders : commission'[p] = "PAID"})
    BY <2>3, <2>8
  <2>10. QED BY <2>8, <2>9 DEF WalletHoldsPaid
<1>6. QED BY <1>2, <1>4, <1>5, RowsInv DEF IInv, TypeOK

LEMMA OpenGameInv == ASSUME IInv, OpenGame PROVE IInv'
<1>1. UNCHANGED << status, points, commission, wallet, delivered, reversed, job, faults >> /\ profile' \in BOOLEAN
  BY DEF OpenGame
<1>2. Keeps
  BY <1>1 DEF OpenGame, IInv, TypeOK, Keeps, Water
<1>3. wallet' \in Int /\ WalletHoldsPaid'
  BY <1>1, PaidSame
<1>4. QED BY <1>1, <1>2, <1>3, RowsInv DEF IInv, TypeOK

(* The actions that commit a status or take up unfinished effects.         *)
LEMMA RequestInv ==
  ASSUME IInv, NEW r \in Requests, NEW o \in Orders, Request(r, o) PROVE IInv'
<1>1. r \in Workers /\ "shop" \in Path /\ "customer" \in Path /\ "repeat" \in Path
  BY DEF Workers, Path
<1>2. CASE Deliver(r, o)
  BY <1>1, <1>2, StatusInv DEF Deliver, Closed
<1>3. CASE Close(r, o)
  <2> DEFINE to == IF status[o] = "DELIVERED" THEN "RETURNED" ELSE "CANCELLED"
  <2>1. to \in Closed
    BY DEF Closed
  <2>2. QED BY <1>1, <1>3, <2>1, StatusInv DEF Close
<1>4. CASE CustomerCancels(r, o)
  BY <1>1, <1>4, StatusInv DEF CustomerCancels, Closed
<1>5. CASE Repeat(r, o)
  BY <1>1, <1>5, RepeatInv DEF Repeat
<1>6. QED BY <1>2, <1>3, <1>4, <1>5 DEF Request

LEMMA ResyncInv ==
  ASSUME IInv, NEW o \in Orders, DeliveredResync(o) \/ ReversalResync(o) PROVE IInv'
<1>1. DeliveredCron \in Workers /\ ReversalCron \in Workers /\ "shop" \in Path
  BY DEF Workers, Path
<1>2. QED BY <1>1, RepeatInv DEF DeliveredResync, ReversalResync

LEMMA NextInv == IInv /\ [Next]_vars => IInv'
<1> SUFFICES ASSUME IInv, [Next]_vars PROVE IInv'
  OBVIOUS
<1>1. CASE UNCHANGED vars
  BY <1>1 DEF vars, IInv, TypeOK, LostOnlyIfClosed, MarkedWasDelivered, RewardsInOrder, UndoesInOrder,
              ReversalMarkHonest, DeliveredMarkHonest, WalletHoldsPaid
<1>2. CASE \E r \in Requests, o \in Orders : Request(r, o)
  BY <1>2, RequestInv
<1>3. CASE \E o \in Orders : DeliveredResync(o) \/ ReversalResync(o)
  BY <1>3, ResyncInv
<1>4. CASE \E w \in Workers : Effect(w)
  BY <1>4, CreditInv, LockInv, GrantInv, TakePointsInv, RejectInv, TakeWaterInv, MarksInv DEF Effect
<1>5. CASE \E w \in Workers : StepFails(w)
  BY <1>5, StepFailsInv
<1>6. CASE \E w \in Workers : Crash(w)
  BY <1>6, StopInv, FaultsStay DEF Crash
<1>7. CASE ApproveDue \/ RequestPayout \/ OpenGame
  BY <1>7, ApproveInv, PayoutInv, OpenGameInv
<1>8. QED BY <1>1, <1>2, <1>3, <1>4, <1>5, <1>6, <1>7 DEF Next

-----------------------------------------------------------------------------
(* The invariant holds in every reachable state.                           *)
THEOREM Inductive == Spec => []IInv
<1>1. Init => IInv
  BY InitInv DEF WaterInv
<1>2. QED BY <1>1, NextInv, PTL DEF Spec

(* Every row of an order and every worker keeps its type.                  *)
THEOREM TypeCorrect == Spec => []TypeOK
<1>1. IInv => TypeOK
  BY DEF IInv
<1>2. QED BY <1>1, Inductive, PTL

(* reversalEffectsAt never lies: a marked order is closed, has no points   *)
(* and a rejected commission, whatever ran when it closed.                 *)
THEOREM ReversedMeansUndone == Spec => []ReversalMarkHonest
<1>1. IInv => ReversalMarkHonest
  BY DEF IInv
<1>2. QED BY <1>1, Inductive, PTL

(* deliveredEffectsAt never lies: a marked order that is still delivered   *)
(* has its points, its commission and its group's water.                   *)
THEOREM DeliveredMeansRewarded == Spec => []DeliveredMarkHonest
<1>1. IInv => DeliveredMarkHonest
  BY DEF IInv
<1>2. QED BY <1>1, Inductive, PTL

(* The wallet holds the paid commissions and nothing else.                 *)
THEOREM WalletBalances == Spec => []WalletHoldsPaid
<1>1. IInv => WalletHoldsPaid
  BY DEF IInv
<1>2. QED BY <1>1, Inductive, PTL

-----------------------------------------------------------------------------
(* The water of a group that only the shop closes.                         *)

(* The witness of WaterWaits stands while no job reaches the mark.         *)
LEMMA WaitsStay ==
  ASSUME WaterWaits, UNCHANGED << status, reversed >>,
         GroupClosed /\ water' \in {"GRANTED", "PENDING"} => water \in {"GRANTED", "PENDING"},
         \A v \in Workers : job'[v] = job[v] \/ job'[v].at # "markReversed"
  PROVE  WaterWaits'
<1>1. SUFFICES ASSUME GroupClosed', water' \in {"GRANTED", "PENDING"}
               PROVE  \E o \in Orders : o \notin reversed /\ \A v \in Workers : ~ (job'[v].at = "markReversed" /\ job'[v].order = o)
  BY DEF WaterWaits, At
<1>2. GroupClosed /\ water \in {"GRANTED", "PENDING"}
  BY <1>1 DEF GroupClosed
<1>3. PICK o \in Orders : o \notin reversed /\ \A v \in Workers : ~ (job[v].at = "markReversed" /\ job[v].order = o)
  BY <1>2 DEF WaterWaits, At
<1>4. \A v \in Workers : ~ (job'[v].at = "markReversed" /\ job'[v].order = o)
  BY <1>3
<1>5. QED BY <1>3, <1>4

(* What a worker becomes: it keeps its path or is idle, and reaches the    *)
(* mark of a reversal only past the water.                                 *)
LEMMA JobMoves ==
  ASSUME IInv, NobodySkipsWater, NEW w \in Workers, Effect(w) \/ StepFails(w) \/ Crash(w)
  PROVE  /\ Others(w) /\ job'[w].path # "customer"
         /\ job'[w].at = "markReversed" => TakeWater(w)
<1>1. TypeOK /\ job[w].path # "customer" /\ job \in [Workers -> Job]
  BY DEF IInv, NobodySkipsWater, TypeOK
<1>2. CASE Stop(w)
  BY <1>1, <1>2, StopJob, IdleIs DEF Undoing
<1>3. CASE \E stage \in Stage \ {"markReversed"} : GoTo(w, stage)
  BY <1>1, <1>3, GoToJob
<1>4. CASE TakeWater(w) /\ GoTo(w, "markReversed")
  BY <1>1, <1>4, GoToJob DEF Stage
<1>5. CASE job[w].at = "water" /\ job' = [job EXCEPT ![w].failed = TRUE]
  BY <1>1, <1>5 DEF Others, Job
<1>6. CASE \/ job' = [job EXCEPT ![w].failed = TRUE, ![w].at = "reject"]
           \/ job' = [job EXCEPT ![w].failed = TRUE, ![w].at = "takeWater"]
  BY <1>1, <1>6 DEF Others, Job
<1>7. CASE Effect(w)
  BY <1>1, <1>2, <1>3, <1>4, <1>7 DEF Effect, CreditPoints, LockCommission, GrantWater, MarkDelivered, TakePoints,
     RejectCommission, AfterReject, TakeWater, AfterWater, MarkReversed, Stage
<1>8. CASE StepFails(w) \/ Crash(w)
  BY <1>2, <1>5, <1>6, <1>8 DEF StepFails, Crash, At
<1>9. QED BY <1>7, <1>8

LEMMA CloseWater ==
  ASSUME WaterInv, "customer" \notin Closers, NEW r \in Requests, NEW o \in Orders, Request(r, o)
  PROVE  NobodySkipsWater' /\ WaterWaits'
<1>1. TypeOK /\ r \in Workers /\ \A path \in {"shop", "repeat"} : path \in Path
  BY DEF WaterInv, IInv, Workers, Path
<1>2. PICK stage \in {"credit", "takePoints"}, path \in {"shop", "repeat"} : Start(r, stage, o, path)
  BY DEF Request, Deliver, Close, CustomerCancels, Repeat
<1>3. /\ Others(r) /\ job'[r].at = stage /\ job'[r].path = path
  BY <1>1, <1>2, StartJob DEF Stage
<1>4. NobodySkipsWater'
  BY <1>3 DEF WaterInv, NobodySkipsWater, Others
<1>5. CASE Deliver(r, o)
  <2>1. status'[o] = "DELIVERED"
    BY <1>1, <1>5 DEF Deliver, TypeOK
  <2>2. QED BY <1>4, <2>1 DEF WaterWaits, GroupClosed, Closed
<1>6. CASE Close(r, o)
  <2>1. o \notin reversed /\ \A v \in Workers : ~ (job[v].at = "markReversed" /\ job[v].order = o)
    BY <1>6 DEF WaterInv, IInv, ReversalMarkHonest, UndoesInOrder, Undoing, Close
  <2>2. \A v \in Workers : ~ (job'[v].at = "markReversed" /\ job'[v].order = o)
    BY <1>3, <2>1 DEF Others
  <2>3. reversed' = reversed
    BY <1>6 DEF Close
  <2>4. QED BY <1>4, <2>1, <2>2, <2>3 DEF WaterWaits, At
<1>7. CASE Repeat(r, o)
  <2>1. UNCHANGED << status, reversed, water >>
    BY <1>7 DEF Repeat, rows
  <2>2. \A v \in Workers : job'[v] = job[v] \/ job'[v].at # "markReversed"
    BY <1>3 DEF Others
  <2>3. QED BY <1>4, <2>1, <2>2, WaitsStay DEF WaterInv
<1>8. QED BY <1>5, <1>6, <1>7 DEF Request, CustomerCancels

LEMMA ResyncWater ==
  ASSUME WaterInv, NEW o \in Orders, DeliveredResync(o) \/ ReversalResync(o)
  PROVE  NobodySkipsWater' /\ WaterWaits'
<1>1. TypeOK /\ DeliveredCron \in Workers /\ ReversalCron \in Workers /\ "shop" \in Path
  BY DEF WaterInv, IInv, Workers, Path
<1>2. PICK w \in Workers, stage \in {"credit", "takePoints"} : Start(w, stage, o, "shop")
  BY <1>1 DEF DeliveredResync, ReversalResync
<1>3. Others(w) /\ job'[w].at = stage /\ job'[w].path = "shop"
  BY <1>1, <1>2, StartJob DEF Stage
<1>4. UNCHANGED << status, reversed, water >>
  BY DEF DeliveredResync, ReversalResync, rows
<1>5. \A v \in Workers : job'[v] = job[v] \/ job'[v].at # "markReversed"
  BY <1>3 DEF Others
<1>6. QED BY <1>3, <1>4, <1>5, WaitsStay DEF WaterInv, NobodySkipsWater, Others

LEMMA WorkerWater ==
  ASSUME WaterInv, NEW w \in Workers, Effect(w) \/ StepFails(w) \/ Crash(w)
  PROVE  NobodySkipsWater' /\ WaterWaits'
<1>1. /\ Others(w) /\ job'[w].path # "customer"
      /\ job'[w].at = "markReversed" => TakeWater(w)
  BY JobMoves DEF WaterInv
<1>2. NobodySkipsWater'
  BY <1>1 DEF WaterInv, NobodySkipsWater, Others
<1>3. CASE TakeWater(w)
  <2>1. GroupClosed => water' \notin {"GRANTED", "PENDING"}
    BY <1>3 DEF TakeWater
  <2>2. GroupClosed' <=> GroupClosed
    BY <1>3 DEF TakeWater, GroupClosed
  <2>3. QED BY <1>2, <2>1, <2>2 DEF WaterWaits
<1>4. CASE MarkReversed(w)
  <2>1. job[w].at = "markReversed" /\ reversed' = reversed \cup {job[w].order} /\ UNCHANGED << status, water >> /\ Stop(w)
    BY <1>4 DEF MarkReversed, At
  <2>2. job'[w].at # "markReversed"
    BY <2>1, StopJob, IdleIs DEF WaterInv, IInv, Undoing
  <2>3. SUFFICES ASSUME GroupClosed', water' \in {"GRANTED", "PENDING"}
                 PROVE  \E o \in Orders : o \notin reversed' /\ \A v \in Workers : ~ (job'[v].at = "markReversed" /\ job'[v].order = o)
    BY <1>2 DEF WaterWaits, At
  <2>4. GroupClosed /\ water \in {"GRANTED", "PENDING"}
    BY <2>1, <2>3 DEF GroupClosed
  <2>5. PICK o \in Orders : o \notin reversed /\ \A v \in Workers : ~ (job[v].at = "markReversed" /\ job[v].order = o)
    BY <2>4 DEF WaterInv, WaterWaits, At
  <2>6. o \notin reversed' /\ \A v \in Workers : ~ (job'[v].at = "markReversed" /\ job'[v].order = o)
    BY <1>1, <2>1, <2>2, <2>5 DEF Others
  <2>7. QED BY <2>6
<1>5. CASE ~ TakeWater(w) /\ ~ MarkReversed(w)
  <2>1. UNCHANGED << status, reversed >>
    BY <1>5 DEF Effect, StepFails, Crash, rows, CreditPoints, LockCommission, GrantWater, MarkDelivered, TakePoints, RejectCommission
  <2>2. GroupClosed /\ water' \in {"GRANTED", "PENDING"} => water \in {"GRANTED", "PENDING"}
    <3>1. CASE GrantWater(w)
      <4>1. job[w].order \in Orders
        BY <3>1 DEF WaterInv, IInv, RewardsInOrder, Rewarding, GrantWater, At
      <4>2. GroupClosed => status[job[w].order] # "DELIVERED"
        BY <4>1 DEF GroupClosed, Closed
      <4>3. QED BY <3>1, <4>2 DEF GrantWater
    <3>2. CASE ~ GrantWater(w)
      BY <1>5, <3>2 DEF Effect, StepFails, Crash, rows, CreditPoints, LockCommission, MarkDelivered, TakePoints, RejectCommission
    <3>3. QED BY <3>1, <3>2
  <2>3. \A v \in Workers : job'[v] = job[v] \/ job'[v].at # "markReversed"
    BY <1>1, <1>5 DEF Others
  <2>4. QED BY <1>2, <2>1, <2>2, <2>3, WaitsStay DEF WaterInv
<1>6. QED BY <1>3, <1>4, <1>5

LEMMA NextWater ==
  ASSUME "customer" \notin Closers, WaterInv, [Next]_vars PROVE WaterInv'
<1>1. IInv'
  BY NextInv DEF WaterInv
<1>2. CASE UNCHANGED << status, reversed, water, job >>
  BY <1>2, <1>1, WaitsStay DEF WaterInv, NobodySkipsWater
<1>3. CASE \E r \in Requests, o \in Orders : Request(r, o)
  BY <1>1, <1>3, CloseWater DEF WaterInv
<1>4. CASE \E o \in Orders : DeliveredResync(o) \/ ReversalResync(o)
  BY <1>1, <1>4, ResyncWater DEF WaterInv
<1>5. CASE \E w \in Workers : Effect(w) \/ StepFails(w) \/ Crash(w)
  BY <1>1, <1>5, WorkerWater DEF WaterInv
<1>6. CASE OpenGame
  <2>1. UNCHANGED << status, reversed, job >>
    BY <1>6 DEF OpenGame
  <2>2. GroupClosed /\ water' \in {"GRANTED", "PENDING"} => water \in {"GRANTED", "PENDING"}
    BY <1>6 DEF OpenGame
  <2>3. QED BY <1>1, <2>1, <2>2, WaitsStay DEF WaterInv, NobodySkipsWater
<1>7. QED BY <1>2, <1>3, <1>4, <1>5, <1>6 DEF Next, ApproveDue, RequestPayout, vars

(* Where customers do not cancel themselves, a checkout whose packages are *)
(* all closed and marked keeps no water.                                   *)
THEOREM ShopTakesWaterBack ==
  ASSUME "customer" \notin Closers
  PROVE  Spec => []GroupWaterTakenBack
<1>1. WaterInv => GroupWaterTakenBack
  BY DEF WaterInv, IInv, WaterWaits, ReversalMarkHonest, GroupWaterTakenBack, GroupClosed
<1>2. WaterInv /\ [Next]_vars => WaterInv'
  BY NextWater
<1>3. QED BY <1>1, <1>2, InitInv, PTL DEF Spec
=============================================================================
