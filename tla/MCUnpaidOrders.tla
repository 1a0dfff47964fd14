---------------------------- MODULE MCUnpaidOrders ----------------------------
(***************************************************************************)
(* Small instances of an order whose money is awaited: one that is paid     *)
(* through ZaloPay, and one whose transfer may never come.  They share no   *)
(* state, so each is explored by itself: part says which one takes steps.   *)
(***************************************************************************)
EXTENDS ZaloPayGateway

CONSTANT Expiry

VARIABLES waiting, waitingReturn, waitingBooks, waitingJob, waitingCrashes, part
waitingVars == << waiting, waitingReturn, waitingBooks, waitingJob, waitingCrashes >>

AbandonedOrders ==
  {[paymentMethod |-> "BANK_TRANSFER", type |-> "RETAIL", onCredit |-> FALSE,
    placedForCustomer |-> FALSE, fulfiller |-> "TUBU", recycling |-> FALSE]}
AbandonedCallers(o) == {"staff", "bank", "waybill"}

Transfer == INSTANCE OrderLifecycle
  WITH OrderKinds <- AbandonedOrders, Callers <- AbandonedCallers, order <- waiting,
       returnRequest <- waitingReturn, books <- waitingBooks, job <- waitingJob, crashes <- waitingCrashes

UnpaidInit == Init /\ Transfer!Init /\ part \in {"GATEWAY", "TRANSFER"}
UnpaidNext ==
  \/ part = "GATEWAY" /\ Next /\ UNCHANGED << waitingVars, part >>
  \/ part = "TRANSFER" /\ Transfer!Next /\ UNCHANGED << vars, part >>
UnpaidSpec ==
  /\ UnpaidInit /\ [][UnpaidNext]_<< vars, waitingVars, part >>
  /\ part = "GATEWAY" => Fairness
  /\ part = "TRANSFER" => Transfer!Fairness

(* Money captured for an open order pays it (OpenOrderGetsPaid, while it   *)
(* is the gateway's order that is explored).                               *)
CapturedOrderGetsPaid == part = "GATEWAY" => OpenOrderGetsPaid
(* The cron gets every abandoned order out of the way: paid, cancelled, or *)
(* marked for a person (AbandonedOrderLeaves of OrderLifecycle).           *)
AbandonedOrderLeaves == part = "TRANSFER" => Transfer!AbandonedOrderLeaves
=============================================================================
