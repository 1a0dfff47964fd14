---------------------------- MODULE MCCron_proofs ----------------------------
(***************************************************************************)
(* The cron lead, the lock of a job and the subscriptions taken together:   *)
(* each keeps its own specification whatever steps the others take, so that *)
(* what is proved of each holds of all three.                               *)
(***************************************************************************)
EXTENDS MCCron, CronLeases_proofs, Subscriptions_proofs

(* A step of one of the three is a step of it, or leaves it as it is.      *)
LEMMA OneStepEach ==
  ASSUME [Next]_<< leadVars, lockVars, subVars, part >>
  PROVE  [LeaderNext]_leadVars /\ [LockNext]_lockVars /\ [SubNext]_subVars
<1>1. CASE part = "LEAD" /\ LeaderNext /\ UNCHANGED << lockVars, subVars, part >>
  BY <1>1
<1>2. CASE part = "LOCK" /\ LockNext /\ UNCHANGED << leadVars, subVars, part >>
  BY <1>2
<1>3. CASE part = "JOB" /\ SubNext /\ UNCHANGED << leadVars, lockVars, part >>
  BY <1>3
<1>4. CASE UNCHANGED << leadVars, lockVars, subVars, part >>
  BY <1>4
<1>5. QED
  BY <1>1, <1>2, <1>3, <1>4 DEF Next

(* The three share no state: what runs as a whole is a run of each of them  *)
(* (the lease "cron", a row "run:<key>", a row of subscriptions).           *)
LEMMA EachByItself == Spec => LeaderSpec /\ LockSpec /\ SubSpec
<1>1. Init => LeaderInit /\ LockInit /\ SubInit
  BY DEF Init
<1>2. [Next]_<< leadVars, lockVars, subVars, part >>
        => [LeaderNext]_leadVars /\ [LockNext]_lockVars /\ [SubNext]_subVars
  BY OneStepEach
<1>3. QED
  BY <1>1, <1>2, PTL DEF Spec, LeaderSpec, LockSpec, SubSpec

(* Every variable of the three has its type, for any number of processes,   *)
(* runs and days.                                                          *)
THEOREM TypeCorrect == Spec => []TypeOK
<1>1. LeaderInv => LeaderTypeOK
  BY DEF LeaderInv
<1>2. LockInv => LockTypeOK
  BY DEF LockInv
<1>3. SubSpec => []IInv
  BY IInvInit, IInvStep, PTL DEF SubSpec
<1>4. IInv => SubTypeOK
  BY DEF IInv
<1>5. LeaderTypeOK /\ LockTypeOK /\ SubTypeOK => TypeOK
  BY DEF TypeOK
<1>6. QED
  BY <1>1, <1>2, <1>3, <1>4, <1>5, EachByItself, LeaderInductive, LockInductive, PTL

(* All that is proved of the three by themselves: one process leads, runs   *)
(* of a job overlap only when a lock ran out and then say so, and no two    *)
(* deliveries come in a row unless requests crossed (cron-leader.service.ts,*)
(* run-exclusive.ts, processDue).                                           *)
THEOREM CronsAreSafe ==
  Spec => [](OneLeader /\ OneRun /\ LossIsReal /\ ApartUnlessCrossed) /\ LockIsTakenOnce
BY EachByItself, OnlyOneLeads, RunsDoNotOverlap, NoFalseAlarm, OverlapIsSeen, NoTwoOrdersInARow, PTL
=============================================================================
