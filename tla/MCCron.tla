-------------------------------- MODULE MCCron --------------------------------
(***************************************************************************)
(* The cron lead, the lock of a job and a job, the subscriptions, on a      *)
(* small instance.  They share no state, so each is explored by itself:     *)
(* part says which one takes steps.                                         *)
(***************************************************************************)
EXTENDS CronLeader, RunExclusive, Subscriptions

VARIABLE part

Init == LeaderInit /\ LockInit /\ SubInit /\ part \in {"LEAD", "LOCK", "JOB"}
Next ==
  \/ part = "LEAD" /\ LeaderNext /\ UNCHANGED << lockVars, subVars, part >>
  \/ part = "LOCK" /\ LockNext /\ UNCHANGED << leadVars, subVars, part >>
  \/ part = "JOB" /\ SubNext /\ UNCHANGED << leadVars, lockVars, part >>
Spec == Init /\ [][Next]_<< leadVars, lockVars, subVars, part >>
             /\ (part = "LEAD" => LeaderFairness)
             /\ (part = "JOB" => SubFairness)

(* Every variable of the three has its type.                               *)
TypeOK == LeaderTypeOK /\ LockTypeOK /\ SubTypeOK
(* The lead comes back after its holder died (SomeoneLeads, while it is    *)
(* the lead that is explored).                                             *)
LeadComesBack == part = "LEAD" => SomeoneLeads
(* No delivery that is due is dropped silently (DueIsHeard, while it is    *)
(* the subscriptions that are explored).                                   *)
NothingDroppedSilently == part = "JOB" => DueIsHeard
=============================================================================
