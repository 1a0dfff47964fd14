----------------------------- MODULE RunExclusive -----------------------------
(***************************************************************************)
(* The lock of one exclusive job, a row "run:<key>" of cron_leases shared   *)
(* by every process (runExclusive, RunLease): a run goes on after its       *)
(* process lost the lead, and an admin may start one anywhere, so the lead  *)
(* does not keep runs apart.  A run renews its lock while it works and      *)
(* deletes it in the end; the lock runs out when it was not renewed in      *)
(* time, which may happen at any moment here.                               *)
(***************************************************************************)
CONSTANTS Runs,   \* runs of the job, each with a holder id of its own
          NoRun   \* the row does not exist

ASSUME NoRunAssumption == NoRun \notin Runs

VARIABLES lock,    \* the row: its holder, and has it run out
          run,     \* the runs
          lapsed   \* the runs whose lock ran out at some time (history)
lockVars == << lock, run, lapsed >>

NoLock == [holder |-> NoRun, expired |-> FALSE]

LockInit ==
  /\ lock = NoLock
  /\ run = [r \in Runs |-> [at |-> "NEW", renewal |-> "NONE", lostLogged |-> FALSE]]
  /\ lapsed = {}

(* Mutant: the claim takes the row whoever holds it.                       *)
RowFreeForAll == TRUE
RowFree == lock.holder = NoRun \/ lock.expired

(* The leader's cron, or an admin, starts a run: it works or is refused.   *)
StartRun(r) ==
  /\ run[r].at = "NEW"
  /\ IF RowFree THEN /\ lock' = [holder |-> r, expired |-> FALSE]
                       /\ run' = [run EXCEPT ![r].at = "WORKING"]
                  ELSE /\ run' = [run EXCEPT ![r].at = "ENDED"]
                       /\ lock' = lock
  /\ UNCHANGED lapsed

(* The process stalls, or cannot reach the database, for the whole ttl.    *)
Lapse ==
  /\ lock.holder # NoRun /\ ~ lock.expired
  /\ lock' = [lock EXCEPT !.expired = TRUE]
  /\ lapsed' = lapsed \cup {lock.holder}
  /\ UNCHANGED run

SendRenewal(r) ==
  /\ run[r].at = "WORKING" /\ run[r].renewal = "NONE" /\ ~ run[r].lostLogged
  /\ run' = [run EXCEPT ![r].renewal = "SENT"]
  /\ UNCHANGED << lock, lapsed >>

(* Mutant: the renewal is an upsert like the claim.                        *)
RenewsByInserting(r) == lock.holder \in {r, NoRun} \/ lock.expired
(* UPDATE ... WHERE holder = me AND not expired.                           *)
RenewMatches(r) == lock.holder = r /\ ~ lock.expired

RenewLock(r) ==
  /\ run[r].renewal = "SENT"
  /\ lock' = IF RenewMatches(r) THEN [holder |-> r, expired |-> FALSE] ELSE lock
  /\ run' = [run EXCEPT ![r].renewal = IF RenewMatches(r) THEN "RENEWED" ELSE "MISSED"]
  /\ UNCHANGED lapsed

(* A lost lock is logged once and renewed no more; the job goes on.        *)
RenewalAnswered(r) ==
  /\ run[r].renewal \in {"RENEWED", "MISSED"}
  /\ run' = [run EXCEPT ![r].renewal = "NONE", ![r].lostLogged = @ \/ run[r].renewal = "MISSED"]
  /\ UNCHANGED << lock, lapsed >>

RenewalFails(r) ==
  /\ run[r].renewal # "NONE"
  /\ run' = [run EXCEPT ![r].renewal = "NONE"]
  /\ UNCHANGED << lock, lapsed >>

JobDone(r) ==
  /\ run[r].at = "WORKING"
  /\ run' = [run EXCEPT ![r].at = "OVER"]
  /\ UNCHANGED << lock, lapsed >>

(* Mutants: the release does not wait for a renewal; it names no holder.   *)
ReleaseAtOnce(r) == TRUE
ReleaseByName(r) == TRUE
NoRenewalUnderWay(r) == run[r].renewal = "NONE"
ReleaseMatches(r) == lock.holder = r

(* DELETE ... WHERE holder = me, once no renewal is under way; when it     *)
(* fails the row stays until it expires.                                   *)
Release(r) ==
  /\ run[r].at = "OVER" /\ NoRenewalUnderWay(r)
  /\ \/ lock' = IF ReleaseMatches(r) THEN NoLock ELSE lock
     \/ lock' = lock
  /\ run' = [run EXCEPT ![r].at = "ENDED"]
  /\ UNCHANGED lapsed

(* The process dies in the middle: the row stays, no statement follows.    *)
Die(r) ==
  /\ run[r].at \in {"WORKING", "OVER"}
  /\ run' = [run EXCEPT ![r].at = "ENDED", ![r].renewal = "NONE"]
  /\ UNCHANGED << lock, lapsed >>

RunStep(r) ==
  \/ StartRun(r) \/ SendRenewal(r) \/ RenewLock(r) \/ RenewalAnswered(r) \/ RenewalFails(r)
  \/ JobDone(r) \/ Release(r) \/ Die(r)
LockNext == Lapse \/ \E r \in Runs : RunStep(r)

LockSpec == LockInit /\ [][LockNext]_lockVars

-----------------------------------------------------------------------------
(* Every variable has its type.                                            *)
LockTypeOK ==
  /\ lock \in [holder : Runs \cup {NoRun}, expired : BOOLEAN]
  /\ run \in [Runs -> [at : {"NEW", "WORKING", "OVER", "ENDED"},
                       renewal : {"NONE", "SENT", "RENEWED", "MISSED"}, lostLogged : BOOLEAN]]
  /\ lapsed \subseteq Runs

(* Two runs of an exclusive job work at once only when the lock of one of  *)
(* them ran out: the end of an earlier run never lets a second one in.     *)
OneRun ==
  \A r, s \in Runs : run[r].at = "WORKING" /\ run[s].at = "WORKING" /\ r # s => {r, s} \cap lapsed # {}

(* No false alarm: a loss is logged only if the lock really ran out, also  *)
(* when the job ends while a renewal is under way.                         *)
LossIsReal == \A r \in Runs : run[r].lostLogged => r \in lapsed

(* An overlap is never hidden: a run that lost its lock does not get it    *)
(* back, so its next renewal finds it gone.                                *)
LockIsTakenOnce == [][\A r \in Runs : lock'.holder = r /\ lock.holder # r => run[r].at = "NEW"]_lockVars
=============================================================================
