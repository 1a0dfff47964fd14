------------------------------ MODULE CronLeader ------------------------------
(***************************************************************************)
(* Which API process may run the @Cron jobs.  Every process asks the table  *)
(* cron_leases for the lease "cron" again and again, and keeps its jobs     *)
(* stopped unless the last answer said that it holds it.  Statements take   *)
(* time, fail, or outlive the process that sent them.  Time is Postgres's   *)
(* own now() and passes in units; timers and answers are never late beyond  *)
(* the given limits.                                                        *)
(***************************************************************************)
EXTENDS Integers

CONSTANTS Instances,  \* the containers of the API, each with one process at a time
          Nobody,     \* holder of a lease that no living process knows as its own
          Ttl,        \* a lease lasts this long
          Renew,      \* a process asks this often
          Delay,      \* a statement is answered, or fails, within this time
          MaxFaults   \* failed statements and ended processes (a bound for TLC)

ASSUME NobodyAssumption == Nobody \notin Instances
ASSUME TimesAssumption == /\ Ttl \in Nat /\ Renew \in Nat \ {0} /\ Delay \in Nat \ {0}
                          /\ MaxFaults \in Nat
(* An answer comes before the next question, and both well within a lease. *)
ASSUME MarginAssumption == Delay <= Renew /\ Renew + 2 * Delay <= Ttl

VARIABLES lead,      \* the row "cron": its holder and the time left (below 0: expired)
          instance,  \* a process: is it up, does it lead, time to its next tick
          calls,     \* statements of tick() under way
          faults
leadVars == << lead, instance, calls, faults >>

Call == [age : 0 .. Delay, answer : {"NONE", "WON", "LOST"}]
Down == [up |-> FALSE, leader |-> FALSE, timer |-> 0]
Fault == faults < MaxFaults /\ faults' = faults + 1

LeaderInit ==
  /\ lead = [holder |-> Nobody, left |-> -1]
  /\ instance = [i \in Instances |-> [Down EXCEPT !.up = TRUE]]
  /\ calls = [i \in Instances |-> {}]
  /\ faults = 0

(* Mutant: the next tick is timed from the answer instead of the interval. *)
TickAfterAnswer(i) ==
  /\ instance[i].up /\ instance[i].timer = 0
  /\ instance' = [instance EXCEPT ![i].timer = Renew + Delay]
  /\ calls' = [calls EXCEPT ![i] = @ \cup {[age |-> 0, answer |-> "NONE"]}]
  /\ UNCHANGED << lead, faults >>

(* tick() sends one INSERT ... ON CONFLICT that takes the row when it is   *)
(* this process's own or expired.                                          *)
Tick(i) ==
  /\ instance[i].up /\ instance[i].timer = 0
  /\ instance' = [instance EXCEPT ![i].timer = Renew]
  /\ calls' = [calls EXCEPT ![i] = @ \cup {[age |-> 0, answer |-> "NONE"]}]
  /\ UNCHANGED << lead, faults >>

(* Mutant: an expired lease is not taken from the process that held it.    *)
ClaimableByOwner(i) == lead.holder \in {i, Nobody}
Claimable(i) == lead.holder = i \/ lead.left < 0

(* Postgres executes the statement; the process may be gone by then.       *)
TryAcquire(i) ==
  \E c \in calls[i] :
    /\ c.answer = "NONE"
    /\ lead' = IF Claimable(i) THEN [holder |-> i, left |-> Ttl] ELSE lead
    /\ calls' = [calls EXCEPT ![i] =
                   (@ \ {c}) \cup {[c EXCEPT !.answer = IF Claimable(i) THEN "WON" ELSE "LOST"]}]
    /\ UNCHANGED << instance, faults >>

(* The jobs of a living process run from now on, or stop.                  *)
SetLeader(i, acquired) ==
  instance' = IF instance[i].up THEN [instance EXCEPT ![i].leader = acquired] ELSE instance

Answered(i) ==
  \E c \in calls[i] :
    /\ c.answer # "NONE"
    /\ SetLeader(i, c.answer = "WON")
    /\ calls' = [calls EXCEPT ![i] = @ \ {c}]
    /\ UNCHANGED << lead, faults >>

(* Mutant: a statement that fails leaves the leader as it was.             *)
FailsQuietly(i) ==
  /\ Fault
  /\ \E c \in calls[i] : calls' = [calls EXCEPT ![i] = @ \ {c}]
  /\ UNCHANGED << lead, instance >>

(* The statement fails, before or after it was executed: no lead.          *)
Fails(i) ==
  /\ Fault
  /\ \E c \in calls[i] : calls' = [calls EXCEPT ![i] = @ \ {c}]
  /\ SetLeader(i, FALSE)
  /\ UNCHANGED lead

Crash(i) ==
  /\ instance[i].up /\ Fault
  /\ instance' = [instance EXCEPT ![i] = Down]
  /\ UNCHANGED << lead, calls >>

(* onApplicationShutdown: a leader gives the lease up (failing to is like a *)
(* Crash); the scheduler's own hook has stopped the jobs.                   *)
Shutdown(i) ==
  /\ instance[i].up /\ Fault
  /\ instance' = [instance EXCEPT ![i] = Down]
  /\ lead' = IF instance[i].leader /\ lead.holder = i THEN [lead EXCEPT !.left = -1] ELSE lead
  /\ UNCHANGED calls

(* A new process has a new instanceId, and asks at once.                   *)
StartUp(i) ==
  /\ ~ instance[i].up /\ calls[i] = {}
  /\ instance' = [instance EXCEPT ![i].up = TRUE]
  /\ lead' = IF lead.holder = i THEN [lead EXCEPT !.holder = Nobody] ELSE lead
  /\ UNCHANGED << calls, faults >>

(* Time passes, but not past a timer or the time limit of a statement.     *)
Elapse ==
  /\ \A i \in Instances : /\ instance[i].up => instance[i].timer > 0
                          /\ \A c \in calls[i] : c.age < Delay
  /\ lead' = [lead EXCEPT !.left = IF @ >= 0 THEN @ - 1 ELSE @]
  /\ instance' = [i \in Instances |-> IF instance[i].up THEN [instance[i] EXCEPT !.timer = @ - 1]
                                                        ELSE instance[i]]
  /\ calls' = [i \in Instances |-> {[c EXCEPT !.age = @ + 1] : c \in calls[i]}]
  /\ UNCHANGED faults

Asks(i) == Tick(i) \/ TryAcquire(i) \/ Answered(i)
Ends(i) == Fails(i) \/ Crash(i) \/ Shutdown(i) \/ StartUp(i)
LeaderNext == Elapse \/ \E i \in Instances : Asks(i) \/ Ends(i)

LeaderSpec == LeaderInit /\ [][LeaderNext]_leadVars
(* Time passes, timers fire and the database answers.                      *)
LeaderFairness == WF_leadVars(Elapse \/ \E i \in Instances : Asks(i))

-----------------------------------------------------------------------------
(* Every variable has its type.                                            *)
LeaderTypeOK ==
  /\ lead \in [holder : Instances \cup {Nobody}, left : -1 .. Ttl]
  /\ instance \in [Instances -> [up : BOOLEAN, leader : BOOLEAN, timer : 0 .. Renew]]
  /\ calls \in [Instances -> SUBSET Call]
  /\ faults \in 0 .. MaxFaults

RunsCron(i) == instance[i].up /\ instance[i].leader

(* "Only ONE API instance runs @Cron" (cron-leader.service.ts): a process  *)
(* learns only with its next answer that it lost the lease, yet its jobs   *)
(* have stopped before another process can take it.                        *)
OneLeader == \A i, j \in Instances : RunsCron(i) /\ RunsCron(j) => i = j

(* The lead is never lost for good: while a process is up, one of them     *)
(* comes to lead, although the last leader died holding the lease.         *)
Alive == \E i \in Instances : instance[i].up
SomeoneLeads == Alive ~> (\E i \in Instances : RunsCron(i)) \/ ~ Alive
=============================================================================
