-------------------------- MODULE CronLeases_proofs --------------------------
(***************************************************************************)
(* The two locks of table cron_leases, for any number of processes and runs *)
(* and any times with Renew + 2 * Delay <= Ttl.                             *)
(*                                                                         *)
(* Only one process runs the cron jobs: the lease of a process that leads   *)
(* lasts until it has had its next answer, whether the question is already  *)
(* under way or waits for the timer; and an answer "won" means that the     *)
(* lease lasts for the time that is left since.                             *)
(*                                                                         *)
(* Runs of an exclusive job: a run under way whose lock never ran out holds *)
(* the row, unexpired; a renewal that missed, and an expired row, belong to *)
(* a run whose lock ran out.                                                *)
(***************************************************************************)
EXTENDS CronLeader, RunExclusive, TLAPS

(* The time until process i has its next answer is less than the lease.    *)
AnswerInTime(i) ==
  \/ instance[i].timer + Delay <= lead.left
  \/ \E c \in calls[i] : Delay - c.age <= lead.left

LeaderHolds == \A i \in Instances : RunsCron(i) => lead.holder = i /\ 0 <= lead.left /\ AnswerInTime(i)
WonHolds ==
  \A i \in Instances : \A c \in calls[i] :
    instance[i].up /\ c.answer = "WON" => lead.holder = i /\ Ttl - c.age <= lead.left

DownDoesNotLead == \A i \in Instances : instance[i].up \/ ~ instance[i].leader

LeaderInv == LeaderTypeOK /\ LeaderHolds /\ WonHolds /\ DownDoesNotLead

Process == [up : BOOLEAN, leader : BOOLEAN, timer : 0 .. Renew]
Row == [holder : Instances \cup {Nobody}, left : -1 .. Ttl]

-----------------------------------------------------------------------------
(* The rows a step may write.                                              *)
LEMMA DownType == Down \in Process /\ [Down EXCEPT !.up = TRUE] \in Process
<1>1. 0 \in 0 .. Renew
  BY TimesAssumption
<1>2. QED BY <1>1 DEF Down, Process

LEMMA NewCallType == [age |-> 0, answer |-> "NONE"] \in Call
<1>1. 0 \in 0 .. Delay
  BY TimesAssumption
<1>2. QED BY <1>1 DEF Call

LEMMA TakenType == \A i \in Instances : [holder |-> i, left |-> Ttl] \in Row
<1>1. Ttl \in -1 .. Ttl
  BY TimesAssumption
<1>2. QED BY <1>1 DEF Row

LEMMA LeaderInitInv == LeaderInit => LeaderInv
<1> SUFFICES ASSUME LeaderInit PROVE LeaderInv
  OBVIOUS
<1>1. lead \in Row
  <2>1. -1 \in -1 .. Ttl
    BY TimesAssumption
  <2>2. QED BY <2>1 DEF LeaderInit, Row
<1>2. instance \in [Instances -> Process]
  BY DownType DEF LeaderInit
<1>3. calls \in [Instances -> SUBSET Call]
  BY DEF LeaderInit
<1>4. faults \in 0 .. MaxFaults
  BY TimesAssumption DEF LeaderInit
<1>5. LeaderTypeOK
  BY <1>1, <1>2, <1>3, <1>4 DEF LeaderTypeOK, Row, Process
<1>6. \A i \in Instances : ~ RunsCron(i)
  BY DEF LeaderInit, RunsCron, Down
<1>7. LeaderHolds /\ WonHolds
  BY <1>6 DEF LeaderInit, LeaderHolds, WonHolds
<1>8. DownDoesNotLead
  BY DEF LeaderInit, DownDoesNotLead, Down
<1>9. QED BY <1>5, <1>7, <1>8 DEF LeaderInv

(* What an answer does to the process that asked, and to no other.         *)
LEMMA SetLeaderEffect ==
  ASSUME NEW i \in Instances, NEW a \in BOOLEAN, LeaderTypeOK, SetLeader(i, a)
  PROVE  /\ instance' \in [Instances -> Process]
         /\ \A j \in Instances : j # i => instance'[j] = instance[j]
         /\ instance'[i].up = instance[i].up /\ instance'[i].timer = instance[i].timer
         /\ instance[i].up => instance'[i].leader = a
<1>1. CASE instance[i].up
  BY <1>1 DEF SetLeader, LeaderTypeOK, Process
<1>2. CASE ~ instance[i].up
  BY <1>2 DEF SetLeader, LeaderTypeOK, Process
<1>3. QED BY <1>1, <1>2

(* A question is sent when the timer is at 0: its answer is in time.       *)
LEMMA TickInv ==
  ASSUME NEW i \in Instances, LeaderInv, Tick(i)
  PROVE  LeaderInv'
<1>1. LeaderTypeOK /\ LeaderHolds /\ WonHolds /\ DownDoesNotLead
  BY DEF LeaderInv
<1> DEFINE new == [age |-> 0, answer |-> "NONE"]
<1>2. /\ lead' = lead /\ faults' = faults
      /\ instance' = [instance EXCEPT ![i].timer = Renew]
      /\ calls' = [calls EXCEPT ![i] = @ \cup {new}]
      /\ instance[i].timer = 0
  BY DEF Tick
<1>3. instance' \in [Instances -> Process]
  <2>1. Renew \in 0 .. Renew
    BY TimesAssumption
  <2>2. QED BY <1>1, <1>2, <2>1 DEF LeaderTypeOK, Process
<1>4. calls' \in [Instances -> SUBSET Call]
  BY <1>1, <1>2, NewCallType DEF LeaderTypeOK
<1>5. LeaderTypeOK'
  BY <1>1, <1>2, <1>3, <1>4 DEF LeaderTypeOK, Process
<1>6. \A j \in Instances : RunsCron(j)' => RunsCron(j)
  BY <1>1, <1>2 DEF LeaderTypeOK, Process, RunsCron
<1>7. LeaderHolds'
  <2> SUFFICES ASSUME NEW j \in Instances, RunsCron(j)'
               PROVE  (lead.holder = j /\ 0 <= lead.left) /\ AnswerInTime(j)'
    BY <1>2 DEF LeaderHolds
  <2>1. lead.holder = j /\ 0 <= lead.left /\ AnswerInTime(j)
    BY <1>1, <1>6 DEF LeaderHolds
  <2>2. CASE j # i
    <3>1. instance'[j] = instance[j] /\ calls'[j] = calls[j]
      BY <1>1, <1>2, <2>2 DEF LeaderTypeOK
    <3>2. QED BY <1>2, <2>1, <3>1 DEF AnswerInTime
  <2>3. CASE j = i /\ instance[j].timer + Delay <= lead.left
    <3>1. new \in calls'[j] /\ Delay - new.age <= lead.left
      BY <1>1, <1>2, <2>3, TimesAssumption DEF LeaderTypeOK
    <3>2. QED BY <1>2, <2>1, <3>1 DEF AnswerInTime
  <2>4. CASE j = i /\ \E c \in calls[j] : Delay - c.age <= lead.left
    <3>1. calls[j] \subseteq calls'[j]
      BY <1>1, <1>2, <2>4 DEF LeaderTypeOK
    <3>2. QED BY <1>2, <2>1, <2>4, <3>1 DEF AnswerInTime
  <2>5. QED BY <2>1, <2>2, <2>3, <2>4 DEF AnswerInTime
<1>8. WonHolds'
  <2> SUFFICES ASSUME NEW j \in Instances, NEW c \in calls'[j], instance'[j].up, c.answer = "WON"
               PROVE  lead.holder = j /\ Ttl - c.age <= lead.left
    BY <1>2 DEF WonHolds
  <2>1. c \in calls[j] /\ instance[j].up
    BY <1>1, <1>2 DEF LeaderTypeOK, Process
  <2>2. QED BY <1>1, <2>1 DEF WonHolds
<1>9. DownDoesNotLead'
  BY <1>1, <1>2 DEF LeaderTypeOK, Process, DownDoesNotLead
<1>10. QED BY <1>5, <1>7, <1>8, <1>9 DEF LeaderInv

(* The statement is executed: it takes the row only when nobody else leads. *)
LEMMA TryAcquireInv ==
  ASSUME NEW i \in Instances, LeaderInv, TryAcquire(i)
  PROVE  LeaderInv'
<1>1. LeaderTypeOK /\ LeaderHolds /\ WonHolds /\ DownDoesNotLead
  BY DEF LeaderInv
<1>2. PICK c \in calls[i] :
        /\ lead' = IF Claimable(i) THEN [holder |-> i, left |-> Ttl] ELSE lead
        /\ calls' = [calls EXCEPT ![i] =
                       (@ \ {c}) \cup {[c EXCEPT !.answer = IF Claimable(i) THEN "WON" ELSE "LOST"]}]
        /\ instance' = instance /\ faults' = faults
  BY DEF TryAcquire
<1> DEFINE d == [c EXCEPT !.answer = IF Claimable(i) THEN "WON" ELSE "LOST"]
<1>3. c \in Call
  BY <1>1 DEF LeaderTypeOK
<1>4. d \in Call /\ d.age = c.age /\ (Claimable(i) <=> d.answer = "WON")
  <2>1. CASE Claimable(i)
    BY <1>3, <2>1 DEF Call
  <2>2. CASE ~ Claimable(i)
    BY <1>3, <2>2 DEF Call
  <2>3. QED BY <2>1, <2>2
<1>5. calls'[i] = (calls[i] \ {c}) \cup {d} /\ \A j \in Instances : j # i => calls'[j] = calls[j]
  BY <1>1, <1>2 DEF LeaderTypeOK
<1>6. calls' \in [Instances -> SUBSET Call]
  BY <1>1, <1>2, <1>4 DEF LeaderTypeOK
<1>7. lead' \in Row
  <2>1. CASE Claimable(i)
    BY <1>2, <2>1, TakenType
  <2>2. CASE ~ Claimable(i)
    BY <1>1, <1>2, <2>2 DEF LeaderTypeOK, Row
  <2>3. QED BY <2>1, <2>2
<1>8. LeaderTypeOK'
  BY <1>1, <1>2, <1>6, <1>7 DEF LeaderTypeOK, Row
<1>9. \A j \in Instances : RunsCron(j)' <=> RunsCron(j)
  BY <1>2 DEF RunsCron
<1>0. DownDoesNotLead'
  BY <1>1, <1>2 DEF DownDoesNotLead
<1>10. CASE Claimable(i)
  <2>1. lead'.holder = i /\ lead'.left = Ttl
    BY <1>2, <1>10
  <2>2. \A e \in calls'[i] : e.age \in 0 .. Delay
    BY <1>8 DEF LeaderTypeOK, Call
  <2>3. \A j \in Instances : j # i => ~ RunsCron(j) /\ \A e \in calls[j] : instance[j].up => e.answer # "WON"
    <3> SUFFICES ASSUME NEW j \in Instances, j # i
                 PROVE  ~ RunsCron(j) /\ \A e \in calls[j] : instance[j].up => e.answer # "WON"
      OBVIOUS
    <3>1. ~ RunsCron(j)
      BY <1>1, <1>10 DEF LeaderHolds, Claimable, LeaderTypeOK
    <3>2. ASSUME NEW e \in calls[j], instance[j].up, e.answer = "WON"
          PROVE  FALSE
      <4>1. lead.holder = j /\ Ttl - e.age <= lead.left
        BY <1>1, <3>2 DEF WonHolds
      <4>2. e.age \in 0 .. Delay
        BY <1>1 DEF LeaderTypeOK, Call
      <4>3. lead.left \in Int /\ 0 <= lead.left
        BY <1>1, <4>1, <4>2, TimesAssumption, MarginAssumption DEF LeaderTypeOK
      <4>4. QED BY <1>10, <4>1, <4>3 DEF Claimable
    <3>3. QED BY <3>1, <3>2
  <2>4. LeaderHolds'
    <3> SUFFICES ASSUME NEW j \in Instances, RunsCron(j)'
                 PROVE  lead'.holder = j /\ 0 <= lead'.left /\ AnswerInTime(j)'
      BY DEF LeaderHolds
    <3>1. j = i
      BY <1>9, <2>3
    <3>2. instance'[j].timer + Delay <= lead'.left
      <4>1. instance'[j].timer \in 0 .. Renew
        BY <1>8 DEF LeaderTypeOK
      <4>2. QED BY <2>1, <4>1, TimesAssumption, MarginAssumption
    <3>3. QED BY <2>1, <3>1, <3>2, TimesAssumption DEF AnswerInTime
  <2>5. WonHolds'
    <3> SUFFICES ASSUME NEW j \in Instances, NEW e \in calls'[j], instance'[j].up, e.answer = "WON"
                 PROVE  lead'.holder = j /\ Ttl - e.age <= lead'.left
      BY DEF WonHolds
    <3>1. j = i
      BY <1>2, <1>5, <2>3
    <3>2. QED BY <2>1, <2>2, <3>1, TimesAssumption
  <2>6. QED BY <1>0, <1>8, <2>4, <2>5 DEF LeaderInv
<1>11. CASE ~ Claimable(i)
  <2>1. lead' = lead /\ lead.holder # i
    BY <1>2, <1>11 DEF Claimable
  <2>2. LeaderHolds'
    <3> SUFFICES ASSUME NEW j \in Instances, RunsCron(j)'
                 PROVE  lead.holder = j /\ 0 <= lead.left /\ AnswerInTime(j)'
      BY <2>1 DEF LeaderHolds
    <3>1. lead.holder = j /\ 0 <= lead.left /\ AnswerInTime(j)
      BY <1>1, <1>9 DEF LeaderHolds
    <3>2. calls'[j] = calls[j] /\ instance' = instance
      BY <1>2, <1>5, <2>1, <3>1
    <3>3. QED BY <2>1, <3>1, <3>2 DEF AnswerInTime
  <2>3. WonHolds'
    <3> SUFFICES ASSUME NEW j \in Instances, NEW e \in calls'[j], instance'[j].up, e.answer = "WON"
                 PROVE  lead.holder = j /\ Ttl - e.age <= lead.left
      BY <2>1 DEF WonHolds
    <3>1. e \in calls[j] /\ instance[j].up
      BY <1>2, <1>4, <1>5, <1>11
    <3>2. QED BY <1>1, <3>1 DEF WonHolds
  <2>4. QED BY <1>0, <1>8, <2>2, <2>3 DEF LeaderInv
<1>12. QED BY <1>10, <1>11

(* An answer comes: "won" makes a leader whose lease lasts long enough for *)
(* the next interval and the next answer; anything else ends the lead.     *)
LEMMA AnswerInv ==
  ASSUME NEW i \in Instances, NEW c \in calls[i], NEW acquired \in BOOLEAN, LeaderInv,
         acquired => c.answer = "WON", SetLeader(i, acquired),
         calls' = [calls EXCEPT ![i] = @ \ {c}], lead' = lead, faults' \in 0 .. MaxFaults
  PROVE  LeaderInv'
<1>1. LeaderTypeOK /\ LeaderHolds /\ WonHolds /\ DownDoesNotLead
  BY DEF LeaderInv
<1>2. /\ instance' \in [Instances -> Process]
      /\ \A j \in Instances : j # i => instance'[j] = instance[j]
      /\ instance'[i].up = instance[i].up /\ instance'[i].timer = instance[i].timer
      /\ instance[i].up => instance'[i].leader = acquired
  BY <1>1, SetLeaderEffect
<1>3. \A j \in Instances : /\ calls'[j] \subseteq calls[j]
                           /\ j # i => calls'[j] = calls[j]
  BY <1>1 DEF LeaderTypeOK
<1>4. calls' \in [Instances -> SUBSET Call]
  BY <1>1 DEF LeaderTypeOK
<1>5. LeaderTypeOK'
  BY <1>1, <1>2, <1>4 DEF LeaderTypeOK, Process
<1>6. LeaderHolds'
  <2> SUFFICES ASSUME NEW j \in Instances, RunsCron(j)'
               PROVE  lead.holder = j /\ 0 <= lead.left /\ AnswerInTime(j)'
    BY DEF LeaderHolds
  <2>1. CASE j # i
    <3>1. instance'[j] = instance[j] /\ calls'[j] = calls[j]
      BY <1>2, <1>3, <2>1
    <3>2. QED BY <1>1, <3>1 DEF LeaderHolds, AnswerInTime, RunsCron
  <2>2. CASE j = i
    <3>1. instance[i].up /\ acquired
      BY <1>2, <2>2 DEF RunsCron
    <3>2. lead.holder = i /\ Ttl - c.age <= lead.left
      BY <1>1, <3>1 DEF WonHolds
    <3>3. c.age \in 0 .. Delay /\ lead.left \in Int /\ instance'[i].timer \in 0 .. Renew
      BY <1>1, <1>2 DEF LeaderTypeOK, Call, Process
    <3>4. instance'[i].timer + Delay <= lead.left /\ 0 <= lead.left
      BY <3>2, <3>3, TimesAssumption, MarginAssumption
    <3>5. QED BY <2>2, <3>2, <3>4 DEF AnswerInTime
  <2>3. QED BY <2>1, <2>2
<1>7. WonHolds'
  <2> SUFFICES ASSUME NEW j \in Instances, NEW e \in calls'[j], instance'[j].up, e.answer = "WON"
               PROVE  lead.holder = j /\ Ttl - e.age <= lead.left
    BY DEF WonHolds
  <2>1. e \in calls[j] /\ instance[j].up
    BY <1>2, <1>3
  <2>2. QED BY <1>1, <2>1 DEF WonHolds
<1>8. DownDoesNotLead'
  <2> SUFFICES ASSUME NEW j \in Instances, ~ instance'[j].up
               PROVE  ~ instance'[j].leader
    BY DEF DownDoesNotLead
  <2>1. instance'[j] = instance[j]
    BY <1>2 DEF SetLeader
  <2>2. QED BY <1>1, <2>1 DEF DownDoesNotLead
<1>9. QED BY <1>5, <1>6, <1>7, <1>8 DEF LeaderInv

(* A process ends; a leader that shuts down gives up its own lease only.   *)
LEMMA EndInv ==
  ASSUME NEW i \in Instances, LeaderInv, instance' = [instance EXCEPT ![i] = Down],
         lead' = lead \/ (lead.holder = i /\ lead' = [lead EXCEPT !.left = -1]),
         calls' = calls, faults' \in 0 .. MaxFaults
  PROVE  LeaderInv'
<1>1. LeaderTypeOK /\ LeaderHolds /\ WonHolds /\ DownDoesNotLead
  BY DEF LeaderInv
<1>2. lead' \in Row
  <2>1. -1 \in -1 .. Ttl
    BY TimesAssumption
  <2>2. QED BY <1>1, <2>1 DEF LeaderTypeOK, Row
<1>3. instance' \in [Instances -> Process]
  BY <1>1, DownType DEF LeaderTypeOK, Process
<1>4. LeaderTypeOK'
  BY <1>1, <1>2, <1>3 DEF LeaderTypeOK, Row, Process
<1>5. \A j \in Instances : instance'[j].up => j # i /\ instance'[j] = instance[j]
  BY <1>1 DEF LeaderTypeOK, Down
<1>6. LeaderHolds'
  <2> SUFFICES ASSUME NEW j \in Instances, RunsCron(j)'
               PROVE  lead'.holder = j /\ 0 <= lead'.left /\ AnswerInTime(j)'
    BY DEF LeaderHolds
  <2>1. j # i /\ instance'[j] = instance[j]
    BY <1>5 DEF RunsCron
  <2>2. lead.holder = j /\ 0 <= lead.left /\ AnswerInTime(j)
    BY <1>1, <2>1 DEF LeaderHolds, RunsCron
  <2>3. lead' = lead
    BY <2>1, <2>2
  <2>4. QED BY <2>1, <2>2, <2>3 DEF AnswerInTime
<1>7. WonHolds'
  <2> SUFFICES ASSUME NEW j \in Instances, NEW e \in calls[j], instance'[j].up, e.answer = "WON"
               PROVE  lead'.holder = j /\ Ttl - e.age <= lead'.left
    BY DEF WonHolds
  <2>1. j # i /\ instance[j].up
    BY <1>5
  <2>2. lead.holder = j /\ Ttl - e.age <= lead.left
    BY <1>1, <2>1 DEF WonHolds
  <2>3. QED BY <2>1, <2>2
<1>8. DownDoesNotLead'
  BY <1>1 DEF LeaderTypeOK, DownDoesNotLead, Down
<1>9. QED BY <1>4, <1>6, <1>7, <1>8 DEF LeaderInv

(* A new process does not lead, and has no question under way.             *)
LEMMA StartUpInv ==
  ASSUME NEW i \in Instances, LeaderInv, StartUp(i)
  PROVE  LeaderInv'
<1>1. LeaderTypeOK /\ LeaderHolds /\ WonHolds /\ DownDoesNotLead
  BY DEF LeaderInv
<1>2. /\ ~ instance[i].up /\ calls[i] = {} /\ calls' = calls /\ faults' = faults
      /\ instance' = [instance EXCEPT ![i].up = TRUE]
      /\ lead' = lead \/ (lead.holder = i /\ lead' = [lead EXCEPT !.holder = Nobody])
  BY DEF StartUp
<1>3. lead' \in Row
  BY <1>1, <1>2 DEF LeaderTypeOK, Row
<1>4. instance' \in [Instances -> Process]
  BY <1>1, <1>2 DEF LeaderTypeOK, Process
<1>5. LeaderTypeOK'
  BY <1>1, <1>2, <1>3, <1>4 DEF LeaderTypeOK, Row, Process
<1>6. \A j \in Instances : j # i => instance'[j] = instance[j]
  BY <1>1, <1>2 DEF LeaderTypeOK
<1>7. instance'[i].leader = instance[i].leader
  BY <1>1, <1>2 DEF LeaderTypeOK
<1>8. LeaderHolds'
  <2> SUFFICES ASSUME NEW j \in Instances, RunsCron(j)'
               PROVE  lead'.holder = j /\ 0 <= lead'.left /\ AnswerInTime(j)'
    BY DEF LeaderHolds
  <2>1. j # i
    BY <1>1, <1>2, <1>7 DEF RunsCron, DownDoesNotLead
  <2>2. lead.holder = j /\ 0 <= lead.left /\ AnswerInTime(j) /\ instance'[j] = instance[j]
    BY <1>1, <1>6, <2>1 DEF LeaderHolds, RunsCron
  <2>3. lead' = lead
    BY <1>2, <2>1, <2>2
  <2>4. QED BY <1>2, <2>2, <2>3 DEF AnswerInTime
<1>9. WonHolds'
  <2> SUFFICES ASSUME NEW j \in Instances, NEW e \in calls[j], instance'[j].up, e.answer = "WON"
               PROVE  lead'.holder = j /\ Ttl - e.age <= lead'.left
    BY <1>2 DEF WonHolds
  <2>1. j # i /\ instance[j].up
    BY <1>2, <1>6
  <2>2. lead.holder = j /\ Ttl - e.age <= lead.left
    BY <1>1, <2>1 DEF WonHolds
  <2>3. QED BY <1>2, <2>1, <2>2
<1>10. DownDoesNotLead'
  <2>1. instance'[i].up
    BY <1>1, <1>2 DEF LeaderTypeOK
  <2>2. QED BY <1>1, <1>6, <2>1 DEF DownDoesNotLead
<1>11. QED BY <1>5, <1>8, <1>9, <1>10 DEF LeaderInv

(* Time passes: the lease and the time to the next answer shrink together. *)
LEMMA ElapseInv ==
  ASSUME LeaderInv, Elapse
  PROVE  LeaderInv'
<1>1. LeaderTypeOK /\ LeaderHolds /\ WonHolds /\ DownDoesNotLead
  BY DEF LeaderInv
<1>2. /\ lead'.holder = lead.holder /\ lead.left \in -1 .. Ttl
      /\ lead'.left = IF lead.left >= 0 THEN lead.left - 1 ELSE lead.left
      /\ lead' = [lead EXCEPT !.left = IF @ >= 0 THEN @ - 1 ELSE @]
      /\ faults' = faults
  BY <1>1 DEF Elapse, LeaderTypeOK
<1>3. \A i \in Instances : /\ instance[i] \in Process
                           /\ instance[i].up => instance[i].timer > 0
                           /\ instance'[i] = IF instance[i].up THEN [instance[i] EXCEPT !.timer = @ - 1]
                                                               ELSE instance[i]
  BY <1>1 DEF Elapse, LeaderTypeOK, Process
<1>4. \A i \in Instances : /\ calls[i] \subseteq Call
                           /\ \A c \in calls[i] : c.age < Delay
                           /\ calls'[i] = {[c EXCEPT !.age = @ + 1] : c \in calls[i]}
  BY <1>1 DEF Elapse, LeaderTypeOK
<1>5. \A c \in Call : c.age < Delay
        => /\ [c EXCEPT !.age = @ + 1] \in Call
           /\ [c EXCEPT !.age = @ + 1].age = c.age + 1
           /\ [c EXCEPT !.age = @ + 1].answer = c.answer
  BY TimesAssumption DEF Call
<1>6. lead' \in Row
  <2>1. lead'.left \in -1 .. Ttl
    BY <1>2, TimesAssumption
  <2>2. QED BY <1>1, <1>2, <2>1 DEF LeaderTypeOK, Row
<1>7. \A i \in Instances : /\ instance'[i] \in Process
                           /\ instance'[i].up = instance[i].up
                           /\ instance'[i].leader = instance[i].leader
                           /\ instance[i].up => instance'[i].timer = instance[i].timer - 1
  <2> SUFFICES ASSUME NEW i \in Instances
               PROVE  /\ instance'[i] \in Process
                      /\ instance'[i].up = instance[i].up
                      /\ instance'[i].leader = instance[i].leader
                      /\ instance[i].up => instance'[i].timer = instance[i].timer - 1
    OBVIOUS
  <2>1. CASE instance[i].up
    <3>1. instance[i].timer - 1 \in 0 .. Renew
      <4>1. instance[i].timer \in 0 .. Renew /\ instance[i].timer > 0
        BY <1>3, <2>1 DEF Process
      <4>2. QED BY <4>1, TimesAssumption
    <3>2. QED BY <1>3, <2>1, <3>1 DEF Process
  <2>2. CASE ~ instance[i].up
    BY <1>3, <2>2
  <2>3. QED BY <2>1, <2>2
<1>8. instance' \in [Instances -> Process]
  <2>1. instance' = [i \in Instances |-> instance'[i]]
    BY DEF Elapse
  <2>2. QED BY <1>7, <2>1
<1>9. calls' \in [Instances -> SUBSET Call]
  <2>1. calls' = [i \in Instances |-> {[c EXCEPT !.age = @ + 1] : c \in calls[i]}]
    BY DEF Elapse
  <2>2. \A i \in Instances : {[c EXCEPT !.age = @ + 1] : c \in calls[i]} \subseteq Call
    BY <1>4, <1>5
  <2>3. QED BY <2>1, <2>2
<1>10. LeaderTypeOK'
  BY <1>1, <1>2, <1>6, <1>8, <1>9 DEF LeaderTypeOK, Row, Process
<1>11. LeaderHolds'
  <2> SUFFICES ASSUME NEW j \in Instances, RunsCron(j)'
               PROVE  lead'.holder = j /\ 0 <= lead'.left /\ AnswerInTime(j)'
    BY DEF LeaderHolds
  <2>1. RunsCron(j)
    BY <1>7 DEF RunsCron
  <2>2. lead.holder = j /\ 0 <= lead.left /\ AnswerInTime(j)
    BY <1>1, <2>1 DEF LeaderHolds
  <2>3. lead'.left = lead.left - 1
    BY <1>2, <2>2
  <2>4. CASE instance[j].timer + Delay <= lead.left
    <3>1. instance[j].timer \in 0 .. Renew /\ instance[j].timer > 0 /\ instance'[j].timer = instance[j].timer - 1
      BY <1>3, <1>7, <2>1 DEF RunsCron, Process
    <3>2. instance'[j].timer + Delay <= lead'.left /\ 0 <= lead'.left
      BY <1>2, <2>3, <2>4, <3>1, TimesAssumption
    <3>3. QED BY <1>2, <2>2, <3>2 DEF AnswerInTime
  <2>5. CASE \E c \in calls[j] : Delay - c.age <= lead.left
    <3>1. PICK c \in calls[j] : Delay - c.age <= lead.left
      BY <2>5
    <3>2. c \in Call /\ c.age < Delay /\ c.age \in 0 .. Delay
      BY <1>4 DEF Call
    <3>3. [c EXCEPT !.age = @ + 1] \in calls'[j] /\ [c EXCEPT !.age = @ + 1].age = c.age + 1
      BY <1>4, <1>5, <3>2
    <3>4. Delay - (c.age + 1) <= lead'.left /\ 0 <= lead'.left
      BY <1>2, <2>3, <3>1, <3>2, TimesAssumption
    <3>5. QED BY <1>2, <2>2, <3>3, <3>4 DEF AnswerInTime
  <2>6. QED BY <2>2, <2>4, <2>5 DEF AnswerInTime
<1>12. WonHolds'
  <2> SUFFICES ASSUME NEW j \in Instances, NEW e \in calls'[j], instance'[j].up, e.answer = "WON"
               PROVE  lead'.holder = j /\ Ttl - e.age <= lead'.left
    BY DEF WonHolds
  <2>1. PICK c \in calls[j] : e = [c EXCEPT !.age = @ + 1]
    BY <1>4
  <2>2. c \in Call /\ c.age < Delay /\ c.age \in 0 .. Delay
    BY <1>4 DEF Call
  <2>3. e.age = c.age + 1 /\ c.answer = "WON"
    BY <1>5, <2>1, <2>2
  <2>4. lead.holder = j /\ Ttl - c.age <= lead.left
    BY <1>1, <1>7, <2>3 DEF WonHolds
  <2>5. QED BY <1>2, <2>2, <2>3, <2>4, TimesAssumption, MarginAssumption
<1>13. DownDoesNotLead'
  BY <1>1, <1>7 DEF DownDoesNotLead
<1>14. QED BY <1>10, <1>11, <1>12, <1>13 DEF LeaderInv

(* Every step keeps the invariant.                                         *)
LEMMA LeaderNextInv ==
  ASSUME LeaderInv, [LeaderNext]_leadVars
  PROVE  LeaderInv'
<1>1. LeaderTypeOK
  BY DEF LeaderInv
<1>2. Fault => faults' \in 0 .. MaxFaults
  BY <1>1, TimesAssumption DEF Fault, LeaderTypeOK
<1>3. ASSUME NEW i \in Instances, Asks(i)
      PROVE  LeaderInv'
  <2>1. CASE Tick(i)
    BY <2>1, TickInv
  <2>2. CASE TryAcquire(i)
    BY <2>2, TryAcquireInv
  <2>3. CASE Answered(i)
    <3>1. PICK c \in calls[i] : /\ SetLeader(i, c.answer = "WON") /\ lead' = lead /\ faults' = faults
                                /\ calls' = [calls EXCEPT ![i] = @ \ {c}]
      BY <2>3 DEF Answered
    <3>2. faults' \in 0 .. MaxFaults
      BY <1>1, <3>1 DEF LeaderTypeOK
    <3> DEFINE won == c.answer = "WON"
    <3>3. won \in BOOLEAN /\ SetLeader(i, won) /\ (won => c.answer = "WON")
      BY <3>1
    <3> HIDE DEF won
    <3>4. QED BY <3>1, <3>2, <3>3, AnswerInv
  <2>4. QED BY <1>3, <2>1, <2>2, <2>3 DEF Asks
<1>4. ASSUME NEW i \in Instances, Ends(i)
      PROVE  LeaderInv'
  <2>1. CASE Fails(i)
    <3>1. PICK c \in calls[i] : calls' = [calls EXCEPT ![i] = @ \ {c}]
      BY <2>1 DEF Fails
    <3>2. QED BY <1>2, <2>1, <3>1, AnswerInv DEF Fails
  <2>2. CASE Crash(i)
    BY <1>2, <2>2, EndInv DEF Crash
  <2>3. CASE Shutdown(i)
    <3>1. lead' = lead \/ (lead.holder = i /\ lead' = [lead EXCEPT !.left = -1])
      BY <2>3 DEF Shutdown
    <3>2. QED BY <1>2, <2>3, <3>1, EndInv DEF Shutdown
  <2>4. CASE StartUp(i)
    BY <2>4, StartUpInv
  <2>5. QED BY <1>4, <2>1, <2>2, <2>3, <2>4 DEF Ends
<1>5. CASE UNCHANGED leadVars
  BY <1>5 DEF leadVars, LeaderInv, LeaderTypeOK, LeaderHolds, WonHolds, DownDoesNotLead, RunsCron, AnswerInTime
<1>6. QED BY <1>3, <1>4, <1>5, ElapseInv DEF LeaderNext

-----------------------------------------------------------------------------
(* The invariant holds in every reachable state.                           *)
THEOREM LeaderInductive == LeaderSpec => []LeaderInv
<1>1. LeaderInv /\ [LeaderNext]_leadVars => LeaderInv'
  BY LeaderNextInv
<1>2. QED BY <1>1, LeaderInitInv, PTL DEF LeaderSpec

(* However many processes, and whatever the times within the margin, only  *)
(* one runs the cron jobs.                                                 *)
THEOREM OnlyOneLeads == LeaderSpec => []OneLeader
<1>1. LeaderInv => OneLeader
  BY DEF LeaderInv, LeaderHolds, OneLeader
<1>2. QED BY <1>1, LeaderInductive, PTL

-----------------------------------------------------------------------------
(* The lock of one job.                                                    *)

UnderWay(r) == run[r].at \in {"WORKING", "OVER"}

HoldsLock == \A r \in Runs : UnderWay(r) /\ r \notin lapsed => lock.holder = r /\ ~ lock.expired
MissedLapsed == \A r \in Runs : run[r].renewal = "MISSED" => r \in lapsed
OnlyUnderWay == \A r \in Runs : run[r].renewal # "NONE" => UnderWay(r)

LockInv == LockTypeOK /\ HoldsLock /\ MissedLapsed /\ OnlyUnderWay /\ LossIsReal

-----------------------------------------------------------------------------
LEMMA LockInitInv == LockInit => LockInv
BY DEF LockInit, NoLock, LockInv, LockTypeOK, HoldsLock, MissedLapsed, OnlyUnderWay, UnderWay, LossIsReal

LEMMA LockRows ==
  /\ NoLock \in [holder : Runs \cup {NoRun}, expired : BOOLEAN]
  /\ \A r \in Runs : [holder |-> r, expired |-> FALSE] \in [holder : Runs \cup {NoRun}, expired : BOOLEAN]
BY DEF NoLock

(* Every step keeps the types.                                             *)
LEMMA LockNextType ==
  ASSUME LockTypeOK, [LockNext]_lockVars
  PROVE  LockTypeOK'
<1> USE DEF LockTypeOK
<1>1. CASE Lapse
  BY <1>1 DEF Lapse
<1>2. ASSUME NEW r \in Runs, RunStep(r)
      PROVE  LockTypeOK'
  <2>1. CASE StartRun(r)
    <3>1. run' = [run EXCEPT ![r].at = "WORKING"] \/ run' = [run EXCEPT ![r].at = "ENDED"]
      BY <2>1 DEF StartRun
    <3>2. run' \in [Runs -> [at : {"NEW", "WORKING", "OVER", "ENDED"},
                             renewal : {"NONE", "SENT", "RENEWED", "MISSED"}, lostLogged : BOOLEAN]]
      BY <3>1
    <3>3. lock' = [holder |-> r, expired |-> FALSE] \/ lock' = lock
      BY <2>1 DEF StartRun
    <3>4. lock' \in [holder : Runs \cup {NoRun}, expired : BOOLEAN]
      BY <3>3, LockRows
    <3>5. lapsed' \subseteq Runs
      BY <2>1 DEF StartRun
    <3>6. QED BY <3>2, <3>4, <3>5
  <2>2. CASE SendRenewal(r)
    BY <2>2 DEF SendRenewal
  <2>3. CASE RenewLock(r)
    BY <2>3 DEF RenewLock
  <2>4. CASE RenewalAnswered(r)
    BY <2>4 DEF RenewalAnswered
  <2>5. CASE RenewalFails(r)
    BY <2>5 DEF RenewalFails
  <2>6. CASE JobDone(r)
    BY <2>6 DEF JobDone
  <2>7. CASE Release(r)
    <3>1. run' \in [Runs -> [at : {"NEW", "WORKING", "OVER", "ENDED"},
                             renewal : {"NONE", "SENT", "RENEWED", "MISSED"}, lostLogged : BOOLEAN]]
      BY <2>7 DEF Release
    <3>2. lock' = NoLock \/ lock' = lock
      BY <2>7 DEF Release
    <3>3. lock' \in [holder : Runs \cup {NoRun}, expired : BOOLEAN]
      BY <3>2, LockRows
    <3>4. lapsed' \subseteq Runs
      BY <2>7 DEF Release
    <3>5. QED BY <3>1, <3>3, <3>4
  <2>8. CASE Die(r)
    BY <2>8 DEF Die
  <2>9. QED BY <1>2, <2>1, <2>2, <2>3, <2>4, <2>5, <2>6, <2>7, <2>8 DEF RunStep
<1>3. CASE UNCHANGED lockVars
  BY <1>3 DEF lockVars
<1>4. QED BY <1>1, <1>2, <1>3 DEF LockNext

(* Every step keeps the invariant.                                         *)
LEMMA LockNextInv ==
  ASSUME LockInv, [LockNext]_lockVars
  PROVE  LockInv'
<1> USE NoRunAssumption DEF LockTypeOK, HoldsLock, MissedLapsed, OnlyUnderWay, UnderWay, LossIsReal
<1>1. LockTypeOK /\ LockTypeOK'
  BY LockNextType DEF LockInv
<1>2. HoldsLock /\ MissedLapsed /\ OnlyUnderWay /\ LossIsReal
  BY DEF LockInv
<1>3. SUFFICES HoldsLock' /\ MissedLapsed' /\ OnlyUnderWay' /\ LossIsReal'
  BY <1>1 DEF LockInv
<1>4. CASE Lapse
  BY <1>1, <1>2, <1>4 DEF Lapse
<1>5. ASSUME NEW r \in Runs, RunStep(r)
      PROVE  HoldsLock' /\ MissedLapsed' /\ OnlyUnderWay' /\ LossIsReal'
  <2>1. CASE StartRun(r)
    BY <1>1, <1>2, <2>1 DEF StartRun, RowFree
  <2>2. CASE SendRenewal(r)
    BY <1>1, <1>2, <2>2 DEF SendRenewal
  <2>3. CASE RenewLock(r)
    BY <1>1, <1>2, <2>3 DEF RenewLock, RenewMatches
  <2>4. CASE RenewalAnswered(r)
    BY <1>1, <1>2, <2>4 DEF RenewalAnswered
  <2>5. CASE RenewalFails(r)
    BY <1>1, <1>2, <2>5 DEF RenewalFails
  <2>6. CASE JobDone(r)
    BY <1>1, <1>2, <2>6 DEF JobDone
  <2>7. CASE Release(r)
    BY <1>1, <1>2, <2>7 DEF Release, NoLock, ReleaseMatches, NoRenewalUnderWay
  <2>8. CASE Die(r)
    BY <1>1, <1>2, <2>8 DEF Die
  <2>9. QED BY <1>5, <2>1, <2>2, <2>3, <2>4, <2>5, <2>6, <2>7, <2>8 DEF RunStep
<1>6. CASE UNCHANGED lockVars
  BY <1>2, <1>6 DEF lockVars
<1>7. QED BY <1>4, <1>5, <1>6 DEF LockNext

(* Only a run that starts takes the row.                                   *)
LEMMA RowTakenByStart ==
  ASSUME LockTypeOK, [LockNext]_lockVars, NEW r \in Runs, lock'.holder = r, lock.holder # r
  PROVE  run[r].at = "NEW"
<1> USE NoRunAssumption DEF LockTypeOK
<1>1. CASE Lapse
  BY <1>1 DEF Lapse
<1>2. ASSUME NEW s \in Runs, RunStep(s)
      PROVE  run[r].at = "NEW"
  <2>1. CASE StartRun(s)
    BY <2>1 DEF StartRun
  <2>2. CASE RenewLock(s)
    BY <2>2 DEF RenewLock, RenewMatches
  <2>3. CASE Release(s)
    BY <2>3 DEF Release, NoLock
  <2>4. CASE SendRenewal(s) \/ RenewalAnswered(s) \/ RenewalFails(s) \/ JobDone(s) \/ Die(s)
    BY <2>4 DEF SendRenewal, RenewalAnswered, RenewalFails, JobDone, Die
  <2>5. QED BY <1>2, <2>1, <2>2, <2>3, <2>4 DEF RunStep
<1>3. CASE UNCHANGED lockVars
  BY <1>3 DEF lockVars
<1>4. QED BY <1>1, <1>2, <1>3 DEF LockNext

-----------------------------------------------------------------------------
(* The invariant holds in every reachable state.                           *)
THEOREM LockInductive == LockSpec => []LockInv
<1>1. LockInv /\ [LockNext]_lockVars => LockInv'
  BY LockNextInv
<1>2. QED BY <1>1, LockInitInv, PTL DEF LockSpec

(* However many runs, two work at once only when the lock of one ran out.  *)
THEOREM RunsDoNotOverlap == LockSpec => []OneRun
<1>1. LockInv => OneRun
  BY DEF LockInv, HoldsLock, UnderWay, OneRun
<1>2. QED BY <1>1, LockInductive, PTL

(* A loss that is logged is real.                                          *)
THEOREM NoFalseAlarm == LockSpec => []LossIsReal
<1>1. LockInv => LossIsReal
  BY DEF LockInv
<1>2. QED BY <1>1, LockInductive, PTL

(* A run takes the row when it starts and never again, so an overlap is    *)
(* never hidden by a renewal.                                              *)
THEOREM OverlapIsSeen == LockSpec => LockIsTakenOnce
<1>1. LockInv /\ [LockNext]_lockVars
        => [\A r \in Runs : lock'.holder = r /\ lock.holder # r => run[r].at = "NEW"]_lockVars
  BY RowTakenByStart DEF LockInv
<1>2. QED BY <1>1, LockInductive, PTL DEF LockSpec, LockIsTakenOnce
=============================================================================
