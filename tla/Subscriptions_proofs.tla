-------------------------- MODULE Subscriptions_proofs --------------------------
(***************************************************************************)
(* Proof that a subscription whose requests do not cross never sends two    *)
(* orders in two days.  What has to be known besides: how far behind a date *)
(* may be, which dates a request under way may bring back, and when the     *)
(* sweep may still put a delivery off.                                      *)
(***************************************************************************)
EXTENDS Subscriptions, TLAPS

Stopped == {"PAUSED", "CANCELLED"}
(* A day on which an order may follow the last one.                        *)
Apart(day) == sub.last = Never \/ sub.last + 2 <= day
(* The date is still to come: it is kept when the subscription is resumed. *)
ToCome(day) == day > Today \/ (day = Today /\ ~ clock.three)

(* No order is later than the last one the row knows, nor than today.      *)
OrdersKnown ==
  /\ orders = {} \/ sub.last # Never
  /\ \A o \in orders : o.day <= sub.last
  /\ sub.last <= Today

(* The row and the sweep take their interval from a subscription that is there. *)
Begun ==
  /\ sub.status # "NONE" => sub.interval \in Intervals
  /\ clock.three => sub.status # "NONE"
  /\ sub.status = "NONE" => sub.last = Never /\ Today = 0
  /\ \A q \in Requests : edits[q].at # "IDLE" => sub.status # "NONE"
  /\ sweep.at # "IDLE" => clock.three /\ clock.swept = Today
  /\ sweep.at \notin {"IDLE", "SCAN"} => sweep.interval \in Intervals

(* The date of a subscription that runs, or that will run again.           *)
DateApart ==
  /\ sub.status = "ACTIVE" => Apart(sub.next)
  /\ sub.status \in Stopped /\ ToCome(sub.next) => Apart(sub.next)

(* A subscription that runs is at most MaxDown + 1 days behind, and not     *)
(* behind the last sweep once that has seen it.                             *)
NotLate ==
  /\ clock.swept <= Today /\ Today - clock.swept <= MaxDown + 1
  /\ sub.status = "ACTIVE" =>
       /\ sub.next >= Today - MaxDown - 1
       /\ sweep.at = "IDLE" => sub.next >= clock.swept
       /\ sweep.at = "CLAIM" => sub.next >= Today \/ sub.next = sweep.next
       /\ sweep.at \notin {"IDLE", "SCAN", "CLAIM"} => sub.next >= Today

(* What a request under way will write.                                    *)
EditApart(edit) ==
  /\ edit.at = "SKIP" => edit.next >= Today + 2
  /\ edit.at = "WRITE" /\ edit.status = "ACTIVE" =>
       /\ sub.status \in Stopped
       /\ edit.next >= Today /\ Apart(edit.next)
       /\ sweep.at = "PLACE" => edit.next >= Today + 2
  /\ edit.at = "WRITE" /\ edit.status # "ACTIVE" =>
       /\ ToCome(edit.next) => Apart(edit.next)
       /\ edit.next > Today => sub.next > Today
       /\ sweep.at = "PLACE" => edit.next <= Today \/ edit.next >= Today + 2

(* One request is under way.                                               *)
EditsApart ==
  /\ \A q \in Requests : EditApart(edits[q])
  /\ \A p, q \in Requests : edits[p].at # "IDLE" /\ edits[q].at # "IDLE" => p = q

(* What the sweep will do.                                                 *)
SweepApart ==
  /\ sweep.at = "CLAIM" => sweep.next <= Today
  /\ sweep.at \in {"PLACE", "POSTPONE"} => Apart(Today)
  /\ sweep.at = "CHECK" => Apart(Today) \/ KeyTaken
  /\ sweep.at = "PLACE" /\ sub.interval = sweep.interval =>
       /\ sub.next <= Today \/ sub.next >= Today + 2
       /\ sub.status = "ACTIVE" => sub.next >= Today + 2

Uncrossed == /\ OrdersKnown /\ Begun /\ DateApart
             /\ NotLate /\ EditsApart /\ SweepApart /\ OrdersApart
IInv == SubTypeOK /\ (crossed \/ Uncrossed)

-----------------------------------------------------------------------------
(* An interval is longer than the nights that may be missed.               *)
LEMMA IntervalIsLong ==
  ASSUME NEW i \in Intervals
  PROVE  i \in Nat /\ MaxDown \in Nat /\ i >= MaxDown + 3
  BY IntervalsAssumption

(* At the beginning there is no subscription.                              *)
LEMMA IInvInit == SubInit => IInv
<1> SUFFICES ASSUME SubInit
             PROVE  IInv
  OBVIOUS
<1> USE IntervalsAssumption DEF SubInit, NoEdits, NoEdit, NoSweep, Today, Never
<1>1. SubTypeOK
  BY DEF SubTypeOK, Stopped, Apart, ToCome
<1>2. OrdersKnown
  BY DEF OrdersKnown, Stopped, Apart, ToCome
<1>3. Begun
  BY DEF Begun, Stopped, Apart, ToCome
<1>4. DateApart
  BY DEF DateApart, Stopped, Apart, ToCome
<1>5. NotLate
  BY DEF NotLate, Stopped, Apart, ToCome
<1>6. EditsApart
  BY DEF EditsApart, EditApart, Stopped, Apart, ToCome
<1>7. SweepApart
  BY DEF SweepApart, Stopped, Apart, ToCome
<1>8. OrdersApart
  BY DEF OrdersApart, Stopped, Apart, ToCome
<1>9. QED
  BY <1>1, <1>2, <1>3, <1>4, <1>5, <1>6, <1>7, <1>8 DEF IInv, Uncrossed

(* Every step keeps the types; a variable that a step writes is looked at by  *)
(* itself.                                                                    *)
SubRow == [status : {"NONE", "ACTIVE", "PAUSED", "CANCELLED"}, next : Nat, interval : Intervals \cup {0},
           retries : Nat, last : Nat \cup {Never}]
ClockRow == [day : Nat, three : BOOLEAN, swept : Nat \cup {Never}]
OrderRow == [due : Nat \cup {Never}, day : Nat]
SweepRow == [at : {"IDLE", "SCAN", "CLAIM", "PLACE", "CHECK", "POSTPONE", "PAUSE"}, next : Nat,
             interval : Intervals \cup {0}, retries : Nat]
EditRow == [at : {"IDLE", "WRITE", "SKIP"}, status : {"ACTIVE", "PAUSED", "CANCELLED"}, next : Nat]
Typed ==
  /\ sub \in SubRow /\ clock \in ClockRow /\ orders \subseteq OrderRow
  /\ sweep \in SweepRow /\ edits \in [Requests -> EditRow]
  /\ heard \in BOOLEAN /\ cut \in BOOLEAN /\ crossed \in BOOLEAN

LEMMA TypesStep == Typed /\ [SubNext]_subVars => Typed'
<1> SUFFICES ASSUME Typed, [SubNext]_subVars
             PROVE  Typed'
  OBVIOUS
<1> USE IntervalsAssumption DEF Never
<1> Today \in Nat
  BY DEF Typed, ClockRow, Today
<1> sub.next \in Nat
  BY DEF Typed, SubRow
<1> sub.retries \in Nat
  BY DEF Typed, SubRow
<1> sub.interval \in Nat
  <2>1. sub.interval \in Intervals \cup {0}
    BY DEF Typed, SubRow
  <2>2. CASE sub.interval \in Intervals
    BY <2>2, IntervalIsLong
  <2>3. CASE sub.interval = 0
    BY <2>3
  <2>4. QED
    BY <2>1, <2>2, <2>3
<1> Today + 1 \in Nat /\ sub.next + sub.interval \in Nat /\ sub.retries + 1 \in Nat
  OBVIOUS
<1>1. CASE ThreeOClock
  <2>1. clock' \in ClockRow
    BY <1>1 DEF Typed, ClockRow, ThreeOClock
  <2>2. QED
    BY <1>1, <2>1 DEF Typed, ThreeOClock
<1>2. CASE NextDay
  <2>1. clock' \in ClockRow
    BY <1>2 DEF Typed, ClockRow, NextDay, Today
  <2>2. edits' \in [Requests -> EditRow]
    BY <1>2 DEF EditRow, NextDay, NoEdits, NoEdit
  <2>3. QED
    BY <1>2, <2>1, <2>2 DEF Typed, NextDay
<1>3. CASE Create
  <2>1. sub' \in SubRow
    BY <1>3 DEF Typed, ClockRow, SubRow, Create, Today
  <2>2. orders' \subseteq OrderRow
    BY <1>3 DEF Typed, ClockRow, OrderRow, Create, Today
  <2>3. QED
    BY <1>3, <2>1, <2>2 DEF Typed, Create
<1>4. ASSUME NEW q \in Requests,
             ReadToResume(q) \/ ReadToStop(q) \/ ReadToSkip(q)
      PROVE  Typed'
  <2>1. ResumeOn \in Nat
    BY DEF ResumeOn
  <2>2. PICK e \in EditRow : edits' = [edits EXCEPT ![q] = e]
    <3>1. CASE ReadToResume(q)
      <4>1. [at |-> "WRITE", status |-> "ACTIVE", next |-> ResumeOn] \in EditRow
        BY <2>1 DEF EditRow
      <4>2. QED
        BY <3>1, <4>1 DEF ReadToResume, Begins
    <3>2. CASE ReadToStop(q)
      <4>1. PICK status \in {"PAUSED", "CANCELLED"} : Begins(q, "WRITE", status, sub.next)
        BY <3>2 DEF ReadToStop
      <4>2. [at |-> "WRITE", status |-> status, next |-> sub.next] \in EditRow
        BY DEF EditRow
      <4>3. QED
        BY <4>1, <4>2 DEF Begins
    <3>3. CASE ReadToSkip(q)
      <4>1. [at |-> "SKIP", status |-> "ACTIVE", next |-> sub.next + sub.interval] \in EditRow
        BY DEF EditRow
      <4>2. QED
        BY <3>3, <4>1 DEF ReadToSkip, Begins
    <3>4. QED
      BY <1>4, <3>1, <3>2, <3>3
  <2>3. edits' \in [Requests -> EditRow]
    BY <2>2 DEF Typed
  <2>4. crossed' \in BOOLEAN /\ UNCHANGED << sub, clock, orders, sweep, heard, cut >>
    BY <1>4 DEF ReadToResume, ReadToStop, ReadToSkip, Begins, Crosses
  <2>5. QED
    BY <2>3, <2>4 DEF Typed
<1>7. ASSUME NEW q \in Requests, WriteStatus(q) \/ WriteSkip(q)
      PROVE  Typed'
  <2>1. edits[q] \in EditRow /\ NoEdit \in EditRow
    BY DEF Typed, EditRow, NoEdit
  <2>2. sub' \in SubRow
    <3>1. CASE WriteStatus(q)
      BY <2>1, <3>1 DEF Typed, EditRow, SubRow, WriteStatus, Writes
    <3>2. CASE WriteSkip(q)
      BY <2>1, <3>2 DEF Typed, EditRow, SubRow, WriteSkip, Writes
    <3>3. QED
      BY <1>7, <3>1, <3>2
  <2>3. edits' \in [Requests -> EditRow]
    BY <1>7, <2>1 DEF Typed, WriteStatus, WriteSkip, Writes
  <2>4. heard' \in BOOLEAN /\ UNCHANGED << clock, orders, sweep, cut, crossed >>
    BY <1>7 DEF WriteStatus, WriteSkip, Writes
  <2>5. QED
    BY <2>2, <2>3, <2>4 DEF Typed
<1>9. CASE StartSweep
  <2>1. clock' \in ClockRow
    BY <1>9 DEF Typed, ClockRow, StartSweep, Goes, Today
  <2>2. sweep' \in SweepRow
    BY <1>9 DEF Typed, ClockRow, SubRow, SweepRow, StartSweep, Goes, Today
  <2>3. QED
    BY <1>9, <2>1, <2>2 DEF Typed, StartSweep
<1>10. CASE ScanPage
  <2>1. sweep' \in SweepRow
    BY <1>10 DEF Typed, SubRow, SweepRow, ScanPage, Goes, IsDue
  <2>2. QED
    BY <1>10, <2>1 DEF Typed, ScanPage
<1>11. CASE ClaimCycle
  <2>1. sub' \in SubRow
    BY <1>11 DEF Typed, ClockRow, SubRow, SweepRow, ClaimCycle, Goes, Leaves, NoSweep, Today
  <2>2. sweep' \in SweepRow
    BY <1>11 DEF Typed, ClockRow, SubRow, SweepRow, ClaimCycle, Goes, Leaves, NoSweep, Today
  <2>3. QED
    BY <1>11, <2>1, <2>2 DEF Typed, ClaimCycle
<1>12. CASE PlaceOrder
  <2>1. sub' \in SubRow
    <3>1. NextAfter \in Nat
      BY DEF NextAfter, Typed, SweepRow
    <3>2. QED
      BY <3>1, <1>12 DEF Typed, SubRow, PlaceOrder
  <2>2. orders' \subseteq OrderRow
    BY <1>12 DEF Typed, ClockRow, OrderRow, SweepRow, PlaceOrder, Goes, Leaves, NoSweep, NextAfter, Today
  <2>3. sweep' \in SweepRow
    BY <1>12 DEF Typed, ClockRow, SubRow, SweepRow, PlaceOrder, Goes, Leaves, NoSweep, NextAfter, Today
  <2>4. QED
    BY <1>12, <2>1, <2>2, <2>3 DEF Typed, PlaceOrder
<1>13. CASE PlaceNothing
  <2>1. sweep' \in SweepRow
    BY <1>13 DEF Typed, SubRow, SweepRow, PlaceNothing, Goes, Leaves, NoSweep
  <2>2. QED
    BY <1>13, <2>1 DEF Typed, PlaceNothing
<1>14. CASE CheckWritten
  <2>1. sweep' \in SweepRow
    BY <1>14 DEF Typed, SubRow, SweepRow, CheckWritten, Goes, Leaves, NoSweep
  <2>2. QED
    BY <1>14, <2>1 DEF Typed, CheckWritten
<1>15. CASE Postpone
  <2>1. sub' \in SubRow
    <3>1. [sub EXCEPT !.next = Today + 1, !.retries = @ + 1] \in SubRow
      BY DEF Typed, SubRow
    <3>2. [sub EXCEPT !.retries = 0] \in SubRow
      BY DEF Typed, SubRow
    <3>3. QED
      BY <3>1, <3>2, <1>15 DEF Typed, Postpone
  <2>2. sweep' \in SweepRow
    BY <1>15 DEF Typed, ClockRow, SubRow, SweepRow, Postpone, Leaves, NoSweep, Today
  <2>3. heard' \in BOOLEAN
    BY <1>15 DEF Typed, ClockRow, SweepRow, Postpone, Leaves, NoSweep, Today
  <2>4. QED
    BY <1>15, <2>1, <2>2, <2>3 DEF Typed, Postpone
<1>16. CASE PauseSubscription
  <2>1. sub' \in SubRow
    BY <1>16 DEF Typed, SubRow, PauseSubscription, Leaves, NoSweep
  <2>2. sweep' \in SweepRow
    BY <1>16 DEF Typed, SubRow, SweepRow, PauseSubscription, Leaves, NoSweep
  <2>3. QED
    BY <1>16, <2>1, <2>2 DEF Typed, PauseSubscription
<1>17. CASE CutOff
  <2>1. sweep' \in SweepRow
    BY <1>17 DEF Typed, SubRow, SweepRow, CutOff, Leaves, NoSweep
  <2>2. QED
    BY <1>17, <2>1 DEF Typed, CutOff
<1>18. ASSUME NEW i \in Intervals, ChangeInterval(i)
     PROVE  Typed'
  <2>1. sub' \in SubRow
    <3>1. Later(sub.last + i, Today + 1) \in Nat
      BY DEF Later, Typed, SubRow
    <3>2. [sub EXCEPT !.interval = i] \in SubRow
      BY DEF Typed, SubRow
    <3>3. [sub EXCEPT !.interval = i, !.next = Later(sub.last + i, Today + 1), !.retries = 0] \in SubRow
      BY <3>1 DEF Typed, SubRow
    <3>4. QED
      BY <3>2, <3>3, <1>18 DEF Typed, ChangeInterval
  <2>2. crossed' \in BOOLEAN
    BY <1>18 DEF ChangeInterval
  <2>3. QED
    BY <1>18, <2>1, <2>2 DEF Typed, ChangeInterval
<1>19. CASE UNCHANGED subVars
  BY <1>19 DEF subVars, Typed
<1>20. QED
  BY <1>1, <1>2, <1>3, <1>4, <1>7, <1>9, <1>10, <1>11, <1>12, <1>13, <1>14, <1>15, <1>16, <1>17, <1>18, <1>19 DEF SubNext, SweepStep, CustomerStep

(* A request that begins alone is apart when what it will write is.        *)
LEMMA BeginsAlone ==
  ASSUME NEW q \in Requests, NEW e \in EditRow, edits = NoEdits, edits' = [edits EXCEPT ![q] = e],
         EditApart(e)'
  PROVE  EditsApart'
<1>1. \A p \in Requests : edits'[p] = IF p = q THEN e ELSE NoEdit
  BY DEF NoEdits
<1>2. EditApart(NoEdit)'
  BY DEF EditApart, NoEdit
<1>3. ASSUME NEW p \in Requests
      PROVE  EditApart(edits[p])'
  <2>1. CASE p = q
    BY <1>1, <2>1 DEF EditApart
  <2>2. CASE p # q
    BY <1>1, <1>2, <2>2 DEF EditApart
  <2>3. QED
    BY <2>1, <2>2
<1>4. QED
  BY <1>1, <1>3 DEF EditsApart, NoEdit

(* Every step keeps the invariant.                                         *)
LEMMA IInvStep == IInv /\ [SubNext]_subVars => IInv'
<1> SUFFICES ASSUME IInv, [SubNext]_subVars
             PROVE  IInv'
  OBVIOUS
<1>t. SubTypeOK'
  BY TypesStep DEF IInv, SubTypeOK, Typed, SubRow, ClockRow, OrderRow, SweepRow, EditRow
<1>a. CASE crossed'
  BY <1>t, <1>a DEF IInv
<1>b. SUFFICES ASSUME ~ crossed'
                PROVE  Uncrossed'
  BY <1>t, <1>a DEF IInv
<1>c. Uncrossed /\ SubTypeOK
  BY <1>b DEF IInv, SubNext, SweepStep, CustomerStep, ThreeOClock, NextDay, Create, ReadToResume, ReadToStop, ReadToSkip,
               Crosses, WriteStatus, WriteSkip, Writes, ChangeInterval, StartSweep, ScanPage, ClaimCycle, PlaceOrder,
               PlaceNothing, CheckWritten, Postpone, PauseSubscription, CutOff, subVars
<1> USE <1>t, <1>c, IntervalsAssumption
    DEF Uncrossed, SubTypeOK, OrdersKnown, Begun, DateApart, NotLate, EditsApart, EditApart, SweepApart, OrdersApart,
        Today, Never, Stopped, Apart, ToCome, KeyTaken
<1>1. CASE ThreeOClock
  <2>1. OrdersKnown'
    BY <1>1, SMTT(60) DEF ThreeOClock
  <2>2. Begun'
    BY <1>1, SMTT(60) DEF ThreeOClock
  <2>3. DateApart'
    BY <1>1, SMTT(60) DEF ThreeOClock
  <2>4. NotLate'
    BY <1>1, SMTT(60) DEF ThreeOClock
  <2>5. EditsApart'
    BY <1>1, SMTT(60) DEF ThreeOClock
  <2>6. SweepApart'
    BY <1>1, SMTT(60) DEF ThreeOClock
  <2>7. OrdersApart'
    BY <1>1, SMTT(60) DEF ThreeOClock
  <2>8. QED
    BY <2>1, <2>2, <2>3, <2>4, <2>5, <2>6, <2>7
<1>2. CASE NextDay
  <2>1. OrdersKnown'
    BY <1>2, SMTT(60) DEF NextDay, NoEdit
  <2>2. Begun'
    BY <1>2, SMTT(60) DEF NextDay, NoEdit
  <2>3. DateApart'
    BY <1>2, SMTT(60) DEF NextDay, NoEdit
  <2>4. NotLate'
    BY <1>2, SMTT(60) DEF NextDay, NoEdit
  <2>5. EditsApart'
    <3>1. \A q \in Requests : edits'[q] = NoEdit
      BY <1>2 DEF NextDay, NoEdits
    <3>2. QED
      BY <3>1 DEF NoEdit
  <2>6. SweepApart'
    BY <1>2, SMTT(60) DEF NextDay, NoEdit
  <2>7. OrdersApart'
    BY <1>2, SMTT(60) DEF NextDay, NoEdit
  <2>8. QED
    BY <2>1, <2>2, <2>3, <2>4, <2>5, <2>6, <2>7
<1>3. CASE Create
  <2>1. OrdersKnown'
    BY <1>3, SMTT(60) DEF Create
  <2>2. Begun'
    BY <1>3, SMTT(60) DEF Create
  <2>3. DateApart'
    BY <1>3, SMTT(60) DEF Create
  <2>4. NotLate'
    BY <1>3, SMTT(60) DEF Create
  <2>5. EditsApart'
    BY <1>3, SMTT(60) DEF Create
  <2>6. SweepApart'
    BY <1>3, SMTT(60) DEF Create
  <2>7. OrdersApart'
    BY <1>3, SMTT(60) DEF Create
  <2>8. QED
    BY <2>1, <2>2, <2>3, <2>4, <2>5, <2>6, <2>7
<1>4. ASSUME NEW q \in Requests, ReadToResume(q)
     PROVE  Uncrossed'
  <2>1. /\ UNCHANGED << sub, clock, orders, sweep >>
        /\ edits = NoEdits /\ sub.status \in Stopped
        /\ sweep.at = "PLACE" => sub.interval = sweep.interval
    BY <1>b, <1>4 DEF ReadToResume, Begins, Crosses, ChangedSinceClaim
  <2>2. OrdersKnown'
    BY <2>1, SMTT(60)
  <2>3. Begun'
    BY <2>1, SMTT(60)
  <2>4. DateApart'
    BY <2>1, SMTT(60)
  <2>5. NotLate'
    BY <2>1, SMTT(60)
  <2>6. EditsApart'
    <3>1. PICK e \in EditRow : /\ edits' = [edits EXCEPT ![q] = e]
                              /\ e = [at |-> "WRITE", status |-> "ACTIVE", next |-> ResumeOn]
      BY <1>t, <1>4 DEF ReadToResume, Begins, EditRow
    <3>2. sub.interval \in Nat /\ sub.interval >= MaxDown + 3 /\ MaxDown \in Nat
      <4>1. sub.interval \in Intervals
        BY <2>1
      <4> HIDE DEF Uncrossed
      <4>2. QED
        BY <4>1, IntervalIsLong
    <3>3. e.next >= Today /\ Apart(e.next)
      BY <2>1, <3>1, <3>2 DEF ResumeOn
    <3>4. sweep.at = "PLACE" => e.next >= Today + 2
      BY <2>1, <3>1, <3>2 DEF ResumeOn
    <3> HIDE DEF Uncrossed, SubTypeOK, OrdersKnown, Begun, DateApart, NotLate, EditsApart, SweepApart, OrdersApart, Apart, Stopped
    <3>6. EditApart(e)'
      BY <2>1, <3>1, <3>2, <3>3, <3>4 DEF EditApart, Apart, Stopped
    <3>7. QED
      BY <2>1, <3>1, <3>6, BeginsAlone
  <2>7. SweepApart'
    BY <2>1, SMTT(60)
  <2>8. OrdersApart'
    BY <2>1, SMTT(60)
  <2>9. QED
    BY <2>2, <2>3, <2>4, <2>5, <2>6, <2>7, <2>8
<1>5. ASSUME NEW q \in Requests, ReadToStop(q)
     PROVE  Uncrossed'
  <2>1. /\ UNCHANGED << sub, clock, orders, sweep >>
        /\ edits = NoEdits /\ sub.status # "NONE"
        /\ sweep.at = "PLACE" => sub.interval = sweep.interval
    BY <1>b, <1>5 DEF ReadToStop, Begins, Crosses, ChangedSinceClaim
  <2>2. OrdersKnown'
    BY <2>1, SMTT(60)
  <2>3. Begun'
    BY <2>1, SMTT(60)
  <2>4. DateApart'
    BY <2>1, SMTT(60)
  <2>5. NotLate'
    BY <2>1, SMTT(60)
  <2>6. EditsApart'
    <3>1. PICK e \in EditRow : /\ edits' = [edits EXCEPT ![q] = e]
                              /\ e.at = "WRITE" /\ e.status \in Stopped /\ e.next = sub.next
      <4>1. PICK status \in Stopped : Begins(q, "WRITE", status, sub.next)
        BY <1>5 DEF ReadToStop
      <4>2. [at |-> "WRITE", status |-> status, next |-> sub.next] \in EditRow
        BY DEF EditRow
      <4>3. QED
        BY <4>1, <4>2 DEF Begins
    <3>2. sub.next \in Nat /\ Today \in Nat
      OBVIOUS
    <3>3. ToCome(sub.next) => Apart(sub.next)
      BY <2>1
    <3>4. sweep.at = "PLACE" => sub.next <= Today \/ sub.next >= Today + 2
      BY <2>1
    <3> HIDE DEF Uncrossed, SubTypeOK, OrdersKnown, Begun, DateApart, NotLate, EditsApart, SweepApart, OrdersApart, Apart, Stopped
    <3>6. EditApart(e)'
      BY <2>1, <3>1, <3>2, <3>3, <3>4 DEF EditApart, Apart, Stopped
    <3>7. QED
      BY <2>1, <3>1, <3>6, BeginsAlone
  <2>7. SweepApart'
    BY <2>1, SMTT(60)
  <2>8. OrdersApart'
    BY <2>1, SMTT(60)
  <2>9. QED
    BY <2>2, <2>3, <2>4, <2>5, <2>6, <2>7, <2>8
<1>6. ASSUME NEW q \in Requests, ReadToSkip(q)
     PROVE  Uncrossed'
  <2>1. /\ UNCHANGED << sub, clock, orders, sweep >>
        /\ edits = NoEdits /\ sub.status = "ACTIVE"
        /\ sweep.at = "PLACE" => sub.interval = sweep.interval
    BY <1>b, <1>6 DEF ReadToSkip, Begins, Crosses, ChangedSinceClaim
  <2>2. OrdersKnown'
    BY <2>1, SMTT(60)
  <2>3. Begun'
    BY <2>1, SMTT(60)
  <2>4. DateApart'
    BY <2>1, SMTT(60)
  <2>5. NotLate'
    BY <2>1, SMTT(60)
  <2>6. EditsApart'
    <3>1. PICK e \in EditRow : /\ edits' = [edits EXCEPT ![q] = e]
                              /\ e.at = "SKIP" /\ e.next = sub.next + sub.interval
      <4>1. sub.next \in Nat /\ sub.interval \in Nat
        BY <2>1
      <4>2. [at |-> "SKIP", status |-> "ACTIVE", next |-> sub.next + sub.interval] \in EditRow
        BY <4>1 DEF EditRow
      <4>3. QED
        BY <1>6, <4>2 DEF ReadToSkip, Begins
    <3>2. sub.interval \in Nat /\ sub.interval >= MaxDown + 3 /\ MaxDown \in Nat
      <4>1. sub.interval \in Intervals
        BY <2>1
      <4> HIDE DEF Uncrossed
      <4>2. QED
        BY <4>1, IntervalIsLong
    <3>3. sub.next \in Nat /\ Today \in Nat /\ sub.next >= Today - MaxDown - 1
      BY <2>1
    <3>4. e.next >= Today + 2
      BY <3>1, <3>2, <3>3
    <3> HIDE DEF Uncrossed, SubTypeOK, OrdersKnown, Begun, DateApart, NotLate, EditsApart, SweepApart, OrdersApart, Apart, Stopped
    <3>6. EditApart(e)'
      BY <2>1, <3>1, <3>2, <3>3, <3>4 DEF EditApart, Apart, Stopped
    <3>7. QED
      BY <2>1, <3>1, <3>6, BeginsAlone
  <2>7. SweepApart'
    BY <2>1, SMTT(60)
  <2>8. OrdersApart'
    BY <2>1, SMTT(60)
  <2>9. QED
    BY <2>2, <2>3, <2>4, <2>5, <2>6, <2>7, <2>8
<1>7. ASSUME NEW q \in Requests, WriteStatus(q)
     PROVE  Uncrossed'
  <2>1. PICK e \in EditRow : e = edits[q] /\ EditApart(e) /\ e.at = "WRITE"
    BY <1>7 DEF WriteStatus, Writes, EditRow
  <2>2. \A p \in Requests : edits'[p].at = "IDLE"
    BY <1>7 DEF WriteStatus, Writes, NoEdit
  <2>3. /\ UNCHANGED << clock, orders, sweep >>
        /\ sub' = [sub EXCEPT !.status = e.status, !.next = e.next, !.retries = 0]
    BY <1>7, <2>1 DEF WriteStatus, Writes
  <2>4. sub.status # "NONE"
    BY <2>1
  <2> HIDE DEF EditsApart
  <2>5. OrdersKnown'
    BY <2>1, <2>2, <2>3, <2>4, SMTT(60)
  <2>6. Begun'
    BY <2>1, <2>2, <2>3, <2>4, SMTT(60)
  <2>7. DateApart'
    BY <2>1, <2>2, <2>3, <2>4, SMTT(60)
  <2>8. NotLate'
    BY <2>1, <2>2, <2>3, <2>4, SMTT(60)
  <2>9. EditsApart'
    BY <2>1, <2>2, <2>3, <2>4, SMTT(60) DEF EditsApart
  <2>10. SweepApart'
    BY <2>1, <2>2, <2>3, <2>4, SMTT(60)
  <2>11. OrdersApart'
    BY <2>1, <2>2, <2>3, <2>4, SMTT(60)
  <2>12. QED
    BY <2>5, <2>6, <2>7, <2>8, <2>9, <2>10, <2>11
<1>8. ASSUME NEW q \in Requests, WriteSkip(q)
     PROVE  Uncrossed'
  <2>1. PICK e \in EditRow : e = edits[q] /\ EditApart(e) /\ e.at = "SKIP"
    BY <1>8 DEF WriteSkip, Writes, EditRow
  <2>2. \A p \in Requests : edits'[p].at = "IDLE"
    BY <1>8 DEF WriteSkip, Writes, NoEdit
  <2>3. /\ UNCHANGED << clock, orders, sweep >>
        /\ sub' = [sub EXCEPT !.next = e.next, !.retries = 0]
    BY <1>8, <2>1 DEF WriteSkip, Writes
  <2>4. sub.status # "NONE"
    BY <2>1
  <2> HIDE DEF EditsApart
  <2>5. OrdersKnown'
    BY <2>1, <2>2, <2>3, <2>4, SMTT(60)
  <2>6. Begun'
    BY <2>1, <2>2, <2>3, <2>4, SMTT(60)
  <2>7. DateApart'
    BY <2>1, <2>2, <2>3, <2>4, SMTT(60)
  <2>8. NotLate'
    BY <2>1, <2>2, <2>3, <2>4, SMTT(60)
  <2>9. EditsApart'
    BY <2>1, <2>2, <2>3, <2>4, SMTT(60) DEF EditsApart
  <2>10. SweepApart'
    BY <2>1, <2>2, <2>3, <2>4, SMTT(60)
  <2>11. OrdersApart'
    BY <2>1, <2>2, <2>3, <2>4, SMTT(60)
  <2>12. QED
    BY <2>5, <2>6, <2>7, <2>8, <2>9, <2>10, <2>11
<1>9. CASE StartSweep
  BY <1>9, SMTT(60) DEF StartSweep, Goes
<1>10. CASE ScanPage
  BY <1>10, SMTT(60) DEF ScanPage, Goes, IsDue
<1>11. CASE ClaimCycle
  BY <1>11, SMTT(60) DEF ClaimCycle, Goes, Leaves, NoSweep
<1>12. CASE PlaceOrder
  <2>1. OrdersKnown'
    BY <1>12, SMTT(60) DEF PlaceOrder, Goes, Leaves, NoSweep, NextAfter
  <2>2. Begun'
    BY <1>12, SMTT(60) DEF PlaceOrder, Goes, Leaves, NoSweep, NextAfter
  <2>3. DateApart'
    BY <1>12, SMTT(60) DEF PlaceOrder, Goes, Leaves, NoSweep, NextAfter
  <2>4. NotLate'
    BY <1>12, SMTT(60) DEF PlaceOrder, Goes, Leaves, NoSweep, NextAfter
  <2>5. EditsApart'
    BY <1>12, SMTT(60) DEF PlaceOrder, Goes, Leaves, NoSweep, NextAfter
  <2>6. SweepApart'
    <3>1. sweep'.at \in {"SCAN", "IDLE", "CHECK"}
      BY <1>12 DEF PlaceOrder, Goes, Leaves, NoSweep
    <3>2. CASE sweep'.at = "CHECK"
      <4>1. sweep'.next = sweep.next
        BY <1>12, <3>2 DEF PlaceOrder, Goes, Leaves, NoSweep
      <4>2. [due |-> sweep.next, day |-> Today] \in orders'
        BY <1>12 DEF PlaceOrder
      <4> HIDE DEF IInv, SubTypeOK, OrdersKnown, Begun, DateApart, NotLate, EditApart, OrdersApart
      <4>3. QED
        BY <3>2, <4>1, <4>2 DEF SweepApart
    <3> HIDE DEF IInv, SubTypeOK, OrdersKnown, Begun, DateApart, NotLate, EditApart, OrdersApart
    <3>3. QED
      BY <3>1, <3>2 DEF SweepApart
  <2>7. OrdersApart'
    BY <1>12, SMTT(60) DEF PlaceOrder, Goes, Leaves, NoSweep, NextAfter
  <2>8. QED
    BY <2>1, <2>2, <2>3, <2>4, <2>5, <2>6, <2>7
<1>13. CASE PlaceNothing
  BY <1>13, SMTT(60) DEF PlaceNothing, Goes, Leaves, NoSweep
<1>14. CASE CheckWritten
  BY <1>14, SMTT(60) DEF CheckWritten, Goes, Leaves, NoSweep
<1>15. CASE Postpone
  <2>1. OrdersKnown'
    BY <1>15, SMTT(60) DEF Postpone, Leaves, NoSweep
  <2>2. Begun'
    BY <1>15, SMTT(60) DEF Postpone, Leaves, NoSweep
  <2>3. DateApart'
    BY <1>15, SMTT(60) DEF Postpone, Leaves, NoSweep
  <2>4. NotLate'
    BY <1>15, SMTT(60) DEF Postpone, Leaves, NoSweep
  <2>5. EditsApart'
    BY <1>15, SMTT(60) DEF Postpone, Leaves, NoSweep
  <2>6. SweepApart'
    BY <1>15, SMTT(60) DEF Postpone, Leaves, NoSweep
  <2>7. OrdersApart'
    BY <1>15, SMTT(60) DEF Postpone, Leaves, NoSweep
  <2>8. QED
    BY <2>1, <2>2, <2>3, <2>4, <2>5, <2>6, <2>7
<1>16. CASE PauseSubscription
  BY <1>16, SMTT(60) DEF PauseSubscription, Leaves, NoSweep
<1>17. CASE CutOff
  BY <1>17, SMTT(60) DEF CutOff, Leaves, NoSweep
<1>18. ASSUME NEW i \in Intervals, ChangeInterval(i)
     PROVE  Uncrossed'
  <2>1. OrdersKnown'
    BY <1>18, SMTT(60) DEF ChangeInterval, Later
  <2>2. Begun'
    BY <1>18, SMTT(60) DEF ChangeInterval, Later
  <2>3. DateApart'
    BY <1>18, SMTT(60) DEF ChangeInterval, Later
  <2>4. NotLate'
    BY <1>18, SMTT(60) DEF ChangeInterval, Later
  <2>5. EditsApart'
    BY <1>18, SMTT(60) DEF ChangeInterval, Later
  <2>6. SweepApart'
    BY <1>b, <1>18, SMTT(60) DEF ChangeInterval, ChangedSinceClaim, Later
  <2>7. OrdersApart'
    BY <1>18, SMTT(60) DEF ChangeInterval, Later
  <2>8. QED
    BY <2>1, <2>2, <2>3, <2>4, <2>5, <2>6, <2>7
<1>19. CASE UNCHANGED subVars
  BY <1>19 DEF subVars
<1>20. QED
  BY <1>1, <1>2, <1>3, <1>4, <1>5, <1>6, <1>7, <1>8, <1>9, <1>10, <1>11, <1>12, <1>13, <1>14, <1>15, <1>16, <1>17, <1>18, <1>19 DEF SubNext, SweepStep, CustomerStep

(* For any intervals longer than the nights that may be missed, any number   *)
(* of retries and of requests: as long as no request crosses another one,    *)
(* none follows a change of the interval between a claim and its order, and  *)
(* none resumes a subscription that runs, a subscription never sends two     *)
(* orders on one day or on two days in a row (processDue against setStatus,  *)
(* skipCycle and update).                                                    *)
THEOREM NoTwoOrdersInARow == SubSpec => []ApartUnlessCrossed
<1>1. SubSpec => []IInv
  BY IInvInit, IInvStep, PTL DEF SubSpec
<1>2. IInv => ApartUnlessCrossed
  BY DEF IInv, Uncrossed, ApartUnlessCrossed
<1>3. QED
  BY <1>1, <1>2, PTL
=============================================================================
