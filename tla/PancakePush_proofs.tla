-------------------------- MODULE PancakePush_proofs --------------------------
(***************************************************************************)
(* Proofs about PancakePush for any number of runs that push at the same    *)
(* time: no order is made twice at the warehouse while it lives, money that *)
(* is marked as reported was reported, an order given up stays so, and a    *)
(* cancellation is forgotten in the cases that are named only.              *)
(***************************************************************************)
EXTENDS PancakePush, SequenceTheorems, FiniteSetTheorems, WellFoundedInduction, TLAPS

-----------------------------------------------------------------------------
(* The inductive invariant.                                                *)

RowSet == [status : {"OPEN", "LEFT", "CANCELLED"}, paid : BOOLEAN, method : Methods, id : Ids,
           push : PushStatus, sent : BOOLEAN, synced : BOOLEAN, cancel : CancelStatus, done : BOOLEAN]
PastSet == [lease : BOOLEAN, window : BOOLEAN]
RunSteps == {"idle", "skip", "wait", "left", "claim", "prior", "mark", "release", "lookup",
             "post", "again", "unmark", "error", "final", "save", "after", "paid"}
RunSet == [at : RunSteps, paid : BOOLEAN, marked : BOOLEAN, holds : BOOLEAN, id : Ids]
MadeSet == [paid : BOOLEAN, state : {"NEW", "SHIPPED", "CANCELLED"}, found : BOOLEAN]
AskerSet == [at : {"idle", "search", "cancel", "flip", "after", "queue", "flag", "mark"}, paid : BOOLEAN, id : Ids,
             answer : {"NONE", "CANCELLED", "NOT_FOUND", "DEFERRED"}]
JobSet == [at : {"idle", "absent", "search", "missing", "cancel", "done", "late"}, id : Ids]

Typed ==
  /\ row \in RowSet /\ past \in PastSet /\ run \in [Runs -> RunSet] /\ late \in [BOOLEAN -> Nat]
  /\ made \in Seq(MadeSet) /\ asker \in AskerSet /\ job \in JobSet /\ lost \in BOOLEAN /\ cut \in BOOLEAN

(* The requests that cancel go on only with an order that is cancelled.    *)
AfterCancelling ==
  /\ asker.at \in {"after", "queue", "mark"} => row.status = "CANCELLED"
  /\ job.at # "idle" => row.status = "CANCELLED"
  /\ asker.at = "flag" => asker.answer = "CANCELLED"

(* Every id anyone knows is an order at Pancake.                           *)
Known(id) == id # None => id \in DOMAIN made
IdsKnown ==
  /\ Len(made) <= MaxMade
  /\ Known(row.id) /\ Known(asker.id) /\ Known(job.id)
  /\ asker.at = "cancel" => asker.id # None
  /\ job.at = "cancel" => job.id # None
  /\ \A r \in Runs : run[r].at = "save" => run[r].id \in DOMAIN made

(* A run that says it reported the money, or that saves an order it sent as *)
(* paid, has a paid order at Pancake.                                      *)
MoneyThere ==
  /\ PaidThere
  /\ \A r \in Runs :
       /\ run[r].at = "save" /\ run[r].paid => made[run[r].id].paid
       /\ run[r].at = "paid" => row.id # None /\ made[row.id].paid

(* Commands to make an order that may still take effect: of a run that is   *)
(* before or in the call, and of nobody any more.                          *)
Calling(r) == run[r].at \in {"lookup", "post"}
NoneLate == \A paid \in BOOLEAN : late[paid] = 0
NoneCalls == \A r \in Runs : ~ Calling(r)
Nothing == made = << >> /\ NoneLate /\ NoneCalls

Alone(r) == NoneLate /\ \A q \in Runs : Calling(q) => q = r
Sending ==
  /\ ~ row.sent /\ row.id = None => Nothing
  /\ row.sent /\ past.window => NoneLate /\ NoneCalls /\ Matches = DOMAIN made
  /\ Len(made) <= 1
  /\ ~ NoneLate => made = << >> /\ NoneCalls /\ late[TRUE] + late[FALSE] <= 1
  /\ \A r \in Runs :
       /\ run[r].at = "mark" /\ run[r].holds /\ row.sent => run[r].marked
       /\ run[r].at = "lookup" => Alone(r) /\ Matches = DOMAIN made
       /\ run[r].at = "post" => Alone(r) /\ made = << >>
       /\ run[r].at \in {"again", "unmark"} /\ run[r].holds => Nothing
OneCommand == row.status # "CANCELLED" => Sending

IInv == Typed /\ AfterCancelling /\ IdsKnown /\ MoneyThere /\ OneCommand

-----------------------------------------------------------------------------
(* What the statements and the helpers do to the types.                    *)

LEMMA Smallest ==
  ASSUME NEW T, T \subseteq Nat, T # {}
  PROVE  \E i \in T : \A j \in T : i <= j
<1> DEFINE R == {ss \in Nat \X Nat : ss[1] < ss[2]}
<1>1. IsWellFoundedOn(R, Nat)
  BY NatLessThanWellFounded DEF OpToRel
<1>2. \A i, j \in T : j < i => <<j, i>> \in R
  OBVIOUS
<1> HIDE DEF R
<1>3. PICK i \in T : \A j \in T : ~ (<<j, i>> \in R)
  BY <1>1, WFMin
<1>4. ASSUME NEW j \in T
      PROVE  i <= j
  <2>1. ~ (<<j, i>> \in R)
    BY <1>3
  <2>2. ~ (j < i)
    BY <1>2, <2>1
  <2>3. i \in Nat /\ j \in Nat
    OBVIOUS
  <2>4. QED
    BY <2>2, <2>3
<1>5. QED
  BY <1>4

(* The oldest of some orders is one of them.                               *)
LEMMA OldestIsOne ==
  ASSUME NEW T, T \subseteq Nat, T # {}
  PROVE  Oldest(T) \in T
<1>1. PICK i \in T : \A j \in T : i <= j
  BY Smallest
<1>2. QED
  BY <1>1 DEF Oldest

LEMMA FoundIsMade ==
  ASSUME Typed
  PROVE  /\ FindOnPancake # None => FindOnPancake \in DOMAIN made
         /\ FindOnPancake = None => Matches = {}
         /\ DOMAIN made = 1 .. Len(made) /\ Len(made) \in Nat
<1>1. DOMAIN made = 1 .. Len(made) /\ Len(made) \in Nat
  BY LenProperties DEF Typed
<1> DEFINE T == IF Matches \cap Alive # {} THEN Matches \cap Alive ELSE Matches
<1>2. T \subseteq DOMAIN made /\ (T = {} => Matches = {})
  BY DEF Matches
<1> HIDE DEF T
<1>3. CASE T = {}
  BY <1>1, <1>2, <1>3 DEF FindOnPancake, Oldest, T
<1>4. CASE T # {}
  <2>1. Oldest(T) \in T
    BY <1>1, <1>2, <1>4, OldestIsOne
  <2>2. FindOnPancake = Oldest(T)
    BY DEF FindOnPancake, T
  <2>3. QED
    BY <1>1, <1>2, <2>1, <2>2 DEF None
<1>5. QED
  BY <1>3, <1>4

LEMMA RowTyped ==
  ASSUME Typed, NEW change \in RowSet, Row(change)
  PROVE  row' \in RowSet /\ past' \in PastSet
BY DEF Row, Aged, PastSet

LEMMA Starting == Idle \in RunSet /\ NoAsker \in AskerSet /\ NoJob \in JobSet /\ Marking \in AskerSet
<1>1. Idle \in RunSet /\ NoAsker \in AskerSet /\ NoJob \in JobSet
  BY PushAssumption DEF Idle, NoAsker, NoJob, RunSet, RunSteps, AskerSet, JobSet, Ids, None
<1>2. \A at \in {"mark"} : [NoAsker EXCEPT !.at = at] \in AskerSet
  BY <1>1 DEF AskerSet
<1>3. QED
  BY <1>1, <1>2 DEF Marking

LEMMA SavingTyped ==
  ASSUME NEW id \in Ids, NEW paid \in BOOLEAN
  PROVE  Saving(id, paid) \in RunSet
BY Starting DEF Saving, RunSet, RunSteps

LEMMA RunTyped ==
  ASSUME Typed, NEW r \in Runs, NEW next \in RunSet
  PROVE  /\ [run EXCEPT ![r] = next] \in [Runs -> RunSet]
         /\ TakenBy(r, next) \in [Runs -> RunSet]
<1>1. \A q \in Runs : Overtaken(q) \in RunSet
  BY DEF Overtaken, Typed, RunSet
<1>2. QED
  BY <1>1 DEF Typed, TakenBy

LEMMA GotoTyped ==
  ASSUME Typed, NEW r \in Runs, NEW at \in RunSteps
  PROVE  [run[r] EXCEPT !.at = at] \in RunSet /\ [run EXCEPT ![r].at = at] \in [Runs -> RunSet]
BY DEF Typed, RunSet

LEMMA MadeTyped ==
  ASSUME Typed, NEW i \in DOMAIN made, NEW order \in MadeSet
  PROVE  [made EXCEPT ![i] = order] \in Seq(MadeSet)
BY ExceptSeq, LenProperties DEF Typed

LEMMA StopTyped ==
  ASSUME Typed, NEW r \in Runs, Stop(r) \/ Ends(r)
  PROVE  run' \in [Runs -> RunSet]
<1>1. Idle \in RunSet /\ \A at \in RunSteps : [Idle EXCEPT !.at = at] \in RunSet
  BY Starting DEF RunSet
<1>2. CASE Stop(r)
  BY <1>1, <1>2, RunTyped DEF Stop
<1>3. CASE Ends(r)
  <2>1. PICK next \in {"idle", "final"} : run' = [run EXCEPT ![r] = [Idle EXCEPT !.at = next]]
    BY <1>3 DEF Ends
  <2>2. next \in RunSteps
    BY DEF RunSteps
  <2>3. [Idle EXCEPT !.at = next] \in RunSet
    BY <1>1, <2>2
  <2>4. QED
    BY <2>1, <2>3, RunTyped
<1>4. QED
  BY <1>2, <1>3

LEMMA StatementTyped ==
  ASSUME Typed, NEW change \in RowSet, Row(change), run' \in [Runs -> RunSet], Kept
  PROVE  Typed'
BY RowTyped DEF Kept, Typed

LEMMA ReadingTyped ==
  ASSUME Typed, Unread, run' \in [Runs -> RunSet], Kept
  PROVE  Typed'
BY DEF Unread, Kept, Typed

LEMMA MakeTyped ==
  ASSUME Typed, NEW paid \in BOOLEAN, Make(paid)
  PROVE  /\ made' \in Seq(MadeSet) /\ Len(made') = Len(made) + 1 /\ Len(made) < MaxMade
         /\ made'[Len(made) + 1] = [paid |-> paid, state |-> "NEW", found |-> FALSE]
         /\ \A i \in DOMAIN made : made'[i] = made[i]
<1>1. [paid |-> paid, state |-> "NEW", found |-> FALSE] \in MadeSet
  BY DEF MadeSet
<1>2. QED
  BY <1>1, AppendProperties, LenProperties DEF Make, Typed

LEMMA CancelledTyped ==
  ASSUME Typed, NEW i \in DOMAIN made
  PROVE  Cancelled(i) \in Seq(MadeSet)
<1> DEFINE order == [made[i] EXCEPT !.state = IF @ = "SHIPPED" THEN @ ELSE "CANCELLED"]
<1>1. made[i] \in MadeSet
  BY ElementOfSeq, LenProperties DEF Typed
<1>2. order \in MadeSet
  BY <1>1 DEF MadeSet
<1>3. Cancelled(i) = [made EXCEPT ![i] = order]
  BY DEF Cancelled
<1> HIDE DEF order
<1>4. QED
  BY <1>2, <1>3, MadeTyped

(* Every step of a run that pushes keeps the types.                        *)
LEMMA RunStepTypes ==
  ASSUME Typed, IdsKnown, NEW r \in Runs, RunStep(r)
  PROVE  Typed'
<1> DEFINE own == run[r]
<1>0. row \in RowSet /\ own \in RunSet /\ run \in [Runs -> RunSet] /\ DOMAIN run = Runs
  BY DEF Typed
<1> HIDE DEF own
<1>1. ASSUME StartPush(r)
      PROVE  Typed'
  <2> DEFINE next == [Idle EXCEPT !.at = Gate, !.paid = Gate = "claim" /\ row.paid, !.marked = Gate = "skip" /\ row.sent]
  <2>1. Gate \in RunSteps
    BY DEF Gate, RunSteps
  <2>2. next \in RunSet
    BY <2>1, <1>0, Starting DEF RunSet, RowSet
  <2>3. run' = [run EXCEPT ![r] = next]
    BY <1>1 DEF StartPush
  <2> HIDE DEF next
  <2>4. QED
    BY <1>1, <2>2, <2>3, RunTyped, ReadingTyped DEF StartPush
<1>2. ASSUME Skip(r) \/ MarkStale(r) \/ ReleaseSettling(r) \/ WriteAttemptError(r) \/ MarkPushFailure(r) \/ AfterSave(r)
              \/ PaymentReported(r)
      PROVE  Typed'
  <2>1. PICK change \in RowSet : Row(change)
    BY <1>0, <1>2 DEF Skip, MarkStale, ReleaseSettling, WriteAttemptError, MarkPushFailure, AfterSave, AfterSaveReadAgain,
          PaymentReported, RowSet, PushStatus, CancelStatus, AfterFailure, KeepingStale
  <2>2. (Stop(r) \/ Ends(r)) /\ Kept
    BY <1>2 DEF Skip, MarkStale, ReleaseSettling, WriteAttemptError, MarkPushFailure, AfterSave, AfterSaveReadAgain,
          PaymentReported
  <2>3. QED
    BY <2>1, <2>2, StopTyped, StatementTyped
<1>3. ASSUME Claim(r)
      PROVE  Typed'
  <2>1. CASE Stop(r) /\ Unread
    BY <1>3, <2>1, StopTyped, ReadingTyped DEF Claim
  <2>2. CASE ~ (Stop(r) /\ Unread)
    <3> DEFINE next == [run[r] EXCEPT !.at = "prior", !.holds = TRUE]
    <3>1. next \in RunSet
      BY <1>0 DEF RunSet, RunSteps, own
    <3>2. run' = TakenBy(r, next) /\ row' = [row EXCEPT !.push = "PUSHING"] /\ past' = [past EXCEPT !.lease = FALSE] /\ Kept
      BY <1>3, <2>2 DEF Claim
    <3> HIDE DEF next
    <3>3. run' \in [Runs -> RunSet]
      BY <3>1, <3>2, RunTyped
    <3>4. row' \in RowSet
      BY <1>0, <3>2 DEF RowSet, PushStatus
    <3>5. past' \in PastSet
      BY <3>2 DEF Typed, PastSet
    <3>6. QED
      BY <3>2, <3>3, <3>4, <3>5 DEF Kept, Typed
  <2>3. QED
    BY <2>1, <2>2
<1>4. ASSUME ReadMark(r)
      PROVE  Typed'
  <2> DEFINE next == [run[r] EXCEPT !.at = "mark", !.marked = row.sent]
  <2>1. next \in RunSet
    BY <1>0 DEF RunSet, RunSteps, own, RowSet
  <2>2. run' = [run EXCEPT ![r] = next]
    BY <1>0, <1>4 DEF ReadMark, own, RunSet
  <2> HIDE DEF next
  <2>3. run' \in [Runs -> RunSet]
    BY <2>1, <2>2, RunTyped
  <2>4. QED
    BY <1>4, <2>3, ReadingTyped DEF ReadMark
<1>5. ASSUME NEW next \in RunSteps, Stamp(r, next), Kept
      PROVE  Typed'
  <2> DEFINE after == [run[r] EXCEPT !.at = next]
  <2>1. after \in RunSet
    BY GotoTyped
  <2>2. run' = TakenBy(r, after) /\ row' = [row EXCEPT !.sent = TRUE] /\ past' = [lease |-> FALSE, window |-> FALSE]
    BY <1>5 DEF Stamp
  <2> HIDE DEF after
  <2>3. run' \in [Runs -> RunSet]
    BY <2>1, <2>2, RunTyped
  <2>4. row' \in RowSet /\ past' \in PastSet
    BY <1>0, <2>2 DEF RowSet, PastSet
  <2>5. QED
    BY <1>5, <2>3, <2>4 DEF Kept, Typed
<1>6. ASSUME NEW at \in RunSteps, Goto(r, at)
      PROVE  run' \in [Runs -> RunSet]
  BY <1>6, GotoTyped DEF Goto
<1>7. {"lookup", "post", "release", "error", "again", "unmark", "paid", "idle"} \subseteq RunSteps
  BY DEF RunSteps
<1>8. ASSUME Mark(r) \/ SendAgain(r)
      PROVE  Typed'
  <2>1. CASE \E next \in {"lookup", "post"} : Stamp(r, next)
    BY <1>5, <1>7, <1>8, <2>1 DEF Mark, SendAgain
  <2>2. CASE Unread /\ (Goto(r, "release") \/ Ends(r))
    BY <1>6, <1>7, <1>8, <2>2, ReadingTyped, StopTyped DEF Mark, SendAgain
  <2>3. QED
    BY <1>8, <2>1, <2>2 DEF Mark, SendAgain
<1>9. ASSUME NEW id \in Ids, NEW paid \in BOOLEAN, run' = [run EXCEPT ![r] = Saving(id, paid)]
      PROVE  run' \in [Runs -> RunSet]
  BY <1>9, SavingTyped, RunTyped
<1>10. ASSUME Lookup(r)
       PROVE  Typed'
  <2>1. CASE FindOnPancake # None /\ run' = [run EXCEPT ![r] = Saving(FindOnPancake, Adopted(r))]
    <3>1. FindOnPancake \in Ids
      BY <2>1, FoundIsMade, PushAssumption DEF IdsKnown, Ids
    <3>2. Adopted(r) \in BOOLEAN
      BY DEF Adopted, AdoptAsUnpaid
    <3>3. run' \in [Runs -> RunSet]
      BY <1>9, <2>1, <3>1, <3>2
    <3>4. QED
      BY <1>10, <3>3, ReadingTyped DEF Lookup
  <2>2. CASE Goto(r, "post") \/ Goto(r, "error")
    BY <1>6, <1>7, <1>10, <2>2, ReadingTyped DEF Lookup
  <2>3. QED
    BY <1>10, <2>1, <2>2 DEF Lookup
<1>11. ASSUME Accept(r)
       PROVE  Typed'
  <2>1. run[r].paid \in BOOLEAN
    BY <1>0 DEF own, RunSet
  <2>2. made' \in Seq(MadeSet) /\ Len(made) < MaxMade
    BY <1>11, <2>1, MakeTyped DEF Accept
  <2>3. Len(made) + 1 \in Ids
    BY <2>2, FoundIsMade, PushAssumption DEF Ids
  <2>4. run' \in [Runs -> RunSet]
    BY <1>6, <1>7, <1>9, <1>11, <2>1, <2>3 DEF Accept
  <2>5. QED
    BY <1>11, <2>2, <2>4 DEF Accept, Typed
<1>12. ASSUME Refuse(r)
       PROVE  Typed'
  BY <1>6, <1>7, <1>12, ReadingTyped DEF Refuse
<1>13. ASSUME NoAnswer(r) \/ Crash(r)
       PROVE  Typed'
  <2>1. run' \in [Runs -> RunSet]
    BY <1>6, <1>7, <1>13, StopTyped DEF NoAnswer, Crash
  <2>2. run[r].paid \in BOOLEAN
    BY <1>0 DEF own, RunSet
  <2>3. late' \in [BOOLEAN -> Nat]
    BY <1>13, <2>2 DEF NoAnswer, Crash, Typed
  <2>4. QED
    BY <1>13, <2>1, <2>3 DEF NoAnswer, Crash, Typed
<1>14. ASSUME ClearMark(r)
       PROVE  Typed'
  <2>1. PICK change \in RowSet : Row(change)
    BY <1>0, <1>14 DEF ClearMark, RowSet, own, RunSet
  <2>2. QED
    BY <1>6, <1>7, <1>14, <2>1, StatementTyped DEF ClearMark
<1>15. ASSUME SaveCreated(r)
       PROVE  Typed'
  <2>1. CASE Stop(r) /\ Unread
    BY <1>15, <2>1, StopTyped, ReadingTyped DEF SaveCreated
  <2>2. CASE ~ (Stop(r) /\ Unread)
    <3> DEFINE change == [row EXCEPT !.id = run[r].id, !.push = "SYNCED", !.sent = FALSE, !.synced = run[r].paid]
    <3>1. Row(change) /\ run' = [run EXCEPT ![r] = [Idle EXCEPT !.at = "after"]] /\ Kept
      BY <1>15, <2>2 DEF SaveCreated
    <3>2. change \in RowSet
      BY <1>0 DEF RowSet, PushStatus, own, RunSet
    <3>3. [Idle EXCEPT !.at = "after"] \in RunSet
      BY Starting DEF RunSet, RunSteps
    <3> HIDE DEF change
    <3>4. QED
      BY <3>1, <3>2, <3>3, RunTyped, StatementTyped
  <2>3. QED
    BY <2>1, <2>2
<1>16. ASSUME ReportPayment(r)
       PROVE  Typed'
  <2>1. run' \in [Runs -> RunSet]
    BY <1>6, <1>7, <1>16 DEF ReportPayment, Goto
  <2> DEFINE order == [made[row.id] EXCEPT !.paid = TRUE]
  <2>2. row.id \in DOMAIN made
    BY <1>16 DEF ReportPayment, IdsKnown, Known
  <2>7. made[row.id] \in MadeSet
    BY <2>2, ElementOfSeq, LenProperties DEF Typed
  <2>3. order \in MadeSet
    BY <2>7 DEF MadeSet
  <2>4. made' = [made EXCEPT ![row.id] = order]
    BY <1>16 DEF ReportPayment
  <2> HIDE DEF order
  <2>5. made' \in Seq(MadeSet)
    BY <2>2, <2>3, <2>4, MadeTyped
  <2>6. QED
    BY <1>16, <2>1, <2>5 DEF ReportPayment, Typed
<1>17. QED
  BY <1>1, <1>2, <1>3, <1>4, <1>8, <1>10, <1>11, <1>12, <1>13, <1>14, <1>15, <1>16 DEF RunStep

(* And so does every other step.                                           *)
LEMMA OtherStepTypes ==
  ASSUME Typed, IdsKnown, AfterCancelling, OtherStep
  PROVE  Typed'
<1>0. /\ row \in RowSet /\ asker \in AskerSet /\ job \in JobSet
      /\ row.id \in Ids /\ asker.id \in Ids /\ asker.answer \in CancelStatus \cup {"DEFERRED"}
  BY DEF Typed, RowSet, AskerSet, JobSet, CancelStatus, Settled
<1>1. ASSUME NEW change \in RowSet, Row(change), UNCHANGED << run, late, made, lost, cut >>,
             asker' \in AskerSet, job' \in JobSet
      PROVE  Typed'
  BY <1>1, RowTyped DEF Typed
<1>2. ASSUME Unread, UNCHANGED << run, late, lost, cut >>, made' \in Seq(MadeSet), asker' \in AskerSet, job' \in JobSet
      PROVE  Typed'
  BY <1>2 DEF Unread, Typed
<1>3. ASSUME MarkOverdue \/ RetryPushByAdmin \/ Pay \/ Leave
      PROVE  Typed'
  <2>1. PICK change \in RowSet : Row(change)
    BY <1>0, <1>3 DEF MarkOverdue, RetryPushByAdmin, Pay, Leave, RowSet, PushStatus
  <2>2. UNCHANGED << run, late, made, lost, cut, asker, job >>
    BY <1>3 DEF MarkOverdue, RetryPushByAdmin, Pay, Leave, Kept
  <2>3. QED
    BY <1>0, <1>1, <2>1, <2>2
<1>4. ASSUME StampBatch
      PROVE  Typed'
  <2>1. \A q \in Runs : Overtaken(q) \in RunSet
    BY DEF Overtaken, Typed, RunSet
  <2>2. past' \in PastSet
    BY <1>4 DEF StampBatch, Typed, PastSet
  <2>3. QED
    BY <1>4, <2>1, <2>2 DEF StampBatch, Kept, Typed
<1>5. ASSUME NEW i \in DOMAIN made
      PROVE  /\ [made EXCEPT ![i].state = "SHIPPED"] \in Seq(MadeSet)
             /\ [made EXCEPT ![i].found = TRUE] \in Seq(MadeSet)
  <2> DEFINE shipped == [made[i] EXCEPT !.state = "SHIPPED"]
             found == [made[i] EXCEPT !.found = TRUE]
  <2>1. made[i] \in MadeSet
    BY <1>5, ElementOfSeq, LenProperties DEF Typed
  <2>2. shipped \in MadeSet /\ found \in MadeSet
    BY <2>1 DEF MadeSet
  <2>3. /\ [made EXCEPT ![i].state = "SHIPPED"] = [made EXCEPT ![i] = shipped]
        /\ [made EXCEPT ![i].found = TRUE] = [made EXCEPT ![i] = found]
    OBVIOUS
  <2> HIDE DEF shipped, found
  <2>4. QED
    BY <2>2, <2>3, MadeTyped
<1>6. ASSUME Ship \/ Index
      PROVE  Typed'
  <2>1. made' \in Seq(MadeSet)
    BY <1>5, <1>6 DEF Ship, Index, Alive
  <2>2. QED
    BY <1>0, <1>2, <1>6, <2>1 DEF Ship, Index, Unread
<1>7. ASSUME NEW change \in AskerSet, AskerGoes(change)
      PROVE  Typed'
  BY <1>7 DEF AskerGoes, Typed
<1>8. ASSUME NEW at \in {"idle", "search", "cancel", "flip", "after", "queue", "flag"}
      PROVE  [asker EXCEPT !.at = at] \in AskerSet
  BY <1>0 DEF AskerSet
<1>9. ASSUME NEW at \in {"idle", "search", "cancel", "flip", "after", "queue", "flag"},
             NEW answer \in {"NONE", "CANCELLED", "NOT_FOUND", "DEFERRED"}
      PROVE  [asker EXCEPT !.at = at, !.answer = answer] \in AskerSet
  BY <1>0 DEF AskerSet
<1>10. ASSUME PrecheckCancel
       PROVE  Typed'
  <2>1. PICK change \in AskerSet : AskerGoes(change)
    BY <1>0, <1>10, Starting DEF PrecheckCancel, AskerSet, RowSet
  <2>2. QED
    BY <1>7, <2>1
<1>11. Matches \cap Alive \subseteq DOMAIN made
  BY DEF Matches
<1>12. ASSUME PrecheckSearch
       PROVE  Typed'
  <2> DEFINE there == Matches \cap Alive
  <2>1. CASE there = {} /\ AskerGoes([asker EXCEPT !.at = "flip", !.answer = "NOT_FOUND"])
    BY <1>7, <1>9, <2>1
  <2>2. CASE Cardinality(there) = 1 /\ AskerGoes([asker EXCEPT !.at = "cancel", !.id = Oldest(there)])
    <3>1. there # {}
      BY <2>2, FS_EmptySet
    <3>2. there \subseteq Nat
      BY <1>11, FoundIsMade
    <3>3. Oldest(there) \in there
      BY <3>1, <3>2, OldestIsOne
    <3>4. Oldest(there) \in Ids
      BY <1>11, <3>3, FoundIsMade, PushAssumption DEF IdsKnown, Ids
    <3>5. [asker EXCEPT !.at = "cancel", !.id = Oldest(there)] \in AskerSet
      BY <1>0, <3>4 DEF AskerSet
    <3>6. QED
      BY <1>7, <2>2, <3>5
  <2>3. CASE AskerGoes([asker EXCEPT !.at = "flip", !.answer = "DEFERRED"])
    BY <1>7, <1>9, <2>3
  <2>4. CASE AskerGoes(NoAsker)
    BY <1>7, <2>4, Starting
  <2>5. QED
    BY <1>12, <2>1, <2>2, <2>3, <2>4 DEF PrecheckSearch
<1>13. ASSUME PrecheckCancelThere
       PROVE  Typed'
  <2>1. asker.id \in DOMAIN made
    BY <1>13 DEF PrecheckCancelThere, IdsKnown, Known
  <2>2. Cancelled(asker.id) \in Seq(MadeSet) /\ made \in Seq(MadeSet)
    BY <2>1, CancelledTyped DEF Typed
  <2>3. CASE AskerGoes(NoAsker)
    BY <1>7, <2>3, Starting
  <2>4. CASE ~ AskerGoes(NoAsker)
    <3>1. made' \in Seq(MadeSet) /\ UNCHANGED << row, past, run, late, job, cut >> /\ lost' \in BOOLEAN
      BY <1>13, <2>2, <2>4 DEF PrecheckCancelThere, Typed
    <3>2. asker' \in AskerSet
      BY <1>9, <1>13, <2>4, Starting DEF PrecheckCancelThere
    <3>3. QED
      BY <3>1, <3>2 DEF Typed
  <2>5. QED
    BY <2>3, <2>4
<1>14. ASSUME NEW change \in RowSet, CancelRow(change), asker' \in AskerSet
       PROVE  Typed'
  BY <1>0, <1>1, <1>14 DEF CancelRow
<1>15. ASSUME Flip
       PROVE  Typed'
  <2>1. [row EXCEPT !.status = "CANCELLED"] \in RowSet
    BY <1>0 DEF RowSet
  <2>2. CASE row.status = "OPEN" /\ row.paid = asker.paid
    BY <1>8, <1>14, <1>15, <2>1, <2>2 DEF Flip
  <2>3. CASE ~ (row.status = "OPEN" /\ row.paid = asker.paid)
    BY <1>7, <1>8, <1>15, <2>3, Starting DEF Flip
  <2>4. QED
    BY <2>2, <2>3
<1>16. ASSUME asker.answer \in CancelStatus
       PROVE  Recorded \in RowSet /\ [Recorded EXCEPT !.sent = row.sent] \in RowSet
  BY <1>0, <1>16 DEF Recorded, RowSet
<1>17. [row EXCEPT !.cancel = "PENDING"] \in RowSet
  BY <1>0 DEF RowSet, CancelStatus
<1>18. ASSUME AfterLocalCancel
       PROVE  Typed'
  <2>1. CASE AnswerIsKept(asker.answer) /\ SameOrder
    BY <1>14, <1>16, <1>18, <2>1, Starting DEF AfterLocalCancel, AnswerIsKept, Confirmed, CancelStatus
  <2>2. CASE ~ (AnswerIsKept(asker.answer) /\ SameOrder)
    BY <1>7, <1>8, <1>18, <2>2 DEF AfterLocalCancel
  <2>3. QED
    BY <2>1, <2>2
<1>19. ASSUME QueueCancel
       PROVE  Typed'
  <2>1. CASE MayExistOnPancake
    BY <1>14, <1>17, <1>19, <2>1, Starting DEF QueueCancel
  <2>2. CASE ~ MayExistOnPancake
    BY <1>7, <1>19, <2>2, Starting DEF QueueCancel
  <2>3. QED
    BY <2>1, <2>2
<1>21. ASSUME NEW change \in JobSet, JobGoes(change)
       PROVE  Typed'
  BY <1>21 DEF JobGoes, Typed
<1>22. ASSUME NEW change \in RowSet, NEW next \in JobSet, JobWrites(change, next)
       PROVE  Typed'
  BY <1>0, <1>1, <1>22 DEF JobWrites
<1>23. ASSUME StartCancelJob
       PROVE  Typed'
  <2>1. PICK change \in JobSet : JobGoes(change)
    BY <1>0, <1>23 DEF StartCancelJob, JobSet
  <2>2. QED
    BY <1>21, <2>1
<1>24. ASSUME CancelJobFails
       PROVE  Typed'
  BY <1>17, <1>21, <1>22, <1>24, Starting DEF CancelJobFails
<1>25. ASSUME JobSearch
       PROVE  Typed'
  <2>1. CASE FindOnPancake = None
    <3>1. [job EXCEPT !.at = "missing"] \in JobSet
      BY <1>0 DEF JobSet
    <3>2. QED
      BY <1>21, <1>25, <2>1, <3>1 DEF JobSearch
  <2>2. CASE FindOnPancake # None
    <3> DEFINE id == FindOnPancake
    <3>1. id \in Ids
      BY <2>2, FoundIsMade, PushAssumption DEF IdsKnown, Ids
    <3>2. JobWrites([row EXCEPT !.id = IF @ = None THEN id ELSE @], [id |-> id, at |-> "cancel"])
      BY <1>25, <2>2 DEF JobSearch
    <3> HIDE DEF id
    <3>3. [row EXCEPT !.id = IF @ = None THEN id ELSE @] \in RowSet /\ [id |-> id, at |-> "cancel"] \in JobSet
      BY <1>0, <3>1 DEF RowSet, JobSet
    <3>4. QED
      BY <1>22, <3>2, <3>3
  <2>3. QED
    BY <2>1, <2>2
<1>26. ASSUME JobSettlesAbsent \/ JobSettles
       PROVE  Typed'
  <2>1. PICK change \in RowSet : JobWrites(change, NoJob)
    BY <1>0, <1>26 DEF JobSettlesAbsent, JobSettles, RowSet, CancelStatus, Settled
  <2>2. QED
    BY <1>22, <2>1, Starting
<1>27. ASSUME JobCancels
       PROVE  Typed'
  <2>1. job.id \in DOMAIN made
    BY <1>27 DEF JobCancels, IdsKnown, Known
  <2>2. made' \in Seq(MadeSet)
    BY <1>27, <2>1, CancelledTyped DEF JobCancels
  <2>3. job' \in JobSet
    BY <1>0, <1>27 DEF JobCancels, JobSet
  <2>4. QED
    BY <1>0, <1>2, <1>27, <2>2, <2>3 DEF JobCancels, Unread
<1>28. ASSUME LateEffect
       PROVE  Typed'
  <2>1. PICK paid \in BOOLEAN : /\ late[paid] > 0 /\ late' = [late EXCEPT ![paid] = @ - 1]
                                /\ Make(paid) \/ UNCHANGED made
    BY <1>28 DEF LateEffect
  <2>2. late[paid] - 1 \in Nat
    BY <2>1 DEF Typed
  <2>3. late' \in [BOOLEAN -> Nat]
    BY <2>1, <2>2 DEF Typed
  <2>4. made' \in Seq(MadeSet)
    BY <2>1, MakeTyped DEF Typed
  <2>5. QED
    BY <1>28, <2>3, <2>4 DEF LateEffect, Typed
<1>29. ASSUME LeaseEnds \/ WindowEnds
       PROVE  Typed'
  <2>1. past' \in PastSet
    BY <1>29 DEF LeaseEnds, WindowEnds, Typed, PastSet
  <2>2. QED
    BY <1>29, <2>1 DEF LeaseEnds, WindowEnds, Typed
<1>30. ASSUME FlagDivergence
       PROVE  Typed'
  <2>1. CASE row.status # "CANCELLED" /\ SameOrder
    <3>1. asker.answer \in CancelStatus
      BY <1>30 DEF FlagDivergence, AfterCancelling, CancelStatus, Settled
    <3>2. QED
      BY <1>14, <1>16, <1>30, <2>1, <3>1, Starting DEF FlagDivergence
  <2>2. CASE ~ (row.status # "CANCELLED" /\ SameOrder)
    BY <1>7, <1>30, <2>2, Starting DEF FlagDivergence
  <2>3. QED
    BY <2>1, <2>2
<1>31. ASSUME MarkReversalDone
       PROVE  Typed'
  <2>1. [row EXCEPT !.done = TRUE] \in RowSet
    BY <1>0 DEF RowSet
  <2>2. QED
    BY <1>14, <1>31, <2>1, Starting DEF MarkReversalDone
<1>32. ASSUME ResyncReversal
       PROVE  Typed'
  <2>1. [NoAsker EXCEPT !.at = "queue"] \in AskerSet
    BY Starting DEF AskerSet
  <2>2. QED
    BY <1>7, <1>32, <2>1, Starting DEF ResyncReversal
<1>33. ASSUME AskerDies
       PROVE  Typed'
  BY <1>33, Starting DEF AskerDies, Typed
<1>34. ASSUME JobDies
       PROVE  Typed'
  BY <1>21, <1>34, Starting DEF JobDies
<1>35. QED
  BY <1>3, <1>4, <1>6, <1>10, <1>12, <1>13, <1>15, <1>18, <1>19, <1>23, <1>24, <1>25, <1>26, <1>27, <1>28, <1>29, <1>30, <1>31,
     <1>32, <1>33, <1>34
     DEF OtherStep

LEMMA TypesStep ==
  ASSUME Typed, IdsKnown, AfterCancelling, [PushNext]_vars
  PROVE  Typed'
<1>1. CASE UNCHANGED vars
  BY <1>1 DEF vars, Typed
<1>2. CASE PushNext
  BY <1>2, RunStepTypes, OtherStepTypes DEF PushNext
<1>3. QED
  BY <1>1, <1>2

-----------------------------------------------------------------------------
(* What no step does to the row: a cancelled order stays cancelled, its id  *)
(* never changes, and an order given up is not taken up by itself.         *)
RowGoesOn ==
  /\ row.status = "CANCELLED" => row'.status = "CANCELLED"
  /\ row.id # None => row'.id = row.id
  /\ row.push = "STALE" /\ row'.push # "STALE" => row'.push = "SYNCED" \/ RetryPushByAdmin

LEMMA RowStep ==
  ASSUME Typed, [PushNext]_vars
  PROVE  RowGoesOn
<1>0. row \in RowSet
  BY DEF Typed
<1> USE DEF RowSet
<1>1. ASSUME row' = row
      PROVE  RowGoesOn
  BY <1>1 DEF RowGoesOn
<1>2. ASSUME NEW r \in Runs, RunStep(r)
      PROVE  RowGoesOn
  <2>1. CASE Skip(r) \/ MarkStale(r) \/ AfterSave(r) \/ PaymentReported(r)
    BY <1>0, <2>1 DEF Skip, MarkStale, AfterSave, AfterSaveReadAgain, PaymentReported, Row, NotStale, RowGoesOn
  <2>2. CASE Claim(r) \/ SaveCreated(r)
    BY <1>0, <2>2 DEF Claim, SaveCreated, Row, NotStale, Unread, RowGoesOn
  <2>3. CASE Mark(r) \/ SendAgain(r)
    BY <1>0, <2>3 DEF Mark, SendAgain, Stamp, Unread, RowGoesOn
  <2>4. CASE ReleaseSettling(r) \/ ClearMark(r)
    BY <1>0, <2>4 DEF ReleaseSettling, ClearMark, Row, Holds, RowGoesOn
  <2>5. CASE WriteAttemptError(r) \/ MarkPushFailure(r)
    BY <1>0, <2>5 DEF WriteAttemptError, MarkPushFailure, Row, AfterFailure, KeepingStale, NotStale, RowGoesOn
  <2>6. CASE StartPush(r) \/ ReadMark(r) \/ Lookup(r) \/ Accept(r) \/ Refuse(r) \/ NoAnswer(r) \/ ReportPayment(r) \/ Crash(r)
    BY <1>1, <2>6 DEF StartPush, ReadMark, Lookup, Accept, Refuse, NoAnswer, ReportPayment, Crash, Unread
  <2>7. QED
    BY <1>2, <2>1, <2>2, <2>3, <2>4, <2>5, <2>6 DEF RunStep
<1>3. ASSUME OtherStep
      PROVE  RowGoesOn
  <2>1. CASE MarkOverdue \/ RetryPushByAdmin \/ Pay \/ Leave
    BY <1>0, <2>1 DEF MarkOverdue, RetryPushByAdmin, Pay, Leave, Row, RowGoesOn
  <2>2. CASE PrecheckCancel \/ PrecheckSearch \/ PrecheckCancelThere \/ Ship \/ StampBatch
    BY <1>1, <2>2 DEF PrecheckCancel, PrecheckSearch, PrecheckCancelThere, Ship, StampBatch, Unread, AskerGoes
  <2>3. CASE Flip \/ QueueCancel \/ MarkReversalDone
    BY <1>0, <1>1, <2>3 DEF Flip, QueueCancel, MarkReversalDone, CancelRow, AskerGoes, Row, RowGoesOn
  <2>4. CASE AfterLocalCancel \/ FlagDivergence
    BY <1>0, <1>1, <2>4 DEF AfterLocalCancel, FlagDivergence, CancelRow, AskerGoes, Row, Recorded, SameOrder, RowGoesOn
  <2>5. CASE StartCancelJob \/ JobCancels \/ LateEffect \/ LeaseEnds \/ Index \/ WindowEnds \/ ResyncReversal \/ AskerDies \/ JobDies
    BY <1>1, <2>5 DEF StartCancelJob, JobCancels, LateEffect, LeaseEnds, Index, WindowEnds, ResyncReversal, AskerDies, JobDies, JobGoes,
       AskerGoes
  <2>6. CASE CancelJobFails \/ JobSearch \/ JobSettlesAbsent \/ JobSettles
    BY <1>0, <1>1, <2>6 DEF CancelJobFails, JobSearch, JobSettlesAbsent, JobSettles, JobGoes, JobWrites, Row, RowGoesOn
  <2>7. QED
    BY <1>3, <2>1, <2>2, <2>3, <2>4, <2>5, <2>6 DEF OtherStep
<1>4. QED
  BY <1>1, <1>2, <1>3 DEF PushNext, vars

(* The orders at Pancake stay, and one that is paid stays paid.             *)
MadeGoesOn ==
  /\ DOMAIN made \subseteq DOMAIN made'
  /\ \A i \in DOMAIN made : made[i].paid => made'[i].paid

LEMMA MadeStep ==
  ASSUME Typed, IdsKnown, [PushNext]_vars
  PROVE  MadeGoesOn /\ Len(made') <= MaxMade
<1>0. DOMAIN made = 1 .. Len(made) /\ Len(made) \in Nat /\ Len(made) <= MaxMade /\ \A i \in DOMAIN made : made[i] \in MadeSet
  BY ElementOfSeq, LenProperties DEF Typed, IdsKnown
<1>1. ASSUME made' = made
      PROVE  MadeGoesOn /\ Len(made') <= MaxMade
  BY <1>0, <1>1 DEF MadeGoesOn
<1>2. ASSUME NEW paid \in BOOLEAN, Make(paid)
      PROVE  MadeGoesOn /\ Len(made') <= MaxMade
  <2>1. /\ made' \in Seq(MadeSet) /\ Len(made') = Len(made) + 1 /\ Len(made) < MaxMade
        /\ \A i \in DOMAIN made : made'[i] = made[i]
    BY <1>2, MakeTyped
  <2>2. DOMAIN made' = 1 .. Len(made) + 1
    BY <2>1, LenProperties
  <2>3. QED
    BY <1>0, <2>1, <2>2, PushAssumption DEF MadeGoesOn
<1>3. ASSUME NEW i \in DOMAIN made, NEW order, order.paid \/ ~ made[i].paid, made' = [made EXCEPT ![i] = order],
             made' \in Seq(MadeSet)
      PROVE  MadeGoesOn /\ Len(made') <= MaxMade
  <2>1. DOMAIN made' = DOMAIN made
    BY <1>3
  <2>2. Len(made') = Len(made)
    BY <1>0, <1>3, <2>1, LenProperties
  <2>3. \A j \in DOMAIN made : made'[j] = IF j = i THEN order ELSE made[j]
    BY <1>3
  <2>4. QED
    BY <1>0, <1>3, <2>1, <2>2, <2>3 DEF MadeGoesOn
<1>4. ASSUME NEW i \in DOMAIN made, made' = Cancelled(i)
      PROVE  MadeGoesOn /\ Len(made') <= MaxMade
  <2> DEFINE order == [made[i] EXCEPT !.state = IF @ = "SHIPPED" THEN @ ELSE "CANCELLED"]
  <2>1. order.paid = made[i].paid
    BY <1>0 DEF MadeSet
  <2>2. made' = [made EXCEPT ![i] = order]
    BY <1>4 DEF Cancelled
  <2>3. made' \in Seq(MadeSet)
    BY <1>4, CancelledTyped
  <2>4. made[i].paid \in BOOLEAN
    BY <1>0 DEF MadeSet
  <2> HIDE DEF order
  <2>5. QED
    BY <1>3, <2>1, <2>2, <2>3, <2>4
<1>5. ASSUME NEW r \in Runs, RunStep(r)
      PROVE  MadeGoesOn /\ Len(made') <= MaxMade
  <2>1. CASE Accept(r)
    BY <1>2, <2>1 DEF Accept, Typed, RunSet
  <2>2. CASE ReportPayment(r)
    <3>1. made' \in Seq(MadeSet)
      BY <1>5, RunStepTypes DEF Typed
    <3> DEFINE order == [made[row.id] EXCEPT !.paid = TRUE]
    <3>2. row.id \in DOMAIN made
      BY <2>2 DEF ReportPayment, IdsKnown, Known
    <3>3. made' = [made EXCEPT ![row.id] = order]
      BY <2>2 DEF ReportPayment
    <3>4. order.paid
      BY <1>0, <3>2 DEF MadeSet
    <3> HIDE DEF order
    <3>5. QED
      BY <1>3, <3>1, <3>2, <3>3, <3>4
  <2>3. CASE made' = made
    BY <1>1, <2>3
  <2>4. QED
    BY <1>5, <2>1, <2>2, <2>3 DEF RunStep, Kept, StartPush, Skip, MarkStale, Claim, ReadMark, Mark, ReleaseSettling, Lookup, Refuse,
       NoAnswer, SendAgain, ClearMark, WriteAttemptError, MarkPushFailure, SaveCreated, AfterSave, AfterSaveReadAgain, PaymentReported, Crash
<1>6. ASSUME OtherStep
      PROVE  MadeGoesOn /\ Len(made') <= MaxMade
  <2>1. CASE LateEffect
    BY <1>1, <1>2, <2>1 DEF LateEffect
  <2>2. CASE PrecheckCancelThere \/ JobCancels
    <3>1. CASE \E i \in DOMAIN made : made' = Cancelled(i)
      BY <1>4, <3>1
    <3>2. CASE made' = made
      BY <1>1, <3>2
    <3>3. QED
      BY <2>2, <3>1, <3>2 DEF PrecheckCancelThere, AskerGoes, JobCancels, IdsKnown, Known
  <2>3. CASE Ship \/ Index
    <3>1. PICK i \in DOMAIN made : \/ made' = [made EXCEPT ![i].state = "SHIPPED"]
                                   \/ made' = [made EXCEPT ![i].found = TRUE]
      BY <2>3 DEF Ship, Index, Alive
    <3> DEFINE shipped == [made[i] EXCEPT !.state = "SHIPPED"]
               found == [made[i] EXCEPT !.found = TRUE]
    <3>2. PICK order \in {shipped, found} : made' = [made EXCEPT ![i] = order]
      BY <3>1
    <3>3. order \in MadeSet /\ order.paid = made[i].paid /\ made[i].paid \in BOOLEAN
      BY <1>0 DEF MadeSet
    <3>4. made' \in Seq(MadeSet)
      BY <3>2, <3>3, MadeTyped
    <3>5. QED
      BY <1>3, <3>2, <3>3, <3>4
  <2>4. CASE made' = made
    BY <1>1, <2>4
  <2>5. QED
    BY <1>6, <2>1, <2>2, <2>3, <2>4 DEF OtherStep, Kept, MarkOverdue, StampBatch, RetryPushByAdmin, Pay, Leave, PrecheckCancel, PrecheckSearch,
       Flip, AfterLocalCancel, QueueCancel, FlagDivergence, CancelRow, AskerGoes, StartCancelJob, CancelJobFails, JobSearch, JobSettlesAbsent,
       JobSettles, JobGoes, JobWrites, LeaseEnds, WindowEnds, MarkReversalDone, ResyncReversal, AskerDies, JobDies
<1>7. QED
  BY <1>1, <1>5, <1>6 DEF PushNext, vars

(* A step of one run leaves the others where they are.                     *)
Stays(q) == run'[q] \in {run[q], Overtaken(q)}

LEMMA OthersStay ==
  ASSUME Typed
  PROVE  /\ \A r \in Runs : RunStep(r) => \A q \in Runs \ {r} : Stays(q)
         /\ OtherStep \/ UNCHANGED vars => \A q \in Runs : Stays(q)
<1>0. run \in [Runs -> RunSet]
  BY DEF Typed
<1>1. ASSUME NEW r \in Runs, RunStep(r), NEW q \in Runs \ {r}
      PROVE  Stays(q)
  <2>1. CASE Claim(r)
    BY <1>0, <1>1, <2>1 DEF Claim, TakenBy, Stop, Stays
  <2>2. CASE Mark(r) \/ SendAgain(r)
    BY <1>0, <1>1, <2>2 DEF Mark, SendAgain, Stamp, TakenBy, Goto, Ends, Stays
  <2>3. CASE StartPush(r) \/ ReadMark(r) \/ Lookup(r) \/ Accept(r) \/ Refuse(r) \/ NoAnswer(r) \/ ClearMark(r)
    BY <1>0, <1>1, <2>3 DEF StartPush, ReadMark, Lookup, Accept, Refuse, NoAnswer, ClearMark, Goto, Stays
  <2>4. CASE Skip(r) \/ MarkStale(r) \/ ReleaseSettling(r) \/ WriteAttemptError(r) \/ MarkPushFailure(r) \/ SaveCreated(r)
    BY <1>0, <1>1, <2>4 DEF Skip, MarkStale, ReleaseSettling, WriteAttemptError, MarkPushFailure, SaveCreated, Stop, Ends, Stays
  <2>5. CASE AfterSave(r) \/ ReportPayment(r) \/ PaymentReported(r) \/ Crash(r)
    BY <1>0, <1>1, <2>5 DEF AfterSave, AfterSaveReadAgain, ReportPayment, PaymentReported, Crash, Stop, Stays
  <2>6. QED
    BY <1>1, <2>1, <2>2, <2>3, <2>4, <2>5 DEF RunStep
<1>2. ASSUME NEW q \in Runs, run' = run
      PROVE  Stays(q)
  BY <1>2 DEF Stays
<1>3. ASSUME OtherStep, NEW q \in Runs
      PROVE  Stays(q)
  <2>1. CASE StampBatch
    BY <2>1 DEF StampBatch, Stays
  <2>2. CASE ~ StampBatch
    <3>1. run' = run
      BY <1>3, <2>2 DEF OtherStep, MarkOverdue, RetryPushByAdmin, Pay, Ship, Leave, PrecheckCancel, PrecheckSearch, PrecheckCancelThere,
         Flip, AfterLocalCancel, QueueCancel, FlagDivergence, CancelRow, AskerGoes, StartCancelJob, CancelJobFails, JobSearch,
         JobSettlesAbsent, JobCancels, JobSettles, JobGoes, JobWrites, LateEffect, LeaseEnds, Index, WindowEnds,
         MarkReversalDone, ResyncReversal, AskerDies, JobDies
    <3>2. QED
      BY <1>2, <3>1
  <2>3. QED
    BY <2>1, <2>2
<1>4. QED
  BY <1>1, <1>2, <1>3 DEF vars

(* Nobody but the requests that cancel moves them.                         *)
LEMMA RequestsStay ==
  ASSUME Typed, NEW r \in Runs, RunStep(r)
  PROVE  UNCHANGED << asker, job, lost >> /\ (cut => cut')
<1>1. CASE Crash(r)
  BY <1>1 DEF Crash, Typed
<1>2. CASE ~ Crash(r)
  BY <1>2 DEF RunStep, Kept, StartPush, Skip, MarkStale, Claim, ReadMark, Mark, ReleaseSettling, Lookup, Accept, Refuse, NoAnswer, SendAgain,
     ClearMark, WriteAttemptError, MarkPushFailure, SaveCreated, AfterSave, AfterSaveReadAgain, ReportPayment, PaymentReported
<1>3. QED
  BY <1>1, <1>2

LEMMA AfterCancellingStep ==
  ASSUME Typed, AfterCancelling, [PushNext]_vars
  PROVE  AfterCancelling'
<1>0. row \in RowSet /\ asker \in AskerSet /\ job \in JobSet /\ (row.status = "CANCELLED" => row'.status = "CANCELLED")
  BY RowStep DEF Typed, RowGoesOn
<1> USE DEF AfterCancelling
<1>1. CASE UNCHANGED << asker, job >>
  BY <1>0, <1>1
<1>2. CASE OtherStep
  <2>1. CASE Flip
    BY <1>0, <2>1 DEF Flip, CancelRow, AskerGoes, Row, NoAsker, RowSet, AskerSet
  <2>2. CASE PrecheckCancel \/ PrecheckSearch \/ PrecheckCancelThere
    <3>4. ASSUME PrecheckCancel
          PROVE  asker'.at \in {"cancel", "search", "flip", "idle"} /\ job' = job
      BY <3>4 DEF PrecheckCancel, AskerGoes, NoAsker
    <3>5. ASSUME PrecheckSearch
          PROVE  asker'.at \in {"cancel", "search", "flip", "idle"} /\ job' = job
      <4>1. PICK next \in {NoAsker} \cup {[asker EXCEPT !.at = "flip", !.answer = answer] : answer \in {"NOT_FOUND", "DEFERRED"}}
                            \cup {[asker EXCEPT !.at = "cancel", !.id = Oldest(Matches \cap Alive)]} :
              asker' = next /\ job' = job
        BY <3>5, Zenon DEF PrecheckSearch, AskerGoes
      <4>2. next.at \in {"cancel", "flip", "idle"}
        <5>1. CASE next = NoAsker
          BY <5>1 DEF NoAsker
        <5>2. CASE \E answer \in {"CANCELLED", "NOT_FOUND", "DEFERRED"} : next = [asker EXCEPT !.at = "flip", !.answer = answer]
          BY <1>0, <5>2 DEF AskerSet
        <5>3. CASE next = [asker EXCEPT !.at = "cancel", !.id = Oldest(Matches \cap Alive)]
          BY <1>0, <5>3 DEF AskerSet
        <5>4. QED
          BY <5>1, <5>2, <5>3
      <4>3. QED
        BY <4>1, <4>2
    <3>6. ASSUME PrecheckCancelThere
          PROVE  asker'.at \in {"cancel", "search", "flip", "idle"} /\ job' = job
      <4>1. PICK next \in {NoAsker} \cup {[asker EXCEPT !.at = "flip", !.answer = answer] : answer \in {"CANCELLED", "DEFERRED"}} :
              asker' = next /\ job' = job
        BY <3>6, Zenon DEF PrecheckCancelThere, AskerGoes
      <4>2. next.at \in {"cancel", "flip", "idle"}
        <5>1. CASE next = NoAsker
          BY <5>1 DEF NoAsker
        <5>2. CASE \E answer \in {"CANCELLED", "NOT_FOUND", "DEFERRED"} : next = [asker EXCEPT !.at = "flip", !.answer = answer]
          BY <1>0, <5>2 DEF AskerSet
        <5>3. CASE next = [asker EXCEPT !.at = "cancel", !.id = Oldest(Matches \cap Alive)]
          BY <1>0, <5>3 DEF AskerSet
        <5>4. QED
          BY <5>1, <5>2, <5>3
      <4>3. QED
        BY <4>1, <4>2
    <3>1. asker'.at \in {"cancel", "search", "flip", "idle"} /\ job' = job
      BY <2>2, <3>4, <3>5, <3>6
    <3>2. QED
      BY <1>0, <3>1
  <2>3. CASE AfterLocalCancel \/ QueueCancel \/ FlagDivergence
    BY <1>0, <2>3 DEF AfterLocalCancel, QueueCancel, FlagDivergence, CancelRow, AskerGoes, NoAsker, Marking, AskerSet
  <2>8. CASE MarkReversalDone \/ ResyncReversal \/ AskerDies
    BY <1>0, <2>8 DEF MarkReversalDone, ResyncReversal, AskerDies, CancelRow, AskerGoes, NoAsker, Marking
  <2>4. CASE StartCancelJob \/ CancelJobFails \/ JobSearch \/ JobDies
    BY <1>0, <2>4 DEF StartCancelJob, CancelJobFails, JobSearch, JobDies, JobGoes, JobWrites, NoJob, JobSet
  <2>5. CASE JobSettlesAbsent \/ JobCancels \/ JobSettles
    BY <1>0, <2>5 DEF JobSettlesAbsent, JobCancels, JobSettles, JobWrites, NoJob, JobSet
  <2>6. CASE ~ (Flip \/ PrecheckCancel \/ PrecheckSearch \/ PrecheckCancelThere \/ AfterLocalCancel \/ QueueCancel \/ FlagDivergence
                \/ StartCancelJob \/ CancelJobFails \/ JobSearch \/ JobSettlesAbsent \/ JobCancels \/ JobSettles
                \/ MarkReversalDone \/ ResyncReversal \/ AskerDies \/ JobDies)
    BY <1>1, <1>2, <2>6 DEF OtherStep, Kept, MarkOverdue, StampBatch, RetryPushByAdmin, Pay, Ship, Leave, LateEffect, LeaseEnds, Index, WindowEnds
  <2>7. QED
    BY <2>1, <2>2, <2>3, <2>4, <2>5, <2>6, <2>8
<1>3. QED
  BY <1>1, <1>2, RequestsStay DEF PushNext, vars

(* A run that comes to save an order got its id from Pancake just now.      *)
LEMMA SavingStep ==
  ASSUME Typed, IdsKnown, [PushNext]_vars, NEW q \in Runs, run'[q].at = "save"
  PROVE  \/ run[q].at = "save" /\ run'[q].id = run[q].id /\ run'[q].paid = run[q].paid
         \/ run'[q].id \in DOMAIN made' /\ (run'[q].paid => made'[run'[q].id].paid)
<1>0. run \in [Runs -> RunSet] /\ run[q] \in RunSet /\ made' \in Seq(MadeSet) \cup {made'}
  BY DEF Typed
<1>1. CASE Stays(q)
  BY <1>0, <1>1 DEF Stays, Overtaken, RunSet
<1>2. CASE RunStep(q)
  <2>1. CASE Lookup(q)
    <3>1. run' = [run EXCEPT ![q] = Saving(FindOnPancake, Adopted(q))] /\ FindOnPancake # None /\ made' = made
      BY <1>0, <2>1 DEF Lookup, Goto, RunSet, Kept
    <3>2. run'[q] = Saving(FindOnPancake, FALSE)
      BY <1>0, <3>1 DEF Adopted, AdoptAsUnpaid
    <3>3. run'[q].id = FindOnPancake /\ ~ run'[q].paid
      BY <3>2 DEF Saving, Idle
    <3>4. QED
      BY <3>1, <3>3, FoundIsMade
  <2>2. CASE Accept(q)
    <3>1. run' = [run EXCEPT ![q] = Saving(Len(made) + 1, @.paid)] /\ Make(run[q].paid)
      BY <1>0, <2>2 DEF Accept, Goto, RunSet
    <3>2. run'[q] = Saving(Len(made) + 1, run[q].paid) /\ run[q].paid \in BOOLEAN
      BY <1>0, <3>1 DEF RunSet
    <3>3. run'[q].id = Len(made) + 1 /\ run'[q].paid = run[q].paid
      BY <3>2 DEF Saving, Idle
    <3>7. /\ made' \in Seq(MadeSet) /\ Len(made') = Len(made) + 1
          /\ made'[Len(made) + 1] = [paid |-> run[q].paid, state |-> "NEW", found |-> FALSE]
      BY <3>1, <3>2, MakeTyped
    <3>4. made' \in Seq(MadeSet) /\ Len(made') = Len(made) + 1 /\ made'[Len(made) + 1].paid = run[q].paid
      BY <3>7
    <3>5. Len(made) + 1 \in DOMAIN made'
      BY <3>4, FoundIsMade, LenProperties
    <3>6. QED
      BY <3>3, <3>4, <3>5
  <2>3. CASE StartPush(q)
    BY <1>0, <2>3 DEF StartPush, Gate, Idle
  <2>4. CASE Claim(q)
    <3> DEFINE next == [run[q] EXCEPT !.at = "prior", !.holds = TRUE]
    <3>1. next.at = "prior"
      BY <1>0 DEF RunSet
    <3>2. run' = TakenBy(q, next) \/ Stop(q)
      BY <2>4 DEF Claim
    <3> HIDE DEF next
    <3>3. run'[q] = next \/ run'[q] = Idle
      BY <1>0, <3>2 DEF TakenBy, Stop
    <3>4. QED
      BY <3>1, <3>3 DEF Idle
  <2>5. CASE Mark(q) \/ SendAgain(q)
    BY <1>0, <2>5 DEF Mark, SendAgain, Stamp, TakenBy, Goto, Ends, Idle, RunSet
  <2>6. CASE ReadMark(q) \/ Refuse(q) \/ NoAnswer(q) \/ ClearMark(q)
    BY <1>0, <2>6 DEF ReadMark, Refuse, NoAnswer, ClearMark, Goto, RunSet
  <2>7. CASE Skip(q) \/ MarkStale(q) \/ ReleaseSettling(q) \/ WriteAttemptError(q) \/ MarkPushFailure(q)
    BY <1>0, <2>7 DEF Skip, MarkStale, ReleaseSettling, WriteAttemptError, MarkPushFailure, Stop, Ends, Idle
  <2>8. CASE SaveCreated(q) \/ AfterSave(q) \/ ReportPayment(q) \/ PaymentReported(q) \/ Crash(q)
    BY <1>0, <2>8 DEF SaveCreated, AfterSave, AfterSaveReadAgain, ReportPayment, PaymentReported, Crash, Stop, Idle
  <2>9. QED
    BY <1>2, <2>1, <2>2, <2>3, <2>4, <2>5, <2>6, <2>7, <2>8 DEF RunStep
<1>3. QED
  BY <1>1, <1>2, OthersStay DEF PushNext

LEMMA IdsKnownStep ==
  ASSUME Typed, IdsKnown, AfterCancelling, [PushNext]_vars
  PROVE  IdsKnown'
<1>0. /\ row \in RowSet /\ asker \in AskerSet /\ job \in JobSet
      /\ DOMAIN made = 1 .. Len(made) /\ Len(made) \in Nat
      /\ DOMAIN made \subseteq DOMAIN made' /\ Len(made') <= MaxMade
      /\ FindOnPancake # None => FindOnPancake \in DOMAIN made
  BY MadeStep, FoundIsMade DEF Typed, MadeGoesOn
<1>1. Known(row.id) /\ Known(asker.id) /\ Known(job.id) /\ (asker.at = "cancel" => asker.id # None) /\ (job.at = "cancel" => job.id # None)
  BY DEF IdsKnown
<1>2. \A r \in Runs : run'[r].at = "save" => run'[r].id \in DOMAIN made'
  BY <1>0, SavingStep DEF IdsKnown
<1>3. row'.id # None => row'.id \in DOMAIN made'
  <2>1. CASE row'.id = row.id
    BY <1>0, <1>1, <2>1 DEF Known
  <2>2. ASSUME NEW r \in Runs, SaveCreated(r)
        PROVE  row'.id # None => row'.id \in DOMAIN made'
    <3>1. run[r].id \in DOMAIN made
      BY <2>2 DEF SaveCreated, IdsKnown
    <3>2. row'.id = row.id \/ row'.id = run[r].id
      BY <1>0, <2>2 DEF SaveCreated, Row, Unread, RowSet
    <3>3. QED
      BY <1>0, <2>1, <3>1, <3>2
  <2>3. ASSUME NEW r \in Runs, RunStep(r), ~ SaveCreated(r)
        PROVE  row'.id = row.id
    <3>1. CASE Skip(r) \/ MarkStale(r) \/ ReleaseSettling(r) \/ ClearMark(r) \/ WriteAttemptError(r) \/ MarkPushFailure(r)
      BY <1>0, <3>1 DEF Skip, MarkStale, ReleaseSettling, ClearMark, WriteAttemptError, MarkPushFailure, Row, RowSet
    <3>2. CASE Claim(r) \/ Mark(r) \/ SendAgain(r) \/ AfterSave(r) \/ PaymentReported(r)
      BY <1>0, <3>2 DEF Claim, Mark, SendAgain, Stamp, AfterSave, AfterSaveReadAgain, PaymentReported, Row, Unread, RowSet
    <3>3. CASE row' = row
      BY <3>3
    <3>4. QED
      BY <2>3, <3>1, <3>2, <3>3 DEF RunStep, StartPush, ReadMark, Lookup, Accept, Refuse, NoAnswer, ReportPayment, Crash, Unread
  <2>4. ASSUME OtherStep
        PROVE  row'.id \in {row.id, asker.id, FindOnPancake}
    <3>1. CASE MarkOverdue \/ RetryPushByAdmin \/ Pay \/ Leave
      BY <1>0, <3>1 DEF MarkOverdue, RetryPushByAdmin, Pay, Leave, Row, RowSet
    <3>2. CASE Flip \/ QueueCancel \/ AfterLocalCancel \/ FlagDivergence \/ MarkReversalDone
      BY <1>0, <3>2 DEF Flip, QueueCancel, AfterLocalCancel, FlagDivergence, MarkReversalDone, Recorded, CancelRow, AskerGoes, Row, RowSet
    <3>3. CASE CancelJobFails \/ JobSearch \/ JobSettlesAbsent \/ JobSettles
      BY <1>0, <3>3 DEF CancelJobFails, JobSearch, JobSettlesAbsent, JobSettles, JobGoes, JobWrites, Row, RowSet
    <3>4. CASE row' = row
      BY <3>4
    <3>5. QED
      BY <2>4, <3>1, <3>2, <3>3, <3>4 DEF OtherStep, PrecheckCancel, PrecheckSearch, PrecheckCancelThere, Ship, StampBatch, Unread, AskerGoes,
         StartCancelJob, JobCancels, LateEffect, LeaseEnds, Index, WindowEnds, ResyncReversal, AskerDies, JobDies, JobGoes
  <2>5. QED
    BY <1>0, <1>1, <2>1, <2>2, <2>3, <2>4 DEF Known, PushNext, vars
<1>4. CASE UNCHANGED << asker, job >>
  BY <1>0, <1>1, <1>2, <1>3, <1>4 DEF IdsKnown, Known
<1>5. CASE OtherStep /\ ~ UNCHANGED << asker, job >>
  <2>1. ASSUME NEW next, next \in {NoAsker, Marking, [NoAsker EXCEPT !.at = "queue"], asker} \cup {[asker EXCEPT !.at = at] : at \in {"flip", "after", "queue", "flag"}}
                  \cup {[asker EXCEPT !.at = "flip", !.answer = answer] : answer \in {"CANCELLED", "NOT_FOUND", "DEFERRED"}}
        PROVE  (next.id # None => next.id \in DOMAIN made) /\ (next.at = "cancel" => next.id # None)
    <3>1. CASE next \in {NoAsker, Marking, [NoAsker EXCEPT !.at = "queue"]}
      BY <3>1 DEF NoAsker, Marking
    <3>2. CASE next = asker
      BY <1>1, <3>2 DEF Known
    <3>3. CASE \E at \in {"flip", "after", "queue", "flag"} : next = [asker EXCEPT !.at = at]
      BY <1>0, <1>1, <3>3 DEF Known, AskerSet
    <3>4. CASE \E answer \in {"CANCELLED", "NOT_FOUND", "DEFERRED"} : next = [asker EXCEPT !.at = "flip", !.answer = answer]
      BY <1>0, <1>1, <3>4 DEF Known, AskerSet
    <3>5. QED
      BY <2>1, <3>1, <3>2, <3>3, <3>4
  <2>2. ASSUME PrecheckCancel
        PROVE  (asker'.id # None => asker'.id \in DOMAIN made) /\ (asker'.at = "cancel" => asker'.id # None)
    BY <1>1, <2>2 DEF PrecheckCancel, AskerGoes, NoAsker, Known
  <2>3. ASSUME PrecheckSearch
        PROVE  (asker'.id # None => asker'.id \in DOMAIN made) /\ (asker'.at = "cancel" => asker'.id # None)
    <3> DEFINE there == Matches \cap Alive
    <3>1. CASE Cardinality(there) = 1 /\ AskerGoes([asker EXCEPT !.at = "cancel", !.id = Oldest(there)])
      <4>1. there \subseteq DOMAIN made
        BY DEF Matches
      <4>6. there # {}
        BY <3>1, FS_EmptySet
      <4> HIDE DEF there
      <4>7. there \subseteq Nat
        BY <1>0, <4>1
      <4>8. Oldest(there) \in there
        BY <4>6, <4>7, OldestIsOne
      <4>2. Oldest(there) \in DOMAIN made /\ Oldest(there) # None
        BY <1>0, <4>1, <4>8 DEF None
      <4>3. asker' = [asker EXCEPT !.at = "cancel", !.id = Oldest(there)]
        BY <3>1 DEF AskerGoes
      <4>4. asker'.id = Oldest(there)
        BY <1>0, <4>3 DEF AskerSet
      <4>5. QED
        BY <4>2, <4>4
    <3>2. CASE asker' \in {NoAsker} \cup {[asker EXCEPT !.at = "flip", !.answer = answer] : answer \in {"NOT_FOUND", "DEFERRED"}}
      BY <2>1, <3>2
    <3>3. QED
      BY <2>3, <3>1, <3>2, Zenon DEF PrecheckSearch, AskerGoes
  <2>4. ASSUME \/ PrecheckCancelThere \/ Flip \/ AfterLocalCancel \/ QueueCancel \/ FlagDivergence
               \/ MarkReversalDone \/ ResyncReversal \/ AskerDies
        PROVE  (asker'.id # None => asker'.id \in DOMAIN made) /\ (asker'.at = "cancel" => asker'.id # None)
    <3>1. CASE PrecheckCancelThere
      <4>1. asker' \in {NoAsker} \cup {[asker EXCEPT !.at = "flip", !.answer = answer] : answer \in {"CANCELLED", "DEFERRED"}}
        BY <3>1, Zenon DEF PrecheckCancelThere, AskerGoes
      <4>2. QED
        BY <2>1, <4>1
    <3>2. CASE Flip \/ AfterLocalCancel \/ QueueCancel \/ FlagDivergence \/ MarkReversalDone \/ ResyncReversal \/ AskerDies
      <4>1. asker' \in {NoAsker, Marking, [NoAsker EXCEPT !.at = "queue"]} \cup {[asker EXCEPT !.at = at] : at \in {"after", "queue", "flag"}}
        BY <3>2 DEF Flip, AfterLocalCancel, QueueCancel, FlagDivergence, MarkReversalDone, ResyncReversal, AskerDies, AskerGoes
      <4>2. QED
        BY <2>1, <4>1
    <3>3. QED
      BY <2>4, <3>1, <3>2
  <2>5. ASSUME StartCancelJob \/ CancelJobFails \/ JobSearch \/ JobSettlesAbsent \/ JobCancels \/ JobSettles \/ JobDies
        PROVE  (job'.id # None => job'.id \in DOMAIN made) /\ (job'.at = "cancel" => job'.id # None)
    <3>1. CASE StartCancelJob
      BY <1>1, <3>1 DEF StartCancelJob, JobGoes, Known
    <3>2. CASE CancelJobFails \/ JobSettlesAbsent \/ JobSettles \/ JobDies
      BY <3>2 DEF CancelJobFails, JobSettlesAbsent, JobSettles, JobDies, JobGoes, JobWrites, NoJob
    <3>3. CASE JobSearch
      BY <1>0, <1>1, <3>3 DEF JobSearch, JobGoes, JobWrites, JobSet, Known
    <3>4. CASE JobCancels
      BY <1>0, <1>1, <3>4 DEF JobCancels, JobSet, Known
    <3>5. QED
      BY <2>5, <3>1, <3>2, <3>3, <3>4
  <2>6. CASE \/ PrecheckCancel \/ PrecheckSearch \/ PrecheckCancelThere \/ Flip \/ AfterLocalCancel \/ QueueCancel \/ FlagDivergence
             \/ MarkReversalDone \/ ResyncReversal \/ AskerDies
    <3>1. job' = job
      BY <2>6 DEF PrecheckCancel, PrecheckSearch, PrecheckCancelThere, Flip, AfterLocalCancel, QueueCancel, FlagDivergence, MarkReversalDone,
         ResyncReversal, AskerDies, AskerGoes, CancelRow
    <3>2. QED
      BY <1>0, <1>1, <1>2, <1>3, <2>2, <2>3, <2>4, <2>6, <3>1 DEF IdsKnown, Known
  <2>7. CASE StartCancelJob \/ CancelJobFails \/ JobSearch \/ JobSettlesAbsent \/ JobCancels \/ JobSettles \/ JobDies
    <3>1. asker' = asker
      BY <2>7 DEF StartCancelJob, CancelJobFails, JobSearch, JobSettlesAbsent, JobCancels, JobSettles, JobDies, JobGoes, JobWrites
    <3>2. QED
      BY <1>0, <1>1, <1>2, <1>3, <2>5, <2>7, <3>1 DEF IdsKnown, Known
  <2>8. QED
    BY <1>5, <2>6, <2>7 DEF OtherStep, Kept, MarkOverdue, StampBatch, RetryPushByAdmin, Pay, Ship, Leave, LateEffect, LeaseEnds, Index, WindowEnds
<1>6. QED
  BY <1>4, <1>5, RequestsStay DEF PushNext, vars

LEMMA MoneyThereStep ==
  ASSUME Typed, IdsKnown, AfterCancelling, MoneyThere, [PushNext]_vars
  PROVE  MoneyThere'
<1>0. /\ row \in RowSet /\ run \in [Runs -> RunSet] /\ DOMAIN made \subseteq DOMAIN made'
      /\ row.id # None => row'.id = row.id
      /\ \A i \in DOMAIN made : made[i].paid => made'[i].paid
      /\ row.id # None => row.id \in DOMAIN made
  BY MadeStep, RowStep DEF Typed, MadeGoesOn, RowGoesOn, IdsKnown, Known
<1>1. ASSUME NEW r \in Runs, run'[r].at = "save", run'[r].paid
      PROVE  made'[run'[r].id].paid
  <2>1. CASE run[r].at = "save" /\ run'[r].id = run[r].id /\ run'[r].paid = run[r].paid
    BY <1>0, <1>1, <2>1 DEF MoneyThere, IdsKnown
  <2>2. QED
    BY <1>1, <2>1, SavingStep
<1>2. ASSUME row.id # None, made[row.id].paid
      PROVE  row'.id # None /\ made'[row'.id].paid
  BY <1>0, <1>2
<1>3. ASSUME NEW r \in Runs, run'[r].at = "paid"
      PROVE  row'.id # None /\ made'[row'.id].paid
  <2>1. CASE run[r].at = "paid"
    BY <1>2, <2>1 DEF MoneyThere
  <2>2. CASE ReportPayment(r)
    <3>1. row' = row /\ row.id # None /\ made' = [made EXCEPT ![row.id].paid = TRUE]
      BY <2>2 DEF ReportPayment
    <3>2. made[row.id] \in MadeSet
      BY <1>0, <3>1, ElementOfSeq, LenProperties DEF Typed
    <3>3. made'[row.id].paid
      BY <1>0, <3>1, <3>2 DEF MadeSet
    <3>4. QED
      BY <3>1, <3>3
  <2>3. CASE Stays(r) \/ ~ (\E q \in Runs : RunStep(q))
    BY <1>0, <2>1, <2>3, <1>3, OthersStay DEF PushNext, Stays, Overtaken, RunSet
  <2>4. ASSUME RunStep(r), ~ ReportPayment(r)
        PROVE  FALSE
    <3>1. CASE Lookup(r) \/ Accept(r)
      BY <1>0, <1>3, <3>1 DEF Lookup, Accept, Goto, Saving, Idle, RunSet
    <3>2. CASE StartPush(r)
      BY <1>0, <1>3, <3>2 DEF StartPush, Gate, Idle
    <3>3. CASE Claim(r)
      <4> DEFINE next == [run[r] EXCEPT !.at = "prior", !.holds = TRUE]
      <4>1. next.at = "prior"
        BY <1>0 DEF RunSet
      <4>2. run' = TakenBy(r, next) \/ Stop(r)
        BY <3>3 DEF Claim
      <4> HIDE DEF next
      <4>3. run'[r] = next \/ run'[r] = Idle
        BY <1>0, <4>2 DEF TakenBy, Stop
      <4>4. QED
        BY <1>3, <4>1, <4>3 DEF Idle
    <3>4. CASE Mark(r) \/ SendAgain(r)
      BY <1>0, <1>3, <3>4 DEF Mark, SendAgain, Stamp, TakenBy, Goto, Ends, Idle, RunSet
    <3>5. CASE ReadMark(r) \/ Refuse(r) \/ NoAnswer(r) \/ ClearMark(r)
      BY <1>0, <1>3, <3>5 DEF ReadMark, Refuse, NoAnswer, ClearMark, Goto, RunSet
    <3>6. CASE Skip(r) \/ MarkStale(r) \/ ReleaseSettling(r) \/ WriteAttemptError(r) \/ MarkPushFailure(r)
      BY <1>0, <1>3, <3>6 DEF Skip, MarkStale, ReleaseSettling, WriteAttemptError, MarkPushFailure, Stop, Ends, Idle
    <3>7. CASE SaveCreated(r) \/ AfterSave(r) \/ PaymentReported(r) \/ Crash(r)
      BY <1>0, <1>3, <3>7 DEF SaveCreated, AfterSave, AfterSaveReadAgain, PaymentReported, Crash, Stop, Idle
    <3>8. QED
      BY <2>4, <3>1, <3>2, <3>3, <3>4, <3>5, <3>6, <3>7 DEF RunStep
  <2>5. QED
    BY <2>2, <2>3, <2>4, OthersStay
<1>4. ASSUME row'.synced
      PROVE  row'.id # None /\ made'[row'.id].paid
  <2>1. CASE row.synced
    BY <1>2, <2>1 DEF MoneyThere, PaidThere
  <2>2. ASSUME ~ row.synced, NEW r \in Runs, SaveCreated(r)
        PROVE  row'.id # None /\ made'[row'.id].paid
    <3>1. row.id = None /\ run[r].at = "save"
      BY <1>4, <2>2 DEF SaveCreated, Unread
    <3>2. row' = [row EXCEPT !.id = run[r].id, !.push = "SYNCED", !.sent = FALSE, !.synced = run[r].paid] /\ made' = made
      BY <2>2, <3>1 DEF SaveCreated, Row, Kept
    <3>3. row'.id = run[r].id /\ row'.synced = run[r].paid
      BY <1>0, <3>2 DEF RowSet
    <3>4. run[r].id \in DOMAIN made /\ made[run[r].id].paid
      BY <1>4, <3>1, <3>3 DEF MoneyThere, IdsKnown
    <3>5. run[r].id # None
      BY <3>4, FoundIsMade DEF None
    <3>6. QED
      BY <3>2, <3>3, <3>4, <3>5
  <2>3. ASSUME NEW r \in Runs, PaymentReported(r)
        PROVE  row'.id # None /\ made'[row'.id].paid
    BY <1>2, <2>3 DEF PaymentReported, MoneyThere
  <2>4. ASSUME NEW r \in Runs, RunStep(r), ~ SaveCreated(r), ~ PaymentReported(r)
        PROVE  row'.synced = row.synced
    <3>1. CASE Skip(r) \/ MarkStale(r) \/ ReleaseSettling(r) \/ ClearMark(r) \/ WriteAttemptError(r) \/ MarkPushFailure(r)
      BY <1>0, <3>1 DEF Skip, MarkStale, ReleaseSettling, ClearMark, WriteAttemptError, MarkPushFailure, Row, RowSet
    <3>2. CASE Claim(r) \/ Mark(r) \/ SendAgain(r) \/ AfterSave(r)
      BY <1>0, <3>2 DEF Claim, Mark, SendAgain, Stamp, AfterSave, AfterSaveReadAgain, Row, Unread, RowSet
    <3>3. CASE row' = row
      BY <3>3
    <3>4. QED
      BY <2>4, <3>1, <3>2, <3>3 DEF RunStep, StartPush, ReadMark, Lookup, Accept, Refuse, NoAnswer, ReportPayment, Crash, Unread
  <2>5. ASSUME OtherStep
        PROVE  row'.synced = row.synced
    <3>1. CASE MarkOverdue \/ RetryPushByAdmin \/ Pay \/ Leave
      BY <1>0, <3>1 DEF MarkOverdue, RetryPushByAdmin, Pay, Leave, Row, RowSet
    <3>2. CASE Flip \/ QueueCancel \/ AfterLocalCancel \/ FlagDivergence \/ MarkReversalDone
      BY <1>0, <3>2 DEF Flip, QueueCancel, AfterLocalCancel, FlagDivergence, MarkReversalDone, Recorded, CancelRow, AskerGoes, Row, RowSet
    <3>3. CASE CancelJobFails \/ JobSearch \/ JobSettlesAbsent \/ JobSettles
      BY <1>0, <3>3 DEF CancelJobFails, JobSearch, JobSettlesAbsent, JobSettles, JobGoes, JobWrites, Row, RowSet
    <3>4. CASE row' = row
      BY <3>4
    <3>5. QED
      BY <2>5, <3>1, <3>2, <3>3, <3>4 DEF OtherStep, PrecheckCancel, PrecheckSearch, PrecheckCancelThere, Ship, StampBatch, Unread, AskerGoes,
         StartCancelJob, JobCancels, LateEffect, LeaseEnds, Index, WindowEnds, ResyncReversal, AskerDies, JobDies, JobGoes
  <2>6. QED
    BY <1>4, <2>1, <2>2, <2>3, <2>4, <2>5 DEF PushNext, vars
<1>5. QED
  BY <1>1, <1>3, <1>4 DEF MoneyThere, PaidThere

-----------------------------------------------------------------------------
(* Most steps send nothing: what they change, the commands do not depend on. *)
MadeAlike ==
  /\ Len(made') = Len(made) /\ DOMAIN made' = DOMAIN made /\ (made = << >> => made' = << >>)
  /\ Matches \subseteq Matches' /\ Matches' \subseteq DOMAIN made'
Milder(q) ==
  \/ run'[q].at = run[q].at /\ run'[q].marked = run[q].marked /\ (run'[q].holds => run[q].holds)
  \/ run'[q].at \notin {"mark", "lookup", "post", "again", "unmark"}
RowAlike ==
  row'.sent = row.sent /\ (row'.id = None => row.id = None) /\ (row.sent /\ past'.window => past.window)
Mild == late' = late /\ MadeAlike /\ RowAlike /\ \A q \in Runs : Milder(q)

LEMMA MildStep ==
  ASSUME Sending, Mild
  PROVE  Sending'
<1>1. NoneLate' = NoneLate /\ (NoneCalls => NoneCalls') /\ (Nothing => Nothing') /\ \A q \in Runs : Calling(q)' => Calling(q)
  BY DEF Mild, MadeAlike, Milder, NoneLate, NoneCalls, Nothing, Calling
<1>2. \A r \in Runs : Alone(r) => Alone(r)'
  BY <1>1 DEF Alone
<1>3. Matches = DOMAIN made => Matches' = DOMAIN made'
  BY DEF Mild, MadeAlike
<1>4. \A r \in Runs :
        /\ run'[r].at = "mark" /\ run'[r].holds /\ row'.sent => run'[r].marked
        /\ run'[r].at = "lookup" => Alone(r)' /\ Matches' = DOMAIN made'
        /\ run'[r].at = "post" => Alone(r)' /\ made' = << >>
        /\ run'[r].at \in {"again", "unmark"} /\ run'[r].holds => Nothing'
  <2>1. TAKE r \in Runs
  <2>2. Milder(r) /\ row'.sent = row.sent /\ (made = << >> => made' = << >>)
    BY DEF Mild, RowAlike, MadeAlike
  <2>3. QED
    BY <1>1, <1>2, <1>3, <2>2 DEF Sending, Milder
<1>5. QED
  BY <1>1, <1>3, <1>4 DEF Sending, Mild, RowAlike, MadeAlike

LEMMA MadeKept ==
  ASSUME Typed
  PROVE  made' = made => MadeAlike
BY FoundIsMade DEF MadeAlike, Matches

LEMMA MadeChanged ==
  ASSUME Typed, NEW i \in DOMAIN made, NEW order \in MadeSet, made[i].found => order.found, made' = [made EXCEPT ![i] = order]
  PROVE  MadeAlike
<1>1. DOMAIN made' = DOMAIN made /\ \A j \in DOMAIN made : made'[j] = IF j = i THEN order ELSE made[j]
  OBVIOUS
<1>2. made' \in Seq(MadeSet)
  BY MadeTyped
<1>3. Len(made') = Len(made)
  BY <1>1, <1>2, LenProperties DEF Typed
<1>4. made # << >>
  BY EmptySeq DEF Typed
<1>5. QED
  BY <1>1, <1>3, <1>4 DEF MadeAlike, Matches

LEMMA RowKept == Unread \/ UNCHANGED << row, past >> => RowAlike
BY DEF Unread, RowAlike

LEMMA RowWritten ==
  ASSUME Typed, NEW change \in RowSet, Row(change), change.sent = row.sent, change.id = None => row.id = None
  PROVE  RowAlike
BY DEF Row, Aged, RowAlike

(* Where a run that is not about to send may go.                           *)
LEMMA GoesMildly ==
  ASSUME Typed, NEW r \in Runs
  PROVE  /\ Stop(r) \/ Ends(r) => \A q \in Runs : Milder(q)
         /\ \A at \in RunSteps \ {"mark", "lookup", "post", "again", "unmark"} : Goto(r, at) => \A q \in Runs : Milder(q)
         /\ run' = run => \A q \in Runs : Milder(q)
<1>0. run \in [Runs -> RunSet]
  BY DEF Typed
<1>1. Stop(r) \/ Ends(r) => \A q \in Runs : Milder(q)
  BY <1>0 DEF Stop, Ends, Idle, Milder
<1>2. \A at \in RunSteps \ {"mark", "lookup", "post", "again", "unmark"} : Goto(r, at) => \A q \in Runs : Milder(q)
  BY <1>0 DEF Goto, Milder, RunSet
<1>3. run' = run => \A q \in Runs : Milder(q)
  BY DEF Milder
<1>4. QED
  BY <1>1, <1>2, <1>3

LEMMA MildRuns ==
  ASSUME Typed, IdsKnown, NEW r \in Runs,
         \/ StartPush(r) \/ Skip(r) \/ MarkStale(r) \/ Claim(r) \/ ReleaseSettling(r) \/ WriteAttemptError(r)
         \/ MarkPushFailure(r) \/ AfterSave(r) \/ ReportPayment(r) \/ PaymentReported(r)
  PROVE  Mild
<1>0. row \in RowSet /\ run \in [Runs -> RunSet]
  BY DEF Typed
<1>1. ASSUME made' = made, late' = late, RowAlike, \A q \in Runs : Milder(q)
      PROVE  Mild
  BY <1>1, MadeKept DEF Mild
<1>2. CASE StartPush(r)
  <2>1. \A q \in Runs : Milder(q)
    BY <1>0, <1>2 DEF StartPush, Gate, Idle, Milder
  <2>2. QED
    BY <1>1, <1>2, <2>1, RowKept DEF StartPush, Kept
<1>3. CASE Skip(r) \/ MarkStale(r) \/ ReleaseSettling(r) \/ WriteAttemptError(r) \/ MarkPushFailure(r) \/ AfterSave(r) \/ PaymentReported(r)
  <2>4. past' = Aged(row')
    BY <1>3 DEF Skip, MarkStale, ReleaseSettling, WriteAttemptError, MarkPushFailure, AfterSave, AfterSaveReadAgain, PaymentReported, Row
  <2>5. row'.sent = row.sent /\ row'.id = row.id
    BY <1>0, <1>3 DEF Skip, MarkStale, ReleaseSettling, WriteAttemptError, MarkPushFailure, AfterSave, AfterSaveReadAgain, PaymentReported,
       Row, RowSet
  <2>1. RowAlike
    BY <2>4, <2>5 DEF RowAlike, Aged
  <2>2. (Stop(r) \/ Ends(r)) /\ Kept
    BY <1>3 DEF Skip, MarkStale, ReleaseSettling, WriteAttemptError, MarkPushFailure, AfterSave, AfterSaveReadAgain, PaymentReported
  <2>3. QED
    BY <1>1, <2>1, <2>2, GoesMildly DEF Kept
<1>4. CASE Claim(r)
  <2>1. CASE Stop(r) /\ Unread
    BY <1>1, <1>4, <2>1, RowKept, GoesMildly DEF Claim, Kept
  <2>2. CASE ~ (Stop(r) /\ Unread)
    <3> DEFINE next == [run[r] EXCEPT !.at = "prior", !.holds = TRUE]
    <3>1. next.at = "prior"
      BY <1>0 DEF RunSet
    <3>2. run' = TakenBy(r, next) /\ row' = [row EXCEPT !.push = "PUSHING"] /\ past' = [past EXCEPT !.lease = FALSE] /\ Kept
      BY <1>4, <2>2 DEF Claim
    <3> HIDE DEF next
    <3>3. \A q \in Runs : run'[q] = IF q = r THEN next ELSE Overtaken(q)
      BY <3>2 DEF TakenBy
    <3>4. \A q \in Runs : Overtaken(q).at = run[q].at /\ Overtaken(q).marked = run[q].marked /\ ~ Overtaken(q).holds
      BY <1>0 DEF Overtaken, RunSet
    <3>5. \A q \in Runs : Milder(q)
      BY <3>1, <3>3, <3>4 DEF Milder
    <3>6. RowAlike
      BY <1>0, <3>2 DEF RowAlike, Typed, RowSet, PastSet
    <3>7. QED
      BY <1>1, <3>2, <3>5, <3>6 DEF Kept
  <2>3. QED
    BY <2>1, <2>2
<1>5. CASE ReportPayment(r)
  <2>1. row.id \in DOMAIN made
    BY <1>5 DEF ReportPayment, IdsKnown, Known
  <2> DEFINE order == [made[row.id] EXCEPT !.paid = TRUE]
  <2>2. made[row.id] \in MadeSet
    BY <2>1, ElementOfSeq, LenProperties DEF Typed
  <2>3. order \in MadeSet /\ (made[row.id].found => order.found)
    BY <2>2 DEF MadeSet
  <2>4. made' = [made EXCEPT ![row.id] = order]
    BY <1>5 DEF ReportPayment
  <2> HIDE DEF order
  <2>5. MadeAlike
    BY <2>1, <2>3, <2>4, MadeChanged
  <2>6. \A q \in Runs : Milder(q)
    BY <1>5, GoesMildly DEF ReportPayment, Goto, RunSteps
  <2>7. QED
    BY <1>5, <2>5, <2>6, RowKept DEF ReportPayment, Mild
<1>6. QED
  BY <1>2, <1>3, <1>4, <1>5

LEMMA MildOthers ==
  ASSUME Typed, IdsKnown, AfterCancelling, OtherStep, ~ LateEffect, ~ WindowEnds, row'.status # "CANCELLED"
  PROVE  Mild
<1>0. row \in RowSet /\ asker \in AskerSet /\ run \in [Runs -> RunSet] /\ row.status # "CANCELLED"
  <2>1. RowGoesOn
    BY RowStep DEF PushNext
  <2>2. QED
    BY <2>1 DEF Typed, RowGoesOn
<1>1. job.at = "idle" /\ asker.at \notin {"after", "queue", "mark"}
  BY <1>0 DEF AfterCancelling
<1>2. ASSUME RowAlike, UNCHANGED << run, late, made >>
      PROVE  Mild
  BY <1>2, MadeKept DEF Mild, Milder
<1>3. ASSUME RowAlike, UNCHANGED << run, late >>, MadeAlike
      PROVE  Mild
  BY <1>3 DEF Mild, Milder
<1>4. CASE MarkOverdue \/ RetryPushByAdmin \/ Pay \/ Leave
  <2>4. past' = Aged(row')
    BY <1>4 DEF MarkOverdue, RetryPushByAdmin, Pay, Leave, Row
  <2>5. row'.sent = row.sent /\ row'.id = row.id
    BY <1>0, <1>4 DEF MarkOverdue, RetryPushByAdmin, Pay, Leave, Row, RowSet
  <2>1. RowAlike
    BY <2>4, <2>5 DEF RowAlike, Aged
  <2>2. QED
    BY <1>2, <1>4, <2>1 DEF MarkOverdue, RetryPushByAdmin, Pay, Leave, Kept
<1>5. CASE StampBatch
  <2>1. \A q \in Runs : run'[q] = Overtaken(q)
    BY <1>5 DEF StampBatch
  <2>2. \A q \in Runs : Milder(q)
    <3>1. \A q \in Runs : Overtaken(q).at = run[q].at /\ Overtaken(q).marked = run[q].marked /\ ~ Overtaken(q).holds
      BY <1>0 DEF Overtaken, RunSet
    <3>2. QED
      BY <2>1, <3>1 DEF Milder
  <2>3. RowAlike
    BY <1>5 DEF StampBatch, RowAlike, Typed, PastSet
  <2>4. QED
    BY <1>5, <2>2, <2>3, MadeKept DEF StampBatch, Kept, Mild
<1>6. CASE PrecheckCancel \/ PrecheckSearch \/ AskerDies \/ StartCancelJob \/ LeaseEnds
  <2>1. RowAlike
    BY <1>6 DEF PrecheckCancel, PrecheckSearch, AskerDies, StartCancelJob, AskerGoes, JobGoes, LeaseEnds, Typed, PastSet, RowAlike
  <2>2. QED
    BY <1>2, <1>6, <2>1 DEF PrecheckCancel, PrecheckSearch, AskerDies, StartCancelJob, AskerGoes, JobGoes, LeaseEnds
<1>7. \A i \in DOMAIN made : made[i] \in MadeSet
  BY ElementOfSeq, LenProperties DEF Typed
<1>8. CASE PrecheckCancelThere
  <2>1. RowAlike /\ UNCHANGED << run, late >>
    BY <1>8, RowKept DEF PrecheckCancelThere, AskerGoes
  <2>2. CASE made' = made
    BY <1>2, <2>1, <2>2
  <2>3. CASE made' = Cancelled(asker.id)
    <3> DEFINE order == [made[asker.id] EXCEPT !.state = IF @ = "SHIPPED" THEN @ ELSE "CANCELLED"]
    <3>1. asker.id \in DOMAIN made
      BY <1>8 DEF PrecheckCancelThere, IdsKnown, Known
    <3>2. order \in MadeSet /\ (made[asker.id].found => order.found)
      BY <1>7, <3>1 DEF MadeSet
    <3>3. made' = [made EXCEPT ![asker.id] = order]
      BY <2>3 DEF Cancelled
    <3> HIDE DEF order
    <3>4. MadeAlike
      BY <3>1, <3>2, <3>3, MadeChanged
    <3>5. QED
      BY <1>3, <2>1, <3>4
  <2>4. QED
    BY <1>8, <2>2, <2>3 DEF PrecheckCancelThere, AskerGoes
<1>9. CASE Ship \/ Index
  <2>1. PICK i \in DOMAIN made : \/ made' = [made EXCEPT ![i].state = "SHIPPED"]
                                 \/ made' = [made EXCEPT ![i].found = TRUE]
    BY <1>9 DEF Ship, Index, Alive
  <2> DEFINE shipped == [made[i] EXCEPT !.state = "SHIPPED"]
             found == [made[i] EXCEPT !.found = TRUE]
  <2>2. PICK order \in {shipped, found} : made' = [made EXCEPT ![i] = order]
    BY <2>1
  <2>3. order \in MadeSet /\ (made[i].found => order.found)
    BY <1>7 DEF MadeSet
  <2>4. MadeAlike
    BY <2>2, <2>3, MadeChanged
  <2>5. QED
    BY <1>3, <1>9, <2>4, RowKept DEF Ship, Index
<1>10. CASE Flip
  <2>1. ~ (row.status = "OPEN" /\ row.paid = asker.paid)
    <3>1. [row EXCEPT !.status = "CANCELLED"].status = "CANCELLED"
      BY <1>0 DEF RowSet
    <3>2. QED
      BY <1>10, <3>1 DEF Flip, CancelRow, Row
  <2>2. QED
    BY <1>2, <1>10, <2>1, RowKept DEF Flip, AskerGoes
<1>11. CASE FlagDivergence
  <2> DEFINE change == [Recorded EXCEPT !.sent = row.sent]
  <2>1. CASE CancelRow(change)
    <3>1. asker.answer \in CancelStatus
      BY <1>11 DEF FlagDivergence, AfterCancelling, CancelStatus, Settled
    <3>2. change \in RowSet /\ change.sent = row.sent /\ (change.id = None => row.id = None)
      BY <1>0, <3>1, <1>11 DEF Recorded, RowSet, Typed, AskerSet
    <3> HIDE DEF change
    <3>3. QED
      BY <1>2, <2>1, <3>2, RowWritten DEF CancelRow
  <2>2. CASE AskerGoes(NoAsker)
    BY <1>2, <2>2, RowKept DEF AskerGoes
  <2>3. QED
    BY <1>11, <2>1, <2>2 DEF FlagDivergence
<1>12. QED
  BY <1>0, <1>1, <1>4, <1>5, <1>6, <1>8, <1>9, <1>10, <1>11 DEF OtherStep, AfterLocalCancel, QueueCancel, CancelJobFails, JobSearch,
     JobSettlesAbsent, JobCancels, JobSettles, MarkReversalDone, ResyncReversal, JobDies

(* A run that reads the mark, that sends, or that hears of what it sent.    *)
LEMMA ReadingTheMark ==
  ASSUME Typed, Sending, NEW r \in Runs, ReadMark(r)
  PROVE  Sending'
<1>0. row \in RowSet /\ run \in [Runs -> RunSet]
  BY DEF Typed
<1> DEFINE next == [run[r] EXCEPT !.at = "mark", !.marked = row.sent]
<1>1. run' = [run EXCEPT ![r] = next] /\ row' = row /\ past' = past /\ late' = late /\ made' = made /\ run[r].at = "prior"
  BY <1>0 DEF ReadMark, Unread, Kept, RunSet
<1>2. next.at = "mark" /\ next.marked = row.sent
  BY <1>0 DEF RunSet
<1> HIDE DEF next
<1>3. \A q \in Runs : run'[q] = IF q = r THEN next ELSE run[q]
  BY <1>0, <1>1
<1>4. /\ \A q \in Runs : Calling(q)' = Calling(q)
      /\ NoneLate' = NoneLate /\ Matches' = Matches
  BY <1>1, <1>2, <1>3 DEF Calling, NoneLate, Matches
<1>5. NoneCalls' = NoneCalls /\ \A q \in Runs : Alone(q)' = Alone(q)
  BY <1>4 DEF NoneCalls, Alone
<1>6. Nothing' = Nothing
  BY <1>1, <1>4, <1>5 DEF Nothing
<1>7. QED
  BY <1>1, <1>2, <1>3, <1>4, <1>5, <1>6 DEF Sending

(* A command is marked only when nothing older may still take effect.       *)
LEMMA Stamping ==
  ASSUME Typed, Sending, NEW r \in Runs, NEW next \in {"lookup", "post"}, Stamp(r, next), Kept,
         NoneLate, NoneCalls, next = "lookup" => Matches = DOMAIN made, next = "post" => made = << >>
  PROVE  Sending'
<1>0. row \in RowSet /\ run \in [Runs -> RunSet]
  BY DEF Typed
<1> DEFINE own == [run[r] EXCEPT !.at = next]
<1>1. /\ row' = [row EXCEPT !.sent = TRUE] /\ past' = [lease |-> FALSE, window |-> FALSE] /\ run' = TakenBy(r, own)
      /\ late' = late /\ made' = made
  BY DEF Stamp, Kept
<1>2. own.at = next /\ \A q \in Runs : Overtaken(q).at = run[q].at /\ ~ Overtaken(q).holds
  BY <1>0 DEF RunSet, Overtaken
<1> HIDE DEF own
<1>3. \A q \in Runs : run'[q] = IF q = r THEN own ELSE Overtaken(q)
  BY <1>1 DEF TakenBy
<1>4. row'.sent /\ row'.id = row.id /\ ~ past'.window
  BY <1>0, <1>1 DEF RowSet
<1>5. NoneLate' /\ Matches' = Matches
  BY <1>1 DEF NoneLate, Matches
<1>6. Alone(r)' /\ \A q \in Runs : q # r => ~ Calling(q)'
  BY <1>2, <1>3, <1>5 DEF Alone, NoneCalls, Calling
<1>7. \A q \in Runs :
        /\ run'[q].at = "mark" /\ run'[q].holds /\ row'.sent => run'[q].marked
        /\ run'[q].at = "lookup" => Alone(q)' /\ Matches' = DOMAIN made'
        /\ run'[q].at = "post" => Alone(q)' /\ made' = << >>
        /\ run'[q].at \in {"again", "unmark"} /\ run'[q].holds => Nothing'
  <2>1. TAKE q \in Runs
  <2>2. CASE q = r
    BY <1>1, <1>2, <1>3, <1>5, <1>6, <2>2
  <2>3. CASE q # r
    BY <1>2, <1>3, <1>6, <2>3 DEF Calling
  <2>4. QED
    BY <2>2, <2>3
<1>8. QED
  BY <1>1, <1>4, <1>5, <1>7 DEF Sending

LEMMA MarkStep ==
  ASSUME Typed, Sending, NEW r \in Runs, Mark(r) \/ SendAgain(r)
  PROVE  Sending'
<1>1. CASE Mark(r) /\ MayMark(r)
  <2> DEFINE next == IF run[r].marked THEN "lookup" ELSE "post"
  <2>1. Stamp(r, next) /\ Kept /\ run[r].at = "mark" /\ run[r].holds /\ row.id = None
    BY <1>1 DEF Mark, MayMark, Holds
  <2>2. NoneLate /\ NoneCalls /\ Matches = DOMAIN made
    <3>1. CASE row.sent
      BY <1>1, <3>1 DEF Sending, MayMark, SendWindowOpen
    <3>2. CASE ~ row.sent
      BY <2>1, <3>2, FoundIsMade DEF Sending, Nothing, Matches
    <3>3. QED
      BY <3>1, <3>2
  <2>3. next = "post" => made = << >>
    BY <2>1 DEF Sending, Nothing
  <2>4. next \in {"lookup", "post"}
    OBVIOUS
  <2> HIDE DEF next
  <2>5. QED
    BY <2>1, <2>2, <2>3, <2>4, Stamping
<1>2. CASE SendAgain(r) /\ Holds(r) /\ row.sent
  <2>1. Stamp(r, "post") /\ Kept /\ run[r].at = "again" /\ run[r].holds
    BY <1>2 DEF SendAgain, Holds
  <2>2. Nothing
    BY <2>1 DEF Sending
  <2>3. QED
    BY <2>1, <2>2, Stamping DEF Nothing
<1>3. CASE (Mark(r) /\ ~ MayMark(r)) \/ (SendAgain(r) /\ ~ (Holds(r) /\ row.sent))
  <2>1. (Goto(r, "release") \/ Ends(r)) /\ Unread /\ Kept
    BY <1>3 DEF Mark, SendAgain
  <2>2. Mild
    BY <2>1, GoesMildly, MadeKept, RowKept DEF Kept, Mild, RunSteps
  <2>3. QED
    BY <2>2, MildStep
<1>4. QED
  BY <1>1, <1>2, <1>3

LEMMA LookupStep ==
  ASSUME Typed, Sending, NEW r \in Runs, Lookup(r)
  PROVE  Sending'
<1>0. run \in [Runs -> RunSet]
  BY DEF Typed
<1>1. CASE Goto(r, "error")
  BY <1>1, GoesMildly, MadeKept, RowKept, MildStep DEF Lookup, Kept, Mild, RunSteps
<1>2. CASE run' = [run EXCEPT ![r] = Saving(FindOnPancake, Adopted(r))]
  <2>1. \A q \in Runs : Milder(q)
    BY <1>0, <1>2 DEF Saving, Idle, Milder
  <2>2. QED
    BY <2>1, MadeKept, RowKept, MildStep DEF Lookup, Kept, Mild
<1>3. CASE FindOnPancake = None /\ Goto(r, "post")
  <2>1. Alone(r) /\ Matches = DOMAIN made /\ run[r].at = "lookup"
    BY DEF Lookup, Sending
  <2>2. made = << >>
    BY <1>3, <2>1, FoundIsMade, EmptySeq, LenProperties DEF Typed
  <2>3. row' = row /\ past' = past /\ late' = late /\ made' = made
    BY DEF Lookup, Unread, Kept
  <2>4. \A q \in Runs : /\ q # r => run'[q] = run[q]
                        /\ run'[r].at = "post"
    BY <1>0, <1>3 DEF Goto, RunSet
  <2>5. \A q \in Runs : Calling(q)' = Calling(q)
    BY <2>1, <2>4 DEF Calling
  <2>6. NoneLate' = NoneLate /\ NoneCalls' = NoneCalls /\ \A q \in Runs : Alone(q)' = Alone(q)
    BY <2>3, <2>5 DEF NoneLate, NoneCalls, Alone
  <2>7. ~ NoneCalls /\ NoneLate
    BY <2>1 DEF NoneCalls, Calling, Alone
  <2>8. \A q \in Runs : q # r => run[q].at \notin {"lookup", "post"}
    BY <2>1 DEF Alone, Calling
  <2>9. QED
    BY <2>1, <2>2, <2>3, <2>4, <2>6, <2>7, <2>8 DEF Sending, Nothing
<1>4. QED
  BY <1>1, <1>2, <1>3 DEF Lookup

(* Two counters, one step up from zero or the last step down.               *)
LEMMA OneMore ==
  ASSUME NEW S, NEW f \in [S -> Nat], NEW T \in S, NEW F \in S, T # F, NEW p \in {T, F}, f[T] = 0, f[F] = 0
  PROVE  [f EXCEPT ![p] = @ + 1][T] + [f EXCEPT ![p] = @ + 1][F] <= 1
OBVIOUS

LEMMA LastOne ==
  ASSUME NEW S, NEW f \in [S -> Nat], NEW T \in S, NEW F \in S, T # F, NEW p \in {T, F}, f[T] + f[F] <= 1, f[p] > 0
  PROVE  [f EXCEPT ![p] = @ - 1][T] = 0 /\ [f EXCEPT ![p] = @ - 1][F] = 0
OBVIOUS

(* What follows a call: the order is made, or a command may be on its way.  *)
LEMMA CallingStep ==
  ASSUME Typed, Sending, Typed', NEW r \in Runs, run[r].at = "post",
         UNCHANGED << row, past >>, \A q \in Runs : q # r => run'[q] = run[q],
         run'[r].at \notin {"mark", "lookup", "post"},
         \/ late' = late /\ made' = made
         \/ late' = late /\ Len(made') = Len(made) + 1 /\ run'[r].at \notin {"again", "unmark"}
         \/ late' = [late EXCEPT ![run[r].paid] = @ + 1] /\ made' = made /\ run'[r].at \notin {"again", "unmark"}
  PROVE  Sending'
<1>1. Alone(r) /\ made = << >> /\ Calling(r) /\ ~ NoneCalls /\ NoneLate /\ ~ Nothing
  BY DEF Sending, Calling, NoneCalls, Alone, Nothing
<1>2. \A q \in Runs : q # r => ~ Calling(q)
  BY <1>1 DEF Alone
<1>3. \A q \in Runs : ~ Calling(q)'
  BY <1>2 DEF Calling
<1>4. NoneCalls'
  BY <1>3 DEF NoneCalls
<1>5. Len(made) = 0 /\ Len(made') \in Nat
  BY <1>1, EmptySeq, LenProperties DEF Typed
<1>6. Len(made') <= 1
  BY <1>5
<1>7. ~ NoneLate' => made' = << >> /\ late'[TRUE] + late'[FALSE] <= 1
  <2>1. CASE late' = late
    BY <1>1, <2>1 DEF NoneLate
  <2>2. CASE late' = [late EXCEPT ![run[r].paid] = @ + 1] /\ made' = made
    <3>1. run[r].paid \in BOOLEAN /\ late[TRUE] = 0 /\ late[FALSE] = 0
      BY <1>1 DEF NoneLate, Typed, RunSet
    <3>2. late \in [BOOLEAN -> Nat]
      BY DEF Typed
    <3>3. late'[TRUE] + late'[FALSE] <= 1
      BY <2>2, <3>1, <3>2, OneMore, Zenon
    <3>4. QED
      BY <1>1, <2>2, <3>3, Zenon
  <2>3. QED
    BY <2>1, <2>2
<1>8. \A q \in Runs :
        /\ run'[q].at = "mark" /\ run'[q].holds /\ row'.sent => run'[q].marked
        /\ run'[q].at \notin {"lookup", "post"}
        /\ run'[q].at \in {"again", "unmark"} /\ run'[q].holds => Nothing'
  <2>1. TAKE q \in Runs
  <2>2. CASE q = r
    <3>1. run'[r].at \in {"again", "unmark"} => late' = late /\ made' = made
      OBVIOUS
    <3>2. run'[r].at \in {"again", "unmark"} => Nothing'
      BY <1>1, <1>4, <3>1 DEF Nothing, NoneLate
    <3>3. QED
      BY <2>2, <3>2
  <2>3. CASE q # r
    BY <1>1, <1>2, <2>3 DEF Sending, Calling
  <2>4. QED
    BY <2>2, <2>3
<1>9. ~ (row.sent /\ past.window) /\ ~ (~ row.sent /\ row.id = None)
  BY <1>1 DEF Sending
<1>10. QED
  BY <1>4, <1>6, <1>7, <1>8, <1>9 DEF Sending

LEMMA PostStep ==
  ASSUME Typed, Sending, Typed', NEW r \in Runs, Accept(r) \/ Refuse(r) \/ NoAnswer(r) \/ Crash(r)
  PROVE  Sending'
<1>0. run \in [Runs -> RunSet]
  BY DEF Typed
<1>1. CASE Accept(r)
  <2>1. run[r].paid \in BOOLEAN /\ Make(run[r].paid)
    BY <1>0, <1>1 DEF Accept, RunSet
  <2>2. Len(made') = Len(made) + 1
    BY <2>1, MakeTyped
  <2>3. run'[r].at \in {"save", "error"} /\ \A q \in Runs : q # r => run'[q] = run[q]
    BY <1>0, <1>1 DEF Accept, Goto, Saving, Idle, RunSet
  <2>4. QED
    BY <1>1, <2>2, <2>3, CallingStep DEF Accept
<1>2. CASE Refuse(r)
  <2>1. run'[r].at \in {"again", "unmark", "error"} /\ \A q \in Runs : q # r => run'[q] = run[q]
    BY <1>0, <1>2 DEF Refuse, Goto, RunSet
  <2>2. QED
    BY <1>2, <2>1, CallingStep DEF Refuse, Unread, Kept
<1>3. CASE NoAnswer(r)
  <2>1. run'[r].at = "error" /\ \A q \in Runs : q # r => run'[q] = run[q]
    BY <1>0, <1>3 DEF NoAnswer, Goto, RunSet
  <2>2. QED
    BY <1>3, <2>1, CallingStep DEF NoAnswer
<1>4. CASE Crash(r)
  <2>1. CASE run[r].at = "post"
    <3>1. run'[r].at = "idle" /\ \A q \in Runs : q # r => run'[q] = run[q]
      BY <1>0, <1>4 DEF Crash, Stop, Idle
    <3>2. QED
      BY <1>4, <2>1, <3>1, CallingStep DEF Crash
  <2>2. CASE run[r].at # "post"
    BY <1>4, <2>2, GoesMildly, MadeKept, RowKept, MildStep DEF Crash, Mild
  <2>3. QED
    BY <2>1, <2>2
<1>5. QED
  BY <1>1, <1>2, <1>3, <1>4

LEMMA LateMakes ==
  ASSUME Typed, LateEffect, made = << >>
  PROVE  Len(made') <= 1
<1>1. Len(made) = 0
  BY EmptySeq
<1>2. Len(made') = Len(made) + 1 \/ Len(made') = Len(made)
  <2>1. PICK paid \in BOOLEAN : Make(paid) \/ made' = made
    BY Zenon DEF LateEffect
  <2>2. Make(paid) => Len(made') = Len(made) + 1
    BY MakeTyped
  <2>3. QED
    BY <2>1, <2>2, Zenon
<1>3. QED
  BY <1>1, <1>2

LEMMA LateStep ==
  ASSUME Typed, Sending, Typed', LateEffect
  PROVE  Sending'
<1>1. PICK paid \in BOOLEAN : /\ late[paid] > 0 /\ late' = [late EXCEPT ![paid] = @ - 1]
                              /\ Make(paid) \/ UNCHANGED made
  BY DEF LateEffect
<1>2. late \in [BOOLEAN -> Nat] /\ row' = row /\ past' = past /\ run' = run
  BY DEF Typed, LateEffect
<1>3. ~ NoneLate /\ ~ Nothing
  BY <1>1, <1>2 DEF NoneLate, Nothing
<1>4. made = << >> /\ NoneCalls /\ late[TRUE] + late[FALSE] <= 1
  BY <1>3 DEF Sending
<1>6. \A q \in BOOLEAN : late'[q] = 0
  BY <1>1, <1>2, <1>4, LastOne, Zenon
<1>7. NoneLate'
  BY <1>6 DEF NoneLate
<1>8. NoneCalls' /\ \A q \in Runs : run'[q].at \notin {"lookup", "post"}
  BY <1>2, <1>4 DEF NoneCalls, Calling
<1>9. Len(made') <= 1
  BY <1>4, LateMakes, Zenon
<1>10. ~ (row.sent /\ past.window) /\ ~ (~ row.sent /\ row.id = None)
       /\ \A q \in Runs : ~ (run[q].at \in {"again", "unmark"} /\ run[q].holds)
  BY <1>3 DEF Sending
<1>11. \A q \in Runs : run[q].at = "mark" /\ run[q].holds /\ row.sent => run[q].marked
  BY DEF Sending
<1>12. QED
  BY <1>2, <1>7, <1>8, <1>9, <1>10, <1>11 DEF Sending

LEMMA WindowStep ==
  ASSUME Typed, Sending, WindowEnds
  PROVE  Sending'
<1>1. UNCHANGED << row, run, late, made >>
  BY DEF WindowEnds
<1>2. NoneLate /\ NoneCalls /\ Matches = DOMAIN made
  BY DEF WindowEnds, CommandPending, NoneLate, NoneCalls, Calling
<1>3. NoneLate' = NoneLate /\ NoneCalls' = NoneCalls /\ Matches' = Matches /\ Nothing' = Nothing
      /\ \A q \in Runs : Alone(q)' = Alone(q)
  BY <1>1 DEF NoneLate, NoneCalls, Matches, Nothing, Alone, Calling
<1>4. QED
  BY <1>1, <1>2, <1>3 DEF Sending

LEMMA ClearingStep ==
  ASSUME Typed, Sending, NEW r \in Runs, ClearMark(r)
  PROVE  Sending'
<1>0. row \in RowSet /\ run \in [Runs -> RunSet]
  BY DEF Typed
<1>1. \A q \in Runs : Milder(q)
  BY GoesMildly DEF ClearMark, RunSteps
<1>2. row' = [row EXCEPT !.sent = @ /\ ~(row.id = None /\ run[r].holds)] /\ past' = Aged(row') /\ late' = late /\ made' = made
  BY DEF ClearMark, Row, Kept
<1>3. CASE row.id = None /\ run[r].holds
  <2>1. Nothing
    BY <1>3 DEF ClearMark, Sending
  <2>2. Nothing' /\ NoneLate' /\ \A q \in Runs : run'[q].at \notin {"lookup", "post"}
    BY <1>1, <1>2, <2>1 DEF Nothing, NoneLate, NoneCalls, Calling, Milder
  <2>3. ~ row'.sent
    BY <1>0, <1>2, <1>3 DEF RowSet
  <2>4. QED
    BY <1>2, <2>2, <2>3 DEF Sending, Nothing
<1>4. CASE ~ (row.id = None /\ run[r].holds)
  <2>1. row'.sent = row.sent /\ row'.id = row.id
    BY <1>0, <1>2, <1>4 DEF RowSet
  <2>2. RowAlike
    BY <1>2, <2>1 DEF RowAlike, Aged
  <2>3. QED
    BY <1>1, <1>2, <2>2, MadeKept, MildStep DEF Mild
<1>5. QED
  BY <1>3, <1>4

LEMMA SaveStep ==
  ASSUME Typed, IdsKnown, Sending, NEW r \in Runs, SaveCreated(r)
  PROVE  Sending'
<1>0. row \in RowSet /\ run \in [Runs -> RunSet]
  BY DEF Typed
<1>1. CASE row.id # None
  <2>1. Stop(r) /\ Unread /\ Kept
    BY <1>1 DEF SaveCreated
  <2>2. QED
    BY <2>1, GoesMildly, MadeKept, RowKept, MildStep DEF Kept, Mild
<1>2. CASE row.id = None
  <2>1. /\ row' = [row EXCEPT !.id = run[r].id, !.push = "SYNCED", !.sent = FALSE, !.synced = run[r].paid]
        /\ run' = [run EXCEPT ![r] = [Idle EXCEPT !.at = "after"]] /\ late' = late /\ made' = made /\ run[r].at = "save"
    BY <1>2 DEF SaveCreated, Row, Kept
  <2>2. row'.id = run[r].id /\ row'.sent = FALSE
    BY <1>0, <2>1 DEF RowSet
  <2>3. run[r].id \in DOMAIN made
    BY <2>1 DEF IdsKnown
  <2>4. row'.id # None /\ made # << >>
    BY <2>2, <2>3, FoundIsMade, EmptySeq DEF None
  <2>5. \A q \in Runs : Milder(q)
    BY <1>0, <2>1 DEF Idle, Milder
  <2>6. NoneLate /\ NoneLate' /\ Matches' = Matches
    BY <2>1, <2>4 DEF Sending, NoneLate, Matches
  <2>7. \A q \in Runs : (Calling(q)' => Calling(q)) /\ (Alone(q) => Alone(q)')
    BY <2>5, <2>6 DEF Calling, Milder, Alone
  <2>8. \A q \in Runs :
          /\ run'[q].at = "lookup" => Alone(q)' /\ Matches' = DOMAIN made'
          /\ run'[q].at # "post"
          /\ run'[q].at \in {"again", "unmark"} => ~ run'[q].holds
    BY <2>1, <2>4, <2>5, <2>6, <2>7 DEF Sending, Milder, Nothing
  <2>9. QED
    BY <2>1, <2>2, <2>4, <2>6, <2>8 DEF Sending
<1>3. QED
  BY <1>1, <1>2

LEMMA OneCommandStep ==
  ASSUME Typed, IdsKnown, AfterCancelling, OneCommand, [PushNext]_vars
  PROVE  OneCommand'
<1> SUFFICES ASSUME row'.status # "CANCELLED"
             PROVE  Sending'
  BY DEF OneCommand
<1>1. Sending /\ Typed'
  BY RowStep, TypesStep DEF OneCommand, RowGoesOn
<1>2. CASE UNCHANGED vars
  <2>1. \A q \in Runs : Milder(q)
    BY <1>2 DEF vars, Milder
  <2>2. Mild
    BY <1>2, <2>1, MadeKept, RowKept DEF vars, Mild
  <2>3. QED
    BY <1>1, <2>2, MildStep
<1>3. ASSUME NEW r \in Runs, RunStep(r)
      PROVE  Sending'
  <2>1. CASE Accept(r) \/ Refuse(r) \/ NoAnswer(r) \/ Crash(r)
    BY <1>1, <2>1, PostStep
  <2>2. CASE ReadMark(r) \/ Mark(r) \/ SendAgain(r) \/ Lookup(r)
    BY <1>1, <2>2, ReadingTheMark, MarkStep, LookupStep
  <2>3. CASE ClearMark(r) \/ SaveCreated(r)
    BY <1>1, <2>3, ClearingStep, SaveStep
  <2>4. CASE \/ StartPush(r) \/ Skip(r) \/ MarkStale(r) \/ Claim(r) \/ ReleaseSettling(r) \/ WriteAttemptError(r)
             \/ MarkPushFailure(r) \/ AfterSave(r) \/ ReportPayment(r) \/ PaymentReported(r)
    BY <1>1, <2>4, MildRuns, MildStep
  <2>5. QED
    BY <1>3, <2>1, <2>2, <2>3, <2>4 DEF RunStep
<1>4. CASE OtherStep
  <2>1. CASE LateEffect
    BY <1>1, <2>1, LateStep
  <2>2. CASE WindowEnds
    BY <1>1, <2>2, WindowStep
  <2>3. CASE ~ LateEffect /\ ~ WindowEnds
    BY <1>1, <1>4, <2>3, MildOthers, MildStep
  <2>4. QED
    BY <2>1, <2>2, <2>3
<1>5. QED
  BY <1>2, <1>3, <1>4 DEF PushNext

-----------------------------------------------------------------------------
(* The invariant holds in every state.                                     *)

LEMMA IInvInit == PushInit => IInv
<1> SUFFICES ASSUME PushInit
             PROVE  IInv
  OBVIOUS
<1>1. PICK m \in Methods :
        row = [status |-> "OPEN", paid |-> FALSE, method |-> m, id |-> None, push |-> "PENDING",
               sent |-> FALSE, synced |-> FALSE, cancel |-> "NONE", done |-> FALSE]
  BY DEF PushInit
<1>2. /\ past = [lease |-> FALSE, window |-> FALSE] /\ run = [r \in Runs |-> Idle] /\ late = [paid \in BOOLEAN |-> 0]
      /\ made = << >> /\ asker = NoAsker /\ job = NoJob /\ lost = FALSE /\ cut = FALSE
  BY DEF PushInit
<1>3. row \in RowSet
  BY <1>1, PushAssumption DEF RowSet, Ids, None, PushStatus, CancelStatus, Settled
<1>4. Typed
  BY <1>2, <1>3, Starting, EmptySeq DEF Typed, PastSet
<1>5. AfterCancelling
  BY <1>2 DEF AfterCancelling, NoAsker, NoJob
<1>6. Len(made) = 0 /\ DOMAIN made = {}
  BY <1>2, EmptySeq
<1>7. IdsKnown
  BY <1>1, <1>2, <1>6, PushAssumption DEF IdsKnown, Known, NoAsker, NoJob, Idle
<1>8. MoneyThere
  BY <1>1, <1>2 DEF MoneyThere, PaidThere, Idle
<1>9. NoneLate /\ NoneCalls /\ Nothing
  BY <1>2 DEF NoneLate, NoneCalls, Nothing, Calling, Idle
<1>10. OneCommand
  BY <1>1, <1>2, <1>6, <1>9 DEF OneCommand, Sending, Idle
<1>11. QED
  BY <1>4, <1>5, <1>7, <1>8, <1>10 DEF IInv

LEMMA IInvStep == IInv /\ [PushNext]_vars => IInv'
BY TypesStep, AfterCancellingStep, IdsKnownStep, MoneyThereStep, OneCommandStep DEF IInv

LEMMA IInvHolds == PushSpec => []IInv
BY IInvInit, IInvStep, PTL DEF PushSpec

-----------------------------------------------------------------------------
(* What is still owed on a cancelled order.  The facts the steps share: the *)
(* answer a request carries, and that the statuses the gate gave were read  *)
(* of the order as it is.                                                  *)
Answered ==
  /\ asker.answer = "CANCELLED" => asker.id # None /\ asker.at \in {"flip", "flag", "after", "queue"}
  /\ job.at # "idle" => row.cancel # "NONE"
  /\ job.at = "done" => job.id # None
  /\ \A r \in Runs : /\ run[r].at = "skip" => row.status = "CANCELLED"
                     /\ run[r].at = "wait" => ~ run[r].marked

(* A cancelled order that is at Pancake and has no answer yet: the run that *)
(* saved it is about to write one, or died before; or what follows the      *)
(* cancellation is not done, and the request is not about to say that it is. *)
Owed == row.status = "CANCELLED" /\ row.id # None /\ row.cancel = "NONE"
Watched == cut \/ \E r \in Runs : run[r].at = "after"
Remembered ==
  /\ row.done => row.status = "CANCELLED"
  /\ Owed => Watched \/ (~ row.done /\ asker.at # "mark")

(* With one order at Pancake, it is cancelled there when anybody says so;   *)
(* and somebody says so when the order here is not, unless an answer was    *)
(* lost.                                                                   *)
Gone == 1 \in DOMAIN made /\ made[1].state = "CANCELLED"
Told == row.cancel = "CANCELLED" \/ (asker.answer = "CANCELLED" /\ asker.at \in {"flip", "flag"})
Agreed ==
  Len(made) <= 1 =>
    /\ row.cancel = "CANCELLED" \/ asker.answer = "CANCELLED" \/ job.at = "done" => Gone
    /\ Gone /\ row.status # "CANCELLED" => lost \/ Told

FInv == Answered /\ Remembered /\ Agreed

(* Which steps move the request that cancels, and which the job.           *)
AskerSteps ==
  \/ PrecheckCancel \/ PrecheckSearch \/ PrecheckCancelThere \/ Flip \/ AfterLocalCancel \/ QueueCancel \/ FlagDivergence
  \/ MarkReversalDone \/ ResyncReversal \/ AskerDies
JobSteps == StartCancelJob \/ CancelJobFails \/ JobSearch \/ JobSettlesAbsent \/ JobCancels \/ JobSettles \/ JobDies

LEMMA WhoMoves ==
  ASSUME Typed, [PushNext]_vars
  PROVE  /\ \/ AskerSteps /\ job' = job
            \/ JobSteps /\ asker' = asker
            \/ UNCHANGED << asker, job >>
         /\ lost => lost'
         /\ cut => cut'
<1>0. lost \in BOOLEAN /\ cut \in BOOLEAN
  BY DEF Typed
<1>1. CASE UNCHANGED vars
  BY <1>0, <1>1 DEF vars
<1>2. CASE AskerSteps
  <2>1. CASE PrecheckCancelThere \/ AskerDies
    BY <1>0, <1>2, <2>1 DEF PrecheckCancelThere, AskerDies, AskerGoes
  <2>2. CASE ~ (PrecheckCancelThere \/ AskerDies)
    BY <1>0, <1>2, <2>2 DEF AskerSteps, PrecheckCancel, PrecheckSearch, Flip, AfterLocalCancel, QueueCancel, FlagDivergence,
       MarkReversalDone, ResyncReversal, AskerGoes, CancelRow
  <2>3. QED
    BY <1>2, <2>1, <2>2
<1>3. CASE JobSteps
  BY <1>0, <1>3 DEF JobSteps, StartCancelJob, CancelJobFails, JobSearch, JobSettlesAbsent, JobCancels, JobSettles, JobDies, JobGoes, JobWrites
<1>4. CASE \E r \in Runs : RunStep(r)
  BY <1>0, <1>4, RequestsStay
<1>5. CASE OtherStep /\ ~ AskerSteps /\ ~ JobSteps
  BY <1>0, <1>5 DEF OtherStep, AskerSteps, JobSteps, Kept, MarkOverdue, StampBatch, RetryPushByAdmin, Pay, Ship, Leave, LateEffect,
     LeaseEnds, Index, WindowEnds
<1>6. QED
  BY <1>1, <1>2, <1>3, <1>4, <1>5 DEF PushNext, OtherStep, AskerSteps, JobSteps

(* Where a request is, after a step of its own: it goes on to "flip", to    *)
(* "flag", to "after", to "queue", or it is over; only Pancake's answer     *)
(* makes it say that the order is cancelled there.                         *)
LEMMA AskerGoesOn ==
  ASSUME Typed, AskerSteps
  PROVE  \/ asker'.at \in {"idle", "search", "cancel"} /\ asker'.answer \in {"NONE", asker.answer}
              /\ (asker.at \in {"idle", "search"} \/ asker' = NoAsker)
         \/ asker'.at = "flip" /\ asker'.answer \in {"NONE", "NOT_FOUND", "DEFERRED"} /\ asker.at \in {"idle", "search", "cancel"}
         \/ PrecheckCancelThere /\ asker'.at = "flip" /\ asker'.answer = "CANCELLED" /\ asker'.id = asker.id
         \/ asker'.at \in {"after", "queue", "flag"} /\ asker'.answer = asker.answer /\ asker'.id = asker.id
         \/ asker'.at \in {"queue", "mark"} /\ asker'.answer = "NONE"
<1>0. asker \in AskerSet
  BY DEF Typed
<1>1. CASE PrecheckCancel
  <2>1. asker'.at \in {"cancel", "search", "flip"} /\ asker'.answer = "NONE" /\ asker.at = "idle"
    BY <1>1 DEF PrecheckCancel, AskerGoes, NoAsker
  <2>2. QED
    BY <2>1
<1>2. ASSUME NEW answer \in {"CANCELLED", "NOT_FOUND", "DEFERRED"}, asker' = [asker EXCEPT !.at = "flip", !.answer = answer]
      PROVE  asker'.at = "flip" /\ asker'.answer = answer /\ asker'.id = asker.id
  BY <1>0, <1>2 DEF AskerSet
<1>3. asker' = NoAsker => asker'.at = "idle" /\ asker'.answer = "NONE"
  BY DEF NoAsker
<1>4. CASE PrecheckSearch
  <2>1. \/ asker' = [asker EXCEPT !.at = "flip", !.answer = "NOT_FOUND"]
        \/ asker' = [asker EXCEPT !.at = "cancel", !.id = Oldest(Matches \cap Alive)]
        \/ asker' = [asker EXCEPT !.at = "flip", !.answer = "DEFERRED"]
        \/ asker' = NoAsker
    BY <1>4, Zenon DEF PrecheckSearch, AskerGoes
  <2>2. asker.at = "search"
    BY <1>4 DEF PrecheckSearch
  <2>3. CASE asker' = [asker EXCEPT !.at = "cancel", !.id = Oldest(Matches \cap Alive)]
    <3>1. asker'.at = "cancel" /\ asker'.answer = asker.answer
      BY <1>0, <2>3 DEF AskerSet
    <3>2. QED
      BY <2>2, <3>1
  <2>4. QED
    BY <1>2, <1>3, <2>1, <2>2, <2>3
<1>5. CASE PrecheckCancelThere
  <2>1. asker.at = "cancel"
    BY <1>5 DEF PrecheckCancelThere
  <2>2. asker' = NoAsker \/ \E answer \in {"CANCELLED", "DEFERRED"} : asker' = [asker EXCEPT !.at = "flip", !.answer = answer]
    BY <1>5, Zenon DEF PrecheckCancelThere, AskerGoes
  <2>3. QED
    BY <1>2, <1>3, <1>5, <2>1, <2>2
<1>6. CASE Flip \/ AfterLocalCancel \/ QueueCancel \/ FlagDivergence
  <2>1. asker' = NoAsker \/ asker' = Marking \/ \E at \in {"after", "queue", "flag"} : asker' = [asker EXCEPT !.at = at]
    BY <1>6 DEF Flip, AfterLocalCancel, QueueCancel, FlagDivergence, AskerGoes, CancelRow
  <2>2. ASSUME NEW at \in {"after", "queue", "flag"}, asker' = [asker EXCEPT !.at = at]
        PROVE  asker'.at = at /\ asker'.answer = asker.answer /\ asker'.id = asker.id
    BY <1>0, <2>2 DEF AskerSet
  <2>3. Marking.at = "mark" /\ Marking.answer = "NONE"
    BY DEF Marking, NoAsker
  <2>4. QED
    BY <1>3, <2>1, <2>2, <2>3
<1>8. CASE MarkReversalDone \/ ResyncReversal \/ AskerDies
  <2>1. asker' \in {NoAsker, Marking, [NoAsker EXCEPT !.at = "queue"]}
    BY <1>8 DEF MarkReversalDone, ResyncReversal, AskerDies, AskerGoes
  <2>2. QED
    BY <2>1 DEF NoAsker, Marking
<1>7. QED
  BY <1>1, <1>4, <1>5, <1>6, <1>8 DEF AskerSteps

(* Who writes the answer: the request with Pancake's answer or its queue,   *)
(* the job, and a run that found its order cancelled.                      *)
LEMMA AnswerWritten ==
  ASSUME Typed, AfterCancelling, Answered, [PushNext]_vars
  PROVE  \/ row'.cancel = row.cancel
         \/ row.status = "CANCELLED" /\ row'.cancel \in {"PENDING", "NOT_FOUND", "TOO_LATE"}
         \/ row.status = "CANCELLED" /\ row'.cancel = "CANCELLED" /\ job.at = "done"
         \/ AfterLocalCancel /\ row'.cancel = asker.answer /\ asker.answer \in Settled /\ row.status = "CANCELLED"
         \/ FlagDivergence /\ row'.cancel = asker.answer /\ asker.answer = "CANCELLED"
<1>0. row \in RowSet /\ asker \in AskerSet /\ job \in JobSet
  BY DEF Typed
<1> USE DEF RowSet
<1>1. ASSUME row' = row
      PROVE  row'.cancel = row.cancel
  BY <1>1
<1>2. ASSUME NEW r \in Runs, RunStep(r)
      PROVE  row'.cancel = row.cancel \/ (row.status = "CANCELLED" /\ row'.cancel = "PENDING")
  <2>1. CASE Skip(r)
    <3>1. run[r].marked => row.status = "CANCELLED"
      BY <2>1 DEF Skip, Answered
    <3>2. row'.cancel = IF run[r].marked THEN "PENDING" ELSE row.cancel
      BY <1>0, <2>1 DEF Skip, Row
    <3>3. QED
      BY <3>1, <3>2
  <2>2. CASE AfterSave(r)
    BY <1>0, <2>2 DEF AfterSave, AfterSaveReadAgain, Row
  <2>3. CASE MarkStale(r) \/ PaymentReported(r) \/ ReleaseSettling(r) \/ ClearMark(r) \/ WriteAttemptError(r) \/ MarkPushFailure(r)
    BY <1>0, <2>3 DEF MarkStale, PaymentReported, ReleaseSettling, ClearMark, WriteAttemptError, MarkPushFailure, Row
  <2>4. CASE Claim(r) \/ SaveCreated(r) \/ Mark(r) \/ SendAgain(r)
    BY <1>0, <2>4 DEF Claim, SaveCreated, Mark, SendAgain, Stamp, Row, Unread
  <2>5. CASE StartPush(r) \/ ReadMark(r) \/ Lookup(r) \/ Accept(r) \/ Refuse(r) \/ NoAnswer(r) \/ ReportPayment(r) \/ Crash(r)
    BY <1>1, <2>5 DEF StartPush, ReadMark, Lookup, Accept, Refuse, NoAnswer, ReportPayment, Crash, Unread
  <2>6. QED
    BY <1>2, <2>1, <2>2, <2>3, <2>4, <2>5 DEF RunStep
<1>3. CASE OtherStep
  <2>1. CASE MarkOverdue \/ RetryPushByAdmin \/ Pay \/ Leave \/ Flip \/ MarkReversalDone
    BY <1>0, <2>1 DEF MarkOverdue, RetryPushByAdmin, Pay, Leave, Flip, MarkReversalDone, CancelRow, AskerGoes, Row
  <2>2. CASE AfterLocalCancel
    BY <1>0, <2>2 DEF AfterLocalCancel, AfterCancelling, AnswerIsKept, Confirmed, Recorded, CancelRow, AskerGoes, Row
  <2>3. CASE FlagDivergence
    BY <1>0, <2>3 DEF FlagDivergence, AfterCancelling, Recorded, CancelRow, AskerGoes, Row
  <2>4. CASE QueueCancel
    BY <1>0, <2>4 DEF QueueCancel, AfterCancelling, CancelRow, AskerGoes, Row
  <2>5. CASE CancelJobFails \/ JobSearch \/ JobSettlesAbsent \/ JobSettles
    BY <1>0, <2>5 DEF CancelJobFails, JobSearch, JobSettlesAbsent, JobSettles, AfterCancelling, JobGoes, JobWrites, Row
  <2>6. CASE row' = row
    BY <1>1, <2>6
  <2>7. QED
    BY <1>3, <2>1, <2>2, <2>3, <2>4, <2>5, <2>6 DEF OtherStep, PrecheckCancel, PrecheckSearch, PrecheckCancelThere, Ship, StampBatch, Unread,
       AskerGoes, StartCancelJob, JobCancels, LateEffect, LeaseEnds, Index, WindowEnds, ResyncReversal, AskerDies, JobDies, JobGoes
<1>4. QED
  BY <1>1, <1>2, <1>3 DEF PushNext, vars

(* A run comes to a gate's status only from its read of the order.         *)
LEMMA GateStep ==
  ASSUME Typed, [PushNext]_vars, NEW q \in Runs, run'[q].at \in {"skip", "wait"}
  PROVE  \/ run'[q].at = run[q].at /\ run'[q].marked = run[q].marked
         \/ /\ run'[q].at = "skip" => row.status = "CANCELLED"
            /\ run'[q].at = "wait" => ~ run'[q].marked
<1>0. run \in [Runs -> RunSet] /\ run[q] \in RunSet
  BY DEF Typed
<1>1. CASE Stays(q)
  BY <1>0, <1>1 DEF Stays, Overtaken, RunSet
<1>2. CASE RunStep(q)
  <2>1. CASE StartPush(q)
    <3> DEFINE next == [Idle EXCEPT !.at = Gate, !.paid = Gate = "claim" /\ row.paid, !.marked = Gate = "skip" /\ row.sent]
    <3>1. run'[q] = next
      BY <1>0, <2>1 DEF StartPush
    <3>2. next.at = Gate /\ next.marked = (Gate = "skip" /\ row.sent)
      BY DEF Idle
    <3> HIDE DEF next
    <3>3. QED
      BY <3>1, <3>2 DEF Gate
  <2>2. CASE Claim(q)
    <3> DEFINE next == [run[q] EXCEPT !.at = "prior", !.holds = TRUE]
    <3>1. next.at = "prior"
      BY <1>0 DEF RunSet
    <3>2. run' = TakenBy(q, next) \/ Stop(q)
      BY <2>2 DEF Claim
    <3> HIDE DEF next
    <3>3. run'[q] = next \/ run'[q] = Idle
      BY <1>0, <3>2 DEF TakenBy, Stop
    <3>4. QED
      BY <3>1, <3>3 DEF Idle
  <2>3. CASE Mark(q) \/ SendAgain(q)
    BY <1>0, <2>3 DEF Mark, SendAgain, Stamp, TakenBy, Goto, Ends, Idle, RunSet
  <2>4. CASE ReadMark(q) \/ Refuse(q) \/ NoAnswer(q) \/ ClearMark(q)
    BY <1>0, <2>4 DEF ReadMark, Refuse, NoAnswer, ClearMark, Goto, RunSet
  <2>5. CASE Lookup(q) \/ Accept(q)
    <3>1. \A id, paid : Saving(id, paid).at = "save"
      BY DEF Saving, Idle
    <3>2. CASE Goto(q, "post") \/ Goto(q, "error")
      BY <1>0, <3>2 DEF Goto, RunSet
    <3>3. CASE \E id, paid : run' = [run EXCEPT ![q] = Saving(id, paid)]
      BY <1>0, <3>1, <3>3
    <3>4. QED
      BY <2>5, <3>2, <3>3 DEF Lookup, Accept
  <2>6. CASE Skip(q) \/ MarkStale(q) \/ ReleaseSettling(q) \/ WriteAttemptError(q) \/ MarkPushFailure(q)
    BY <1>0, <2>6 DEF Skip, MarkStale, ReleaseSettling, WriteAttemptError, MarkPushFailure, Stop, Ends, Idle
  <2>7. CASE SaveCreated(q) \/ AfterSave(q) \/ ReportPayment(q) \/ PaymentReported(q) \/ Crash(q)
    BY <1>0, <2>7 DEF SaveCreated, AfterSave, AfterSaveReadAgain, ReportPayment, PaymentReported, Crash, Stop, Idle, RunSet
  <2>8. QED
    BY <1>2, <2>1, <2>2, <2>3, <2>4, <2>5, <2>6, <2>7 DEF RunStep
<1>3. QED
  BY <1>1, <1>2, OthersStay DEF PushNext

(* An order at Pancake is cancelled there by the two calls that ask for it  *)
(* only, and stays cancelled.                                              *)
LEMMA GoneStep ==
  ASSUME Typed, IdsKnown, [PushNext]_vars
  PROVE  /\ Gone => Gone'
         /\ Gone' /\ ~ Gone => \/ PrecheckCancelThere /\ made' = Cancelled(asker.id)
                               \/ JobCancels
<1>0. DOMAIN made = 1 .. Len(made) /\ Len(made) \in Nat /\ \A i \in DOMAIN made : made[i] \in MadeSet
  BY ElementOfSeq, LenProperties DEF Typed
<1>1. ASSUME made' = made
      PROVE  Gone' <=> Gone
  BY <1>1 DEF Gone
<1>2. ASSUME NEW paid \in BOOLEAN, Make(paid)
      PROVE  Gone' <=> Gone
  <2>1. /\ made' \in Seq(MadeSet) /\ Len(made') = Len(made) + 1
        /\ made'[Len(made) + 1] = [paid |-> paid, state |-> "NEW", found |-> FALSE]
        /\ \A i \in DOMAIN made : made'[i] = made[i]
    BY <1>2, MakeTyped
  <2>2. DOMAIN made' = 1 .. Len(made) + 1
    BY <2>1, LenProperties
  <2>3. made'[Len(made) + 1].state = "NEW"
    BY <2>1
  <2>4. 1 \in DOMAIN made \/ Len(made) = 0
    BY <1>0
  <2>5. QED
    BY <1>0, <2>1, <2>2, <2>3, <2>4 DEF Gone
<1>3. ASSUME NEW i \in DOMAIN made, NEW order, made' = [made EXCEPT ![i] = order],
             order.state = "CANCELLED" <=> made[i].state = "CANCELLED"
      PROVE  Gone' <=> Gone
  <2>1. DOMAIN made' = DOMAIN made /\ \A j \in DOMAIN made : made'[j] = IF j = i THEN order ELSE made[j]
    BY <1>3
  <2>2. QED
    BY <1>3, <2>1 DEF Gone
<1>4. ASSUME NEW i \in DOMAIN made, made' = Cancelled(i)
      PROVE  Gone => Gone'
  <2> DEFINE order == [made[i] EXCEPT !.state = IF @ = "SHIPPED" THEN @ ELSE "CANCELLED"]
  <2>1. made[i].state = "CANCELLED" => order.state = "CANCELLED"
    BY <1>0 DEF MadeSet
  <2>2. made' = [made EXCEPT ![i] = order]
    BY <1>4 DEF Cancelled
  <2> HIDE DEF order
  <2>3. DOMAIN made' = DOMAIN made /\ \A j \in DOMAIN made : made'[j] = IF j = i THEN order ELSE made[j]
    BY <2>2
  <2>4. QED
    BY <2>1, <2>3 DEF Gone
<1>5. ASSUME NEW r \in Runs, RunStep(r)
      PROVE  Gone' <=> Gone
  <2>1. CASE Accept(r)
    BY <1>2, <2>1 DEF Accept, Typed, RunSet
  <2>2. CASE ReportPayment(r)
    <3> DEFINE order == [made[row.id] EXCEPT !.paid = TRUE]
    <3>1. row.id \in DOMAIN made
      BY <2>2 DEF ReportPayment, IdsKnown, Known
    <3>2. made' = [made EXCEPT ![row.id] = order]
      BY <2>2 DEF ReportPayment
    <3>3. order.state = made[row.id].state
      BY <1>0, <3>1 DEF MadeSet
    <3> HIDE DEF order
    <3>4. QED
      BY <1>3, <3>1, <3>2, <3>3
  <2>3. CASE made' = made
    BY <1>1, <2>3
  <2>4. QED
    BY <1>5, <2>1, <2>2, <2>3 DEF RunStep, Kept, StartPush, Skip, MarkStale, Claim, ReadMark, Mark, ReleaseSettling, Lookup, Refuse,
       NoAnswer, SendAgain, ClearMark, WriteAttemptError, MarkPushFailure, SaveCreated, AfterSave, AfterSaveReadAgain, PaymentReported, Crash
<1>6. ASSUME OtherStep, ~ PrecheckCancelThere, ~ JobCancels
      PROVE  Gone' <=> Gone
  <2>1. CASE LateEffect
    BY <1>1, <1>2, <2>1 DEF LateEffect
  <2>2. CASE Ship
    <3>1. PICK i \in Alive : made[i].state = "NEW" /\ made' = [made EXCEPT ![i].state = "SHIPPED"]
      BY <2>2 DEF Ship
    <3> DEFINE order == [made[i] EXCEPT !.state = "SHIPPED"]
    <3>2. i \in DOMAIN made /\ order.state = "SHIPPED" /\ made' = [made EXCEPT ![i] = order]
      BY <1>0, <3>1 DEF Alive, MadeSet
    <3> HIDE DEF order
    <3>3. QED
      BY <1>3, <3>1, <3>2
  <2>3. CASE Index
    <3>1. PICK i \in DOMAIN made : made' = [made EXCEPT ![i].found = TRUE]
      BY <2>3 DEF Index
    <3> DEFINE order == [made[i] EXCEPT !.found = TRUE]
    <3>2. order.state = made[i].state /\ made' = [made EXCEPT ![i] = order]
      BY <1>0, <3>1 DEF MadeSet
    <3> HIDE DEF order
    <3>3. QED
      BY <1>3, <3>2
  <2>4. CASE made' = made
    BY <1>1, <2>4
  <2>5. QED
    BY <1>6, <2>1, <2>2, <2>3, <2>4 DEF OtherStep, Kept, MarkOverdue, StampBatch, RetryPushByAdmin, Pay, Leave, PrecheckCancel, PrecheckSearch,
       Flip, AfterLocalCancel, QueueCancel, FlagDivergence, CancelRow, AskerGoes, StartCancelJob, CancelJobFails, JobSearch, JobSettlesAbsent,
       JobSettles, JobGoes, JobWrites, LeaseEnds, WindowEnds, MarkReversalDone, ResyncReversal, AskerDies, JobDies
<1>7. CASE PrecheckCancelThere
  <2>1. asker.id \in DOMAIN made
    BY <1>7 DEF PrecheckCancelThere, IdsKnown, Known
  <2>2. made' = made \/ made' = Cancelled(asker.id)
    BY <1>7 DEF PrecheckCancelThere, AskerGoes
  <2>3. QED
    BY <1>1, <1>4, <1>7, <2>1, <2>2
<1>8. CASE JobCancels
  <2>1. job.id \in DOMAIN made /\ made' = Cancelled(job.id)
    BY <1>8 DEF JobCancels, IdsKnown, Known
  <2>2. QED
    BY <1>4, <1>8, <2>1
<1>9. QED
  BY <1>1, <1>5, <1>6, <1>7, <1>8 DEF PushNext, vars

(* What the call that cancels there leaves, when it is told that it did.    *)
LEMMA CancellingOne ==
  ASSUME Typed, Len(made) <= 1, NEW i \in DOMAIN made, made[i].state # "SHIPPED", made' = Cancelled(i)
  PROVE  Gone'
<1> DEFINE order == [made[i] EXCEPT !.state = IF @ = "SHIPPED" THEN @ ELSE "CANCELLED"]
<1>1. made[i] \in MadeSet /\ i = 1
  BY ElementOfSeq, LenProperties DEF Typed
<1>2. order.state = "CANCELLED"
  BY <1>1 DEF MadeSet
<1>3. made' = [made EXCEPT ![i] = order]
  BY DEF Cancelled
<1> HIDE DEF order
<1>4. QED
  BY <1>1, <1>2, <1>3 DEF Gone

LEMMA AnsweredStep ==
  ASSUME Typed, IdsKnown, AfterCancelling, Answered, [PushNext]_vars
  PROVE  Answered'
<1>0. row \in RowSet /\ asker \in AskerSet /\ job \in JobSet
  BY DEF Typed
<1>1. asker'.answer = "CANCELLED" => asker'.id # None /\ asker'.at \in {"flip", "flag", "after", "queue"}
  <2>1. CASE asker' = asker
    BY <2>1 DEF Answered
  <2>2. CASE AskerSteps
    <3>1. PrecheckCancelThere => asker.id # None
      BY DEF PrecheckCancelThere, IdsKnown
    <3>2. NoAsker.answer # "CANCELLED"
      BY DEF NoAsker
    <3>3. QED
      BY <2>2, <3>1, <3>2, AskerGoesOn DEF Answered
  <2>3. QED
    BY <2>1, <2>2, WhoMoves
<1>2. row.cancel # "NONE" => row'.cancel # "NONE"
  BY AnswerWritten DEF Settled
<1>3. job'.at # "idle" => row'.cancel # "NONE"
  <2>1. CASE job.at # "idle"
    BY <1>2, <2>1 DEF Answered
  <2>2. CASE job' = job
    BY <1>2, <2>2 DEF Answered
  <2>3. CASE JobSteps /\ job.at = "idle"
    <3>1. StartCancelJob \/ job' = NoJob
      BY <2>3 DEF JobSteps, CancelJobFails, JobSearch, JobSettlesAbsent, JobCancels, JobSettles, JobDies, JobGoes, JobWrites
    <3>2. CASE StartCancelJob
      BY <1>2, <3>2 DEF StartCancelJob
    <3>3. CASE job' = NoJob
      BY <3>3 DEF NoJob
    <3>4. QED
      BY <3>1, <3>2, <3>3
  <2>4. QED
    BY <2>1, <2>2, <2>3, WhoMoves
<1>4. job'.at = "done" => job'.id # None
  <2>1. CASE job' = job
    BY <2>1 DEF Answered
  <2>2. CASE JobCancels
    <3>1. job.id # None
      BY <2>2 DEF JobCancels, IdsKnown
    <3>2. job'.id = job.id
      BY <1>0, <2>2 DEF JobCancels, JobSet
    <3>3. QED
      BY <3>1, <3>2
  <2>3. CASE JobSteps /\ ~ JobCancels
    <3>1. job'.at # "done"
      BY <1>0, <2>3 DEF JobSteps, StartCancelJob, CancelJobFails, JobSearch, JobSettlesAbsent, JobSettles, JobDies, JobGoes, JobWrites, NoJob, JobSet
    <3>2. QED
      BY <3>1
  <2>4. QED
    BY <2>1, <2>2, <2>3, WhoMoves
<1>5. ASSUME NEW q \in Runs
      PROVE  /\ run'[q].at = "skip" => row'.status = "CANCELLED"
             /\ run'[q].at = "wait" => ~ run'[q].marked
  <2>1. row.status = "CANCELLED" => row'.status = "CANCELLED"
    BY RowStep DEF RowGoesOn
  <2>2. QED
    BY <2>1, GateStep DEF Answered
<1>6. QED
  BY <1>1, <1>3, <1>4, <1>5 DEF Answered

(* Only the answer of the asking request, and the finding of an order, put  *)
(* an id on the row or cancel the order.                                   *)
LEMMA CancelledByFlip ==
  ASSUME Typed, [PushNext]_vars, row.status # "CANCELLED", row'.status = "CANCELLED"
  PROVE  Flip /\ asker'.at = "after"
<1>0. row \in RowSet /\ asker \in AskerSet
  BY DEF Typed
<1> USE DEF RowSet
<1>1. ASSUME NEW r \in Runs, RunStep(r)
      PROVE  FALSE
  <2>1. CASE Skip(r) \/ MarkStale(r) \/ AfterSave(r) \/ PaymentReported(r) \/ ReleaseSettling(r) \/ ClearMark(r) \/ WriteAttemptError(r)
             \/ MarkPushFailure(r)
    BY <1>0, <2>1 DEF Skip, MarkStale, AfterSave, AfterSaveReadAgain, PaymentReported, ReleaseSettling, ClearMark, WriteAttemptError,
       MarkPushFailure, Row
  <2>2. CASE Claim(r) \/ SaveCreated(r) \/ Mark(r) \/ SendAgain(r)
    BY <1>0, <2>2 DEF Claim, SaveCreated, Mark, SendAgain, Stamp, Row, Unread
  <2>3. CASE row' = row
    BY <2>3
  <2>4. QED
    BY <1>1, <2>1, <2>2, <2>3 DEF RunStep, StartPush, ReadMark, Lookup, Accept, Refuse, NoAnswer, ReportPayment, Crash, Unread
<1>2. CASE OtherStep
  <2>1. CASE Flip
    <3>1. asker' = [asker EXCEPT !.at = "after"]
      BY <2>1 DEF Flip, AskerGoes
    <3>2. QED
      BY <1>0, <2>1, <3>1 DEF AskerSet
  <2>2. CASE MarkOverdue \/ RetryPushByAdmin \/ Pay \/ Leave
    BY <1>0, <2>2 DEF MarkOverdue, RetryPushByAdmin, Pay, Leave, Row
  <2>3. CASE AfterLocalCancel \/ QueueCancel \/ FlagDivergence \/ MarkReversalDone
    BY <1>0, <2>3 DEF AfterLocalCancel, QueueCancel, FlagDivergence, MarkReversalDone, Recorded, CancelRow, AskerGoes, Row
  <2>4. CASE CancelJobFails \/ JobSearch \/ JobSettlesAbsent \/ JobSettles
    BY <1>0, <2>4 DEF CancelJobFails, JobSearch, JobSettlesAbsent, JobSettles, JobGoes, JobWrites, Row
  <2>5. CASE row' = row
    BY <2>5
  <2>6. QED
    BY <1>2, <2>1, <2>2, <2>3, <2>4, <2>5 DEF OtherStep, PrecheckCancel, PrecheckSearch, PrecheckCancelThere, Ship, StampBatch, Unread,
       AskerGoes, StartCancelJob, JobCancels, LateEffect, LeaseEnds, Index, WindowEnds, ResyncReversal, AskerDies, JobDies, JobGoes
<1>3. QED
  BY <1>1, <1>2 DEF PushNext, vars

LEMMA IdWritten ==
  ASSUME Typed, [PushNext]_vars, row.id = None, row'.id # None
  PROVE  \/ \E r \in Runs : run'[r].at = "after"
         \/ AfterLocalCancel /\ row'.cancel = asker.answer /\ asker.answer \in Settled
         \/ FlagDivergence /\ row'.cancel = asker.answer
         \/ JobSearch
<1>0. row \in RowSet /\ run \in [Runs -> RunSet]
  BY DEF Typed
<1> USE DEF RowSet
<1>1. ASSUME NEW r \in Runs, RunStep(r)
      PROVE  run'[r].at = "after"
  <2>1. CASE Skip(r) \/ MarkStale(r) \/ AfterSave(r) \/ PaymentReported(r) \/ ReleaseSettling(r) \/ ClearMark(r) \/ WriteAttemptError(r)
             \/ MarkPushFailure(r)
    BY <1>0, <2>1 DEF Skip, MarkStale, AfterSave, AfterSaveReadAgain, PaymentReported, ReleaseSettling, ClearMark, WriteAttemptError,
       MarkPushFailure, Row
  <2>2. CASE Claim(r) \/ Mark(r) \/ SendAgain(r)
    BY <1>0, <2>2 DEF Claim, Mark, SendAgain, Stamp, Unread
  <2>3. CASE SaveCreated(r)
    <3>1. run' = [run EXCEPT ![r] = [Idle EXCEPT !.at = "after"]]
      BY <2>3 DEF SaveCreated
    <3>2. QED
      BY <1>0, <3>1 DEF Idle
  <2>4. CASE row' = row
    BY <2>4
  <2>5. QED
    BY <1>1, <2>1, <2>2, <2>3, <2>4 DEF RunStep, StartPush, ReadMark, Lookup, Accept, Refuse, NoAnswer, ReportPayment, Crash, Unread
<1>2. CASE OtherStep
  <2>1. CASE MarkOverdue \/ RetryPushByAdmin \/ Pay \/ Leave \/ Flip \/ QueueCancel \/ MarkReversalDone
    BY <1>0, <2>1 DEF MarkOverdue, RetryPushByAdmin, Pay, Leave, Flip, QueueCancel, MarkReversalDone, CancelRow, AskerGoes, Row
  <2>2. CASE AfterLocalCancel \/ FlagDivergence
    BY <1>0, <2>2 DEF AfterLocalCancel, FlagDivergence, AnswerIsKept, Confirmed, Recorded, CancelRow, AskerGoes, Row
  <2>3. CASE JobSearch
    BY <2>3
  <2>4. CASE CancelJobFails \/ JobSettlesAbsent \/ JobSettles
    BY <1>0, <2>4 DEF CancelJobFails, JobSettlesAbsent, JobSettles, JobGoes, JobWrites, Row
  <2>5. CASE row' = row
    BY <2>5
  <2>6. QED
    BY <1>2, <2>1, <2>2, <2>3, <2>4, <2>5 DEF OtherStep, PrecheckCancel, PrecheckSearch, PrecheckCancelThere, Ship, StampBatch, Unread,
       AskerGoes, StartCancelJob, JobCancels, LateEffect, LeaseEnds, Index, WindowEnds, ResyncReversal, AskerDies, JobDies, JobGoes
<1>3. QED
  BY <1>1, <1>2 DEF PushNext, vars

(* A run between its save and what follows stays there until it has read    *)
(* the order again, and a cancelled order is then due at Pancake; or it     *)
(* dies, which is kept in mind.                                            *)
LEMMA AfterStays ==
  ASSUME Typed, [PushNext]_vars, NEW q \in Runs, run[q].at = "after"
  PROVE  run'[q].at = "after" \/ (row.status = "CANCELLED" => row'.cancel = "PENDING" \/ cut')
<1>0. row \in RowSet /\ run \in [Runs -> RunSet]
  BY DEF Typed
<1>1. CASE Stays(q)
  BY <1>0, <1>1 DEF Stays, Overtaken, RunSet
<1>2. CASE RunStep(q)
  <2>1. AfterSave(q) \/ Crash(q)
    BY <1>2 DEF RunStep, StartPush, Skip, MarkStale, Claim, ReadMark, Mark, ReleaseSettling, Lookup, Accept, Refuse, NoAnswer, SendAgain,
       ClearMark, WriteAttemptError, MarkPushFailure, SaveCreated, ReportPayment, PaymentReported, Idle
  <2>2. CASE Crash(q)
    BY <2>2 DEF Crash
  <2>3. QED
    BY <1>0, <2>1, <2>2 DEF AfterSave, AfterSaveReadAgain, Row, RowSet
<1>3. QED
  BY <1>1, <1>2, OthersStay DEF PushNext

(* What follows a cancellation is said to be done by the request only.      *)
LEMMA DoneByRequest ==
  ASSUME Typed, [PushNext]_vars, row'.done # row.done
  PROVE  asker.at = "mark"
<1>0. row \in RowSet
  BY DEF Typed
<1> USE DEF RowSet
<1>1. ASSUME NEW r \in Runs, RunStep(r)
      PROVE  FALSE
  <2>1. CASE Skip(r) \/ MarkStale(r) \/ AfterSave(r) \/ PaymentReported(r) \/ ReleaseSettling(r) \/ ClearMark(r) \/ WriteAttemptError(r)
             \/ MarkPushFailure(r)
    BY <1>0, <2>1 DEF Skip, MarkStale, AfterSave, AfterSaveReadAgain, PaymentReported, ReleaseSettling, ClearMark, WriteAttemptError,
       MarkPushFailure, Row
  <2>2. CASE Claim(r) \/ SaveCreated(r) \/ Mark(r) \/ SendAgain(r)
    BY <1>0, <2>2 DEF Claim, SaveCreated, Mark, SendAgain, Stamp, Row, Unread
  <2>3. CASE row' = row
    BY <2>3
  <2>4. QED
    BY <1>1, <2>1, <2>2, <2>3 DEF RunStep, StartPush, ReadMark, Lookup, Accept, Refuse, NoAnswer, ReportPayment, Crash, Unread
<1>2. CASE OtherStep
  <2>1. CASE MarkReversalDone
    BY <2>1 DEF MarkReversalDone
  <2>2. CASE MarkOverdue \/ RetryPushByAdmin \/ Pay \/ Leave
    BY <1>0, <2>2 DEF MarkOverdue, RetryPushByAdmin, Pay, Leave, Row
  <2>3. CASE Flip \/ AfterLocalCancel \/ QueueCancel \/ FlagDivergence
    BY <1>0, <2>3 DEF Flip, AfterLocalCancel, QueueCancel, FlagDivergence, Recorded, CancelRow, AskerGoes, Row
  <2>4. CASE CancelJobFails \/ JobSearch \/ JobSettlesAbsent \/ JobSettles
    BY <1>0, <2>4 DEF CancelJobFails, JobSearch, JobSettlesAbsent, JobSettles, JobGoes, JobWrites, Row
  <2>5. CASE row' = row
    BY <2>5
  <2>6. QED
    BY <1>2, <2>1, <2>2, <2>3, <2>4, <2>5 DEF OtherStep, PrecheckCancel, PrecheckSearch, PrecheckCancelThere, Ship, StampBatch, Unread,
       AskerGoes, StartCancelJob, JobCancels, LateEffect, LeaseEnds, Index, WindowEnds, ResyncReversal, AskerDies, JobDies, JobGoes
<1>3. QED
  BY <1>1, <1>2 DEF PushNext, vars

(* The request is about to say so only when an order at Pancake has an      *)
(* answer, or when the request has been there before.                      *)
LEMMA ComesToMark ==
  ASSUME Typed, [PushNext]_vars, Owed, asker'.at = "mark", asker.at # "mark"
  PROVE  row'.cancel # "NONE"
<1>0. row \in RowSet /\ asker \in AskerSet /\ row.id # None /\ row.cancel = "NONE"
  BY DEF Typed, Owed
<1>1. AskerSteps
  BY WhoMoves
<1>2. CASE AfterLocalCancel
  <2>1. AnswerIsKept(asker.answer) /\ SameOrder
    <3>1. SUFFICES ASSUME ~ (AnswerIsKept(asker.answer) /\ SameOrder)
                   PROVE  FALSE
      OBVIOUS
    <3>2. asker' = [asker EXCEPT !.at = "queue"]
      BY <1>2, <3>1 DEF AfterLocalCancel, AskerGoes
    <3>3. QED
      BY <1>0, <3>2 DEF AskerSet
  <2>2. row' = Recorded
    BY <1>2, <2>1 DEF AfterLocalCancel, CancelRow, Row
  <2>3. QED
    BY <1>0, <2>1, <2>2 DEF Recorded, RowSet, AnswerIsKept, Confirmed, Settled
<1>3. CASE QueueCancel
  <2>1. row' = [row EXCEPT !.cancel = "PENDING"]
    BY <1>0, <1>3 DEF QueueCancel, MayExistOnPancake, CancelRow, Row
  <2>2. QED
    BY <1>0, <2>1 DEF RowSet
<1>4. CASE ResyncReversal
  <2>1. asker' = [NoAsker EXCEPT !.at = "queue"]
    BY <1>0, <1>4 DEF ResyncReversal, AskerGoes
  <2>2. QED
    BY <2>1 DEF NoAsker
<1>5. CASE PrecheckCancel
  BY <1>5 DEF PrecheckCancel, AskerGoes, NoAsker
<1>6. CASE PrecheckSearch \/ PrecheckCancelThere
  <2>1. \/ asker' = NoAsker
        \/ \E answer \in {"NOT_FOUND", "DEFERRED", "CANCELLED"} : asker' = [asker EXCEPT !.at = "flip", !.answer = answer]
        \/ asker' = [asker EXCEPT !.at = "cancel", !.id = Oldest(Matches \cap Alive)]
    BY <1>6, Zenon DEF PrecheckSearch, PrecheckCancelThere, AskerGoes
  <2>2. CASE asker' = NoAsker
    BY <2>2 DEF NoAsker
  <2>3. ASSUME NEW answer \in {"NOT_FOUND", "DEFERRED", "CANCELLED"}, asker' = [asker EXCEPT !.at = "flip", !.answer = answer]
        PROVE  asker'.at = "flip"
    BY <1>0, <2>3 DEF AskerSet
  <2>4. CASE asker' = [asker EXCEPT !.at = "cancel", !.id = Oldest(Matches \cap Alive)]
    BY <1>0, <2>4 DEF AskerSet
  <2>5. QED
    BY <2>1, <2>2, <2>3, <2>4
<1>7. CASE Flip \/ FlagDivergence \/ MarkReversalDone \/ AskerDies
  <2>1. asker' = NoAsker \/ \E at \in {"after", "flag"} : asker' = [asker EXCEPT !.at = at]
    BY <1>7 DEF Flip, FlagDivergence, MarkReversalDone, AskerDies, AskerGoes
  <2>2. QED
    BY <1>0, <2>1 DEF NoAsker, AskerSet
<1>8. QED
  BY <1>1, <1>2, <1>3, <1>4, <1>5, <1>6, <1>7 DEF AskerSteps

LEMMA RememberedStep ==
  ASSUME Typed, AfterCancelling, Answered, Remembered, [PushNext]_vars
  PROVE  Remembered'
<1>0. row \in RowSet /\ asker \in AskerSet
  BY DEF Typed
<1>1. row'.done => row'.status = "CANCELLED"
  BY DoneByRequest, RowStep DEF Remembered, AfterCancelling, RowGoesOn
<1>2. ASSUME Owed'
      PROVE  Watched' \/ (~ row'.done /\ asker'.at # "mark")
  <2>0. row'.status = "CANCELLED" /\ row'.id # None /\ row'.cancel = "NONE"
    BY <1>2 DEF Owed
  <2>1. row.cancel = "NONE" /\ ~ JobSearch
    BY <2>0, AnswerWritten DEF Settled, Answered, JobSearch
  <2>2. CASE row.status # "CANCELLED"
    <3>1. asker'.at = "after" /\ asker.at = "flip"
      BY <2>0, <2>2, CancelledByFlip DEF Flip
    <3>2. ~ row.done
      BY <2>2 DEF Remembered
    <3>3. row'.done = row.done
      BY <3>1, DoneByRequest
    <3>4. QED
      BY <3>1, <3>2, <3>3
  <2>3. CASE row.id = None
    <3>1. FlagDivergence => asker.answer = "CANCELLED"
      BY DEF FlagDivergence, AfterCancelling
    <3>2. QED
      BY <2>0, <2>1, <2>3, <3>1, IdWritten DEF Settled, Watched
  <2>4. CASE row.status = "CANCELLED" /\ row.id # None
    <3>1. Owed
      BY <2>1, <2>4 DEF Owed
    <3>2. CASE cut
      BY <3>2, WhoMoves DEF Watched
    <3>3. ASSUME NEW r \in Runs, run[r].at = "after"
          PROVE  Watched'
      BY <2>0, <2>4, <3>3, AfterStays DEF Watched
    <3>4. CASE ~ row.done /\ asker.at # "mark"
      <4>1. row'.done = row.done
        BY <3>4, DoneByRequest
      <4>2. asker'.at # "mark"
        BY <2>0, <3>1, <3>4, ComesToMark
      <4>3. QED
        BY <3>4, <4>1, <4>2
    <3>5. QED
      BY <3>1, <3>2, <3>3, <3>4 DEF Remembered, Watched
  <2>5. QED
    BY <2>2, <2>3, <2>4
<1>3. QED
  BY <1>1, <1>2 DEF Remembered

LEMMA AgreedStep ==
  ASSUME Typed, IdsKnown, AfterCancelling, Answered, Agreed, [PushNext]_vars
  PROVE  Agreed'
<1> SUFFICES ASSUME Len(made') <= 1
             PROVE  /\ row'.cancel = "CANCELLED" \/ asker'.answer = "CANCELLED" \/ job'.at = "done" => Gone'
                    /\ Gone' /\ row'.status # "CANCELLED" => lost' \/ Told'
  BY DEF Agreed
<1>0. row \in RowSet /\ asker \in AskerSet /\ job \in JobSet /\ DOMAIN made = 1 .. Len(made) /\ Len(made) \in Nat
  BY LenProperties DEF Typed
<1>1. Len(made) <= 1
  <2>1. made' \in Seq(MadeSet) /\ DOMAIN made \subseteq DOMAIN made'
    BY TypesStep, MadeStep DEF MadeGoesOn, Typed
  <2>2. DOMAIN made' = 1 .. Len(made') /\ Len(made') \in Nat /\ Len(made') <= 1
    BY <2>1, LenProperties
  <2>3. Len(made) <= 1
    <3>1. CASE Len(made) = 0
      BY <3>1
    <3>2. CASE Len(made) # 0
      <4>1. Len(made) \in DOMAIN made
        BY <1>0, <3>2
      <4>2. QED
        BY <1>0, <2>1, <2>2, <4>1
    <3>3. QED
      BY <3>1, <3>2
  <2>4. QED
    BY <2>3
<1>2. /\ row.cancel = "CANCELLED" \/ asker.answer = "CANCELLED" \/ job.at = "done" => Gone
      /\ Gone /\ row.status # "CANCELLED" => lost \/ Told
  BY <1>1 DEF Agreed
<1>3. PrecheckCancelThere /\ asker'.answer = "CANCELLED" => Gone'
  <2> SUFFICES ASSUME PrecheckCancelThere, asker'.answer = "CANCELLED"
               PROVE  Gone'
    OBVIOUS
  <2>1. asker.at = "cancel" /\ asker.id \in DOMAIN made
    BY DEF PrecheckCancelThere, IdsKnown, Known
  <2>2. NoAsker.answer # "CANCELLED"
    BY DEF NoAsker
  <2>3. made[asker.id].state # "SHIPPED" /\ made' = Cancelled(asker.id)
    <3>1. asker.answer # "CANCELLED" /\ [asker EXCEPT !.at = "flip", !.answer = "DEFERRED"].answer = "DEFERRED"
      BY <1>0, <2>1 DEF Answered, AskerSet
    <3>2. QED
      BY <2>2, <3>1, Zenon DEF PrecheckCancelThere, AskerGoes
  <2>4. QED
    BY <1>1, <2>1, <2>3, CancellingOne
<1>4. row'.cancel = "CANCELLED" => Gone'
  BY <1>2, AnswerWritten, GoneStep
<1>5. asker'.answer = "CANCELLED" => Gone'
  <2>1. CASE asker' = asker
    BY <1>2, <2>1, GoneStep
  <2>2. CASE AskerSteps
    BY <1>2, <1>3, <2>2, AskerGoesOn, GoneStep
  <2>3. QED
    BY <2>1, <2>2, WhoMoves
<1>6. job'.at = "done" => Gone'
  <2> SUFFICES ASSUME job'.at = "done"
               PROVE  Gone'
    OBVIOUS
  <2>1. CASE job' = job
    BY <1>2, <2>1, GoneStep
  <2>2. CASE JobCancels
    <3>1. job.id \in DOMAIN made /\ made' = Cancelled(job.id)
      BY <2>2 DEF JobCancels, IdsKnown, Known
    <3>2. made[job.id].state # "SHIPPED"
      BY <1>0, <2>2 DEF JobCancels, JobSet
    <3>3. QED
      BY <1>1, <3>1, <3>2, CancellingOne
  <2>3. CASE JobSteps /\ ~ JobCancels
    BY <1>0, <2>3 DEF JobSteps, StartCancelJob, CancelJobFails, JobSearch, JobSettlesAbsent, JobSettles, JobDies, JobGoes, JobWrites, NoJob, JobSet
  <2>4. QED
    BY <2>1, <2>2, <2>3, WhoMoves
<1>7. Gone' /\ row'.status # "CANCELLED" => lost' \/ Told'
  <2> SUFFICES ASSUME Gone', row'.status # "CANCELLED", ~ lost'
               PROVE  Told'
    OBVIOUS
  <2>1. row.status # "CANCELLED" /\ ~ lost
    BY RowStep, WhoMoves DEF RowGoesOn
  <2>2. CASE ~ Gone
    <3>1. ~ JobCancels
      BY <2>1 DEF JobCancels, AfterCancelling
    <3>2. PrecheckCancelThere /\ made' = Cancelled(asker.id)
      BY <2>2, <3>1, GoneStep
    <3>3. made' # made
      BY <2>2 DEF Gone
    <3>4. asker' = [asker EXCEPT !.at = "flip", !.answer = "CANCELLED"]
      BY <3>2, <3>3, Zenon DEF PrecheckCancelThere, AskerGoes
    <3>5. QED
      BY <1>0, <3>4 DEF AskerSet, Told
  <2>3. CASE row.cancel = "CANCELLED"
    BY <2>1, <2>3, AnswerWritten DEF Told
  <2>4. CASE asker.answer = "CANCELLED" /\ asker.at \in {"flip", "flag"}
    <3>1. CASE asker' = asker
      BY <2>4, <3>1 DEF Told
    <3>2. CASE Flip
      <4>1. row'.status = "CANCELLED" \/ asker' = [asker EXCEPT !.at = "flag"]
        BY <1>0, <2>4, <3>2 DEF Flip, CancelRow, AskerGoes, Row, RowSet
      <4>2. QED
        BY <1>0, <2>4, <4>1 DEF AskerSet, Told
    <3>3. CASE FlagDivergence
      <4>1. asker.id = 1 /\ row.id \in {None, 1}
        BY <1>0, <1>1, <2>4 DEF Answered, IdsKnown, Known, None
      <4>2. SameOrder
        BY <4>1 DEF SameOrder, None
      <4>3. row'.cancel = asker.answer
        BY <1>0, <2>1, <3>3, <4>2 DEF FlagDivergence, Recorded, CancelRow, Row, RowSet
      <4>4. QED
        BY <2>4, <4>3 DEF Told
    <3>4. CASE AskerSteps /\ ~ Flip /\ ~ FlagDivergence
      <4>1. AskerDies
        BY <2>4, <3>4 DEF AskerSteps, PrecheckCancel, PrecheckSearch, PrecheckCancelThere, AfterLocalCancel, QueueCancel, MarkReversalDone,
           ResyncReversal, NoAsker
      <4>2. lost' = (lost \/ (asker.at \in {"flip", "flag"} /\ asker.answer = "CANCELLED"))
        BY <4>1 DEF AskerDies
      <4>3. lost'
        BY <2>4, <4>2
      <4>4. QED
        BY <4>3
    <3>5. QED
      BY <3>1, <3>2, <3>3, <3>4, WhoMoves
  <2>5. QED
    BY <1>2, <2>1, <2>2, <2>3, <2>4 DEF Told
<1>8. QED
  BY <1>4, <1>5, <1>6, <1>7

LEMMA FInvHolds == PushSpec => [](IInv /\ FInv)
<1>1. PushInit => FInv
  BY EmptySeq DEF PushInit, FInv, Answered, Remembered, Owed, Agreed, Gone, Idle, NoAsker, NoJob
<1>2. IInv /\ FInv /\ [PushNext]_vars => FInv'
  BY AnsweredStep, RememberedStep, AgreedStep DEF IInv, FInv
<1>3. QED
  BY <1>1, <1>2, IInvInit, IInvStep, PTL DEF PushSpec

-----------------------------------------------------------------------------
(* Every variable has its type (the row's columns, the steps of pushOrder   *)
(* and of the cancelling requests).                                        *)
THEOREM TypeCorrect == PushSpec => []PushTypeOK
<1>1. IInv => PushTypeOK
  BY DEF IInv, Typed, PushTypeOK, RowSet, PastSet, RunSet, RunSteps, MadeSet, AskerSet, JobSet
<1>2. QED
  BY <1>1, IInvHolds, PTL

(* However many runs push an order at once, and whatever answer is lost or  *)
(* late, the warehouse makes at most one order of it while it lives         *)
(* (pushOrder's mark, its window and the look-up after it).                *)
THEOREM OneOrderThere == PushSpec => []OneWarehouseOrder
<1>1. IInv => OneWarehouseOrder
  BY DEF IInv, OneCommand, Sending, OneWarehouseOrder
<1>2. QED
  BY <1>1, IInvHolds, PTL

(* An order marked as reported paid is paid at Pancake (syncPayment, and    *)
(* the amount a create command carries).                                   *)
THEOREM ReportedIsPaid == PushSpec => []PaidThere
<1>1. IInv => PaidThere
  BY DEF IInv, MoneyThere
<1>2. QED
  BY <1>1, IInvHolds, PTL

(* An order given up as too old is pushed again only after a person, or a   *)
(* command already under way, took it up (NOT_STALE_WHERE).                *)
THEOREM GivenUpStaysSo == PushSpec => StaleKept
<1>1. IInv /\ [PushNext]_vars =>
        [row.push = "STALE" /\ row'.push # "STALE" => row'.push = "SYNCED" \/ RetryPushByAdmin]_vars
  BY RowStep DEF IInv, RowGoesOn
<1>2. QED
  BY <1>1, IInvHolds, PTL DEF PushSpec, StaleKept

(* When nothing is under way, a cancelled order that still lives at Pancake *)
(* carries an answer that says so, and an order living here that Pancake    *)
(* cancelled carries that, wherever a run, the request or the job died:     *)
(* unless a run died between its save of a cancelled order and its second   *)
(* read, Pancake's answer was lost or died with the request, or a cancelled *)
(* order got a second order at Pancake (afterLocalCancel, the flag of the   *)
(* divergence, the job, the second read after a save, and the cron that     *)
(* takes up a cancelled order again).                                      *)
THEOREM NothingIsForgotten == PushSpec => []NothingForgotten
<1>1. IInv /\ FInv => NothingForgotten
  <2> SUFFICES ASSUME IInv, FInv, Quiet, Len(made) <= 1, row.id # None
               PROVE  /\ Unanswered => cut
                      /\ row.status # "CANCELLED" /\ row.id \notin Alive => lost \/ row.cancel = "CANCELLED"
    BY DEF NothingForgotten
  <2>1. DOMAIN made = 1 .. Len(made) /\ Len(made) \in Nat /\ row.id \in DOMAIN made
    BY LenProperties DEF IInv, Typed, IdsKnown, Known
  <2>2. row.id = 1 /\ 1 \in DOMAIN made
    BY <2>1
  <2>3. row.id \in Alive <=> ~ Gone
    BY <2>2 DEF Alive, Gone
  <2>4. asker.at = "idle" /\ (\A r \in Runs : run[r].at = "idle") /\ (row.status = "CANCELLED" => row.done)
    BY DEF Quiet, NoAsker, Idle
  <2>5. row.status = "CANCELLED" /\ row.cancel = "NONE" => cut
    BY <2>4 DEF FInv, Remembered, Owed, Watched
  <2>6. /\ row.cancel = "CANCELLED" => Gone
        /\ Gone /\ row.status # "CANCELLED" => lost \/ row.cancel = "CANCELLED"
    BY <2>4 DEF FInv, Agreed, Told
  <2>7. QED
    BY <2>3, <2>5, <2>6 DEF Unanswered
<1>2. QED
  BY <1>1, FInvHolds, PTL
=============================================================================
