----------------------------- MODULE PancakePush -----------------------------
(***************************************************************************)
(* One order on its way to the warehouse system Pancake, and off it again.  *)
(* Several runs may push it at once (a job, its retry, the payment job, a   *)
(* run whose process only stalled); an answer of Pancake may be lost while  *)
(* its order is made.  The order row holds the right to push (PUSHING, for  *)
(* the length of a lease) and the mark of the last create command; a run    *)
(* writes with conditions on what it has read, one statement at a time.     *)
(* The code compares moments for equality with the one a run wrote, and     *)
(* with the length of the lease and of the window in which a command may    *)
(* still take effect: whose moment it is and what is over is all that is    *)
(* kept of them.                                                            *)
(***************************************************************************)
EXTENDS Integers, FiniteSets, Sequences

CONSTANTS Runs,         \* the processes that may push at the same time
          Methods,      \* how the order may be paid: "GATEWAY", "BANK_TRANSFER"
          MaxMade       \* orders made at Pancake (a bound for TLC)

ASSUME PushAssumption ==
  MaxMade \in Nat \ {0} /\ Methods \subseteq {"GATEWAY", "BANK_TRANSFER"}

VARIABLES row,     \* the order's row; sent: it carries the mark of a create command,
                   \* done: all that follows a cancellation is done
          past,    \* whether the lease, and the window of the mark, are over
          run,     \* of each run: where it is, what it has read, and whether the
                   \* moment of the row's last attempt is the one it wrote
          late,    \* create commands no run waits for any more, by what they report as paid
          made,    \* the orders at Pancake, oldest first; an id is a position
          asker,   \* the request that cancels the order
          job,     \* the job that cancels it at Pancake
          lost,    \* whether Pancake's answer to the asking request was lost (history)
          cut      \* whether a run died after it saved a cancelled order (history)
vars == << row, past, run, late, made, asker, job, lost, cut >>

None == 0
Ids == 0 .. MaxMade
(* PENDING: every status no condition tells from it (null, WAITING_PAYMENT, *)
(* FAILED, SKIPPED); of the cancellation's, FAILED is due as PENDING is.    *)
PushStatus == {"PENDING", "PUSHING", "SYNCED", "STALE"}
Settled == {"CANCELLED", "NOT_FOUND", "TOO_LATE"}
CancelStatus == Settled \cup {"NONE", "PENDING"}

Idle == [at |-> "idle", paid |-> FALSE, marked |-> FALSE, holds |-> FALSE, id |-> None]
NoAsker == [at |-> "idle", paid |-> FALSE, id |-> None, answer |-> "NONE"]
NoJob == [at |-> "idle", id |-> None]

PushTypeOK ==
  /\ row \in [status : {"OPEN", "LEFT", "CANCELLED"}, paid : BOOLEAN, method : Methods, id : Ids,
              push : PushStatus, sent : BOOLEAN, synced : BOOLEAN, cancel : CancelStatus, done : BOOLEAN]
  /\ past \in [lease : BOOLEAN, window : BOOLEAN]
  /\ run \in [Runs -> [at : {"idle", "skip", "wait", "left", "claim", "prior", "mark", "release", "lookup",
                             "post", "again", "unmark", "error", "final", "save", "after", "paid"},
                       paid : BOOLEAN, marked : BOOLEAN, holds : BOOLEAN, id : Ids]]
  /\ late \in [BOOLEAN -> Nat]
  /\ made \in Seq([paid : BOOLEAN, state : {"NEW", "SHIPPED", "CANCELLED"}, found : BOOLEAN])
  /\ asker \in [at : {"idle", "search", "cancel", "flip", "after", "queue", "flag", "mark"}, paid : BOOLEAN, id : Ids,
                answer : {"NONE", "CANCELLED", "NOT_FOUND", "DEFERRED"}]
  /\ job \in [at : {"idle", "absent", "search", "missing", "cancel", "done", "late"}, id : Ids]
  /\ lost \in BOOLEAN /\ cut \in BOOLEAN

PushInit ==
  /\ \E m \in Methods :
       row = [status |-> "OPEN", paid |-> FALSE, method |-> m, id |-> None, push |-> "PENDING",
              sent |-> FALSE, synced |-> FALSE, cancel |-> "NONE", done |-> FALSE]
  /\ past = [lease |-> FALSE, window |-> FALSE]
  /\ run = [r \in Runs |-> Idle] /\ late = [paid \in BOOLEAN |-> 0]
  /\ made = << >> /\ asker = NoAsker /\ job = NoJob /\ lost = FALSE /\ cut = FALSE

-----------------------------------------------------------------------------
(* The conditions the statements share.                                    *)

NotStale == row.push # "STALE"
LeaseFree == row.push = "PUSHING" => past.lease
SendWindowOpen == row.sent => past.window
MayExistOnPancake == row.id # None \/ row.sent

(* pancakePushGate of the order as the row has it.                         *)
Gate == CASE row.status = "CANCELLED" -> "skip"
          [] row.status = "LEFT" -> "left"
          [] row.status \notin {"CANCELLED", "LEFT"} /\ ~row.paid /\ row.method = "GATEWAY" -> "wait"
          [] OTHER -> "claim"

Alive == {i \in DOMAIN made : made[i].state # "CANCELLED"}
(* What a search by the order's code returns: orders indexed by now, those *)
(* still alive before the others, the oldest first.                        *)
Matches == {i \in DOMAIN made : made[i].found}
Oldest(candidates) == IF candidates = {} THEN None ELSE CHOOSE i \in candidates : \A j \in candidates : i <= j
FindOnPancake == Oldest(IF Matches \cap Alive # {} THEN Matches \cap Alive ELSE Matches)

Goto(r, at) == run' = [run EXCEPT ![r].at = at]
Stop(r) == run' = [run EXCEPT ![r] = Idle]
(* A statement on the row; the age of a moment that is gone does not matter. *)
Aged(change) == [lease |-> past.lease /\ change.push = "PUSHING", window |-> past.window /\ change.sent]
Row(change) == row' = change /\ past' = Aged(change)
Unread == UNCHANGED << row, past >>
Kept == UNCHANGED << late, made, asker, job, lost, cut >>

(* A write of the last attempt's moment, by run r or by nobody's: the runs  *)
(* that compare it with their own find another one.                        *)
Overtaken(q) == [run[q] EXCEPT !.holds = FALSE]
TakenBy(r, next) == [q \in Runs |-> IF q = r THEN next ELSE Overtaken(q)]

-----------------------------------------------------------------------------
(* pushOrder, from the read of the order to the claim.                     *)

StartPush(r) ==
  /\ run[r] = Idle /\ row.id = None
  /\ Gate = "claim" => NotStale
  /\ run' = [run EXCEPT ![r] = [Idle EXCEPT !.at = Gate, !.paid = Gate = "claim" /\ row.paid,
                                             !.marked = Gate = "skip" /\ row.sent]]
  /\ Unread /\ Kept

(* A gate's status is written only if no run holds the right to push; an   *)
(* order cancelled after a create command was sent is cancelled there too. *)
Skip(r) ==
  /\ run[r].at \in {"skip", "wait"}
  /\ Row([row EXCEPT
       !.push = IF row.id = None /\ NotStale /\ LeaseFree THEN "PENDING" ELSE @,
       !.cancel = IF run[r].marked THEN "PENDING" ELSE @])
  /\ Stop(r) /\ Kept

MarkStale(r) ==
  /\ run[r].at = "left"
  /\ Row([row EXCEPT !.push = IF row.id = None THEN "STALE" ELSE @])
  /\ Stop(r) /\ Kept

Claim(r) ==
  /\ run[r].at = "claim"
  /\ IF row.id = None /\ row.status = "OPEN" /\ LeaseFree /\ NotStale
     THEN /\ row' = [row EXCEPT !.push = "PUSHING"]
          /\ past' = [past EXCEPT !.lease = FALSE]
          /\ run' = TakenBy(r, [run[r] EXCEPT !.at = "prior", !.holds = TRUE])
     ELSE Stop(r) /\ Unread
  /\ Kept

-----------------------------------------------------------------------------
(* The mark of a create command, and the command.                          *)

ReadMark(r) ==
  /\ run[r].at = "prior"
  /\ run' = [run EXCEPT ![r].at = "mark", ![r].marked = row.sent]
  /\ Unread /\ Kept

Holds(r) == row.id = None /\ row.push = "PUSHING" /\ run[r].holds
MayMarkOnLease(r) == Holds(r)
MayMark(r) == Holds(r) /\ SendWindowOpen
Stamp(r, next) ==
  /\ row' = [row EXCEPT !.sent = TRUE]
  /\ past' = [lease |-> FALSE, window |-> FALSE]
  /\ run' = TakenBy(r, [run[r] EXCEPT !.at = next])

Mark(r) ==
  /\ run[r].at = "mark"
  /\ IF MayMark(r) THEN Stamp(r, IF run[r].marked THEN "lookup" ELSE "post")
                   ELSE Goto(r, "release") /\ Unread
  /\ Kept

Ends(r) == \E next \in {"idle", "final"} : run' = [run EXCEPT ![r] = [Idle EXCEPT !.at = next]]
ReleaseSettling(r) ==
  /\ run[r].at = "release"
  /\ Row([row EXCEPT !.push = IF Holds(r) THEN "PENDING" ELSE @])
  /\ Ends(r) /\ Kept

(* An older command left its mark: its order is looked for first.  An      *)
(* order that is found was made by another run, perhaps before the money.  *)
AdoptAsUnpaid(r) == FALSE
AdoptAsOwn(r) == run[r].paid
Adopted(r) == AdoptAsUnpaid(r)
Saving(id, paid) == [Idle EXCEPT !.at = "save", !.id = id, !.paid = paid]
Lookup(r) ==
  /\ run[r].at = "lookup"
  /\ \/ FindOnPancake # None /\ run' = [run EXCEPT ![r] = Saving(FindOnPancake, Adopted(r))]
     \/ FindOnPancake = None /\ Goto(r, "post")
     \/ Goto(r, "error")
  /\ Unread /\ Kept

(* Pancake makes the order, and the run gets the answer or does not.       *)
Make(paid) ==
  /\ Len(made) < MaxMade
  /\ made' = Append(made, [paid |-> paid, state |-> "NEW", found |-> FALSE])
Accept(r) ==
  /\ run[r].at = "post" /\ Make(run[r].paid)
  /\ \/ run' = [run EXCEPT ![r] = Saving(Len(made) + 1, @.paid)]
     \/ Goto(r, "error")
  /\ UNCHANGED << row, past, late, asker, job, lost, cut >>
(* It refuses: for the tags, for good, or for now.                         *)
Refuse(r) ==
  /\ run[r].at = "post"
  /\ \E next \in {"again", "error", IF run[r].marked THEN "error" ELSE "unmark"} : Goto(r, next)
  /\ Unread /\ Kept
(* No answer in time: the command may still take effect.                   *)
NoAnswer(r) ==
  /\ run[r].at = "post" /\ Goto(r, "error")
  /\ late' = [late EXCEPT ![run[r].paid] = @ + 1]
  /\ UNCHANGED << row, past, made, asker, job, lost, cut >>
LateEffect ==
  /\ \E paid \in BOOLEAN : /\ late[paid] > 0 /\ late' = [late EXCEPT ![paid] = @ - 1]
                           /\ Make(paid) \/ UNCHANGED made
  /\ UNCHANGED << row, past, run, asker, job, lost, cut >>

(* The command is sent once more without tags, under a mark of its own.    *)
SendAgain(r) ==
  /\ run[r].at = "again"
  /\ IF Holds(r) /\ row.sent THEN Stamp(r, "post") ELSE Ends(r) /\ Unread
  /\ Kept

-----------------------------------------------------------------------------
(* The end of a run.                                                       *)

(* Refused for good: the mark of this run goes.                            *)
ClearMark(r) ==
  /\ run[r].at = "unmark"
  /\ Row([row EXCEPT !.sent = @ /\ ~(row.id = None /\ run[r].holds)])
  /\ Goto(r, "error") /\ Kept

(* A status written after a failure never takes the place of STALE.        *)
KeepingStale(push) == IF NotStale THEN push ELSE row.push
OverStale(push) == push
AfterFailure(push) == KeepingStale(push)

WriteAttemptError(r) ==
  /\ run[r].at = "error"
  /\ Row([row EXCEPT !.push = IF row.id = None /\ run[r].holds THEN AfterFailure("PENDING") ELSE @])
  /\ Ends(r) /\ Kept

(* The job has no attempt left.                                            *)
MarkPushFailure(r) ==
  /\ run[r].at = "final"
  /\ Row([row EXCEPT !.push = IF row.id = None /\ LeaseFree THEN AfterFailure("PENDING") ELSE @])
  /\ Stop(r) /\ Kept

SaveCreated(r) ==
  /\ run[r].at = "save"
  /\ IF row.id = None
     THEN /\ Row([row EXCEPT !.id = run[r].id, !.push = "SYNCED", !.sent = FALSE, !.synced = run[r].paid])
          /\ run' = [run EXCEPT ![r] = [Idle EXCEPT !.at = "after"]]
     ELSE Stop(r) /\ Unread
  /\ Kept

(* The order changed while it was made: it is read again.                  *)
AfterSaveReadAgain(r) ==
  /\ run[r].at = "after"
  /\ Row([row EXCEPT !.cancel = IF row.status = "CANCELLED" THEN "PENDING" ELSE @])
  /\ Stop(r) /\ Kept
AfterSaveBlindly(r) == run[r].at = "after" /\ Unread /\ Stop(r) /\ Kept
AfterSave(r) == AfterSaveReadAgain(r)

(* syncPayment of an order that is at Pancake: the money is reported.      *)
ReportPayment(r) ==
  /\ run[r] = Idle /\ row.id # None /\ row.status # "CANCELLED" /\ row.paid /\ ~row.synced
  /\ made' = [made EXCEPT ![row.id].paid = TRUE]
  /\ \E next \in {"idle", "paid"} : run' = [run EXCEPT ![r].at = next]
  /\ UNCHANGED << row, past, late, asker, job, lost, cut >>
PaymentReported(r) ==
  /\ run[r].at = "paid"
  /\ Row([row EXCEPT !.synced = TRUE]) /\ Stop(r) /\ Kept

-----------------------------------------------------------------------------
(* Other writers of the row.                                               *)

(* PancakePushReconcile: an order too old is given up; one it will queue   *)
(* gets the moment of an attempt; a person takes it up again.  Each reads   *)
(* the order before: the status may have changed when it writes.           *)
Payable == row.method = "GATEWAY" => row.paid
MarkOverdue ==
  /\ row.id = None /\ Payable /\ LeaseFree
  /\ Row([row EXCEPT !.push = "STALE"]) /\ UNCHANGED run /\ Kept
StampBatch ==
  /\ row.id = None /\ Payable /\ LeaseFree
  /\ run' = [q \in Runs |-> Overtaken(q)] /\ past' = [past EXCEPT !.lease = FALSE]
  /\ UNCHANGED row /\ Kept
RetryPushByAdmin ==
  /\ row.id = None /\ Payable /\ LeaseFree /\ SendWindowOpen
  /\ Row([row EXCEPT !.push = "PENDING"]) /\ UNCHANGED run /\ Kept

Pay ==
  /\ ~row.paid /\ row.status = "OPEN"
  /\ Row([row EXCEPT !.paid = TRUE]) /\ UNCHANGED run /\ Kept

(* The goods leave: by Pancake (and its webhook), or handed out without it. *)
Ship ==
  /\ \E i \in Alive : made[i].state = "NEW" /\ made' = [made EXCEPT ![i].state = "SHIPPED"]
  /\ UNCHANGED << row, past, run, late, asker, job, lost, cut >>
Leave ==
  /\ row.status = "OPEN"
  /\ row.id # None => made[row.id].state = "SHIPPED"
  /\ Row([row EXCEPT !.status = "LEFT"]) /\ UNCHANGED run /\ Kept

-----------------------------------------------------------------------------
(* Cancelling: Pancake is asked first, then the order is cancelled here,   *)
(* then the answer is written or the job is queued.                        *)

CancelRow(change) == Row(change) /\ UNCHANGED << run, late, made, job, lost, cut >>
AskerGoes(change) == asker' = change /\ UNCHANGED << row, past, run, late, made, job, lost, cut >>

PrecheckCancel ==
  /\ asker = NoAsker /\ row.status = "OPEN"
  /\ AskerGoes([NoAsker EXCEPT !.paid = row.paid, !.id = row.id,
                               !.at = IF row.id # None THEN "cancel" ELSE IF row.sent THEN "search" ELSE "flip"])

(* A look-up by code, or no answer: a person gives up, the cron goes on.   *)
PrecheckSearch ==
  /\ asker.at = "search"
  /\ LET found == Matches \cap Alive IN
     \/ found = {} /\ AskerGoes([asker EXCEPT !.at = "flip", !.answer = "NOT_FOUND"])
     \/ Cardinality(found) = 1 /\ AskerGoes([asker EXCEPT !.at = "cancel", !.id = Oldest(found)])
     \/ AskerGoes([asker EXCEPT !.at = "flip", !.answer = "DEFERRED"])
     \/ AskerGoes(NoAsker)

Cancelled(i) == [made EXCEPT ![i].state = IF @ = "SHIPPED" THEN @ ELSE "CANCELLED"]
PrecheckCancelThere ==
  /\ asker.at = "cancel"
  /\ \/ made[asker.id].state = "SHIPPED" /\ AskerGoes(NoAsker)
     \/ /\ made[asker.id].state # "SHIPPED"
        /\ made' = Cancelled(asker.id) /\ asker' = [asker EXCEPT !.at = "flip", !.answer = "CANCELLED"]
        /\ UNCHANGED << row, past, run, late, job, lost, cut >>
     \/ /\ lost' = TRUE
        /\ made' \in {made, Cancelled(asker.id)}
        /\ asker' \in {NoAsker, [asker EXCEPT !.at = "flip", !.answer = "DEFERRED"]}
        /\ UNCHANGED << row, past, run, late, job, cut >>

(* The order is cancelled unless it moved on or was paid meanwhile.        *)
Flip ==
  /\ asker.at = "flip"
  /\ IF row.status = "OPEN" /\ row.paid = asker.paid
     THEN CancelRow([row EXCEPT !.status = "CANCELLED"]) /\ asker' = [asker EXCEPT !.at = "after"]
     ELSE AskerGoes(IF asker.answer = "CANCELLED" THEN [asker EXCEPT !.at = "flag"] ELSE NoAsker)

SameOrder == row.id = None \/ (asker.id # None /\ row.id = asker.id)
Confirmed(answer) == answer \in Settled
AnyAnswer(answer) == answer # "NONE"
AnswerIsKept(answer) == Confirmed(answer)
Recorded == [row EXCEPT !.cancel = asker.answer, !.id = IF asker.id # None THEN asker.id ELSE @,
                        !.sent = IF asker.id # None THEN FALSE ELSE @]
Marking == [NoAsker EXCEPT !.at = "mark"]
AfterLocalCancel ==
  /\ asker.at = "after"
  /\ IF AnswerIsKept(asker.answer) /\ SameOrder
     THEN CancelRow(Recorded) /\ asker' = Marking
     ELSE AskerGoes([asker EXCEPT !.at = "queue"])
QueueCancel ==
  /\ asker.at = "queue"
  /\ IF MayExistOnPancake THEN CancelRow([row EXCEPT !.cancel = "PENDING"]) /\ asker' = Marking
                          ELSE AskerGoes(Marking)
MarkReversalDone ==
  /\ asker.at = "mark" /\ CancelRow([row EXCEPT !.done = TRUE]) /\ asker' = NoAsker

(* A cancelled order without that mark is taken up again by a cron, once    *)
(* the request has had its time: without its answer.                        *)
ResyncReversal ==
  /\ asker = NoAsker /\ row.status = "CANCELLED" /\ ~row.done
  /\ AskerGoes(IF row.cancel = "NONE" THEN [NoAsker EXCEPT !.at = "queue"] ELSE Marking)

(* Pancake cancelled and the order here did not: that is written and shown. *)
FlagDivergence ==
  /\ asker.at = "flag"
  /\ IF row.status # "CANCELLED" /\ SameOrder
     THEN CancelRow([Recorded EXCEPT !.sent = row.sent]) /\ asker' = NoAsker
     ELSE AskerGoes(NoAsker)

-----------------------------------------------------------------------------
(* cancelOnPancake: the job of an order whose cancellation is due there.   *)

JobGoes(change) == job' = change /\ UNCHANGED << row, past, run, late, made, asker, lost, cut >>
JobWrites(change, next) ==
  Row(change) /\ job' = next /\ UNCHANGED << run, late, made, asker, lost, cut >>

PushInFlight == row.push = "PUSHING" /\ ~past.lease
StartCancelJob ==
  /\ job = NoJob /\ ~PushInFlight /\ row.status = "CANCELLED" /\ row.cancel = "PENDING"
  /\ JobGoes([id |-> row.id, at |-> IF row.id # None THEN "cancel"
                                    ELSE IF ~MayExistOnPancake THEN "absent"
                                    ELSE "search"])

(* The answer of the cancelling call may be lost, and the call made again. *)
(* A failed attempt leaves the cancellation due; the last one writes so.    *)
CancelJobFails ==
  /\ job.at \in {"search", "missing", "cancel"}
  /\ JobGoes(NoJob) \/ JobWrites([row EXCEPT !.cancel = "PENDING"], NoJob)

JobSearch ==
  /\ job.at = "search"
  /\ IF FindOnPancake = None
     THEN JobGoes([job EXCEPT !.at = "missing"])
     ELSE JobWrites([row EXCEPT !.id = IF @ = None THEN FindOnPancake ELSE @], [id |-> FindOnPancake, at |-> "cancel"])
JobSettlesAbsent ==
  \/ job.at = "absent" /\ JobWrites([row EXCEPT !.cancel = "NOT_FOUND"], NoJob)
  \/ /\ job.at = "missing" /\ row.id = None
     /\ JobWrites([row EXCEPT !.cancel = "NOT_FOUND", !.sent = FALSE], NoJob)
JobCancels ==
  /\ job.at = "cancel"
  /\ made' = Cancelled(job.id)
  /\ \E next \in IF made[job.id].state = "SHIPPED" THEN {"late"} ELSE {"done", "cancel"} :
       job' = [job EXCEPT !.at = next]
  /\ UNCHANGED << row, past, run, late, asker, lost, cut >>
JobSettles ==
  \/ job.at = "done" /\ JobWrites([row EXCEPT !.cancel = "CANCELLED"], NoJob)
  \/ job.at = "late" /\ JobWrites([row EXCEPT !.cancel = "TOO_LATE"], NoJob)

-----------------------------------------------------------------------------
(* Time and death.  The window is long enough for a command to be sent, to *)
(* take effect and to be found; the lease may run out at any time.         *)

LeaseEnds ==
  /\ ~past.lease /\ row.push = "PUSHING"
  /\ past' = [past EXCEPT !.lease = TRUE]
  /\ UNCHANGED << row, run, late, made, asker, job, lost, cut >>
CommandPending == late # [paid \in BOOLEAN |-> 0] \/ \E r \in Runs : run[r].at \in {"lookup", "post"}
Index ==
  /\ \E i \in DOMAIN made : ~made[i].found /\ made' = [made EXCEPT ![i].found = TRUE]
  /\ UNCHANGED << row, past, run, late, asker, job, lost, cut >>
WindowEnds ==
  /\ ~past.window /\ row.sent
  /\ ~CommandPending /\ Matches = DOMAIN made
  /\ past' = [past EXCEPT !.window = TRUE]
  /\ UNCHANGED << row, run, late, made, asker, job, lost, cut >>

(* A process dies, at any step: that of a push, of the asking request (what *)
(* Pancake answered dies with it until the order is cancelled here), of the *)
(* job.                                                                     *)
Crash(r) ==
  /\ run[r].at # "idle" /\ Stop(r)
  /\ late' = IF run[r].at = "post" THEN [late EXCEPT ![run[r].paid] = @ + 1] ELSE late
  /\ cut' = (cut \/ (run[r].at = "after" /\ row.status = "CANCELLED"))
  /\ UNCHANGED << row, past, made, asker, job, lost >>
AskerDies ==
  /\ asker.at # "idle" /\ asker' = NoAsker
  /\ lost' = (lost \/ (asker.at \in {"flip", "flag"} /\ asker.answer = "CANCELLED"))
  /\ UNCHANGED << row, past, run, late, made, job, cut >>
JobDies == job.at # "idle" /\ JobGoes(NoJob)

RunStep(r) ==
  \/ StartPush(r) \/ Skip(r) \/ MarkStale(r) \/ Claim(r) \/ ReadMark(r) \/ Mark(r) \/ ReleaseSettling(r)
  \/ Lookup(r) \/ Accept(r) \/ Refuse(r) \/ NoAnswer(r) \/ SendAgain(r)
  \/ ClearMark(r) \/ WriteAttemptError(r) \/ MarkPushFailure(r) \/ SaveCreated(r) \/ AfterSave(r)
  \/ ReportPayment(r) \/ PaymentReported(r) \/ Crash(r)
OtherStep ==
  \/ MarkOverdue \/ StampBatch \/ RetryPushByAdmin \/ Pay \/ Ship \/ Leave
  \/ PrecheckCancel \/ PrecheckSearch \/ PrecheckCancelThere \/ Flip \/ AfterLocalCancel \/ QueueCancel \/ FlagDivergence
  \/ MarkReversalDone \/ ResyncReversal \/ AskerDies \/ JobDies
  \/ StartCancelJob \/ CancelJobFails \/ JobSearch \/ JobSettlesAbsent \/ JobCancels \/ JobSettles
  \/ LateEffect \/ LeaseEnds \/ Index \/ WindowEnds
PushNext == (\E r \in Runs : RunStep(r)) \/ OtherStep
PushSpec == PushInit /\ [][PushNext]_vars

-----------------------------------------------------------------------------
(* Whatever is lost or slow, Pancake makes at most one order of an order   *)
(* that is not cancelled: no second create command is sent while the first *)
(* may still take effect, and after that its order is looked for           *)
(* (pushOrder's mark).                                                     *)
OneWarehouseOrder == row.status # "CANCELLED" => Len(made) <= 1

(* An order given up as too old comes back only by a person, or by a       *)
(* command that was already on its way and made the order (NOT_STALE_WHERE). *)
StaleKept == [][row.push = "STALE" /\ row'.push # "STALE" => row'.push = "SYNCED" \/ RetryPushByAdmin]_vars

(* An order marked as reported paid is paid at Pancake: else the carrier    *)
(* collects the money a second time (pancakePaymentSynced).                *)
PaidThere == row.synced => row.id # None /\ made[row.id].paid

(* When nothing is under way, the two systems agree, or a row says that     *)
(* they do not: an order cancelled here is cancelled at Pancake, or its row *)
(* carries another answer (due, too late, not there: AbsentMeansAbsent has  *)
(* what the last is worth); an order living here but cancelled at Pancake   *)
(* carries that answer.  Deaths may come at any step.  Three exceptions: a  *)
(* run died between its save of a cancelled order and its second read       *)
(* (NoCancelMissed); Pancake's answer was lost, or died with the request    *)
(* before it was written; a cancelled order got a second order at Pancake.  *)
Quiet == /\ run = [r \in Runs |-> Idle] /\ late = [paid \in BOOLEAN |-> 0]
         /\ asker = NoAsker /\ job = NoJob /\ (row.status = "CANCELLED" => row.done)
Unanswered == row.status = "CANCELLED" /\ row.id \in Alive /\ row.cancel \in {"NONE", "CANCELLED"}
NothingForgotten ==
  Quiet /\ Len(made) <= 1 /\ row.id # None =>
    /\ Unanswered => cut
    /\ row.status # "CANCELLED" /\ row.id \notin Alive => lost \/ row.cancel = "CANCELLED"

(* An order that was cancelled while it was being made is cancelled at      *)
(* Pancake too, or its cancellation is due there: so says the comment of    *)
(* saveCreated (pancake-order.service.ts:985), and no death is excepted.     *)
NoCancelMissed == Quiet /\ row.id # None => ~Unanswered

(* An order whose cancellation was closed as "not at Pancake", with no mark *)
(* left for a later push to ask again, is not alive there (findOnPancake:   *)
(* else the warehouse sends a cancelled order).                            *)
AbsentMeansAbsent == Quiet /\ row.cancel = "NOT_FOUND" /\ ~row.sent => Alive = {}
=============================================================================
