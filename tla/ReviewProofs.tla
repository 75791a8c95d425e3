---------------------------- MODULE ReviewProofs ----------------------------
(***************************************************************************)
(* Proofs about ReviewWatchdog, for any budget, any number of heads and    *)
(* any number of disturbances: feedback is not repeated without one, a     *)
(* review is given up only after its budget was spent on this head, and    *)
(* the attempts at a head are bounded.                                     *)
(***************************************************************************)
EXTENDS ReviewWatchdog, TLAPS

\* What the runner's record can be.
RecordSound ==
  /\ rec.target \in {head, NoHead}
  /\ rec.run <= runs
  /\ rec.status = "none" => rec.target = NoHead /\ rec.run = 0
  /\ rec.status \in {"running", "failed", "done"} => rec.run > 0
  /\ rec.verdict # "unknown" => rec.status = "done"

\* A run of the current head, or one asked for, is an attempt at it.
RunsCounted ==
  /\ rec.run > 0 => tried[head] > 0
  /\ queued <= head
  /\ queued = head => tried[head] > 0

\* Attempts are counted under a head's key only while it is the current head, and no more of
\* them than were made.  A node that is about to trigger has counted one more.
Counted(x, coming) ==
  /\ x.key \in Heads => x.key <= head
  /\ x.key = head => x.attempts <= tried[head] + coming
AttemptsCounted ==
  /\ Counted(ckpt, 0)
  /\ Counted(mem, IF phase \in {"cancel", "trigger"} THEN 1 ELSE 0)

\* Giving up is the result of a poll that found the budget spent.
StallCounted ==
  /\ ckpt.status = "review_stalled" => ckpt.attempts >= MaxAttempts
  /\ mem.status # "review_stalled"

BudgetInv == RecordSound /\ RunsCounted /\ AttemptsCounted /\ StallCounted

\* The state x says that the feedback of the runner's latest run was sent.
SaysSent(x) == x.sent /\ x.target = rec.target /\ x.run = rec.run

\* Feedback that was delivered is on record, or there was a disturbance to blame.
Excused == repeats < disturbed
DeliveryKnown ==
  rec.run \in delivered =>
    /\ rec.verdict = "changes_requested"
    /\ phase \notin {"cancel", "trigger"}
    /\ Excused \/ SaysSent(IF phase = "save" THEN mem ELSE ckpt)

\* What return_review_feedback knows between its steps.
SendingSound ==
  /\ phase = "feedback" => ~ckpt.sent
  /\ phase = "send" =>
       /\ read.run \in 1 .. runs
       /\ read.run \in delivered => Excused
       /\ rec.run = read.run =>
            rec.target = read.target /\ rec.verdict = "changes_requested"
       /\ rec.run # read.run => rec.run \notin delivered

FeedbackInv == FeedbackOnce /\ DeliveryKnown /\ SendingSound

IInv == TypeOK /\ BudgetInv /\ FeedbackInv

----------------------------------------------------------------------------
(* Types.                                                                  *)

\* The initial state has its types.
LEMMA TypeInit == Init => TypeOK
  <1> SUFFICES ASSUME Init PROVE TypeOK
    OBVIOUS
  <1>1. prOpen \in BOOLEAN
    BY Zenon DEF Init
  <1>2. Fresh \in Checkpoint /\ NoRecord \in Record
    BY BoundsNatural
       DEF Fresh, Checkpoint, NoRecord, Record, Keys, UnknownKey, NoKey, NoRun, NoHead,
           HeadOrNone, Ages
  <1>3. /\ head \in Heads /\ queued \in HeadOrNone /\ worker \in Nat \ {0} /\ runs \in Nat
        /\ tried \in [Heads -> Nat] /\ delivered \subseteq 1 .. runs /\ repeats \in Nat
        /\ disturbed \in 0 .. MaxDisturbed /\ phase \in Phases
    BY BoundsNatural DEF Init, Heads, HeadOrNone, Phases
  <1> QED
    BY <1>1, <1>2, <1>3 DEF Init, TypeOK

\* Saving or keeping a well-typed update keeps the types.
LEMMA TypeUpdate ==
  ASSUME TypeOK, NEW u \in Checkpoint, NEW p \in Phases, Update(u, p) \/ Call(u, p)
  PROVE  TypeOK'
  BY DEF TypeOK, Update, Call, runner, feedback

\* A poll without a record keeps the types.
LEMMA TypeMissing ==
  ASSUME TypeOK,
         \/ InitialReview \/ NothingToReview \/ AwaitRecord \/ RestartMissing \/ GiveUpMissing
  PROVE  TypeOK'
  <1> DEFINE started(k, n) ==
        [ckpt EXCEPT !.worker = worker, !.run = NoRun, !.key = k, !.started = "fresh",
                     !.attempts = n, !.status = "review_pending"]
             again == [ckpt EXCEPT !.worker = worker, !.run = NoRun, !.started = "fresh",
                                   !.attempts = @ + 1, !.status = "review_pending"]
  <1>1. /\ started(UnknownKey, 1) \in Checkpoint
        /\ again \in Checkpoint
        /\ \A st \in {"worker_running", "review_pending", "review_stalled"} :
             [ckpt EXCEPT !.status = st] \in Checkpoint
    <2>1. UnknownKey \in Keys /\ NoRun \in Nat /\ "fresh" \in Ages /\ worker \in Nat
      BY BoundsNatural DEF Keys, UnknownKey, NoRun, Ages, TypeOK
    <2>2. ckpt \in Checkpoint /\ ckpt.attempts + 1 \in Nat
      BY DEF TypeOK, Checkpoint
    <2>3. started(UnknownKey, 1) \in Checkpoint
      BY <2>1, <2>2 DEF Checkpoint
    <2>4. again \in Checkpoint
      BY <2>1, <2>2 DEF Checkpoint
    <2>5. \A st \in {"worker_running", "review_pending", "review_stalled"} :
            [ckpt EXCEPT !.status = st] \in Checkpoint
      BY <2>2 DEF Checkpoint
    <2> QED
      BY <2>3, <2>4, <2>5
  <1>2. {"idle", "trigger"} \subseteq Phases
    BY DEF Phases
  <1>3. CASE InitialReview
    BY <1>1, <1>2, <1>3, TypeUpdate DEF InitialReview
  <1>4. CASE NothingToReview
    BY <1>1, <1>2, <1>4, TypeUpdate DEF NothingToReview, Return
  <1>5. CASE AwaitRecord
    BY <1>1, <1>2, <1>5, TypeUpdate DEF AwaitRecord, Return
  <1>6. CASE RestartMissing
    BY <1>1, <1>2, <1>6, TypeUpdate DEF RestartMissing
  <1>7. CASE GiveUpMissing
    BY <1>1, <1>2, <1>7, TypeUpdate DEF GiveUpMissing, Return
  <1> QED
    BY <1>3, <1>4, <1>5, <1>6, <1>7

\* A poll that finds a verdict keeps the types.
LEMMA TypeVerdict ==
  ASSUME TypeOK, ChangesRequested \/ Approved
  PROVE  TypeOK'
  <1>1. Base \in Checkpoint
    BY DEF TypeOK, Checkpoint, Base, Record, HeadOrNone
  <1>2. {"idle", "feedback"} \subseteq Phases
    BY DEF Phases
  <1>3. CASE ChangesRequested
    <2>1. /\ [Base EXCEPT !.sent = TRUE, !.run = rec.run, !.status = "worker_running"]
               \in Checkpoint
          /\ [Base EXCEPT !.worker = worker, !.run = NoRun, !.key = NoKey,
                          !.started = "none", !.attempts = 0,
                          !.status = "changes_requested"] \in Checkpoint
      <3>1. NoKey \in Keys /\ NoRun \in Nat /\ "none" \in Ages /\ worker \in Nat
            /\ rec.run \in Nat
        BY BoundsNatural DEF Keys, UnknownKey, NoKey, NoRun, Ages, TypeOK, Record
      <3>2. [Base EXCEPT !.sent = TRUE, !.run = rec.run, !.status = "worker_running"]
              \in Checkpoint
        BY <1>1, <3>1 DEF Checkpoint
      <3>3. [Base EXCEPT !.worker = worker, !.run = NoRun, !.key = NoKey,
                         !.started = "none", !.attempts = 0,
                         !.status = "changes_requested"] \in Checkpoint
        BY <1>1, <3>1 DEF Checkpoint
      <3> QED
        BY <3>2, <3>3
    <2> QED
      BY <1>2, <1>3, <2>1, TypeUpdate DEF ChangesRequested, Return
  <1>4. CASE Approved
    <2>1. \A st \in {"review_invalid", "review_approved"} :
            [Base EXCEPT !.status = st] \in Checkpoint
      BY <1>1 DEF Checkpoint
    <2> QED
      BY <1>2, <1>4, <2>1, TypeUpdate DEF Approved, Return
  <1> QED
    BY <1>3, <1>4

\* What a poll makes of the attempts, the start and the run of an unanswered review.
LEMMA WatchTyped ==
  ASSUME TypeOK
  PROVE  /\ Attempts \in Nat /\ TriedOnce \in Nat /\ AttemptsNow \in Nat
         /\ StartedNow \in Ages /\ Started \in Ages /\ RunNow \in Nat
         /\ \A st \in {"review_pending", "review_stalled"}, r \in Nat, a \in Ages, n \in Nat :
              Watch(st, r, a, n) \in Checkpoint
  <1>1. /\ ckpt.attempts \in Nat /\ ckpt.run \in Nat /\ ckpt.started \in Ages
        /\ rec.run \in Nat /\ rec.started \in Ages
    BY DEF TypeOK, Checkpoint, Record
  <1>2. /\ Attempts \in Nat /\ TriedOnce \in Nat /\ AttemptsNow \in Nat
        /\ StartedNow \in Ages /\ Started \in Ages /\ RunNow \in Nat
    BY <1>1 DEF Attempts, TriedOnce, AttemptsNow, Started, StartedNow, KnownRun, RunNow,
                Adopted, OrNow, NoRun, Ages
  <1>3. Key \in Keys
    BY BoundsNatural DEF Key, Keys, UnknownKey, TypeOK, Record, HeadOrNone, Heads, NoHead
  <1>4. \A st \in {"review_pending", "review_stalled"}, r \in Nat, a \in Ages, n \in Nat :
          Watch(st, r, a, n) \in Checkpoint
    BY <1>3 DEF Watch, Base, TypeOK, Checkpoint, Record
  <1> QED
    BY <1>2, <1>4

\* A poll of an unanswered review keeps the types.
LEMMA TypeWatch ==
  ASSUME TypeOK,
         \/ RestartFailed \/ GiveUpFailed \/ FirstTrigger
         \/ AwaitVerdict \/ RestartTimedOut \/ GiveUpTimedOut
  PROVE  TypeOK'
  <1>1. {"idle", "trigger", "cancel"} \subseteq Phases
    BY DEF Phases
  <1>2. \A n \in Nat : Restart(n) \in Checkpoint
    BY WatchTyped DEF Restart, NoRun, Ages
  <1>3. CASE RestartFailed
    BY <1>1, <1>2, <1>3, WatchTyped, TypeUpdate DEF RestartFailed
  <1>4. CASE GiveUpFailed
    <2>1. OrNow(IF Started = "none" THEN rec.started ELSE Started) \in Ages /\ rec.run \in Nat
      BY WatchTyped DEF OrNow, Ages, TypeOK, Record
    <2> QED
      BY <1>1, <1>4, <2>1, WatchTyped, TypeUpdate DEF GiveUpFailed, Return
  <1>5. CASE FirstTrigger
    BY <1>1, <1>2, <1>5, TypeUpdate DEF FirstTrigger
  <1>6. CASE AwaitVerdict
    BY <1>1, <1>6, WatchTyped, TypeUpdate DEF AwaitVerdict, Return
  <1>7. CASE RestartTimedOut
    BY <1>1, <1>2, <1>7, WatchTyped, TypeUpdate DEF RestartTimedOut
  <1>8. CASE GiveUpTimedOut
    BY <1>1, <1>8, WatchTyped, TypeUpdate DEF GiveUpTimedOut, Return
  <1> QED
    BY <1>3, <1>4, <1>5, <1>6, <1>7, <1>8

\* A new run keeps the record's type.
LEMMA TypeNewRun ==
  ASSUME TypeOK, NEW t \in Targets, NewRun(t)
  PROVE  rec' \in Record /\ runs' \in Nat /\ delivered \subseteq 1 .. runs' /\ runs' = runs + 1
  <1>1. t \in HeadOrNone
    BY DEF Targets, TypeOK, Record, HeadOrNone
  <1>2. runs + 1 \in Nat /\ delivered \subseteq 1 .. runs + 1
    BY DEF TypeOK
  <1> QED
    BY <1>1, <1>2 DEF NewRun, Record, Ages

\* One more attempt at the current head.
LEMMA TypeTried ==
  ASSUME TypeOK PROVE [tried EXCEPT ![head] = @ + 1] \in [Heads -> Nat]
  BY DEF TypeOK

\* An ended node leaves well-typed local variables.
LEMMA TypeEndNode == ASSUME EndNode PROVE mem' \in Checkpoint /\ read' \in Record
  BY BoundsNatural
     DEF EndNode, Fresh, Checkpoint, NoRecord, Record, Keys, UnknownKey, NoKey, NoRun, NoHead,
         HeadOrNone, Ages

\* The calls of inspect_worker and its checkpoint keep the types.
LEMMA TypeCalls ==
  ASSUME TypeOK, CancelReview \/ TriggerReview \/ SaveCheckpoint
  PROVE  TypeOK'
  <1>1. CASE CancelReview
    <2>1. rec' \in Record /\ phase' \in Phases
      BY <1>1 DEF CancelReview, TypeOK, Record, Phases
    <2> QED
      BY <1>1, <2>1 DEF CancelReview, TypeOK, feedback
  <1>2. CASE TriggerReview
    <2>1. rec' \in Record /\ runs' \in Nat /\ delivered \subseteq 1 .. runs'
      BY <1>2, TypeNewRun DEF TriggerReview, TypeOK
    <2>2. queued' \in HeadOrNone /\ phase' \in Phases
      BY <1>2 DEF TriggerReview, TypeOK, HeadOrNone, Phases
    <2>3. tried' \in [Heads -> Nat]
      BY <1>2, TypeTried DEF TriggerReview
    <2> QED
      BY <1>2, <2>1, <2>2, <2>3 DEF TriggerReview, TypeOK, feedback
  <1>3. CASE SaveCheckpoint
    BY <1>3, TypeEndNode DEF SaveCheckpoint, TypeOK, runner, feedback, Phases
  <1> QED
    BY <1>1, <1>2, <1>3

\* return_review_feedback keeps the types.
LEMMA TypeFeedback ==
  ASSUME TypeOK, SendingSound,
         \/ ReadFeedback \/ FeedbackGone \/ DeliverFeedback \/ FeedbackRefused \/ WorkerGone
  PROVE  TypeOK'
  <1>1. CASE ReadFeedback
    <2>1. read' \in Record /\ phase' \in Phases
      BY <1>1 DEF ReadFeedback, TypeOK, Record, Ages, Phases
    <2> QED
      BY <1>1, <2>1 DEF ReadFeedback, TypeOK, runner, feedback
  <1>2. CASE FeedbackGone
    <2>1. ckpt' \in Checkpoint /\ phase' \in Phases
      BY <1>2 DEF FeedbackGone, TypeOK, Checkpoint, Phases
    <2> QED
      BY <1>2, <2>1 DEF FeedbackGone, TypeOK, runner, feedback
  <1>3. Returned \in Checkpoint
    BY DEF Returned, TypeOK, Checkpoint, Record
  <1>4. CASE DeliverFeedback
    <2>1. mem' \in Checkpoint
      <3>1. NoKey \in Keys /\ "none" \in Ages
        BY BoundsNatural DEF NoKey, Keys, UnknownKey, Ages
      <3> QED
        BY <1>3, <1>4, <3>1 DEF DeliverFeedback, Checkpoint
    <2>2. delivered' \subseteq 1 .. runs /\ repeats' \in Nat /\ phase' \in Phases
      BY <1>4 DEF DeliverFeedback, SendingSound, TypeOK, Phases
    <2> QED
      BY <1>4, <2>1, <2>2 DEF DeliverFeedback, TypeOK, runner
  <1>5. CASE FeedbackRefused
    <2>1. ckpt' \in Checkpoint /\ phase' \in Phases
      BY <1>3, <1>5 DEF FeedbackRefused, Checkpoint, Phases
    <2> QED
      BY <1>5, <2>1, TypeEndNode DEF FeedbackRefused, TypeOK, runner, feedback
  <1>6. CASE WorkerGone
    BY <1>6, TypeEndNode DEF WorkerGone, TypeOK, runner, feedback, Phases
  <1> QED
    BY <1>1, <1>2, <1>4, <1>5, <1>6

\* A disturbance is counted within its bound.
LEMMA TypeDisturb ==
  ASSUME TypeOK, Disturb PROVE disturbed' \in 0 .. MaxDisturbed
  BY BoundsNatural DEF TypeOK, Disturb

\* Crashes, the runner, the world and time keep the types.
LEMMA TypeOutside ==
  ASSUME TypeOK, Crash \/ Environment \/ TimePasses
  PROVE  TypeOK'
  <1>0. NoRecord \in Record
    BY DEF NoRecord, Record, NoHead, HeadOrNone, NoRun, Ages
  <1>1. CASE Crash
    BY <1>1, TypeEndNode, TypeDisturb DEF Crash, TypeOK, runner, feedback, Phases
  <1>2. CASE OpenPullRequest
    <2>1. prOpen' \in BOOLEAN
      BY <1>2, Zenon DEF OpenPullRequest
    <2> QED
      BY <1>2, <2>1 DEF OpenPullRequest, RunnerFrame, TypeOK, node, feedback
  <1>3. CASE RecordAppears
    <2>1. PICK t \in {head, NoHead} :
            rec' = [NoRecord EXCEPT !.status = "needs_review", !.target = t]
      BY <1>3 DEF RecordAppears
    <2>2. t \in HeadOrNone
      BY DEF TypeOK, HeadOrNone
    <2>3. rec' \in Record
      BY <1>0, <2>1, <2>2 DEF Record
    <2> QED
      BY <1>3, <2>3 DEF RecordAppears, RunnerFrame, TypeOK, node, feedback
  <1>4. CASE TriggerSurfaces
    <2>1. rec' \in Record /\ runs' \in Nat /\ delivered \subseteq 1 .. runs'
      BY <1>4, TypeNewRun DEF TriggerSurfaces
    <2>2. tried' \in [Heads -> Nat] /\ queued' \in HeadOrNone
      BY <1>4, TypeTried DEF TriggerSurfaces, TypeOK, HeadOrNone
    <2> QED
      BY <1>4, <2>1, <2>2 DEF TriggerSurfaces, RunnerFrame, TypeOK, node, feedback
  <1>5. CASE RunFails \/ RunAnswers
    <2>1. rec' \in Record
      BY <1>5 DEF RunFails, RunAnswers, TypeOK, Record
    <2> QED
      BY <1>5, <2>1 DEF RunFails, RunAnswers, RunnerFrame, TypeOK, node, feedback
  <1>6. CASE StartElsewhere
    <2>1. rec' \in Record /\ runs' \in Nat /\ delivered \subseteq 1 .. runs'
      BY <1>6, TypeNewRun DEF StartElsewhere
    <2>2. tried' \in [Heads -> Nat] /\ disturbed' \in 0 .. MaxDisturbed
      BY <1>6, TypeTried, TypeDisturb DEF StartElsewhere
    <2> QED
      BY <1>6, <2>1, <2>2 DEF StartElsewhere, TypeOK, node, feedback
  <1>7. CASE Push
    <2>1. head' \in Heads
      BY <1>7, BoundsNatural DEF Push, TypeOK, Heads
    <2>2. rec' \in Record
      <3>1. head + 1 \in HeadOrNone /\ NoHead \in HeadOrNone
        BY <1>7, BoundsNatural DEF Push, TypeOK, Heads, HeadOrNone
      <3> QED
        BY <1>0, <1>7, <3>1 DEF Push, TypeOK, Record
    <2> QED
      BY <1>7, <2>1, <2>2 DEF Push, RunnerFrame, TypeOK, node, feedback
  <1>8. CASE ReplaceWorker
    <2>1. prOpen' \in BOOLEAN
      BY <1>8, Zenon DEF ReplaceWorker
    <2>2. worker' \in Nat \ {0} /\ queued' \in HeadOrNone /\ disturbed' \in 0 .. MaxDisturbed
      BY <1>8, TypeDisturb DEF ReplaceWorker, TypeOK, HeadOrNone
    <2> QED
      BY <1>0, <1>8, <2>1, <2>2 DEF ReplaceWorker, TypeOK, node, feedback
  <1>9. CASE RecordLost
    BY <1>0, <1>9, TypeDisturb DEF RecordLost, TypeOK, node, feedback
  <1>10. CASE TimePasses
    <2>1. ckpt' \in Checkpoint /\ rec' \in Record
      BY <1>10 DEF TimePasses, Aged, TypeOK, Checkpoint, Record, Ages
    <2> QED
      BY <1>10, <2>1 DEF TimePasses, TypeOK, feedback
  <1> QED
    BY <1>1, <1>2, <1>3, <1>4, <1>5, <1>6, <1>7, <1>8, <1>9, <1>10 DEF Environment

\* Every step keeps the types.
LEMMA TypeStep == ASSUME TypeOK, SendingSound, [Next]_vars PROVE TypeOK'
  <1>1. CASE InspectWorker
    BY <1>1, TypeMissing, TypeVerdict, TypeWatch DEF InspectWorker
  <1>2. CASE Node /\ ~InspectWorker
    BY <1>2, TypeCalls, TypeFeedback DEF Node
  <1>3. CASE Crash \/ Environment \/ TimePasses
    BY <1>3, TypeOutside
  <1>4. CASE UNCHANGED vars
    BY <1>4 DEF vars, runner, node, feedback, TypeOK
  <1> QED
    BY <1>1, <1>2, <1>3, <1>4 DEF Next, Node

----------------------------------------------------------------------------
(* Feedback.                                                               *)

\* A run whose feedback was delivered has answered.
LEMMA UnansweredNotDelivered ==
  ASSUME FeedbackInv, rec.verdict = "unknown" PROVE rec.run \notin delivered
  BY DEF FeedbackInv, DeliveryKnown

\* A record that is missing, or of a run in progress, has no verdict.
LEMMA NoVerdictYet ==
  ASSUME RecordSound, TypeOK, rec.status \in {"none", "needs_review", "running", "failed"}
  PROVE  rec.verdict = "unknown"
  BY DEF RecordSound, TypeOK, Record

\* An update without calls keeps the invariant if it does not forget a delivery.
LEMMA FeedbackUpdate ==
  ASSUME FeedbackInv, NEW u, NEW p \in {"idle", "feedback"}, Update(u, p),
         rec.run \in delivered => Excused \/ SaysSent(u),
         p = "feedback" => ~u.sent
  PROVE  FeedbackInv'
  <1>1. /\ UNCHANGED <<rec, delivered, repeats, disturbed>>
        /\ phase = "idle" /\ phase' = p /\ ckpt' = u
    BY DEF Update, runner, feedback
  <1>2. DeliveryKnown'
    BY <1>1 DEF FeedbackInv, DeliveryKnown, SaysSent, Excused
  <1>3. SendingSound'
    BY <1>1 DEF SendingSound
  <1> QED
    BY <1>1, <1>2, <1>3 DEF FeedbackInv, FeedbackOnce

\* The calls begin on a review without a verdict.
LEMMA FeedbackCall ==
  ASSUME FeedbackInv, NEW u, NEW p \in {"cancel", "trigger"}, Call(u, p),
         rec.verdict = "unknown"
  PROVE  FeedbackInv'
  <1>1. /\ UNCHANGED <<rec, delivered, repeats, disturbed>>
        /\ phase' = p /\ rec.run \notin delivered
    BY UnansweredNotDelivered DEF Call, runner, feedback
  <1> QED
    BY <1>1 DEF FeedbackInv, FeedbackOnce, DeliveryKnown, SendingSound

\* A poll never makes the supervisor forget what it delivered.
LEMMA FeedbackInspect ==
  ASSUME TypeOK, RecordSound, FeedbackInv, InspectWorker
  PROVE  FeedbackInv'
  <1>1. ~Visible => rec.run \notin delivered /\ rec.verdict = "unknown"
    BY NoVerdictYet, UnansweredNotDelivered DEF Visible
  <1>2. Unanswered => rec.run \notin delivered /\ rec.verdict = "unknown"
    BY UnansweredNotDelivered DEF Unanswered
  <1>3. CASE InitialReview \/ RestartMissing
    BY <1>1, <1>3, FeedbackCall DEF InitialReview, RestartMissing
  <1>4. CASE NothingToReview \/ AwaitRecord \/ GiveUpMissing
    BY <1>1, <1>4, FeedbackUpdate DEF NothingToReview, AwaitRecord, GiveUpMissing, Return
  <1>5. CASE RestartFailed \/ FirstTrigger \/ RestartTimedOut
    BY <1>2, <1>5, FeedbackCall DEF RestartFailed, FirstTrigger, RestartTimedOut, UnderWay
  <1>6. CASE GiveUpFailed \/ AwaitVerdict \/ GiveUpTimedOut
    BY <1>2, <1>6, FeedbackUpdate DEF GiveUpFailed, AwaitVerdict, GiveUpTimedOut, UnderWay, Return
  <1>7. CASE Approved
    <2>1. rec.run \notin delivered
      BY <1>7 DEF Approved, FeedbackInv, DeliveryKnown
    <2> QED
      BY <1>7, <2>1, FeedbackUpdate DEF Approved, Return
  <1>8. CASE ChangesRequested
    <2>1. ckpt \in Checkpoint /\ rec \in Record /\ phase = "idle"
      BY <1>8 DEF TypeOK, ChangesRequested, Return, Update
    <2> DEFINE known == [Base EXCEPT !.sent = TRUE, !.run = rec.run,
                                     !.status = "worker_running"]
               new == [Base EXCEPT !.worker = worker, !.run = NoRun, !.key = NoKey,
                                   !.started = "none", !.attempts = 0,
                                   !.status = "changes_requested"]
    <2>2. /\ known.sent /\ known.target = rec.target /\ known.run = rec.run
          /\ ~new.sent
      BY <2>1 DEF Base, Checkpoint
    <2>3. CASE Return(known)
      BY <2>2, <2>3, FeedbackUpdate DEF Return, SaysSent
    <2>4. CASE ~AlreadySent /\ Update(new, "feedback")
      <3>1. rec.run \in delivered => Excused
        BY <2>1, <2>4 DEF FeedbackInv, DeliveryKnown, SaysSent, AlreadySent
      <3> HIDE DEF new
      <3> QED
        BY <2>2, <2>4, <3>1, FeedbackUpdate
    <2> QED
      BY <1>8, <2>3, <2>4 DEF ChangesRequested
  <1> QED
    BY <1>3, <1>4, <1>5, <1>6, <1>7, <1>8 DEF InspectWorker

\* A run that nobody has seen yet takes the place of the latest.
LEMMA NewRunUnseen ==
  ASSUME TypeOK, NEW t, NewRun(t)
  PROVE  rec'.run \notin delivered /\ rec'.run > runs
  BY DEF TypeOK, NewRun

\* The calls of a node and its checkpoint keep the invariant.
LEMMA FeedbackCalls ==
  ASSUME TypeOK, RecordSound, FeedbackInv, CancelReview \/ TriggerReview \/ SaveCheckpoint
  PROVE  FeedbackInv'
  <1>1. CASE CancelReview
    <2>1. rec'.run = rec.run
      BY <1>1 DEF CancelReview, TypeOK, Record
    <2>2. phase = "cancel" /\ phase' = "trigger" /\ UNCHANGED <<delivered, repeats, disturbed>>
      BY <1>1 DEF CancelReview, feedback
    <2> QED
      BY <2>1, <2>2 DEF FeedbackInv, FeedbackOnce, DeliveryKnown, SendingSound
  <1>2. CASE TriggerReview
    <2>1. phase = "trigger" /\ phase' = "save" /\ UNCHANGED <<delivered, repeats, disturbed>>
      BY <1>2 DEF TriggerReview, feedback
    <2>2. rec'.run \notin delivered
      BY <1>2, <2>1, NewRunUnseen DEF TriggerReview, FeedbackInv, DeliveryKnown
    <2> QED
      BY <2>1, <2>2 DEF FeedbackInv, FeedbackOnce, DeliveryKnown, SendingSound
  <1>3. CASE SaveCheckpoint
    <2>1. /\ phase = "save" /\ phase' = "idle" /\ ckpt' = mem
          /\ UNCHANGED <<rec, delivered, repeats, disturbed>>
      BY <1>3 DEF SaveCheckpoint, runner, feedback
    <2> QED
      BY <2>1 DEF FeedbackInv, FeedbackOnce, DeliveryKnown, SendingSound, SaysSent, Excused
  <1> QED
    BY <1>1, <1>2, <1>3

\* return_review_feedback keeps the invariant: what it sends again is excused.
LEMMA FeedbackReturn ==
  ASSUME TypeOK, RecordSound, FeedbackInv,
         \/ ReadFeedback \/ FeedbackGone \/ DeliverFeedback \/ FeedbackRefused \/ WorkerGone
  PROVE  FeedbackInv'
  <1>1. CASE ReadFeedback
    <2>1. /\ phase = "feedback" /\ phase' = "send" /\ rec.verdict = "changes_requested"
          /\ UNCHANGED <<rec, runs, ckpt, delivered, repeats, disturbed>>
          /\ read'.run = rec.run /\ read'.target = rec.target
      BY <1>1 DEF ReadFeedback, runner, feedback, TypeOK, Record
    <2>2. rec.run \in 1 .. runs
      BY <2>1 DEF RecordSound, TypeOK, Record
    <2>3. rec.run \in delivered => Excused
      BY <2>1 DEF FeedbackInv, DeliveryKnown, SendingSound, SaysSent
    <2> QED
      BY <2>1, <2>2, <2>3
         DEF FeedbackInv, FeedbackOnce, DeliveryKnown, SendingSound, SaysSent, Excused
  <1>2. CASE FeedbackGone
    <2>1. /\ phase' = "idle" /\ rec.run \notin delivered
          /\ UNCHANGED <<rec, delivered, repeats, disturbed>>
      BY <1>2 DEF FeedbackGone, FeedbackInv, DeliveryKnown, runner, feedback
    <2> QED
      BY <2>1 DEF FeedbackInv, FeedbackOnce, DeliveryKnown, SendingSound
  <1>3. CASE DeliverFeedback
    <2>1. /\ phase = "send" /\ phase' = "save" /\ UNCHANGED <<rec, disturbed>>
          /\ delivered' = delivered \cup {read.run}
          /\ repeats' = IF read.run \in delivered THEN repeats + 1 ELSE repeats
      BY <1>3 DEF DeliverFeedback, runner
    <2>2. FeedbackOnce'
      BY <2>1 DEF FeedbackInv, FeedbackOnce, SendingSound, Excused, TypeOK
    <2>3. mem'.sent /\ mem'.target = read.target /\ mem'.run = read.run
      BY <1>3 DEF DeliverFeedback, Returned, TypeOK, Checkpoint
    <2>4. rec.run \in delivered' => rec.run = read.run
      BY <2>1 DEF FeedbackInv, SendingSound
    <2>5. DeliveryKnown'
      BY <2>1, <2>3, <2>4 DEF FeedbackInv, SendingSound, DeliveryKnown, SaysSent
    <2> QED
      BY <2>1, <2>2, <2>5 DEF FeedbackInv, SendingSound
  <1>4. CASE FeedbackRefused
    <2>1. /\ phase = "send" /\ phase' = "idle"
          /\ UNCHANGED <<rec, delivered, repeats, disturbed>>
      BY <1>4 DEF FeedbackRefused, runner, feedback
    <2>2. rec.run \in delivered => Excused
      BY <2>1 DEF FeedbackInv, SendingSound
    <2> QED
      BY <2>1, <2>2 DEF FeedbackInv, FeedbackOnce, DeliveryKnown, SendingSound, Excused
  <1>5. CASE WorkerGone
    <2>1. /\ phase \in {"cancel", "trigger", "send"} /\ phase' = "idle"
          /\ UNCHANGED <<rec, ckpt, delivered, repeats, disturbed>>
      BY <1>5 DEF WorkerGone, runner, feedback
    <2> QED
      BY <2>1 DEF FeedbackInv, FeedbackOnce, DeliveryKnown, SendingSound, SaysSent, Excused
  <1> QED
    BY <1>1, <1>2, <1>3, <1>4, <1>5

\* Another run, or none, becomes the latest.
LEMMA FeedbackOtherRun ==
  ASSUME TypeOK, FeedbackInv, UNCHANGED <<node, feedback>>,
         disturbed' \in {disturbed, disturbed + 1}, runs' \in {runs, runs + 1},
         rec'.run \notin delivered, phase = "send" => rec'.run # read.run
  PROVE  FeedbackInv'
  <1>1. FeedbackOnce'
    BY DEF FeedbackInv, FeedbackOnce, TypeOK, feedback
  <1>2. DeliveryKnown'
    BY DEF DeliveryKnown, feedback
  <1>3. SendingSound'
    BY DEF FeedbackInv, SendingSound, Excused, TypeOK, node, feedback
  <1> QED
    BY <1>1, <1>2, <1>3 DEF FeedbackInv

\* Crashes, the runner, the world and time keep the invariant.
LEMMA FeedbackOutside ==
  ASSUME TypeOK, RecordSound, FeedbackInv, Crash \/ Environment \/ TimePasses
  PROVE  FeedbackInv'
  <1>1. CASE Crash
    <2>1. /\ phase' = "idle" /\ disturbed' = disturbed + 1
          /\ UNCHANGED <<rec, delivered, repeats>>
      BY <1>1 DEF Crash, Disturb, runner, feedback
    <2>2. Excused'
      BY <2>1 DEF Excused, FeedbackInv, FeedbackOnce, TypeOK
    <2> QED
      BY <2>1, <2>2 DEF FeedbackInv, FeedbackOnce, DeliveryKnown, SendingSound, Excused, TypeOK
  <1>2. CASE OpenPullRequest \/ (Push /\ ~Visible)
    <2>1. UNCHANGED <<rec, runs, node, feedback, disturbed>>
      BY <1>2 DEF OpenPullRequest, Push, RunnerFrame
    <2> QED
      BY <2>1 DEF FeedbackInv, FeedbackOnce, DeliveryKnown, SendingSound, SaysSent, Excused,
                  node, feedback
  <1>3. phase = "send" => read.run \in 1 .. runs
    BY DEF FeedbackInv, SendingSound
  <1>4. 0 \notin delivered
    BY DEF TypeOK
  <1>5. CASE RecordAppears \/ (Push /\ Visible) \/ ReplaceWorker \/ RecordLost
    <2>1. /\ rec'.run = 0 /\ UNCHANGED <<runs, node, feedback>>
          /\ disturbed' \in {disturbed, disturbed + 1}
      <3>1. rec'.run = 0
        <4>1. /\ NoRecord.run = 0
              /\ \A st, t : [NoRecord EXCEPT !.status = st, !.target = t].run = 0
          BY DEF NoRecord, NoRun
        <4>2. CASE RecordAppears
          BY <4>1, <4>2 DEF RecordAppears
        <4>3. CASE Push /\ Visible
          BY <4>1, <4>3 DEF Push
        <4> QED
          BY <1>5, <4>1, <4>2, <4>3 DEF ReplaceWorker, RecordLost
      <3>2. UNCHANGED <<runs, node, feedback>>
        BY <1>5 DEF RecordAppears, Push, ReplaceWorker, RecordLost, RunnerFrame
      <3>3. disturbed' \in {disturbed, disturbed + 1}
        BY <1>5 DEF RecordAppears, Push, ReplaceWorker, RecordLost, RunnerFrame, Disturb
      <3> QED
        BY <3>1, <3>2, <3>3
    <2> QED
      BY <1>3, <1>4, <2>1, FeedbackOtherRun
  <1>6. CASE TriggerSurfaces \/ StartElsewhere
    <2>1. /\ rec'.run \notin delivered /\ rec'.run > runs /\ runs' = runs + 1
          /\ UNCHANGED <<node, feedback>> /\ disturbed' \in {disturbed, disturbed + 1}
      BY <1>6, NewRunUnseen DEF TriggerSurfaces, StartElsewhere, RunnerFrame, Disturb, NewRun
    <2>2. phase = "send" => rec'.run # read.run
      BY <1>3, <2>1 DEF TypeOK
    <2> QED
      BY <2>1, <2>2, FeedbackOtherRun
  <1>7. CASE RunFails \/ RunAnswers
    <2>1. rec.verdict = "unknown" /\ rec'.run = rec.run
      BY <1>7, NoVerdictYet DEF RunFails, RunAnswers, TypeOK, Record
    <2>2. rec.run \notin delivered /\ (phase = "send" => rec.run # read.run)
      BY <2>1, UnansweredNotDelivered DEF FeedbackInv, SendingSound
    <2>3. UNCHANGED <<runs, node, feedback, disturbed>>
      BY <1>7 DEF RunFails, RunAnswers, RunnerFrame
    <2> QED
      BY <2>1, <2>2, <2>3, FeedbackOtherRun
  <1>8. CASE TimePasses
    <2>1. /\ phase = "idle" /\ phase' = "idle" /\ UNCHANGED <<delivered, repeats, disturbed>>
      BY <1>8 DEF TimePasses, feedback
    <2>2. /\ rec'.run = rec.run /\ rec'.target = rec.target /\ rec'.verdict = rec.verdict
          /\ ckpt'.sent = ckpt.sent /\ ckpt'.target = ckpt.target /\ ckpt'.run = ckpt.run
      BY <1>8 DEF TimePasses, Aged, TypeOK, Record, Checkpoint
    <2> QED
      BY <2>1, <2>2 DEF FeedbackInv, FeedbackOnce, DeliveryKnown, SendingSound, SaysSent, Excused
  <1> QED
    BY <1>1, <1>2, <1>5, <1>6, <1>7, <1>8 DEF Environment

----------------------------------------------------------------------------
(* The budget.                                                             *)

\* A poll that counts and gives up soundly keeps the invariant.
LEMMA BudgetPoll ==
  ASSUME TypeOK, BudgetInv, NEW u, NEW p,
         \/ /\ Update(u, p) /\ p \in {"idle", "feedback"} /\ Counted(u, 0)
            /\ u.status = "review_stalled" => u.attempts >= MaxAttempts
         \/ /\ Call(u, p) /\ p \in {"cancel", "trigger"} /\ Counted(u, 1)
            /\ u.status # "review_stalled"
  PROVE  BudgetInv'
  <1>1. UNCHANGED <<head, rec, runs, queued, tried>> /\ phase = "idle"
    BY DEF Update, Call, runner
  <1>2. RecordSound' /\ RunsCounted'
    BY <1>1 DEF BudgetInv, RecordSound, RunsCounted
  <1>3. CASE Update(u, p) /\ p \in {"idle", "feedback"} /\ Counted(u, 0)
             /\ (u.status = "review_stalled" => u.attempts >= MaxAttempts)
    <2>1. ckpt' = u /\ mem' = mem /\ phase' \notin {"cancel", "trigger"}
      BY <1>3 DEF Update
    <2> QED
      BY <1>1, <1>2, <1>3, <2>1 DEF BudgetInv, AttemptsCounted, StallCounted, Counted
  <1>4. CASE Call(u, p) /\ p \in {"cancel", "trigger"} /\ Counted(u, 1)
             /\ u.status # "review_stalled"
    <2>1. mem' = u /\ ckpt' = ckpt /\ phase' \in {"cancel", "trigger"}
      BY <1>4 DEF Call
    <2> QED
      BY <1>1, <1>2, <1>4, <2>1 DEF BudgetInv, AttemptsCounted, StallCounted, Counted
  <1> QED
    BY <1>3, <1>4

\* The key of a missing review is not the current head's.
LEMMA UnknownNotHead == ASSUME TypeOK PROVE UnknownKey # head /\ UnknownKey \notin Heads
  BY BoundsNatural DEF TypeOK, UnknownKey, Heads

\* Polls without a record.
LEMMA BudgetMissing ==
  ASSUME TypeOK, BudgetInv,
         \/ InitialReview \/ NothingToReview \/ AwaitRecord \/ RestartMissing \/ GiveUpMissing
  PROVE  BudgetInv'
  <1>1. ckpt \in Checkpoint /\ Counted(ckpt, 0) /\ tried[head] \in Nat
    BY DEF TypeOK, BudgetInv, AttemptsCounted
  <1>2. \A st \in {"worker_running", "review_pending", "review_stalled"} :
          LET u == [ckpt EXCEPT !.status = st]
          IN  /\ Counted(u, 0) /\ u.status = st /\ u.attempts = ckpt.attempts
    BY <1>1 DEF Counted, Checkpoint
  <1>3. CASE InitialReview
    <2> DEFINE u == [ckpt EXCEPT !.worker = worker, !.run = NoRun, !.key = UnknownKey,
                                 !.started = "fresh", !.attempts = 1,
                                 !.status = "review_pending"]
    <2>1. u.key = UnknownKey /\ u.status = "review_pending"
      BY <1>1 DEF Checkpoint
    <2>2. Counted(u, 1)
      BY <2>1, UnknownNotHead DEF Counted
    <2>3. Call(u, "trigger")
      BY <1>3 DEF InitialReview
    <2> HIDE DEF u
    <2> QED
      BY <2>1, <2>2, <2>3, BudgetPoll
  <1>4. CASE NothingToReview \/ AwaitRecord
    BY <1>2, <1>4, BudgetPoll DEF NothingToReview, AwaitRecord, Return
  <1>5. CASE RestartMissing
    <2> DEFINE u == [ckpt EXCEPT !.worker = worker, !.run = NoRun, !.started = "fresh",
                                 !.attempts = @ + 1, !.status = "review_pending"]
    <2>1. /\ u.key = ckpt.key /\ u.attempts = ckpt.attempts + 1
          /\ u.status = "review_pending"
      BY <1>1 DEF Checkpoint
    <2>2. Counted(u, 1)
      BY <1>1, <2>1 DEF Counted, Checkpoint
    <2>3. Call(u, "trigger")
      BY <1>5 DEF RestartMissing
    <2> HIDE DEF u
    <2> QED
      BY <2>1, <2>2, <2>3, BudgetPoll
  <1>6. CASE GiveUpMissing
    BY <1>2, <1>6, BudgetPoll DEF GiveUpMissing, Return
  <1> QED
    BY <1>3, <1>4, <1>5, <1>6

\* Polls that find a verdict.
LEMMA BudgetVerdict ==
  ASSUME TypeOK, BudgetInv, ChangesRequested \/ Approved
  PROVE  BudgetInv'
  <1>1. ckpt \in Checkpoint /\ Counted(ckpt, 0) /\ tried[head] \in Nat /\ head \in Heads
    BY DEF TypeOK, BudgetInv, AttemptsCounted
  <1>2. /\ DOMAIN Base = DOMAIN ckpt /\ Base.key = ckpt.key /\ Base.attempts = ckpt.attempts
        /\ DOMAIN ckpt = {"status", "sent", "target", "worker", "key", "run", "started",
                          "attempts"}
    BY <1>1 DEF Base, Checkpoint
  <1>3. CASE ChangesRequested
    <2> DEFINE known == [Base EXCEPT !.sent = TRUE, !.run = rec.run,
                                     !.status = "worker_running"]
               new == [Base EXCEPT !.worker = worker, !.run = NoRun, !.key = NoKey,
                                   !.started = "none", !.attempts = 0,
                                   !.status = "changes_requested"]
    <2>1. /\ known.key = ckpt.key /\ known.attempts = ckpt.attempts
          /\ known.status = "worker_running"
      BY <1>1 DEF Base, Checkpoint
    <2>2. new.key = NoKey /\ new.attempts = 0 /\ new.status = "changes_requested"
      BY <1>1 DEF Base, Checkpoint
    <2>3. Counted(known, 0) /\ Counted(new, 0)
      BY <1>1, <2>1, <2>2 DEF Counted, NoKey, Heads
    <2>4. Update(known, "idle") \/ Update(new, "feedback")
      BY <1>3 DEF ChangesRequested, Return
    <2> HIDE DEF known, new
    <2> QED
      BY <2>1, <2>2, <2>3, <2>4, BudgetPoll
  <1>4. CASE Approved
    <2>1. PICK st \in {"review_invalid", "review_approved"} :
            Update([Base EXCEPT !.status = st], "idle")
      BY <1>4 DEF Approved, Return
    <2> DEFINE u == [Base EXCEPT !.status = st]
    <2>2. u.key = ckpt.key /\ u.attempts = ckpt.attempts /\ u.status = st
      BY <1>1 DEF Base, Checkpoint
    <2>3. Counted(u, 0)
      BY <1>1, <2>2 DEF Counted
    <2> HIDE DEF u
    <2> QED
      BY <2>1, <2>2, <2>3, BudgetPoll DEF u
  <1> QED
    BY <1>3, <1>4

\* Polls of an unanswered review.
LEMMA BudgetWatch ==
  ASSUME TypeOK, BudgetInv,
         \/ RestartFailed \/ GiveUpFailed \/ FirstTrigger
         \/ AwaitVerdict \/ RestartTimedOut \/ GiveUpTimedOut
  PROVE  BudgetInv'
  <1>1. /\ ckpt \in Checkpoint /\ tried[head] \in Nat /\ head \in Heads
        /\ rec.target \in {head, NoHead} /\ head # NoHead
    BY DEF TypeOK, BudgetInv, RecordSound, Heads, NoHead
  <1>2. Key = UnknownKey \/ Key = head
    BY <1>1 DEF Key
  <1>3. \A st, r, a, n : /\ Watch(st, r, a, n).status = st /\ Watch(st, r, a, n).key = Key
                         /\ Watch(st, r, a, n).attempts = n
    BY <1>1 DEF Watch, Base, Checkpoint
  <1>4. \A st, r, a : \A n, c \in Nat :
          (Key = head => n <= tried[head] + c) => Counted(Watch(st, r, a, n), c)
    BY <1>1, <1>2, <1>3, UnknownNotHead DEF Counted, Heads, BoundsNatural
  <1>5. rec.run > 0 => tried[head] > 0
    BY DEF BudgetInv, RunsCounted
  <1>6. Key = head => Attempts <= tried[head]
    <2>1. SameReview /\ Key = head => ckpt.attempts <= tried[head]
      BY <1>1 DEF SameReview, BudgetInv, AttemptsCounted, Counted, Checkpoint
    <2>2. StartedElsewhere => tried[head] >= 1
      BY <1>1, <1>5 DEF StartedElsewhere, NoRun, TypeOK, Record
    <2> QED
      BY <1>1, <2>1, <2>2 DEF Attempts
  <1>7. rec.status = "failed" /\ Key = head => TriedOnce <= tried[head]
    BY <1>1, <1>5, <1>6, WatchTyped DEF BudgetInv, RecordSound, TriedOnce
  <1>8. UnderWay /\ Key = head => AttemptsNow <= tried[head]
    <2>1. UnderWay /\ Adopted => rec.run > 0
      BY DEF UnderWay, Unanswered, Visible, Adopted, BudgetInv, RecordSound, TypeOK, Record
    <2> QED
      BY <1>1, <1>5, <1>6, <2>1 DEF AttemptsNow
  <1>9. CASE RestartFailed
    <2>1. /\ rec.status = "failed" /\ TriedOnce \in Nat /\ tried[head] \in Nat
          /\ Call(Watch("review_pending", NoRun, "fresh", TriedOnce + 1), "trigger")
      BY <1>1, <1>9, WatchTyped DEF RestartFailed, Restart
    <2>2. Key = head => TriedOnce + 1 <= tried[head] + 1
      BY <1>7, <2>1
    <2>3. Counted(Watch("review_pending", NoRun, "fresh", TriedOnce + 1), 1)
      BY <1>4, <2>1, <2>2
    <2> QED
      BY <1>3, <2>1, <2>3, BudgetPoll
  <1>10. CASE GiveUpFailed
    BY <1>1, <1>3, <1>4, <1>7, <1>10, WatchTyped, BudgetPoll DEF GiveUpFailed, Return
  <1>11. CASE FirstTrigger
    BY <1>1, <1>3, <1>4, <1>11, BudgetPoll DEF FirstTrigger, Restart
  <1>12. CASE AwaitVerdict
    BY <1>1, <1>3, <1>4, <1>8, <1>12, WatchTyped, BudgetPoll DEF AwaitVerdict, Return
  <1>13. CASE RestartTimedOut
    <2>1. /\ UnderWay /\ AttemptsNow \in Nat /\ tried[head] \in Nat
          /\ \E p \in {"cancel", "trigger"} :
               Call(Watch("review_pending", NoRun, "fresh", AttemptsNow + 1), p)
      BY <1>1, <1>13, WatchTyped DEF RestartTimedOut, Restart
    <2>2. Key = head => AttemptsNow + 1 <= tried[head] + 1
      BY <1>8, <2>1
    <2>3. Counted(Watch("review_pending", NoRun, "fresh", AttemptsNow + 1), 1)
      BY <1>4, <2>1, <2>2
    <2> QED
      BY <1>3, <2>1, <2>3, BudgetPoll
  <1>14. CASE GiveUpTimedOut
    BY <1>1, <1>3, <1>4, <1>8, <1>14, WatchTyped, BudgetPoll DEF GiveUpTimedOut, Return
  <1> QED
    BY <1>9, <1>10, <1>11, <1>12, <1>13, <1>14

\* A node without local variables has counted nothing.
LEMMA FreshCounted == ASSUME TypeOK PROVE Counted(Fresh, 0) /\ Fresh.status = "worker_running"
  BY DEF TypeOK, Counted, Fresh, NoKey, Heads

\* The calls of inspect_worker and its checkpoint.
LEMMA BudgetCalls ==
  ASSUME TypeOK, BudgetInv, CancelReview \/ TriggerReview \/ SaveCheckpoint
  PROVE  BudgetInv'
  <1>1. CASE CancelReview
    <2>1. /\ phase = "cancel" /\ phase' = "trigger"
          /\ UNCHANGED <<head, runs, queued, tried, ckpt, mem>>
      BY <1>1 DEF CancelReview
    <2>2. /\ rec'.run = rec.run /\ rec'.target = rec.target /\ rec'.verdict = rec.verdict
          /\ rec'.status = IF rec.status = "running" THEN "failed" ELSE rec.status
      BY <1>1 DEF CancelReview, TypeOK, Record
    <2> QED
      BY <2>1, <2>2 DEF BudgetInv, RecordSound, RunsCounted, AttemptsCounted, StallCounted, Counted
  <1>2. CASE TriggerReview
    <2>1. /\ phase = "trigger" /\ phase' = "save" /\ UNCHANGED <<head, ckpt, mem>>
          /\ tried' = [tried EXCEPT ![head] = @ + 1]
      BY <1>2 DEF TriggerReview
    <2>2. tried'[head] = tried[head] + 1 /\ tried[head] \in Nat
      BY <2>1 DEF TypeOK
    <2>3. RecordSound'
      <3>1. CASE UNCHANGED <<rec, runs>>
        BY <2>1, <3>1 DEF BudgetInv, RecordSound
      <3>2. CASE \E t \in Targets : NewRun(t)
        BY <2>1, <3>2 DEF NewRun, Targets, BudgetInv, RecordSound, TypeOK
      <3> QED
        BY <1>2, <3>1, <3>2 DEF TriggerReview
    <2>4. RunsCounted'
      BY <1>2, <2>1, <2>2 DEF TriggerReview, RunsCounted, BudgetInv, TypeOK, Heads, NoHead
    <2>5. AttemptsCounted' /\ StallCounted'
      BY <2>1, <2>2 DEF BudgetInv, AttemptsCounted, StallCounted, Counted, TypeOK, Checkpoint
    <2> QED
      BY <2>3, <2>4, <2>5 DEF BudgetInv
  <1>3. CASE SaveCheckpoint
    <2>1. /\ phase = "save" /\ phase' = "idle" /\ ckpt' = mem /\ mem' = Fresh
          /\ UNCHANGED <<head, rec, runs, queued, tried>>
      BY <1>3 DEF SaveCheckpoint, EndNode, runner
    <2> QED
      BY <2>1, FreshCounted
         DEF BudgetInv, RecordSound, RunsCounted, AttemptsCounted, StallCounted, Counted
  <1> QED
    BY <1>1, <1>2, <1>3

\* return_review_feedback, and nodes that end early.
LEMMA BudgetReturn ==
  ASSUME TypeOK, BudgetInv,
         \/ ReadFeedback \/ FeedbackGone \/ DeliverFeedback \/ FeedbackRefused
         \/ WorkerGone \/ Crash
  PROVE  BudgetInv'
  <1>1. UNCHANGED <<head, rec, runs, queued, tried>> /\ phase' \notin {"cancel", "trigger"}
    BY DEF ReadFeedback, FeedbackGone, DeliverFeedback, FeedbackRefused, WorkerGone, Crash, runner
  <1>2. RecordSound' /\ RunsCounted'
    BY <1>1 DEF BudgetInv, RecordSound, RunsCounted
  <1>3. Counted(ckpt', 0) /\ (ckpt'.status = "review_stalled" => ckpt'.attempts >= MaxAttempts)
    <2>1. CASE ckpt' = ckpt
      BY <2>1 DEF BudgetInv, AttemptsCounted, StallCounted, Counted
    <2>2. CASE FeedbackGone \/ FeedbackRefused
      <3>1. /\ ckpt'.key = ckpt.key /\ ckpt'.attempts = ckpt.attempts
            /\ ckpt'.status # "review_stalled"
        BY <2>2 DEF FeedbackGone, FeedbackRefused, Returned, TypeOK, Checkpoint
      <3> QED
        BY <3>1 DEF BudgetInv, AttemptsCounted, Counted
    <2> QED
      BY <2>1, <2>2 DEF ReadFeedback, DeliverFeedback, WorkerGone, Crash
  <1>4. Counted(mem', 0) /\ mem'.status # "review_stalled"
    <2>1. CASE DeliverFeedback
      <3>1. mem'.key = NoKey /\ mem'.status = "worker_running"
        BY <2>1 DEF DeliverFeedback, Returned, TypeOK, Checkpoint
      <3> QED
        BY <3>1 DEF Counted, NoKey, Heads, TypeOK
    <2>2. CASE FeedbackRefused \/ WorkerGone \/ Crash
      BY <2>2, FreshCounted DEF FeedbackRefused, WorkerGone, Crash, EndNode
    <2>3. CASE ReadFeedback \/ FeedbackGone
      BY <2>3 DEF ReadFeedback, FeedbackGone, BudgetInv, AttemptsCounted, StallCounted
    <2> QED
      BY <2>1, <2>2, <2>3
  <1> QED
    BY <1>1, <1>2, <1>3, <1>4 DEF BudgetInv, AttemptsCounted, StallCounted, Counted

\* The runner and the world.
LEMMA BudgetEnvironment ==
  ASSUME TypeOK, BudgetInv, Environment
  PROVE  BudgetInv'
  <1>1. UNCHANGED <<phase, ckpt, mem>>
    BY DEF Environment, OpenPullRequest, RecordAppears, TriggerSurfaces, RunFails, RunAnswers,
           StartElsewhere, Push, ReplaceWorker, RecordLost, RunnerFrame, node
  <1>2. StallCounted'
    BY <1>1 DEF BudgetInv, StallCounted
  <1>3. tried[head] \in Nat /\ head \in Heads /\ ckpt \in Checkpoint /\ mem \in Checkpoint
    BY DEF TypeOK
  <1>4. ASSUME head' = head, tried'[head] \in {tried[head], tried[head] + 1}
        PROVE  AttemptsCounted'
    BY <1>1, <1>3, <1>4 DEF BudgetInv, AttemptsCounted, Counted, Checkpoint
  <1>5. CASE OpenPullRequest
    <2>1. UNCHANGED <<head, rec, runs, queued, tried>>
      BY <1>5 DEF OpenPullRequest
    <2> QED
      BY <1>2, <1>4, <2>1 DEF BudgetInv, RecordSound, RunsCounted
  <1>6. CASE RecordAppears \/ ReplaceWorker \/ RecordLost
    <2>1. /\ UNCHANGED <<head, runs, tried>> /\ queued' \in {queued, NoHead}
      BY <1>6 DEF RecordAppears, ReplaceWorker, RecordLost
    <2>2. /\ rec'.run = 0 /\ rec'.target \in {head, NoHead} /\ rec'.verdict = "unknown"
          /\ rec'.status \in {"none", "needs_review"}
          /\ rec'.status = "none" => rec'.target = NoHead
      <3>1. CASE RecordAppears
        BY <3>1 DEF RecordAppears, NoRecord, NoRun
      <3>2. CASE ReplaceWorker \/ RecordLost
        BY <3>2 DEF ReplaceWorker, RecordLost, NoRecord, NoRun
      <3> QED
        BY <1>6, <3>1, <3>2
    <2> QED
      BY <1>2, <1>3, <1>4, <2>1, <2>2
         DEF BudgetInv, RecordSound, RunsCounted, TypeOK, Heads, NoHead
  <1>7. CASE TriggerSurfaces \/ StartElsewhere
    <2>1. PICK t \in Targets : NewRun(t)
      BY <1>7 DEF TriggerSurfaces, StartElsewhere
    <2>2. RecordSound'
      BY <1>7, <2>1 DEF NewRun, Targets, BudgetInv, RecordSound, TypeOK, TriggerSurfaces,
                        StartElsewhere
    <2>3. /\ head' = head /\ tried'[head] \in {tried[head], tried[head] + 1}
          /\ tried'[head] > 0
      BY <1>3, <1>7 DEF TriggerSurfaces, StartElsewhere, TypeOK, BudgetInv, RunsCounted
    <2>4. queued' <= head
      BY <1>3, <1>7 DEF TriggerSurfaces, StartElsewhere, BudgetInv, RunsCounted, Heads, NoHead
    <2> QED
      BY <1>2, <1>4, <2>2, <2>3, <2>4 DEF BudgetInv, RunsCounted
  <1>8. CASE RunFails \/ RunAnswers
    <2>1. UNCHANGED <<head, runs, queued, tried>>
      BY <1>8 DEF RunFails, RunAnswers
    <2>2. /\ rec'.run = rec.run /\ rec'.target = rec.target /\ rec.status = "running"
          /\ \/ rec'.status = "failed" /\ rec'.verdict = rec.verdict
             \/ rec'.status = "done"
      BY <1>8 DEF RunFails, RunAnswers, TypeOK, Record
    <2> QED
      BY <1>2, <1>4, <2>1, <2>2 DEF BudgetInv, RecordSound, RunsCounted
  <1>9. CASE Push
    <2>1. head' = head + 1 /\ head + 1 \in Heads /\ UNCHANGED <<runs, queued, tried>>
      BY <1>3, <1>9, BoundsNatural DEF Push, Heads
    <2>2. AttemptsCounted'
      <3>1. UnknownKey # head + 1 /\ UnknownKey \notin Heads
        BY <2>1, BoundsNatural DEF UnknownKey, Heads
      <3>2. ckpt.key # head + 1 /\ mem.key # head + 1
        BY <1>3, <2>1, <3>1 DEF BudgetInv, AttemptsCounted, Counted, Heads
      <3> QED
        BY <1>1, <1>3, <2>1, <3>2 DEF BudgetInv, AttemptsCounted, Counted, Heads
    <2>3. queued' <= head' /\ queued' # head'
      BY <1>3, <2>1 DEF BudgetInv, RunsCounted, TypeOK, Heads, HeadOrNone, NoHead
    <2>4. CASE Visible
      <3>1. /\ rec'.run = 0 /\ rec'.verdict = "unknown" /\ rec'.status = "needs_review"
            /\ rec'.target \in {head', NoHead}
        BY <1>9, <2>1, <2>4 DEF Push, NoRecord, NoRun
      <3> QED
        BY <1>2, <2>1, <2>2, <2>3, <3>1 DEF BudgetInv, RecordSound, RunsCounted, TypeOK
    <2>5. CASE ~Visible
      <3>1. rec' = rec
        BY <1>9, <2>5 DEF Push
      <3> QED
        BY <1>2, <2>1, <2>2, <2>3, <2>5, <3>1
           DEF BudgetInv, RecordSound, RunsCounted, Visible, TypeOK
    <2> QED
      BY <2>4, <2>5
  <1> QED
    BY <1>5, <1>6, <1>7, <1>8, <1>9 DEF Environment

\* Time.
LEMMA BudgetTime ==
  ASSUME TypeOK, BudgetInv, TimePasses
  PROVE  BudgetInv'
  <1>1. UNCHANGED <<head, runs, queued, tried, phase, mem>>
    BY DEF TimePasses
  <1>2. /\ rec'.run = rec.run /\ rec'.target = rec.target /\ rec'.verdict = rec.verdict
        /\ rec'.status = rec.status
        /\ ckpt'.key = ckpt.key /\ ckpt'.attempts = ckpt.attempts /\ ckpt'.status = ckpt.status
    BY DEF TimePasses, Aged, TypeOK, Record, Checkpoint
  <1> QED
    BY <1>1, <1>2 DEF BudgetInv, RecordSound, RunsCounted, AttemptsCounted, StallCounted, Counted

----------------------------------------------------------------------------
(* The theorems.                                                           *)

\* The initial state satisfies the invariant.
LEMMA InvInit == Init => IInv
  <1> SUFFICES ASSUME Init PROVE IInv
    OBVIOUS
  <1>1. TypeOK
    BY TypeInit
  <1>2. RecordSound /\ RunsCounted
    BY <1>1 DEF Init, RecordSound, RunsCounted, NoRecord, NoRun, NoHead, TypeOK, Heads
  <1>3. AttemptsCounted /\ StallCounted
    BY <1>1, FreshCounted DEF Init, AttemptsCounted, StallCounted, Fresh
  <1>4. FeedbackInv
    BY DEF Init, FeedbackInv, FeedbackOnce, DeliveryKnown, SendingSound
  <1> QED
    BY <1>1, <1>2, <1>3, <1>4 DEF IInv, BudgetInv

\* Every step keeps the invariant.
LEMMA InvStep == IInv /\ [Next]_vars => IInv'
  <1> SUFFICES ASSUME IInv, [Next]_vars PROVE IInv'
    OBVIOUS
  <1>0. TypeOK /\ BudgetInv /\ RecordSound /\ FeedbackInv /\ SendingSound
    BY DEF IInv, BudgetInv, FeedbackInv
  <1>1. TypeOK'
    BY <1>0, TypeStep
  <1>2. CASE InspectWorker
    <2>1. BudgetInv'
      BY <1>0, <1>2, BudgetMissing, BudgetVerdict, BudgetWatch DEF InspectWorker
    <2> QED
      BY <1>0, <1>1, <1>2, <2>1, FeedbackInspect DEF IInv
  <1>3. CASE CancelReview \/ TriggerReview \/ SaveCheckpoint
    BY <1>0, <1>1, <1>3, BudgetCalls, FeedbackCalls DEF IInv
  <1>4. CASE \/ ReadFeedback \/ FeedbackGone \/ DeliverFeedback \/ FeedbackRefused
             \/ WorkerGone
    BY <1>0, <1>1, <1>4, BudgetReturn, FeedbackReturn DEF IInv
  <1>5. CASE Crash
    BY <1>0, <1>1, <1>5, BudgetReturn, FeedbackOutside DEF IInv
  <1>6. CASE Environment
    BY <1>0, <1>1, <1>6, BudgetEnvironment, FeedbackOutside DEF IInv
  <1>7. CASE TimePasses
    BY <1>0, <1>1, <1>7, BudgetTime, FeedbackOutside DEF IInv
  <1>8. CASE UNCHANGED vars
    <2>1. UNCHANGED <<head, rec, runs, queued, tried, ckpt, mem, phase, read, delivered,
                      repeats, disturbed>>
      BY <1>8 DEF vars, runner, node, feedback
    <2>2. BudgetInv'
      BY <1>0, <2>1
         DEF BudgetInv, RecordSound, RunsCounted, AttemptsCounted, StallCounted, Counted
    <2>3. FeedbackInv'
      BY <1>0, <2>1
         DEF FeedbackInv, FeedbackOnce, DeliveryKnown, SendingSound, SaysSent, Excused
    <2> QED
      BY <1>1, <2>2, <2>3 DEF IInv
  <1> QED
    BY <1>2, <1>3, <1>4, <1>5, <1>6, <1>7, <1>8 DEF Next, Node

\* The invariant holds in every reachable state (inspect_worker, return_review_feedback).
THEOREM ReviewInvariant == Spec => []IInv
  BY InvInit, InvStep, PTL DEF Spec

\* A run's findings are sent to the worker once, unless there was a disturbance: the
\* review_run_id and feedback_sent that return_review_feedback saves.
THEOREM FeedbackSentOnce == Spec => []FeedbackOnce
  <1>1. IInv => FeedbackOnce
    BY DEF IInv, FeedbackInv
  <1> QED
    BY <1>1, ReviewInvariant, PTL

\* A review is given up only after max_attempts attempts at this head: an older head's do not
\* count (same_review in inspect_worker).
THEOREM StallOnlyAfterBudget == Spec => []StallMeansTried
  <1>1. IInv => StallMeansTried
    <2> SUFFICES ASSUME IInv, ckpt.status = "review_stalled", ckpt.key \in Heads,
                        ckpt.key = rec.target
                 PROVE  tried[ckpt.key] >= MaxAttempts
      BY DEF StallMeansTried
    <2>1. ckpt.key = head
      BY DEF IInv, BudgetInv, RecordSound, Heads, NoHead
    <2>2. ckpt.attempts <= tried[head] /\ ckpt.attempts >= MaxAttempts
      BY <2>1 DEF IInv, TypeOK, BudgetInv, AttemptsCounted, StallCounted, Counted
    <2>3. ckpt.attempts \in Nat /\ tried[head] \in Nat
      BY DEF IInv, TypeOK, Checkpoint
    <2> QED
      BY <2>1, <2>2, <2>3, AttemptsPositive
  <1> QED
    BY <1>1, ReviewInvariant, PTL

\* The types of the watchdog's state (SupervisorState, ReviewResult).
THEOREM ReviewTypes == Spec => []TypeOK
  <1>1. IInv => TypeOK
    BY DEF IInv
  <1> QED
    BY <1>1, ReviewInvariant, PTL

----------------------------------------------------------------------------
(* How many attempts there can be.                                         *)

\* What the node knows: its update from the moment that calls are to come until it is saved.
Noted == IF phase \in {"cancel", "trigger", "save"} THEN mem ELSE ckpt

\* A trigger is about to be made; one made for an older head has no run yet.
Coming == IF phase \in {"cancel", "trigger"} /\ mem.worker = worker THEN 1 ELSE 0
Stale == IF queued \notin {NoHead, head} THEN 1 ELSE 0

\* The node has counted attempts on the review of the record, or on the missing one.
Counting ==
  /\ Noted.worker = worker /\ Noted.attempts > 0
  /\ IF Visible THEN Noted.key = Key ELSE Noted.key # NoKey

\* A run that the node does not know is there, or may surface: it sets the count back to one.
Resetting ==
  \/ queued # NoHead /\ (rec.status # "needs_review" \/ Noted.run # NoRun)
  \/ Noted.run # NoRun /\ rec.run # NoRun /\ Noted.run # rec.run

Higher(m, n) == IF m >= n THEN m ELSE n

\* The record's run has a verdict.
Decided == rec.verdict # "unknown"

\* How many more attempts at the current head can come without another disturbance.  A missing
\* record may still come under another key, and with a budget of its own.
LeftMissing ==
  MaxAttempts
    + Higher(Stale, Coming + MaxAttempts - (IF Counting THEN Noted.attempts ELSE 0))
LeftComing ==
  CASE Counting -> 1 + Stale + MaxAttempts - Noted.attempts
    [] ~Counting /\ rec.status = "needs_review" -> 1 + MaxAttempts
    [] ~Counting /\ rec.status # "needs_review" -> Stale + MaxAttempts
LeftWaiting ==
  CASE Decided -> IF queued = NoHead THEN 0 ELSE Stale + MaxAttempts - 1
    [] ~Decided /\ Counting ->
         Stale + MaxAttempts - (IF Resetting THEN 1 ELSE Noted.attempts)
    [] ~Decided /\ ~Counting /\ rec.status = "needs_review" -> Stale + MaxAttempts
    [] ~Decided /\ ~Counting /\ rec.status # "needs_review" -> Stale + MaxAttempts - 1
Left == CASE ~Visible -> LeftMissing
          [] Visible /\ Coming = 1 -> LeftComing
          [] Visible /\ Coming # 1 -> LeftWaiting

Budget == 2 * MaxAttempts * (1 + disturbed)

\* What updates are made of.
NodeSound ==
  /\ ckpt.attempts <= MaxAttempts /\ mem.attempts <= MaxAttempts
  /\ ckpt.worker <= worker /\ mem.worker <= worker
  /\ phase \in {"cancel", "trigger"} =>
       /\ mem.attempts > 0 /\ mem.key # NoKey /\ mem.run = NoRun
       /\ mem.worker # worker => ckpt.worker # worker
  /\ phase \in {"feedback", "send"} => ckpt.attempts = 0
  /\ rec.status = "needs_review" => rec.run = NoRun

\* The attempts made and those that can still come are within the budget.
SpentBounded ==
  /\ \A h \in Heads : h > head => tried[h] = 0
  /\ AttemptsBounded
  /\ tried[head] + Left <= Budget

SpendInv == IInv /\ NodeSound /\ SpentBounded

\* What the node has noted, and whether it is about to make a call.
LEMMA NotedSound ==
  ASSUME TypeOK, NodeSound
  PROVE  /\ Noted \in Checkpoint /\ Noted.attempts \in 0 .. MaxAttempts
         /\ Coming = 1 => /\ Noted = mem /\ Noted.attempts > 0 /\ Noted.run = NoRun
                          /\ Noted.worker = worker /\ Noted.key # NoKey
         /\ Coming \in {0, 1} /\ Stale \in {0, 1}
  <1>1. ckpt \in Checkpoint /\ mem \in Checkpoint /\ MaxAttempts \in Nat
    BY AttemptsPositive DEF TypeOK
  <1>2. Noted \in Checkpoint /\ Noted.attempts <= MaxAttempts
    BY <1>1 DEF Noted, NodeSound
  <1>3. Noted.attempts \in Nat
    BY <1>2 DEF Checkpoint
  <1>4. Coming = 1 => phase \in {"cancel", "trigger"} /\ mem.worker = worker /\ Noted = mem
    BY DEF Coming, Noted
  <1> QED
    BY <1>1, <1>2, <1>3, <1>4 DEF NodeSound, Coming, Stale

\* There are never more than two budgets left.
LEMMA LeftRange ==
  TypeOK /\ NodeSound => Left \in 0 .. 2 * MaxAttempts /\ (Coming = 1 => Left >= 1)
  <1> SUFFICES ASSUME TypeOK, NodeSound
               PROVE  Left \in 0 .. 2 * MaxAttempts /\ (Coming = 1 => Left >= 1)
    OBVIOUS
  <1>1. /\ Noted.attempts \in 0 .. MaxAttempts /\ Coming \in {0, 1} /\ Stale \in {0, 1}
        /\ Coming = 1 => Noted.attempts > 0
        /\ Coming = 1 /\ ~Visible => Counting
        /\ MaxAttempts \in Nat \ {0}
    BY NotedSound, AttemptsPositive DEF Counting
  <1>2. ~Visible => LeftMissing \in 1 .. 2 * MaxAttempts
    BY <1>1 DEF LeftMissing, Higher
  <1>3. Coming = 1 => LeftComing \in 1 .. 2 * MaxAttempts
    BY <1>1 DEF LeftComing
  <1>4. Counting => Noted.attempts > 0
    BY DEF Counting
  <1>5. Coming # 1 => LeftWaiting \in 0 .. 2 * MaxAttempts
    BY <1>1, <1>4 DEF LeftWaiting
  <1> QED
    BY <1>1, <1>2, <1>3, <1>5 DEF Left

\* The same of the next state.
LEMMA LeftRangeNext == TypeOK' /\ NodeSound' => (Left \in 0 .. 2 * MaxAttempts)'
  <1>1. TypeOK /\ NodeSound => Left \in 0 .. 2 * MaxAttempts
    BY LeftRange
  <1> QED
    BY <1>1, PTL

\* An attempt within what is left, or none, keeps the bound.
LEMMA SpendKept ==
  ASSUME TypeOK, TypeOK', NodeSound, NodeSound', SpentBounded,
         head' = head, disturbed' = disturbed,
         \/ tried' = tried /\ Left' <= Left
         \/ tried' = [tried EXCEPT ![head] = @ + 1] /\ Left' + 1 <= Left
  PROVE  SpentBounded'
  <1>1. /\ head \in Heads /\ tried \in [Heads -> Nat] /\ Heads \subseteq Nat
        /\ MaxAttempts \in Nat /\ disturbed \in Nat
    BY AttemptsPositive, BoundsNatural DEF TypeOK, Heads
  <1>2. Left \in Nat /\ Left' \in Nat
    <2>1. Left \in Nat
      BY <1>1, LeftRange
    <2>2. Left' \in Nat
      BY <1>1, LeftRangeNext
    <2> QED
      BY <2>1, <2>2
  <1>3. /\ \A h \in Heads \ {head} : tried'[h] = tried[h]
        /\ tried[head] \in Nat
        /\ \/ tried'[head] = tried[head] /\ Left' <= Left
           \/ tried'[head] = tried[head] + 1 /\ Left' + 1 <= Left
    BY <1>1
  <1> DEFINE B == 2 * MaxAttempts * (1 + disturbed)
  <1>4. B \in Nat /\ tried[head] + Left <= B
    BY <1>1 DEF SpentBounded, Budget
  <1>5. tried'[head] + Left' <= B /\ tried'[head] <= B
    <2> DEFINE t == tried[head]
               l == Left
               m == Left'
               s == tried'[head]
    <2>1. /\ t \in Nat /\ l \in Nat /\ m \in Nat /\ B \in Nat /\ t + l <= B
          /\ (s = t /\ m <= l) \/ (s = t + 1 /\ m + 1 <= l)
      BY <1>2, <1>3, <1>4
    <2> HIDE DEF B, t, l, m, s
    <2>2. s + m <= B /\ s <= B
      BY <2>1
    <2> QED
      BY <2>2 DEF t, l, m, s
  <1>6. \A h \in Heads : h > head => tried'[h] = 0
    BY <1>1, <1>3 DEF SpentBounded
  <1>7. \A h \in Heads : tried'[h] <= B
    BY <1>3, <1>5 DEF SpentBounded, AttemptsBounded
  <1> QED
    BY <1>5, <1>6, <1>7 DEF SpentBounded, AttemptsBounded, Budget

\* What a poll's update or its calls to come mean for the count.
LEMMA PollNoted ==
  ASSUME TypeOK, NodeSound, NEW u, NEW p,
         u.attempts <= MaxAttempts, u.worker <= worker,
         \/ Update(u, p) /\ p \in {"idle", "feedback"} /\ (p = "feedback" => u.attempts = 0)
         \/ /\ Call(u, p) /\ p \in {"cancel", "trigger"}
            /\ u.attempts > 0 /\ u.key # NoKey /\ u.run = NoRun /\ u.worker = worker
  PROVE  /\ NodeSound'
         /\ UNCHANGED <<head, worker, rec, queued, tried, disturbed>>
         /\ Noted = ckpt /\ Coming = 0 /\ Noted' = u /\ Stale' = Stale
         /\ Coming' = IF p \in {"cancel", "trigger"} THEN 1 ELSE 0
  <1>1. phase = "idle" /\ UNCHANGED <<head, worker, rec, queued, tried, disturbed>>
    BY DEF Update, Call, runner
  <1>2. Noted = ckpt /\ Coming = 0 /\ Stale' = Stale
    BY <1>1 DEF Noted, Coming, Stale
  <1>3. CASE Update(u, p) /\ p \in {"idle", "feedback"} /\ (p = "feedback" => u.attempts = 0)
    <2>1. ckpt' = u /\ mem' = mem /\ phase' = p
      BY <1>3 DEF Update
    <2> QED
      BY <1>1, <1>2, <1>3, <2>1 DEF Noted, Coming, NodeSound
  <1>4. CASE /\ Call(u, p) /\ p \in {"cancel", "trigger"}
             /\ u.attempts > 0 /\ u.key # NoKey /\ u.run = NoRun /\ u.worker = worker
    <2>1. ckpt' = ckpt /\ mem' = u /\ phase' = p
      BY <1>4 DEF Call
    <2> QED
      BY <1>1, <1>2, <1>4, <2>1 DEF Noted, Coming, NodeSound
  <1> QED
    BY <1>3, <1>4

\* Polls without a record.
LEMMA SpendMissing ==
  ASSUME TypeOK, NodeSound,
         \/ InitialReview \/ NothingToReview \/ AwaitRecord \/ RestartMissing \/ GiveUpMissing
  PROVE  /\ NodeSound' /\ Left' <= Left
         /\ UNCHANGED <<head, tried, disturbed>>
  <1>1. /\ ckpt \in Checkpoint /\ ckpt.attempts \in Nat /\ ckpt.attempts <= MaxAttempts
        /\ ckpt.worker <= worker /\ worker \in Nat /\ MaxAttempts \in Nat \ {0}
    BY AttemptsPositive DEF TypeOK, Checkpoint, NodeSound
  <1>2. ~Visible /\ Stale \in {0, 1}
    BY NotedSound DEF InitialReview, NothingToReview, AwaitRecord, RestartMissing, GiveUpMissing
  <1>3. CASE InitialReview
    <2> DEFINE u == [ckpt EXCEPT !.worker = worker, !.run = NoRun, !.key = UnknownKey,
                                 !.started = "fresh", !.attempts = 1,
                                 !.status = "review_pending"]
    <2>1. /\ u.key = UnknownKey /\ u.attempts = 1 /\ u.worker = worker /\ u.run = NoRun
      BY <1>1 DEF Checkpoint
    <2>2. UnknownKey # NoKey
      BY BoundsNatural DEF UnknownKey, NoKey
    <2>3. Call(u, "trigger") /\ ~Watched
      BY <1>3 DEF InitialReview
    <2> HIDE DEF u
    <2>4. /\ NodeSound' /\ UNCHANGED <<head, worker, rec, queued, tried, disturbed>>
          /\ Noted = ckpt /\ Coming = 0 /\ Noted' = u /\ Stale' = Stale /\ Coming' = 1
      BY <1>1, <2>1, <2>2, <2>3, PollNoted
    <2>5. Counting' /\ ~Counting
      BY <1>1, <1>2, <2>1, <2>2, <2>3, <2>4 DEF Counting, Watched, SameWorker, Visible
    <2>6. Left = MaxAttempts + MaxAttempts /\ Left' = MaxAttempts + MaxAttempts
      BY <1>1, <1>2, <2>1, <2>4, <2>5 DEF Left, LeftMissing, Higher, Visible
    <2> QED
      BY <1>1, <2>4, <2>6
  <1>4. CASE NothingToReview \/ AwaitRecord \/ GiveUpMissing
    <2>1. PICK st \in {"worker_running", "review_pending", "review_stalled"} :
            Update([ckpt EXCEPT !.status = st], "idle")
      BY <1>4 DEF NothingToReview, AwaitRecord, GiveUpMissing, Return
    <2> DEFINE u == [ckpt EXCEPT !.status = st]
    <2>2. /\ u.key = ckpt.key /\ u.attempts = ckpt.attempts /\ u.worker = ckpt.worker
      BY <1>1 DEF Checkpoint
    <2>7. Update(u, "idle")
      BY <2>1
    <2> HIDE DEF u
    <2>3. /\ NodeSound' /\ UNCHANGED <<head, worker, rec, queued, tried, disturbed>>
          /\ Noted = ckpt /\ Coming = 0 /\ Noted' = u /\ Stale' = Stale /\ Coming' = 0
      BY <1>1, <2>2, <2>7, PollNoted
    <2>4. Counting' = Counting
      BY <1>2, <2>2, <2>3 DEF Counting, Visible
    <2>5. Left' = Left
      BY <1>1, <1>2, <2>2, <2>3, <2>4 DEF Left, LeftMissing, Visible
    <2>6. Left \in Nat
      BY <1>1, LeftRange
    <2> QED
      BY <2>3, <2>5, <2>6
  <1>5. CASE RestartMissing
    <2> DEFINE u == [ckpt EXCEPT !.worker = worker, !.run = NoRun, !.started = "fresh",
                                 !.attempts = @ + 1, !.status = "review_pending"]
    <2>1. /\ u.key = ckpt.key /\ u.attempts = ckpt.attempts + 1 /\ u.worker = worker
          /\ u.run = NoRun
      BY <1>1 DEF Checkpoint
    <2>2. Call(u, "trigger") /\ Watched /\ ckpt.attempts < MaxAttempts
      BY <1>5 DEF RestartMissing
    <2> HIDE DEF u
    <2>3. /\ NodeSound' /\ UNCHANGED <<head, worker, rec, queued, tried, disturbed>>
          /\ Noted = ckpt /\ Coming = 0 /\ Noted' = u /\ Stale' = Stale /\ Coming' = 1
      BY <1>1, <2>1, <2>2, PollNoted DEF Watched
    <2>4. Counting' /\ Counting
      BY <1>1, <1>2, <2>1, <2>2, <2>3 DEF Counting, Watched, SameWorker, Visible
    <2>5. Left' = Left
      BY <1>1, <1>2, <2>1, <2>3, <2>4 DEF Left, LeftMissing, Higher, Visible
    <2>6. Left \in Nat
      BY <1>1, LeftRange
    <2> QED
      BY <2>3, <2>5, <2>6
  <1> QED
    BY <1>3, <1>4, <1>5

\* What is left depends on the record, the accepted trigger and what the node has counted.
LEMMA LeftSame ==
  ASSUME UNCHANGED <<head, worker, queued>>, Coming' = Coming,
         rec'.status = rec.status, rec'.run = rec.run, rec'.target = rec.target,
         Decided' = Decided,
         \/ /\ Noted'.worker = Noted.worker /\ Noted'.attempts = Noted.attempts
            /\ Noted'.key = Noted.key /\ Noted'.run = Noted.run
         \/ ~Counting /\ ~Counting'
  PROVE  Left' = Left
  <1>1. Stale' = Stale /\ Visible' = Visible /\ Key' = Key
    BY DEF Stale, Visible, Key
  <1>2. Counting' = Counting
    BY <1>1 DEF Counting
  <1>3. CASE ~Counting
    BY <1>1, <1>2, <1>3 DEF Left, LeftMissing, LeftComing, LeftWaiting
  <1>4. CASE Counting
    <2>1. /\ Noted'.attempts = Noted.attempts /\ Noted'.run = Noted.run
      BY <1>2, <1>4
    <2>2. Resetting' = Resetting
      BY <2>1 DEF Resetting
    <2> QED
      BY <1>1, <1>2, <2>1, <2>2 DEF Left, LeftMissing, LeftComing, LeftWaiting
  <1> QED
    BY <1>3, <1>4

\* Once a run has a verdict, only an accepted trigger is left to come.
LEMMA LeftAnswered ==
  ASSUME Decided, Visible, Coming = 0
  PROVE  Left = IF queued = NoHead THEN 0 ELSE Stale + MaxAttempts - 1
  BY DEF Left, LeftWaiting

\* Polls that find a verdict.
LEMMA SpendVerdict ==
  ASSUME TypeOK, RecordSound, NodeSound, ChangesRequested \/ Approved
  PROVE  /\ NodeSound' /\ Left' <= Left
         /\ UNCHANGED <<head, tried, disturbed>>
  <1>1. /\ ckpt \in Checkpoint /\ ckpt.attempts \in Nat /\ ckpt.attempts <= MaxAttempts
        /\ ckpt.worker <= worker /\ worker \in Nat /\ MaxAttempts \in Nat \ {0}
    BY AttemptsPositive DEF TypeOK, Checkpoint, NodeSound
  <1>2. Decided /\ Visible
    BY DEF ChangesRequested, Approved, RecordSound, Decided, Visible
  <1>3. \E u, p : /\ Update(u, p) /\ p \in {"idle", "feedback"}
                  /\ p = "feedback" => u.attempts = 0
                  /\ u.attempts <= MaxAttempts /\ u.worker <= worker
    <2>1. CASE ChangesRequested
      <3> DEFINE known == [Base EXCEPT !.sent = TRUE, !.run = rec.run,
                                       !.status = "worker_running"]
                 new == [Base EXCEPT !.worker = worker, !.run = NoRun, !.key = NoKey,
                                     !.started = "none", !.attempts = 0,
                                     !.status = "changes_requested"]
      <3>1. known.attempts = ckpt.attempts /\ known.worker = ckpt.worker
        BY <1>1 DEF Base, Checkpoint
      <3>2. new.attempts = 0 /\ new.worker = worker
        BY <1>1 DEF Base, Checkpoint
      <3>3. Update(known, "idle") \/ Update(new, "feedback")
        BY <2>1 DEF ChangesRequested, Return
      <3> HIDE DEF known, new
      <3> QED
        BY <1>1, <3>1, <3>2, <3>3
    <2>2. CASE Approved
      <3>1. PICK st \in {"review_invalid", "review_approved"} :
              Update([Base EXCEPT !.status = st], "idle")
        BY <2>2 DEF Approved, Return
      <3> DEFINE u == [Base EXCEPT !.status = st]
      <3>2. u.attempts = ckpt.attempts /\ u.worker = ckpt.worker
        BY <1>1 DEF Base, Checkpoint
      <3>3. Update(u, "idle")
        BY <3>1
      <3> HIDE DEF u
      <3> QED
        BY <1>1, <3>2, <3>3
    <2> QED
      BY <2>1, <2>2
  <1>4. /\ NodeSound' /\ UNCHANGED <<head, worker, rec, queued, tried, disturbed>>
        /\ Coming = 0 /\ Coming' = 0 /\ Stale' = Stale
    BY <1>3, PollNoted
  <1>5. Left' = IF queued = NoHead THEN 0 ELSE Stale + MaxAttempts - 1
    BY <1>2, <1>4 DEF Left, LeftWaiting, Visible, Decided
  <1>6. Left' = Left /\ Left \in Nat
    BY <1>1, <1>2, <1>4, <1>5, LeftAnswered, LeftRange
  <1> QED
    BY <1>4, <1>6

\* What a poll finds left when no verdict is there: it is about to make no call.
LEMMA LeftPolled ==
  ASSUME Unanswered, RecordSound, TypeOK, NodeSound, phase = "idle"
  PROVE  /\ Coming = 0 /\ Noted = ckpt /\ ~Decided
         /\ Counting <=> SameReview /\ ckpt.attempts > 0
         /\ Left = IF Counting THEN Stale + MaxAttempts
                                    - (IF Resetting THEN 1 ELSE ckpt.attempts)
                   ELSE IF rec.status = "needs_review" THEN Stale + MaxAttempts
                   ELSE Stale + MaxAttempts - 1
  <1>1. Coming = 0 /\ Noted = ckpt /\ Visible
    BY DEF Coming, Noted, Unanswered
  <1>2. ~Decided
    BY DEF Unanswered, Decided
  <1>3. Counting <=> SameReview /\ ckpt.attempts > 0
    BY <1>1 DEF Counting, SameReview, SameWorker
  <1> QED
    BY <1>1, <1>2, <1>3 DEF Left, LeftWaiting

\* What the poll counts, before it makes a call of its own.
LEMMA PolledCount ==
  ASSUME Unanswered, RecordSound, TypeOK, NodeSound, phase = "idle"
  PROVE  /\ Attempts \in 0 .. MaxAttempts
         /\ Attempts > 0 => Stale + MaxAttempts - Attempts <= Left
         /\ rec.status # "needs_review" /\ Attempts = 0 => Stale + MaxAttempts - 1 <= Left
         /\ rec.status = "needs_review" =>
              /\ Attempts = 0 => Left = Stale + MaxAttempts
              /\ Attempts > 0 => Counting /\ Attempts = ckpt.attempts
         /\ Counting /\ ~Resetting => Attempts = ckpt.attempts
  <1>1. /\ ckpt.attempts \in 0 .. MaxAttempts /\ MaxAttempts \in Nat \ {0}
        /\ Stale \in {0, 1} /\ Left \in Nat
    BY AttemptsPositive, NotedSound, LeftRange DEF TypeOK, Checkpoint, NodeSound
  <1>2. /\ Noted = ckpt /\ ~Decided
        /\ Counting <=> SameReview /\ ckpt.attempts > 0
        /\ Left = IF Counting THEN Stale + MaxAttempts
                                   - (IF Resetting THEN 1 ELSE ckpt.attempts)
                  ELSE IF rec.status = "needs_review" THEN Stale + MaxAttempts
                  ELSE Stale + MaxAttempts - 1
    BY LeftPolled
  <1>3. /\ StartedElsewhere => Attempts = 1 /\ SameReview
        /\ SameReview /\ ~StartedElsewhere => Attempts = ckpt.attempts
        /\ ~SameReview => Attempts = 0
    BY DEF Attempts, StartedElsewhere
  <1>4. StartedElsewhere /\ Counting => Resetting
    BY <1>2 DEF StartedElsewhere, Resetting
  <1>5. rec.status = "needs_review" => ~StartedElsewhere
    BY DEF NodeSound, StartedElsewhere
  <1>6. Attempts \in 0 .. MaxAttempts
    BY <1>1, <1>3
  <1>7. Attempts > 0 => Stale + MaxAttempts - Attempts <= Left
    <2>1. CASE Counting /\ ~Resetting
      BY <1>1, <1>2, <1>3, <1>4, <2>1
    <2>2. CASE ~(Counting /\ ~Resetting)
      <3>1. Attempts > 0 => Left >= Stale + MaxAttempts - 1
        BY <1>1, <1>2, <2>2
      <3> QED
        BY <1>1, <1>6, <3>1
    <2> QED
      BY <2>1, <2>2
  <1> QED
    BY <1>1, <1>2, <1>3, <1>4, <1>5, <1>6, <1>7

\* The poll that goes on counting does not take a run it knows for another.
LEMMA RunKept ==
  ASSUME Unanswered, RecordSound, TypeOK, NodeSound, phase = "idle", Counting, ~Resetting,
         NEW r, r = rec.run \/ r = RunNow
  PROVE  /\ queued # NoHead /\ rec.status = "needs_review" => RunNow = NoRun
         /\ queued # NoHead => rec.status = "needs_review"
         /\ r # NoRun /\ rec.run # NoRun => r = rec.run
  <1>1. /\ Noted = ckpt /\ ~Decided
        /\ SameReview /\ ckpt.attempts > 0 /\ ckpt.attempts \in Nat
    BY LeftPolled DEF TypeOK, Checkpoint
  <1>2. ~StartedElsewhere
    BY <1>1 DEF StartedElsewhere, Resetting
  <1>3. ~Adopted /\ KnownRun = ckpt.run
    BY <1>1, <1>2 DEF Adopted, Attempts, KnownRun
  <1>4. RunNow = IF ckpt.run = NoRun THEN rec.run ELSE ckpt.run
    BY <1>3 DEF RunNow
  <1>5. rec.status = "needs_review" => rec.run = NoRun
    BY DEF NodeSound
  <1> QED
    BY <1>1, <1>4, <1>5 DEF Resetting

\* A poll that notes n attempts and makes no call leaves no more than there was.
LEMMA WatchReturns ==
  ASSUME Unanswered, RecordSound, TypeOK, NodeSound, phase = "idle",
         NEW st, NEW r, NEW a, NEW n \in 1 .. MaxAttempts, Return(Watch(st, r, a, n)),
         Stale + MaxAttempts - n <= Left, Stale + MaxAttempts - 1 <= Left \/ Counting,
         r = RunNow \/ (r = rec.run /\ rec.status # "needs_review")
  PROVE  /\ NodeSound' /\ Left' <= Left
         /\ UNCHANGED <<head, tried, disturbed>>
  <1> DEFINE u == Watch(st, r, a, n)
  <1>1. u.worker = worker /\ u.key = Key /\ u.run = r /\ u.attempts = n
    BY DEF Watch, Base, TypeOK, Checkpoint
  <1>2. Update(u, "idle")
    BY DEF Return
  <1>3. worker \in Nat /\ MaxAttempts \in Nat \ {0} /\ Stale \in {0, 1} /\ Left \in Nat
    BY AttemptsPositive, NotedSound, LeftRange DEF TypeOK
  <1> HIDE DEF u
  <1>4. /\ NodeSound' /\ UNCHANGED <<head, worker, rec, queued, tried, disturbed>>
        /\ Noted = ckpt /\ Coming = 0 /\ Noted' = u /\ Stale' = Stale /\ Coming' = 0
    BY <1>1, <1>2, <1>3, PollNoted
  <1>5. Visible /\ ~Decided
    BY DEF Unanswered, Decided
  <1>6. Counting'
    BY <1>1, <1>4, <1>5 DEF Counting, Visible, Key
  <1>7. Left' = Stale + MaxAttempts - (IF Resetting' THEN 1 ELSE n)
    BY <1>1, <1>4, <1>5, <1>6 DEF Left, LeftWaiting, Visible, Decided
  <1>8. ASSUME Resetting' PROVE Stale + MaxAttempts - 1 <= Left
    <2>1. CASE Counting /\ ~Resetting
      <3>1. ~Resetting'
        BY <1>1, <1>4, <2>1, RunKept DEF Resetting
      <3> QED
        BY <1>8, <3>1
    <2>2. CASE Counting /\ Resetting
      BY <1>3, <2>2, LeftPolled
    <2> QED
      BY <2>1, <2>2
  <1> QED
    BY <1>3, <1>4, <1>7, <1>8

\* A poll that starts another attempt after c of them has that one still to come.
LEMMA WatchCalls ==
  ASSUME Unanswered, RecordSound, TypeOK, NodeSound, phase = "idle",
         NEW c \in 0 .. MaxAttempts - 1, NEW p \in {"cancel", "trigger"}, Call(Restart(c + 1), p),
         Stale + MaxAttempts - c <= Left
  PROVE  /\ NodeSound' /\ Left' <= Left
         /\ UNCHANGED <<head, tried, disturbed>>
  <1> DEFINE u == Restart(c + 1)
  <1>1. u.worker = worker /\ u.key = Key /\ u.run = NoRun /\ u.attempts = c + 1
    BY DEF Restart, Watch, Base, TypeOK, Checkpoint
  <1>2. Key # NoKey
    BY BoundsNatural DEF Key, NoKey, NoHead, UnknownKey, TypeOK, Record, HeadOrNone, Heads
  <1>3. worker \in Nat /\ MaxAttempts \in Nat \ {0} /\ Stale \in {0, 1} /\ Left \in Nat
    BY AttemptsPositive, NotedSound, LeftRange DEF TypeOK
  <1> HIDE DEF u
  <1>4. /\ NodeSound' /\ UNCHANGED <<head, worker, rec, queued, tried, disturbed>>
        /\ Noted = ckpt /\ Coming = 0 /\ Noted' = u /\ Stale' = Stale /\ Coming' = 1
    <2>1. Call(u, p)
      BY DEF u
    <2> QED
      BY <1>1, <1>2, <1>3, <2>1, PollNoted
  <1>5. Visible
    BY DEF Unanswered
  <1>6. Counting'
    BY <1>1, <1>3, <1>4, <1>5 DEF Counting, Visible, Key
  <1>7. Left' = 1 + Stale + MaxAttempts - (c + 1)
    BY <1>1, <1>4, <1>5, <1>6 DEF Left, LeftComing, Visible
  <1> QED
    BY <1>3, <1>4, <1>7

\* Polls of an unanswered review.
LEMMA SpendWatch ==
  ASSUME TypeOK, RecordSound, NodeSound,
         \/ RestartFailed \/ GiveUpFailed \/ FirstTrigger
         \/ AwaitVerdict \/ RestartTimedOut \/ GiveUpTimedOut
  PROVE  /\ NodeSound' /\ Left' <= Left
         /\ UNCHANGED <<head, tried, disturbed>>
  <1>1. Unanswered /\ phase = "idle"
    BY DEF RestartFailed, GiveUpFailed, FirstTrigger, AwaitVerdict, RestartTimedOut,
           GiveUpTimedOut, UnderWay, Return, Update, Call
  <1>2. /\ MaxAttempts \in Nat \ {0} /\ Stale \in {0, 1} /\ Left \in Nat
        /\ Attempts \in 0 .. MaxAttempts
        /\ Attempts > 0 => Stale + MaxAttempts - Attempts <= Left
        /\ rec.status # "needs_review" /\ Attempts = 0 => Stale + MaxAttempts - 1 <= Left
        /\ rec.status = "needs_review" =>
             /\ Attempts = 0 => Left = Stale + MaxAttempts
             /\ Attempts > 0 => Counting
    BY <1>1, AttemptsPositive, NotedSound, LeftRange, PolledCount
  <1>3. rec.status # "needs_review" /\ ~Counting => Stale + MaxAttempts - 1 <= Left
    BY <1>1, <1>2, LeftPolled
  <1>4. ASSUME rec.status = "failed"
        PROVE  TriedOnce \in 1 .. MaxAttempts /\ Stale + MaxAttempts - TriedOnce <= Left
    BY <1>2, <1>4 DEF TriedOnce
  <1>5. ASSUME UnderWay
        PROVE  AttemptsNow \in 1 .. MaxAttempts /\ Stale + MaxAttempts - AttemptsNow <= Left
    BY <1>2, <1>5 DEF AttemptsNow, Adopted, UnderWay
  <1>6. CASE RestartFailed
    <2>1. /\ rec.status = "failed" /\ TriedOnce < MaxAttempts
          /\ Call(Restart(TriedOnce + 1), "trigger")
      BY <1>6 DEF RestartFailed
    <2> QED
      BY <1>1, <1>2, <1>4, <2>1, WatchCalls
  <1>7. CASE GiveUpFailed
    <2>1. /\ rec.status = "failed"
          /\ \E a : Return(Watch("review_stalled", rec.run, a, TriedOnce))
      BY <1>7 DEF GiveUpFailed
    <2> QED
      BY <1>1, <1>3, <1>4, <2>1, WatchReturns
  <1>8. CASE FirstTrigger
    <2>1. Call(Restart(0 + 1), "trigger") /\ Stale + MaxAttempts - 0 <= Left
      BY <1>2, <1>8 DEF FirstTrigger
    <2> QED
      BY <1>1, <1>2, <2>1, WatchCalls
  <1>9. CASE AwaitVerdict \/ GiveUpTimedOut
    <2>1. UnderWay /\ \E st, a : Return(Watch(st, RunNow, a, AttemptsNow))
      BY <1>9 DEF AwaitVerdict, GiveUpTimedOut
    <2>2. Stale + MaxAttempts - 1 <= Left \/ Counting
      BY <1>2, <1>3, <2>1 DEF UnderWay
    <2> QED
      BY <1>1, <1>5, <2>1, <2>2, WatchReturns
  <1>10. CASE RestartTimedOut
    <2>1. /\ UnderWay /\ AttemptsNow < MaxAttempts
          /\ \E p \in {"cancel", "trigger"} : Call(Restart(AttemptsNow + 1), p)
      BY <1>10 DEF RestartTimedOut
    <2> QED
      BY <1>1, <1>2, <1>5, <2>1, WatchCalls
  <1> QED
    BY <1>6, <1>7, <1>8, <1>9, <1>10

\* The calls of inspect_worker and its checkpoint: a trigger is the attempt that was to come.
LEMMA SpendCancel ==
  ASSUME TypeOK, NodeSound, CancelReview
  PROVE  /\ NodeSound' /\ Left' <= Left
         /\ UNCHANGED <<head, tried, disturbed>>
  <1>1. /\ phase = "cancel" /\ phase' = "trigger" /\ mem.worker = worker
        /\ UNCHANGED <<head, worker, queued, tried, ckpt, mem, disturbed>>
        /\ rec' = IF rec.status = "running" THEN [rec EXCEPT !.status = "failed"] ELSE rec
    BY DEF CancelReview
  <1>2. /\ rec'.target = rec.target /\ rec'.run = rec.run
        /\ rec'.status = IF rec.status = "running" THEN "failed" ELSE rec.status
    BY <1>1 DEF TypeOK, Record
  <1>3. NodeSound'
    BY <1>1, <1>2 DEF NodeSound
  <1>4. Coming = 1 /\ Coming' = 1 /\ Noted' = Noted /\ Stale' = Stale /\ Visible' = Visible
    BY <1>1, <1>2 DEF Coming, Noted, Stale, Visible
  <1>5. Counting' = Counting
    BY <1>1, <1>2, <1>4 DEF Counting, Key
  <1>6. Left' = Left
    <2>1. CASE Visible
      <3>1. Left' = LeftComing' /\ Left = LeftComing
        BY <1>4, <2>1 DEF Left
      <3>2. LeftComing' = LeftComing
        BY <1>2, <1>4, <1>5 DEF LeftComing
      <3> QED
        BY <3>1, <3>2
    <2>2. CASE ~Visible
      BY <1>4, <1>5, <2>2 DEF Left, LeftMissing
    <2> QED
      BY <2>1, <2>2
  <1>7. Left \in Nat
    BY LeftRange
  <1> QED
    BY <1>1, <1>3, <1>6, <1>7

LEMMA SpendTrigger ==
  ASSUME TypeOK, RecordSound, NodeSound, TriggerReview
  PROVE  /\ NodeSound' /\ Left' + 1 <= Left
         /\ tried' = [tried EXCEPT ![head] = @ + 1] /\ UNCHANGED <<head, disturbed>>
  <1>1. /\ phase = "trigger" /\ phase' = "save" /\ mem.worker = worker
        /\ tried' = [tried EXCEPT ![head] = @ + 1]
        /\ UNCHANGED <<head, worker, ckpt, mem, disturbed>>
    BY DEF TriggerReview
  <1>2. /\ Noted = mem /\ Noted' = mem /\ Coming = 1 /\ Coming' = 0 /\ head \in Nat
        /\ MaxAttempts \in Nat \ {0} /\ Stale \in {0, 1} /\ Left \in Nat
        /\ mem.attempts \in 1 .. MaxAttempts /\ mem.run = NoRun /\ mem.key # NoKey
    BY <1>1, AttemptsPositive, NotedSound, LeftRange DEF Noted, Coming, TypeOK, Heads
  <1>3. CASE \E t \in Targets : NewRun(t) /\ queued' = NoHead
    <2>1. PICK t \in Targets : NewRun(t)
      BY <1>3
    <2>2. /\ rec'.status = "running" /\ rec'.target = t /\ queued' = NoHead /\ ~Decided'
          /\ Visible => t = rec.target
      BY <1>3, <2>1 DEF NewRun, Targets, Decided
    <2>3. NodeSound'
      BY <1>1, <2>2 DEF NodeSound
    <2>4. Stale' = 0 /\ Visible' /\ ~Resetting'
      BY <1>2, <2>2 DEF Stale, Visible, Resetting
    <2>5. Left' = IF Counting' THEN MaxAttempts - mem.attempts ELSE MaxAttempts - 1
      BY <1>2, <2>2, <2>4 DEF Left, LeftWaiting
    <2>6. Visible => Counting' = Counting
      BY <1>1, <1>2, <2>2, <2>4 DEF Counting, Key
    <2>7. CASE Visible
      <3>1. Left = IF Counting THEN 1 + Stale + MaxAttempts - mem.attempts
                   ELSE IF rec.status = "needs_review" THEN 1 + MaxAttempts
                   ELSE Stale + MaxAttempts
        BY <1>2, <2>7 DEF Left, LeftComing
      <3> QED
        BY <1>1, <1>2, <2>3, <2>5, <2>6, <2>7, <3>1
    <2>8. CASE ~Visible
      <3>1. Left >= MaxAttempts
        BY <1>2, <2>8 DEF Left, LeftMissing, Higher, Counting
      <3> QED
        BY <1>1, <1>2, <2>3, <2>5, <3>1
    <2> QED
      BY <2>7, <2>8
  <1>4. CASE rec.status \in {"none", "needs_review"} /\ queued' = head /\ UNCHANGED rec
    <2>1. NodeSound'
      BY <1>1, <1>4 DEF NodeSound
    <2>2. Stale' = 0 /\ Visible' = Visible /\ Counting' = Counting
      BY <1>1, <1>2, <1>4 DEF Stale, Visible, Counting, Key
    <2>3. ~Visible => Counting
      BY <1>1, <1>2 DEF Counting
    <2>4. /\ rec'.status = rec.status /\ ~Decided'
          /\ rec.status # "none" => ~Resetting'
      BY <1>2, <1>4 DEF Resetting, RecordSound, Decided
    <2>5. CASE rec.status = "none"
      <3>1. /\ Left = MaxAttempts + Higher(Stale, 1 + MaxAttempts - mem.attempts)
            /\ Left' = MaxAttempts + Higher(0, 0 + MaxAttempts - mem.attempts)
        BY <1>2, <2>2, <2>3, <2>5 DEF Left, LeftMissing, Visible
      <3> QED
        BY <1>1, <1>2, <2>1, <3>1 DEF Higher
    <2>6. CASE rec.status = "needs_review"
      <3>1. /\ Left = IF Counting THEN 1 + Stale + MaxAttempts - mem.attempts
                      ELSE 1 + MaxAttempts
            /\ Left' = IF Counting THEN MaxAttempts - mem.attempts ELSE MaxAttempts
        BY <1>2, <1>4, <2>2, <2>4, <2>6 DEF Left, LeftComing, LeftWaiting, Visible
      <3> QED
        BY <1>1, <1>2, <2>1, <3>1
    <2> QED
      BY <1>4, <2>5, <2>6
  <1> QED
    BY <1>3, <1>4 DEF TriggerReview

\* Saving, the feedback node and a call for a worker that is gone leave what there was.
LEMMA SpendReturn ==
  ASSUME TypeOK, NodeSound,
         \/ SaveCheckpoint \/ ReadFeedback \/ FeedbackGone \/ DeliverFeedback
         \/ FeedbackRefused \/ WorkerGone
  PROVE  /\ NodeSound' /\ Left' <= Left
         /\ UNCHANGED <<head, tried, disturbed>>
  <1>1. UNCHANGED <<head, worker, rec, queued, tried, disturbed>>
    BY DEF SaveCheckpoint, ReadFeedback, FeedbackGone, DeliverFeedback, FeedbackRefused,
           WorkerGone, runner
  <1>2. /\ ckpt \in Checkpoint /\ mem \in Checkpoint /\ worker \in Nat
        /\ MaxAttempts \in Nat
    BY AttemptsPositive DEF TypeOK
  <1>3. /\ Fresh.attempts = 0 /\ Fresh.worker = 0
    BY DEF Fresh
  <1>4. /\ phase' \notin {"cancel", "trigger"} /\ Coming' = 0
    BY DEF SaveCheckpoint, ReadFeedback, FeedbackGone, DeliverFeedback, FeedbackRefused,
           WorkerGone, Coming
  <1>5. CASE SaveCheckpoint
    <2>1. phase = "save" /\ phase' = "idle" /\ ckpt' = mem /\ mem' = Fresh
      BY <1>5 DEF SaveCheckpoint, EndNode
    <2>2. NodeSound'
      BY <1>1, <1>2, <1>3, <2>1 DEF NodeSound
    <2>3. Noted = mem /\ Noted' = mem /\ Coming = 0
      BY <2>1 DEF Noted, Coming
    <2>4. Left' = Left
      BY <1>1, <1>4, <2>3, LeftSame DEF Decided
    <2> QED
      BY <1>1, <2>2, <2>4, LeftRange
  <1>6. CASE ReadFeedback \/ FeedbackGone
    <2>1. /\ phase = "feedback" /\ phase' \in {"send", "idle"} /\ mem' = mem
          /\ ckpt' = ckpt \/ ckpt' = [ckpt EXCEPT !.status = "review_pending"]
      BY <1>6 DEF ReadFeedback, FeedbackGone
    <2>2. /\ ckpt'.attempts = ckpt.attempts /\ ckpt'.worker = ckpt.worker
          /\ ckpt'.key = ckpt.key /\ ckpt'.run = ckpt.run
      BY <1>2, <2>1 DEF Checkpoint
    <2>3. NodeSound'
      BY <1>1, <2>1, <2>2 DEF NodeSound
    <2>4. Noted = ckpt /\ Noted' = ckpt' /\ Coming = 0
      BY <2>1 DEF Noted, Coming
    <2>5. Left' = Left
      BY <1>1, <1>4, <2>2, <2>4, LeftSame DEF Decided
    <2> QED
      BY <1>1, <2>3, <2>5, LeftRange
  <1>7. CASE DeliverFeedback
    <2>1. /\ phase = "send" /\ phase' = "save" /\ ckpt' = ckpt
          /\ mem'.attempts = 0 /\ mem'.worker = ckpt.worker
      BY <1>2, <1>7 DEF DeliverFeedback, Returned, Checkpoint
    <2>2. NodeSound'
      BY <1>1, <1>2, <2>1 DEF NodeSound
    <2>3. Noted = ckpt /\ Noted' = mem' /\ Coming = 0 /\ ckpt.attempts = 0
      BY <2>1 DEF Noted, Coming, NodeSound
    <2>4. ~Counting /\ ~Counting'
      BY <2>1, <2>3 DEF Counting
    <2>5. Left' = Left
      BY <1>1, <1>4, <2>3, <2>4, LeftSame DEF Decided
    <2> QED
      BY <1>1, <2>2, <2>5, LeftRange
  <1>8. CASE FeedbackRefused
    <2>1. /\ phase = "send" /\ phase' = "idle" /\ mem' = Fresh
          /\ ckpt'.attempts = ckpt.attempts /\ ckpt'.worker = ckpt.worker
      BY <1>2, <1>8 DEF FeedbackRefused, EndNode, Returned, Checkpoint
    <2>2. NodeSound'
      BY <1>1, <1>2, <1>3, <2>1 DEF NodeSound
    <2>3. Noted = ckpt /\ Noted' = ckpt' /\ Coming = 0 /\ ckpt.attempts = 0
      BY <2>1 DEF Noted, Coming, NodeSound
    <2>4. ~Counting /\ ~Counting'
      BY <2>1, <2>3 DEF Counting
    <2>5. Left' = Left
      BY <1>1, <1>4, <2>3, <2>4, LeftSame DEF Decided
    <2> QED
      BY <1>1, <2>2, <2>5, LeftRange
  <1>9. CASE WorkerGone
    <2>1. /\ phase' = "idle" /\ mem' = Fresh /\ ckpt' = ckpt
          /\ \/ phase \in {"cancel", "trigger"} /\ mem.worker # worker
             \/ phase = "send" /\ ckpt.worker # worker
      BY <1>9 DEF WorkerGone, EndNode
    <2>2. NodeSound'
      BY <1>1, <1>2, <1>3, <2>1 DEF NodeSound
    <2>3. Noted'.worker # worker /\ Noted.worker # worker /\ Coming = 0
      BY <2>1 DEF Noted, Coming, NodeSound
    <2>4. ~Counting /\ ~Counting'
      BY <1>1, <2>3 DEF Counting
    <2>5. Left' = Left
      BY <1>1, <1>4, <2>3, <2>4, LeftSame DEF Decided
    <2> QED
      BY <1>1, <2>2, <2>5, LeftRange
  <1> QED
    BY <1>5, <1>6, <1>7, <1>8, <1>9

\* An accepted trigger that surfaces as a run is an attempt only if it was for an older head.
LEMMA SpendSurfaces ==
  ASSUME TypeOK, RecordSound, NodeSound, TriggerSurfaces
  PROVE  /\ NodeSound' /\ UNCHANGED <<head, disturbed>>
         /\ \/ tried' = tried /\ Left' <= Left
            \/ tried' = [tried EXCEPT ![head] = @ + 1] /\ Left' + 1 <= Left
  <1>1. /\ queued # NoHead /\ queued' = NoHead
        /\ tried' = IF Stale = 0 THEN tried ELSE [tried EXCEPT ![head] = @ + 1]
        /\ UNCHANGED <<head, worker, ckpt, mem, phase, disturbed>>
    BY DEF TriggerSurfaces, RunnerFrame, node, Stale
  <1>2. PICK t \in Targets : NewRun(t)
    BY DEF TriggerSurfaces
  <1>3. /\ rec'.status = "running" /\ rec'.target = t /\ (Visible => t = rec.target)
        /\ ~Decided'
    BY <1>2 DEF NewRun, Targets, Decided
  <1>4. NodeSound'
    BY <1>1, <1>3 DEF NodeSound
  <1>5. /\ Noted' = Noted /\ Coming' = Coming /\ Stale' = 0 /\ Visible'
        /\ Resetting' => Noted.run # NoRun
    BY <1>1, <1>3 DEF Noted, Coming, Stale, Visible, Resetting
  <1>6. /\ MaxAttempts \in Nat \ {0} /\ Stale \in {0, 1} /\ Left \in Nat /\ Coming \in {0, 1}
        /\ Noted.attempts \in 0 .. MaxAttempts
        /\ Coming = 1 => Noted.attempts > 0 /\ Noted.run = NoRun /\ (~Visible => Counting)
        /\ Counting \/ Counting' => Noted.attempts > 0
    BY <1>5, AttemptsPositive, NotedSound, LeftRange DEF Counting
  <1>7. Visible => Counting' = Counting
    BY <1>1, <1>3, <1>5 DEF Counting, Key
  <1>8. Left' = IF Coming = 1
                  THEN IF Counting' THEN 1 + MaxAttempts - Noted.attempts ELSE MaxAttempts
                  ELSE IF Counting' THEN MaxAttempts - (IF Resetting' THEN 1 ELSE Noted.attempts)
                       ELSE MaxAttempts - 1
    BY <1>3, <1>5, <1>6 DEF Left, LeftComing, LeftWaiting
  <1>9. Left' + Stale <= Left
    <2>1. CASE ~Visible
      <3>1. Left = MaxAttempts + Higher(Stale, Coming + MaxAttempts
                                               - (IF Counting THEN Noted.attempts ELSE 0))
        BY <2>1 DEF Left, LeftMissing
      <3>2. CASE Coming = 1
        <4>1. Left = MaxAttempts + Higher(Stale, 1 + MaxAttempts - Noted.attempts)
          BY <1>6, <2>1, <3>1, <3>2
        <4> QED
          BY <1>6, <1>8, <3>2, <4>1 DEF Higher
      <3>3. CASE Coming = 0
        <4>1. Left >= MaxAttempts + Stale
          BY <1>6, <3>1, <3>3 DEF Higher
        <4> QED
          BY <1>6, <1>8, <3>3, <4>1
      <3> QED
        BY <1>6, <3>2, <3>3
    <2>2. CASE Visible /\ Coming = 1
      <3>1. Left = IF Counting THEN 1 + Stale + MaxAttempts - Noted.attempts
                   ELSE IF rec.status = "needs_review" THEN 1 + MaxAttempts
                   ELSE Stale + MaxAttempts
        BY <2>2 DEF Left, LeftComing
      <3> QED
        BY <1>6, <1>7, <1>8, <2>2, <3>1
    <2>3. CASE Visible /\ Coming = 0
      <3>1. rec.status # "needs_review" \/ Noted.run # NoRun => Resetting
        BY <1>1 DEF Resetting
      <3>2. Left >= Stale + MaxAttempts - (IF Counting /\ ~Resetting THEN Noted.attempts ELSE 1)
        BY <1>1, <1>6, <2>3 DEF Left, LeftWaiting
      <3>3. CASE Counting /\ ~Resetting
        <4>1. Left' = MaxAttempts - Noted.attempts
          BY <1>5, <1>6, <1>7, <1>8, <2>3, <3>1, <3>3
        <4> QED
          BY <1>6, <3>2, <3>3, <4>1
      <3>4. CASE ~(Counting /\ ~Resetting)
        <4>1. Left' <= MaxAttempts - 1
          BY <1>6, <1>8, <2>3
        <4> QED
          BY <1>6, <1>8, <2>3, <3>2, <3>4, <4>1
      <3> QED
        BY <3>3, <3>4
    <2> QED
      BY <1>6, <2>1, <2>2, <2>3
  <1>10. CASE Stale = 0
    <2>1. Left' <= Left
      BY <1>6, <1>8, <1>9, <1>10
    <2> QED
      BY <1>1, <1>4, <1>10, <2>1
  <1>11. CASE Stale = 1
    <2>1. Left' + 1 <= Left
      BY <1>6, <1>8, <1>9, <1>11
    <2> QED
      BY <1>1, <1>4, <1>11, <2>1
  <1> QED
    BY <1>6, <1>10, <1>11

\* What the runner does of itself leaves no more.
LEMMA SpendRunner ==
  ASSUME TypeOK, RecordSound, NodeSound,
         OpenPullRequest \/ RecordAppears \/ RunFails \/ RunAnswers
  PROVE  /\ NodeSound' /\ Left' <= Left
         /\ UNCHANGED <<head, tried, disturbed>>
  <1>1. UNCHANGED <<head, worker, queued, tried, ckpt, mem, phase, disturbed>>
    BY DEF OpenPullRequest, RecordAppears, RunFails, RunAnswers, RunnerFrame, node
  <1>2. Noted' = Noted /\ Coming' = Coming /\ Stale' = Stale
    BY <1>1 DEF Noted, Coming, Stale
  <1>3. /\ MaxAttempts \in Nat \ {0} /\ Stale \in {0, 1} /\ Left \in Nat /\ Coming \in {0, 1}
        /\ Noted.attempts \in 0 .. MaxAttempts
        /\ Coming = 1 => Noted.attempts > 0 /\ (~Visible => Counting)
        /\ Counting \/ Counting' => Noted.attempts > 0
    BY <1>2, AttemptsPositive, NotedSound, LeftRange DEF Counting
  <1>4. CASE OpenPullRequest
    <2>1. rec' = rec
      BY <1>4 DEF OpenPullRequest
    <2>2. NodeSound' /\ Left' = Left
      BY <1>1, <1>2, <2>1, LeftSame DEF NodeSound, Decided
    <2> QED
      BY <1>1, <1>3, <2>2
  <1>5. CASE RecordAppears
    <2>1. /\ ~Visible /\ rec'.status = "needs_review" /\ rec'.run = NoRun /\ ~Decided'
      BY <1>5 DEF RecordAppears, NoRecord, Decided
    <2>2. NodeSound'
      BY <1>1, <2>1 DEF NodeSound
    <2>3. Left = MaxAttempts + Higher(Stale, Coming + MaxAttempts
                                             - (IF Counting THEN Noted.attempts ELSE 0))
      BY <2>1 DEF Left, LeftMissing
    <2>4. Counting' => Counting
      <3>1. Key' # NoKey
        BY <1>1, <1>5, BoundsNatural
           DEF RecordAppears, Key, NoKey, NoHead, UnknownKey, TypeOK, Heads
      <3> QED
        BY <1>1, <1>2, <2>1, <3>1 DEF Counting, Visible
    <2>5. CASE Coming = 1
      <3>1. Left' = IF Counting' THEN 1 + Stale + MaxAttempts - Noted.attempts
                    ELSE 1 + MaxAttempts
        BY <1>2, <2>1, <2>5 DEF Left, LeftComing, Visible
      <3>2. Left = MaxAttempts + Higher(Stale, 1 + MaxAttempts - Noted.attempts)
        BY <1>3, <2>1, <2>3, <2>5
      <3>3. Left >= MaxAttempts + 1
        BY <1>3, <3>2 DEF Higher
      <3> QED
        BY <1>1, <1>3, <2>2, <2>5, <3>1, <3>3
    <2>6. CASE Coming = 0
      <3>1. Left' <= Stale + MaxAttempts
        BY <1>2, <1>3, <2>1, <2>6 DEF Left, LeftWaiting, Visible
      <3>2. Left >= MaxAttempts + Stale
        BY <1>3, <2>3, <2>6 DEF Higher
      <3> QED
        BY <1>1, <1>2, <1>3, <2>1, <2>2, <2>6, <3>1, <3>2 DEF Left, LeftWaiting, Visible
    <2> QED
      BY <1>3, <2>5, <2>6
  <1>6. CASE RunFails \/ RunAnswers
    <2>1. /\ rec.status = "running" /\ rec'.status \in {"failed", "done"}
          /\ rec'.target = rec.target /\ rec'.run = rec.run /\ ~Decided
      BY <1>6 DEF RunFails, RunAnswers, TypeOK, Record, RecordSound, Decided
    <2>2. NodeSound'
      BY <1>1, <2>1 DEF NodeSound
    <2>3. Visible /\ Visible' /\ Counting' = Counting /\ Resetting' = Resetting
      BY <1>1, <1>2, <2>1 DEF Visible, Counting, Key, Resetting
    <2>4. CASE Coming = 1
      BY <1>1, <1>2, <1>3, <2>1, <2>2, <2>3, <2>4 DEF Left, LeftComing
    <2>5. CASE Coming = 0
      <3>1. Left = Stale + MaxAttempts
                   - (IF Counting /\ ~Resetting THEN Noted.attempts ELSE 1)
        BY <1>3, <2>1, <2>3, <2>5 DEF Left, LeftWaiting
      <3>2. queued # NoHead => Resetting
        BY <2>1 DEF Resetting
      <3>3. CASE Decided'
        <4>1. Left' = IF queued = NoHead THEN 0 ELSE Stale + MaxAttempts - 1
          BY <1>1, <1>2, <2>3, <2>5, <3>3 DEF Left, LeftWaiting
        <4> QED
          BY <1>1, <1>3, <2>2, <3>1, <3>2, <4>1
      <3>4. CASE ~Decided'
        <4>1. Left' = Left
          BY <1>2, <2>1, <2>3, <2>5, <3>4 DEF Left, LeftWaiting
        <4> QED
          BY <1>1, <1>3, <2>2, <4>1
      <3> QED
        BY <2>1, <3>3, <3>4
    <2> QED
      BY <1>3, <2>4, <2>5
  <1> QED
    BY <1>4, <1>5, <1>6

\* A disturbance brings two budgets; a run started elsewhere uses one attempt of them.
LEMMA SpendDisturbed ==
  ASSUME TypeOK, TypeOK', NodeSound, NodeSound', SpentBounded, disturbed' = disturbed + 1,
         head' = head,
         \/ tried' = tried
         \/ tried' = [tried EXCEPT ![head] = @ + 1] /\ Left' + 1 <= Left + 2 * MaxAttempts
  PROVE  SpentBounded'
  <1>1. /\ head \in Heads /\ tried \in [Heads -> Nat] /\ Heads \subseteq Nat
        /\ MaxAttempts \in Nat /\ disturbed \in Nat
    BY AttemptsPositive, BoundsNatural DEF TypeOK, Heads
  <1> DEFINE B == 2 * MaxAttempts * (1 + disturbed)
             t == tried[head]
             l == Left
             m == Left'
             s == tried'[head]
             Q == 2 * MaxAttempts
  <1>2. /\ B \in Nat /\ Budget = B /\ Budget' = B + Q /\ Q \in Nat
    BY <1>1 DEF Budget
  <1>3. l \in 0 .. Q /\ m \in 0 .. Q /\ t \in Nat
    <2>1. l \in 0 .. Q
      BY LeftRange
    <2>2. m \in 0 .. Q
      BY LeftRangeNext
    <2> QED
      BY <1>1, <2>1, <2>2
  <1>4. t + l <= B /\ (s = t \/ (s = t + 1 /\ m + 1 <= l + Q))
    <2>1. t + l <= B
      BY <1>2 DEF SpentBounded
    <2> QED
      BY <1>1, <2>1
  <1>5. \A h \in Heads \ {head} : tried'[h] = tried[h]
    BY <1>1
  <1>6. \A h \in Heads : tried[h] <= B
    BY DEF SpentBounded, AttemptsBounded
  <1> HIDE DEF B, t, l, m, s, Q
  <1>7. s + m <= B + Q /\ s <= B + Q
    BY <1>2, <1>3, <1>4
  <1>8. tried'[head] + Left' <= Budget' /\ tried'[head] <= Budget'
    BY <1>2, <1>7 DEF s, m
  <1>9. \A h \in Heads : tried'[h] <= Budget'
    <2> SUFFICES ASSUME NEW h \in Heads, h # head PROVE tried'[h] <= Budget'
      BY <1>8
    <2>1. tried'[h] = tried[h] /\ tried[h] \in Nat /\ tried[h] <= B
      BY <1>1, <1>5, <1>6
    <2> QED
      BY <1>2, <2>1
  <1>10. \A h \in Heads : h > head => tried'[h] = 0
    BY <1>1, <1>5 DEF SpentBounded
  <1> QED
    BY <1>8, <1>9, <1>10 DEF SpentBounded, AttemptsBounded, Budget

\* A node's fields survive what disturbs it.
LEMMA NodeDisturbed ==
  ASSUME TypeOK, NodeSound, Crash \/ StartElsewhere \/ ReplaceWorker \/ RecordLost
  PROVE  NodeSound' /\ head' = head /\ disturbed' = disturbed + 1
  <1>1. worker \in Nat /\ ckpt.worker \in Nat /\ mem.worker \in Nat /\ MaxAttempts \in Nat
    BY AttemptsPositive DEF TypeOK, Checkpoint
  <1>2. CASE Crash
    <2>1. /\ phase' = "idle" /\ mem' = Fresh /\ UNCHANGED <<ckpt, worker, rec, head>>
          /\ disturbed' = disturbed + 1
      BY <1>2 DEF Crash, EndNode, Disturb, runner
    <2> QED
      BY <1>1, <2>1 DEF NodeSound, Fresh
  <1>3. CASE StartElsewhere
    <2>1. UNCHANGED <<phase, mem, ckpt, worker, head>> /\ disturbed' = disturbed + 1
      BY <1>3 DEF StartElsewhere, Disturb, node
    <2>2. rec'.status = "running"
      BY <1>3 DEF StartElsewhere, NewRun
    <2> QED
      BY <2>1, <2>2 DEF NodeSound
  <1>4. CASE ReplaceWorker
    <2>1. /\ UNCHANGED <<phase, mem, ckpt, head>> /\ worker' = worker + 1
          /\ disturbed' = disturbed + 1 /\ rec'.status = "none"
      BY <1>4 DEF ReplaceWorker, Disturb, node, NoRecord
    <2>2. ckpt.worker # worker'
      BY <1>1, <2>1 DEF NodeSound
    <2> QED
      BY <1>1, <2>1, <2>2 DEF NodeSound
  <1>5. CASE RecordLost
    <2>1. /\ UNCHANGED <<phase, mem, ckpt, worker, head>> /\ disturbed' = disturbed + 1
          /\ rec'.status = "none"
      BY <1>5 DEF RecordLost, Disturb, node, NoRecord
    <2> QED
      BY <2>1 DEF NodeSound
  <1> QED
    BY <1>2, <1>3, <1>4, <1>5

\* Somebody else's run leaves room for it in the budgets that it brings.
LEMMA SpendElsewhere ==
  ASSUME TypeOK, NodeSound, StartElsewhere
  PROVE  tried' = [tried EXCEPT ![head] = @ + 1] /\ Left' + 1 <= Left + 2 * MaxAttempts
  <1>1. /\ UNCHANGED <<phase, mem, ckpt, worker, head, queued>>
        /\ tried' = [tried EXCEPT ![head] = @ + 1]
        /\ rec'.status = "running"
    BY DEF StartElsewhere, node, NewRun
  <1>2. Noted' = Noted /\ Coming' = Coming /\ Stale' = Stale /\ Visible'
    BY <1>1 DEF Noted, Coming, Stale, Visible
  <1>3. /\ MaxAttempts \in Nat \ {0} /\ Stale \in {0, 1} /\ Left \in Nat /\ Coming \in {0, 1}
        /\ Noted.attempts \in 0 .. MaxAttempts
        /\ Coming = 1 => Left >= 1
        /\ Counting' => Noted.attempts > 0
    BY <1>2, AttemptsPositive, NotedSound, LeftRange DEF Counting
  <1>4. Left' \in Nat /\ (Left' <= MaxAttempts \/ (Left >= 1 /\ Left' <= 1 + MaxAttempts))
    <2>1. CASE Coming = 1
      BY <1>1, <1>2, <1>3, <2>1 DEF Left, LeftComing
    <2>2. CASE Coming = 0
      <3>1. Left' <= MaxAttempts /\ Left' \in Nat
        BY <1>1, <1>2, <1>3, <2>2 DEF Left, LeftWaiting
      <3> QED
        BY <3>1
    <2> QED
      BY <1>3, <2>1, <2>2
  <1> DEFINE l == Left
             m == Left'
             N == MaxAttempts
  <1>5. N \in Nat /\ N >= 1 /\ l \in Nat /\ m \in Nat
    BY <1>3, <1>4
  <1>6. m <= N \/ (l >= 1 /\ m <= 1 + N)
    BY <1>4
  <1> HIDE DEF l, m, N
  <1>7. m + 1 <= l + 2 * N
    BY <1>5, <1>6
  <1> QED
    BY <1>1, <1>7 DEF l, m, N

\* A new head has no attempts yet.
LEMMA SpendPush ==
  ASSUME TypeOK, TypeOK', NodeSound, SpentBounded, Push
  PROVE  NodeSound' /\ SpentBounded'
  <1>1. /\ UNCHANGED <<phase, mem, ckpt, worker, tried, disturbed>> /\ head' = head + 1
        /\ rec' = rec \/ (rec'.status = "needs_review" /\ rec'.run = NoRun)
    BY DEF Push, RunnerFrame, node, NoRecord
  <1>2. NodeSound'
    BY <1>1 DEF NodeSound
  <1>3. /\ head \in Heads /\ head' \in Heads /\ tried \in [Heads -> Nat] /\ Heads \subseteq Nat
        /\ MaxAttempts \in Nat /\ disturbed \in Nat
    BY AttemptsPositive, BoundsNatural DEF TypeOK, Heads
  <1>4. /\ \A h \in Heads : h > head' => tried'[h] = 0
        /\ tried'[head'] = 0
    BY <1>1, <1>3 DEF SpentBounded
  <1>5. AttemptsBounded'
    BY <1>1 DEF SpentBounded, AttemptsBounded
  <1>6. Left' \in 0 .. 2 * MaxAttempts
    BY <1>2, LeftRangeNext
  <1>7. 2 * MaxAttempts <= Budget' /\ Budget' \in Nat
    <2>1. Budget' = 2 * MaxAttempts + 2 * MaxAttempts * disturbed
      BY <1>1, <1>3 DEF Budget
    <2>2. 2 * MaxAttempts * disturbed \in Nat
      BY <1>3
    <2> QED
      BY <1>3, <2>1, <2>2
  <1>8. tried'[head'] + Left' <= Budget'
    <2>1. Left' \in Nat /\ Left' <= Budget'
      BY <1>3, <1>6, <1>7
    <2> QED
      BY <1>4, <2>1
  <1> QED
    BY <1>2, <1>4, <1>5, <1>8 DEF SpentBounded

\* Time that passes, and steps of nobody.
LEMMA SpendTime ==
  ASSUME TypeOK, NodeSound, TimePasses \/ UNCHANGED vars
  PROVE  /\ NodeSound' /\ Left' <= Left
         /\ UNCHANGED <<head, tried, disturbed>>
  <1>1. /\ UNCHANGED <<head, worker, queued, tried, phase, mem, disturbed>>
        /\ rec'.status = rec.status /\ rec'.run = rec.run /\ rec'.target = rec.target
        /\ Decided' = Decided
        /\ ckpt'.worker = ckpt.worker /\ ckpt'.attempts = ckpt.attempts
        /\ ckpt'.key = ckpt.key /\ ckpt'.run = ckpt.run
    BY DEF TimePasses, Aged, TypeOK, Record, Checkpoint, vars, runner, node, Decided
  <1>2. NodeSound'
    BY <1>1 DEF NodeSound
  <1>3. /\ Noted'.worker = Noted.worker /\ Noted'.attempts = Noted.attempts
        /\ Noted'.key = Noted.key /\ Noted'.run = Noted.run /\ Coming' = Coming
    BY <1>1 DEF Noted, Coming
  <1>4. Left' = Left
    BY <1>1, <1>3, LeftSame
  <1> QED
    BY <1>1, <1>2, <1>4, LeftRange

\* Every step keeps the bound on the attempts.
LEMMA SpendStep ==
  IInv /\ NodeSound /\ SpentBounded /\ [Next]_vars => (NodeSound /\ SpentBounded)'
  <1> SUFFICES ASSUME IInv, NodeSound, SpentBounded, [Next]_vars
               PROVE  NodeSound' /\ SpentBounded'
    OBVIOUS
  <1>1. TypeOK /\ TypeOK' /\ RecordSound
    <2>1. IInv'
      BY InvStep
    <2> QED
      BY <2>1 DEF IInv, BudgetInv
  <1>2. ASSUME NodeSound', UNCHANGED <<head, disturbed>>,
               \/ tried' = tried /\ Left' <= Left
               \/ tried' = [tried EXCEPT ![head] = @ + 1] /\ Left' + 1 <= Left
        PROVE  SpentBounded'
    BY <1>1, <1>2, SpendKept
  <1>3. CASE InspectWorker
    <2>1. NodeSound' /\ Left' <= Left /\ UNCHANGED <<head, tried, disturbed>>
      BY <1>1, <1>3, SpendMissing, SpendVerdict, SpendWatch DEF InspectWorker
    <2> QED
      BY <1>2, <2>1
  <1>4. CASE CancelReview \/ TriggerReview
    BY <1>1, <1>2, <1>4, SpendCancel, SpendTrigger
  <1>5. CASE \/ SaveCheckpoint \/ ReadFeedback \/ FeedbackGone \/ DeliverFeedback
             \/ FeedbackRefused \/ WorkerGone
    BY <1>1, <1>2, <1>5, SpendReturn
  <1>6. CASE Crash \/ ReplaceWorker \/ RecordLost
    <2>1. NodeSound' /\ head' = head /\ disturbed' = disturbed + 1
      BY <1>1, <1>6, NodeDisturbed
    <2>2. tried' = tried
      BY <1>6 DEF Crash, ReplaceWorker, RecordLost, runner
    <2> QED
      BY <1>1, <2>1, <2>2, SpendDisturbed
  <1>7. CASE StartElsewhere
    BY <1>1, <1>7, NodeDisturbed, SpendElsewhere, SpendDisturbed
  <1>8. CASE TriggerSurfaces
    BY <1>1, <1>2, <1>8, SpendSurfaces
  <1>9. CASE OpenPullRequest \/ RecordAppears \/ RunFails \/ RunAnswers
    BY <1>1, <1>2, <1>9, SpendRunner
  <1>10. CASE Push
    BY <1>1, <1>10, SpendPush
  <1>11. CASE TimePasses \/ UNCHANGED vars
    BY <1>1, <1>2, <1>11, SpendTime
  <1> QED
    BY <1>3, <1>4, <1>5, <1>6, <1>7, <1>8, <1>9, <1>10, <1>11 DEF Next, Node, Environment

\* Nothing is spent at first.
LEMMA SpendInit == Init => NodeSound /\ SpentBounded
  <1> SUFFICES ASSUME Init PROVE NodeSound /\ SpentBounded
    OBVIOUS
  <1>1. TypeOK /\ MaxAttempts \in Nat /\ disturbed \in Nat
    BY TypeInit, AttemptsPositive, BoundsNatural DEF TypeOK
  <1>2. NodeSound
    BY <1>1 DEF Init, NodeSound, Fresh, NoRecord
  <1>3. Left \in 0 .. 2 * MaxAttempts
    BY <1>1, <1>2, LeftRange
  <1>4. Budget = 2 * MaxAttempts
    BY <1>1 DEF Init, Budget
  <1>5. head \in Heads /\ \A h \in Heads : tried[h] = 0
    BY <1>1 DEF Init, TypeOK
  <1>6. AttemptsBounded
    BY <1>1, <1>4, <1>5 DEF AttemptsBounded, Budget
  <1> QED
    BY <1>1, <1>2, <1>3, <1>4, <1>5, <1>6 DEF SpentBounded

\* The attempts that were made and those to come are within the budget in every reachable
\* state (the review_max_attempts branches of inspect_worker).
THEOREM SpendInvariant == Spec => []SpendInv
  <1>1. Init => SpendInv
    BY InvInit, SpendInit DEF SpendInv
  <1>2. SpendInv /\ [Next]_vars => SpendInv'
    BY InvStep, SpendStep DEF SpendInv
  <1> QED
    BY <1>1, <1>2, PTL DEF Spec

\* The attempts at the review of a head are bounded for any budget, any number of heads and
\* any number of disturbances: two budgets, and two more for each disturbance.
THEOREM ReviewsBounded == Spec => []AttemptsBounded
  <1>1. SpendInv => AttemptsBounded
    BY DEF SpendInv, SpentBounded
  <1> QED
    BY <1>1, SpendInvariant, PTL
=============================================================================
