--------------------------- MODULE ReviewWatchdog ---------------------------
(***************************************************************************)
(* The supervisor's watch over the review of one work item: what           *)
(* inspect_worker and return_review_feedback (graph.py) make of the        *)
(* runner's latest review record, which runs start, fail, answer, vanish   *)
(* or surface late on the runner's side, while heads are pushed and other  *)
(* people start reviews of their own.                                      *)
(***************************************************************************)
EXTENDS Naturals

CONSTANTS
  MaxAttempts,   \* supervisor.review_max_attempts
  MaxHead,       \* bound: heads the change can have
  MaxDisturbed   \* bound: crashes, exceptions, lost records, replaced workers, and runs that
                 \* somebody else starts

ASSUME AttemptsPositive == MaxAttempts \in Nat \ {0}
ASSUME BoundsNatural == MaxHead \in Nat \ {0} /\ MaxDisturbed \in Nat

Heads == 1 .. MaxHead
NoHead == 0
HeadOrNone == Heads \cup {NoHead}

\* review_triggered_for_sha: a head, nothing, or "<worker>:unknown", the key of a review
\* whose target is not known.
NoKey == 0
UnknownKey == MaxHead + 1
Keys == 0 .. UnknownKey
NoRun == 0

\* Whether a timestamp is missing, younger or older than review_timeout_seconds.
Ages == {"none", "fresh", "old"}

\* ReviewResult, the runner's latest review.  "none": no record; "failed" stands for every
\* status in failure_statuses; "done": the run has answered.  Its verdict "approved" is one
\* that names a change.
Record == [status: {"none", "needs_review", "running", "failed", "done"},
           verdict: {"unknown", "approved", "changes_requested"},
           target: HeadOrNone, run: Nat, started: Ages]

\* The review fields of SupervisorState.  sent: review_status is "feedback_sent".
Checkpoint == [status: {"worker_running", "review_pending", "review_stalled",
                        "changes_requested", "review_approved", "review_invalid"},
               sent: BOOLEAN, target: HeadOrNone, worker: Nat, key: Keys,
               run: Nat, started: Ages, attempts: Nat]

Phases == {"idle", "cancel", "trigger", "save", "feedback", "send"}

VARIABLES
  head, worker, prOpen,   \* the change's head, the item's worker, and "pr_open" of its status
  rec, runs,              \* latest record, runs created
  queued,                 \* the head at which a trigger was accepted that has no run yet
  ckpt,                   \* the thread's checkpoint
  phase, mem, read,       \* the node: what it does next, its update, the review it has read
  tried,                  \* per head: attempts at its review, whoever made them
  delivered, repeats,     \* runs whose feedback the worker has, and deliveries made again
  disturbed               \* disturbances so far

runner == <<head, worker, prOpen, rec, runs, queued, tried>>
node == <<ckpt, phase, mem, read>>
feedback == <<delivered, repeats>>
vars == <<runner, node, feedback, disturbed>>

NoRecord == [status |-> "none", verdict |-> "unknown", target |-> NoHead, run |-> NoRun,
             started |-> "none"]
Fresh == [status |-> "worker_running", sent |-> FALSE, target |-> NoHead, worker |-> 0,
          key |-> NoKey, run |-> NoRun, started |-> "none", attempts |-> 0]

TypeOK ==
  /\ head \in Heads /\ worker \in Nat \ {0} /\ prOpen \in BOOLEAN
  /\ rec \in Record /\ runs \in Nat /\ queued \in HeadOrNone
  /\ ckpt \in Checkpoint /\ mem \in Checkpoint /\ read \in Record
  /\ phase \in Phases
  /\ tried \in [Heads -> Nat]
  /\ delivered \subseteq 1 .. runs /\ repeats \in Nat
  /\ disturbed \in 0 .. MaxDisturbed

Init ==
  /\ head = 1 /\ worker = 1 /\ prOpen = FALSE
  /\ rec = NoRecord /\ runs = 0 /\ queued = NoHead
  /\ ckpt = Fresh /\ mem = Fresh /\ read = NoRecord /\ phase = "idle"
  /\ tried = [h \in Heads |-> 0]
  /\ delivered = {} /\ repeats = 0 /\ disturbed = 0

----------------------------------------------------------------------------
(* inspect_worker.  A poll reads the record and decides on an update of    *)
(* the state.  What the update is made of was read before any call to the  *)
(* runner; it is saved after the calls.                                    *)

\* No call: the update u is saved, and the graph ends or goes on with the node p.
Update(u, p) ==
  /\ phase = "idle"
  /\ ckpt' = u /\ phase' = p
  /\ UNCHANGED <<runner, mem, read, feedback, disturbed>>
Return(u) == Update(u, "idle")

\* The calls that start at p come before the update is saved.
Call(u, p) ==
  /\ phase = "idle"
  /\ mem' = u /\ phase' = p
  /\ UNCHANGED <<runner, ckpt, read, feedback, disturbed>>

SameWorker == ckpt.worker = worker
Visible == rec.status # "none"

\* The record is missing and the supervisor has attempts of its own under way.
Watched == SameWorker /\ ckpt.key # NoKey /\ ckpt.attempts > 0

InitialReview ==
  /\ ~Visible /\ ~Watched /\ prOpen
  /\ Call([ckpt EXCEPT !.worker = worker, !.run = NoRun, !.key = UnknownKey,
                       !.started = "fresh", !.attempts = 1, !.status = "review_pending"],
          "trigger")

\* No record and no pull request to review.
NothingToReview ==
  /\ ~Visible /\ ~Watched /\ ~prOpen
  /\ Return([ckpt EXCEPT !.status = "worker_running"])

\* A missing record is waited for, started again, and given up.
AwaitRecord ==
  /\ ~Visible /\ Watched /\ ckpt.started # "old"
  /\ Return([ckpt EXCEPT !.status = "review_pending"])

RestartMissing ==
  /\ ~Visible /\ Watched /\ ckpt.started = "old" /\ ckpt.attempts < MaxAttempts
  /\ Call([ckpt EXCEPT !.worker = worker, !.run = NoRun, !.started = "fresh",
                       !.attempts = @ + 1, !.status = "review_pending"],
          "trigger")

GiveUpMissing ==
  /\ ~Visible /\ Watched /\ ckpt.started = "old" /\ ckpt.attempts >= MaxAttempts
  /\ Return([ckpt EXCEPT !.status = "review_stalled"])

\* What every update takes over from a visible record.
Base == [ckpt EXCEPT !.sent = FALSE, !.target = rec.target]

\* Mutant: one delivery for a head silences every later run of that head.
AnsweredForHead == ckpt.sent /\ ckpt.target = rec.target

AlreadySent == ckpt.sent /\ ckpt.target = rec.target /\ ckpt.run = rec.run

ChangesRequested ==
  /\ rec.verdict = "changes_requested"
  /\ \/ /\ AlreadySent
        /\ Return([Base EXCEPT !.sent = TRUE, !.run = rec.run, !.status = "worker_running"])
     \/ /\ ~AlreadySent
        /\ Update([Base EXCEPT !.worker = worker, !.run = NoRun, !.key = NoKey,
                               !.started = "none", !.attempts = 0,
                               !.status = "changes_requested"],
                 "feedback")

\* An approval has to name the head it is for.
Approved ==
  /\ rec.verdict = "approved"
  /\ Return([Base EXCEPT !.status = IF rec.target = NoHead THEN "review_invalid"
                                    ELSE "review_approved"])

\* Without a verdict the record is one more observation of the current attempt, or the first
\* of another: another key, or a run that the supervisor did not know under the same key.
Unanswered == Visible /\ rec.verdict = "unknown"
Key == IF rec.target = NoHead THEN UnknownKey ELSE rec.target

\* Mutant: the attempts for an older head are counted for the new one.
SameReviewAnyHead == SameWorker

SameReview == SameWorker /\ ckpt.key = Key

StartedElsewhere ==
  SameReview /\ ckpt.run # NoRun /\ rec.run # NoRun /\ ckpt.run # rec.run

OrNow(age) == IF age = "none" THEN "fresh" ELSE age
Attempts == CASE StartedElsewhere -> 1
              [] SameReview /\ ~StartedElsewhere -> ckpt.attempts
              [] OTHER -> 0
Started == CASE StartedElsewhere -> OrNow(rec.started)
             [] SameReview /\ ~StartedElsewhere -> ckpt.started
             [] OTHER -> "none"
KnownRun == CASE StartedElsewhere -> rec.run
              [] SameReview /\ ~StartedElsewhere -> ckpt.run
              [] OTHER -> NoRun

\* The update of a watchdog branch.
Watch(status, run, started, attempts) ==
  [Base EXCEPT !.worker = worker, !.key = Key, !.run = run, !.started = started,
               !.attempts = attempts, !.status = status]
Restart(attempts) == Watch("review_pending", NoRun, "fresh", attempts)

\* A failed run counts as an attempt, whoever started it.
TriedOnce == IF Attempts = 0 THEN 1 ELSE Attempts

\* Mutant: a failed run is started again without looking at the budget.
RestartAlways ==
  /\ Unanswered /\ rec.status = "failed"
  /\ Call(Restart(TriedOnce + 1), "trigger")

RestartFailed ==
  /\ Unanswered /\ rec.status = "failed" /\ TriedOnce < MaxAttempts
  /\ Call(Restart(TriedOnce + 1), "trigger")

GiveUpFailed ==
  /\ Unanswered /\ rec.status = "failed" /\ TriedOnce >= MaxAttempts
  /\ Return(Watch("review_stalled", rec.run,
                  OrNow(IF Started = "none" THEN rec.started ELSE Started), TriedOnce))

FirstTrigger ==
  /\ Unanswered /\ rec.status = "needs_review" /\ Attempts = 0
  /\ Call(Restart(1), "trigger")

\* An attempt under way, which may have to be adopted first: it started without the
\* supervisor.
UnderWay == Unanswered /\ rec.status # "failed" /\ ~(rec.status = "needs_review" /\ Attempts = 0)
Adopted == Attempts = 0
AttemptsNow == IF Adopted THEN 1 ELSE Attempts

\* Mutant: every poll takes the attempt for a new one.
StartedAtPoll == "fresh"

StartedNow == IF Adopted THEN OrNow(rec.started) ELSE Started

RunNow == IF Adopted \/ KnownRun = NoRun THEN rec.run ELSE KnownRun

AwaitVerdict ==
  /\ UnderWay /\ StartedNow # "old"
  /\ Return(Watch("review_pending", RunNow, StartedNow, AttemptsNow))

RestartTimedOut ==
  /\ UnderWay /\ StartedNow = "old" /\ AttemptsNow < MaxAttempts
  /\ Call(Restart(AttemptsNow + 1),
          IF rec.status = "needs_review" THEN "trigger" ELSE "cancel")

GiveUpTimedOut ==
  /\ UnderWay /\ StartedNow = "old" /\ AttemptsNow >= MaxAttempts
  /\ Return(Watch("review_stalled", RunNow, StartedNow, AttemptsNow))

InspectWorker ==
  \/ InitialReview \/ NothingToReview \/ AwaitRecord \/ RestartMissing \/ GiveUpMissing
  \/ ChangesRequested \/ Approved
  \/ RestartFailed \/ GiveUpFailed \/ FirstTrigger
  \/ AwaitVerdict \/ RestartTimedOut \/ GiveUpTimedOut

----------------------------------------------------------------------------
(* The calls of a node, and its checkpoint.                                *)

\* A run on the current head; its record names the head, or, if the runner does not, none.
NewRun(target) ==
  /\ runs' = runs + 1
  /\ rec' = [status |-> "running", verdict |-> "unknown", target |-> target,
             run |-> runs + 1, started |-> "fresh"]
Targets == IF Visible THEN {rec.target} ELSE {head, NoHead}

CancelReview ==
  /\ phase = "cancel" /\ mem.worker = worker
  /\ rec' = IF rec.status = "running" THEN [rec EXCEPT !.status = "failed"] ELSE rec
  /\ phase' = "trigger"
  /\ UNCHANGED <<head, worker, prOpen, runs, queued, tried, ckpt, mem, read,
                 feedback, disturbed>>

\* The runner starts a run at once, or accepts the request and shows it later.
TriggerReview ==
  /\ phase = "trigger" /\ mem.worker = worker
  /\ \/ (\E t \in Targets : NewRun(t)) /\ queued' = NoHead
     \/ rec.status \in {"none", "needs_review"} /\ queued' = head /\ UNCHANGED <<rec, runs>>
  /\ tried' = [tried EXCEPT ![head] = @ + 1]
  /\ phase' = "save"
  /\ UNCHANGED <<head, worker, prOpen, ckpt, mem, read, feedback, disturbed>>

\* A node's local variables end with it.
EndNode == mem' = Fresh /\ read' = NoRecord

\* The node's update is saved.
SaveCheckpoint ==
  /\ phase = "save" /\ phase' = "idle"
  /\ ckpt' = mem /\ EndNode
  /\ UNCHANGED <<runner, feedback, disturbed>>

\* Mutant: the node sends what it has not read.
FeedbackUnread ==
  /\ phase = "feedback" /\ rec.verdict = "changes_requested"
  /\ phase' = "send"
  /\ UNCHANGED <<runner, ckpt, mem, read, feedback, disturbed>>

\* return_review_feedback reads the review again.
ReadFeedback ==
  /\ phase = "feedback" /\ rec.verdict = "changes_requested"
  /\ read' = [rec EXCEPT !.started = "none"] /\ phase' = "send"
  /\ UNCHANGED <<runner, ckpt, mem, feedback, disturbed>>

FeedbackGone ==
  /\ phase = "feedback" /\ rec.verdict # "changes_requested"
  /\ ckpt' = [ckpt EXCEPT !.status = "review_pending"] /\ phase' = "idle"
  /\ UNCHANGED <<runner, mem, read, feedback, disturbed>>

\* What both outcomes of the delivery record of the review that was read.
Returned == [ckpt EXCEPT !.target = read.target, !.run = read.run]

\* Mutant: the run whose feedback has been returned is not recorded.
DeliverUnrecorded ==
  /\ phase = "send" /\ ckpt.worker = worker
  /\ delivered' = delivered \cup {read.run}
  /\ repeats' = IF read.run \in delivered THEN repeats + 1 ELSE repeats
  /\ mem' = [ckpt EXCEPT !.sent = TRUE, !.status = "worker_running"]
  /\ phase' = "save"
  /\ UNCHANGED <<runner, ckpt, read, disturbed>>

DeliverFeedback ==
  /\ phase = "send" /\ ckpt.worker = worker
  /\ delivered' = delivered \cup {read.run}
  /\ repeats' = IF read.run \in delivered THEN repeats + 1 ELSE repeats
  /\ mem' = [Returned EXCEPT !.sent = TRUE, !.key = NoKey, !.started = "none",
                             !.attempts = 0, !.status = "worker_running"]
  /\ phase' = "save"
  /\ UNCHANGED <<runner, ckpt, read, disturbed>>

\* The runner does not take the message now.
FeedbackRefused ==
  /\ phase = "send" /\ ckpt.worker = worker
  /\ ckpt' = [Returned EXCEPT !.sent = FALSE, !.status = "changes_requested"]
  /\ phase' = "idle" /\ EndNode
  /\ UNCHANGED <<runner, feedback, disturbed>>

\* A call for a worker that is gone raises: the node has no checkpoint.
WorkerGone ==
  /\ \/ phase \in {"cancel", "trigger"} /\ mem.worker # worker
     \/ phase = "send" /\ ckpt.worker # worker
  /\ phase' = "idle" /\ EndNode
  /\ UNCHANGED <<runner, ckpt, feedback, disturbed>>

Disturb == disturbed < MaxDisturbed /\ disturbed' = disturbed + 1

\* The process dies, or a call raises.
Crash ==
  /\ phase # "idle" /\ Disturb
  /\ phase' = "idle" /\ EndNode
  /\ UNCHANGED <<runner, ckpt, feedback>>

----------------------------------------------------------------------------
(* The runner and the world.                                               *)

RunnerFrame == UNCHANGED <<node, feedback, disturbed>>

OpenPullRequest ==
  /\ ~prOpen /\ prOpen' = TRUE
  /\ UNCHANGED <<head, worker, rec, runs, queued, tried>> /\ RunnerFrame

\* The pull request gets its first record, as one that needs review.
RecordAppears ==
  /\ prOpen /\ ~Visible
  /\ \E t \in {head, NoHead} :
       rec' = [NoRecord EXCEPT !.status = "needs_review", !.target = t]
  /\ UNCHANGED <<head, worker, prOpen, runs, queued, tried>> /\ RunnerFrame

\* An accepted trigger becomes a run.
TriggerSurfaces ==
  /\ queued # NoHead /\ queued' = NoHead
  /\ tried' = IF queued = head THEN tried ELSE [tried EXCEPT ![head] = @ + 1]
  /\ \E t \in Targets : NewRun(t)
  /\ UNCHANGED <<head, worker, prOpen>> /\ RunnerFrame

RunFails ==
  /\ rec.status = "running" /\ rec' = [rec EXCEPT !.status = "failed"]
  /\ UNCHANGED <<head, worker, prOpen, runs, queued, tried>> /\ RunnerFrame

\* An approval that names no change decides nothing: the verdict stays unknown.
RunAnswers ==
  /\ rec.status = "running"
  /\ \E v \in {"approved", "changes_requested", "unknown"} :
       rec' = [rec EXCEPT !.status = "done", !.verdict = v]
  /\ UNCHANGED <<head, worker, prOpen, runs, queued, tried>> /\ RunnerFrame

\* A user or the runner itself starts a review.
StartElsewhere ==
  /\ prOpen /\ Disturb
  /\ tried' = [tried EXCEPT ![head] = @ + 1]
  /\ \E t \in Targets : NewRun(t)
  /\ UNCHANGED <<head, worker, prOpen, queued, node, feedback>>

\* A push: the record, if there is one, asks for a review of the new head.
Push ==
  /\ prOpen /\ head < MaxHead /\ head' = head + 1
  /\ rec' = IF Visible THEN [NoRecord EXCEPT !.status = "needs_review",
                               !.target = IF rec.target = NoHead THEN NoHead ELSE head + 1]
            ELSE rec
  /\ UNCHANGED <<worker, prOpen, runs, queued, tried>> /\ RunnerFrame

\* The worker ends, and the item goes on with another.
ReplaceWorker ==
  /\ Disturb /\ worker' = worker + 1
  /\ prOpen' = FALSE /\ rec' = NoRecord /\ queued' = NoHead
  /\ UNCHANGED <<head, runs, tried, node, feedback>>

\* The runner loses the record.
RecordLost ==
  /\ Visible /\ Disturb /\ rec' = NoRecord
  /\ UNCHANGED <<head, worker, prOpen, runs, queued, tried, node, feedback>>

\* review_timeout_seconds pass; a node is short against them.
Aged(x) == IF x.started = "fresh" THEN [x EXCEPT !.started = "old"] ELSE x
TimePasses ==
  /\ phase = "idle"
  /\ \E x \in {ckpt, rec} : x.started = "fresh"
  /\ ckpt' = Aged(ckpt) /\ rec' = Aged(rec)
  /\ UNCHANGED <<head, worker, prOpen, runs, queued, tried, phase, mem, read,
                 feedback, disturbed>>

Node == \/ InspectWorker \/ CancelReview \/ TriggerReview \/ SaveCheckpoint
        \/ ReadFeedback \/ FeedbackGone \/ DeliverFeedback \/ FeedbackRefused \/ WorkerGone

Environment == \/ OpenPullRequest \/ RecordAppears \/ TriggerSurfaces \/ RunFails
               \/ RunAnswers \/ StartElsewhere \/ Push \/ ReplaceWorker \/ RecordLost

Next == Node \/ Crash \/ Environment \/ TimePasses

Spec == Init /\ [][Next]_vars

\* The service polls for ever, time passes, and a runner that is asked again and again takes
\* the feedback at last: it refuses only while another message is on its way.
FairSpec == Spec /\ WF_vars(Node) /\ WF_vars(TimePasses) /\ SF_vars(DeliverFeedback)

----------------------------------------------------------------------------
(* Properties.                                                             *)

\* The attempts at a head's review are bounded, however runs fail, time out, vanish or come
\* from elsewhere: a budget before the record names the head, one after it does, and as much
\* again for each disturbance (graph.py, the review_max_attempts branches of inspect_worker).
AttemptsBounded ==
  \A h \in Heads : tried[h] <= 2 * MaxAttempts * (1 + disturbed)

\* docs/configuration.md:83: review_max_attempts includes the initial attempt.
BudgetIncludesInitialAttempt ==
  disturbed = 0 => \A h \in Heads : tried[h] <= MaxAttempts

\* A review is given up only after the whole budget was spent on the head it is
\* for: attempts at an older head do not count (same_review in inspect_worker).
StallMeansTried ==
  ckpt.status = "review_stalled" /\ ckpt.key \in Heads /\ ckpt.key = rec.target
    => tried[ckpt.key] >= MaxAttempts

\* A run's findings are sent to the worker once, unless a crash hides that they were
\* (feedback_already_sent, return_review_feedback).
FeedbackOnce == repeats <= disturbed

\* Findings are not forgotten: no run that requests changes stays the latest while the worker
\* never gets its feedback, not even when an earlier run's was sent for the same head.
FeedbackReturned == []<>~(rec.verdict = "changes_requested" /\ rec.run \notin delivered)

\* docs/architecture.md:43-46: an open pull request is not waited for silently for ever: again
\* and again there is a verdict, an exhausted budget to show, or feedback the worker has.
NoSilentWait ==
  []<>(prOpen => \/ ckpt.status \in {"review_stalled", "review_approved", "review_invalid"}
                 \/ ckpt.sent)
=============================================================================
