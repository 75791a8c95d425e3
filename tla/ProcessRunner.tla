--------------------------- MODULE ProcessRunner ---------------------------
(***************************************************************************)
(* The bundled process runner (adapters/process.py) for one worker: the    *)
(* supervisor's calls, the detached helper of each launch (process_worker, *)
(* run_process_task), the coding CLI that a helper drives, the helper's    *)
(* private task file, the worktree, and the pull request with its review   *)
(* comments.  Helpers outlive the supervisor, drivers outlive helpers.     *)
(***************************************************************************)
EXTENDS ProcessStore

CONSTANTS
  MaxFaults,     \* bound: deaths of processes and failures of commands
  KillsInWindow, \* a driver may lose helper and sentinel while a call holds an old row
  WorktreeInArgv, \* the reviewer's harness is given the worktree's path as an argument
  Endings        \* the ways in which the pull request may end

ASSUME RunnerWorld ==
  /\ MaxFaults \in Nat /\ KillsInWindow \in BOOLEAN /\ WorktreeInArgv \in BOOLEAN
  /\ Endings \subseteq {"merged", "closed"}

VARIABLES
  helper,        \* each launch: position, its driver, task contents, outcome
  tasks,         \* launches whose task file exists
  sup,           \* the supervisor: the call it is in, the rows it has read for it
  tree,          \* the worktree: there, its commit, no uncommitted changes
  pr,            \* the pull request: state and head
  report,        \* the worker's harness is report-only
  prompted,      \* how often each run's feedback was accepted by a driver
  said,          \* the verdicts that each run's comments carry
  faults

outside == <<tree, pr, report>>
history == <<prompted, said>>
vars == <<rows, helper, tasks, sup, outside, history, faults>>

\* wrapped: the driver runs under its sentinel, which carries the token; orphan: helper and
\* sentinel are gone and only the provider is left; comment: the gh command runs.
Drivers == {"none", "wrapped", "orphan", "comment"}
Outs == {"none", "ok", "error", "garbage"} \cup Decided
Positions == {"unused", "written", "launched", "acquired", "prompted", "working", "posting",
              "commenting", "gone"}
Helper == [at: Positions, kind: {"worker", "review", "review_comment"}, driver: Drivers,
           run: Runs \cup {0}, head: Heads \cup {0}, out: Outs]
Unused == [at |-> "unused", kind |-> "worker", driver |-> "none", run |-> 0, head |-> 0,
           out |-> "none"]

Calls == {"idle", "refresh", "get_review", "ready", "send", "cancel", "terminate", "remove",
          "launching", "marking"}
Supervisor == [at: Calls, session: Session, review: Review, launch: Helpers \cup {NoToken},
               safe: BOOLEAN]
Idle == [at |-> "idle", session |-> NoSession, review |-> NoReview, launch |-> NoToken,
         safe |-> FALSE]

TypeOK ==
  /\ session \in Session /\ review \in Review
  /\ helper \in [Helpers -> Helper] /\ tasks \subseteq Helpers
  /\ sup \in Supervisor
  /\ tree \in [there: BOOLEAN, head: Heads, clean: BOOLEAN]
  /\ pr \in [state: {"none", "open", "merged", "closed"}, head: Heads]
  /\ report \in BOOLEAN
  /\ prompted \in [Runs -> 0 .. MaxTurns] /\ said \in [Runs -> SUBSET Decided]
  /\ faults \in 0 .. MaxFaults

Init ==
  /\ session = NoSession /\ review = NoReview
  /\ helper = [h \in Helpers |-> Unused] /\ tasks = {}
  /\ sup = Idle
  /\ tree = [there |-> FALSE, head |-> 1, clean |-> TRUE]
  /\ pr = [state |-> "none", head |-> 1]
  /\ report \in BOOLEAN
  /\ prompted = [r \in Runs |-> 0] /\ said = [r \in Runs |-> {}]
  /\ faults = 0

Fault == faults < MaxFaults /\ faults' = faults + 1

----------------------------------------------------------------------------
(* Processes.                                                              *)

Lives(hs, h) == hs[h].at \notin {"unused", "written", "gone"}
Alive(h) == Lives(helper, h)
Gone(h, driver) ==
  [helper[h] EXCEPT !.at = "gone", !.driver = driver, !.head = 0, !.out = "none"]

\* The first turn's token is the session id, which is part of the command line of every
\* helper of the session and of every worker driver's sentinel.  The worktree's path ends in
\* it, so that codex and opencode reviewers have it on theirs; the gh command does not.
FirstTurn == 1
NamesHelper(t, h) == t = h \/ t = FirstTurn
NamesDriver(t, h, driver) ==
  \/ t = h
  \/ t = FirstTurn /\ (h \in Turns \/ (WorktreeInArgv /\ driver = "wrapped"))

\* _owned_task_processes: what a process listing shows under this token.
Owned(hs, t) ==
  t # NoToken /\ \E h \in Helpers :
    \/ NamesHelper(t, h) /\ Lives(hs, h)
    \/ NamesDriver(t, h, hs[h].driver) /\ hs[h].driver \in {"wrapped", "comment"}

\* _task_exists and _remove_task_for_token go by file names, which hold session and token.
TaskExists(t) == \E h \in tasks : NamesHelper(t, h)
WithoutTask(t) == {h \in tasks : ~NamesHelper(t, h)}

\* _task_process_active: or, while the task file exists, the group of the stored pid.
Active(hs, t, pid) ==
  \/ Owned(hs, t)
  \/ t # NoToken /\ TaskExists(t) /\ pid = "driver" /\ hs[t].driver = "orphan"

\* _stop_helper signals the groups of owned processes only: an orphan survives.  Nothing of
\* a killed helper's finally block runs.
Stop(hs, t) ==
  [h \in Helpers |->
     LET named == NamesDriver(t, h, hs[h].driver)
         driver == IF named /\ hs[h].driver # "orphan" THEN "none" ELSE hs[h].driver
     IN IF t = NoToken THEN hs[h]
        ELSE IF NamesHelper(t, h) /\ Lives(hs, h) THEN Gone(h, driver)
        ELSE [hs[h] EXCEPT !.driver = driver]]

\* The next launch of a kind, and its task file.
Next1(S) == {h \in S : helper[h].at = "unused" /\ \A k \in S : k < h => helper[k].at # "unused"}
Written(h, kind, run, head, out) ==
  helper' = [helper EXCEPT ![h] = [Unused EXCEPT !.at = "written", !.kind = kind,
                                     !.run = run, !.head = head, !.out = out]]

At(c) == sup.at = c
Goto(c) == sup' = [Idle EXCEPT !.at = c]
Launching(h) == sup' = [Idle EXCEPT !.at = "launching", !.launch = h]

----------------------------------------------------------------------------
(* The supervisor's calls.  A poll refreshes the session row and then gets *)
(* the review; it is followed by the next poll or by another call.         *)

SupFrame == UNCHANGED <<outside, history, faults>>

\* spawn_worker, up to the launch.
SpawnWorker ==
  /\ At("idle") /\ session.status = "none"
  /\ session' = [NoSession EXCEPT !.status = "starting", !.token = FirstTurn, !.young = TRUE]
  /\ Written(FirstTurn, "worker", 0, 0, "none")
  /\ tasks' = {FirstTurn}
  /\ Launching(FirstTurn)
  /\ tree' = [tree EXCEPT !.there = TRUE]
  /\ UNCHANGED <<review, pr, report, history, faults>>

\* _launch: the helper process starts.
Launch ==
  /\ At("launching")
  /\ helper' = [helper EXCEPT ![sup.launch].at = "launched"]
  /\ sup' = [sup EXCEPT !.at = "marking"]
  /\ UNCHANGED <<rows, tasks>> /\ SupFrame

\* The acknowledgement of the supervisor, who knows the helper's pid.
MarkLaunched ==
  LET h == sup.launch
  IN /\ At("marking")
     /\ IF h \in Turns
          THEN MarkSessionLaunched(h) /\ UNCHANGED review
          ELSE MarkReviewLaunched(h, helper[h].run) /\ UNCHANGED session
     /\ Goto("idle")
     /\ UNCHANGED <<helper, tasks>> /\ SupFrame

\* The launch raises.  A resumed turn and a comment retry remove their task file.
LaunchFails ==
  LET h == sup.launch
      run == helper[h].run
  IN /\ Fault /\ At("launching")
     /\ IF h \in Turns
          THEN /\ PutSession("failed", session.pid)
               /\ PutReviewOfRun(run, "completed", review.verdict)
          ELSE /\ PutReviewOfRun(run, "failed", review.verdict)
               /\ UNCHANGED session
     /\ tasks' = IF h = FirstTurn \/ helper[h].kind = "review" THEN tasks ELSE tasks \ {h}
     /\ helper' = [helper EXCEPT ![h] = Gone(h, "none")]
     /\ Goto("idle")
     /\ UNCHANGED <<outside, history>>

----------------------------------------------------------------------------
(* _refresh_session, from the row that list_sessions or get_session read.  *)

ReadSession ==
  /\ At("idle") \/ At("ready")
  /\ session.status # "none"
  /\ sup' = [Idle EXCEPT !.at = "refresh", !.session = session]
  /\ UNCHANGED <<rows, helper, tasks>> /\ SupFrame

\* Mutant: a launch is waited for without a limit.
WaitsForLaunch(row, some) ==
  row.status \in some /\ (row.status = "starting" \/ Active(helper, row.token, row.pid))

\* Within the launch grace, or a process of the launch is seen.
Running(row, some) ==
  /\ row.status \in some
  /\ (row.status = "starting" /\ row.young) \/ Active(helper, row.token, row.pid)

Lost(s) == s.status \in Launched /\ ~Running(s, Launched)

FeedbackClaim(s) ==
  /\ review.status \in Feedback /\ review.token # NoToken
  /\ review.token = s.token /\ TaskExists(review.token)

\* The poll goes on with get_review, which reads its row.
ReadsReview ==
  sup' = IF review'.status = "none" \/ session'.status = "terminated"
           THEN [Idle EXCEPT !.at = "ready"]
           ELSE [Idle EXCEPT !.at = "get_review", !.review = review']

RefreshNothing ==
  LET s == sup.session
  IN /\ At("refresh")
     /\ \/ Running(s, Launched)
        \/ s.status \in {"failed", "merged", "terminated"}
        \/ Lost(s) /\ FeedbackClaim(s) /\ review.status = "feedback_starting" /\ s.young
     /\ UNCHANGED <<rows, helper, tasks>> /\ SupFrame
     /\ ReadsReview

\* The feedback was delivered, and its helper died without recording how the turn ended.
RefreshFeedbackSent ==
  LET s == sup.session
  IN /\ At("refresh") /\ Lost(s) /\ FeedbackClaim(s)
     /\ review.status = "feedback_sent"
     /\ PutSession("finished", "none")
     /\ tasks' = WithoutTask(s.token)
     /\ UNCHANGED <<review, helper>> /\ SupFrame
     /\ ReadsReview

\* recover_unlaunched_feedback, from whichever call finds the claim dead.
Recovers(t) == RecoverFeedback /\ tasks' = WithoutTask(t) /\ UNCHANGED helper

RefreshRecovers ==
  LET s == sup.session
  IN /\ At("refresh") /\ Lost(s) /\ FeedbackClaim(s)
     /\ review.status = "feedback_starting" /\ ~s.young
     /\ CanRecover(s.token, review.run)
     /\ Recovers(s.token)
     /\ SupFrame
     /\ ReadsReview

\* Nothing of the launch is left.  A task file says that the helper was killed: the worker
\* may have done its work.  Without one the turn counts as failed.
RefreshLost ==
  LET s == sup.session
  IN /\ At("refresh") /\ Lost(s)
     /\ FeedbackClaim(s) =>
          review.status = "feedback_starting" /\ ~s.young /\ ~CanRecover(s.token, review.run)
     /\ PutSession(IF TaskExists(s.token) /\ ~report THEN "finished" ELSE "failed", "none")
     /\ tasks' = WithoutTask(s.token)
     /\ UNCHANGED <<review, helper>> /\ SupFrame
     /\ ReadsReview

\* Mutant: the state of the pull request is stored as it comes.
TakesPullRequestState(s) == IF pr.state # "none" THEN pr.state ELSE s.status

\* What the pull request, or its absence, makes of a worker that has ended its turn.
AfterTurn(s) ==
  CASE pr.state = "merged" -> "merged"
    [] pr.state = "open" -> "pr_open"
    [] pr.state = "closed" -> "failed"
    [] s.status # "finished" -> s.status
    [] report -> "idle"
    [] OTHER -> IF s.young THEN "finished" ELSE "failed"

RefreshPullRequest ==
  LET s == sup.session
  IN /\ At("refresh")
     /\ s.status \in {"finished", "idle", "pr_open"}
     /\ IF AfterTurn(s) = s.status THEN UNCHANGED session
                                   ELSE PutSession(AfterTurn(s), session.pid)
     /\ UNCHANGED <<review, helper, tasks>> /\ SupFrame
     /\ ReadsReview

----------------------------------------------------------------------------
(* get_review, from the row it has read.                                   *)

\* The reviewer ended without recording a result, says a row that may be out of date.
ReviewLost ==
  LET r == sup.review
  IN /\ At("get_review")
     /\ r.status \in Reviewing /\ ~Running(r, Reviewing)
     /\ PutReviewOfRun(r.run, "failed", review.verdict)
     /\ tasks' = WithoutTask(r.token)
     /\ Goto("ready")
     /\ UNCHANGED <<session, helper>> /\ SupFrame

HeadMoved(r) == pr.state # "none" /\ pr.head # r.target

\* The worker has answered the feedback with a new head: the review is over.
FeedbackAnswered ==
  LET r == sup.review
  IN /\ At("get_review")
     /\ r.status \in Feedback /\ HeadMoved(r)
     /\ review' = NoReview
     /\ Goto("ready")
     /\ UNCHANGED <<session, helper, tasks>> /\ SupFrame

\* Mutant: the grace alone decides that a claim is dead.
OnlyOverdue(r, pid) ==
  r.status = "feedback_starting" /\ ~r.young /\ CanRecover(r.token, r.run)

\* The claim's process is not there after the launch grace.
Unlaunched(r, pid) ==
  /\ r.status = "feedback_starting" /\ ~r.young
  /\ ~Active(helper, r.token, pid) /\ CanRecover(r.token, r.run)

ReviewRecovers ==
  LET r == sup.review
  IN /\ At("get_review")
     /\ Unlaunched(r, session.pid) /\ ~HeadMoved(r)
     /\ Recovers(r.token)
     /\ Goto("ready")
     /\ SupFrame

\* The worker has ended its turn and the head has not moved for a while.
Ignored(r) ==
  r.status = "feedback_sent" /\ session.status \in {"finished", "idle", "pr_open"}
    /\ ~session.young

FeedbackIgnored ==
  LET r == sup.review
  IN /\ At("get_review")
     /\ Ignored(r) /\ ~HeadMoved(r)
     /\ PutSession("failed", session.pid)
     /\ Goto("ready")
     /\ UNCHANGED <<review, helper, tasks>> /\ SupFrame

ReviewUnchanged ==
  LET r == sup.review
  IN /\ At("get_review")
     /\ r.status \in Reviewing => Running(r, Reviewing)
     /\ r.status \in Feedback => ~HeadMoved(r)
     /\ ~Unlaunched(r, session.pid) /\ ~Ignored(r)
     /\ Goto("ready")
     /\ UNCHANGED <<rows, helper, tasks>> /\ SupFrame

----------------------------------------------------------------------------
(* trigger_review, which the supervisor calls for a head that no review    *)
(* has decided about.                                                      *)

Triggers ==
  /\ At("ready") /\ session.status \notin {"none", "terminated"}
  /\ review.status \in {"completed"} \cup Feedback => review.target # pr.head
  /\ pr.state = "open"
  /\ tree.there /\ tree.head = pr.head /\ tree.clean
  /\ ~Running(review, Reviewing)

\* A dead reviewer's run has failed, and its task file is removed, before the new launch.
Dead(r) == r.status \in Reviewing
Settled(r) == IF Dead(r) THEN [r EXCEPT !.status = "failed", !.young = FALSE] ELSE r
TasksAfter(r, h) == (IF Dead(r) THEN WithoutTask(r.token) ELSE tasks) \cup {h}

\* The verdict is known, its comment is not.
CommentMissing(r) ==
  r.status = "failed" /\ r.verdict \in Decided /\ r.target = pr.head

\* _retry_review_comment with claim_review_comment.
RetryReviewComment ==
  LET r == Settled(review)
  IN /\ Triggers /\ CommentMissing(r)
     /\ \E h \in Next1(Posts) :
          /\ review' = [r EXCEPT !.status = "starting", !.pid = "none", !.token = h,
                                 !.young = TRUE]
          /\ Written(h, "review_comment", r.run, r.target, r.verdict)
          /\ tasks' = TasksAfter(review, h)
          /\ Launching(h)
     /\ UNCHANGED session /\ SupFrame

UsedRuns == {helper[h].run : h \in Posts}

TriggerReview ==
  /\ Triggers /\ ~CommentMissing(Settled(review))
  /\ \E h \in Next1(Posts), run \in Runs :
       /\ run \notin UsedRuns /\ \A k \in Runs : k < run => k \in UsedRuns
       /\ review' = ClaimedReview(h, run, pr.head)
       /\ Written(h, "review", run, pr.head, "none")
       /\ tasks' = TasksAfter(review, h)
       /\ Launching(h)
  /\ UNCHANGED session /\ SupFrame

----------------------------------------------------------------------------
(* cancel_review.                                                          *)

ReadToCancel ==
  /\ At("ready") /\ session.status # "terminated"
  /\ review.status \in Reviewing
  /\ sup' = [Idle EXCEPT !.at = "cancel", !.review = review]
  /\ UNCHANGED <<rows, helper, tasks>> /\ SupFrame

\* The row forgets the process, and the task file goes, only once it is seen to be gone.
Cancel(hs, r) ==
  LET still == Active(hs, r.token, r.pid)
  IN /\ review' = IF review.run = r.run /\ review.status # "none"
                    THEN [review EXCEPT !.status = "cancelled", !.verdict = "unknown",
                                        !.young = FALSE,
                                        !.pid = IF still THEN @ ELSE "none"]
                    ELSE review
     /\ tasks' = IF still THEN tasks ELSE WithoutTask(r.token)

CancelReview ==
  LET r == sup.review
  IN /\ At("cancel")
     /\ helper' = Stop(helper, r.token)
     /\ Cancel(helper', r)
     /\ Goto("idle")
     /\ UNCHANGED session /\ SupFrame

----------------------------------------------------------------------------
(* send: the supervisor sends a worker the findings of its review.         *)

ReadToSend ==
  /\ At("ready") /\ session.status \notin {"none", "terminated"}
  /\ review.status \in {"completed"} \cup Feedback /\ review.verdict = "changes_requested"
  /\ sup' = [Idle EXCEPT !.at = "send", !.session = session, !.review = review]
  /\ UNCHANGED <<rows, helper, tasks>> /\ SupFrame

\* A dead claim is rolled back, and both rows are read again.
SendRecovers ==
  /\ At("send") /\ Unlaunched(sup.review, sup.session.pid)
  /\ Recovers(sup.review.token)
  /\ sup' = [sup EXCEPT !.session = session', !.review = review']
  /\ SupFrame

Sendable ==
  LET s == sup.session
  IN /\ sup.review.status \notin Feedback
     /\ ~(s.status \in Launched /\ Active(helper, s.token, s.pid))
     /\ s.resumable

\* It was sent already, its claim is young, the worker is busy, or it cannot be resumed.
SendRefused ==
  /\ At("send") /\ ~Unlaunched(sup.review, sup.session.pid)
  /\ ~Sendable \/ ~CanClaimFeedback(sup.review.run)
  /\ Goto("idle")
  /\ UNCHANGED <<rows, helper, tasks>> /\ SupFrame

Send ==
  LET run == sup.review.run
  IN /\ At("send") /\ Sendable /\ CanClaimFeedback(run)
     /\ \E h \in Next1(Turns) :
          /\ ClaimFeedback(h)
          /\ Written(h, "worker", run, 0, "none")
          /\ tasks' = tasks \cup {h}
          /\ Launching(h)
     /\ SupFrame

----------------------------------------------------------------------------
(* terminate.                                                              *)

ReadToTerminate ==
  /\ At("ready") /\ session.status # "none" /\ tree.there
  /\ sup' = [Idle EXCEPT !.at = "terminate", !.session = session]
  /\ UNCHANGED <<rows, helper, tasks>> /\ SupFrame

\* Mutant: what is not seen now is over.
NotSeen(row, some, before, after) == ~Active(after, row.token, row.pid)

\* Whether a launch is certainly over: it is not seen now, and if the row says that it is
\* active, then it was seen before it was stopped.
Over(row, some, before, after) ==
  /\ ~Active(after, row.token, row.pid)
  /\ row.status \in some => Active(before, row.token, row.pid)

TerminateStops ==
  LET s == sup.session
      stopped == Stop(helper, s.token)
  IN /\ At("terminate")
     /\ helper' = Stop(stopped, review.token)
     /\ sup' = [sup EXCEPT !.at = "remove", !.launch = review.token,
                  !.safe = /\ Over(s, Launched, helper, stopped)
                           /\ Over(review, Reviewing, stopped, helper')]
     /\ IF review.status \in Reviewing THEN Cancel(helper', review)
                                       ELSE UNCHANGED <<review, tasks>>
     /\ UNCHANGED session /\ SupFrame

\* git refuses to remove a worktree with uncommitted changes.
TerminateRemoves ==
  /\ At("remove")
  /\ PutSession("terminated", session.pid)
  /\ IF sup.safe
       THEN /\ tree' = [tree EXCEPT !.there = ~tree.clean]
            /\ tasks' = WithoutTask(sup.session.token) \cap WithoutTask(sup.launch)
       ELSE UNCHANGED <<tree, tasks>>
  /\ Goto("idle")
  /\ UNCHANGED <<review, helper, pr, report, history, faults>>

\* The supervisor dies between the writes of a call, and another one starts.  A death before
\* the first write is as if the call had not been made.
SupervisorCrash ==
  /\ Fault
  /\ At("launching") \/ At("marking") \/ At("remove")
  /\ Goto("idle")
  /\ UNCHANGED <<rows, helper, tasks, outside, history>>

----------------------------------------------------------------------------
(* The helper of a worker's turn (run_process_task).                       *)

HelperFrame == UNCHANGED <<sup, outside, faults>>
Move(h, at) == helper' = [helper EXCEPT ![h].at = at]
\* The helper leaves: its finally block removes the task file.
Leaves(h) ==
  helper' = [helper EXCEPT ![h] = Gone(h, "none")] /\ tasks' = tasks \ {h}

TurnAcquires(h) ==
  /\ helper[h].at = "launched"
  /\ MarkSessionLaunched(h)
  /\ IF CanMarkSession(h) THEN Move(h, "acquired") /\ UNCHANGED tasks ELSE Leaves(h)
  /\ UNCHANGED <<review, history>> /\ HelperFrame

\* The driver starts and gets the prompt, unless the launch lost its turn: a driver that is
\* stopped before it is given a prompt does no work, and is left out.
TurnStarts(h) ==
  LET run == helper[h].run
  IN /\ helper[h].at = "acquired"
     /\ IF CanPromoteSession(h)
          THEN /\ session' = [session EXCEPT !.pid = "driver", !.young = TRUE]
               /\ helper' = [helper EXCEPT ![h].driver = "wrapped",
                               ![h].at = IF run = 0 THEN "working" ELSE "prompted"]
               /\ prompted' = IF run = 0 THEN prompted ELSE [prompted EXCEPT ![run] = @ + 1]
               /\ UNCHANGED tasks
          ELSE Leaves(h) /\ UNCHANGED <<session, prompted>>
     /\ UNCHANGED <<review, said>> /\ HelperFrame

\* mark_feedback_launched; without the claim the driver is stopped, and nothing recorded.
TurnConfirms(h) ==
  LET run == helper[h].run
  IN /\ helper[h].at = "prompted"
     /\ IF CanConfirmFeedback(h, run)
          THEN /\ review' = [review EXCEPT !.status = "feedback_sent", !.young = FALSE]
               /\ Move(h, "working") /\ UNCHANGED tasks
          ELSE Leaves(h) /\ UNCHANGED review
     /\ UNCHANGED <<session, history>> /\ HelperFrame

\* A driver ends: the helper, if there is one, gets its output.
DriverEnds(h) ==
  /\ helper[h].driver \in {"wrapped", "orphan"}
  /\ \E out \in IF h \in Turns THEN {"ok", "error"} ELSE Decided \cup {"garbage", "error"} :
       helper' = [helper EXCEPT ![h].driver = "none",
                                ![h].out = IF Alive(h) THEN out ELSE "none"]
  /\ UNCHANGED <<rows, tasks, history>> /\ HelperFrame

\* The session can be resumed if this output, or an earlier one, named the CLI's own session.
TurnRecords(h) ==
  /\ helper[h].at = "working" /\ h \in Turns /\ helper[h].out # "none"
  /\ \E named \in BOOLEAN :
       session' = IF ~OwnsTurn(h) THEN session
                  ELSE IF helper[h].out = "ok"
                    THEN [session EXCEPT !.status = "finished", !.pid = "none",
                                         !.resumable = @ \/ named, !.young = TRUE]
                    ELSE [session EXCEPT !.status = "failed", !.young = FALSE]
  /\ Leaves(h)
  /\ UNCHANGED <<review, history>> /\ HelperFrame

\* An exception: the driver is stopped, an unconfirmed claim is rolled back.
TurnRaises(h) ==
  LET unconfirmed == helper[h].run # 0 /\ helper[h].at # "working"
  IN /\ Fault /\ h \in Turns /\ helper[h].at \in {"acquired", "prompted", "working"}
     /\ IF unconfirmed /\ CanRecover(h, helper[h].run)
          THEN RecoverFeedback
          ELSE /\ session' = IF OwnsTurn(h)
                               THEN [session EXCEPT !.status = "failed", !.pid = "none",
                                                    !.young = FALSE]
                               ELSE session
               /\ UNCHANGED review
     /\ Leaves(h)
     /\ UNCHANGED <<sup, outside, history>>

----------------------------------------------------------------------------
(* The helper of a review and of a comment retry.                          *)

ReviewAcquires(h) ==
  /\ helper[h].at = "launched"
  /\ MarkReviewLaunched(h, helper[h].run)
  /\ IF CanMarkReview(h, helper[h].run) THEN Move(h, "acquired") /\ UNCHANGED tasks
                                        ELSE Leaves(h)
  /\ UNCHANGED <<session, history>> /\ HelperFrame

\* _verify_task_checkout.
CheckoutVerified(h) == tree.there /\ tree.head = helper[h].head /\ tree.clean

\* Mutant: the exception path forgets a verdict that is already durable.
ForgetsVerdict(h) ==
  IF OwnsRun(h, helper[h].run)
    THEN [review EXCEPT !.status = "failed", !.pid = "none", !.young = FALSE,
                        !.verdict = "unknown"]
    ELSE review

\* The exception path keeps a verdict that is already durable.
FailedReview(h) ==
  IF OwnsRun(h, helper[h].run)
    THEN [review EXCEPT !.status = "failed", !.pid = "none", !.young = FALSE,
                        !.verdict = IF @ \in Decided THEN @ ELSE "unknown"]
    ELSE review
Raises(h) == review' = FailedReview(h) /\ Leaves(h)

ReviewStarts(h) ==
  /\ helper[h].at = "acquired" /\ helper[h].kind = "review"
  /\ IF ~CheckoutVerified(h) THEN Raises(h)
     ELSE IF CanPromoteReview(h, helper[h].run)
       THEN /\ review' = [review EXCEPT !.pid = "driver"]
            /\ helper' = [helper EXCEPT ![h].at = "working", ![h].driver = "wrapped"]
            /\ UNCHANGED tasks
       ELSE Leaves(h) /\ UNCHANGED review
  /\ UNCHANGED <<session, history>> /\ HelperFrame

\* Mutant: the review counts as completed before its comment is posted.
CompletesUnposted(h) ==
  IF CanBeginPost(h, helper[h].run)
    THEN /\ review' = [review EXCEPT !.status = "completed", !.verdict = helper[h].out]
         /\ Move(h, "posting") /\ UNCHANGED tasks
    ELSE Leaves(h) /\ UNCHANGED review

\* The verdict of the reviewer, or of the task of a retry, becomes durable.
BeginsPost(h) ==
  IF CanBeginPost(h, helper[h].run)
    THEN /\ review' = [review EXCEPT !.status = "posting", !.verdict = helper[h].out]
         /\ Move(h, "posting") /\ UNCHANGED tasks
    ELSE Leaves(h) /\ UNCHANGED review

CommentStarts(h) ==
  /\ helper[h].at = "acquired" /\ helper[h].kind = "review_comment"
  /\ IF CheckoutVerified(h) THEN BeginsPost(h) ELSE Raises(h)
  /\ UNCHANGED <<session, history>> /\ HelperFrame

ReviewJudged(h) ==
  LET out == helper[h].out
  IN /\ helper[h].at = "working" /\ h \in Posts /\ out # "none"
     /\ CASE out = "error" ->
               /\ review' = IF OwnsRun(h, helper[h].run)
                              THEN [review EXCEPT !.status = "failed", !.verdict = "unknown"]
                              ELSE review
               /\ Leaves(h)
          [] out \in Decided /\ CheckoutVerified(h) -> BeginsPost(h)
          [] OTHER -> Raises(h)
     /\ UNCHANGED <<session, history>> /\ HelperFrame

\* A gh command that is stopped may have been accepted before.
MayBeSaid(h) ==
  said' \in {said, [said EXCEPT ![helper[h].run] = @ \cup {helper[h].out}]}

\* _post_review_comment starts the gh command under the launch's token, and stops it again
\* if the run is not the launch's any more.
PostStarts(h) ==
  /\ helper[h].at = "posting"
  /\ IF CanMarkPost(h, helper[h].run)
       THEN /\ review' = [review EXCEPT !.pid = "driver"]
            /\ helper' = [helper EXCEPT ![h].at = "commenting", ![h].driver = "comment"]
            /\ UNCHANGED <<tasks, said>>
       ELSE Raises(h) /\ MayBeSaid(h)
  /\ UNCHANGED <<session, prompted>> /\ HelperFrame

\* gh ends, whether its helper still waits or not.
CommentPosted(h) ==
  /\ helper[h].driver = "comment"
  /\ said' = [said EXCEPT ![helper[h].run] = @ \cup {helper[h].out}]
  /\ helper' = [helper EXCEPT ![h].driver = "none", ![h].out = IF Alive(h) THEN @ ELSE "none"]
  /\ UNCHANGED <<rows, tasks, prompted>> /\ HelperFrame

CompleteReview(h) ==
  /\ helper[h].at = "commenting" /\ helper[h].driver = "none"
  /\ review' = IF OwnsRun(h, helper[h].run)
                 THEN [review EXCEPT !.status = "completed", !.verdict = helper[h].out,
                                     !.pid = "none"]
                 ELSE review
  /\ Leaves(h)
  /\ UNCHANGED <<session, history>> /\ HelperFrame

\* gh fails or takes too long, before or after the comment was accepted.
CommentFails(h) ==
  /\ Fault /\ Alive(h) /\ helper[h].driver = "comment"
  /\ MayBeSaid(h)
  /\ Raises(h)
  /\ UNCHANGED <<session, sup, outside, prompted>>

ReviewRaises(h) ==
  /\ Fault /\ h \in Posts /\ helper[h].at \in {"acquired", "working", "posting"}
  /\ Raises(h)
  /\ UNCHANGED <<session, sup, outside, history>>

----------------------------------------------------------------------------
(* Everything else.                                                        *)

\* SIGKILL for a helper, for its driver's sentinel, for the driver, or for several of them.
Survivors(h) ==
  CASE helper[h].driver = "wrapped" -> {"wrapped", "none"} \cup
         (IF sup.at \in {"refresh", "get_review", "send"} => KillsInWindow
            THEN {"orphan"} ELSE {})
    [] helper[h].driver = "comment" -> {"comment", "none"}
    [] OTHER -> {helper[h].driver}

KillHelper(h) ==
  /\ Fault
  /\ Alive(h) \/ helper[h].driver = "wrapped"
  /\ \E d \in Survivors(h) :
       helper' = [helper EXCEPT ![h] = [Gone(h, d) EXCEPT
                                          !.out = IF d = "comment" THEN helper[h].out ELSE "none"]]
  /\ UNCHANGED <<rows, tasks, sup, outside, history>>

Works(h) == helper[h].driver \in {"wrapped", "orphan"}
WorldFrame == UNCHANGED <<rows, helper, tasks, sup, report, history, faults>>

\* The worker commits and pushes, the first time with a new pull request.
WorkerPushes ==
  /\ \E h \in Turns : Works(h)
  /\ ~report /\ tree.there
  /\ \/ pr.state = "none" /\ pr' = [state |-> "open", head |-> tree.head]
        /\ tree' = [tree EXCEPT !.clean = TRUE]
     \/ /\ pr.state = "open" /\ tree.head < MaxHead
        /\ tree' = [tree EXCEPT !.head = @ + 1, !.clean = TRUE]
        /\ pr' = [pr EXCEPT !.head = tree.head + 1]
  /\ WorldFrame

\* A worker, or a reviewer that does not keep to its read-only mode, leaves changes behind.
TreeDirtied ==
  /\ \E h \in Helpers : Works(h)
  /\ tree.there /\ tree.clean
  /\ tree' = [tree EXCEPT !.clean = FALSE]
  /\ UNCHANGED pr /\ WorldFrame

PullRequestEnds ==
  /\ pr.state = "open"
  /\ \E state \in Endings : pr' = [pr EXCEPT !.state = state]
  /\ UNCHANGED tree /\ WorldFrame

\* The time limits counted from the rows' updated_at run out.
Age ==
  /\ session.young \/ review.young
  /\ session' = [session EXCEPT !.young = FALSE]
  /\ review' = [review EXCEPT !.young = FALSE]
  /\ sup' = [sup EXCEPT !.session.young = FALSE, !.review.young = FALSE]
  /\ UNCHANGED <<helper, tasks, outside, history, faults>>

----------------------------------------------------------------------------
Poll ==
  \/ ReadSession \/ RefreshNothing \/ RefreshFeedbackSent \/ RefreshRecovers \/ RefreshLost
  \/ RefreshPullRequest \/ ReviewLost \/ FeedbackAnswered \/ ReviewRecovers
  \/ FeedbackIgnored \/ ReviewUnchanged
Call ==
  \/ SpawnWorker \/ RetryReviewComment \/ TriggerReview \/ ReadToCancel \/ ReadToSend
  \/ ReadToTerminate
Called ==
  \/ Launch \/ MarkLaunched \/ CancelReview \/ SendRecovers \/ SendRefused \/ Send
  \/ TerminateStops \/ TerminateRemoves
Turn(h) == TurnAcquires(h) \/ TurnStarts(h) \/ TurnConfirms(h) \/ TurnRecords(h)
Judgement(h) ==
  \/ ReviewAcquires(h) \/ ReviewStarts(h) \/ CommentStarts(h) \/ ReviewJudged(h)
  \/ PostStarts(h) \/ CompleteReview(h)
Ends(h) == DriverEnds(h) \/ CommentPosted(h)
Processes ==
  \/ \E h \in Turns : Turn(h)
  \/ \E h \in Posts : Judgement(h)
  \/ \E h \in Helpers : Ends(h)
Faults ==
  \/ LaunchFails \/ SupervisorCrash
  \/ \E h \in Helpers : TurnRaises(h) \/ CommentFails(h) \/ ReviewRaises(h) \/ KillHelper(h)
World == WorkerPushes \/ TreeDirtied \/ PullRequestEnds \/ Age

Next ==
  Poll \/ Call \/ Called \/ Processes \/ Faults \/ World

Spec == Init /\ [][Next]_vars

\* The supervisor finishes its calls and polls again; processes run and end; time passes.
Fairness ==
  WF_vars(Poll \/ Called) /\ WF_vars(Processes \/ Age)

FairSpec == Spec /\ Fairness

----------------------------------------------------------------------------
\* At most one coding CLI works on the session's worktree, and at most one command posts a
\* comment, however the supervisor's acknowledgement, the helper's own one, a recovered
\* claim, a resumed turn and the deaths of either side interleave (the token and pid that
\* each write of the two rows compares).
OneDriver ==
  /\ Cardinality({h \in Turns : helper[h].driver # "none"}) <= 1
  /\ Cardinality({h \in Posts : helper[h].driver = "comment"}) <= 1

\* A review that the database reports as completed, or as answered with feedback, has its
\* verdict on the pull request, and the comments of one run never contradict each other:
\* a retry after a failed gh command repeats the verdict that is durable.
VerdictPosted ==
  /\ review.status \in {"completed"} \cup Feedback => review.verdict \in said[review.run]
  /\ \A run \in Runs : Cardinality(said[run]) <= 1

\* The findings of a review are given to a worker once, and once more only for a process
\* that died or an error: a claim is rolled back, to be sent again, only when its launch is
\* certainly dead, also when the helper delivers while the supervisor looks at it.
PromptOnce == \A run \in Runs : prompted[run] <= 1 + faults

\* A verdict that is durable and not yet posted is not replaced by another of the same
\* head, and no other run takes its place: what fails after begin_review_post is only
\* retried.  A cancellation and a review of another head are the exceptions.
VerdictStands ==
  [][review.status \in {"posting", "failed"} /\ review.verdict \in Decided =>
       \/ review'.verdict = review.verdict /\ review'.run = review.run
       \/ review'.status = "cancelled"
       \/ review'.target # review.target]_vars

\* terminate never removes a worktree in which a worker, even one that has outlived its
\* helper and its sentinel, or the helper-driven reviewer is still at work.
WorktreeKept ==
  [][tree.there /\ ~tree'.there =>
       /\ \A h \in Turns : helper[h].driver = "none"
       /\ \A h \in Posts : h = review.token => helper[h].driver \in {"none", "orphan"}]_vars

\* Whatever dies, and whenever, the rows do not stay in a status in which the supervisor
\* can only wait: a launch that was never acknowledged, a reviewer that left no verdict and
\* a claim that nobody delivers are all noticed by later polls.
Busy ==
  \/ session.status \in Launched \/ review.status \in Reviewing
  \/ review.status \in Feedback /\ session.status \notin {"failed", "merged", "terminated"}
NothingHangs == Busy ~> ~Busy

\* docs/process-runner.md of a worker that has exited successfully: it has the bounded
\* window to be found a pull request, and only after that is it unhealthy.  A poll that read
\* the row while the worker still ran breaks it.
FinishedKept ==
  [][session.status = "finished" /\ session.young /\ ~report /\ pr.state # "closed" =>
       session'.status # "failed"]_vars
=============================================================================
