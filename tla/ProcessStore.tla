---------------------------- MODULE ProcessStore ----------------------------
(***************************************************************************)
(* The bundled runner's database (adapters/process.py, ProcessStateStore): *)
(* one worker session, its latest review, and the compare-and-set          *)
(* operations through which the supervisor and the detached helpers share  *)
(* the two rows.                                                           *)
(***************************************************************************)
EXTENDS Naturals, FiniteSets

CONSTANTS
  MaxHead,       \* bound: commits the pull request can show
  MaxRuns,       \* bound: review runs
  MaxTurns,      \* bound: launches of the worker, the first and the resumed ones
  MaxPosts       \* bound: launches of a reviewer or of a comment retry

ASSUME RunnerBounds ==
  /\ MaxHead \in Nat \ {0} /\ MaxRuns \in Nat \ {0}
  /\ MaxTurns \in Nat \ {0} /\ MaxPosts \in Nat \ {0}

Heads == 1 .. MaxHead
Runs == 1 .. MaxRuns
Turns == 1 .. MaxTurns
Posts == (MaxTurns + 1) .. (MaxTurns + MaxPosts)
\* A launch is identified by its helper_token.
Helpers == Turns \cup Posts
NoToken == 0

Decided == {"approved", "changes_requested"}
Launched == {"starting", "working"}
Reviewing == {"starting", "running", "posting"}
Feedback == {"feedback_starting", "feedback_sent"}

\* A pid is that of the launch's helper or of the driver it started.
Pids == {"none", "helper", "driver"}

\* young: the time limit that the status waits for has not run out since updated_at, the
\* launch grace or, in a session, the time to find the pull request.
Session == [status: Launched \cup {"none", "finished", "idle", "pr_open", "merged",
                                   "failed", "terminated"},
            token: Turns \cup {NoToken}, pid: Pids, resumable: BOOLEAN, young: BOOLEAN]
Review == [status: Reviewing \cup Feedback \cup {"none", "completed", "failed", "cancelled"},
           verdict: Decided \cup {"pending", "unknown"}, target: Heads \cup {0},
           run: Runs \cup {0}, token: Helpers \cup {NoToken}, pid: Pids, young: BOOLEAN]

NoSession == [status |-> "none", token |-> NoToken, pid |-> "none", resumable |-> FALSE,
              young |-> FALSE]
NoReview == [status |-> "none", verdict |-> "pending", target |-> 0, run |-> 0,
             token |-> NoToken, pid |-> "none", young |-> FALSE]

VARIABLES session, review

rows == <<session, review>>

----------------------------------------------------------------------------
(* The session row.                                                        *)

\* update_session: no condition at all.
PutSession(status, pid) ==
  session' = [session EXCEPT !.status = status, !.pid = pid,
                             !.young = status \in {"finished", "idle", "pr_open"}]

\* update_session_for_helper: the launch still owns the turn.
OwnsTurn(h) == session.token = h /\ session.status \in Launched

\* Mutant: the acknowledgement accepts any launch of the turn, whatever pid the row has.
MarksWhateverPid(h) == OwnsTurn(h)

\* mark_session_launched, called by the supervisor and by the helper in either order.
CanMarkSession(h) ==
  /\ session.token = h
  /\ \/ session.status = "starting" /\ session.pid = "none"
     \/ session.status = "working" /\ session.pid = "helper"

MarkSessionLaunched(h) ==
  session' = IF CanMarkSession(h)
               THEN [session EXCEPT !.status = "working", !.pid = "helper", !.young = TRUE]
               ELSE session

\* promote_session_driver.
CanPromoteSession(h) ==
  session.status = "working" /\ session.pid = "helper" /\ session.token = h

----------------------------------------------------------------------------
(* The review row.                                                         *)

\* update_review_for_run: the run is all it compares.
PutReviewOfRun(run, status, verdict) ==
  review' = IF review.run = run /\ review.status # "none"
              THEN [review EXCEPT !.status = status, !.verdict = verdict, !.young = FALSE]
              ELSE review

\* update_review_for_helper.
OwnsRun(h, run) == review.run = run /\ review.token = h /\ review.status \in Reviewing

\* mark_review_launched.
CanMarkReview(h, run) ==
  /\ review.run = run /\ review.token = h
  /\ \/ review.status = "starting" /\ review.pid = "none"
     \/ review.status = "running" /\ review.pid = "helper"

MarkReviewLaunched(h, run) ==
  review' = IF CanMarkReview(h, run)
              THEN [review EXCEPT !.status = "running", !.pid = "helper", !.young = FALSE]
              ELSE review

\* promote_review_driver.
CanPromoteReview(h, run) ==
  /\ review.run = run /\ review.status = "running"
  /\ review.pid = "helper" /\ review.token = h

\* begin_review_post: the verdict is durable before its comment is attempted.
CanBeginPost(h, run) ==
  review.run = run /\ review.token = h /\ review.status \in {"starting", "running"}

\* mark_review_post_process.
CanMarkPost(h, run) == review.run = run /\ review.token = h /\ review.status = "posting"

\* claim_review: a new run, unless one is under way.
ClaimedReview(h, run, head) ==
  [status |-> "starting", verdict |-> "pending", target |-> head, run |-> run, token |-> h,
   pid |-> "none", young |-> TRUE]

----------------------------------------------------------------------------
(* Feedback changes both rows in one transaction.                          *)

\* claim_feedback.
CanClaimFeedback(run) ==
  /\ review.run = run
  /\ review.status = "completed" /\ review.verdict = "changes_requested"

ClaimFeedback(h) ==
  /\ review' = [review EXCEPT !.status = "feedback_starting", !.token = h, !.young = TRUE]
  /\ session' = [session EXCEPT !.status = "starting", !.pid = "none", !.token = h,
                                !.young = TRUE]

\* mark_feedback_launched.
CanConfirmFeedback(h, run) ==
  review.run = run /\ review.status \in Feedback /\ review.token = h

\* recover_unlaunched_feedback.
CanRecover(h, run) ==
  /\ review.run = run /\ review.status = "feedback_starting" /\ review.token = h
  /\ OwnsTurn(h)

RecoverFeedback ==
  /\ review' = [review EXCEPT !.status = "completed", !.token = NoToken, !.young = FALSE]
  /\ session' = [session EXCEPT !.status = "finished", !.pid = "none", !.token = NoToken,
                                !.young = TRUE]
=============================================================================
