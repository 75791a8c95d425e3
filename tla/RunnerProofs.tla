---------------------------- MODULE RunnerProofs ----------------------------
(***************************************************************************)
(* The bundled runner, proved for every value of the constants: types, the *)
(* verdict that a review reports and keeps, and how often findings are     *)
(* delivered.                                                              *)
(***************************************************************************)
EXTENDS RunnerInv, FiniteSetTheorems, TLAPS

\* The launches of workers and of reviewers are apart, and NoToken is none of them.
LEMMA Tokens ==
  /\ Helpers = Turns \cup Posts /\ Turns \cap Posts = {} /\ NoToken \notin Helpers
  /\ NoToken = 0 /\ FirstTurn = 1 /\ FirstTurn \in Turns
  /\ Turns \subseteq Nat /\ Posts \subseteq Nat /\ 0 \notin Runs
BY RunnerBounds DEF Helpers, Turns, Posts, NoToken, FirstTurn, Runs

----------------------------------------------------------------------------
(* Types of what the calls write.                                          *)

\* The empty rows, the idle call and the unused launch have their types.
LEMMA EmptyTyped ==
  NoSession \in Session /\ NoReview \in Review /\ Idle \in Supervisor /\ Unused \in Helper
<1>1. NoSession \in Session /\ NoReview \in Review
  BY DEF NoSession, NoReview, Session, Review, Pids, NoToken
<1>2. Unused \in Helper
  BY DEF Unused, Helper, Positions, Drivers, Outs
<1> QED
  BY <1>1, <1>2 DEF Idle, Supervisor, Calls, NoToken

\* A launch that has ended has its type.
LEMMA GoneTyped ==
  ASSUME helper \in [Helpers -> Helper], NEW h \in Helpers, NEW d \in Drivers
  PROVE  Gone(h, d) \in Helper
BY DEF Helper, Gone, Positions, Outs

\* update_session keeps the token.
LEMMA PutSessionTyped ==
  ASSUME session \in Session, NEW p \in Pids,
         NEW st \in {"finished", "idle", "pr_open", "merged", "failed", "terminated"},
         PutSession(st, p)
  PROVE  /\ session' \in Session /\ session'.status = st /\ session'.pid = p
         /\ session'.token = session.token
<1>1. (st \in {"finished", "idle", "pr_open"}) \in BOOLEAN
  OBVIOUS
<1> QED
  BY <1>1 DEF PutSession, Session

\* The supervisor's writes of both rows that a rollback makes.
LEMMA RecoverTyped ==
  ASSUME session \in Session, review \in Review, RecoverFeedback
  PROVE  /\ session' \in Session /\ review' \in Review
         /\ review'.status = "completed" /\ review'.token = NoToken
         /\ review'.run = review.run /\ review'.verdict = review.verdict
         /\ review'.target = review.target
         /\ session'.status = "finished" /\ session'.token = NoToken
BY DEF RecoverFeedback, Session, Review, Pids, NoToken, Feedback

----------------------------------------------------------------------------
(* Steps that keep the base invariant, by what they do.                    *)

\* The counters are numbers, and the rows name runs that exist.
LEMMA Counted ==
  ASSUME BaseInv
  PROVE  /\ \A run \in Runs : prompted[run] \in Nat
         /\ faults \in Nat
         /\ review.status # "none" => review.run \in Runs
         /\ \A h \in Helpers : helper[h].run # 0 => helper[h].run \in Runs
<1>1. (\A run \in Runs : prompted[run] \in Nat) /\ faults \in Nat
  BY RunnerBounds, RunnerWorld DEF BaseInv, TypeOK
<1>2. review.status # "none" => review.run \in Runs
  BY DEF BaseInv, RowShapes, TypeOK, Review
<1>3. \A h \in Helpers : helper[h].run # 0 => helper[h].run \in Runs
  BY DEF BaseInv, TypeOK, Helper
<1> QED
  BY <1>1, <1>2, <1>3

\* Every step keeps the types of what the rows and launches are judged by.
LEMMA WorldStep ==
  ASSUME TypeOK, [Next]_vars
  PROVE  WorldTyped'
<1> USE DEF TypeOK, WorldTyped
<1>1. CASE UNCHANGED <<tree, pr, report, faults>>
  BY <1>1
<1>2. CASE Fault /\ UNCHANGED <<tree, pr, report>>
  BY <1>2, RunnerWorld DEF Fault
<1>3. CASE SpawnWorker \/ TerminateRemoves
  BY <1>3 DEF SpawnWorker, TerminateRemoves
<1>4. CASE WorkerPushes
  <2>1. UNCHANGED <<report, faults>>
    BY <1>4 DEF WorkerPushes, WorldFrame
  <2>2. CASE pr.state = "none"
    <3>1. pr' = [state |-> "open", head |-> tree.head] /\ tree' = [tree EXCEPT !.clean = TRUE]
      BY <1>4, <2>2 DEF WorkerPushes
    <3> QED
      BY <2>1, <3>1
  <2>3. CASE pr.state # "none"
    <3>1. tree.head + 1 \in Heads
      BY <1>4, <2>3, RunnerBounds DEF WorkerPushes, Heads
    <3>2. /\ tree' = [tree EXCEPT !.head = @ + 1, !.clean = TRUE]
          /\ pr' = [pr EXCEPT !.head = tree.head + 1]
      BY <1>4, <2>3 DEF WorkerPushes
    <3> QED
      BY <2>1, <3>1, <3>2
  <2> QED
    BY <2>2, <2>3
<1>5. CASE TreeDirtied \/ PullRequestEnds
  BY <1>5, RunnerWorld DEF TreeDirtied, PullRequestEnds, WorldFrame
<1>6. CASE Poll \/ Call \/ Called
  BY <1>1, <1>3, <1>6 DEF Poll, Call, Called, ReadSession, RefreshNothing, RefreshFeedbackSent,
     RefreshRecovers, RefreshLost, RefreshPullRequest, ReviewLost, FeedbackAnswered,
     ReviewRecovers, FeedbackIgnored, ReviewUnchanged, RetryReviewComment, TriggerReview,
     ReadToCancel, ReadToSend, ReadToTerminate, Launch, MarkLaunched, CancelReview,
     SendRecovers, SendRefused, Send, TerminateStops, SupFrame, outside
<1>7. CASE Processes
  BY <1>1, <1>7 DEF Processes, Turn, Judgement, Ends, TurnAcquires, TurnStarts, TurnConfirms,
     TurnRecords, ReviewAcquires, ReviewStarts, CommentStarts, ReviewJudged, PostStarts,
     CompleteReview, DriverEnds, CommentPosted, HelperFrame, outside
<1>8. CASE Faults
  BY <1>2, <1>8 DEF Faults, LaunchFails, SupervisorCrash, TurnRaises, CommentFails,
     ReviewRaises, KillHelper, outside
<1>9. CASE Age
  BY <1>1, <1>9 DEF Age, outside
<1> QED
  BY <1>1, <1>3, <1>4, <1>5, <1>6, <1>7, <1>8, <1>9 DEF Next, World, vars, outside

\* Nothing but the supervisor's call changes.
LEMMA CallKeeps ==
  ASSUME BaseInv, WorldTyped', UNCHANGED <<rows, helper, history>>, tasks' = tasks,
         faults' >= faults, At("remove") => faults' > faults \/ sup' = sup,
         sup' \in Supervisor, CallShapes'
  PROVE  BaseInv'
<1> USE DEF BaseInv, rows, history
<1>1. TypeOK'
  BY DEF TypeOK, WorldTyped
<1>2. LaunchShapes'
  BY DEF LaunchShapes, TurnShape, PostShape, Carries, Used, UsedRun
<1>3. TurnsInOrder' /\ RowShapes'
  BY DEF TurnsInOrder, RowShapes, Used, UsedRun
<1>4. OneVerdict' /\ CommentOwned'
  BY DEF OneVerdict, OneVoice, DurableVerdict, FirstVerdict, PostedVerdict, Consistent, Carries,
     UsedRun, CommentOwned
<1>5. Deliveries'
  <2> HIDE DEF BaseInv
  <2>1. Deliveries /\ faults' \in Nat
    BY RunnerWorld DEF WorldTyped, BaseInv
  <2>2. DeliveredOnce' /\ UnclaimedCounts' /\ ClaimPending'
    <3>1. DeliveredOnce' /\ UnclaimedCounts'
      BY <2>1, Counted DEF Deliveries, DeliveredOnce, UnclaimedCounts
    <3>2. DeliveredOnce /\ ClaimPending
      BY <2>1 DEF Deliveries
    <3>3. ClaimPending'
      BY <2>1, <3>2, Counted DEF DeliveredOnce, ClaimPending, OwnsTurn, At
    <3> QED
      BY <3>1, <3>3
  <2>3. ClaimCounts'
    <3>1. ASSUME NEW h \in Turns, session.token = h, helper[h].run # 0, helper[h].at \in Early
          PROVE  prompted[helper[h].run] <= faults' /\ prompted[helper[h].run] < h
      BY <2>1, <3>1, Counted, Tokens DEF Deliveries, ClaimCounts
    <3> QED
      BY <3>1 DEF ClaimCounts
  <2>4. FreshCounts' /\ ClaimLasts'
    BY <2>1 DEF Deliveries, FreshCounts, ClaimLasts, Used, UsedRun
  <2> QED
    BY <2>2, <2>3, <2>4 DEF Deliveries
<1> QED
  BY <1>1, <1>2, <1>3, <1>4, <1>5

\* A launch that is unchanged, or that has died and left at most its driver.
Dies(h) ==
  \/ helper'[h] = helper[h]
  \/ /\ helper[h].at \notin {"unused", "written"} /\ helper'[h].at = "gone"
     /\ helper'[h].run = helper[h].run /\ helper'[h].kind = helper[h].kind
     /\ \/ helper'[h].driver \in {"none", helper[h].driver}
        \/ helper[h].driver = "wrapped" /\ helper'[h].driver = "orphan"
     /\ helper'[h].driver = "comment" => helper'[h].out = helper[h].out

\* What the death of launches leaves of the shapes of the others.
LEMMA DyingShapes ==
  ASSUME BaseInv, helper' \in [Helpers -> Helper], \A h \in Helpers : Dies(h),
         \A run \in Runs : said[run] \subseteq said'[run]
  PROVE  /\ LaunchShapes'
         /\ \A h \in Helpers : Used(h)' <=> Used(h)
         /\ \A run : UsedRun(run)' <=> UsedRun(run)
         /\ \A h \in Helpers : Carries(h)' => Carries(h) /\ helper'[h].out = helper[h].out
<1> USE Tokens DEF BaseInv, Dies, Used, UsedRun, Early
<1>1. \A h \in Helpers : Used(h)' <=> Used(h)
  OBVIOUS
<1>2. \A run : UsedRun(run)' <=> UsedRun(run)
  OBVIOUS
<1>3. \A h \in Helpers : Carries(h)' => Carries(h) /\ helper'[h].out = helper[h].out
  BY DEF Carries
<1>4. ASSUME NEW h \in Turns PROVE TurnShape(h)'
  <2>1. TurnShape(h)
    BY DEF LaunchShapes
  <2>2. Dies(h) /\ helper[h].run \in Runs \cup {0} /\ Dies(h)
    BY DEF TypeOK, Helper
  <2> HIDE DEF UsedRun, BaseInv
  <2> QED
    BY <1>2, <2>1, <2>2 DEF TurnShape
<1>5. ASSUME NEW h \in Posts PROVE PostShape(h)'
  BY DEF PostShape, LaunchShapes, Carries
<1> QED
  BY <1>1, <1>2, <1>3, <1>4, <1>5 DEF LaunchShapes

\* Deaths of launches, also when the review is cancelled with them, keep the invariant.
LEMMA DyingKeeps ==
  ASSUME BaseInv, WorldTyped', helper' \in [Helpers -> Helper], \A h \in Helpers : Dies(h),
         session' = session, UNCHANGED history, tasks' \subseteq Helpers, faults' >= faults,
         \/ review' = review
         \/ /\ sup'.at \in {"idle", "remove"}
            /\ review.status \notin Feedback \cup {"none"} /\ review' \in Review
            /\ review'.status = "cancelled" /\ review'.verdict = "unknown"
            /\ review'.run = review.run /\ review'.target = review.target
            /\ review'.token = review.token
            /\ review.token \in Posts => helper'[review.token].driver # "comment",
         sup' \in Supervisor, sup' = sup \/ (~At("remove") /\ sup'.at \in {"idle", "remove"}),
         \A h \in Turns : helper[h].at = "prompted" /\ helper'[h].at = "gone" =>
           \/ faults' > faults \/ sup'.at = "remove"
           \/ ~CanConfirmFeedback(h, helper[h].run),
         sup'.at = "remove" => session.status # "none"
  PROVE  BaseInv'
<1> DEFINE Cancels == /\ review.status \notin Feedback \cup {"none"}
                      /\ review'.status = "cancelled" /\ review'.verdict = "unknown"
                      /\ review'.run = review.run /\ review'.target = review.target
                      /\ review'.token = review.token
<1>1. /\ LaunchShapes'
      /\ \A h \in Helpers : Used(h)' <=> Used(h)
      /\ \A run : UsedRun(run)' <=> UsedRun(run)
      /\ \A h \in Helpers : Carries(h)' => Carries(h) /\ helper'[h].out = helper[h].out
  BY DyingShapes DEF history
<1>2. \A h \in Helpers : helper'[h].run = helper[h].run /\ helper'[h].kind = helper[h].kind
  BY DEF Dies
<1>3. TypeOK'
  BY DEF BaseInv, TypeOK, WorldTyped, history
<1>4. TurnsInOrder'
  BY <1>1, Tokens DEF BaseInv, TurnsInOrder, TypeOK, Session
<1>5. RowShapes'
  <2>1. CASE review' = review
    BY <1>1, <1>2, <2>1, Tokens DEF BaseInv, RowShapes
  <2>2. CASE Cancels
    BY <1>1, <1>2, <2>2, Tokens DEF BaseInv, RowShapes, Feedback, Reviewing
  <2> QED
    BY <2>1, <2>2
<1>6. CallShapes'
  <2>1. CASE sup' = sup /\ sup.at \notin {"idle", "remove"}
    <3>1. review' = review /\ CallShapes
      BY <2>1 DEF BaseInv
    <3>2. At("launching") => helper'[sup.launch] = helper[sup.launch]
      BY <3>1 DEF CallShapes, Dies
    <3> QED
      BY <1>1, <2>1, <3>1, <3>2 DEF CallShapes, At
  <2>2. CASE sup'.at \in {"idle", "remove"}
    BY <2>2 DEF BaseInv, CallShapes, At
  <2> QED
    BY <2>1, <2>2
<1>7. OneVerdict'
  <2>1. OneVerdict /\ said' = said
    BY DEF BaseInv, history
  <2>2. \A k \in Posts : Carries(k)' => Carries(k) /\ helper'[k].out = helper[k].out
    BY <1>1, Tokens
  <2>3. \A k \in Posts : helper'[k].run = helper[k].run /\ helper'[k].kind = helper[k].kind
    BY <1>2, Tokens
  <2>4. review.status \in Reviewing => review.token \in Posts
    BY DEF BaseInv, RowShapes
  <2>5. OneVoice'
    <3>1. OneVoice
      BY <2>1 DEF OneVerdict
    <3> QED
      BY ZenonT(60), <2>1, <2>2, <2>3, <3>1 DEF OneVoice
  <2>6. DurableVerdict'
    BY <2>1, <2>2, <2>3 DEF OneVerdict, DurableVerdict, Decided
  <2>7. FirstVerdict' /\ PostedVerdict'
    <3>1. CASE review' = review
      <4>1. review.status = "posting" =>
              helper'[review.token].at \in {helper[review.token].at, "gone"}
        BY <2>4, Tokens DEF Dies, Reviewing
      <4> QED
        BY <2>1, <2>2, <2>3, <2>4, <3>1, <4>1
        DEF OneVerdict, FirstVerdict, PostedVerdict, Reviewing
    <3>2. CASE Cancels
      BY <3>2 DEF FirstVerdict, PostedVerdict, Feedback
    <3> QED
      BY <3>1, <3>2
  <2>8. Consistent'
    BY <1>1, <2>1 DEF OneVerdict, Consistent
  <2> QED
    BY <2>5, <2>6, <2>7, <2>8 DEF OneVerdict
<1>8. Deliveries'
  <2>1. Deliveries /\ faults' \in Nat /\ prompted' = prompted
    BY RunnerWorld DEF BaseInv, WorldTyped, history
  <2>2. review.status \in Feedback => review.token \in Turns
                                        /\ helper[review.token].run = review.run
    BY DEF BaseInv, RowShapes
  <2>3. ClaimPending'
    <3> SUFFICES ASSUME review'.status = "feedback_starting", OwnsTurn(review.token)',
                        ~At("remove")'
                 PROVE  prompted[review.run] <= faults' \/ helper'[review.token].at = "prompted"
      BY <2>1 DEF ClaimPending, OwnsTurn
    <3>1. review' = review
      OBVIOUS
    <3>2. prompted[review.run] <= faults \/ helper[review.token].at = "prompted"
      BY <2>1, <3>1 DEF Deliveries, ClaimPending, OwnsTurn, At
    <3>3. prompted[review.run] <= 1 + faults
      BY <2>1, <3>1, Counted DEF Deliveries, DeliveredOnce
    <3>4. review.token \in Turns /\ CanConfirmFeedback(review.token, helper[review.token].run)
      BY <2>2, <3>1 DEF CanConfirmFeedback, Feedback
    <3>5. helper'[review.token].at \in {helper[review.token].at, "gone"}
      BY <3>4, Tokens DEF Dies
    <3>6. faults' > faults \/ helper'[review.token].at = helper[review.token].at
            \/ helper[review.token].at # "prompted"
      BY <3>4, <3>5 DEF At
    <3> QED
      BY <2>1, <3>1, <3>2, <3>3, <3>5, <3>6, Counted
  <2>4. ClaimCounts'
    <3> SUFFICES ASSUME NEW h \in Turns, session.token = h, helper'[h].run # 0,
                        helper'[h].at \in Early
                 PROVE  prompted[helper'[h].run] <= faults' /\ prompted[helper'[h].run] < h
      BY <2>1 DEF ClaimCounts
    <3>1. helper[h].at \in Early /\ helper'[h].run = helper[h].run
      BY <1>2, Tokens DEF Dies, Early
    <3> QED
      BY <2>1, <3>1, Counted, Tokens DEF Deliveries, ClaimCounts
  <2>5. DeliveredOnce' /\ UnclaimedCounts'
    BY <2>1, Counted DEF Deliveries, DeliveredOnce, UnclaimedCounts
  <2>6. \A h \in Turns : helper'[h].run = helper[h].run /\ (Used(h)' <=> Used(h))
    BY <1>1, <1>2, Tokens
  <2>7. FreshCounts'
    BY <1>1, <2>1, <2>6 DEF Deliveries, FreshCounts
  <2>8. ClaimLasts'
    BY <2>1, <2>6 DEF Deliveries, ClaimLasts
  <2> QED
    BY <2>3, <2>4, <2>5, <2>7, <2>8 DEF Deliveries
<1>9. CommentOwned'
  BY Tokens DEF BaseInv, CommentOwned, Dies
<1> QED
  BY <1>1, <1>3, <1>4, <1>5, <1>6, <1>7, <1>8, <1>9 DEF BaseInv

\* The exception path of a review's helper: it leaves, and its run has failed.  Its comment
\* may have been accepted before.
Fails(h) ==
  \/ review' = review
  \/ /\ review.token = h /\ review.run = helper[h].run /\ review.status \in Reviewing
     /\ review' \in Review /\ review'.status = "failed"
     /\ review'.run = review.run /\ review'.token = review.token
     /\ review'.target = review.target
     /\ review'.verdict \in {review.verdict, "unknown"}

\* The exception path of a review fails its own run, and keeps its verdict.
LEMMA RaisesFails ==
  ASSUME BaseInv, NEW h \in Posts, Raises(h)
  PROVE  Fails(h) /\ Leaves(h)
<1>1. review \in Review
  BY DEF BaseInv, TypeOK
<1> QED
  BY <1>1 DEF Fails, Raises, FailedReview, OwnsRun, Review, Pids, Decided

\* A reviewer's helper that leaves with a failed run keeps the invariant.
LEMMA RaisingKeeps ==
  ASSUME BaseInv, WorldTyped', NEW h \in Posts, Fails(h), Leaves(h),
         helper[h].at \notin {"unused", "written"},
         UNCHANGED <<session, sup, prompted>>, faults' >= faults,
         \/ said' = said
         \/ /\ helper[h].driver = "comment" \/ helper[h].at = "posting"
            /\ said' = [said EXCEPT ![helper[h].run] = @ \cup {helper[h].out}]
  PROVE  BaseInv'
<1> USE Tokens
<1>1. PostShape(h) /\ helper[h].run \in Runs
  BY DEF BaseInv, LaunchShapes, PostShape, Used
<1>2. said' \in [Runs -> SUBSET Decided] /\ \A run \in Runs : said[run] \subseteq said'[run]
  BY <1>1 DEF BaseInv, TypeOK, PostShape, Carries
<1>3. /\ helper' \in [Helpers -> Helper] /\ \A k \in Helpers : Dies(k)
      /\ helper'[h].at = "gone" /\ helper'[h].driver = "none"
      /\ \A k \in Helpers \ {h} : helper'[k] = helper[k]
  <2>1. Gone(h, "none") \in Helper
    BY GoneTyped DEF BaseInv, TypeOK, Drivers
  <2> QED
    BY <2>1 DEF BaseInv, TypeOK, Leaves, Dies, Gone, Helper
<1>4. /\ LaunchShapes'
      /\ \A k \in Helpers : Used(k)' <=> Used(k)
      /\ \A run : UsedRun(run)' <=> UsedRun(run)
      /\ \A k \in Helpers : Carries(k)' => Carries(k) /\ helper'[k].out = helper[k].out
  BY <1>2, <1>3, DyingShapes
<1>5. \A k \in Helpers : helper'[k].run = helper[k].run /\ helper'[k].kind = helper[k].kind
  BY <1>3 DEF Dies
<1>6. \/ review' = review
      \/ /\ review.token = h /\ review.run = helper[h].run /\ review.status \in Reviewing
         /\ review' \in Review /\ review'.status = "failed"
         /\ review'.run = review.run /\ review'.token = review.token
         /\ review'.target = review.target
         /\ review'.verdict \in {review.verdict, "unknown"}
  BY DEF Fails
<1>7. TypeOK'
  BY <1>2, <1>3, <1>6 DEF BaseInv, TypeOK, WorldTyped, Leaves
<1>8. TurnsInOrder'
  BY <1>4 DEF BaseInv, TurnsInOrder, TypeOK, Session
<1>9. RowShapes'
  BY <1>4, <1>5, <1>6 DEF BaseInv, RowShapes, Reviewing, Feedback
<1>10. CallShapes'
  <2>1. CallShapes
    BY DEF BaseInv
  <2>2. At("launching") => helper'[sup.launch] = helper[sup.launch] /\ sup.launch # h
    BY <1>3, <2>1 DEF CallShapes
  <2>3. CASE review' = review
    BY <1>4, <2>1, <2>2, <2>3 DEF CallShapes, At
  <2>4. CASE review.status \in Reviewing /\ review'.status = "failed" /\ review.token = h
               /\ review'.run = review.run /\ review'.token = review.token
    BY <1>4, <2>1, <2>2, <2>4 DEF CallShapes, At, Reviewing, Feedback
  <2> QED
    BY <1>6, <2>3, <2>4
<1>11. OneVerdict'
  <2>1. OneVerdict
    BY DEF BaseInv
  <2>2. \A k \in Posts : Carries(k)' => Carries(k) /\ helper'[k].out = helper[k].out
    BY <1>4
  <2>3. \A k \in Posts : helper'[k].run = helper[k].run /\ helper'[k].kind = helper[k].kind
    BY <1>5
  <2>4. \A run \in Runs : said'[run] = said[run]
          \/ (run = helper[h].run /\ Carries(h) /\ said'[run] = said[run] \cup {helper[h].out})
    BY <1>1 DEF Carries, BaseInv, TypeOK
  <2>5. review.status \in Reviewing => review.token \in Posts
    BY DEF BaseInv, RowShapes
  <2>6. \A k \in Posts : Used(k) => helper[k].run \in Runs
    BY DEF BaseInv, LaunchShapes, PostShape
  <2>7. \A k \in Posts : Carries(k) => Used(k)
    BY DEF BaseInv, LaunchShapes, PostShape, Carries, Used, Unused, Early
  <2>8. OneVoice'
    BY <2>1, <2>2, <2>3, <2>4, <2>6, <2>7 DEF OneVerdict, OneVoice
  <2>9. review.status # "none" => review.run \in Runs
    BY Counted
  <2>10. DurableVerdict'
    BY <1>6, <2>1, <2>2, <2>3, <2>4, <2>9 DEF OneVerdict, DurableVerdict, Decided, Reviewing
  <2>11. FirstVerdict'
    BY <1>6, <2>1, <2>2, <2>3, <2>4, <2>5, <2>9 DEF OneVerdict, FirstVerdict, Reviewing
  <2>12. PostedVerdict'
    <3>1. CASE review' = review
      <4>1. review.status = "posting" =>
              helper'[review.token].at \in {helper[review.token].at, "gone"}
        BY <1>3, <2>5 DEF Dies, Reviewing
      <4> QED
        BY <1>2, <2>1, <2>9, <3>1, <4>1 DEF OneVerdict, PostedVerdict, Feedback
    <3>2. CASE review'.status = "failed"
      BY <3>2 DEF PostedVerdict, Feedback
    <3> QED
      BY <1>6, <3>1, <3>2
  <2>13. Consistent'
    BY <1>4, <2>1, <2>4, <2>7 DEF OneVerdict, OneVoice, Consistent, UsedRun
  <2> QED
    BY <2>8, <2>10, <2>11, <2>12, <2>13 DEF OneVerdict
<1>12. Deliveries'
  <2>1. Deliveries /\ faults' \in Nat
    BY RunnerWorld DEF BaseInv, WorldTyped
  <2>2. \A k \in Turns : helper'[k] = helper[k]
    BY <1>3
  <2>3. DeliveredOnce' /\ UnclaimedCounts'
    <3>1. DeliveredOnce'
      BY <2>1, Counted DEF Deliveries, DeliveredOnce
    <3>2. UnclaimedCounts'
      BY <1>6, <2>1, Counted DEF Deliveries, UnclaimedCounts, Reviewing, Feedback
    <3> QED
      BY <3>1, <3>2
  <2>4. ClaimCounts'
    <3>1. ASSUME NEW k \in Turns, session.token = k, helper[k].run # 0, helper[k].at \in Early
          PROVE  prompted[helper[k].run] <= faults' /\ prompted[helper[k].run] < k
      BY <2>1, <3>1, Counted DEF Deliveries, ClaimCounts
    <3> QED
      BY <2>2, <3>1 DEF ClaimCounts
  <2>5. review.status \in Feedback => review.token \in Turns
    BY DEF BaseInv, RowShapes
  <2>6. ClaimPending'
    <3>1. CASE review' = review
      <4>1. ASSUME review.status = "feedback_starting", OwnsTurn(review.token), ~At("remove")
            PROVE  prompted[review.run] <= faults' \/ helper'[review.token].at = "prompted"
        <5>1. prompted[review.run] <= faults \/ helper[review.token].at = "prompted"
          BY <2>1, <4>1 DEF Deliveries, ClaimPending
        <5>2. helper'[review.token] = helper[review.token]
          BY <2>2, <2>5, <4>1 DEF Feedback
        <5>3. prompted[review.run] \in Nat /\ faults \in Nat
          BY <4>1, Counted
        <5> QED
          BY <2>1, <5>1, <5>2, <5>3
      <4> QED
        BY <3>1, <4>1 DEF ClaimPending, OwnsTurn, At
    <3> QED
      BY <1>6, <3>1 DEF ClaimPending
  <2>7. FreshCounts' /\ ClaimLasts'
    BY <1>4, <1>6, <2>1, <2>2 DEF Deliveries, FreshCounts, ClaimLasts, Reviewing, Feedback
  <2> QED
    BY <2>3, <2>4, <2>6, <2>7 DEF Deliveries
<1>13. CommentOwned'
  BY <1>3, <1>6 DEF BaseInv, CommentOwned
<1> QED
  BY <1>4, <1>7, <1>8, <1>9, <1>10, <1>11, <1>12, <1>13 DEF BaseInv

\* The counts that depend on no claim.
LEMMA CountsKeep ==
  ASSUME BaseInv, WorldTyped', prompted' = prompted, faults' >= faults,
         \A run \in Runs : UsedRun(run) => UsedRun(run)',
         \A h \in Turns : Used(h) => Used(h)'
  PROVE  DeliveredOnce' /\ FreshCounts'
<1>1. Deliveries /\ faults' \in Nat
  BY RunnerWorld DEF BaseInv, WorldTyped
<1>2. DeliveredOnce'
  BY <1>1, Counted DEF Deliveries, DeliveredOnce
<1>3. FreshCounts'
  BY <1>1 DEF Deliveries, FreshCounts
<1> QED
  BY <1>2, <1>3

\* A claim that is not new is delivered no more often than before.
LEMMA ClaimCountsKeep ==
  ASSUME BaseInv, WorldTyped', prompted' = prompted, faults' >= faults,
         \A h \in Turns : session'.token = h /\ helper'[h].run # 0 /\ helper'[h].at \in Early =>
           session.token = h /\ helper[h].run = helper'[h].run /\ helper[h].at \in Early
  PROVE  ClaimCounts'
<1>1. Deliveries /\ faults' \in Nat
  BY RunnerWorld DEF BaseInv, WorldTyped
<1>2. ASSUME NEW h \in Turns, session'.token = h, helper'[h].run # 0, helper'[h].at \in Early
      PROVE  prompted[helper'[h].run] <= faults' /\ prompted[helper'[h].run] < h
  <2>1. session.token = h /\ helper[h].run = helper'[h].run /\ helper[h].at \in Early
    BY <1>2
  <2>2. prompted[helper[h].run] <= faults /\ prompted[helper[h].run] < h
    BY <1>1, <1>2, <2>1 DEF Deliveries, ClaimCounts
  <2>3. prompted[helper[h].run] \in Nat /\ faults \in Nat
    BY <1>2, <2>1, Counted, Tokens
  <2> QED
    BY <1>1, <2>1, <2>2, <2>3
<1> QED
  BY <1>2 DEF ClaimCounts

\* The supervisor records that a worker's turn is over.
LEMMA PutKeeps ==
  ASSUME BaseInv, WorldTyped', session.status # "none",
         NEW st \in {"finished", "idle", "pr_open", "merged", "failed", "terminated"},
         NEW p \in Pids, PutSession(st, p),
         UNCHANGED <<review, helper, history>>, faults' = faults, tasks' \subseteq Helpers,
         sup' \in Supervisor,
         sup'.at \in {"idle", "ready"} \/ (sup'.at = "get_review" /\ sup'.review = review),
         At("remove") => st = "terminated"
  PROVE  BaseInv'
<1>1. /\ session' \in Session /\ session'.status = st /\ st \notin Launched \cup {"none"}
      /\ session'.token = session.token
  BY PutSessionTyped DEF BaseInv, TypeOK, Launched
<1> HIDE DEF PutSession
<1>2. UNCHANGED <<said, prompted>>
  BY DEF history
<1>3. TypeOK'
  BY <1>1, <1>2 DEF BaseInv, TypeOK, WorldTyped
<1>4. LaunchShapes' /\ TurnsInOrder'
  BY <1>1, <1>2 DEF BaseInv, LaunchShapes, TurnShape, PostShape, Carries, TurnsInOrder, Used,
     UsedRun
<1>5. RowShapes' /\ OneVerdict'
  BY <1>1, <1>2 DEF BaseInv, RowShapes, OneVerdict, OneVoice, DurableVerdict, FirstVerdict,
     PostedVerdict, Consistent, Carries, Used, UsedRun
<1>6. CallShapes'
  BY DEF BaseInv, RowShapes, CallShapes, At, Reviewing, Feedback
<1>7. Deliveries'
  <2>1. Deliveries
    BY DEF BaseInv
  <2>2. DeliveredOnce' /\ FreshCounts' /\ ClaimCounts'
    BY <1>1, <1>2, CountsKeep, ClaimCountsKeep, Counted DEF UsedRun, Used
  <2>3. UnclaimedCounts'
    BY <1>2, <2>1 DEF Deliveries, UnclaimedCounts
  <2>4. ClaimPending' /\ ClaimLasts'
    BY <1>1 DEF ClaimPending, ClaimLasts, OwnsTurn
  <2> QED
    BY <2>2, <2>3, <2>4 DEF Deliveries
<1> QED
  BY <1>3, <1>4, <1>5, <1>6, <1>7 DEF BaseInv, CommentOwned

\* A claim is rolled back: by the supervisor, who sees nothing of the launch, or by its
\* helper, which leaves after an error.
LEMMA RecoverKeeps ==
  ASSUME BaseInv, WorldTyped', NEW t, CanRecover(t, review.run), RecoverFeedback,
         helper' \in [Helpers -> Helper], \A h \in Helpers : Dies(h), UNCHANGED history,
         faults' >= faults,
         faults' > faults \/ (helper[t].at # "prompted" /\ ~At("remove")),
         tasks' \subseteq Helpers, sup' \in Supervisor, CallShapes'
  PROVE  BaseInv'
<1> USE Tokens
<1>1. UNCHANGED <<said, prompted>>
  BY DEF history
<1>2. /\ LaunchShapes'
      /\ \A h \in Helpers : Used(h)' <=> Used(h)
      /\ \A run : UsedRun(run)' <=> UsedRun(run)
      /\ \A h \in Helpers : Carries(h)' => Carries(h) /\ helper'[h].out = helper[h].out
  BY <1>1, DyingShapes
<1>3. \A h \in Helpers : helper'[h].run = helper[h].run /\ helper'[h].kind = helper[h].kind
  BY DEF Dies
<1>4. /\ review' \in Review /\ session' \in Session
      /\ review'.status = "completed" /\ review'.run = review.run
      /\ review'.verdict = review.verdict /\ review'.target = review.target
      /\ session'.status = "finished" /\ session'.token = NoToken
  BY RecoverTyped DEF BaseInv, TypeOK
<1>5. /\ review.status = "feedback_starting" /\ review.token = t /\ OwnsTurn(t)
      /\ t \in Turns
  BY DEF CanRecover, BaseInv, RowShapes, Feedback
<1> HIDE DEF RecoverFeedback
<1>6. TypeOK'
  BY <1>1, <1>4 DEF BaseInv, TypeOK, WorldTyped
<1>7. TurnsInOrder'
  BY <1>2, <1>4 DEF BaseInv, TurnsInOrder
<1>8. RowShapes'
  BY <1>2, <1>3, <1>4, <1>5 DEF BaseInv, RowShapes, Reviewing, Feedback
<1>9. OneVerdict'
  <2>1. OneVerdict
    BY DEF BaseInv
  <2>2. OneVoice' /\ DurableVerdict'
    BY <1>1, <1>2, <1>3, <1>4, <1>5, <2>1 DEF OneVerdict, OneVoice, DurableVerdict
  <2>3. FirstVerdict' /\ PostedVerdict'
    BY <1>1, <1>4, <1>5, <2>1 DEF OneVerdict, FirstVerdict, PostedVerdict, Feedback
  <2>4. Consistent'
    BY <1>1, <1>2, <2>1 DEF OneVerdict, Consistent
  <2> QED
    BY <2>2, <2>3, <2>4 DEF OneVerdict
<1>10. Deliveries'
  <2>1. Deliveries /\ faults' \in Nat
    BY RunnerWorld DEF BaseInv, WorldTyped
  <2>2. DeliveredOnce' /\ FreshCounts' /\ ClaimCounts'
    BY <1>1, <1>2, <1>4, CountsKeep, ClaimCountsKeep
  <2>3. UnclaimedCounts'
    <3>1. prompted[review.run] <= faults \/ helper[t].at = "prompted" \/ At("remove")
      BY <1>5, <2>1 DEF Deliveries, ClaimPending
    <3>2. prompted[review.run] <= 1 + faults
      BY <1>5, <2>1, Counted DEF Deliveries, DeliveredOnce
    <3>3. prompted[review.run] <= faults'
      BY <1>5, <2>1, <3>1, <3>2, Counted
    <3> QED
      BY <1>1, <1>4, <3>3 DEF UnclaimedCounts
  <2>4. ClaimPending' /\ ClaimLasts'
    BY <1>4 DEF ClaimPending, ClaimLasts
  <2> QED
    BY <2>1, <2>2, <2>3, <2>4 DEF Deliveries
<1>11. CommentOwned'
  BY <1>5 DEF BaseInv, CommentOwned, Dies
<1> QED
  BY <1>2, <1>6, <1>7, <1>8, <1>9, <1>10, <1>11 DEF BaseInv

----------------------------------------------------------------------------
(* The supervisor's calls keep the base invariant.                         *)

\* The calls that only read, and the death of the supervisor.
LEMMA ReadsKeep ==
  ASSUME BaseInv, WorldTyped',
         \/ ReadSession \/ RefreshNothing \/ ReviewUnchanged \/ ReadToCancel \/ ReadToSend
         \/ ReadToTerminate \/ SendRefused \/ SupervisorCrash
  PROVE  BaseInv'
<1>1. /\ UNCHANGED <<rows, helper, history>> /\ tasks' = tasks
      /\ faults' >= faults /\ (At("remove") => faults' > faults)
  <2>1. faults \in Nat
    BY Counted
  <2>2. CASE SupervisorCrash
    BY <2>1, <2>2 DEF SupervisorCrash, Fault
  <2>3. CASE ~SupervisorCrash
    BY <2>1, <2>3 DEF ReadSession, RefreshNothing, ReviewUnchanged, ReadToCancel, ReadToSend,
       ReadToTerminate, SendRefused, SupFrame, At
  <2> QED
    BY <2>2, <2>3
<1>2. \/ sup' = [Idle EXCEPT !.at = "refresh", !.session = session] /\ session.status # "none"
      \/ sup' = [Idle EXCEPT !.at = "get_review", !.review = review]
      \/ sup' = [Idle EXCEPT !.at = "ready"] \/ sup' = [Idle EXCEPT !.at = "idle"]
      \/ /\ sup' = [Idle EXCEPT !.at = "cancel", !.review = review]
         /\ review.status \in Reviewing
      \/ /\ sup' = [Idle EXCEPT !.at = "send", !.session = session, !.review = review]
         /\ session.status \notin {"none", "terminated"}
      \/ /\ sup' = [Idle EXCEPT !.at = "terminate", !.session = session]
         /\ session.status # "none"
  BY <1>1 DEF ReadSession, RefreshNothing, ReadsReview, ReviewUnchanged, ReadToCancel,
     ReadToSend, ReadToTerminate, SendRefused, SupervisorCrash, Goto, rows
<1>3. sup' \in Supervisor
  BY ZenonT(60), <1>2, EmptyTyped DEF BaseInv, TypeOK, Supervisor, Calls
<1>4. CallShapes'
  <2>1. RowShapes
    BY DEF BaseInv
  <2>2. session' = session /\ review' = review /\ helper' = helper
    BY <1>1 DEF rows
  <2>3. CASE sup'.at \in {"refresh", "terminate", "send"}
    <3>1. sup'.session = session /\ session.status # "none"
            /\ (sup'.at = "send" => session.status # "terminated")
      BY <1>2, <2>3 DEF Idle
    <3> QED
      BY <2>2, <2>3, <3>1 DEF CallShapes, At, Launched
  <2>4. CASE sup'.at \in {"get_review", "cancel"}
    <3>1. sup'.review = review /\ (sup'.at = "cancel" => review.status \in Reviewing)
      BY <1>2, <2>4 DEF Idle
    <3> QED
      BY <2>1, <2>2, <2>4, <3>1 DEF CallShapes, RowShapes, At, Feedback, Reviewing
  <2>5. CASE sup'.at \in {"ready", "idle"}
    BY <2>5 DEF CallShapes, At
  <2> QED
    BY <1>2, <2>3, <2>4, <2>5 DEF Idle
<1> QED
  BY <1>1, <1>3, <1>4, CallKeeps

\* The calls that write no more than a status to the session row.
LEMMA PutsKeep ==
  ASSUME BaseInv, WorldTyped',
         \/ RefreshFeedbackSent \/ RefreshLost \/ RefreshPullRequest \/ FeedbackIgnored
         \/ TerminateRemoves
  PROVE  BaseInv'
<1> DEFINE Statuses == {"finished", "idle", "pr_open", "merged", "failed", "terminated"}
<1>1. session \in Session /\ review \in Review /\ session.pid \in Pids /\ "none" \in Pids
  BY DEF BaseInv, TypeOK, Session, Pids
<1>2. UNCHANGED <<review, helper, history>> /\ faults' = faults /\ tasks' \subseteq Helpers
  BY DEF BaseInv, TypeOK, RefreshFeedbackSent, RefreshLost, RefreshPullRequest, FeedbackIgnored,
     TerminateRemoves, SupFrame, WithoutTask
<1>3. session.status # "none"
  BY DEF BaseInv, CallShapes, RefreshFeedbackSent, RefreshLost, RefreshPullRequest,
     FeedbackIgnored, TerminateRemoves, Ignored, At
<1>4. \/ session' = session /\ tasks' = tasks /\ ~At("remove")
      \/ \E st \in Statuses, p \in Pids : PutSession(st, p) /\ (At("remove") => st = "terminated")
  <2>1. CASE RefreshFeedbackSent \/ RefreshLost
    BY <1>1, <2>1 DEF RefreshFeedbackSent, RefreshLost, At
  <2>2. CASE RefreshPullRequest
    BY <1>1, <2>2 DEF RefreshPullRequest, AfterTurn, At
  <2>3. CASE FeedbackIgnored \/ TerminateRemoves
    BY <1>1, <2>3 DEF FeedbackIgnored, TerminateRemoves, At
  <2> QED
    BY <2>1, <2>2, <2>3
<1>5. session' \in Session
  BY <1>1, <1>4, PutSessionTyped
<1>6. \/ sup' = [Idle EXCEPT !.at = "ready"] \/ sup' = [Idle EXCEPT !.at = "idle"]
      \/ sup' = [Idle EXCEPT !.at = "get_review", !.review = review]
  BY <1>2 DEF RefreshFeedbackSent, RefreshLost, RefreshPullRequest, FeedbackIgnored,
     TerminateRemoves, ReadsReview, Goto
<1>7. /\ sup' \in Supervisor
      /\ sup'.at \in {"idle", "ready"} \/ (sup'.at = "get_review" /\ sup'.review = review)
  <2>1. sup' \in Supervisor
    BY <1>1, <1>6, EmptyTyped DEF Supervisor, Calls
  <2> QED
    BY <1>6, <2>1 DEF Idle
<1>8. CASE session' = session /\ tasks' = tasks /\ ~At("remove")
  <2>1. CallShapes'
    BY <1>2, <1>7 DEF BaseInv, RowShapes, CallShapes, At, Reviewing, Feedback
  <2>2. UNCHANGED <<rows, helper, history>> /\ faults' >= faults
    BY <1>2, <1>8, Counted DEF rows
  <2> QED
    BY <1>7, <1>8, <2>1, <2>2, CallKeeps
<1>9. CASE \E st \in Statuses, p \in Pids : PutSession(st, p) /\ (At("remove") => st = "terminated")
  BY <1>2, <1>3, <1>7, <1>9, PutKeeps
<1> QED
  BY <1>4, <1>8, <1>9

\* What a process listing does not show under a token is not alive.
LEMMA InactiveDead ==
  ASSUME NEW t \in Helpers, NEW pid, ~Active(helper, t, pid),
         NEW h \in Helpers, NamesHelper(t, h)
  PROVE  ~Alive(h)
BY Tokens DEF Active, Owned, Alive

\* A claim that the supervisor sees dead is rolled back.
LEMMA RecoversKeep ==
  ASSUME BaseInv, WorldTyped', RefreshRecovers \/ ReviewRecovers \/ SendRecovers
  PROVE  BaseInv'
<1> USE Tokens
<1>1. PICK t : /\ CanRecover(t, review.run) /\ RecoverFeedback /\ \E pid : ~Active(helper, t, pid)
               /\ tasks' = WithoutTask(t)
  BY DEF RefreshRecovers, ReviewRecovers, SendRecovers, Recovers, FeedbackClaim, Lost, Running,
     Unlaunched, CanRecover
<1>2. /\ UNCHANGED <<helper, history>> /\ faults' = faults /\ tasks' \subseteq Helpers
      /\ ~At("remove")
  BY <1>1 DEF RefreshRecovers, ReviewRecovers, SendRecovers, Recovers, SupFrame, BaseInv,
     TypeOK, WithoutTask, At
<1>3. t \in Helpers /\ helper[t].at # "prompted"
  <2>1. t \in Turns
    BY <1>1 DEF CanRecover, BaseInv, RowShapes, Feedback
  <2>2. ~Alive(t)
    BY <1>1, <2>1, InactiveDead DEF NamesHelper
  <2> QED
    BY <2>1, <2>2 DEF Alive, Lives
<1>4. /\ session' \in Session /\ review' \in Review /\ review'.status = "completed"
      /\ session'.status = "finished" /\ session'.token = NoToken
  BY <1>1, RecoverTyped DEF BaseInv, TypeOK
<1>5. \/ sup' = [Idle EXCEPT !.at = "ready"]
      \/ sup' = [Idle EXCEPT !.at = "get_review", !.review = review']
      \/ sup' = [sup EXCEPT !.session = session', !.review = review'] /\ At("send")
  BY DEF RefreshRecovers, ReviewRecovers, SendRecovers, ReadsReview, Goto
<1>6. sup' \in Supervisor
  BY ZenonT(60), <1>4, <1>5, EmptyTyped DEF Supervisor, Calls, BaseInv, TypeOK
<1>7. CallShapes'
  <2>1. CASE sup' = [Idle EXCEPT !.at = "ready"]
    BY <2>1 DEF CallShapes, At, Idle
  <2>2. CASE sup' = [Idle EXCEPT !.at = "get_review", !.review = review']
    BY <1>4, <2>2 DEF CallShapes, At, Idle, Reviewing, Feedback
  <2>3. CASE sup' = [sup EXCEPT !.session = session', !.review = review'] /\ At("send")
    <3>1. sup'.at = "send" /\ sup'.session = session'
      BY <2>3 DEF At, BaseInv, TypeOK, Supervisor
    <3> QED
      BY <1>4, <3>1 DEF CallShapes, At, Launched
  <2> QED
    BY <1>5, <2>1, <2>2, <2>3
<1>8. helper' \in [Helpers -> Helper] /\ \A h \in Helpers : Dies(h)
  BY <1>2 DEF Dies, BaseInv, TypeOK
<1>9. faults \in Nat
  BY Counted
<1> QED
  BY <1>1, <1>2, <1>3, <1>6, <1>7, <1>8, <1>9, RecoverKeeps

\* What _stop_helper works on, and what it does: it kills what its token names, and touches
\* nothing else.
Stoppable(hs) ==
  /\ hs \in [Helpers -> Helper]
  /\ \A h \in Helpers : hs[h].run = helper[h].run /\ hs[h].kind = helper[h].kind
  /\ \A h \in Helpers : hs[h].at \in {"unused", "written"} => hs[h].driver = "none"

Stops(t, hs, new) ==
  \A h \in Helpers :
    /\ new[h].driver \in {"none", hs[h].driver}
    /\ \/ new[h] = hs[h]
       \/ hs[h].at \notin {"unused", "written"} /\ new[h].at = "gone"
    /\ t = NoToken \/ ~NamesHelper(t, h) => new[h] = hs[h]
    /\ t # NoToken /\ NamesDriver(t, h, hs[h].driver) => new[h].driver \in {"none", "orphan"}
    /\ t # NoToken /\ NamesHelper(t, h) => ~Lives(new, h)

\* _stop_helper has the effect that Stops describes.
LEMMA StopEffect ==
  ASSUME helper \in [Helpers -> Helper], NEW hs, Stoppable(hs), NEW t
  PROVE  Stoppable(Stop(hs, t)) /\ Stops(t, hs, Stop(hs, t))
<1> USE DEF Stoppable
<1> DEFINE driver(h) == IF NamesDriver(t, h, hs[h].driver) /\ hs[h].driver # "orphan"
                          THEN "none" ELSE hs[h].driver
<1>1. ASSUME NEW h \in Helpers
      PROVE  /\ Stop(hs, t)[h] = IF t = NoToken THEN hs[h]
                                 ELSE IF NamesHelper(t, h) /\ Lives(hs, h) THEN Gone(h, driver(h))
                                 ELSE [hs[h] EXCEPT !.driver = driver(h)]
             /\ driver(h) \in Drivers
  BY DEF Stop, Helper, Drivers
<1>2. Stop(hs, t) \in [Helpers -> Helper]
  <2>1. ASSUME NEW h \in Helpers PROVE Stop(hs, t)[h] \in Helper
    <3>1. [hs[h] EXCEPT !.driver = driver(h)] \in Helper /\ Gone(h, driver(h)) \in Helper
      BY <1>1, GoneTyped DEF Helper
    <3> QED
      BY <1>1, <3>1
  <2> QED
    BY <2>1 DEF Stop
<1>3. ASSUME NEW h \in Helpers
      PROVE  /\ Gone(h, driver(h)).at = "gone" /\ Gone(h, driver(h)).driver = driver(h)
             /\ Gone(h, driver(h)).run = helper[h].run /\ Gone(h, driver(h)).kind = helper[h].kind
  BY DEF Gone, Helper
<1>4. ASSUME NEW h \in Helpers, ~NamesHelper(t, h)
      PROVE  driver(h) = hs[h].driver /\ [hs[h] EXCEPT !.driver = driver(h)] = hs[h]
  BY <1>4 DEF NamesHelper, NamesDriver, Helper
<1>5. ASSUME NEW h \in Helpers
      PROVE  /\ Stop(hs, t)[h].run = helper[h].run /\ Stop(hs, t)[h].kind = helper[h].kind
             /\ Stop(hs, t)[h].driver \in {"none", hs[h].driver}
             /\ \/ Stop(hs, t)[h] = hs[h]
                \/ hs[h].at \notin {"unused", "written"} /\ Stop(hs, t)[h].at = "gone"
             /\ t = NoToken \/ ~NamesHelper(t, h) => Stop(hs, t)[h] = hs[h]
             /\ t # NoToken /\ NamesDriver(t, h, hs[h].driver) =>
                  Stop(hs, t)[h].driver \in {"none", "orphan"}
             /\ t # NoToken /\ NamesHelper(t, h) => ~Lives(Stop(hs, t), h)
  <2>1. CASE t = NoToken
    BY <1>1, <2>1
  <2>2. CASE t # NoToken /\ NamesHelper(t, h) /\ Lives(hs, h)
    <3>1. Stop(hs, t)[h] = Gone(h, driver(h))
      BY <1>1, <2>2
    <3> HIDE DEF driver
    <3>2. /\ Stop(hs, t)[h].at = "gone" /\ Stop(hs, t)[h].driver = driver(h)
          /\ Stop(hs, t)[h].run = helper[h].run /\ Stop(hs, t)[h].kind = helper[h].kind
      BY <1>3, <3>1
    <3>3. driver(h) \in {"none", hs[h].driver}
            /\ (NamesDriver(t, h, hs[h].driver) => driver(h) \in {"none", "orphan"})
      BY DEF driver
    <3> QED
      BY <2>2, <3>2, <3>3 DEF Lives
  <2>3. CASE t # NoToken /\ ~(NamesHelper(t, h) /\ Lives(hs, h))
    <3>1. Stop(hs, t)[h] = [hs[h] EXCEPT !.driver = driver(h)]
      BY <1>1, <2>3
    <3>2. hs[h] \in Helper
      OBVIOUS
    <3> QED
      BY <1>4, <2>3, <3>1, <3>2 DEF Lives, Helper
  <2> QED
    BY <2>1, <2>2, <2>3
<1>6. \A h \in Helpers :
        Stop(hs, t)[h].at \in {"unused", "written"} => Stop(hs, t)[h].driver = "none"
  BY <1>5
<1> QED
  BY <1>2, <1>5, <1>6 DEF Stops

\* What Cancel makes of the review.
LEMMA CancelTyped ==
  ASSUME BaseInv, NEW hs, NEW r, Cancel(hs, r)
  PROVE  /\ tasks' \subseteq Helpers /\ review' \in Review
         /\ \/ review' = review
            \/ /\ review.status # "none"
               /\ review'.status = "cancelled" /\ review'.verdict = "unknown"
               /\ review'.run = review.run /\ review'.target = review.target
               /\ review'.token = review.token
<1>1. tasks' \subseteq Helpers /\ review \in Review
  BY DEF Cancel, WithoutTask, BaseInv, TypeOK
<1> QED
  BY ZenonT(60), <1>1 DEF Cancel, Review, Pids

\* A process that is stopped, once or twice, dies; the comment of a run is stopped with it.
LEMMA StopDies ==
  ASSUME BaseInv, NEW t, NEW u, helper' = Stop(Stop(helper, t), u),
         \A k \in Posts : helper[k].driver = "comment" => k \in {t, u}
  PROVE  /\ helper' \in [Helpers -> Helper] /\ \A h \in Helpers : Dies(h)
         /\ \E hs : Stops(t, helper, hs) /\ Stops(u, hs, helper')
<1> USE Tokens
<1> DEFINE hs == Stop(helper, t)
<1>1. Stoppable(helper) /\ \A h \in Turns : helper[h].driver # "comment"
  BY DEF Stoppable, BaseInv, TypeOK, LaunchShapes, TurnShape, PostShape, Used, Unused, Early
<1>2. Stoppable(hs) /\ Stops(t, helper, hs)
  BY <1>1, StopEffect DEF Stoppable
<1> HIDE DEF hs
<1>3. Stoppable(helper') /\ Stops(u, hs, helper')
  <2>1. helper' = Stop(hs, u)
    BY DEF hs
  <2>2. helper \in [Helpers -> Helper]
    BY <1>1 DEF Stoppable
  <2>3. Stoppable(Stop(hs, u)) /\ Stops(u, hs, Stop(hs, u))
    BY <1>2, <2>2, StopEffect
  <2> QED
    BY <2>1, <2>3
<1>4. ASSUME NEW h \in Helpers PROVE Dies(h)
  <2>1. helper[h].driver = "comment" => helper'[h].driver # "comment"
    <3>1. ASSUME helper[h].driver = "comment", helper'[h].driver = "comment" PROVE FALSE
      <4>1. h \in Posts /\ h \in {t, u}
        BY <1>1, <3>1
      <4>2. h # NoToken /\ \A d : NamesDriver(h, h, d)
        BY <4>1 DEF NamesDriver
      <4> QED
        BY <1>2, <1>3, <3>1, <4>1, <4>2 DEF Stops
    <3> QED
      BY <3>1
  <2>2. \/ helper'[h] = helper[h]
        \/ helper[h].at \notin {"unused", "written"} /\ helper'[h].at = "gone"
    BY <1>2, <1>3 DEF Stops
  <2>3. helper'[h].driver \in {"none", helper[h].driver}
    BY <1>2, <1>3 DEF Stops
  <2>4. helper'[h].run = helper[h].run /\ helper'[h].kind = helper[h].kind
    BY <1>3 DEF Stoppable
  <2> QED
    BY <2>1, <2>2, <2>3, <2>4 DEF Dies
<1> QED
  BY <1>2, <1>3, <1>4 DEF Stoppable

\* cancel_review and the first half of terminate.
LEMMA StopsKeep ==
  ASSUME BaseInv, WorldTyped', CancelReview \/ TerminateStops
  PROVE  BaseInv'
<1> USE Tokens
<1>1. \A k \in Posts : helper[k].driver = "comment" =>
        review.token = k /\ review.status \in Reviewing
  BY DEF BaseInv, CommentOwned, Reviewing
<1>2. faults \in Nat
  BY Counted
<1>3. helper \in [Helpers -> Helper]
  BY DEF BaseInv, TypeOK
<1>4. CASE CancelReview
  <2> DEFINE t == sup.review.token
  <2>1. /\ t \in Posts /\ review.token = t /\ review.status \notin Feedback \cup {"none"}
    BY <1>4 DEF CancelReview, BaseInv, CallShapes, At, Reviewing, Feedback
  <2>2. helper' = Stop(helper, t) /\ Stop(helper, t) = Stop(Stop(helper, NoToken), t)
    <3>1. Stop(helper, NoToken) = helper
      BY <1>3 DEF Stop
    <3> QED
      BY <1>4, <3>1 DEF CancelReview
  <2>3. helper' \in [Helpers -> Helper] /\ \A h \in Helpers : Dies(h)
    BY <1>1, <2>1, <2>2, StopDies
  <2>4. PICK hs : Stops(NoToken, helper, hs) /\ Stops(t, hs, helper')
    BY <1>1, <2>1, <2>2, StopDies
  <2>5. \A h \in Turns : helper'[h] = helper[h]
    <3>1. \A h \in Turns : ~NamesHelper(t, h)
      BY <2>1 DEF NamesHelper
    <3> QED
      BY <2>4, <3>1 DEF Stops
  <2>6. helper'[t].driver # "comment"
    <3>1. t \in Helpers /\ t # NoToken /\ \A d : NamesDriver(t, t, d)
      BY <2>1 DEF NamesDriver
    <3> QED
      BY <2>4, <3>1 DEF Stops
  <2>7. sup' = [Idle EXCEPT !.at = "idle"] /\ Cancel(helper', sup.review) /\ At("cancel")
        /\ UNCHANGED <<session, history>> /\ faults' = faults
    BY <1>4 DEF CancelReview, Goto, SupFrame
  <2>8. sup' \in Supervisor /\ sup'.at = "idle"
    BY <2>7, EmptyTyped DEF Supervisor, Calls, Idle
  <2> QED
    BY <1>2, <2>1, <2>3, <2>5, <2>6, <2>7, <2>8, CancelTyped, DyingKeeps DEF At
<1>5. CASE TerminateStops
  <2> DEFINE t == sup.session.token
  <2> DEFINE u == review.token
  <2>1. helper' = Stop(Stop(helper, t), u) /\ At("terminate")
        /\ UNCHANGED <<session, history>> /\ faults' = faults
    BY <1>5 DEF TerminateStops, SupFrame
  <2>2. helper' \in [Helpers -> Helper] /\ \A h \in Helpers : Dies(h)
    BY <1>1, <2>1, StopDies
  <2>3. PICK hs : Stops(t, helper, hs) /\ Stops(u, hs, helper')
    BY <1>1, <2>1, StopDies
  <2>4. sup' \in Supervisor /\ sup'.at = "remove"
    <3>1. sup \in Supervisor /\ u \in Helpers \cup {NoToken}
      BY DEF BaseInv, TypeOK, Review
    <3>2. \E b \in BOOLEAN : sup' = [sup EXCEPT !.at = "remove", !.launch = u, !.safe = b]
      BY <1>5 DEF TerminateStops, Over
    <3> QED
      BY <3>1, <3>2 DEF Supervisor, Calls
  <2>5. session.status # "none"
    BY <2>1 DEF BaseInv, CallShapes
  <2>6. CASE review.status \in Reviewing
    <3>1. Cancel(helper', review) /\ u \in Posts /\ review.status \notin Feedback \cup {"none"}
      BY <1>5, <2>6 DEF TerminateStops, BaseInv, RowShapes, Reviewing, Feedback
    <3>2. u # NoToken /\ \A d : NamesDriver(u, u, d)
      BY <3>1 DEF NamesDriver
    <3>3. helper'[u].driver # "comment"
      BY <2>3, <3>1, <3>2 DEF Stops
    <3> QED
      BY <1>2, <2>1, <2>2, <2>4, <2>5, <3>1, <3>3, CancelTyped, DyingKeeps DEF At
  <2>7. CASE review.status \notin Reviewing
    <3>1. review' = review /\ tasks' \subseteq Helpers
      BY <1>5, <2>7 DEF TerminateStops, BaseInv, TypeOK
    <3> QED
      BY <1>2, <2>1, <2>2, <2>4, <2>5, <3>1, DyingKeeps DEF At
  <2> QED
    BY <2>6, <2>7
<1> QED
  BY <1>4, <1>5

\* A review that is lost, or whose feedback was answered.
LEMMA ReviewEndsKeep ==
  ASSUME BaseInv, WorldTyped', ReviewLost \/ FeedbackAnswered
  PROVE  BaseInv'
<1> USE Tokens
<1>1. /\ UNCHANGED <<session, helper, history>> /\ faults' = faults /\ tasks' \subseteq Helpers
      /\ sup' = [Idle EXCEPT !.at = "ready"] /\ At("get_review")
  BY DEF ReviewLost, FeedbackAnswered, SupFrame, Goto, WithoutTask, BaseInv, TypeOK
<1>2. /\ UNCHANGED <<said, prompted>>
      /\ sup' \in Supervisor /\ sup'.at = "ready"
  BY <1>1, EmptyTyped DEF history, Supervisor, Calls, Idle
<1>3. /\ review' \in Review
      /\ \/ review' = NoReview /\ review.status \in Feedback \cup {"completed"}
         \/ review' = review
         \/ /\ review.status \in Reviewing \cup {"completed", "failed"}
            /\ review'.status = "failed" /\ review'.verdict = review.verdict
            /\ review'.run = review.run /\ review'.target = review.target
            /\ review'.token = review.token /\ review.token \in Posts
            /\ helper[review.token].driver # "comment"
  <2>1. review \in Review /\ CallShapes
    BY DEF BaseInv, TypeOK
  <2>2. CASE ReviewLost
    <3>1. /\ sup.review.token \in Posts /\ review.token = sup.review.token
          /\ review.status \in Reviewing \cup {"completed", "failed"}
      BY <1>1, <2>1, <2>2 DEF ReviewLost, CallShapes
    <3>2. helper[review.token].driver # "comment"
      BY <2>2, <3>1 DEF ReviewLost, Running, Active, Owned, NamesDriver
    <3> QED
      BY <2>1, <2>2, <3>1, <3>2 DEF ReviewLost, PutReviewOfRun, Review
  <2>3. CASE FeedbackAnswered
    BY <1>1, <2>1, <2>3, EmptyTyped DEF FeedbackAnswered, CallShapes, Feedback
  <2> QED
    BY <2>2, <2>3
<1>4. NoReview.status = "none" /\ NoReview.run = 0 /\ NoReview.verdict \notin Decided
  BY DEF NoReview, Decided
<1>5. TypeOK'
  BY <1>1, <1>2, <1>3 DEF BaseInv, TypeOK, WorldTyped
<1>6. LaunchShapes' /\ TurnsInOrder'
  BY <1>1, <1>2 DEF BaseInv, LaunchShapes, TurnShape, PostShape, Carries, TurnsInOrder, Used,
     UsedRun
<1>7. RowShapes'
  BY <1>1, <1>3, <1>4 DEF BaseInv, RowShapes, Used, UsedRun, Reviewing, Feedback
<1>11. CommentOwned'
  BY <1>1, <1>3 DEF BaseInv, CommentOwned, Feedback
<1>8. CallShapes'
  BY <1>2 DEF CallShapes, At
<1>9. OneVerdict'
  <2>1. OneVoice /\ DurableVerdict /\ Consistent
    BY DEF BaseInv, OneVerdict
  <2>2. OneVoice' /\ Consistent'
    BY <1>1, <1>2, <2>1 DEF OneVoice, Consistent, Carries, UsedRun
  <2>3. CASE review' = review
    BY <1>1, <1>2, <2>3 DEF BaseInv, OneVerdict, OneVoice, DurableVerdict, FirstVerdict,
       PostedVerdict, Consistent, Carries, UsedRun
  <2>4. CASE review' # review
    <3>1. DurableVerdict'
      BY <1>1, <1>2, <1>3, <1>4, <2>1, <2>4 DEF DurableVerdict, Carries, Reviewing
    <3>2. FirstVerdict' /\ PostedVerdict'
      BY <1>3, <1>4, <2>4 DEF FirstVerdict, PostedVerdict, Feedback
    <3> QED
      BY <2>2, <3>1, <3>2 DEF OneVerdict
  <2> QED
    BY <2>3, <2>4
<1>10. Deliveries'
  <2>1. Deliveries
    BY DEF BaseInv
  <2>2. DeliveredOnce' /\ FreshCounts' /\ ClaimCounts'
    BY <1>1, <1>2, CountsKeep, ClaimCountsKeep, Counted DEF UsedRun, Used
  <2>3. UnclaimedCounts'
    BY <1>1, <1>2, <1>3, <1>4, <2>1 DEF Deliveries, UnclaimedCounts, Reviewing, Feedback
  <2>4. ClaimPending'
    BY <1>1, <1>2, <1>3, <1>4, <2>1 DEF Deliveries, ClaimPending, OwnsTurn, At
  <2>5. ClaimLasts'
    BY <1>1, <1>3, <1>4, <2>1 DEF Deliveries, ClaimLasts, Reviewing, Feedback
  <2> QED
    BY <2>2, <2>3, <2>4, <2>5 DEF Deliveries
<1> QED
  BY <1>5, <1>6, <1>7, <1>8, <1>9, <1>10, <1>11 DEF BaseInv

\* A launch that is written down: nothing of it runs yet.
Starts(h, kind, run, out) ==
  /\ helper' \in [Helpers -> Helper]
  /\ helper'[h].at = "written" /\ helper'[h].driver = "none" /\ helper'[h].kind = kind
  /\ helper'[h].run = run /\ helper'[h].out = out
  /\ \A k \in Helpers \ {h} : helper'[k] = helper[k]

\* A task file written for the next launch is the start of that launch.
LEMMA NewLaunch ==
  ASSUME BaseInv, NEW h \in Helpers, ~Used(h), NEW kind \in {"worker", "review", "review_comment"},
         NEW run \in Runs \cup {0}, NEW head \in Heads \cup {0}, NEW out \in Outs,
         Written(h, kind, run, head, out)
  PROVE  Starts(h, kind, run, out)
<1>1. helper \in [Helpers -> Helper]
  BY DEF BaseInv, TypeOK
<1> DEFINE new == [Unused EXCEPT !.at = "written", !.kind = kind, !.run = run, !.head = head,
                                 !.out = out]
<1>2. /\ new \in Helper /\ new.at = "written" /\ new.driver = "none" /\ new.kind = kind
      /\ new.run = run /\ new.out = out
  BY DEF Unused, Helper, Positions, Drivers
<1> HIDE DEF new
<1>3. helper' = [helper EXCEPT ![h] = new]
  BY DEF Written, new
<1> QED
  BY <1>1, <1>2, <1>3 DEF Starts

\* A launch that was never written is empty.
LEMMA UnusedShape ==
  ASSUME BaseInv, NEW h \in Helpers, ~Used(h)
  PROVE  helper[h] = Unused /\ helper[h].run = 0 /\ ~Carries(h) /\ helper[h].driver = "none"
<1>1. helper[h] = Unused
  BY Tokens DEF BaseInv, LaunchShapes, TurnShape, PostShape
<1> QED
  BY <1>1 DEF Unused, Carries, Early

\* spawn_worker.
LEMMA SpawnKeeps ==
  ASSUME BaseInv, WorldTyped', SpawnWorker
  PROVE  BaseInv'
<1> USE Tokens
<1>1. \A h \in Helpers : ~Used(h) /\ helper[h].run = 0 /\ helper[h].driver = "none" /\ ~Carries(h)
  BY UnusedShape DEF SpawnWorker, BaseInv, RowShapes
<1>2. review.status = "none" /\ review.run = 0
  BY <1>1, Counted DEF BaseInv, RowShapes, UsedRun
<1>3. /\ helper' \in [Helpers -> Helper]
      /\ helper'[FirstTurn].at = "written" /\ helper'[FirstTurn].driver = "none"
      /\ helper'[FirstTurn].kind = "worker" /\ helper'[FirstTurn].run = 0
      /\ \A k \in Helpers \ {FirstTurn} : helper'[k] = helper[k]
  <2>1. Written(FirstTurn, "worker", 0, 0, "none") /\ "none" \in Outs
    BY DEF SpawnWorker, Outs
  <2>2. Starts(FirstTurn, "worker", 0, "none")
    BY <1>1, <2>1, NewLaunch
  <2> QED
    BY <2>2 DEF Starts
<1>4. /\ session' \in Session /\ session'.status = "starting" /\ session'.token = FirstTurn
      /\ session'.pid = "none"
  BY DEF SpawnWorker, NoSession, Session, Launched, Pids
<1>5. /\ UNCHANGED <<review, said, prompted>> /\ faults' = faults /\ tasks' = {FirstTurn}
      /\ sup' = [Idle EXCEPT !.at = "launching", !.launch = FirstTurn]
  BY DEF SpawnWorker, Launching, history
<1>6. sup' \in Supervisor /\ sup'.at = "launching" /\ sup'.launch = FirstTurn
  BY <1>5, EmptyTyped DEF Supervisor, Calls, Idle
<1> HIDE DEF SpawnWorker
<1>7. TypeOK'
  BY <1>3, <1>4, <1>5, <1>6 DEF BaseInv, TypeOK, WorldTyped
<1>8. LaunchShapes'
  <2>1. TurnShape(FirstTurn)'
    BY <1>3 DEF TurnShape, Used
  <2>2. ASSUME NEW h \in Helpers \ {FirstTurn} PROVE helper'[h] = Unused
    BY <1>1, <1>3, <2>2, UnusedShape
  <2>3. ASSUME NEW h \in Turns \ {FirstTurn} PROVE TurnShape(h)'
    <3>1. helper'[h] = Unused
      BY <2>2, <2>3
    <3> QED
      BY <3>1 DEF TurnShape, Used, Unused, Early
  <2>4. ASSUME NEW h \in Posts PROVE PostShape(h)'
    <3>1. helper'[h] = Unused
      BY <2>2, <2>4
    <3> QED
      BY <3>1 DEF PostShape, Used, Unused, Carries, Early
  <2> QED
    BY <2>1, <2>3, <2>4 DEF LaunchShapes
<1>9. TurnsInOrder'
  <2>1. \A h \in Turns : FirstTurn <= h
    BY RunnerBounds DEF Turns, FirstTurn
  <2>2. \A h, k \in Turns : h < k => k # FirstTurn
    BY <2>1
  <2>3. Used(FirstTurn)' /\ \A k \in Turns \ {FirstTurn} : ~Used(k)'
    BY <1>1, <1>3 DEF Used
  <2>4. session'.token = FirstTurn /\ \A k \in Turns : FirstTurn < k => ~Used(k)'
    BY <1>4, <2>2, <2>3
  <2> QED
    BY <2>2, <2>3, <2>4 DEF TurnsInOrder
<1>10. RowShapes' /\ CallShapes' /\ CommentOwned'
  BY <1>1, <1>2, <1>3, <1>4, <1>5, <1>6 DEF RowShapes, CallShapes, CommentOwned, At, Feedback,
     Reviewing
<1>11. OneVerdict'
  <2>1. \A k \in Posts : ~Carries(k)'
    BY <1>1, <1>3 DEF Carries
  <2>2. \A run : UsedRun(run)' <=> UsedRun(run)
    BY <1>3 DEF UsedRun
  <2>3. Consistent'
    BY <1>5, <2>2 DEF BaseInv, OneVerdict, Consistent
  <2> QED
    BY <1>2, <1>5, <2>1, <2>3 DEF OneVerdict, OneVoice, DurableVerdict, FirstVerdict,
       PostedVerdict, Feedback
<1>12. Deliveries'
  <2>1. faults \in Nat
    BY Counted
  <2>2. DeliveredOnce' /\ FreshCounts'
    BY <1>3, <1>5, <2>1, CountsKeep DEF UsedRun, Used
  <2>3. ClaimCounts'
    BY <1>3, <1>4 DEF ClaimCounts
  <2>4. UnclaimedCounts' /\ ClaimPending' /\ ClaimLasts'
    BY <1>2, <1>3, <1>5 DEF UnclaimedCounts, ClaimPending, ClaimLasts
  <2> QED
    BY <2>2, <2>3, <2>4 DEF Deliveries
<1> QED
  BY <1>7, <1>8, <1>9, <1>10, <1>11, <1>12 DEF BaseInv

\* What the start of a review, or of the retry of its comment, finds and changes.
PostLaunch(h, kind, run, head, out) ==
  /\ ~Used(h) /\ Written(h, kind, run, head, out)
  /\ review'.status = "starting" /\ review'.token = h /\ review'.pid = "none"
  /\ review'.run = run /\ review'.target = head
  /\ review.status \notin Reviewing \/ ~Active(helper, review.token, review.pid)

\* The launch of a reviewer or of a comment retry keeps the invariant.
LEMMA PostLaunchKeeps ==
  ASSUME BaseInv, WorldTyped', NEW h \in Posts, NEW kind \in {"review", "review_comment"},
         NEW run \in Runs, NEW head \in Heads, NEW out \in Outs,
         PostLaunch(h, kind, run, head, out), review' \in Review,
         session.status # "none", session' = session, UNCHANGED history, faults' = faults,
         tasks' \subseteq Helpers, sup' = [Idle EXCEPT !.at = "launching", !.launch = h],
         \/ /\ kind = "review" /\ out = "none" /\ review'.verdict \notin Decided
            /\ ~UsedRun(run)
         \/ /\ kind = "review_comment" /\ review'.verdict = review.verdict
            /\ out = review.verdict /\ out \in Decided /\ run = review.run
            /\ review.status \in Reviewing \cup {"failed"}
  PROVE  BaseInv'
<1> USE Tokens DEF PostLaunch
<1>1. /\ helper[h].run = 0 /\ ~Carries(h) /\ helper[h].driver = "none"
  BY UnusedShape
<1>2. /\ helper' \in [Helpers -> Helper]
      /\ helper'[h].at = "written" /\ helper'[h].driver = "none" /\ helper'[h].kind = kind
      /\ helper'[h].run = run /\ helper'[h].out = out
      /\ \A k \in Helpers \ {h} : helper'[k] = helper[k]
  <2>1. Written(h, kind, run, head, out) /\ ~Used(h)
    OBVIOUS
  <2> HIDE DEF PostLaunch
  <2>2. Starts(h, kind, run, out)
    BY <2>1, NewLaunch
  <2> QED
    BY <2>2 DEF Starts
<1>3. UNCHANGED <<said, prompted>>
  BY DEF history
<1>4. sup' \in Supervisor /\ sup'.at = "launching" /\ sup'.launch = h
  BY EmptyTyped DEF Supervisor, Calls, Idle
<1>5. \A k \in Helpers : (Used(k) => Used(k)') /\ (k # h => (Used(k)' <=> Used(k)))
  BY <1>2 DEF Used
<1>6. \A r \in Runs : UsedRun(r)' <=> UsedRun(r) \/ r = run
  BY <1>1, <1>2 DEF UsedRun
<1>7. TypeOK'
  BY <1>2, <1>3, <1>4 DEF BaseInv, TypeOK, WorldTyped
<1>8. LaunchShapes'
  <2>1. ASSUME NEW k \in Turns PROVE TurnShape(k)'
    <3>1. TurnShape(k) /\ helper'[k] = helper[k] /\ helper[k].run \in Runs \cup {0}
      BY <1>2 DEF BaseInv, LaunchShapes, TypeOK, Helper
    <3> QED
      BY <1>6, <3>1 DEF TurnShape, Used
  <2>2. PostShape(h)'
    BY <1>2 DEF PostShape, Carries, Used, Early, Decided
  <2>3. ASSUME NEW k \in Posts \ {h} PROVE PostShape(k)'
    BY <1>2, <1>3 DEF BaseInv, LaunchShapes, PostShape, Carries, Used
  <2> QED
    BY <2>1, <2>2, <2>3 DEF LaunchShapes
<1>9. TurnsInOrder'
  BY <1>5 DEF BaseInv, TurnsInOrder, TypeOK, Session
<1>10. RowShapes'
  BY <1>2, <1>5, <1>6 DEF BaseInv, RowShapes, Reviewing, Feedback, Used
<1>11. CallShapes'
  BY <1>2, <1>4 DEF CallShapes, At
<1>12. CommentOwned'
  <2>1. ASSUME NEW k \in Posts, helper[k].driver = "comment" PROVE FALSE
    <3>1. review.token = k /\ review.status = "posting"
      BY <2>1 DEF BaseInv, CommentOwned
    <3>2. ~Active(helper, k, review.pid)
      BY <3>1 DEF Reviewing
    <3> QED
      BY <2>1, <3>2 DEF Active, Owned, NamesDriver
  <2> QED
    BY <1>2, <2>1 DEF CommentOwned
<1>13. OneVerdict'
  <2>1. OneVerdict
    BY DEF BaseInv
  <2>2. \A k \in Posts \ {h} : (Carries(k)' <=> Carries(k)) /\ helper'[k] = helper[k]
    BY <1>2 DEF Carries
  <2>3. Carries(h)' <=> kind = "review_comment"
    BY <1>2 DEF Carries, Early
  <2>4. Consistent'
    BY <1>3, <1>6, <2>1 DEF OneVerdict, Consistent
  <2>5. CASE kind = "review"
    <3>1. \A k \in Posts : helper[k].run # run
      BY <2>5 DEF UsedRun
    <3>2. said[run] = {}
      BY <2>1, <2>5 DEF OneVerdict, Consistent
    <3>3. OneVoice'
      BY <1>3, <2>1, <2>2, <2>3, <2>5 DEF OneVerdict, OneVoice
    <3>4. DurableVerdict' /\ FirstVerdict' /\ PostedVerdict'
      BY <1>2, <1>3, <2>2, <2>3, <2>5, <3>1, <3>2
      DEF DurableVerdict, FirstVerdict, PostedVerdict, Feedback
    <3> QED
      BY <2>4, <3>3, <3>4 DEF OneVerdict
  <2>6. CASE kind = "review_comment"
    <3>1. /\ said[run] \subseteq {out}
          /\ \A k \in Posts : Carries(k) /\ helper[k].run = run => helper[k].out = out
      BY <2>1, <2>6 DEF OneVerdict, DurableVerdict, Reviewing
    <3>2. OneVoice'
      BY <1>2, <1>3, <2>1, <2>2, <3>1 DEF OneVerdict, OneVoice
    <3>3. DurableVerdict'
      BY <1>2, <1>3, <2>2, <2>6, <3>1 DEF DurableVerdict
    <3>4. FirstVerdict' /\ PostedVerdict'
      BY <1>2, <2>6 DEF FirstVerdict, PostedVerdict, Feedback
    <3> QED
      BY <2>4, <3>2, <3>3, <3>4 DEF OneVerdict
  <2> QED
    BY <2>5, <2>6
<1>14. Deliveries'
  <2>1. Deliveries
    BY DEF BaseInv
  <2>2. \A k \in Turns : helper'[k] = helper[k]
    BY <1>2
  <2>3. DeliveredOnce' /\ FreshCounts' /\ ClaimCounts'
    BY <1>3, <1>5, <1>6, <2>2, CountsKeep, ClaimCountsKeep, Counted
  <2>4. prompted[run] <= faults
    <3>1. CASE kind = "review"
      BY <2>1, <3>1, Counted DEF Deliveries, FreshCounts
    <3>2. CASE kind = "review_comment"
      BY <2>1, <3>2 DEF Deliveries, UnclaimedCounts, Reviewing, Feedback
    <3> QED
      BY <3>1, <3>2
  <2>5. UnclaimedCounts' /\ ClaimPending'
    BY <1>3, <2>4 DEF UnclaimedCounts, ClaimPending
  <2>6. ClaimLasts'
    <3>1. ASSUME NEW k \in Turns, session.token = k, session.status \in Launched,
                 helper[k].run = run
          PROVE  FALSE
      <4>1. UsedRun(run)
        BY <3>1 DEF BaseInv, LaunchShapes, TurnShape
      <4>2. review.status \in Feedback
        BY <2>1, <3>1, <4>1 DEF Deliveries, ClaimLasts
      <4> QED
        BY <4>1, <4>2 DEF Reviewing, Feedback
    <3> QED
      BY <2>2, <3>1 DEF ClaimLasts
  <2> QED
    BY <2>3, <2>5, <2>6 DEF Deliveries
<1> QED
  BY <1>7, <1>8, <1>9, <1>10, <1>11, <1>12, <1>13, <1>14 DEF BaseInv

\* trigger_review, with a new run or with the retry of a comment.
LEMMA ReviewsKeep ==
  ASSUME BaseInv, WorldTyped', TriggerReview \/ RetryReviewComment
  PROVE  BaseInv'
<1> USE Tokens
<1>1. /\ session' = session /\ UNCHANGED history /\ faults' = faults /\ session.status # "none"
      /\ review.status \notin Reviewing \/ ~Active(helper, review.token, review.pid)
      /\ review \in Review /\ pr.head \in Heads
  BY DEF TriggerReview, RetryReviewComment, Triggers, Running, SupFrame, BaseInv, TypeOK
<1>2. CASE TriggerReview
  <2>1. PICK h \in Next1(Posts), run \in Runs :
          /\ run \notin UsedRuns /\ review' = ClaimedReview(h, run, pr.head)
          /\ Written(h, "review", run, pr.head, "none") /\ tasks' = TasksAfter(review, h)
          /\ Launching(h)
    BY <1>2 DEF TriggerReview
  <2>2. h \in Posts /\ ~Used(h) /\ ~UsedRun(run)
    BY <2>1 DEF Next1, UsedRuns, Used, UsedRun
  <2>3. tasks' \subseteq Helpers
    BY <2>1, <2>2 DEF TasksAfter, WithoutTask, BaseInv, TypeOK
  <2>4. PostLaunch(h, "review", run, pr.head, "none") /\ review' \in Review
        /\ review'.verdict \notin Decided
    BY <1>1, <2>1, <2>2 DEF PostLaunch, ClaimedReview, Review, Reviewing, Pids, Decided
  <2>5. "none" \in Outs /\ "none" \notin Decided
    BY DEF Outs, Decided
  <2>6. sup' = [Idle EXCEPT !.at = "launching", !.launch = h]
    BY <2>1 DEF Launching
  <2> QED
    BY <1>1, <2>2, <2>3, <2>4, <2>5, <2>6, PostLaunchKeeps
<1>3. CASE RetryReviewComment
  <2> DEFINE r == Settled(review)
  <2>1. r.status = "failed" /\ r.verdict \in Decided /\ r.target = pr.head
    BY <1>3 DEF RetryReviewComment, CommentMissing
  <2>2. /\ review.status \in Reviewing \cup {"failed"} /\ r.run = review.run
        /\ r.verdict = review.verdict /\ r.target = review.target /\ r \in Review
    BY <1>1, <2>1 DEF Settled, Dead, Review, Reviewing
  <2> HIDE DEF r
  <2>3. PICK h \in Next1(Posts) :
          /\ review' = [r EXCEPT !.status = "starting", !.pid = "none", !.token = h,
                                 !.young = TRUE]
          /\ Written(h, "review_comment", r.run, r.target, r.verdict)
          /\ tasks' = TasksAfter(review, h) /\ Launching(h)
    BY <1>3 DEF RetryReviewComment, r
  <2>4. h \in Posts /\ ~Used(h)
    BY <2>3 DEF Next1, Used
  <2>5. tasks' \subseteq Helpers
    BY <2>3, <2>4 DEF TasksAfter, WithoutTask, BaseInv, TypeOK
  <2>6. review.run \in Runs
    BY <2>2, Counted DEF Reviewing
  <2>7. /\ PostLaunch(h, "review_comment", review.run, pr.head, review.verdict)
        /\ review' \in Review /\ review'.verdict = review.verdict
    BY <1>1, <2>1, <2>2, <2>3, <2>4 DEF PostLaunch, Review, Reviewing, Pids
  <2>8. review.verdict \in Outs /\ review.verdict \in Decided
    BY <2>1, <2>2 DEF Outs
  <2>9. sup' = [Idle EXCEPT !.at = "launching", !.launch = h]
    BY <2>3 DEF Launching
  <2> QED
    BY <1>1, <2>2, <2>4, <2>5, <2>6, <2>7, <2>8, <2>9, PostLaunchKeeps
<1> QED
  BY <1>2, <1>3

\* A launch that is unchanged, or a step further towards its prompt.
Advanced(h) ==
  \/ helper'[h] = helper[h]
  \/ /\ helper[h].at \in Early /\ helper'[h].at \in Early
     /\ helper'[h] = [helper[h] EXCEPT !.at = helper'[h].at]

\* A launch that advances before its driver starts keeps its shape.
LEMMA AdvancedShapes ==
  ASSUME BaseInv, helper' \in [Helpers -> Helper], \A h \in Helpers : Advanced(h), said' = said
  PROVE  /\ LaunchShapes'
         /\ \A h \in Helpers :
              /\ Used(h)' <=> Used(h)
              /\ Carries(h)' <=> Carries(h)
              /\ helper'[h].run = helper[h].run /\ helper'[h].kind = helper[h].kind
              /\ helper'[h].out = helper[h].out /\ helper'[h].driver = helper[h].driver
              /\ helper'[h].at # helper[h].at =>
                   helper[h].at \in Early /\ helper'[h].at \in Early
         /\ \A run : UsedRun(run)' <=> UsedRun(run)
<1> USE Tokens
<1>1. \A h \in Helpers :
        /\ helper'[h].run = helper[h].run /\ helper'[h].kind = helper[h].kind
        /\ helper'[h].out = helper[h].out /\ helper'[h].driver = helper[h].driver
        /\ helper'[h].at # helper[h].at => helper[h].at \in Early /\ helper'[h].at \in Early
  <2>1. ASSUME NEW h \in Helpers, NEW at, helper'[h] = [helper[h] EXCEPT !.at = at]
        PROVE  /\ helper'[h].run = helper[h].run /\ helper'[h].kind = helper[h].kind
               /\ helper'[h].out = helper[h].out /\ helper'[h].driver = helper[h].driver
    BY <2>1 DEF BaseInv, TypeOK, Helper
  <2> QED
    BY ZenonT(60), <2>1 DEF Advanced
<1>2. \A h \in Helpers : (Used(h)' <=> Used(h)) /\ (Carries(h)' <=> Carries(h))
  BY <1>1 DEF Used, Carries, Early
<1>3. \A run : UsedRun(run)' <=> UsedRun(run)
  BY <1>1 DEF UsedRun
<1>4. ASSUME NEW h \in Turns PROVE TurnShape(h)'
  <2>1. TurnShape(h) /\ Advanced(h)
    BY DEF BaseInv, LaunchShapes
  <2> QED
    BY <1>1, <1>3, <2>1 DEF TurnShape, Advanced, Used, Early
<1>5. ASSUME NEW h \in Posts PROVE PostShape(h)'
  <2>1. PostShape(h) /\ Advanced(h)
    BY DEF BaseInv, LaunchShapes
  <2> QED
    BY <1>1, <1>2, <2>1 DEF PostShape, Advanced, Used, Early
<1> QED
  BY <1>1, <1>2, <1>3, <1>4, <1>5 DEF LaunchShapes

\* An acknowledgement, by the supervisor or by the helper, and the passing of time.
LEMMA AdvanceKeeps ==
  ASSUME BaseInv, WorldTyped', helper' \in [Helpers -> Helper], \A h \in Helpers : Advanced(h),
         UNCHANGED history, faults' = faults, tasks' = tasks, sup' \in Supervisor, CallShapes',
         At("remove") => At("remove")',
         session' \in Session, session'.token = session.token,
         session'.status = session.status
           \/ (session.status \in Launched /\ session'.status \in Launched),
         review' \in Review, review'.run = review.run, review'.token = review.token,
         review'.verdict = review.verdict, review'.target = review.target,
         review'.status = review.status
           \/ (review.status \in {"starting", "running"} /\ review'.status = "running")
  PROVE  BaseInv'
<1> USE Tokens
<1>1. UNCHANGED <<said, prompted>> /\ faults \in Nat
  BY Counted DEF history
<1>2. /\ LaunchShapes'
      /\ \A h \in Helpers :
           /\ Used(h)' <=> Used(h)
           /\ Carries(h)' <=> Carries(h)
           /\ helper'[h].run = helper[h].run /\ helper'[h].kind = helper[h].kind
           /\ helper'[h].out = helper[h].out /\ helper'[h].driver = helper[h].driver
           /\ helper'[h].at # helper[h].at => helper[h].at \in Early /\ helper'[h].at \in Early
      /\ \A run : UsedRun(run)' <=> UsedRun(run)
  BY <1>1, AdvancedShapes
<1>3. TypeOK'
  BY <1>1 DEF BaseInv, TypeOK, WorldTyped
<1>4. TurnsInOrder'
  BY <1>2 DEF BaseInv, TurnsInOrder, TypeOK, Session
<1>5. RowShapes'
  BY ZenonT(60), <1>2 DEF BaseInv, RowShapes, Reviewing, Feedback, Launched
<1>6. CommentOwned'
  BY <1>2 DEF BaseInv, CommentOwned
<1>7. OneVerdict'
  <2>1. OneVerdict /\ (review.status \in Reviewing => review.token \in Posts)
    BY DEF BaseInv, RowShapes
  <2>6. \A k \in Posts : /\ Carries(k)' <=> Carries(k)
                         /\ helper'[k].run = helper[k].run /\ helper'[k].out = helper[k].out
    BY <1>2
  <2>2. OneVoice'
    <3>1. OneVoice
      BY <2>1 DEF OneVerdict
    <3> QED
      BY <1>1, <2>6, <3>1 DEF OneVoice
  <2>3. DurableVerdict'
    <3>1. DurableVerdict
      BY <2>1 DEF OneVerdict
    <3> QED
      BY <1>1, <2>6, <3>1 DEF DurableVerdict
  <2>4. FirstVerdict' /\ PostedVerdict'
    <3>1. FirstVerdict /\ PostedVerdict
      BY <2>1 DEF OneVerdict
    <3>2. review.status \in Reviewing =>
            /\ helper'[review.token].kind = helper[review.token].kind
            /\ helper'[review.token].at # helper[review.token].at =>
                 helper[review.token].at \in Early
      BY <1>2, <2>1
    <3>3. FirstVerdict'
      BY <1>1, <2>6, <3>1, <3>2 DEF FirstVerdict, Reviewing
    <3>4. PostedVerdict'
      BY <1>1, <3>1, <3>2 DEF PostedVerdict, Reviewing, Feedback, Early
    <3> QED
      BY <3>3, <3>4
  <2>5. Consistent'
    BY <1>1, <1>2, <2>1 DEF OneVerdict, Consistent
  <2> QED
    BY <2>2, <2>3, <2>4, <2>5 DEF OneVerdict
<1>8. Deliveries'
  <2>1. Deliveries
    BY DEF BaseInv
  <2>2. \A h \in Turns : /\ helper'[h].run = helper[h].run
                         /\ helper'[h].at \in Early => helper[h].at \in Early
    BY <1>2
  <2>3. DeliveredOnce' /\ FreshCounts' /\ ClaimCounts'
    BY <1>1, <1>2, <2>2, CountsKeep, ClaimCountsKeep
  <2>4. UnclaimedCounts'
    BY <1>1, <2>1 DEF Deliveries, UnclaimedCounts, Feedback
  <2>5. ClaimPending'
    <3>1. review.status \in Feedback => review.token \in Turns
      BY DEF BaseInv, RowShapes
    <3> QED
      BY <1>1, <1>2, <2>1, <3>1 DEF Deliveries, ClaimPending, OwnsTurn, Feedback, Early, Launched
  <2>6. ClaimLasts'
    BY <2>1, <2>2 DEF Deliveries, ClaimLasts, Feedback
  <2> QED
    BY <2>3, <2>4, <2>5, <2>6 DEF Deliveries
<1> QED
  BY <1>2, <1>3, <1>4, <1>5, <1>6, <1>7, <1>8 DEF BaseInv

\* The helper process starts.
LEMMA LaunchKeeps ==
  ASSUME BaseInv, WorldTyped', Launch
  PROVE  BaseInv'
<1> USE Tokens
<1>1. /\ At("launching") /\ sup.launch \in Helpers /\ helper[sup.launch].at = "written"
      /\ helper' = [helper EXCEPT ![sup.launch].at = "launched"]
      /\ sup' = [sup EXCEPT !.at = "marking"]
      /\ UNCHANGED <<rows, tasks, history>> /\ faults' = faults
  BY DEF Launch, SupFrame, BaseInv, CallShapes
<1>2. helper' \in [Helpers -> Helper] /\ \A h \in Helpers : Advanced(h)
  BY <1>1 DEF BaseInv, TypeOK, Helper, Positions, Advanced, Early
<1>3. sup' \in Supervisor /\ sup'.at = "marking" /\ sup'.launch = sup.launch
  BY <1>1 DEF BaseInv, TypeOK, Supervisor, Calls
<1>4. CallShapes'
  <2>1. helper'[sup.launch].at = "launched"
    BY <1>1 DEF BaseInv, TypeOK, Helper
  <2> QED
    BY <1>1, <1>3, <2>1 DEF CallShapes, At, Used
<1> QED
  BY <1>1, <1>2, <1>3, <1>4, AdvanceKeeps DEF rows, At, BaseInv, TypeOK

\* The acknowledgement of a launch writes one of the rows.
LEMMA Marking ==
  ASSUME BaseInv, NEW h
  PROVE  /\ MarkSessionLaunched(h) => session' = session \/
              /\ session' \in Session /\ session'.token = session.token /\ session.token = h
              /\ session.status \in Launched /\ session'.status = "working"
         /\ MarkReviewLaunched(h, helper[h].run) => review' = review \/
              /\ review' \in Review /\ review.token = h /\ review'.token = review.token
              /\ review'.run = review.run /\ review'.verdict = review.verdict
              /\ review'.target = review.target
              /\ review.status \in {"starting", "running"} /\ review'.status = "running"
<1>1. session \in Session /\ review \in Review
  BY DEF BaseInv, TypeOK
<1>2. ASSUME MarkSessionLaunched(h), session' # session
      PROVE  /\ session' \in Session /\ session'.token = session.token /\ session.token = h
             /\ session.status \in Launched /\ session'.status = "working"
  BY <1>1, <1>2 DEF MarkSessionLaunched, CanMarkSession, Session, Pids, Launched
<1>3. ASSUME MarkReviewLaunched(h, helper[h].run), review' # review
      PROVE  /\ review' \in Review /\ review.token = h /\ review'.token = review.token
             /\ review'.run = review.run /\ review'.verdict = review.verdict
             /\ review'.target = review.target
             /\ review.status \in {"starting", "running"} /\ review'.status = "running"
  BY <1>1, <1>3 DEF MarkReviewLaunched, CanMarkReview, Review, Pids, Reviewing
<1> QED
  BY <1>2, <1>3

\* The acknowledgement of a launch by the supervisor.
LEMMA MarkLaunchedKeeps ==
  ASSUME BaseInv, WorldTyped', MarkLaunched
  PROVE  BaseInv'
<1>1. /\ At("marking") /\ sup' = [Idle EXCEPT !.at = "idle"]
      /\ UNCHANGED <<helper, tasks, history>> /\ faults' = faults
  BY DEF MarkLaunched, Goto, SupFrame
<1>2. sup' \in Supervisor /\ sup'.at = "idle"
  BY <1>1, EmptyTyped DEF Supervisor, Calls, Idle
<1>3. CallShapes'
  BY <1>2 DEF CallShapes, At
<1>4. helper' \in [Helpers -> Helper] /\ \A h \in Helpers : Advanced(h)
  BY <1>1 DEF Advanced, BaseInv, TypeOK
<1>5. session \in Session /\ review \in Review
  BY DEF BaseInv, TypeOK
<1>6. \/ MarkSessionLaunched(sup.launch) /\ review' = review
      \/ MarkReviewLaunched(sup.launch, helper[sup.launch].run) /\ session' = session
  BY DEF MarkLaunched
<1>7. CASE MarkSessionLaunched(sup.launch) /\ review' = review
  BY <1>1, <1>2, <1>3, <1>4, <1>5, <1>7, Marking, AdvanceKeeps DEF At, Launched
<1>8. CASE MarkReviewLaunched(sup.launch, helper[sup.launch].run) /\ session' = session
  BY <1>1, <1>2, <1>3, <1>4, <1>5, <1>8, Marking, AdvanceKeeps DEF At
<1> QED
  BY <1>6, <1>7, <1>8

\* The helper's own acknowledgement, or its end without one.
LEMMA AcquiresKeep ==
  ASSUME BaseInv, WorldTyped', NEW h \in Helpers,
         (h \in Turns /\ TurnAcquires(h)) \/ (h \in Posts /\ ReviewAcquires(h))
  PROVE  BaseInv'
<1> USE Tokens
<1>1. helper[h].at = "launched" /\ sup' = sup /\ UNCHANGED history /\ faults' = faults
  BY DEF TurnAcquires, ReviewAcquires, HelperFrame
<1>2. session \in Session /\ review \in Review /\ sup \in Supervisor /\ tasks \subseteq Helpers
      /\ helper \in [Helpers -> Helper] /\ CallShapes /\ faults \in Nat
  BY Counted DEF BaseInv, TypeOK
<1>3. \/ Move(h, "acquired") /\ tasks' = tasks
      \/ Leaves(h) /\ UNCHANGED rows
  <2>1. CASE h \in Turns /\ TurnAcquires(h)
    <3>1. CASE CanMarkSession(h)
      BY <2>1, <3>1 DEF TurnAcquires
    <3>2. CASE ~CanMarkSession(h)
      BY <2>1, <3>2 DEF TurnAcquires, MarkSessionLaunched, rows
    <3> QED
      BY <3>1, <3>2
  <2>2. CASE h \in Posts /\ ReviewAcquires(h)
    <3>1. CASE CanMarkReview(h, helper[h].run)
      BY <2>2, <3>1 DEF ReviewAcquires
    <3>2. CASE ~CanMarkReview(h, helper[h].run)
      BY <2>2, <3>2 DEF ReviewAcquires, MarkReviewLaunched, rows
    <3> QED
      BY <3>1, <3>2
  <2> QED
    BY <2>1, <2>2
<1>4. CASE Move(h, "acquired") /\ tasks' = tasks
  <2>1. helper' = [helper EXCEPT ![h].at = "acquired"]
    BY <1>4 DEF Move
  <2>2. helper' \in [Helpers -> Helper] /\ \A k \in Helpers : Advanced(k)
    BY <1>1, <1>2, <2>1 DEF Helper, Positions, Advanced, Early
  <2>3. \A k \in Helpers : (k # h => helper'[k] = helper[k]) /\ (Used(k) => Used(k)')
    BY <2>1, <1>2 DEF Used, Helper
  <2>4. At("launching") => sup.launch # h /\ helper'[sup.launch] = helper[sup.launch]
    BY <1>1, <1>2, <2>3 DEF CallShapes
  <2>5. CASE h \in Turns /\ MarkSessionLaunched(h) /\ review' = review
    <3>1. CallShapes'
      <4>1. session' = session \/ (/\ session'.token = session.token /\ session.token = h
                                   /\ session.status \in Launched /\ session'.status = "working")
        BY <2>5, Marking
      <4> QED
        <5>1. CASE session' = session
          BY ZenonT(60), <1>1, <1>2, <2>3, <2>4, <2>5, <5>1 DEF CallShapes, At
        <5>2. CASE session' # session
          <6>1. ~(At("launching") /\ sup.launch \in Turns)
            BY <1>2, <2>4, <4>1, <5>2 DEF CallShapes
          <6> QED
            BY <1>1, <1>2, <2>3, <2>4, <2>5, <4>1, <5>2, <6>1 DEF CallShapes, At, Launched
        <5> QED
          BY <5>1, <5>2
    <3> QED
      BY <1>1, <1>2, <1>4, <2>2, <2>5, <3>1, Marking, AdvanceKeeps DEF At, Launched
  <2>6. CASE h \in Posts /\ MarkReviewLaunched(h, helper[h].run) /\ session' = session
    <3>1. CallShapes'
      <4>1. review' = review \/ (/\ review'.token = review.token /\ review.token = h
                                 /\ review'.run = review.run
                                 /\ review.status \in {"starting", "running"}
                                 /\ review'.status = "running")
        BY <2>6, Marking
      <4>2. \A k \in Helpers : helper'[k].run = helper[k].run
        BY <1>1, <1>2, <2>2, AdvancedShapes DEF history
      <4> QED
        <5>1. CASE review' = review
          BY ZenonT(60), <1>1, <1>2, <2>3, <2>4, <2>6, <4>2, <5>1 DEF CallShapes, At
        <5>2. CASE review' # review
          <6>1. At("launching") => sup.launch \in Turns
            BY <1>2, <2>4, <4>1, <5>2 DEF CallShapes
          <6> QED
            BY <1>1, <1>2, <2>3, <2>4, <2>6, <4>1, <4>2, <5>2, <6>1
            DEF CallShapes, At, Reviewing, Feedback
        <5> QED
          BY <5>1, <5>2
    <3> QED
      BY <1>1, <1>2, <1>4, <2>2, <2>6, <3>1, Marking, AdvanceKeeps DEF At
  <2> QED
    BY <2>5, <2>6 DEF TurnAcquires, ReviewAcquires
<1>5. CASE Leaves(h) /\ UNCHANGED rows
  <2>1. helper' = [helper EXCEPT ![h] = Gone(h, "none")] /\ tasks' \subseteq Helpers
    BY <1>2, <1>5 DEF Leaves
  <2>2. Gone(h, "none") \in Helper
    BY <1>2, GoneTyped DEF Drivers
  <2>3. helper' \in [Helpers -> Helper] /\ \A k \in Helpers : Dies(k)
    BY <1>1, <1>2, <2>1, <2>2 DEF Dies, Gone, Helper
  <2>4. \A k \in Turns : helper[k].at = "prompted" => helper'[k] = helper[k]
    BY <1>1, <2>1
  <2>5. At("remove") => session.status # "none"
    BY <1>2 DEF CallShapes
  <2> QED
    BY <1>1, <1>2, <1>5, <2>1, <2>3, <2>4, <2>5, DyingKeeps DEF rows, At
<1> QED
  BY <1>3, <1>4, <1>5

\* Time passes; the world changes; the supervisor dies.
LEMMA WorldKeeps ==
  ASSUME BaseInv, WorldTyped', World
  PROVE  BaseInv'
<1>1. /\ helper \in [Helpers -> Helper] /\ \A h \in Helpers : helper[h] = helper[h]
      /\ session \in Session /\ review \in Review /\ sup \in Supervisor /\ faults \in Nat
      /\ CallShapes
  BY Counted DEF BaseInv, TypeOK
<1>2. CASE WorkerPushes \/ TreeDirtied \/ PullRequestEnds
  <2>1. UNCHANGED <<rows, helper, history>> /\ UNCHANGED <<sup, tasks, faults>>
    BY <1>2 DEF WorkerPushes, TreeDirtied, PullRequestEnds, WorldFrame
  <2>2. CallShapes'
    BY <1>1, <2>1 DEF CallShapes, At, Used, rows
  <2> QED
    BY <1>1, <2>1, <2>2, CallKeeps
<1>3. CASE Age
  <2>1. /\ session' = [session EXCEPT !.young = FALSE] /\ review' = [review EXCEPT !.young = FALSE]
        /\ sup' = [sup EXCEPT !.session.young = FALSE, !.review.young = FALSE]
        /\ UNCHANGED <<helper, tasks, history, faults>>
    BY <1>3 DEF Age
  <2>2. /\ session' \in Session /\ session'.status = session.status
        /\ session'.token = session.token /\ session'.pid = session.pid
    BY <1>1, <2>1 DEF Session
  <2>3. /\ review' \in Review /\ review'.status = review.status /\ review'.run = review.run
        /\ review'.token = review.token /\ review'.verdict = review.verdict
        /\ review'.target = review.target /\ review'.pid = review.pid
    BY <1>1, <2>1 DEF Review
  <2>4. /\ sup' \in Supervisor /\ sup'.at = sup.at /\ sup'.launch = sup.launch
        /\ sup'.session.status = sup.session.status /\ sup'.session.token = sup.session.token
        /\ sup'.session.pid = sup.session.pid
        /\ sup'.review.status = sup.review.status /\ sup'.review.token = sup.review.token
    <3>1. sup' = [sup EXCEPT !.session = [sup.session EXCEPT !.young = FALSE],
                             !.review = [sup.review EXCEPT !.young = FALSE]]
      BY <2>1
    <3>2. /\ sup.session \in Session /\ sup.review \in Review
      BY <1>1 DEF Supervisor
    <3> DEFINE s == [sup.session EXCEPT !.young = FALSE]
    <3> DEFINE r == [sup.review EXCEPT !.young = FALSE]
    <3>3. /\ s \in Session /\ s.status = sup.session.status /\ s.token = sup.session.token
          /\ s.pid = sup.session.pid
      BY <3>2 DEF Session
    <3>4. r \in Review /\ r.status = sup.review.status /\ r.token = sup.review.token
      BY <3>2 DEF Review
    <3> HIDE DEF s, r
    <3>5. sup' = [sup EXCEPT !.session = s, !.review = r]
      BY <3>1 DEF s, r
    <3> QED
      BY <1>1, <3>3, <3>4, <3>5 DEF Supervisor
  <2>5. CallShapes'
    BY <1>1, <2>1, <2>2, <2>3, <2>4 DEF CallShapes, At, Used
  <2>6. \A h \in Helpers : Advanced(h)
    BY <2>1 DEF Advanced
  <2> QED
    BY <1>1, <2>1, <2>2, <2>3, <2>4, <2>5, <2>6, AdvanceKeeps DEF At
<1> QED
  BY <1>2, <1>3 DEF World

\* The findings are claimed for the worker's next turn.
LEMMA SendKeeps ==
  ASSUME BaseInv, WorldTyped', Send
  PROVE  BaseInv'
<1> USE Tokens
<1> DEFINE run == review.run
<1>1. PICK h \in Next1(Turns) :
        /\ ClaimFeedback(h) /\ Written(h, "worker", run, 0, "none")
        /\ tasks' = tasks \cup {h} /\ Launching(h)
  BY DEF Send, CanClaimFeedback
<1>2. /\ review.status = "completed" /\ review.verdict \in Decided /\ At("send")
      /\ UNCHANGED <<said, prompted>> /\ faults' = faults /\ faults \in Nat /\ run \in Runs
  BY Counted DEF Send, CanClaimFeedback, SupFrame, history, Decided
<1>3. /\ h \in Turns /\ ~Used(h) /\ \A k \in Turns : k < h => Used(k)
      /\ \A k \in Turns : h < k => ~Used(k)
  <2>1. h \in Turns /\ ~Used(h) /\ \A k \in Turns : k < h => Used(k)
    BY <1>1 DEF Next1, Used
  <2> QED
    BY <2>1 DEF BaseInv, TurnsInOrder
<1>4. Starts(h, "worker", run, "none")
  <2>1. "none" \in Outs
    BY DEF Outs
  <2> QED
    BY <1>1, <1>2, <1>3, <2>1, NewLaunch
<1>5. /\ helper' \in [Helpers -> Helper]
      /\ helper'[h].at = "written" /\ helper'[h].driver = "none" /\ helper'[h].kind = "worker"
      /\ helper'[h].run = run /\ \A k \in Helpers \ {h} : helper'[k] = helper[k]
  BY <1>4 DEF Starts
<1>6. /\ session' \in Session /\ session'.status = "starting" /\ session'.token = h
      /\ session'.pid = "none"
      /\ review' \in Review /\ review'.status = "feedback_starting" /\ review'.token = h
      /\ review'.run = run /\ review'.verdict = review.verdict
      /\ review'.target = review.target
  BY <1>1, <1>3 DEF ClaimFeedback, BaseInv, TypeOK, Session, Review, Launched, Feedback, Pids
<1>7. sup' \in Supervisor /\ sup'.at = "launching" /\ sup'.launch = h
  BY <1>1, <1>3, EmptyTyped DEF Launching, Supervisor, Calls, Idle
<1>8. /\ \A k \in Helpers : (Used(k) => Used(k)') /\ (k # h => (Used(k)' <=> Used(k)))
      /\ Used(h)'
  BY <1>5 DEF Used
<1>9. \A k \in Posts : helper'[k] = helper[k] /\ (Carries(k)' <=> Carries(k))
  BY <1>3, <1>5 DEF Carries
<1>10. \A r : UsedRun(r)' <=> UsedRun(r)
  BY <1>9 DEF UsedRun
<1>11. UsedRun(run) /\ review.target \in Heads
  BY <1>2 DEF BaseInv, RowShapes
<1>12. TypeOK'
  <2>1. tasks' \subseteq Helpers
    BY <1>1, <1>3 DEF BaseInv, TypeOK
  <2> QED
    BY <1>2, <1>5, <1>6, <1>7, <2>1 DEF BaseInv, TypeOK, WorldTyped
<1>13. LaunchShapes'
  <2>1. TurnShape(h)'
    BY <1>2, <1>5, <1>8, <1>10, <1>11 DEF TurnShape, Early
  <2>2. ASSUME NEW k \in Turns \ {h} PROVE TurnShape(k)'
    <3>1. TurnShape(k) /\ helper'[k] = helper[k]
      BY <1>5 DEF BaseInv, LaunchShapes
    <3> QED
      BY <1>10, <3>1 DEF TurnShape, Used
  <2>3. ASSUME NEW k \in Posts PROVE PostShape(k)'
    BY <1>2, <1>9 DEF BaseInv, LaunchShapes, PostShape, Used
  <2> QED
    BY <2>1, <2>2, <2>3 DEF LaunchShapes
<1>14. TurnsInOrder'
  <2>1. ASSUME NEW k \in Turns, NEW l \in Turns, k < l, ~Used(k)' PROVE ~Used(l)'
    BY <1>3, <1>8, <2>1 DEF BaseInv, TurnsInOrder
  <2>2. \A k \in Turns : h < k => ~Used(k)'
    BY <1>3, <1>8
  <2> QED
    BY <1>3, <1>6, <1>8, <2>1, <2>2 DEF TurnsInOrder
<1>15. RowShapes' /\ CallShapes' /\ CommentOwned'
  <2>1. RowShapes'
    BY <1>2, <1>3, <1>5, <1>6, <1>10, <1>11 DEF RowShapes, Reviewing, Feedback
  <2>2. CallShapes'
    BY <1>3, <1>5, <1>6, <1>7 DEF CallShapes, At, Feedback
  <2>3. CommentOwned'
    BY <1>2, <1>9 DEF BaseInv, CommentOwned
  <2> QED
    BY <2>1, <2>2, <2>3
<1>16. OneVerdict'
  <2>1. OneVerdict
    BY DEF BaseInv
  <2>2. OneVoice'
    BY <1>2, <1>9, <2>1 DEF OneVerdict, OneVoice
  <2>3. DurableVerdict' /\ FirstVerdict' /\ PostedVerdict'
    BY <1>2, <1>6, <1>9, <2>1
    DEF OneVerdict, DurableVerdict, FirstVerdict, PostedVerdict, Feedback
  <2>4. Consistent'
    BY <1>2, <1>10, <2>1 DEF OneVerdict, Consistent
  <2> QED
    BY <2>2, <2>3, <2>4 DEF OneVerdict
<1>17. Deliveries'
  <2>1. prompted[run] <= faults /\ prompted[run] < h
    BY <1>2, <1>3 DEF BaseInv, Deliveries, UnclaimedCounts, FreshCounts, Feedback
  <2>2. DeliveredOnce' /\ FreshCounts'
    BY <1>2, <1>8, <1>10, CountsKeep
  <2>3. ClaimCounts' /\ UnclaimedCounts' /\ ClaimPending' /\ ClaimLasts'
    BY <1>2, <1>5, <1>6, <2>1
    DEF ClaimCounts, UnclaimedCounts, ClaimPending, ClaimLasts, Feedback
  <2> QED
    BY <2>2, <2>3 DEF Deliveries
<1> QED
  BY <1>12, <1>13, <1>14, <1>15, <1>16, <1>17 DEF BaseInv

\* A helper that leaves: nothing but its own launch changes.
LEMMA LeaveEffect ==
  ASSUME BaseInv, NEW h \in Helpers, helper' = [helper EXCEPT ![h] = Gone(h, "none")]
  PROVE  /\ helper' \in [Helpers -> Helper]
         /\ helper'[h].at = "gone" /\ helper'[h].driver = "none"
         /\ helper'[h].run = helper[h].run /\ helper'[h].kind = helper[h].kind
         /\ \A k \in Helpers \ {h} : helper'[k] = helper[k]
         /\ helper[h].at \notin {"unused", "written"} => \A k \in Helpers : Dies(k)
<1>1. helper \in [Helpers -> Helper]
  BY DEF BaseInv, TypeOK
<1>2. Gone(h, "none") \in Helper
  BY <1>1, GoneTyped DEF Drivers
<1>3. /\ Gone(h, "none").at = "gone" /\ Gone(h, "none").driver = "none"
      /\ Gone(h, "none").run = helper[h].run /\ Gone(h, "none").kind = helper[h].kind
  BY <1>1 DEF Gone, Helper
<1>4. \A k \in Helpers : helper'[k] = IF k = h THEN Gone(h, "none") ELSE helper[k]
  BY <1>1
<1>5. helper[h].at \notin {"unused", "written"} => \A k \in Helpers : Dies(k)
  BY <1>3, <1>4 DEF Dies
<1> QED
  BY <1>1, <1>2, <1>3, <1>4, <1>5

\* The launch raises: nothing of it has run.
LEMMA LaunchFailsKeeps ==
  ASSUME BaseInv, WorldTyped', LaunchFails
  PROVE  BaseInv'
<1> USE Tokens
<1> DEFINE h == sup.launch
<1> DEFINE run == helper[h].run
<1>1. /\ h \in Helpers /\ helper[h].at = "written" /\ Used(h)
      /\ helper' = [helper EXCEPT ![h] = Gone(h, "none")]
      /\ UNCHANGED <<said, prompted>> /\ sup' = [Idle EXCEPT !.at = "idle"]
      /\ tasks' \subseteq Helpers /\ faults' > faults /\ faults' \in Nat /\ faults \in Nat
  <2>1. faults \in Nat
    BY Counted
  <2> QED
    BY <2>1 DEF LaunchFails, Fault, Goto, history, BaseInv, CallShapes, TypeOK, Used
<1>2. /\ helper' \in [Helpers -> Helper]
      /\ helper'[h].at = "gone" /\ helper'[h].driver = "none"
      /\ helper'[h].run = run /\ helper'[h].kind = helper[h].kind
      /\ \A k \in Helpers \ {h} : helper'[k] = helper[k]
  BY <1>1, LeaveEffect
<1>3. sup' \in Supervisor /\ sup'.at = "idle"
  BY <1>1, EmptyTyped DEF Supervisor, Calls, Idle
<1>4. \/ /\ h \in Turns /\ session.token = h
         /\ session' \in Session /\ session'.status = "failed" /\ session'.token = session.token
         /\ \/ review' = review
            \/ /\ review.run = run /\ review.status \in Feedback /\ run # 0
               /\ review' \in Review /\ review'.status = "completed"
               /\ review'.run = review.run /\ review'.token = review.token
               /\ review'.target = review.target /\ review'.verdict = review.verdict
      \/ /\ h \in Posts /\ session' = session
         /\ review.run = run /\ review.token = h /\ review.status = "starting"
         /\ review' \in Review /\ review'.status = "failed"
         /\ review'.run = review.run /\ review'.token = review.token
         /\ review'.target = review.target /\ review'.verdict = review.verdict
  <2>1. /\ CallShapes /\ RowShapes /\ session \in Session /\ review \in Review
        /\ session.pid \in Pids /\ At("launching")
    BY DEF BaseInv, TypeOK, LaunchFails, Session
  <2>2. CASE h \in Turns
    <3>1. /\ PutSession("failed", session.pid)
          /\ PutReviewOfRun(run, "completed", review.verdict)
      BY <2>2 DEF LaunchFails
    <3>2. /\ session' \in Session /\ session'.status = "failed"
          /\ session'.token = session.token
      BY <2>1, <3>1, PutSessionTyped
    <3>3. session.token = h /\ (run = review.run => review.status \in Feedback \cup {"none"})
      BY <2>1, <2>2 DEF CallShapes
    <3>4. review' = review \/ (/\ review.run = run /\ review.status \in Feedback
                               /\ review' = [review EXCEPT !.status = "completed",
                                               !.verdict = review.verdict, !.young = FALSE])
      BY <3>1, <3>3 DEF PutReviewOfRun
    <3>5. review.status \in Feedback => review.run # 0
      BY <2>1 DEF RowShapes, Feedback
    <3> QED
      BY ZenonT(60), <2>1, <2>2, <3>2, <3>3, <3>4, <3>5 DEF Review
  <2>3. CASE h \in Posts
    <3>1. PutReviewOfRun(run, "failed", review.verdict) /\ session' = session
      BY <2>3 DEF LaunchFails
    <3>2. review.run = run /\ review.token = h /\ review.status = "starting"
      BY <2>1, <2>3 DEF CallShapes, RowShapes, Reviewing
    <3> QED
      BY <2>1, <2>3, <3>1, <3>2 DEF PutReviewOfRun, Review
  <2> QED
    BY <1>1, <2>2, <2>3
<1> HIDE DEF h, run
<1>5. \A k \in Helpers : /\ Used(k)' <=> Used(k)
                         /\ helper'[k].run = helper[k].run /\ helper'[k].kind = helper[k].kind
                         /\ Carries(k)' => Carries(k) /\ helper'[k] = helper[k]
  BY <1>1, <1>2 DEF Used, Carries, Early, run
<1>6. \A r : UsedRun(r)' <=> UsedRun(r)
  BY <1>5 DEF UsedRun
<1>7. TypeOK'
  BY <1>1, <1>2, <1>3, <1>4 DEF BaseInv, TypeOK, WorldTyped
<1>8. LaunchShapes'
  <2>1. ASSUME NEW k \in Turns PROVE TurnShape(k)'
    <3>1. TurnShape(k) /\ helper'[k].run = helper[k].run /\ (Used(k)' <=> Used(k))
      BY <1>5 DEF BaseInv, LaunchShapes
    <3>2. CASE k = h
      BY <1>1, <1>2, <1>6, <3>1, <3>2 DEF TurnShape, Early
    <3>3. CASE k # h
      BY <1>2, <1>6, <3>1, <3>3 DEF TurnShape
    <3> QED
      BY <3>2, <3>3
  <2>2. ASSUME NEW k \in Posts PROVE PostShape(k)'
    <3>1. /\ PostShape(k) /\ helper'[k].run = helper[k].run /\ helper'[k].kind = helper[k].kind
          /\ (Used(k)' <=> Used(k)) /\ (Carries(k)' => Carries(k) /\ helper'[k] = helper[k])
      BY <1>5 DEF BaseInv, LaunchShapes
    <3>2. CASE k = h
      BY <1>1, <1>2, <3>1, <3>2 DEF PostShape, Early
    <3>3. CASE k # h
      BY <1>1, <1>2, <3>1, <3>3 DEF PostShape
    <3> QED
      BY <3>2, <3>3
  <2> QED
    BY <2>1, <2>2 DEF LaunchShapes
<1>9. TurnsInOrder'
  BY <1>4, <1>5 DEF BaseInv, TurnsInOrder, TypeOK, Session
<1>10. RowShapes'
  BY <1>4, <1>5, <1>6 DEF BaseInv, RowShapes, Reviewing, Feedback
<1>11. CallShapes'
  BY <1>3 DEF CallShapes, At
<1>12. CommentOwned'
  BY <1>2, <1>4 DEF BaseInv, CommentOwned, Feedback
<1>13. OneVerdict'
  <2>1. OneVoice /\ DurableVerdict /\ FirstVerdict /\ PostedVerdict /\ Consistent
    BY DEF BaseInv, OneVerdict
  <2>2. \A k \in Posts : /\ helper'[k].run = helper[k].run /\ helper'[k].kind = helper[k].kind
                         /\ Carries(k)' => Carries(k) /\ helper'[k].out = helper[k].out
    BY <1>5
  <2>3. OneVoice' /\ Consistent'
    BY <1>1, <1>6, <2>1, <2>2 DEF OneVoice, Consistent
  <2>4. DurableVerdict'
    BY <1>1, <1>4, <2>1, <2>2 DEF DurableVerdict, Feedback
  <2>5. FirstVerdict' /\ PostedVerdict'
    <3>1. CASE review' = review
      <4>1. review.status \in Reviewing => review.token \in Posts /\ review.token # h
        BY <1>4, <3>1 DEF BaseInv, RowShapes
      <4> QED
        BY <1>1, <1>2, <2>1, <2>2, <3>1, <4>1 DEF FirstVerdict, PostedVerdict, Reviewing
    <3>2. CASE review'.status \in {"completed", "failed"}
      BY <1>1, <1>4, <2>1, <3>2 DEF FirstVerdict, PostedVerdict, Feedback
    <3> QED
      BY <1>4, <3>1, <3>2
  <2> QED
    BY <2>3, <2>4, <2>5 DEF OneVerdict
<1>14. Deliveries'
  <2>1. Deliveries
    BY DEF BaseInv
  <2>2. DeliveredOnce' /\ FreshCounts' /\ ClaimCounts'
    <3>1. \A k \in Turns : /\ Used(k) => Used(k)'
                           /\ helper'[k].at \in Early =>
                                helper[k].at \in Early /\ helper'[k].run = helper[k].run
                           /\ session'.token = session.token
      BY <1>2, <1>4, <1>5 DEF Early
    <3> QED
      BY <1>1, <1>6, <3>1, CountsKeep, ClaimCountsKeep
  <2>3. UnclaimedCounts'
    <3>1. h \in Turns /\ run # 0 /\ session.token = h => prompted[run] <= faults
      BY <1>1, <2>1 DEF Deliveries, ClaimCounts, Early, run
    <3>2. /\ review.status # "none" => prompted[review.run] \in Nat
          /\ review.status \notin Feedback \cup {"none"} => prompted[review.run] <= faults
      BY <2>1, Counted DEF Deliveries, UnclaimedCounts
    <3>3. review'.status \notin Feedback \cup {"none"} =>
            /\ prompted[review'.run] \in Nat /\ prompted[review'.run] <= faults
      BY <1>4, <3>1, <3>2 DEF Feedback
    <3>4. review'.status \notin Feedback \cup {"none"} => prompted[review'.run] <= faults'
      BY <1>1, <3>3
    <3> QED
      BY <1>1, <3>4 DEF UnclaimedCounts
  <2>4. ClaimPending' /\ ClaimLasts'
    <3>1. CASE h \in Turns
      BY <1>4, <3>1 DEF ClaimPending, ClaimLasts, OwnsTurn, Launched
    <3>2. CASE h \in Posts
      <4>1. \A k \in Turns : helper'[k] = helper[k]
        BY <1>2, <3>2
      <4> QED
        BY <1>4, <2>1, <3>2, <4>1 DEF Deliveries, ClaimPending, ClaimLasts, Feedback
    <3> QED
      BY <1>1, <3>1, <3>2
  <2> QED
    BY <2>2, <2>3, <2>4 DEF Deliveries
<1> QED
  BY <1>7, <1>8, <1>9, <1>10, <1>11, <1>12, <1>13, <1>14 DEF BaseInv

----------------------------------------------------------------------------
(* The helpers keep the base invariant.                                    *)

\* A helper that leaves without a word.
LEMMA LeavingKeeps ==
  ASSUME BaseInv, WorldTyped', NEW h \in Helpers, Leaves(h),
         helper[h].at \notin {"unused", "written"},
         h \in Turns => ~CanConfirmFeedback(h, helper[h].run) \/ helper[h].at # "prompted",
         UNCHANGED <<rows, sup, history, faults>>
  PROVE  BaseInv'
<1>1. helper' = [helper EXCEPT ![h] = Gone(h, "none")] /\ tasks' \subseteq Helpers
  BY DEF Leaves, BaseInv, TypeOK
<1>2. /\ helper' \in [Helpers -> Helper] /\ \A k \in Helpers : Dies(k)
      /\ \A k \in Helpers \ {h} : helper'[k] = helper[k]
  BY <1>1, LeaveEffect
<1>3. \A k \in Turns : helper[k].at = "prompted" /\ helper'[k].at = "gone" =>
        ~CanConfirmFeedback(k, helper[k].run)
  BY <1>2, Tokens
<1>4. At("remove") => session.status # "none"
  BY DEF BaseInv, CallShapes
<1>5. sup \in Supervisor /\ faults \in Nat
  BY Counted DEF BaseInv, TypeOK
<1> QED
  BY <1>1, <1>2, <1>3, <1>4, <1>5, DyingKeeps DEF rows, At

\* The driver starts, with the run's findings if the turn is for them.
LEMMA TurnStartsKeeps ==
  ASSUME BaseInv, WorldTyped', NEW h \in Turns, TurnStarts(h)
  PROVE  BaseInv'
<1> USE Tokens
<1> DEFINE run == helper[h].run
<1>1. /\ helper[h].at = "acquired" /\ Used(h) /\ TurnShape(h) /\ helper[h].driver = "none"
      /\ helper[h] \in Helper /\ run \in Runs \cup {0} /\ helper \in [Helpers -> Helper]
      /\ CallShapes /\ RowShapes /\ session \in Session /\ sup' = sup /\ review' = review
      /\ said' = said /\ faults' = faults /\ faults \in Nat
      /\ prompted \in [Runs -> 0 .. MaxTurns]
  BY Counted DEF TurnStarts, HelperFrame, BaseInv, TypeOK, LaunchShapes, TurnShape, Used, Early,
     Helper
<1>2. CASE ~CanPromoteSession(h)
  <2>1. Leaves(h) /\ UNCHANGED <<session, prompted>>
    BY <1>2 DEF TurnStarts
  <2> QED
    BY <1>1, <2>1, LeavingKeeps DEF rows, history
<1>3. CASE CanPromoteSession(h)
  <2>1. /\ session' = [session EXCEPT !.pid = "driver", !.young = TRUE]
        /\ helper' = [helper EXCEPT ![h].driver = "wrapped",
                        ![h].at = IF run = 0 THEN "working" ELSE "prompted"]
        /\ prompted' = IF run = 0 THEN prompted ELSE [prompted EXCEPT ![run] = @ + 1]
        /\ tasks' = tasks
        /\ session.status = "working" /\ session.token = h
    BY <1>3 DEF TurnStarts, CanPromoteSession
  <2>2. /\ session' \in Session /\ session'.status = "working" /\ session'.token = h
    BY <1>1, <2>1 DEF Session, Pids
  <2>3. /\ helper' \in [Helpers -> Helper]
        /\ helper'[h].driver = "wrapped"
        /\ helper'[h].at = IF run = 0 THEN "working" ELSE "prompted"
        /\ helper'[h].run = run
        /\ \A k \in Helpers \ {h} : helper'[k] = helper[k]
    BY <1>1, <2>1 DEF Helper, Positions, Drivers
  <2> HIDE DEF run
  <2>4. /\ \A k \in Helpers : helper'[k].run = helper[k].run /\ (Used(k)' <=> Used(k))
        /\ \A k \in Posts : helper'[k] = helper[k] /\ (Carries(k)' <=> Carries(k))
        /\ \A r : UsedRun(r)' <=> UsedRun(r)
    <3>1. \A k \in Helpers : helper'[k].run = helper[k].run /\ (Used(k)' <=> Used(k))
      BY <1>1, <2>3 DEF Used, run
    <3>2. \A k \in Posts : helper'[k] = helper[k] /\ (Carries(k)' <=> Carries(k))
      BY <2>3 DEF Carries
    <3>3. \A r : UsedRun(r)' <=> UsedRun(r)
      BY <3>2 DEF UsedRun
    <3> QED
      BY <3>1, <3>2, <3>3
  <2>5. run # 0 => /\ run \in Runs /\ UsedRun(run)
                   /\ prompted[run] <= faults /\ prompted[run] < h
                   /\ prompted[run] \in Nat /\ h \in Nat /\ h <= MaxTurns
    <3>1. run # 0 => prompted[run] <= faults /\ prompted[run] < h
      BY <1>1, <2>1 DEF BaseInv, Deliveries, ClaimCounts, Early, run
    <3>2. run # 0 => run \in Runs /\ UsedRun(run)
      BY <1>1 DEF TurnShape, run
    <3>3. h \in Nat /\ h <= MaxTurns
      BY RunnerBounds DEF Turns
    <3>4. \A r \in Runs : prompted[r] \in Nat
      BY Counted
    <3> QED
      BY <3>1, <3>2, <3>3, <3>4
  <2>6. \A r \in Runs : prompted'[r] = IF r = run THEN prompted[r] + 1 ELSE prompted[r]
    BY <1>1, <2>1, <2>5 DEF run
  <2>7. prompted' \in [Runs -> 0 .. MaxTurns]
    <3>1. run # 0 => prompted[run] + 1 \in 0 .. MaxTurns
      BY <2>5, RunnerBounds
    <3> QED
      BY <1>1, <2>1, <3>1 DEF run
  <2>8. TypeOK'
    BY <1>1, <2>1, <2>2, <2>3, <2>7 DEF BaseInv, TypeOK, WorldTyped
  <2>9. LaunchShapes'
    <3>1. TurnShape(h)'
      <4>1. run # 0 => run \in Runs /\ \E k \in Posts : helper'[k].run = run
        BY <2>4, <2>5 DEF UsedRun
      <4> QED
        BY <2>3, <4>1 DEF TurnShape, Used, UsedRun, Early
    <3>2. ASSUME NEW k \in Turns \ {h} PROVE TurnShape(k)'
      <4>1. TurnShape(k) /\ helper'[k] = helper[k]
        BY <2>3 DEF BaseInv, LaunchShapes
      <4> QED
        BY <2>4, <4>1 DEF TurnShape, Used
    <3>3. ASSUME NEW k \in Posts PROVE PostShape(k)'
      <4>1. PostShape(k) /\ helper'[k] = helper[k] /\ (Carries(k)' <=> Carries(k))
        BY <2>4 DEF BaseInv, LaunchShapes
      <4> QED
        BY <1>1, <4>1 DEF PostShape, Used
    <3> QED
      BY <3>1, <3>2, <3>3 DEF LaunchShapes
  <2>10. TurnsInOrder'
    BY <2>1, <2>2, <2>4 DEF BaseInv, TurnsInOrder
  <2>11. RowShapes' /\ CommentOwned'
    <3>1. CommentOwned'
      BY <1>1, <2>4 DEF BaseInv, CommentOwned
    <3> QED
      BY <1>1, <2>1, <2>2, <2>4, <3>1 DEF RowShapes, Reviewing, Feedback
  <2>12. CallShapes'
    <3>1. ~(At("launching") /\ sup.launch \in Turns)
      BY <1>1, <2>1 DEF CallShapes
    <3>2. At("launching") => sup.launch # h /\ helper'[sup.launch] = helper[sup.launch]
      BY <1>1, <2>3 DEF CallShapes
    <3> QED
      BY <1>1, <2>1, <2>2, <2>4, <3>1, <3>2 DEF CallShapes, At, Launched
  <2>13. OneVerdict'
    <3>1. OneVerdict /\ (review.status \in Reviewing => review.token \in Posts)
      BY DEF BaseInv, RowShapes
    <3>4. OneVoice'
      BY <1>1, <2>4, <3>1 DEF OneVerdict, OneVoice
    <3>5. DurableVerdict'
      BY <1>1, <2>4, <3>1 DEF OneVerdict, DurableVerdict
    <3>2. OneVoice' /\ DurableVerdict' /\ Consistent'
      BY <1>1, <2>4, <3>1, <3>4, <3>5 DEF OneVerdict, Consistent
    <3>3. FirstVerdict' /\ PostedVerdict'
      BY <1>1, <2>4, <3>1 DEF OneVerdict, FirstVerdict, PostedVerdict, Reviewing
    <3> QED
      BY <3>2, <3>3 DEF OneVerdict
  <2>14. Deliveries'
    <3>1. Deliveries
      BY DEF BaseInv
    <3>2. DeliveredOnce'
      <4>1. ASSUME NEW r \in Runs PROVE prompted'[r] <= 1 + faults
        <5>1. prompted[r] <= 1 + faults /\ prompted[r] \in Nat
          BY <3>1, Counted DEF Deliveries, DeliveredOnce
        <5> QED
          BY <1>1, <2>5, <2>6, <5>1
      <4> QED
        BY <1>1, <4>1 DEF DeliveredOnce
    <3>3. FreshCounts'
      <4>1. ASSUME NEW r \in Runs, ~UsedRun(r) PROVE prompted'[r] = 0
        BY <2>5, <2>6, <3>1, <4>1 DEF Deliveries, FreshCounts
      <4>2. ASSUME NEW r \in Runs, NEW k \in Turns, ~Used(k) PROVE prompted'[r] < k
        <5>1. prompted[r] < k /\ prompted[r] \in Nat /\ k \in Nat /\ h \in Nat
          BY <3>1, <4>2, Counted DEF Deliveries, FreshCounts
        <5>2. h < k
          <6>1. k # h /\ ~(k < h)
            BY <1>1, <4>2 DEF BaseInv, TurnsInOrder
          <6> QED
            BY <5>1, <6>1
        <5>3. r = run => prompted[r] < h
          BY <2>5
        <5> QED
          BY <2>6, <5>1, <5>2, <5>3
      <4> QED
        BY <2>4, <4>1, <4>2 DEF FreshCounts
    <3>4. ClaimCounts'
      BY <2>2, <2>3 DEF ClaimCounts, Early
    <3>5. UnclaimedCounts'
      <4>1. ASSUME review.status \notin Feedback \cup {"none"}
            PROVE  prompted'[review.run] <= faults
        <5>1. prompted[review.run] <= faults /\ review.run \in Runs
          BY <3>1, <4>1, Counted DEF Deliveries, UnclaimedCounts
        <5>2. review.run # run
          BY <2>1, <3>1, <4>1, <5>1 DEF Deliveries, ClaimLasts, Launched, run
        <5> QED
          BY <2>6, <5>1, <5>2
      <4> QED
        BY <1>1, <4>1 DEF UnclaimedCounts
    <3>6. ClaimPending'
      <4>1. ASSUME review.status = "feedback_starting", review.token = h
            PROVE  helper'[h].at = "prompted"
        <5>1. run = review.run /\ run # 0
          BY <1>1, <4>1, Counted DEF RowShapes, Feedback, run
        <5> QED
          BY <2>3, <5>1
      <4> QED
        BY <1>1, <2>2, <4>1 DEF ClaimPending, OwnsTurn
    <3>7. ClaimLasts'
      BY <1>1, <2>1, <2>2, <2>4, <3>1 DEF Deliveries, ClaimLasts, Launched
    <3> QED
      BY <3>2, <3>3, <3>4, <3>5, <3>6, <3>7 DEF Deliveries
  <2> QED
    BY <2>8, <2>9, <2>10, <2>11, <2>12, <2>13, <2>14 DEF BaseInv
<1> QED
  BY <1>2, <1>3

\* The claim is confirmed, or it is gone and the driver is stopped.
LEMMA TurnConfirmsKeeps ==
  ASSUME BaseInv, WorldTyped', NEW h \in Turns, TurnConfirms(h)
  PROVE  BaseInv'
<1> USE Tokens
<1> DEFINE run == helper[h].run
<1>1. /\ helper[h].at = "prompted" /\ TurnShape(h)
      /\ helper[h] \in Helper /\ run \in Runs /\ helper \in [Helpers -> Helper]
      /\ CallShapes /\ RowShapes /\ review \in Review /\ sup' = sup /\ session' = session
      /\ said' = said /\ prompted' = prompted /\ faults' = faults /\ faults \in Nat
  BY Counted DEF TurnConfirms, HelperFrame, history, BaseInv, TypeOK, LaunchShapes, TurnShape
<1>2. CASE ~CanConfirmFeedback(h, run)
  <2>1. Leaves(h) /\ UNCHANGED review
    BY <1>2 DEF TurnConfirms
  <2> QED
    BY <1>1, <1>2, <2>1, LeavingKeeps DEF rows, history
<1>3. CASE CanConfirmFeedback(h, run)
  <2>1. /\ review' = [review EXCEPT !.status = "feedback_sent", !.young = FALSE]
        /\ helper' = [helper EXCEPT ![h].at = "working"] /\ tasks' = tasks
        /\ review.status \in Feedback /\ review.token = h
    BY <1>3 DEF TurnConfirms, Move, CanConfirmFeedback
  <2>2. /\ review' \in Review /\ review'.status = "feedback_sent" /\ review'.token = h
        /\ review'.run = review.run /\ review'.verdict = review.verdict
        /\ review'.target = review.target
    BY <1>1, <2>1 DEF Review, Feedback
  <2>3. /\ helper' \in [Helpers -> Helper]
        /\ helper'[h].at = "working" /\ helper'[h].run = run
        /\ helper'[h].driver = helper[h].driver
        /\ \A k \in Helpers \ {h} : helper'[k] = helper[k]
    BY <1>1, <2>1 DEF Helper, Positions
  <2> HIDE DEF run
  <2>4. /\ \A k \in Helpers : helper'[k].run = helper[k].run /\ (Used(k)' <=> Used(k))
        /\ \A k \in Posts : helper'[k] = helper[k] /\ (Carries(k)' <=> Carries(k))
        /\ \A r : UsedRun(r)' <=> UsedRun(r)
    <3>1. \A k \in Helpers : helper'[k].run = helper[k].run /\ (Used(k)' <=> Used(k))
      BY <1>1, <2>3 DEF Used, run
    <3>2. \A k \in Posts : helper'[k] = helper[k] /\ (Carries(k)' <=> Carries(k))
      BY <2>3 DEF Carries
    <3>3. \A r : UsedRun(r)' <=> UsedRun(r)
      BY <3>2 DEF UsedRun
    <3> QED
      BY <3>1, <3>2, <3>3
  <2>5. TypeOK'
    BY <1>1, <2>1, <2>2, <2>3 DEF BaseInv, TypeOK, WorldTyped
  <2>6. LaunchShapes'
    <3>1. ASSUME NEW k \in Turns PROVE TurnShape(k)'
      <4>1. TurnShape(k)
        BY DEF BaseInv, LaunchShapes
      <4>2. CASE k = h
        BY <1>1, <2>3, <2>4, <4>1, <4>2 DEF TurnShape, Used, Early
      <4>3. CASE k # h
        BY <2>3, <2>4, <4>1, <4>3 DEF TurnShape
      <4> QED
        BY <4>2, <4>3
    <3>2. ASSUME NEW k \in Posts PROVE PostShape(k)'
      <4>1. PostShape(k) /\ helper'[k] = helper[k] /\ (Carries(k)' <=> Carries(k))
        BY <2>4 DEF BaseInv, LaunchShapes
      <4> QED
        BY <1>1, <4>1 DEF PostShape, Used
    <3> QED
      BY <3>1, <3>2 DEF LaunchShapes
  <2>7. TurnsInOrder'
    BY <1>1, <2>4 DEF BaseInv, TurnsInOrder, TypeOK, Session
  <2>8. RowShapes' /\ CommentOwned'
    <3>1. CommentOwned'
      BY <2>1, <2>4 DEF BaseInv, CommentOwned, Feedback
    <3> QED
      BY <1>1, <2>1, <2>2, <2>4, <3>1 DEF RowShapes, Reviewing, Feedback
  <2>9. CallShapes'
    <3>1. At("launching") => sup.launch # h /\ helper'[sup.launch] = helper[sup.launch]
      BY <1>1, <2>3 DEF CallShapes
    <3> QED
      BY <1>1, <2>1, <2>2, <2>4, <3>1 DEF CallShapes, At, Feedback, Reviewing
  <2>10. OneVerdict'
    <3>1. OneVerdict
      BY DEF BaseInv
    <3>2. OneVoice' /\ DurableVerdict' /\ Consistent'
      BY <1>1, <2>1, <2>2, <2>4, <3>1 DEF OneVerdict, OneVoice, DurableVerdict, Consistent, Feedback
    <3>3. FirstVerdict' /\ PostedVerdict'
      BY <1>1, <2>1, <2>2, <3>1 DEF OneVerdict, FirstVerdict, PostedVerdict, Feedback
    <3> QED
      BY <3>2, <3>3 DEF OneVerdict
  <2>11. Deliveries'
    <3>1. Deliveries
      BY DEF BaseInv
    <3>2. DeliveredOnce' /\ FreshCounts' /\ ClaimCounts'
      <4>1. \A k \in Turns : /\ Used(k) => Used(k)'
                             /\ helper'[k].at \in Early =>
                                  helper[k].at \in Early /\ helper'[k].run = helper[k].run
        BY <2>3, <2>4 DEF Early
      <4> QED
        BY <1>1, <2>4, <4>1, CountsKeep, ClaimCountsKeep
    <3>3. UnclaimedCounts' /\ ClaimPending'
      BY <2>2 DEF UnclaimedCounts, ClaimPending, Feedback
    <3>4. ClaimLasts'
      BY <1>1, <2>1, <2>2, <2>4, <3>1 DEF Deliveries, ClaimLasts, Feedback
    <3> QED
      BY <3>2, <3>3, <3>4 DEF Deliveries
  <2> QED
    BY <2>5, <2>6, <2>7, <2>8, <2>9, <2>10, <2>11 DEF BaseInv
<1> QED
  BY <1>2, <1>3

\* A turn ends: its helper writes how, while the turn is its own, and leaves.
LEMMA TurnEndsKeeps ==
  ASSUME BaseInv, WorldTyped', NEW h \in Turns, Leaves(h),
         helper[h].at \notin {"unused", "written"},
         \/ session' = session /\ ~OwnsTurn(h)
         \/ /\ OwnsTurn(h) /\ session' \in Session /\ session'.token = h
            /\ session'.status \in {"finished", "failed"},
         UNCHANGED <<review, sup, history>>, faults' >= faults
  PROVE  BaseInv'
<1> USE Tokens
<1>1. /\ helper' = [helper EXCEPT ![h] = Gone(h, "none")] /\ tasks' \subseteq Helpers
      /\ UNCHANGED <<said, prompted>> /\ CallShapes /\ sup \in Supervisor
      /\ session'.token = session.token /\ session' \in Session
  BY DEF Leaves, history, BaseInv, TypeOK, OwnsTurn
<1>2. /\ helper' \in [Helpers -> Helper] /\ \A k \in Helpers : Dies(k)
      /\ helper'[h].at = "gone"
      /\ \A k \in Helpers \ {h} : helper'[k] = helper[k]
  BY <1>1, LeaveEffect
<1>3. /\ LaunchShapes'
      /\ \A k \in Helpers : Used(k)' <=> Used(k)
      /\ \A run : UsedRun(run)' <=> UsedRun(run)
  BY <1>1, <1>2, DyingShapes
<1>4. /\ \A k \in Helpers : helper'[k].run = helper[k].run
      /\ \A k \in Posts : helper'[k] = helper[k] /\ (Carries(k)' <=> Carries(k))
  BY <1>2 DEF Dies, Carries
<1>5. TypeOK'
  BY <1>1, <1>2 DEF BaseInv, TypeOK, WorldTyped
<1>6. TurnsInOrder'
  BY <1>1, <1>3 DEF BaseInv, TurnsInOrder, TypeOK, Session
<1>7. RowShapes' /\ CommentOwned'
  <2>1. session.status = "none" <=> session'.status = "none"
    BY DEF OwnsTurn, Launched
  <2>2. RowShapes /\ CommentOwned
    BY DEF BaseInv
  <2>3. RowShapes'
    BY <1>1, <1>3, <1>4, <2>1, <2>2 DEF RowShapes, Feedback, Reviewing
  <2>4. CommentOwned'
    BY <1>4, <2>2 DEF CommentOwned
  <2> QED
    BY <2>3, <2>4
<1>8. CallShapes'
  <2>1. At("launching") => sup.launch # h /\ helper'[sup.launch] = helper[sup.launch]
    BY <1>1, <1>2 DEF CallShapes
  <2>2. CASE session' = session
    BY ZenonT(60), <1>1, <1>3, <2>1, <2>2 DEF CallShapes, At
  <2>3. CASE OwnsTurn(h) /\ session'.status \in {"finished", "failed"}
    <3>1. ~(At("launching") /\ sup.launch \in Turns)
      BY <1>1, <2>1, <2>3 DEF CallShapes, OwnsTurn
    <3> QED
      BY ZenonT(60), <1>1, <1>3, <2>1, <2>3, <3>1 DEF CallShapes, At, OwnsTurn, Launched
  <2> QED
    BY <2>2, <2>3
<1>9. OneVerdict'
  <2>1. OneVerdict /\ (review.status \in Reviewing => review.token \in Posts)
    BY DEF BaseInv, RowShapes
  <2>2. OneVoice' /\ DurableVerdict' /\ Consistent'
    BY <1>1, <1>3, <1>4, <2>1 DEF OneVerdict, OneVoice, DurableVerdict, Consistent
  <2>3. FirstVerdict' /\ PostedVerdict'
    BY <1>1, <1>4, <2>1 DEF OneVerdict, FirstVerdict, PostedVerdict, Reviewing
  <2> QED
    BY <2>2, <2>3 DEF OneVerdict
<1>10. Deliveries'
  <2>1. Deliveries /\ faults' \in Nat
    BY RunnerWorld DEF BaseInv, WorldTyped
  <2>2. DeliveredOnce' /\ FreshCounts' /\ ClaimCounts'
    <3>1. \A k \in Turns : /\ Used(k) => Used(k)'
                           /\ helper'[k].at \in Early =>
                                helper[k].at \in Early /\ helper'[k].run = helper[k].run
      BY <1>2, <1>3, <1>4 DEF Early
    <3> QED
      BY <1>1, <1>3, <3>1, CountsKeep, ClaimCountsKeep
  <2>3. UnclaimedCounts'
    <3>1. ASSUME review.status \notin Feedback \cup {"none"} PROVE prompted[review.run] <= faults'
      <4>1. prompted[review.run] <= faults /\ prompted[review.run] \in Nat /\ faults \in Nat
        BY <2>1, <3>1, Counted DEF Deliveries, UnclaimedCounts
      <4> QED
        BY <2>1, <4>1
    <3> QED
      BY <1>1, <3>1 DEF UnclaimedCounts
  <2>4. ClaimPending'
    <3>1. ASSUME review.status = "feedback_starting", OwnsTurn(review.token)', ~At("remove")
          PROVE  prompted[review.run] <= faults' \/ helper'[review.token].at = "prompted"
      <4>1. session' = session /\ review.token # h /\ review.token \in Turns
        BY <3>1 DEF OwnsTurn, Launched, BaseInv, RowShapes, Feedback
      <4>2. prompted[review.run] <= faults \/ helper'[review.token].at = "prompted"
        BY <1>2, <2>1, <3>1, <4>1 DEF Deliveries, ClaimPending, OwnsTurn
      <4>3. prompted[review.run] \in Nat /\ faults \in Nat
        BY <3>1, Counted
      <4> QED
        BY <2>1, <4>2, <4>3
    <3> QED
      BY <1>1, <3>1 DEF ClaimPending, OwnsTurn, At
  <2>5. ClaimLasts'
    BY <1>1, <1>4, <2>1 DEF Deliveries, ClaimLasts, Launched
  <2> QED
    BY <2>2, <2>3, <2>4, <2>5 DEF Deliveries
<1> QED
  BY <1>3, <1>5, <1>6, <1>7, <1>8, <1>9, <1>10 DEF BaseInv

\* A helper records how its turn ended, or gives up on an exception.
LEMMA TurnRecordsKeeps ==
  ASSUME BaseInv, WorldTyped', NEW h \in Turns, TurnRecords(h) \/ TurnRaises(h)
  PROVE  BaseInv'
<1> USE Tokens
<1>1. /\ helper[h].at \in {"acquired", "prompted", "working"} /\ Leaves(h)
      /\ UNCHANGED <<sup, history>> /\ session \in Session /\ faults \in Nat
      /\ sup \in Supervisor /\ CallShapes
  BY Counted DEF TurnRecords, TurnRaises, HelperFrame, BaseInv, TypeOK
<1>2. CASE TurnRecords(h)
  <2>1. /\ review' = review /\ faults' = faults
        /\ \E named \in BOOLEAN :
             session' = IF ~OwnsTurn(h) THEN session
                        ELSE IF helper[h].out = "ok"
                          THEN [session EXCEPT !.status = "finished", !.pid = "none",
                                               !.resumable = @ \/ named, !.young = TRUE]
                          ELSE [session EXCEPT !.status = "failed", !.young = FALSE]
    BY <1>2 DEF TurnRecords, HelperFrame
  <2>2. \/ session' = session /\ ~OwnsTurn(h)
        \/ /\ OwnsTurn(h) /\ session' \in Session /\ session'.token = h
           /\ session'.status \in {"finished", "failed"}
    <3>1. CASE ~OwnsTurn(h)
      BY <2>1, <3>1
    <3>2. CASE OwnsTurn(h)
      <4>1. session.token = h /\ session \in Session
        BY <1>1, <3>2 DEF OwnsTurn
      <4>2. CASE helper[h].out = "ok"
        <5>1. PICK named \in BOOLEAN :
                session' = [session EXCEPT !.status = "finished", !.pid = "none",
                                           !.resumable = @ \/ named, !.young = TRUE]
          BY <2>1, <3>2, <4>2
        <5>2. (session.resumable \/ named) \in BOOLEAN
          BY <4>1, <5>1 DEF Session
        <5> QED
          BY <3>2, <4>1, <5>1, <5>2 DEF Session, Pids
      <4>3. CASE helper[h].out # "ok"
        <5>1. session' = [session EXCEPT !.status = "failed", !.young = FALSE]
          BY <2>1, <3>2, <4>3
        <5> QED
          BY <3>2, <4>1, <5>1 DEF Session, Pids
      <4> QED
        BY <4>2, <4>3
    <3> QED
      BY <3>1, <3>2
  <2> QED
    BY <1>1, <2>1, <2>2, TurnEndsKeeps
<1>3. CASE TurnRaises(h)
  <2> DEFINE run == helper[h].run
  <2>1. faults' > faults /\ faults' >= faults
    BY <1>1, <1>3 DEF TurnRaises, Fault
  <2>2. CASE run # 0 /\ helper[h].at # "working" /\ CanRecover(h, run)
    <3>1. RecoverFeedback /\ CanRecover(h, review.run)
      BY <1>3, <2>2 DEF TurnRaises, CanRecover
    <3>2. /\ helper' = [helper EXCEPT ![h] = Gone(h, "none")] /\ tasks' \subseteq Helpers
      BY <1>1 DEF Leaves, BaseInv, TypeOK
    <3>3. /\ helper' \in [Helpers -> Helper] /\ \A k \in Helpers : Dies(k)
          /\ \A k \in Helpers \ {h} : helper'[k] = helper[k]
      BY <1>1, <3>2, LeaveEffect
    <3>4. /\ review'.status = "completed" /\ session'.status = "finished"
          /\ session'.token = NoToken
      BY <3>1, RecoverTyped DEF BaseInv, TypeOK
    <3>5. /\ review.status = "feedback_starting" /\ review.token = h /\ session.token = h
          /\ session.status \in Launched
      BY <3>1 DEF CanRecover, OwnsTurn
    <3>6. CallShapes'
      <4>1. ~At("launching")
        BY <1>1, <3>5 DEF CallShapes
      <4>2. \A k \in Helpers : Used(k) => Used(k)'
        BY <3>3 DEF Used, Dies
      <4> QED
        BY <1>1, <3>4, <3>5, <4>1, <4>2 DEF CallShapes, At, Reviewing, Feedback, Launched
    <3> QED
      BY <1>1, <2>1, <3>1, <3>2, <3>3, <3>6, RecoverKeeps
  <2>3. CASE ~(run # 0 /\ helper[h].at # "working" /\ CanRecover(h, run))
    <3>1. /\ review' = review
          /\ session' = IF OwnsTurn(h)
                          THEN [session EXCEPT !.status = "failed", !.pid = "none",
                                               !.young = FALSE]
                          ELSE session
      BY <1>3, <2>3 DEF TurnRaises
    <3>2. \/ session' = session /\ ~OwnsTurn(h)
          \/ /\ OwnsTurn(h) /\ session' \in Session /\ session'.token = h
             /\ session'.status \in {"finished", "failed"}
      BY <1>1, <3>1 DEF OwnsTurn, Session, Pids
    <3> QED
      BY <1>1, <2>1, <3>1, <3>2, TurnEndsKeeps
  <2> QED
    BY <2>2, <2>3
<1> QED
  BY <1>2, <1>3

\* Steps of one launch that leave its place among the others: the rows keep their runs,
\* tokens and statuses, and no verdict is in play.
LEMMA WorkingKeeps ==
  ASSUME BaseInv, WorldTyped', NEW h \in Helpers, helper' \in [Helpers -> Helper],
         \A k \in Helpers \ {h} : helper'[k] = helper[k],
         helper[h].at \notin {"unused", "written", "posting", "commenting"},
         helper'[h].at \notin Early \cup {"unused", "posting", "commenting"},
         helper[h].at \in {"prompted", "gone"} => helper'[h].at = helper[h].at,
         helper'[h].run = helper[h].run, helper'[h].kind = helper[h].kind,
         helper'[h].driver # "comment", h \in Turns => TurnShape(h)', h \in Posts => PostShape(h)',
         review' \in Review, review'.status = review.status, review'.verdict = review.verdict,
         review'.run = review.run, review'.token = review.token,
         review'.target = review.target, review'.pid = review.pid \/ helper[h].at = "acquired",
         review' = review \/ review.token = h,
         UNCHANGED <<session, sup, tasks, history, faults>>
  PROVE  BaseInv'
<1> USE Tokens
<1>1. /\ UNCHANGED <<said, prompted>> /\ CallShapes /\ faults \in Nat
  BY Counted DEF history, BaseInv
<1>2. /\ \A k \in Helpers : /\ Used(k)' <=> Used(k)
                            /\ helper'[k].run = helper[k].run /\ helper'[k].kind = helper[k].kind
                            /\ Carries(k)' => Carries(k) /\ helper'[k] = helper[k]
                            /\ helper'[k].at \in Early => helper[k].at \in Early
      /\ \A r : UsedRun(r)' <=> UsedRun(r)
  <2>1. \A k \in Helpers : /\ Used(k)' <=> Used(k)
                           /\ helper'[k].run = helper[k].run /\ helper'[k].kind = helper[k].kind
                           /\ Carries(k)' => Carries(k) /\ helper'[k] = helper[k]
                           /\ helper'[k].at \in Early => helper[k].at \in Early
    BY DEF Used, Carries, Early
  <2> QED
    BY <2>1 DEF UsedRun
<1>3. TypeOK'
  BY <1>1 DEF BaseInv, TypeOK, WorldTyped
<1>4. LaunchShapes'
  <2>1. ASSUME NEW k \in Turns \ {h} PROVE TurnShape(k)'
    <3>1. TurnShape(k) /\ helper'[k] = helper[k]
      BY DEF BaseInv, LaunchShapes
    <3> QED
      BY <1>2, <3>1 DEF TurnShape, Used
  <2>2. ASSUME NEW k \in Posts \ {h} PROVE PostShape(k)'
    <3>1. PostShape(k) /\ helper'[k] = helper[k]
      BY DEF BaseInv, LaunchShapes
    <3> QED
      BY <1>1, <3>1 DEF PostShape, Used, Carries
  <2> QED
    BY <2>1, <2>2 DEF LaunchShapes
<1>5. TurnsInOrder'
  BY <1>2 DEF BaseInv, TurnsInOrder, TypeOK, Session
<1>6. RowShapes' /\ CommentOwned'
  <2>1. RowShapes'
    BY <1>2 DEF BaseInv, RowShapes, Reviewing, Feedback
  <2> QED
    BY <2>1 DEF BaseInv, CommentOwned
<1>7. CallShapes'
  <2>1. At("launching") => sup.launch # h /\ helper'[sup.launch] = helper[sup.launch]
    BY <1>1 DEF CallShapes
  <2>2. At("launching") /\ sup.launch \in Posts => review' = review
    BY <1>1, <2>1 DEF CallShapes
  <2>3. CASE review' = review
    BY <1>1, <1>2, <2>1, <2>3 DEF CallShapes, At
  <2>4. CASE review' # review
    <3>1. ~(At("launching") /\ sup.launch \in Posts)
      BY <2>2, <2>4
    <3> QED
      BY ZenonT(60), <1>1, <1>2, <2>1, <3>1 DEF CallShapes, At
  <2> QED
    BY <2>3, <2>4
<1>8. OneVerdict'
  <2>1. OneVerdict /\ (review.status \in Reviewing => review.token \in Posts)
    BY DEF BaseInv, RowShapes
  <2>2. \A k \in Posts : /\ helper'[k].run = helper[k].run /\ helper'[k].kind = helper[k].kind
                         /\ Carries(k)' => Carries(k) /\ helper'[k].out = helper[k].out
    BY <1>2
  <2>3. OneVoice'
    BY <1>1, <2>1, <2>2 DEF OneVerdict, OneVoice
  <2>4. DurableVerdict' /\ Consistent'
    BY <1>1, <1>2, <2>1, <2>2 DEF OneVerdict, DurableVerdict, Consistent
  <2>5. FirstVerdict'
    BY <1>1, <2>1, <2>2 DEF OneVerdict, FirstVerdict, Reviewing
  <2>6. PostedVerdict'
    <3>1. PostedVerdict /\ (review.status = "posting" => review.token \in Posts)
      BY <2>1 DEF OneVerdict, Reviewing
    <3>2. review.status = "posting" => helper'[review.token].at = helper[review.token].at
      BY <3>1 DEF PostedVerdict
    <3> QED
      BY <1>1, <3>1, <3>2 DEF PostedVerdict, Feedback
  <2> QED
    BY <2>3, <2>4, <2>5, <2>6 DEF OneVerdict
<1>9. Deliveries'
  <2>1. Deliveries
    BY DEF BaseInv
  <2>2. DeliveredOnce' /\ FreshCounts' /\ ClaimCounts'
    BY <1>1, <1>2, CountsKeep, ClaimCountsKeep
  <2>3. UnclaimedCounts'
    BY <1>1, <2>1 DEF Deliveries, UnclaimedCounts
  <2>4. ClaimPending'
    <3>1. review.status \in Feedback => review.token \in Turns
      BY DEF BaseInv, RowShapes
    <3>2. review.status = "feedback_starting" /\ helper[review.token].at = "prompted" =>
            helper'[review.token].at = "prompted"
      BY <3>1 DEF Feedback
    <3> QED
      BY <1>1, <2>1, <3>2 DEF Deliveries, ClaimPending, OwnsTurn, At
  <2>5. ClaimLasts'
    BY <1>1, <1>2, <2>1 DEF Deliveries, ClaimLasts
  <2> QED
    BY <2>2, <2>3, <2>4, <2>5 DEF Deliveries
<1> QED
  BY <1>3, <1>4, <1>5, <1>6, <1>7, <1>8, <1>9 DEF BaseInv

\* The driver ends; its output is its helper's, if that is still there.
LEMMA DriverEndsKeeps ==
  ASSUME BaseInv, WorldTyped', NEW h \in Helpers, DriverEnds(h)
  PROVE  BaseInv'
<1> USE Tokens
<1>1. /\ helper \in [Helpers -> Helper] /\ review \in Review
      /\ UNCHANGED <<rows, sup, tasks, history, faults>>
  BY DEF DriverEnds, HelperFrame, BaseInv, TypeOK
<1>2. /\ helper[h].driver \in {"wrapped", "orphan"}
      /\ \E out \in {"ok", "error", "garbage"} \cup Decided :
           helper' = [helper EXCEPT ![h].driver = "none",
                                    ![h].out = IF Alive(h) THEN out ELSE "none"]
  BY DEF DriverEnds
<1>3. /\ helper' \in [Helpers -> Helper]
      /\ helper'[h].at = helper[h].at /\ helper'[h].driver = "none"
      /\ helper'[h].run = helper[h].run /\ helper'[h].kind = helper[h].kind
      /\ \A k \in Helpers \ {h} : helper'[k] = helper[k]
  BY <1>1, <1>2 DEF Helper, Drivers, Outs, Decided
<1>4. helper[h].at \in {"prompted", "working", "gone"}
  BY <1>2 DEF BaseInv, LaunchShapes, TurnShape, PostShape
<1>5. \A r : UsedRun(r)' <=> UsedRun(r)
  BY <1>3 DEF UsedRun
<1>6. h \in Turns => TurnShape(h)'
  <2>1. h \in Turns => TurnShape(h)
    BY DEF BaseInv, LaunchShapes
  <2> QED
    BY <1>3, <1>4, <1>5, <2>1 DEF TurnShape, Used, Early
<1>7. h \in Posts => PostShape(h)'
  <2>1. h \in Posts => PostShape(h)
    BY DEF BaseInv, LaunchShapes
  <2> QED
    BY <1>3, <1>4, <2>1 DEF PostShape, Used, Carries, Early
<1> QED
  BY <1>1, <1>3, <1>4, <1>6, <1>7, WorkingKeeps DEF rows, Early

\* The reviewer starts on the head that its run is about.
LEMMA ReviewStartsKeeps ==
  ASSUME BaseInv, WorldTyped', NEW h \in Posts, ReviewStarts(h)
  PROVE  BaseInv'
<1> USE Tokens
<1>1. /\ helper \in [Helpers -> Helper] /\ review \in Review /\ faults \in Nat
      /\ helper[h].at = "acquired" /\ helper[h].kind = "review" /\ PostShape(h)
      /\ UNCHANGED <<session, sup, history, faults>>
  BY Counted DEF ReviewStarts, HelperFrame, BaseInv, TypeOK, LaunchShapes
<1>2. CASE ~CheckoutVerified(h)
  <2>1. Raises(h)
    BY <1>2 DEF ReviewStarts
  <2> QED
    BY <1>1, <2>1, RaisesFails, RaisingKeeps DEF history
<1>3. CASE CheckoutVerified(h) /\ ~CanPromoteReview(h, helper[h].run)
  <2>1. Leaves(h) /\ UNCHANGED review
    BY <1>3 DEF ReviewStarts
  <2> QED
    BY <1>1, <2>1, LeavingKeeps DEF rows
<1>4. CASE CheckoutVerified(h) /\ CanPromoteReview(h, helper[h].run)
  <2>1. /\ review' = [review EXCEPT !.pid = "driver"]
        /\ helper' = [helper EXCEPT ![h].at = "working", ![h].driver = "wrapped"]
        /\ tasks' = tasks /\ review.token = h
    BY <1>4 DEF ReviewStarts, CanPromoteReview
  <2>2. /\ helper' \in [Helpers -> Helper]
        /\ helper'[h].at = "working" /\ helper'[h].driver = "wrapped"
        /\ helper'[h].run = helper[h].run /\ helper'[h].kind = "review"
        /\ helper'[h].out = helper[h].out
        /\ \A k \in Helpers \ {h} : helper'[k] = helper[k]
    <3>1. helper[h] \in Helper /\ h \in Helpers
      BY <1>1
    <3> DEFINE new == [helper[h] EXCEPT !.at = "working", !.driver = "wrapped"]
    <3>2. /\ new \in Helper /\ new.at = "working" /\ new.driver = "wrapped"
          /\ new.run = helper[h].run /\ new.kind = helper[h].kind /\ new.out = helper[h].out
      BY <3>1 DEF Helper, Positions, Drivers
    <3>3. helper' = [helper EXCEPT ![h] = new]
      BY <1>1, <2>1
    <3> HIDE DEF new
    <3> QED
      BY <1>1, <3>1, <3>2, <3>3
  <2>3. /\ review' \in Review /\ review'.status = review.status
        /\ review'.verdict = review.verdict /\ review'.run = review.run
        /\ review'.token = review.token /\ review'.target = review.target
    BY <1>1, <2>1 DEF Review, Pids
  <2>4. PostShape(h)'
    BY <1>1, <2>2 DEF PostShape, Used, Carries, Early
  <2> QED
    BY <1>1, <2>1, <2>2, <2>3, <2>4, WorkingKeeps DEF Early
<1> QED
  BY <1>2, <1>3, <1>4

\* A verdict becomes durable: the reviewer's, or the one that its run already has.
LEMMA BeginsPostKeeps ==
  ASSUME BaseInv, WorldTyped', NEW h \in Posts, BeginsPost(h),
         \/ helper[h].at = "acquired" /\ helper[h].kind = "review_comment"
         \/ helper[h].at = "working" /\ helper[h].out \in Decided,
         UNCHANGED <<session, sup, history, faults>>
  PROVE  BaseInv'
<1> USE Tokens
<1> DEFINE run == helper[h].run
<1> DEFINE out == helper[h].out
<1>1. /\ helper \in [Helpers -> Helper] /\ review \in Review /\ faults \in Nat
      /\ UNCHANGED <<said, prompted>> /\ PostShape(h) /\ run \in Runs /\ out \in Decided
      /\ helper[h].driver = "none" /\ CallShapes
  BY Counted DEF history, BaseInv, TypeOK, LaunchShapes, PostShape, Used, Carries, Early, Decided
<1>2. CASE ~CanBeginPost(h, run)
  <2>1. Leaves(h) /\ UNCHANGED review
    BY <1>2 DEF BeginsPost
  <2> QED
    BY <1>1, <2>1, LeavingKeeps DEF rows
<1>3. CASE CanBeginPost(h, run)
  <2>1. /\ review' = [review EXCEPT !.status = "posting", !.verdict = out]
        /\ helper' = [helper EXCEPT ![h].at = "posting"] /\ tasks' = tasks
        /\ review.run = run /\ review.token = h /\ review.status \in {"starting", "running"}
    BY <1>3 DEF BeginsPost, CanBeginPost, Move
  <2>2. /\ helper' \in [Helpers -> Helper]
        /\ helper'[h].at = "posting" /\ helper'[h].driver = "none"
        /\ helper'[h].run = run /\ helper'[h].kind = helper[h].kind /\ helper'[h].out = out
        /\ \A k \in Helpers \ {h} : helper'[k] = helper[k]
    BY <1>1, <2>1 DEF Helper, Positions
  <2>3. /\ review' \in Review /\ review'.status = "posting" /\ review'.verdict = out
        /\ review'.run = run /\ review'.token = h /\ review'.target = review.target
    BY <1>1, <2>1 DEF Review, Reviewing
  <2>4. /\ \A k \in Helpers : /\ Used(k)' <=> Used(k)
                              /\ helper'[k].run = helper[k].run
                              /\ helper'[k].kind = helper[k].kind
                              /\ helper'[k].out = helper[k].out
        /\ \A k \in Helpers \ {h} : Carries(k)' <=> Carries(k)
    BY <2>2 DEF Used, Carries
  <2>5. \A r : UsedRun(r)' <=> UsedRun(r)
    BY <2>4 DEF UsedRun
  <2> HIDE DEF run, out
  <2>6. /\ said[run] \subseteq {out}
        /\ \A k \in Posts \ {h} : Carries(k) /\ helper[k].run = run => helper[k].out = out
    <3>1. OneVerdict
      BY DEF BaseInv
    <3>2. CASE helper[h].kind = "review_comment"
      <4>1. Carries(h)
        BY <1>1, <3>2 DEF PostShape, Carries, Early
      <4> QED
        BY <1>1, <3>1, <4>1 DEF OneVerdict, OneVoice, run, out
    <3>3. CASE helper[h].kind # "review_comment"
      BY <1>1, <2>1, <3>1, <3>3 DEF OneVerdict, FirstVerdict, run, out
    <3> QED
      BY <3>2, <3>3
  <2>7. TypeOK'
    BY <1>1, <2>1, <2>2, <2>3 DEF BaseInv, TypeOK, WorldTyped
  <2>8. LaunchShapes'
    <3>1. ASSUME NEW k \in Turns PROVE TurnShape(k)'
      <4>1. TurnShape(k) /\ helper'[k] = helper[k]
        BY <2>2 DEF BaseInv, LaunchShapes
      <4> QED
        BY <2>5, <4>1 DEF TurnShape, Used
    <3>2. PostShape(h)'
      BY <1>1, <2>2 DEF PostShape, Used, Early, run, out
    <3>3. ASSUME NEW k \in Posts \ {h} PROVE PostShape(k)'
      <4>1. PostShape(k) /\ helper'[k] = helper[k]
        BY <2>2 DEF BaseInv, LaunchShapes
      <4> QED
        BY <1>1, <4>1 DEF PostShape, Used, Carries
    <3> QED
      BY <3>1, <3>2, <3>3 DEF LaunchShapes
  <2>9. TurnsInOrder'
    BY <2>4 DEF BaseInv, TurnsInOrder, TypeOK, Session
  <2>10. RowShapes' /\ CommentOwned'
    <3>1. RowShapes'
      BY <2>1, <2>2, <2>3, <2>4, <2>5 DEF BaseInv, RowShapes, Reviewing, Feedback, run
    <3> QED
      BY <2>1, <2>2, <3>1 DEF BaseInv, CommentOwned
  <2>11. CallShapes'
    <3>1. At("launching") => sup.launch \in Turns /\ helper[sup.launch].run # review.run
      BY <1>1, <2>1 DEF CallShapes, Feedback
    <3> QED
      BY <1>1, <2>1, <2>2, <2>3, <2>4, <3>1 DEF CallShapes, At, Reviewing, Feedback
  <2>12. OneVerdict'
    <3>1. OneVerdict
      BY DEF BaseInv
    <3>2. OneVoice'
      <4>1. OneVoice
        BY <3>1 DEF OneVerdict
      <4>2. \A k \in Posts : /\ Carries(k)' => k = h \/ Carries(k)
                             /\ helper'[k].run = helper[k].run
                             /\ helper'[k].out = helper[k].out
        BY <2>4
      <4>3. helper[h].run = run /\ helper[h].out = out
        BY DEF run, out
      <4>4. ASSUME NEW k \in Posts, NEW l \in Posts, Carries(k)', Carries(l)',
                   helper[k].run = helper[l].run
            PROVE  helper[k].out = helper[l].out
        <5>1. (k = h \/ Carries(k)) /\ (l = h \/ Carries(l))
          BY <4>2, <4>4
        <5> QED
          BY <2>6, <4>1, <4>3, <4>4, <5>1 DEF OneVoice
      <4>5. ASSUME NEW k \in Posts, Carries(k)' PROVE said[helper[k].run] \subseteq {helper[k].out}
        BY <2>6, <4>1, <4>2, <4>3, <4>5 DEF OneVoice
      <4> QED
        BY <1>1, <4>2, <4>4, <4>5 DEF OneVoice
    <3>3. DurableVerdict'
      BY <1>1, <2>2, <2>3, <2>4, <2>6 DEF DurableVerdict
    <3>4. FirstVerdict' /\ PostedVerdict'
      BY <1>1, <2>2, <2>3 DEF FirstVerdict, PostedVerdict, Feedback, out
    <3>5. Consistent'
      BY <1>1, <2>5, <3>1 DEF OneVerdict, Consistent
    <3> QED
      BY <3>2, <3>3, <3>4, <3>5 DEF OneVerdict
  <2>13. Deliveries'
    <3>1. Deliveries
      BY DEF BaseInv
    <3>2. \A k \in Turns : helper'[k] = helper[k]
      BY <2>2
    <3>3. DeliveredOnce' /\ FreshCounts' /\ ClaimCounts'
      BY <1>1, <2>4, <2>5, <3>2, CountsKeep, ClaimCountsKeep
    <3>4. UnclaimedCounts' /\ ClaimPending'
      BY <1>1, <2>1, <2>3, <3>1
      DEF Deliveries, UnclaimedCounts, ClaimPending, Feedback
    <3>5. ClaimLasts'
      BY <2>1, <2>3, <3>1, <3>2 DEF Deliveries, ClaimLasts, Feedback
    <3> QED
      BY <3>3, <3>4, <3>5 DEF Deliveries
  <2> QED
    BY <2>7, <2>8, <2>9, <2>10, <2>11, <2>12, <2>13 DEF BaseInv
<1> QED
  BY <1>2, <1>3

\* A review is judged, or the retry of a comment begins.
LEMMA JudgesKeep ==
  ASSUME BaseInv, WorldTyped', NEW h \in Posts, CommentStarts(h) \/ ReviewJudged(h)
  PROVE  BaseInv'
<1> DEFINE out == helper[h].out
<1>1. /\ helper[h].at \in {"acquired", "working"} /\ review \in Review /\ faults \in Nat
      /\ UNCHANGED <<session, sup, history, faults>> /\ RowShapes /\ FirstVerdict
      /\ PostShape(h)
  BY Counted DEF CommentStarts, ReviewJudged, HelperFrame, BaseInv, TypeOK, LaunchShapes, OneVerdict
<1>2. CASE Raises(h)
  BY <1>1, <1>2, RaisesFails, RaisingKeeps DEF history
<1>3. CASE CommentStarts(h) /\ CheckoutVerified(h)
  <2>1. BeginsPost(h) /\ helper[h].at = "acquired" /\ helper[h].kind = "review_comment"
    BY <1>3 DEF CommentStarts
  <2> QED
    BY <1>1, <2>1, BeginsPostKeeps
<1>4. CASE CommentStarts(h) /\ ~CheckoutVerified(h)
  BY <1>2, <1>4 DEF CommentStarts
<1>5. CASE ReviewJudged(h) /\ out = "error"
  <2>1. /\ review' = IF OwnsRun(h, helper[h].run)
                       THEN [review EXCEPT !.status = "failed", !.verdict = "unknown"]
                       ELSE review
        /\ Leaves(h)
    BY <1>5 DEF ReviewJudged, Decided
  <2>2. Fails(h)
    BY <1>1, <2>1 DEF Fails, OwnsRun, Review
  <2> QED
    BY <1>1, <2>1, <2>2, RaisingKeeps DEF history
<1>6. CASE ReviewJudged(h) /\ out \in Decided /\ CheckoutVerified(h)
  <2>1. out # "error"
    BY <1>6 DEF Decided
  <2>2. BeginsPost(h) /\ helper[h].at = "working"
    BY <1>6, <2>1 DEF ReviewJudged
  <2> QED
    BY <1>1, <1>6, <2>2, BeginsPostKeeps
<1>7. CASE ReviewJudged(h) /\ out # "error" /\ ~(out \in Decided /\ CheckoutVerified(h))
  <2>1. Raises(h)
    BY <1>7 DEF ReviewJudged
  <2> QED
    BY <1>2, <2>1
<1> QED
  BY <1>3, <1>4, <1>5, <1>6, <1>7

\* The gh command starts under the launch's token.
LEMMA PostStartsKeeps ==
  ASSUME BaseInv, WorldTyped', NEW h \in Posts, PostStarts(h)
  PROVE  BaseInv'
<1> USE Tokens
<1>1. /\ helper \in [Helpers -> Helper] /\ review \in Review /\ faults \in Nat
      /\ helper[h].at = "posting" /\ PostShape(h) /\ CallShapes /\ helper[h] \in Helper
      /\ UNCHANGED <<session, sup, prompted, faults>>
  BY Counted DEF PostStarts, HelperFrame, history, BaseInv, TypeOK, LaunchShapes
<1>2. CASE ~CanMarkPost(h, helper[h].run)
  <2>1. Raises(h) /\ MayBeSaid(h)
    BY <1>2 DEF PostStarts
  <2> QED
    BY <1>1, <2>1, RaisesFails, RaisingKeeps DEF MayBeSaid
<1>3. CASE CanMarkPost(h, helper[h].run)
  <2>1. /\ review' = [review EXCEPT !.pid = "driver"]
        /\ helper' = [helper EXCEPT ![h].at = "commenting", ![h].driver = "comment"]
        /\ tasks' = tasks /\ said' = said /\ review.token = h /\ review.status = "posting"
    BY <1>3 DEF PostStarts, CanMarkPost
  <2>2. /\ helper' \in [Helpers -> Helper]
        /\ helper'[h].at = "commenting" /\ helper'[h].driver = "comment"
        /\ helper'[h].run = helper[h].run /\ helper'[h].kind = helper[h].kind
        /\ helper'[h].out = helper[h].out
        /\ \A k \in Helpers \ {h} : helper'[k] = helper[k]
    <3> DEFINE new == [helper[h] EXCEPT !.at = "commenting", !.driver = "comment"]
    <3>1. /\ new \in Helper /\ new.at = "commenting" /\ new.driver = "comment"
          /\ new.run = helper[h].run /\ new.kind = helper[h].kind /\ new.out = helper[h].out
      BY <1>1 DEF Helper, Positions, Drivers
    <3>2. helper' = [helper EXCEPT ![h] = new]
      BY <1>1, <2>1
    <3> HIDE DEF new
    <3> QED
      BY <1>1, <3>1, <3>2
  <2>3. /\ review' \in Review /\ review'.status = "posting" /\ review'.verdict = review.verdict
        /\ review'.run = review.run /\ review'.token = h /\ review'.target = review.target
    BY <1>1, <2>1 DEF Review, Pids
  <2>4. /\ \A k \in Helpers : /\ Used(k)' <=> Used(k)
                              /\ Carries(k)' <=> Carries(k)
                              /\ helper'[k].run = helper[k].run
                              /\ helper'[k].kind = helper[k].kind
                              /\ helper'[k].out = helper[k].out
    BY <1>1, <2>2 DEF Used, Carries
  <2>5. \A r : UsedRun(r)' <=> UsedRun(r)
    BY <2>4 DEF UsedRun
  <2>6. TypeOK'
    BY <1>1, <2>1, <2>2, <2>3 DEF BaseInv, TypeOK, WorldTyped
  <2>7. LaunchShapes'
    <3>1. ASSUME NEW k \in Turns PROVE TurnShape(k)'
      <4>1. TurnShape(k) /\ helper'[k] = helper[k]
        BY <2>2 DEF BaseInv, LaunchShapes
      <4> QED
        BY <2>5, <4>1 DEF TurnShape, Used
    <3>2. PostShape(h)'
      BY <1>1, <2>2, <2>4 DEF PostShape, Used, Early
    <3>3. ASSUME NEW k \in Posts \ {h} PROVE PostShape(k)'
      <4>1. PostShape(k) /\ helper'[k] = helper[k]
        BY <2>2 DEF BaseInv, LaunchShapes
      <4> QED
        BY <1>1, <2>1, <4>1 DEF PostShape, Used, Carries
    <3> QED
      BY <3>1, <3>2, <3>3 DEF LaunchShapes
  <2>8. TurnsInOrder'
    BY <1>1, <2>4 DEF BaseInv, TurnsInOrder, TypeOK, Session
  <2>9. RowShapes' /\ CommentOwned'
    <3>1. RowShapes'
      BY <1>1, <2>1, <2>2, <2>3, <2>4, <2>5 DEF BaseInv, RowShapes, Reviewing, Feedback
    <3> QED
      BY <2>1, <2>2, <2>3, <3>1 DEF BaseInv, CommentOwned
  <2>10. CallShapes'
    <3>1. At("launching") => /\ sup.launch \in Turns
                             /\ helper'[sup.launch] = helper[sup.launch]
      BY <1>1, <2>1, <2>2 DEF CallShapes
    <3> QED
      BY <1>1, <2>1, <2>3, <2>4, <3>1 DEF CallShapes, At
  <2>11. OneVerdict'
    <3>1. OneVerdict
      BY DEF BaseInv
    <3>2. \A k \in Posts : /\ helper'[k].run = helper[k].run /\ helper'[k].out = helper[k].out
                           /\ Carries(k)' <=> Carries(k)
      BY <2>4
    <3>3. OneVoice'
      <4>1. OneVoice
        BY <3>1 DEF OneVerdict
      <4> QED
        BY <1>1, <2>1, <3>2, <4>1 DEF OneVoice
    <3>4. DurableVerdict'
      BY <1>1, <2>1, <2>3, <3>1, <3>2 DEF OneVerdict, DurableVerdict
    <3>5. FirstVerdict' /\ PostedVerdict'
      BY <2>1, <2>2, <2>3, <3>1 DEF OneVerdict, FirstVerdict, PostedVerdict, Feedback
    <3>6. Consistent'
      BY <1>1, <2>1, <2>5, <3>1 DEF OneVerdict, Consistent
    <3> QED
      BY <3>3, <3>4, <3>5, <3>6 DEF OneVerdict
  <2>12. Deliveries'
    <3>1. Deliveries
      BY DEF BaseInv
    <3>2. \A k \in Turns : helper'[k] = helper[k]
      BY <2>2
    <3>3. DeliveredOnce' /\ FreshCounts' /\ ClaimCounts'
      BY <1>1, <2>4, <2>5, <3>2, CountsKeep, ClaimCountsKeep
    <3>4. UnclaimedCounts' /\ ClaimPending'
      BY <1>1, <2>1, <2>3, <3>1 DEF Deliveries, UnclaimedCounts, ClaimPending, Feedback
    <3>5. ClaimLasts'
      BY <1>1, <2>1, <2>3, <3>1, <3>2 DEF Deliveries, ClaimLasts, Feedback
    <3> QED
      BY <3>3, <3>4, <3>5 DEF Deliveries
  <2> QED
    BY <2>6, <2>7, <2>8, <2>9, <2>10, <2>11, <2>12 DEF BaseInv
<1> QED
  BY <1>2, <1>3

\* The comment is on the pull request.
LEMMA CommentPostedKeeps ==
  ASSUME BaseInv, WorldTyped', NEW h \in Helpers, CommentPosted(h)
  PROVE  BaseInv'
<1> USE Tokens
<1> DEFINE run == helper[h].run
<1> DEFINE out == helper[h].out
<1>1. /\ helper \in [Helpers -> Helper] /\ faults \in Nat /\ helper[h].driver = "comment"
      /\ UNCHANGED <<session, review, tasks, sup, prompted, faults>> /\ CallShapes
      /\ said \in [Runs -> SUBSET Decided] /\ helper[h] \in Helper
  BY Counted DEF CommentPosted, HelperFrame, rows, BaseInv, TypeOK
<1>2. /\ h \in Posts /\ PostShape(h) /\ run \in Runs /\ Carries(h) /\ out \in Decided
      /\ helper[h].at \in {"commenting", "gone"}
  <2>1. h \in Posts
    BY <1>1 DEF BaseInv, LaunchShapes, TurnShape
  <2>2. PostShape(h) /\ Carries(h)
    BY <1>1, <2>1 DEF BaseInv, LaunchShapes, Carries
  <2> QED
    BY <1>1, <2>1, <2>2 DEF PostShape, Used
<1>3. /\ helper' \in [Helpers -> Helper]
      /\ helper'[h].at = helper[h].at /\ helper'[h].driver = "none"
      /\ helper'[h].run = run /\ helper'[h].kind = helper[h].kind
      /\ helper'[h].at # "gone" => helper'[h].out = out
      /\ \A k \in Helpers \ {h} : helper'[k] = helper[k]
  <2> DEFINE new == [helper[h] EXCEPT !.driver = "none",
                                      !.out = IF Alive(h) THEN @ ELSE "none"]
  <2>1. /\ new \in Helper /\ new.at = helper[h].at /\ new.driver = "none"
        /\ new.run = run /\ new.kind = helper[h].kind
        /\ helper[h].at # "gone" => new.out = out
    BY <1>1, <1>2 DEF Helper, Outs, Drivers, Alive, Lives
  <2>2. helper' = [helper EXCEPT ![h] = new]
    BY <1>1 DEF CommentPosted
  <2> HIDE DEF new, run, out
  <2> QED
    BY <1>1, <2>1, <2>2
<1>4. /\ said' \in [Runs -> SUBSET Decided]
      /\ \A r \in Runs : said'[r] = IF r = run THEN said[r] \cup {out} ELSE said[r]
  BY <1>1, <1>2 DEF CommentPosted
<1> HIDE DEF run, out
<1>5. \A k \in Helpers : /\ Used(k)' <=> Used(k)
                         /\ helper'[k].run = helper[k].run /\ helper'[k].kind = helper[k].kind
                         /\ helper'[k].at = helper[k].at
                         /\ Carries(k)' => Carries(k) /\ helper'[k].out = helper[k].out
  BY <1>2, <1>3 DEF Used, Carries, Early, run, out
<1>6. \A r : UsedRun(r)' <=> UsedRun(r)
  BY <1>5 DEF UsedRun
<1>7. TypeOK'
  BY <1>1, <1>3, <1>4 DEF BaseInv, TypeOK, WorldTyped
<1>8. LaunchShapes'
  <2>1. ASSUME NEW k \in Turns PROVE TurnShape(k)'
    <3>1. TurnShape(k) /\ helper'[k] = helper[k]
      BY <1>2, <1>3 DEF BaseInv, LaunchShapes
    <3> QED
      BY <1>6, <3>1 DEF TurnShape, Used
  <2>2. PostShape(h)'
    <3>1. helper'[h].at = "commenting" => helper'[h].out \in said'[helper'[h].run]
      BY <1>2, <1>3, <1>4
    <3>2. Used(h)' /\ (Carries(h)' => helper'[h].out \in Decided)
      BY <1>2, <1>3, <1>5 DEF Used, out
    <3>3. helper'[h].run \in Runs /\ helper'[h].kind # "worker"
      BY <1>2, <1>3 DEF PostShape, Used
    <3> QED
      BY <1>2, <1>3, <3>1, <3>2, <3>3 DEF PostShape, Early
  <2>3. ASSUME NEW k \in Posts \ {h} PROVE PostShape(k)'
    <3>1. PostShape(k) /\ helper'[k] = helper[k]
      BY <1>3 DEF BaseInv, LaunchShapes
    <3>2. Used(k) => said[helper[k].run] \subseteq said'[helper[k].run]
      BY <1>4, <3>1 DEF PostShape
    <3> QED
      BY <3>1, <3>2 DEF PostShape, Used, Carries
  <2> QED
    BY <2>1, <2>2, <2>3 DEF LaunchShapes
<1>9. TurnsInOrder'
  BY <1>1, <1>5 DEF BaseInv, TurnsInOrder, TypeOK, Session
<1>10. RowShapes' /\ CommentOwned'
  <2>1. RowShapes'
    BY <1>1, <1>5, <1>6 DEF BaseInv, RowShapes, Reviewing, Feedback
  <2> QED
    BY <1>1, <1>3, <2>1 DEF BaseInv, CommentOwned
<1>11. CallShapes'
  BY <1>1, <1>5 DEF CallShapes, At
<1>12. OneVerdict'
  <2>1. OneVoice /\ DurableVerdict /\ FirstVerdict /\ PostedVerdict /\ Consistent
    BY DEF BaseInv, OneVerdict
  <2>2. /\ said[run] \subseteq {out}
        /\ \A k \in Posts : Carries(k) /\ helper[k].run = run => helper[k].out = out
    BY <1>2, <2>1 DEF OneVoice, run, out
  <2>3. \A k \in Posts : /\ helper'[k].run = helper[k].run /\ helper'[k].kind = helper[k].kind
                         /\ helper'[k].at = helper[k].at
                         /\ Carries(k)' => Carries(k) /\ helper'[k].out = helper[k].out
    BY <1>5
  <2>4. \A k \in Posts : Carries(k) => helper[k].run \in Runs
    BY DEF BaseInv, LaunchShapes, PostShape, Carries, Used, Unused, Early
  <2>5. OneVoice'
    BY <1>4, <2>1, <2>2, <2>3, <2>4 DEF OneVoice
  <2>6. review.status # "none" => review.run \in Runs
    BY Counted
  <2>7. review.run = run /\ review.status # "none" /\ review.verdict \in Decided =>
          review.verdict = out
    BY <1>2, <2>1 DEF DurableVerdict, run, out
  <2>8. DurableVerdict'
    BY <1>1, <1>4, <2>1, <2>3, <2>6, <2>7 DEF DurableVerdict
  <2>9. FirstVerdict'
    <3>1. review.status \in {"starting", "running"} /\ review.verdict \notin Decided =>
            review.run # run
      BY <1>2, <2>1 DEF FirstVerdict, run
    <3>2. review.status \in {"starting", "running"} => review.token \in Posts
      BY DEF BaseInv, RowShapes, Reviewing
    <3> QED
      BY <1>1, <1>4, <2>1, <2>3, <2>6, <3>1, <3>2 DEF FirstVerdict
  <2>10. PostedVerdict'
    <3>1. review.status = "posting" => review.token \in Posts
      BY DEF BaseInv, RowShapes, Reviewing
    <3> QED
      BY <1>1, <1>4, <2>1, <2>3, <2>6, <3>1 DEF PostedVerdict, Feedback
  <2>11. Consistent'
    <3>1. UsedRun(run)
      BY <1>2 DEF UsedRun, run
    <3> QED
      BY <1>4, <1>6, <2>1, <2>2, <3>1 DEF Consistent
  <2> QED
    BY <2>5, <2>8, <2>9, <2>10, <2>11 DEF OneVerdict
<1>13. Deliveries'
  <2>1. Deliveries
    BY DEF BaseInv
  <2>2. \A k \in Turns : helper'[k] = helper[k]
    BY <1>2, <1>3
  <2>3. DeliveredOnce' /\ FreshCounts' /\ ClaimCounts'
    BY <1>1, <1>5, <1>6, <2>2, CountsKeep, ClaimCountsKeep
  <2>4. UnclaimedCounts'
    BY <1>1, <2>1 DEF Deliveries, UnclaimedCounts
  <2>5. ClaimPending'
    <3>1. review.status \in Feedback => helper'[review.token] = helper[review.token]
      BY <2>2 DEF BaseInv, RowShapes
    <3> QED
      BY <1>1, <2>1, <3>1 DEF Deliveries, ClaimPending, OwnsTurn, At, Feedback
  <2>6. ClaimLasts'
    BY <1>1, <2>1, <2>2 DEF Deliveries, ClaimLasts
  <2> QED
    BY <2>3, <2>4, <2>5, <2>6 DEF Deliveries
<1> QED
  BY <1>7, <1>8, <1>9, <1>10, <1>11, <1>12, <1>13 DEF BaseInv

\* The run is complete, its comment posted.
LEMMA CompleteReviewKeeps ==
  ASSUME BaseInv, WorldTyped', NEW h \in Posts, CompleteReview(h)
  PROVE  BaseInv'
<1> USE Tokens
<1>1. /\ helper[h].at = "commenting" /\ helper[h].driver = "none" /\ Leaves(h) /\ PostShape(h)
      /\ helper[h].run \in Runs /\ Carries(h) /\ helper[h].out \in Decided
      /\ helper[h].out \in said[helper[h].run]
      /\ review \in Review /\ faults \in Nat /\ CallShapes /\ sup \in Supervisor
      /\ UNCHANGED <<session, sup, said, prompted, faults>>
  BY Counted DEF CompleteReview, HelperFrame, history, BaseInv, TypeOK, LaunchShapes, PostShape,
     Carries, Used
<1>2. CASE ~OwnsRun(h, helper[h].run)
  <2>1. review' = review
    BY <1>2 DEF CompleteReview
  <2> QED
    BY <1>1, <2>1, LeavingKeeps DEF rows, history
<1>3. CASE OwnsRun(h, helper[h].run)
  <2>1. /\ review' \in Review /\ review'.status = "completed" /\ review'.verdict = helper[h].out
        /\ review'.run = review.run /\ review'.token = h /\ review'.target = review.target
        /\ review.token = h /\ review.status \in Reviewing /\ review.run = helper[h].run
    BY <1>1, <1>3 DEF CompleteReview, OwnsRun, Review, Pids
  <2>2. /\ helper' = [helper EXCEPT ![h] = Gone(h, "none")] /\ tasks' \subseteq Helpers
    BY <1>1 DEF Leaves, BaseInv, TypeOK
  <2>3. /\ helper' \in [Helpers -> Helper] /\ \A k \in Helpers : Dies(k)
        /\ helper'[h].at = "gone" /\ helper'[h].driver = "none"
        /\ \A k \in Helpers \ {h} : helper'[k] = helper[k]
    BY <1>1, <2>2, LeaveEffect
  <2>4. /\ LaunchShapes'
        /\ \A k \in Helpers : Used(k)' <=> Used(k)
        /\ \A r : UsedRun(r)' <=> UsedRun(r)
        /\ \A k \in Helpers : Carries(k)' => Carries(k) /\ helper'[k].out = helper[k].out
    BY <1>1, <2>3, DyingShapes
  <2>5. \A k \in Helpers : helper'[k].run = helper[k].run
    BY <2>3 DEF Dies
  <2>6. TypeOK'
    BY <1>1, <2>1, <2>2, <2>3 DEF BaseInv, TypeOK, WorldTyped
  <2>7. TurnsInOrder'
    BY <1>1, <2>4 DEF BaseInv, TurnsInOrder, TypeOK, Session
  <2>8. RowShapes' /\ CommentOwned'
    <3>1. RowShapes'
      BY <1>1, <2>1, <2>4, <2>5 DEF BaseInv, RowShapes, Reviewing, Feedback
    <3> QED
      BY <2>1, <2>3, <3>1 DEF BaseInv, CommentOwned
  <2>9. CallShapes'
    <3>1. At("launching") => /\ sup.launch \in Turns /\ helper[sup.launch].run # review.run
                             /\ helper'[sup.launch] = helper[sup.launch]
      BY <1>1, <2>1, <2>3 DEF CallShapes, Reviewing, Feedback
    <3> QED
      BY <1>1, <2>1, <2>4, <3>1 DEF CallShapes, At, Reviewing, Feedback
  <2>10. OneVerdict'
    <3>1. OneVoice /\ Consistent
      BY DEF BaseInv, OneVerdict
    <3>2. \A k \in Posts : /\ helper'[k].run = helper[k].run
                           /\ Carries(k)' => Carries(k) /\ helper'[k].out = helper[k].out
      BY <2>4, <2>5
    <3>3. OneVoice' /\ Consistent'
      BY <1>1, <2>4, <3>1, <3>2 DEF OneVoice, Consistent
    <3>4. DurableVerdict'
      BY <1>1, <2>1, <3>1, <3>2 DEF OneVoice, DurableVerdict
    <3>5. FirstVerdict' /\ PostedVerdict'
      BY <1>1, <2>1 DEF FirstVerdict, PostedVerdict
    <3> QED
      BY <3>3, <3>4, <3>5 DEF OneVerdict
  <2>11. Deliveries'
    <3>1. Deliveries
      BY DEF BaseInv
    <3>2. \A k \in Turns : helper'[k] = helper[k]
      BY <2>3
    <3>3. DeliveredOnce' /\ FreshCounts' /\ ClaimCounts'
      BY <1>1, <2>4, <3>2, CountsKeep, ClaimCountsKeep
    <3>4. UnclaimedCounts' /\ ClaimPending'
      BY <1>1, <2>1, <3>1 DEF Deliveries, UnclaimedCounts, ClaimPending, Feedback, Reviewing
    <3>5. ClaimLasts'
      BY <1>1, <2>1, <3>1, <3>2 DEF Deliveries, ClaimLasts, Feedback, Reviewing
    <3> QED
      BY <3>3, <3>4, <3>5 DEF Deliveries
  <2> QED
    BY <2>4, <2>6, <2>7, <2>8, <2>9, <2>10, <2>11 DEF BaseInv
<1> QED
  BY <1>2, <1>3

\* Commands that fail and processes that die.
LEMMA FaultsKeep ==
  ASSUME BaseInv, WorldTyped', NEW h \in Helpers,
         CommentFails(h) \/ ReviewRaises(h) \/ KillHelper(h)
  PROVE  BaseInv'
<1> USE Tokens
<1>1. /\ faults' > faults /\ faults' >= faults /\ UNCHANGED <<session, sup, prompted>>
      /\ sup \in Supervisor /\ helper \in [Helpers -> Helper] /\ helper[h] \in Helper
      /\ tasks \subseteq Helpers
  <2>1. faults \in Nat
    BY Counted
  <2> QED
    BY <2>1 DEF CommentFails, ReviewRaises, KillHelper, Fault, rows, history, BaseInv, TypeOK
<1>2. h \in Posts => PostShape(h)
  BY DEF BaseInv, LaunchShapes
<1>3. h \in Turns => TurnShape(h)
  BY DEF BaseInv, LaunchShapes
<1>4. CASE CommentFails(h)
  <2>1. Raises(h) /\ helper[h].driver = "comment"
          /\ said' \in {said, [said EXCEPT ![helper[h].run] = @ \cup {helper[h].out}]}
    BY <1>4 DEF CommentFails, MayBeSaid
  <2>2. h \in Posts /\ helper[h].at \notin {"unused", "written"}
    BY <1>2, <1>3, <2>1 DEF TurnShape, PostShape
  <2> QED
    BY <1>1, <2>1, <2>2, RaisesFails, RaisingKeeps
<1>5. CASE ReviewRaises(h)
  <2>1. Raises(h) /\ h \in Posts /\ helper[h].at \notin {"unused", "written"} /\ said' = said
    BY <1>5 DEF ReviewRaises, history
  <2> QED
    BY <1>1, <2>1, RaisesFails, RaisingKeeps
<1>6. CASE KillHelper(h)
  <2>1. PICK d \in Survivors(h) :
          helper' = [helper EXCEPT ![h] = [Gone(h, d) EXCEPT
                                             !.out = IF d = "comment" THEN helper[h].out
                                                                      ELSE "none"]]
    BY <1>6 DEF KillHelper
  <2>2. /\ d \in {"none", helper[h].driver} \/ (helper[h].driver = "wrapped" /\ d = "orphan")
        /\ d \in Drivers
    BY <1>1 DEF Survivors, Helper, Drivers
  <2>3. helper[h].at \notin {"unused", "written"}
    BY <1>2, <1>3, <1>6 DEF KillHelper, Alive, Lives, TurnShape, PostShape
  <2> DEFINE new == [Gone(h, d) EXCEPT !.out = IF d = "comment" THEN helper[h].out ELSE "none"]
  <2>4. /\ new \in Helper /\ new.at = "gone" /\ new.driver = d
        /\ new.run = helper[h].run /\ new.kind = helper[h].kind
        /\ d = "comment" => new.out = helper[h].out
    BY <1>1, <2>2 DEF Gone, Helper, Positions, Outs
  <2>5. helper' = [helper EXCEPT ![h] = new]
    BY <2>1
  <2> HIDE DEF new
  <2>6. helper' \in [Helpers -> Helper] /\ \A k \in Helpers : Dies(k)
    BY <1>1, <2>2, <2>3, <2>4, <2>5 DEF Dies
  <2>7. UNCHANGED <<session, review, tasks, sup, history>>
    BY <1>6 DEF KillHelper, rows
  <2>8. At("remove") => session.status # "none"
    BY DEF BaseInv, CallShapes
  <2> QED
    BY <1>1, <2>6, <2>7, <2>8, DyingKeeps DEF At
<1> QED
  BY <1>4, <1>5, <1>6

----------------------------------------------------------------------------
(* The base invariant, and what follows from it for all constants.         *)

\* The base invariant holds at the start.
LEMMA InitBase == Init => BaseInv
<1> SUFFICES ASSUME Init PROVE BaseInv
  OBVIOUS
<1> USE Tokens DEF Init
<1>1. TypeOK
  <2>1. 1 \in Heads
    BY RunnerBounds DEF Heads
  <2>2. 0 \in 0 .. MaxTurns /\ 0 \in 0 .. MaxFaults
    BY RunnerBounds, RunnerWorld
  <2> QED
    BY <2>1, <2>2, EmptyTyped DEF TypeOK
<1>2. /\ session.status = "none" /\ session.token = NoToken
      /\ review.status = "none" /\ review.run = 0 /\ review.verdict \notin Decided
      /\ \A h \in Helpers : helper[h] = Unused /\ ~Used(h) /\ ~Carries(h)
                            /\ helper[h].driver = "none" /\ helper[h].run = 0
      /\ sup.at = "idle"
  BY DEF NoSession, NoReview, Idle, Unused, Used, Carries, Early, Decided
<1>3. \A run \in Runs : ~UsedRun(run) /\ prompted[run] = 0 /\ said[run] = {}
  BY <1>2 DEF UsedRun
<1>4. LaunchShapes
  BY <1>2 DEF LaunchShapes, TurnShape, PostShape, Unused, Used, Early
<1>5. TurnsInOrder /\ RowShapes /\ CallShapes /\ CommentOwned
  BY <1>2 DEF TurnsInOrder, RowShapes, CallShapes, CommentOwned, At, Reviewing, Feedback
<1>6. OneVerdict
  BY <1>2, <1>3 DEF OneVerdict, OneVoice, DurableVerdict, FirstVerdict, PostedVerdict,
     Consistent, Feedback
<1>7. Deliveries
  <2>1. faults = 0 /\ \A h \in Turns : 0 < h
    BY RunnerBounds DEF Turns
  <2>2. DeliveredOnce /\ FreshCounts
    BY <1>3, <2>1 DEF DeliveredOnce, FreshCounts
  <2>3. ClaimCounts /\ UnclaimedCounts /\ ClaimPending /\ ClaimLasts
    BY <1>2 DEF ClaimCounts, UnclaimedCounts, ClaimPending, ClaimLasts, Early
  <2> QED
    BY <2>2, <2>3 DEF Deliveries
<1> QED
  BY <1>1, <1>4, <1>5, <1>6, <1>7 DEF BaseInv

\* Every step keeps the base invariant.
LEMMA NextKeepsBase == BaseInv /\ [Next]_vars => BaseInv'
<1> SUFFICES ASSUME BaseInv, [Next]_vars PROVE BaseInv'
  OBVIOUS
<1> USE Tokens
<1>1. WorldTyped'
  BY WorldStep DEF BaseInv
<1>2. CASE UNCHANGED vars
  <2>1. /\ UNCHANGED <<rows, helper, history>> /\ tasks' = tasks /\ sup' = sup
        /\ faults' = faults /\ faults \in Nat /\ sup \in Supervisor /\ CallShapes
    BY <1>2, Counted DEF vars, BaseInv, TypeOK
  <2>2. CallShapes'
    BY <2>1 DEF CallShapes, At, Used, rows
  <2> QED
    BY <1>1, <2>1, <2>2, CallKeeps
<1>3. CASE Poll
  BY <1>1, <1>3, ReadsKeep, PutsKeep, RecoversKeep, ReviewEndsKeep DEF Poll
<1>4. CASE Call
  BY <1>1, <1>4, ReadsKeep, SpawnKeeps, ReviewsKeep DEF Call
<1>5. CASE Called
  BY <1>1, <1>5, ReadsKeep, PutsKeep, RecoversKeep, StopsKeep, LaunchKeeps, MarkLaunchedKeeps,
     SendKeeps DEF Called
<1>6. CASE Processes
  <2>1. ASSUME NEW h \in Turns, Turn(h) PROVE BaseInv'
    BY <1>1, <2>1, AcquiresKeep, TurnStartsKeeps, TurnConfirmsKeeps, TurnRecordsKeeps DEF Turn
  <2>2. ASSUME NEW h \in Posts, Judgement(h) PROVE BaseInv'
    BY <1>1, <2>2, AcquiresKeep, ReviewStartsKeeps, JudgesKeep, PostStartsKeeps,
       CompleteReviewKeeps DEF Judgement
  <2>3. ASSUME NEW h \in Helpers, Ends(h) PROVE BaseInv'
    BY <1>1, <2>3, DriverEndsKeeps, CommentPostedKeeps DEF Ends
  <2> QED
    BY <1>6, <2>1, <2>2, <2>3 DEF Processes
<1>7. CASE Faults
  <2>1. ASSUME NEW h \in Helpers, TurnRaises(h) PROVE BaseInv'
    <3>1. h \in Turns
      BY <2>1 DEF TurnRaises
    <3> QED
      BY <1>1, <2>1, <3>1, TurnRecordsKeeps
  <2> QED
    BY <1>1, <1>7, <2>1, ReadsKeep, LaunchFailsKeeps, FaultsKeep DEF Faults
<1>8. CASE World
  BY <1>1, <1>8, WorldKeeps
<1> QED
  BY <1>2, <1>3, <1>4, <1>5, <1>6, <1>7, <1>8 DEF Next

\* The base invariant of the runner.
THEOREM BaseInvariance == Spec => []BaseInv
<1> QED
  BY InitBase, NextKeepsBase, PTL DEF Spec

\* The types of the runner's state hold in every behaviour, with the bounds on how often a
\* run's findings are delivered.
THEOREM RunnerTyped == Spec => []TypeOK
<1>1. BaseInv => TypeOK
  BY DEF BaseInv
<1> QED
  BY <1>1, BaseInvariance, PTL

\* A review that is reported as completed or answered has its verdict on the pull request,
\* and the comments of a run agree, whatever dies and whenever (VerdictPosted).
THEOREM VerdictIsPosted == Spec => []VerdictPosted
<1>1. BaseInv => VerdictPosted
  <2> SUFFICES ASSUME BaseInv PROVE VerdictPosted
    OBVIOUS
  <2>1. PostedVerdict /\ Consistent /\ \A run \in Runs : said[run] \subseteq Decided
    BY DEF BaseInv, OneVerdict, TypeOK
  <2>2. ASSUME NEW run \in Runs PROVE Cardinality(said[run]) <= 1
    <3>1. CASE said[run] = {}
      BY <3>1, FS_EmptySet
    <3>2. CASE said[run] # {}
      <4>1. PICK v : v \in said[run]
        BY <3>2
      <4>2. said[run] = {v}
        BY <2>1, <4>1 DEF Consistent
      <4> QED
        BY <4>2, FS_Singleton
    <3> QED
      BY <3>1, <3>2
  <2> QED
    BY <2>1, <2>2 DEF VerdictPosted, PostedVerdict
<1> QED
  BY <1>1, BaseInvariance, PTL

\* The findings of a run reach a worker once, and once more only for a death or an error
\* (PromptOnce).
THEOREM PromptedOnce == Spec => []PromptOnce
<1>1. BaseInv => PromptOnce
  BY DEF BaseInv, Deliveries, DeliveredOnce, PromptOnce
<1> QED
  BY <1>1, BaseInvariance, PTL

\* One step, with a verdict that is durable and not yet posted.
LEMMA VerdictStep ==
  ASSUME BaseInv, Next, review.status \in {"posting", "failed"}, review.verdict \in Decided
  PROVE  \/ review'.verdict = review.verdict /\ review'.run = review.run
         \/ review'.status = "cancelled"
         \/ review'.target # review.target
<1> DEFINE Stands == review'.verdict = review.verdict /\ review'.run = review.run
<1>1. /\ review \in Review /\ CallShapes /\ OneVerdict /\ LaunchShapes
      /\ review.status \notin Feedback \cup {"none", "completed", "starting", "running"}
  BY DEF BaseInv, TypeOK, Feedback
<1>2. review' = review => Stands
  OBVIOUS
<1>3. RecoverFeedback \/ (\E h : ClaimFeedback(h) \/ MarkReviewLaunched(h, helper[h].run)) => Stands
  BY ZenonT(60), <1>1 DEF RecoverFeedback, ClaimFeedback, MarkReviewLaunched, Review
<1>4. \A run, status : PutReviewOfRun(run, status, review.verdict) => Stands
  BY <1>1 DEF PutReviewOfRun, Review
<1>5. \A h \in Posts : Raises(h) => Stands
  BY <1>1 DEF Raises, FailedReview, Review
<1>6. \A h : BeginsPost(h) => Stands
  BY <1>1 DEF BeginsPost, CanBeginPost
<1>7. \A hs, r : Cancel(hs, r) => Stands \/ review'.status = "cancelled"
  BY <1>1 DEF Cancel, Review
<1>8. CASE Poll
  <2>1. ~FeedbackAnswered
    BY <1>1 DEF FeedbackAnswered, CallShapes, Feedback
  <2> QED
    BY <1>2, <1>3, <1>4, <1>8, <2>1 DEF Poll, ReadSession, RefreshNothing, RefreshFeedbackSent,
       RefreshRecovers, RefreshLost, RefreshPullRequest, ReviewLost, ReviewRecovers, Recovers,
       FeedbackIgnored, ReviewUnchanged, rows
<1>9. CASE Call
  <2>1. CASE TriggerReview
    <3>1. review'.target = pr.head /\ ~CommentMissing(Settled(review))
      BY <2>1 DEF TriggerReview, ClaimedReview
    <3>2. Settled(review).status = "failed" /\ Settled(review).verdict = review.verdict
          /\ Settled(review).target = review.target
      BY <1>1 DEF Settled, Dead, Reviewing, Review
    <3> QED
      BY <3>1, <3>2 DEF CommentMissing
  <2>2. CASE RetryReviewComment
    <3>1. Settled(review).verdict = review.verdict /\ Settled(review).run = review.run
          /\ Settled(review) \in Review
      BY <1>1 DEF Settled, Dead, Review
    <3>2. \E h : review' = [Settled(review) EXCEPT !.status = "starting", !.pid = "none",
                                                   !.token = h, !.young = TRUE]
      BY <2>2 DEF RetryReviewComment
    <3> QED
      BY <3>1, <3>2 DEF Review
  <2> QED
    BY <1>2, <1>9, <2>1, <2>2 DEF Call, SpawnWorker, ReadToCancel, ReadToSend, ReadToTerminate,
       rows
<1>10. CASE Called
  BY <1>2, <1>3, <1>7, <1>10 DEF Called, Launch, MarkLaunched, CancelReview, SendRecovers,
     Recovers, SendRefused, Send, TerminateStops, TerminateRemoves, rows
<1>11. ASSUME NEW h \in Turns, Turn(h) PROVE Stands
  BY <1>1, <1>2, <1>11 DEF Turn, TurnAcquires, TurnStarts, TurnConfirms, CanConfirmFeedback,
     TurnRecords
<1>12. ASSUME NEW h \in Posts, Judgement(h) PROVE Stands
  <2>1. CASE ReviewJudged(h)
    <3>1. ~OwnsRun(h, helper[h].run)
      BY <1>1, <2>1 DEF ReviewJudged, OwnsRun, OneVerdict, PostedVerdict, Reviewing
    <3>2. helper[h].out = "error" => helper[h].out \notin Decided
      BY DEF Decided
    <3>3. review' = review \/ BeginsPost(h) \/ Raises(h)
      BY <2>1, <3>1, <3>2 DEF ReviewJudged
    <3> QED
      BY <1>2, <1>5, <1>6, <3>3
  <2>2. CASE CompleteReview(h)
    <3>1. CASE OwnsRun(h, helper[h].run)
      <4>1. /\ review' = [review EXCEPT !.status = "completed", !.verdict = helper[h].out,
                                        !.pid = "none"]
            /\ helper[h].at = "commenting" /\ review.run = helper[h].run
        BY <2>2, <3>1 DEF CompleteReview, OwnsRun
      <4>2. helper[h].out = review.verdict
        BY <1>1, <4>1 DEF OneVerdict, DurableVerdict, Carries
      <4> QED
        BY <1>1, <4>1, <4>2 DEF Review
    <3>2. CASE ~OwnsRun(h, helper[h].run)
      BY <2>2, <3>2 DEF CompleteReview
    <3> QED
      BY <3>1, <3>2
  <2>3. CASE ReviewStarts(h) \/ PostStarts(h)
    <3>1. review' = review \/ review' = [review EXCEPT !.pid = "driver"] \/ Raises(h)
      BY <2>3 DEF ReviewStarts, PostStarts
    <3> QED
      BY <1>1, <1>5, <3>1 DEF Review
  <2>4. CASE ReviewAcquires(h) \/ CommentStarts(h)
    BY <1>3, <1>5, <1>6, <2>4 DEF ReviewAcquires, CommentStarts
  <2> QED
    BY <1>12, <2>1, <2>2, <2>3, <2>4 DEF Judgement
<1>13. CASE Faults
  <2>1. CASE LaunchFails
    BY <1>2, <1>4, <2>1 DEF LaunchFails
  <2>2. ASSUME NEW h \in Helpers, TurnRaises(h) \/ CommentFails(h) \/ ReviewRaises(h)
                                    \/ KillHelper(h)
        PROVE  Stands
    <3>1. CommentFails(h) => h \in Posts
      BY <1>1, Tokens DEF CommentFails, LaunchShapes, TurnShape
    <3> QED
      BY <1>2, <1>3, <1>5, <2>2, <3>1 DEF TurnRaises, CommentFails, ReviewRaises, KillHelper, rows
  <2> QED
    BY <1>2, <1>13, <2>1, <2>2 DEF Faults, SupervisorCrash, rows
<1>14. CASE World
  <2>1. review' = review \/ review' = [review EXCEPT !.young = FALSE]
    BY <1>14 DEF World, WorkerPushes, TreeDirtied, PullRequestEnds, WorldFrame, Age, rows
  <2> QED
    BY <1>1, <2>1 DEF Review
<1>15. CASE Processes
  <2>1. ASSUME NEW h \in Helpers, Ends(h) PROVE Stands
    BY <1>2, <2>1 DEF Ends, DriverEnds, CommentPosted, rows
  <2> QED
    BY <1>11, <1>12, <1>15, <2>1 DEF Processes
<1> QED
  BY <1>8, <1>9, <1>10, <1>13, <1>14, <1>15 DEF Next

\* A verdict that is durable and not yet posted is not lost (VerdictStands): what fails after
\* begin_review_post is retried with the same verdict, unless it is cancelled or another head
\* is reviewed.
THEOREM VerdictKept == Spec => VerdictStands
<1> DEFINE Kept == review.status \in {"posting", "failed"} /\ review.verdict \in Decided =>
                     \/ review'.verdict = review.verdict /\ review'.run = review.run
                     \/ review'.status = "cancelled"
                     \/ review'.target # review.target
<1>1. BaseInv /\ [Next]_vars => [Kept]_vars
  BY VerdictStep
<1> QED
  BY <1>1, BaseInvariance, PTL DEF Spec, VerdictStands

=============================================================================
