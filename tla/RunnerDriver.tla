---------------------------- MODULE RunnerDriver ----------------------------
(***************************************************************************)
(* The worker's processes in the bundled runner, for every value of the    *)
(* constants but KillsInWindow: when no driver loses helper and sentinel   *)
(* while a call holds an old row, one driver works, and terminate removes  *)
(* no worktree under it.                                                   *)
(***************************************************************************)
EXTENDS RunnerProofs

\* The call and what it holds of the session are the same.
SameCall ==
  /\ sup'.at = sup.at /\ sup'.launch = sup.launch /\ sup'.safe = sup.safe
  /\ sup'.session.token = sup.session.token /\ sup'.session.status = sup.session.status
  /\ sup'.session.pid = sup.session.pid

\* The call has just read the session row.
ReadsRow ==
  /\ sup'.session.token = session.token /\ sup'.session.status = session.status
  /\ sup'.session.pid = session.pid

SameTurn ==
  /\ session'.token = session.token /\ session'.pid = session.pid
  /\ session'.status = session.status

NoDriver(hs) == \A h \in Turns : hs[h].driver = "none"

\* No process starts, and no launch is written.
NothingStarts ==
  /\ \A h \in Turns : helper'[h].driver \in {"none", helper[h].driver}
                        \/ (helper[h].driver = "wrapped" /\ helper'[h].driver = "orphan")
  /\ \A h \in Helpers : (Alive(h)' => Alive(h)) /\ (Used(h)' <=> Used(h))
  /\ \A h \in Posts : ~Alive(h) => helper'[h].driver \in {"none", "orphan", helper[h].driver}

\* The session keeps what its driver, if there is one, is known by.
TurnEffect ==
  /\ session'.status = "none" <=> session.status = "none"
  /\ \/ session'.token = session.token /\ session'.pid = session.pid
        /\ session'.status \in {session.status, "terminated"}
     \/ NoDriver(helper')
  /\ session'.status \in Launched /\ session'.pid # "driver" =>
       session.status \in Launched /\ session.pid # "driver" /\ session'.token = session.token

\* Only what is over loses its task file.
TaskEffect ==
  \A h \in Turns : h \in tasks =>
    \/ h \in tasks'
    \/ ~Alive(h)' /\ helper'[h].driver = "none" /\ ~(At("launching")' /\ sup'.launch = h)

CallEffect ==
  /\ At("launching")' => SameCall
  /\ At("refresh")' \/ At("send")' =>
       \/ NoDriver(helper')
       \/ /\ SameCall \/ ReadsRow
          /\ \A h \in Turns : helper'[h].driver = "orphan" => helper[h].driver = "orphan"
  /\ At("terminate")' => SameCall \/ ReadsRow
  /\ At("remove")' =>
       /\ SameCall /\ session'.token \in {session.token, NoToken}
       /\ review'.token \in {review.token, NoToken}

\* A pull request is opened by a worker.
RequestEffect ==
  pr'.state = pr.state
    \/ (pr'.state # "none" /\ (pr.state # "none" \/ ~NoDriver(helper)))

\* A step in which nothing starts keeps what is known of the drivers.
LEMMA QuietKeeps ==
  ASSUME DriverInv, BaseInv', NothingStarts, TurnEffect, TaskEffect, CallEffect, RequestEffect
  PROVE  DriverInv'
<1> USE Tokens
<1>1. /\ DriverOwned /\ TaskKept /\ PidKnown /\ NoReviewYet /\ Stopped /\ FirstLaunched
  BY DEF DriverInv
<1>2. DriverOwned'
  BY <1>1 DEF DriverOwned, NothingStarts, TurnEffect, NoDriver
<1>3. TaskKept'
  <2>1. ASSUME NEW h \in Turns,
               Alive(h)' \/ helper'[h].driver # "none" \/ (At("launching")' /\ sup'.launch = h)
        PROVE  h \in tasks
    BY <1>1, <2>1 DEF TaskKept, NothingStarts, CallEffect, SameCall, At
  <2> QED
    BY <2>1 DEF TaskKept, TaskEffect
<1>4. PidKnown'
  BY <1>1 DEF PidKnown, DriverOwned, CallEffect, NoDriver, SameCall, ReadsRow, At
<1>5. NoReviewYet'
  <2>1. pr'.state = "none" => \A k \in Posts : ~Used(k)'
    BY <1>1 DEF NoReviewYet, RequestEffect, NothingStarts
  <2>2. NoDriver(helper) \/ (session.status # "none" /\ session.pid = "driver")
    BY <1>1 DEF DriverOwned, NoDriver, Launched
  <2>3. session'.status = "none" => pr'.state = "none"
    BY <1>1, <2>2 DEF NoReviewYet, TurnEffect, RequestEffect
  <2>4. session'.token = FirstTurn /\ session'.status \in Launched /\ session'.pid # "driver" =>
          pr'.state = "none"
    BY <1>1, <2>2 DEF NoReviewYet, TurnEffect, RequestEffect
  <2>5. At("terminate")' /\ sup'.session.token = FirstTurn /\ sup'.session.status \in Launched
          /\ sup'.session.pid # "driver" => \A k \in Posts : ~Used(k)'
    BY <1>1 DEF NoReviewYet, CallEffect, SameCall, ReadsRow, NothingStarts, At
  <2> QED
    BY <2>1, <2>3, <2>4, <2>5 DEF NoReviewYet
<1>6. Stopped'
  <2> SUFFICES ASSUME At("remove")' PROVE Stopped'
    BY DEF Stopped
  <2>1. /\ SameCall /\ At("remove") /\ session'.token \in {session.token, NoToken}
        /\ review'.token \in {review.token, NoToken}
    BY DEF CallEffect, SameCall, At
  <2>2. /\ session.token \in {sup.session.token, NoToken}
        /\ review.token \in {sup.launch, NoToken}
        /\ \A h \in Helpers : NamesHelper(sup.session.token, h) \/ NamesHelper(sup.launch, h) =>
             ~Alive(h)
        /\ \A h \in Posts : h = sup.launch => helper[h].driver \in {"none", "orphan"}
        /\ sup.safe => \A h \in Turns : helper[h].driver = "none"
    BY <1>1, <2>1 DEF Stopped
  <2>3. \A h \in Helpers : NamesHelper(sup.session.token, h) \/ NamesHelper(sup.launch, h) =>
          ~Alive(h)'
    BY <2>2 DEF NothingStarts
  <2>4. \A h \in Posts : h = sup.launch => helper'[h].driver \in {"none", "orphan"}
    BY <2>2 DEF NothingStarts, NamesHelper
  <2>5. sup.safe => \A h \in Turns : helper'[h].driver = "none"
    BY <2>2 DEF NothingStarts
  <2> QED
    BY <2>1, <2>2, <2>3, <2>4, <2>5 DEF Stopped, SameCall, NamesHelper
<1>7. FirstLaunched'
  BY <1>1 DEF FirstLaunched, NothingStarts, TurnEffect
<1> QED
  BY <1>2, <1>3, <1>4, <1>5, <1>6, <1>7 DEF DriverInv

\* A call that sees nothing of the session's launch, and has its driver's pid, sees nothing
\* of any worker.
LEMMA SeenGone ==
  ASSUME DriverInv, NEW t, NEW pid, ~Active(helper, t, pid),
         session.token \in {t, NoToken},
         \A h \in Turns : helper[h].driver = "orphan" => pid = "driver"
  PROVE  NoDriver(helper)
<1> USE Tokens
<1>1. ASSUME NEW h \in Turns, helper[h].driver # "none" PROVE FALSE
  <2>1. t = h /\ h \in tasks /\ t # NoToken
    BY <1>1 DEF DriverInv, DriverOwned, TaskKept
  <2>2. helper[h].driver \in {"wrapped", "orphan"}
    BY <1>1 DEF DriverInv, BaseInv, TypeOK, Helper, Drivers, LaunchShapes, TurnShape
  <2>3. NamesDriver(t, h, helper[h].driver) /\ NamesHelper(t, h)
    BY <2>1 DEF NamesDriver, NamesHelper
  <2>4. CASE helper[h].driver = "wrapped"
    BY <2>1, <2>3, <2>4 DEF Active, Owned
  <2>5. CASE helper[h].driver = "orphan"
    BY <1>1, <2>1, <2>3, <2>5 DEF Active, TaskExists
  <2> QED
    BY <2>2, <2>4, <2>5
<1> QED
  BY <1>1 DEF NoDriver

\* No task file of a worker goes with a reviewer's token, nor one of what lives.
LEMMA TasksLeft ==
  ASSUME NEW t
  PROVE  /\ t \in Posts => \A h \in Turns : h \in tasks => h \in WithoutTask(t)
         /\ \A h \in Turns : h \in tasks /\ ~NamesHelper(t, h) => h \in WithoutTask(t)
BY Tokens DEF WithoutTask, NamesHelper

\* No launch changes.
LEMMA RestingStarts ==
  ASSUME helper' = helper
  PROVE  NothingStarts /\ (NoDriver(helper) => NoDriver(helper'))
<1>1. \A h \in Helpers : (Alive(h)' <=> Alive(h)) /\ (Used(h)' <=> Used(h))
  BY DEF Alive, Lives, Used
<1>2. NoDriver(helper) => NoDriver(helper')
  BY DEF NoDriver
<1> QED
  BY <1>1, <1>2 DEF NothingStarts

\* The pull request stays.
LEMMA RequestStays ==
  ASSUME UNCHANGED outside
  PROVE  RequestEffect
<1>1. pr' = pr
  BY DEF outside
<1> QED
  BY <1>1 DEF RequestEffect

\* The call is over, or goes on with nothing that holds a session row.
LEMMA CallLeft ==
  ASSUME sup'.at \in {"idle", "ready", "get_review", "cancel"}
  PROVE  CallEffect /\ ~At("launching")'
BY DEF CallEffect, At

\* The calls that only read.
LEMMA ReadsDrive ==
  ASSUME DriverInv, BaseInv',
         \/ ReadSession \/ RefreshNothing \/ ReviewUnchanged \/ ReadToCancel \/ ReadToSend
         \/ ReadToTerminate \/ SendRefused \/ SupervisorCrash
  PROVE  DriverInv'
<1>1. /\ UNCHANGED <<rows, helper, tasks, outside>>
      /\ sup'.at \in {"idle", "ready", "get_review", "refresh", "cancel", "send", "terminate"}
      /\ sup'.at \in {"refresh", "send", "terminate"} => sup'.session = session
  BY DEF ReadSession, RefreshNothing, ReviewUnchanged, ReadToCancel, ReadToSend, ReadToTerminate,
     SendRefused, SupervisorCrash, ReadsReview, Goto, Idle, SupFrame
<1>2. TurnEffect /\ TaskEffect
  BY <1>1 DEF TurnEffect, TaskEffect, rows
<1>3. CallEffect
  <2>1. ~At("launching")' /\ ~At("remove")'
    BY <1>1 DEF At
  <2>2. At("refresh")' \/ At("send")' \/ At("terminate")' => ReadsRow
    BY <1>1 DEF ReadsRow, At, rows
  <2> QED
    BY <1>1, <2>1, <2>2 DEF CallEffect
<1> QED
  BY <1>1, <1>2, <1>3, RestingStarts, RequestStays, QuietKeeps

\* update_session, for a session whose driver is not seen.
LEMMA PutDrives ==
  ASSUME DriverInv, BaseInv', UNCHANGED <<helper, outside>>, session.status # "none",
         NEW st \in {"finished", "idle", "pr_open", "merged", "failed", "terminated"}, NEW p,
         PutSession(st, p),
         NoDriver(helper) \/ (st = "terminated" /\ p = session.pid),
         \A h \in Turns : h \in tasks => h \in tasks' \/ (~Alive(h) /\ NoDriver(helper)),
         sup'.at \in {"idle", "ready", "get_review"}
  PROVE  DriverInv'
<1>1. session \in Session
  BY DEF DriverInv, BaseInv, TypeOK
<1>2. session'.status = st /\ session'.pid = p /\ session'.token = session.token
  BY <1>1 DEF PutSession, Session
<1>3. NothingStarts /\ (NoDriver(helper) => NoDriver(helper'))
  BY RestingStarts
<1>4. TurnEffect
  BY <1>2, <1>3 DEF TurnEffect, Launched
<1>5. CallEffect /\ ~At("launching")'
  BY CallLeft
<1>6. TaskEffect
  BY <1>5 DEF TaskEffect, NoDriver, Alive
<1> QED
  BY <1>3, <1>4, <1>5, <1>6, RequestStays, QuietKeeps

\* A poll that finds a launch lost.
LEMMA LostDrives ==
  ASSUME DriverInv, BaseInv', RefreshFeedbackSent \/ RefreshLost
  PROVE  DriverInv'
<1> USE Tokens
<1> DEFINE s == sup.session
<1>1. /\ At("refresh") /\ Lost(s) /\ tasks' = WithoutTask(s.token)
      /\ UNCHANGED <<helper, outside>>
      /\ \E st \in {"finished", "failed"} : PutSession(st, "none")
      /\ sup'.at \in {"idle", "ready", "get_review"}
  BY DEF RefreshFeedbackSent, RefreshLost, SupFrame, ReadsReview, Idle
<1>2. /\ session.status # "none" /\ session.token \in {s.token, NoToken}
      /\ s.token \in Turns \cup {NoToken}
  BY <1>1 DEF DriverInv, BaseInv, CallShapes, TypeOK, Supervisor, Session
<1>3. ~Active(helper, s.token, s.pid)
  BY <1>1 DEF Lost, Running
<1>4. \A h \in Turns : helper[h].driver = "orphan" => s.pid = "driver"
  BY <1>1 DEF DriverInv, PidKnown
<1>5. NoDriver(helper)
  BY <1>2, <1>3, <1>4, SeenGone
<1>6. \A h \in Turns : h \in tasks => h \in tasks' \/ (~Alive(h) /\ NoDriver(helper))
  BY <1>1, <1>2, <1>3, <1>5, TasksLeft, InactiveDead DEF NamesHelper
<1>7. PICK st \in {"finished", "failed"} : PutSession(st, "none")
  BY <1>1
<1> QED
  BY <1>1, <1>2, <1>5, <1>6, <1>7, PutDrives

\* A poll that takes a state from the pull request, or finds feedback ignored.
LEMMA StatesDrive ==
  ASSUME DriverInv, BaseInv', RefreshPullRequest \/ FeedbackIgnored
  PROVE  DriverInv'
<1> DEFINE s == sup.session
<1>1. /\ UNCHANGED <<helper, tasks, outside>> /\ sup'.at \in {"idle", "ready", "get_review"}
      /\ session.status \in {"finished", "idle", "pr_open"}
      /\ \/ session' = session
         \/ \E st \in {"finished", "idle", "pr_open", "merged", "failed"} :
              PutSession(st, session.pid)
  <2>1. CASE RefreshPullRequest
    <3>1. /\ At("refresh") /\ s.status \in {"finished", "idle", "pr_open"}
          /\ UNCHANGED <<helper, tasks, outside>> /\ sup'.at \in {"idle", "ready", "get_review"}
          /\ session' = session \/ PutSession(AfterTurn(s), session.pid)
      BY <2>1 DEF RefreshPullRequest, SupFrame, ReadsReview, Idle
    <3>2. session.status = s.status
      BY <3>1 DEF DriverInv, BaseInv, CallShapes, Launched
    <3>3. AfterTurn(s) \in {"finished", "idle", "pr_open", "merged", "failed"}
      BY <3>1 DEF AfterTurn
    <3> QED
      BY <3>1, <3>2, <3>3
  <2>2. CASE FeedbackIgnored
    BY <2>2 DEF FeedbackIgnored, Ignored, SupFrame, Goto, Idle
  <2> QED
    BY <2>1, <2>2
<1>2. NoDriver(helper)
  BY <1>1 DEF DriverInv, DriverOwned, NoDriver, Launched
<1>3. CASE session' = session
  <2>1. TurnEffect /\ TaskEffect
    BY <1>1, <1>3 DEF TurnEffect, TaskEffect
  <2> QED
    BY <1>1, <2>1, RestingStarts, RequestStays, CallLeft, QuietKeeps
<1>4. ASSUME NEW st \in {"finished", "idle", "pr_open", "merged", "failed"},
             PutSession(st, session.pid)
      PROVE  DriverInv'
  BY <1>1, <1>2, <1>4, PutDrives
<1> QED
  BY <1>1, <1>3, <1>4

\* A poll or a call that rolls back a claim whose launch is dead.
LEMMA RecoversDrive ==
  ASSUME DriverInv, BaseInv', RefreshRecovers \/ ReviewRecovers \/ SendRecovers
  PROVE  DriverInv'
<1> USE Tokens
<1>1. PICK t, pid :
        /\ session.token = t /\ session.status \in Launched
        /\ ~Active(helper, t, pid) /\ RecoverFeedback
        /\ tasks' = WithoutTask(t) /\ UNCHANGED <<helper, outside>>
        /\ \A h \in Turns : helper[h].driver = "orphan" => pid = "driver"
        /\ sup'.at \in {"idle", "ready", "get_review", "send"}
  <2>1. CASE RefreshRecovers
    BY <2>1 DEF RefreshRecovers, Recovers, CanRecover, OwnsTurn, Lost, Running, SupFrame,
       ReadsReview, Idle, DriverInv, PidKnown
  <2>2. CASE ReviewRecovers
    <3>1. \A h \in Turns : helper[h].driver = "orphan" => session.pid = "driver"
      BY DEF DriverInv, DriverOwned
    <3> QED
      BY <2>2, <3>1 DEF ReviewRecovers, Unlaunched, Recovers, CanRecover, OwnsTurn, SupFrame,
         Goto, Idle
  <2>3. CASE SendRecovers
    <3>1. /\ At("send") /\ Unlaunched(sup.review, sup.session.pid) /\ Recovers(sup.review.token)
          /\ UNCHANGED outside /\ sup' = [sup EXCEPT !.session = session', !.review = review']
      BY <2>3 DEF SendRecovers, SupFrame
    <3>2. sup'.at = "send"
      BY <3>1 DEF At, DriverInv, BaseInv, TypeOK, Supervisor
    <3> QED
      BY <3>1, <3>2 DEF Unlaunched, Recovers, CanRecover, OwnsTurn, DriverInv, PidKnown
  <2> QED
    BY <2>1, <2>2, <2>3
<1>2. /\ session \in Session /\ review \in Review
  BY DEF DriverInv, BaseInv, TypeOK
<1>3. session.status # "none" /\ session'.status = "finished" /\ t \in Turns \cup {NoToken}
  BY <1>1, <1>2 DEF RecoverFeedback, Session, Launched
<1>4. NoDriver(helper)
  BY <1>1, SeenGone
<1>5. NothingStarts /\ NoDriver(helper')
  BY <1>1, <1>4, RestingStarts
<1>6. TurnEffect
  BY <1>3, <1>5 DEF TurnEffect, Launched
<1>7. TaskEffect
  <2>1. ASSUME NEW h \in Turns, h \in tasks, h \notin tasks' PROVE ~Alive(h)
    BY <1>1, <1>3, <2>1, TasksLeft, InactiveDead DEF NamesHelper
  <2>2. ~At("launching")'
    BY <1>1 DEF At
  <2> QED
    BY <1>5, <2>1, <2>2 DEF TaskEffect, NoDriver, NothingStarts
<1>8. CallEffect
  BY <1>1, <1>5 DEF CallEffect, At
<1> QED
  BY <1>1, <1>5, <1>6, <1>7, <1>8, RequestStays, QuietKeeps

\* get_review that finds its reviewer lost, or the feedback answered.
LEMMA ReviewEndsDrive ==
  ASSUME DriverInv, BaseInv', ReviewLost \/ FeedbackAnswered
  PROVE  DriverInv'
<1>1. /\ UNCHANGED <<session, helper, outside>> /\ sup'.at = "ready"
      /\ tasks' = tasks \/ (At("get_review") /\ sup.review.status \in Reviewing
                              /\ tasks' = WithoutTask(sup.review.token))
  BY DEF ReviewLost, FeedbackAnswered, SupFrame, Goto, Idle
<1>2. At("get_review") /\ sup.review.status \in Reviewing => sup.review.token \in Posts
  BY DEF DriverInv, BaseInv, CallShapes
<1>3. TurnEffect
  BY <1>1 DEF TurnEffect
<1>4. TaskEffect
  BY <1>1, <1>2, TasksLeft DEF TaskEffect
<1> QED
  BY <1>1, <1>3, <1>4, RestingStarts, RequestStays, CallLeft, QuietKeeps

\* cancel_review stops a reviewer, and no worker.
LEMMA CancelDrives ==
  ASSUME DriverInv, BaseInv', CancelReview
  PROVE  DriverInv'
<1> USE Tokens
<1> DEFINE t == sup.review.token
<1>1. /\ At("cancel") /\ helper' = Stop(helper, t) /\ UNCHANGED <<session, outside>>
      /\ sup'.at = "idle" /\ (tasks' = tasks \/ tasks' = WithoutTask(t))
  BY DEF CancelReview, Cancel, SupFrame, Goto, Idle
<1>2. t \in Posts
  BY <1>1 DEF DriverInv, BaseInv, CallShapes
<1>3. helper \in [Helpers -> Helper] /\ Stoppable(helper)
  <2>1. helper \in [Helpers -> Helper] /\ LaunchShapes
    BY DEF DriverInv, BaseInv, TypeOK
  <2>2. \A h \in Helpers : helper[h].at \in {"unused", "written"} => helper[h].driver = "none"
    BY <2>1 DEF LaunchShapes, TurnShape, PostShape, Used, Unused, Early
  <2> QED
    BY <2>1, <2>2 DEF Stoppable
<1>4. Stops(t, helper, helper')
  BY <1>1, <1>3, StopEffect
<1>5. \A h \in Turns : helper'[h] = helper[h]
  BY <1>2, <1>4 DEF Stops, NamesHelper
<1>6. /\ \A h \in Helpers : (Alive(h)' => Alive(h)) /\ (Used(h)' <=> Used(h))
      /\ \A h \in Helpers : helper'[h].driver \in {"none", helper[h].driver}
  BY <1>4 DEF Stops, Alive, Lives, Used
<1>7. NothingStarts
  BY <1>5, <1>6 DEF NothingStarts
<1>8. TurnEffect
  BY <1>1 DEF TurnEffect
<1>9. TaskEffect
  BY <1>1, <1>2, TasksLeft DEF TaskEffect
<1> QED
  BY <1>1, <1>7, <1>8, <1>9, RequestStays, CallLeft, QuietKeeps

\* The acknowledgement of a launch by the supervisor: no driver has started yet.
LEMMA MarkDrives ==
  ASSUME DriverInv, BaseInv', MarkLaunched
  PROVE  DriverInv'
<1>1. /\ UNCHANGED <<helper, tasks, outside>> /\ sup'.at = "idle"
      /\ session' = session \/ MarkSessionLaunched(sup.launch)
  BY DEF MarkLaunched, SupFrame, Goto, Idle
<1>2. session \in Session
  BY DEF DriverInv, BaseInv, TypeOK
<1>3. \/ session' = session
      \/ /\ session.pid \in {"none", "helper"} /\ session.status \in Launched
         /\ session' = [session EXCEPT !.status = "working", !.pid = "helper", !.young = TRUE]
  BY <1>1 DEF MarkSessionLaunched, CanMarkSession, Launched
<1>4. TurnEffect
  <2>1. CASE session' = session
    BY <2>1 DEF TurnEffect
  <2>2. CASE session' # session
    <3>1. /\ session.pid \in {"none", "helper"} /\ session.status \in Launched
          /\ session'.token = session.token /\ session'.status = "working"
      BY <1>2, <1>3, <2>2 DEF Session
    <3>2. NoDriver(helper')
      BY <1>1, <3>1 DEF DriverInv, DriverOwned, NoDriver
    <3> QED
      BY <3>1, <3>2 DEF TurnEffect, Launched
  <2> QED
    BY <2>1, <2>2
<1>5. TaskEffect
  BY <1>1 DEF TaskEffect
<1> QED
  BY <1>1, <1>4, <1>5, RestingStarts, RequestStays, CallLeft, QuietKeeps

\* A launch that fails has not become a process.
LEMMA LaunchFailsDrives ==
  ASSUME DriverInv, BaseInv', LaunchFails
  PROVE  DriverInv'
<1> USE Tokens
<1> DEFINE h == sup.launch
<1>1. /\ At("launching") /\ UNCHANGED outside /\ sup'.at = "idle"
      /\ helper' = [helper EXCEPT ![h] = Gone(h, "none")]
      /\ tasks' = tasks \/ tasks' = tasks \ {h}
      /\ IF h \in Turns THEN PutSession("failed", session.pid) ELSE session' = session
  BY DEF LaunchFails, Goto, Idle
<1>2. /\ h \in Helpers /\ helper[h].at = "written"
      /\ h \in Turns => session.status = "starting" /\ session.pid = "none"
  BY <1>1 DEF DriverInv, BaseInv, CallShapes
<1>3. helper \in [Helpers -> Helper] /\ session \in Session
  BY DEF DriverInv, BaseInv, TypeOK
<1>4. /\ helper'[h].at = "gone" /\ helper'[h].driver = "none"
      /\ \A k \in Helpers \ {h} : helper'[k] = helper[k]
  BY <1>1, <1>2, LeaveEffect DEF DriverInv
<1>5. NothingStarts
  <2>1. \A k \in Helpers : (Alive(k)' => Alive(k)) /\ (Used(k)' <=> Used(k))
    BY <1>2, <1>4 DEF Alive, Lives, Used
  <2>2. \A k \in Helpers : helper'[k].driver \in {"none", helper[k].driver}
    BY <1>4
  <2> QED
    BY <2>1, <2>2 DEF NothingStarts
<1>6. TurnEffect
  <2>1. CASE h \notin Turns
    BY <1>1, <2>1 DEF TurnEffect
  <2>2. CASE h \in Turns
    <3>1. session'.status = "failed" /\ session.status = "starting"
      BY <1>1, <1>2, <1>3, <2>2 DEF PutSession, Session
    <3>2. NoDriver(helper)
      BY <1>2, <2>2 DEF DriverInv, DriverOwned, NoDriver
    <3>3. NoDriver(helper')
      BY <1>4, <3>2 DEF NoDriver
    <3> QED
      BY <3>1, <3>3 DEF TurnEffect, Launched
  <2> QED
    BY <2>1, <2>2
<1>7. TaskEffect
  <2>1. (\A k \in Helpers : k = h => ~Alive(k)') /\ ~At("launching")'
    BY <1>1, <1>4 DEF Alive, Lives, At
  <2> QED
    BY <1>1, <1>4, <2>1 DEF TaskEffect
<1> QED
  BY <1>1, <1>5, <1>6, <1>7, RequestStays, CallLeft, QuietKeeps

\* terminate removes the task files of what it has stopped.
LEMMA RemoveDrives ==
  ASSUME DriverInv, BaseInv', TerminateRemoves
  PROVE  DriverInv'
<1> USE Tokens
<1>1. /\ At("remove") /\ PutSession("terminated", session.pid) /\ sup'.at = "idle"
      /\ UNCHANGED <<helper, pr>>
      /\ \/ tasks' = tasks
         \/ sup.safe /\ tasks' = WithoutTask(sup.session.token) \cap WithoutTask(sup.launch)
  BY DEF TerminateRemoves, Goto, Idle
<1>2. /\ session \in Session /\ session.status # "none"
  BY <1>1 DEF DriverInv, BaseInv, TypeOK, CallShapes
<1>3. /\ \A h \in Turns : NamesHelper(sup.session.token, h) \/ NamesHelper(sup.launch, h) =>
           ~Alive(h)
      /\ sup.safe => NoDriver(helper)
  BY <1>1 DEF DriverInv, Stopped, NoDriver
<1>4. \A h \in Turns : h \in tasks => h \in tasks' \/ (~Alive(h) /\ NoDriver(helper))
  BY <1>1, <1>3, TasksLeft
<1>5. NothingStarts /\ (NoDriver(helper) => NoDriver(helper'))
  BY <1>1, RestingStarts
<1>6. TurnEffect
  <2>1. session'.status = "terminated" /\ session'.pid = session.pid
        /\ session'.token = session.token
    BY <1>1, <1>2 DEF PutSession, Session
  <2> QED
    BY <1>2, <2>1 DEF TurnEffect, Launched
<1>7. TaskEffect
  BY <1>1, <1>4, <1>5, CallLeft DEF TaskEffect, NoDriver, NothingStarts
<1>8. RequestEffect
  BY <1>1 DEF RequestEffect
<1> QED
  BY <1>1, <1>5, <1>6, <1>7, <1>8, CallLeft, QuietKeeps

----------------------------------------------------------------------------
(* Steps of the helpers.                                                   *)

\* A step of a worker's helper that has no driver before or after it, or keeps the one it has.
LEMMA TurnDrives ==
  ASSUME DriverInv, BaseInv', NEW h \in Turns, Alive(h),
         helper' \in [Helpers -> Helper], \A k \in Helpers \ {h} : helper'[k] = helper[k],
         helper'[h].at # "unused", helper'[h].driver \in {"none", helper[h].driver},
         tasks' = tasks \/ Leaves(h),
         session' = session \/ (NoDriver(helper') /\ TurnEffect), UNCHANGED <<sup, pr>>,
         review'.token \in {review.token, NoToken}, session'.token \in {session.token, NoToken}
  PROVE  DriverInv'
<1> USE Tokens
<1>1. NothingStarts
  <2>1. \A k \in Helpers : (Alive(k)' => Alive(k)) /\ (Used(k)' <=> Used(k))
    BY DEF Alive, Lives, Used
  <2>2. \A k \in Helpers : helper'[k].driver \in {"none", helper[k].driver}
    OBVIOUS
  <2> QED
    BY <2>1, <2>2 DEF NothingStarts
<1>2. TurnEffect
  BY DEF TurnEffect
<1>3. TaskEffect
  <2>1. CASE tasks' = tasks
    BY <2>1 DEF TaskEffect
  <2>2. CASE Leaves(h)
    <3>1. helper'[h].at = "gone" /\ helper'[h].driver = "none" /\ tasks' = tasks \ {h}
      BY <2>2, LeaveEffect DEF Leaves, DriverInv
    <3>2. ~(At("launching")' /\ sup'.launch = h)
      <4>1. At("launching") => helper[sup.launch].at = "written"
        BY DEF DriverInv, BaseInv, CallShapes
      <4> QED
        BY <4>1 DEF At, Alive, Lives
    <3> QED
      BY <3>1, <3>2 DEF TaskEffect, Alive, Lives
  <2> QED
    BY <2>1, <2>2
<1>4. CallEffect
  <2>1. SameCall /\ \A k \in Turns : helper'[k].driver = "orphan" => helper[k].driver = "orphan"
    BY DEF SameCall
  <2> QED
    BY <2>1 DEF CallEffect, At
<1>5. RequestEffect
  BY DEF RequestEffect
<1> QED
  BY <1>1, <1>2, <1>3, <1>4, <1>5, QuietKeeps

\* The worker that owns the turn is the only one that may have a driver.
LEMMA OwnerAlone ==
  ASSUME DriverInv, NEW h \in Turns, session.token = h, Leaves(h)
  PROVE  NoDriver(helper')
<1>1. helper'[h].driver = "none" /\ \A k \in Helpers \ {h} : helper'[k] = helper[k]
  BY Tokens, LeaveEffect DEF Leaves, DriverInv
<1> QED
  BY <1>1, Tokens DEF DriverInv, DriverOwned, NoDriver

\* A helper that leaves has left no driver.
LEMMA LeavesTyped ==
  ASSUME BaseInv, NEW h \in Helpers, Leaves(h)
  PROVE  /\ helper' \in [Helpers -> Helper] /\ \A k \in Helpers \ {h} : helper'[k] = helper[k]
         /\ helper'[h].at = "gone" /\ helper'[h].driver = "none" /\ tasks' = tasks \ {h}
BY LeaveEffect DEF Leaves

\* A helper that moves on keeps its driver.
LEMMA MoveTyped ==
  ASSUME BaseInv, NEW h \in Helpers, NEW at \in Positions, Move(h, at)
  PROVE  /\ helper' \in [Helpers -> Helper] /\ \A k \in Helpers \ {h} : helper'[k] = helper[k]
         /\ helper'[h].at = at /\ helper'[h].driver = helper[h].driver
BY DEF Move, BaseInv, TypeOK, Helper

\* mark_session_launched by the helper, and mark_feedback_launched.
LEMMA TurnMovesDrive ==
  ASSUME DriverInv, BaseInv', NEW h \in Turns, TurnAcquires(h) \/ TurnConfirms(h)
  PROVE  DriverInv'
<1> USE Tokens
<1>1. PICK at \in {"acquired", "working"} :
        /\ Leaves(h) \/ (Move(h, at) /\ tasks' = tasks)
        /\ UNCHANGED <<sup, pr>> /\ review'.token = review.token
        /\ session' = session \/ (MarkSessionLaunched(h) /\ helper[h].at = "launched")
  <2>1. CASE TurnAcquires(h)
    BY <2>1 DEF TurnAcquires, HelperFrame, outside
  <2>2. CASE TurnConfirms(h)
    <3>1. review' \in {review, [review EXCEPT !.status = "feedback_sent", !.young = FALSE]}
      BY <2>2 DEF TurnConfirms
    <3>2. review \in Review
      BY DEF DriverInv, BaseInv, TypeOK
    <3>3. review'.token = review.token
      BY <3>1, <3>2 DEF Review
    <3> QED
      BY <2>2, <3>3 DEF TurnConfirms, HelperFrame, outside
  <2> QED
    BY <2>1, <2>2
<1>2. helper[h].at \in {"launched", "prompted"} /\ Alive(h)
  BY DEF TurnAcquires, TurnConfirms, Alive, Lives
<1>3. /\ helper' \in [Helpers -> Helper] /\ \A k \in Helpers \ {h} : helper'[k] = helper[k]
      /\ helper'[h].at # "unused" /\ helper'[h].driver \in {"none", helper[h].driver}
  BY <1>1, LeavesTyped, MoveTyped DEF Positions, DriverInv
<1>4. tasks' = tasks \/ Leaves(h)
  BY <1>1
<1>5. CASE session' = session
  BY <1>1, <1>2, <1>3, <1>4, <1>5, TurnDrives
<1>6. CASE session' # session
  <2>1. /\ session.pid \in {"none", "helper"} /\ session.status \in Launched
        /\ session'.token = session.token /\ session'.status = "working"
    <3>1. session \in Session
      BY DEF DriverInv, BaseInv, TypeOK
    <3>2. /\ session' = [session EXCEPT !.status = "working", !.pid = "helper", !.young = TRUE]
          /\ session.pid \in {"none", "helper"} /\ session.status \in Launched
      BY <1>1, <1>6 DEF MarkSessionLaunched, CanMarkSession, Launched
    <3> QED
      BY <3>1, <3>2 DEF Session
  <2>2. NoDriver(helper)
    BY <2>1 DEF DriverInv, DriverOwned, NoDriver
  <2>3. NoDriver(helper')
    BY <1>3, <2>2 DEF NoDriver
  <2>4. TurnEffect
    BY <2>1, <2>3 DEF TurnEffect, Launched
  <2> QED
    BY <1>1, <1>2, <1>3, <1>4, <2>1, <2>3, <2>4, TurnDrives
<1> QED
  BY <1>5, <1>6

\* A turn ends, for its helper.
LEMMA TurnEndsDrive ==
  ASSUME DriverInv, BaseInv', NEW h \in Turns, TurnRecords(h) \/ TurnRaises(h)
  PROVE  DriverInv'
<1> USE Tokens
<1>1. /\ session \in Session /\ review \in Review
  BY DEF DriverInv, BaseInv, TypeOK
<1>2. /\ Leaves(h) /\ UNCHANGED <<sup, pr>> /\ Alive(h)
      /\ \/ session' = session
         \/ /\ OwnsTurn(h) /\ session'.status \in {"finished", "failed"}
            /\ session'.token \in {session.token, NoToken}
      /\ review'.token \in {review.token, NoToken}
  <2>1. CASE TurnRecords(h)
    <3>1. \/ session' = session
          \/ /\ OwnsTurn(h) /\ session'.status \in {"finished", "failed"}
             /\ session'.token = session.token
      BY <1>1, <2>1 DEF TurnRecords, Session
    <3> QED
      BY <2>1, <3>1 DEF TurnRecords, HelperFrame, outside, Alive, Lives
  <2>2. CASE TurnRaises(h)
    <3>1. /\ Leaves(h) /\ UNCHANGED <<sup, pr>> /\ Alive(h)
          /\ \/ RecoverFeedback /\ OwnsTurn(h)
             \/ /\ review' = review
                /\ session' = IF OwnsTurn(h)
                                THEN [session EXCEPT !.status = "failed", !.pid = "none",
                                                     !.young = FALSE]
                                ELSE session
      BY <2>2 DEF TurnRaises, CanRecover, outside, Alive, Lives
    <3>2. CASE RecoverFeedback /\ OwnsTurn(h)
      BY <1>1, <3>1, <3>2, RecoverTyped
    <3>3. CASE ~RecoverFeedback \/ ~OwnsTurn(h)
      BY <1>1, <3>1, <3>3 DEF Session
    <3> QED
      BY <3>2, <3>3
  <2> QED
    BY <2>1, <2>2
<1>3. /\ helper' \in [Helpers -> Helper] /\ \A k \in Helpers \ {h} : helper'[k] = helper[k]
      /\ helper'[h].at # "unused" /\ helper'[h].driver \in {"none", helper[h].driver}
  BY <1>2, LeavesTyped DEF DriverInv
<1>4. CASE session' = session
  BY <1>2, <1>3, <1>4, TurnDrives
<1>5. CASE session' # session
  <2>1. session.token = h /\ session.status \in Launched
    BY <1>2, <1>5 DEF OwnsTurn
  <2>2. NoDriver(helper')
    BY <1>2, <2>1, OwnerAlone
  <2>3. TurnEffect
    BY <1>2, <1>5, <2>1, <2>2 DEF TurnEffect, Launched
  <2> QED
    BY <1>2, <1>3, <1>5, <2>2, <2>3, TurnDrives
<1> QED
  BY <1>4, <1>5

\* A step of a reviewer's launch does not touch the session or its worker.
LEMMA PostDrives ==
  ASSUME DriverInv, BaseInv', NEW h \in Posts,
         \A k \in Helpers \ {h} : helper'[k] = helper[k],
         helper[h].at # "unused", helper'[h].at # "unused", Lives(helper', h) => Alive(h),
         Alive(h) \/ helper'[h].driver \in {"none", "orphan", helper[h].driver},
         tasks' = tasks \/ tasks' = tasks \ {h}, UNCHANGED <<session, sup, pr>>,
         review'.token = review.token
  PROVE  DriverInv'
<1> USE Tokens
<1>1. NothingStarts
  <2>1. \A k \in Helpers : (Alive(k)' => Alive(k)) /\ (Used(k)' <=> Used(k))
    BY DEF Alive, Lives, Used
  <2>2. \A k \in Turns : helper'[k] = helper[k]
    OBVIOUS
  <2>3. \A k \in Posts : ~Alive(k) => helper'[k].driver \in {"none", "orphan", helper[k].driver}
    OBVIOUS
  <2> QED
    BY <2>1, <2>2, <2>3 DEF NothingStarts
<1>2. TurnEffect /\ TaskEffect /\ RequestEffect
  BY DEF TurnEffect, TaskEffect, RequestEffect
<1>3. CallEffect
  <2>1. SameCall /\ \A k \in Turns : helper'[k].driver = "orphan" => helper[k].driver = "orphan"
    BY DEF SameCall
  <2> QED
    BY <2>1 DEF CallEffect, At
<1> QED
  BY <1>1, <1>2, <1>3, QuietKeeps

\* The steps of a reviewer's helper, and the failures of its commands.
LEMMA JudgementDrives ==
  ASSUME DriverInv, BaseInv', NEW h \in Posts,
         Judgement(h) \/ CommentFails(h) \/ ReviewRaises(h) \/ CommentPosted(h)
  PROVE  DriverInv'
<1> USE Tokens
<1>1. review \in Review /\ helper \in [Helpers -> Helper] /\ PostShape(h)
  BY DEF DriverInv, BaseInv, TypeOK, LaunchShapes
<1>2. UNCHANGED <<session, sup, pr>>
  BY DEF Judgement, ReviewAcquires, ReviewStarts, CommentStarts, ReviewJudged, PostStarts,
     CompleteReview, CommentFails, ReviewRaises, CommentPosted, HelperFrame, outside, rows
<1>3. review' = review \/ review'.token = review.token
  <2>1. ASSUME Raises(h) PROVE review'.token = review.token
    BY <1>1, <2>1 DEF Raises, FailedReview, Review
  <2>2. ASSUME BeginsPost(h) PROVE review' = review \/ review'.token = review.token
    BY <1>1, <2>2 DEF BeginsPost, Review
  <2>3. ASSUME Judgement(h) PROVE review' = review \/ review'.token = review.token
    <3>1. CASE ReviewAcquires(h)
      BY <3>1, Marking DEF ReviewAcquires, DriverInv
    <3>2. CASE ReviewStarts(h)
      BY <1>1, <2>1, <3>2 DEF ReviewStarts, Review
    <3>3. CASE CommentStarts(h)
      BY <2>1, <2>2, <3>3 DEF CommentStarts
    <3>4. CASE ReviewJudged(h)
      <4>1. CASE helper[h].out = "error"
        BY <1>1, <3>4, <4>1 DEF ReviewJudged, Review, Decided
      <4>2. CASE helper[h].out \in Decided /\ CheckoutVerified(h)
        BY <2>2, <3>4, <4>2 DEF ReviewJudged, Decided
      <4>3. CASE helper[h].out # "error" /\ ~(helper[h].out \in Decided /\ CheckoutVerified(h))
        BY <2>1, <3>4, <4>3 DEF ReviewJudged
      <4> QED
        BY <4>1, <4>2, <4>3
    <3>5. CASE PostStarts(h)
      BY <1>1, <2>1, <3>5 DEF PostStarts, Review
    <3>6. CASE CompleteReview(h)
      BY <1>1, <3>6 DEF CompleteReview, Review
    <3> QED
      BY <2>3, <3>1, <3>2, <3>3, <3>4, <3>5, <3>6 DEF Judgement
  <2> QED
    BY <2>1, <2>3 DEF CommentFails, ReviewRaises, CommentPosted, rows
<1>4. /\ helper[h].at # "unused" /\ (Alive(h) \/ CommentPosted(h))
      /\ \/ Leaves(h)
         \/ /\ tasks' = tasks
            /\ \/ \E at \in {"acquired", "posting"} : Move(h, at)
               \/ helper' = [helper EXCEPT ![h].at = "working", ![h].driver = "wrapped"]
               \/ helper' = [helper EXCEPT ![h].at = "commenting", ![h].driver = "comment"]
               \/ CommentPosted(h)
  <2>1. ASSUME Judgement(h) PROVE helper[h].at # "unused" /\ Alive(h)
    BY <2>1 DEF Judgement, ReviewAcquires, ReviewStarts, CommentStarts, ReviewJudged, PostStarts,
       CompleteReview, Alive, Lives
  <2>2. ASSUME CommentFails(h) \/ ReviewRaises(h) PROVE helper[h].at # "unused" /\ Alive(h)
    BY <2>2 DEF CommentFails, ReviewRaises, Alive, Lives
  <2>3. ASSUME CommentPosted(h) PROVE helper[h].at # "unused" /\ tasks' = tasks
    BY <1>1, <2>3 DEF CommentPosted, PostShape, Used, Unused
  <2>4. ASSUME ReviewJudged(h) PROVE Leaves(h) \/ BeginsPost(h)
    BY <2>4 DEF ReviewJudged, Raises
  <2>5. ASSUME Judgement(h)
        PROVE  \/ Leaves(h)
               \/ /\ tasks' = tasks
                  /\ \/ \E at \in {"acquired", "posting"} : Move(h, at)
                     \/ helper' = [helper EXCEPT ![h].at = "working", ![h].driver = "wrapped"]
                     \/ helper' = [helper EXCEPT ![h].at = "commenting", ![h].driver = "comment"]
    BY <2>4, <2>5 DEF Judgement, ReviewAcquires, ReviewStarts, CommentStarts, PostStarts,
       CompleteReview, BeginsPost, Raises
  <2> QED
    BY <2>1, <2>2, <2>3, <2>5 DEF CommentFails, ReviewRaises, Raises
<1>5. /\ \A k \in Helpers \ {h} : helper'[k] = helper[k]
      /\ helper'[h].at # "unused" /\ (Lives(helper', h) => Alive(h))
      /\ Alive(h) \/ helper'[h].driver = "none"
      /\ tasks' = tasks \/ tasks' = tasks \ {h}
  <2>1. CASE Leaves(h)
    BY <2>1, LeavesTyped DEF DriverInv, Lives
  <2>2. CASE CommentPosted(h)
    <3>1. /\ \A k \in Helpers \ {h} : helper'[k] = helper[k]
          /\ helper'[h].at = helper[h].at /\ helper'[h].driver = "none"
      BY <1>1, <2>2 DEF CommentPosted, Helper
    <3> QED
      BY <1>4, <2>2, <3>1 DEF CommentPosted, Alive, Lives
  <2>3. CASE Alive(h) /\ tasks' = tasks /\ \E at \in {"acquired", "posting"} : Move(h, at)
    BY <2>3, MoveTyped DEF DriverInv, Positions
  <2>4. CASE /\ Alive(h) /\ tasks' = tasks
             /\ \/ helper' = [helper EXCEPT ![h].at = "working", ![h].driver = "wrapped"]
                \/ helper' = [helper EXCEPT ![h].at = "commenting", ![h].driver = "comment"]
    BY <1>1, <2>4 DEF Helper
  <2> QED
    BY <1>4, <2>1, <2>2, <2>3, <2>4
<1> QED
  BY <1>2, <1>3, <1>4, <1>5, PostDrives

\* A driver ends.
LEMMA DriverEndsDrives ==
  ASSUME DriverInv, BaseInv', NEW h \in Helpers, DriverEnds(h)
  PROVE  DriverInv'
<1> USE Tokens
<1>1. helper \in [Helpers -> Helper] /\ LaunchShapes
  BY DEF DriverInv, BaseInv, TypeOK
<1>2. /\ \A k \in Helpers \ {h} : helper'[k] = helper[k]
      /\ helper'[h].at = helper[h].at /\ helper'[h].driver = "none"
      /\ UNCHANGED <<session, review, tasks, sup, pr>>
  BY <1>1 DEF DriverEnds, HelperFrame, outside, rows, Helper
<1>3. NothingStarts
  <2>1. \A k \in Helpers : (Alive(k)' => Alive(k)) /\ (Used(k)' <=> Used(k))
    BY <1>2 DEF Alive, Lives, Used
  <2>2. \A k \in Helpers : helper'[k].driver \in {"none", helper[k].driver}
    BY <1>2
  <2> QED
    BY <2>1, <2>2 DEF NothingStarts
<1>4. TurnEffect /\ TaskEffect /\ RequestEffect
  BY <1>2 DEF TurnEffect, TaskEffect, RequestEffect
<1>5. CallEffect
  <2>1. SameCall /\ \A k \in Turns : helper'[k].driver = "orphan" => helper[k].driver = "orphan"
    BY <1>2 DEF SameCall
  <2> QED
    BY <1>2, <2>1 DEF CallEffect, At
<1> QED
  BY <1>3, <1>4, <1>5, QuietKeeps

\* A helper is killed; its driver outlives it and its sentinel only while no call looks.
LEMMA KillDrives ==
  ASSUME KillsInWindow = FALSE, DriverInv, BaseInv', NEW h \in Helpers, KillHelper(h)
  PROVE  DriverInv'
<1> USE Tokens
<1>1. helper \in [Helpers -> Helper] /\ LaunchShapes
  BY DEF DriverInv, BaseInv, TypeOK
<1>2. PICK d \in Survivors(h) :
        helper' = [helper EXCEPT ![h] = [Gone(h, d) EXCEPT
                                           !.out = IF d = "comment" THEN helper[h].out ELSE "none"]]
  BY DEF KillHelper
<1>3. /\ \A k \in Helpers \ {h} : helper'[k] = helper[k]
      /\ helper'[h].at = "gone" /\ helper'[h].driver = d
      /\ UNCHANGED <<session, review, tasks, sup, pr>>
  <2> DEFINE dead == Gone(h, d)
             new == [dead EXCEPT !.out = IF d = "comment" THEN helper[h].out ELSE "none"]
  <2>1. dead.at = "gone" /\ dead.driver = d /\ new.at = dead.at /\ new.driver = dead.driver
    BY <1>1 DEF Gone, Helper
  <2>2. helper' = [helper EXCEPT ![h] = new]
    BY <1>2
  <2> HIDE DEF new
  <2>3. /\ \A k \in Helpers \ {h} : helper'[k] = helper[k]
        /\ helper'[h] = new
    BY <1>1, <2>2
  <2> QED
    BY <2>1, <2>3 DEF KillHelper, outside, rows
<1>4. /\ d \in {"none", helper[h].driver} \/ (helper[h].driver = "wrapped" /\ d = "orphan")
      /\ d = "orphan" /\ helper[h].driver # "orphan" =>
           ~At("refresh") /\ ~At("send")
  BY <1>2 DEF Survivors, At
<1>5. helper[h].at # "unused"
  BY <1>1 DEF KillHelper, Alive, Lives, LaunchShapes, TurnShape, PostShape
<1>6. NothingStarts
  <2>1. \A k \in Helpers : (Alive(k)' => Alive(k)) /\ (Used(k)' <=> Used(k))
    BY <1>3, <1>5 DEF Alive, Lives, Used
  <2>2. \A k \in Helpers : helper'[k].driver \in {"none", helper[k].driver}
                             \/ (helper[k].driver = "wrapped" /\ helper'[k].driver = "orphan")
    BY <1>3, <1>4
  <2> QED
    BY <2>1, <2>2 DEF NothingStarts
<1>7. TurnEffect /\ TaskEffect /\ RequestEffect
  BY <1>3 DEF TurnEffect, TaskEffect, RequestEffect
<1>8. CallEffect
  <2>1. SameCall
    BY <1>3 DEF SameCall
  <2>2. At("refresh")' \/ At("send")' =>
          \A k \in Turns : helper'[k].driver = "orphan" => helper[k].driver = "orphan"
    BY <1>3, <1>4 DEF At
  <2> QED
    BY <1>3, <2>1, <2>2 DEF CallEffect, At
<1> QED
  BY <1>6, <1>7, <1>8, QuietKeeps

\* The world: only a worker opens a pull request.
LEMMA WorldDrives ==
  ASSUME DriverInv, BaseInv', World
  PROVE  DriverInv'
<1> USE Tokens
<1>1. /\ session \in Session /\ sup \in Supervisor
  BY DEF DriverInv, BaseInv, TypeOK
<1>2. /\ UNCHANGED <<helper, tasks>> /\ SameTurn /\ SameCall /\ review'.token = review.token
  <2>1. CASE Age
    <3>1. /\ session' = [session EXCEPT !.young = FALSE]
          /\ review' = [review EXCEPT !.young = FALSE]
          /\ sup' = [sup EXCEPT !.session.young = FALSE, !.review.young = FALSE]
          /\ UNCHANGED <<helper, tasks>>
      BY <2>1 DEF Age
    <3>2. review \in Review
      BY DEF DriverInv, BaseInv, TypeOK
    <3>3. SameTurn
      BY <1>1, <3>1 DEF SameTurn, Session
    <3>4. SameCall
      BY <1>1, <3>1 DEF SameCall, Supervisor, Session
    <3>5. review'.token = review.token
      BY <3>1, <3>2 DEF Review
    <3> QED
      BY <3>1, <3>3, <3>4, <3>5
  <2>2. CASE WorkerPushes \/ TreeDirtied \/ PullRequestEnds
    BY <2>2 DEF WorkerPushes, TreeDirtied, PullRequestEnds, WorldFrame, rows, SameTurn, SameCall
  <2> QED
    BY <2>1, <2>2 DEF World
<1>3. RequestEffect
  <2>1. CASE Age \/ TreeDirtied
    BY <2>1, RequestStays DEF Age, TreeDirtied, RequestEffect, outside
  <2>2. CASE PullRequestEnds
    BY <2>2, RunnerWorld DEF PullRequestEnds, RequestEffect, DriverInv, BaseInv, TypeOK
  <2>3. CASE WorkerPushes
    <3>1. ~NoDriver(helper)
      BY <2>3 DEF WorkerPushes, Works, NoDriver
    <3>2. pr'.state = "open"
      BY <2>3 DEF WorkerPushes, DriverInv, BaseInv, TypeOK
    <3> QED
      BY <3>1, <3>2 DEF RequestEffect
  <2> QED
    BY <2>1, <2>2, <2>3 DEF World
<1>4. TurnEffect /\ TaskEffect
  BY <1>2 DEF TurnEffect, TaskEffect, SameTurn
<1>5. CallEffect
  BY <1>2 DEF CallEffect, SameTurn
<1> QED
  BY <1>2, <1>3, <1>4, <1>5, RestingStarts, QuietKeeps

----------------------------------------------------------------------------
(* Steps that start something, and the one that stops everything.          *)

\* promote_session_driver: the row that lets a driver start names no other one.
LEMMA TurnStartsDrives ==
  ASSUME DriverInv, BaseInv', NEW h \in Turns, TurnStarts(h)
  PROVE  DriverInv'
<1> USE Tokens
<1>1. /\ helper[h].at = "acquired" /\ Alive(h) /\ UNCHANGED <<review, sup, pr>>
      /\ helper \in [Helpers -> Helper] /\ session \in Session
  BY DEF TurnStarts, HelperFrame, outside, Alive, Lives, DriverInv, BaseInv, TypeOK
<1>2. CASE ~CanPromoteSession(h)
  <2>1. Leaves(h) /\ session' = session
    BY <1>2 DEF TurnStarts
  <2>2. /\ helper' \in [Helpers -> Helper] /\ \A k \in Helpers \ {h} : helper'[k] = helper[k]
        /\ helper'[h].at # "unused" /\ helper'[h].driver \in {"none", helper[h].driver}
    BY <2>1, LeavesTyped DEF DriverInv
  <2> QED
    BY <1>1, <2>1, <2>2, TurnDrives
<1>3. CASE CanPromoteSession(h)
  <2>1. /\ session.token = h /\ session.pid = "helper" /\ tasks' = tasks
        /\ session'.status = "working" /\ session'.token = h /\ session'.pid = "driver"
    BY <1>1, <1>3 DEF TurnStarts, CanPromoteSession, Session
  <2>2. /\ \A k \in Helpers \ {h} : helper'[k] = helper[k]
        /\ helper'[h].driver = "wrapped" /\ helper'[h].at \in {"working", "prompted"}
    BY <1>1, <1>3 DEF TurnStarts, Helper
  <2>3. NoDriver(helper)
    BY <2>1 DEF DriverInv, DriverOwned, NoDriver
  <2>4. \A k \in Helpers : (Alive(k)' <=> Alive(k)) /\ (Used(k)' <=> Used(k))
    BY <1>1, <2>2 DEF Alive, Lives, Used
  <2>5. DriverOwned' /\ PidKnown'
    BY <2>1, <2>2, <2>3 DEF DriverOwned, PidKnown, NoDriver, Launched
  <2>6. TaskKept'
    BY <1>1, <2>1, <2>2, <2>4 DEF DriverInv, TaskKept, At
  <2>7. NoReviewYet'
    BY <1>1, <2>1, <2>4 DEF DriverInv, NoReviewYet, At
  <2>8. ~At("remove")
    BY <1>1, <2>1 DEF DriverInv, Stopped, NamesHelper
  <2>9. Stopped' /\ FirstLaunched'
    <3>1. session.status # "none"
      BY <1>3 DEF CanPromoteSession
    <3> QED
      BY <1>1, <2>4, <2>8, <3>1 DEF DriverInv, Stopped, FirstLaunched, At
  <2> QED
    BY <2>5, <2>6, <2>7, <2>9 DEF DriverInv
<1> QED
  BY <1>2, <1>3

\* spawn_worker: the session has no process and no pull request.
LEMMA SpawnDrives ==
  ASSUME DriverInv, BaseInv', SpawnWorker
  PROVE  DriverInv'
<1> USE Tokens
<1>1. /\ session.status = "none" /\ pr' = pr /\ tasks' = {FirstTurn}
      /\ sup' = [Idle EXCEPT !.at = "launching", !.launch = FirstTurn]
      /\ Written(FirstTurn, "worker", 0, 0, "none")
      /\ session' = [NoSession EXCEPT !.status = "starting", !.token = FirstTurn, !.young = TRUE]
  BY DEF SpawnWorker, Launching
<1>2. sup'.at = "launching" /\ sup'.launch = FirstTurn
  BY <1>1 DEF Idle
<1>3. session'.status = "starting"
  BY <1>1 DEF NoSession
<1>4. /\ pr.state = "none"
      /\ \A h \in Helpers : ~Used(h) /\ helper[h] = Unused
  BY <1>1 DEF DriverInv, NoReviewYet, BaseInv, RowShapes, LaunchShapes, TurnShape, PostShape
<1>5. Starts(FirstTurn, "worker", 0, "none")
  BY <1>1, <1>4, NewLaunch DEF DriverInv, Outs
<1>6. /\ \A h \in Helpers : ~Alive(h)' /\ helper'[h].driver = "none"
      /\ \A h \in Posts : ~Used(h)'
      /\ Used(FirstTurn)'
  BY <1>4, <1>5 DEF Starts, Alive, Lives, Used, Unused
<1>7. DriverOwned' /\ TaskKept' /\ PidKnown' /\ Stopped' /\ FirstLaunched'
  BY <1>1, <1>2, <1>6 DEF DriverOwned, TaskKept, PidKnown, Stopped, FirstLaunched, At
<1>8. NoReviewYet'
  BY <1>1, <1>2, <1>3, <1>4, <1>6 DEF NoReviewYet, At
<1> QED
  BY <1>7, <1>8 DEF DriverInv

\* The helper process of a launch starts; its task file is written.
LEMMA LaunchDrives ==
  ASSUME DriverInv, BaseInv', Launch
  PROVE  DriverInv'
<1> USE Tokens
<1> DEFINE h == sup.launch
<1>1. /\ At("launching") /\ UNCHANGED <<session, review, tasks, pr>>
      /\ helper' = [helper EXCEPT ![h].at = "launched"] /\ sup'.at = "marking"
  BY DEF Launch, SupFrame, outside, rows, DriverInv, BaseInv, TypeOK, Supervisor
<1>2. h \in Helpers /\ helper[h].at = "written" /\ helper \in [Helpers -> Helper]
  BY <1>1 DEF DriverInv, BaseInv, CallShapes, TypeOK
<1>3. /\ \A k \in Helpers \ {h} : helper'[k] = helper[k]
      /\ helper'[h].driver = helper[h].driver /\ helper'[h].at = "launched"
  BY <1>1, <1>2 DEF Helper
<1>4. \A k \in Helpers : (Alive(k)' => Alive(k) \/ k = h) /\ (Used(k)' <=> Used(k))
  BY <1>2, <1>3 DEF Alive, Lives, Used
<1>5. \A k \in Helpers : helper'[k].driver = helper[k].driver
  BY <1>3
<1>6. DriverOwned' /\ PidKnown' /\ Stopped'
  BY <1>1, <1>5 DEF DriverInv, DriverOwned, PidKnown, Stopped, At
<1>7. TaskKept'
  BY <1>1, <1>4, <1>5 DEF DriverInv, TaskKept, At
<1>8. NoReviewYet' /\ FirstLaunched'
  BY <1>1, <1>4 DEF DriverInv, NoReviewYet, FirstLaunched, At
<1> QED
  BY <1>6, <1>7, <1>8 DEF DriverInv

\* claim_feedback: a worker is only resumed when no driver is left.
LEMMA SendDrives ==
  ASSUME DriverInv, BaseInv', Send
  PROVE  DriverInv'
<1> USE Tokens
<1> DEFINE s == sup.session
<1>1. PICK h \in Next1(Turns) :
        /\ ClaimFeedback(h) /\ Written(h, "worker", sup.review.run, 0, "none")
        /\ tasks' = tasks \cup {h} /\ Launching(h)
  BY DEF Send
<1>2. /\ At("send") /\ Sendable /\ pr' = pr
      /\ session \in Session /\ sup.review.run \in Runs \cup {0}
  BY DEF Send, SupFrame, outside, DriverInv, BaseInv, TypeOK, Supervisor, Review
<1>3. h \in Turns /\ ~Used(h)
  BY <1>1 DEF Next1, Used
<1>4. sup'.at = "launching" /\ sup'.launch = h
  BY <1>1 DEF Launching, Idle
<1>5. /\ session'.status = "starting" /\ session'.token = h
  BY <1>1, <1>2 DEF ClaimFeedback, Session
<1>6. /\ session.status \notin {"none", "terminated"} /\ session.token \in {s.token, NoToken}
      /\ s.status \notin Launched => session.status = s.status
  BY <1>2 DEF DriverInv, BaseInv, CallShapes
<1>7. NoDriver(helper)
  <2>1. CASE s.status \in Launched
    <3>1. ~Active(helper, s.token, s.pid)
      BY <1>2, <2>1 DEF Sendable
    <3>2. \A k \in Turns : helper[k].driver = "orphan" => s.pid = "driver"
      BY <1>2 DEF DriverInv, PidKnown
    <3> QED
      BY <1>6, <3>1, <3>2, SeenGone
  <2>2. CASE s.status \notin Launched
    BY <1>6, <2>2 DEF DriverInv, DriverOwned, NoDriver
  <2> QED
    BY <2>1, <2>2
<1>8. Starts(h, "worker", sup.review.run, "none")
  BY <1>1, <1>2, <1>3, NewLaunch DEF DriverInv, Outs
<1>9. /\ \A k \in Helpers : Alive(k)' => Alive(k)
      /\ \A k \in Helpers : k # h => (Used(k)' <=> Used(k))
      /\ NoDriver(helper')
  BY <1>3, <1>7, <1>8 DEF Starts, Alive, Lives, Used, NoDriver
<1>10. Used(FirstTurn) /\ h # FirstTurn
  BY <1>3, <1>6 DEF DriverInv, FirstLaunched
<1>11. DriverOwned' /\ PidKnown' /\ Stopped'
  BY <1>4, <1>9 DEF DriverOwned, PidKnown, Stopped, NoDriver, At
<1>12. TaskKept'
  BY <1>1, <1>4, <1>9 DEF DriverInv, TaskKept, NoDriver, At
<1>13. NoReviewYet'
  BY <1>2, <1>3, <1>4, <1>5, <1>9, <1>10 DEF DriverInv, NoReviewYet, At
<1>14. FirstLaunched'
  BY <1>9, <1>10 DEF FirstLaunched
<1> QED
  BY <1>11, <1>12, <1>13, <1>14 DEF DriverInv

\* A reviewer, or a comment retry, is launched beside a worker.
LEMMA ReviewsDrive ==
  ASSUME DriverInv, BaseInv', TriggerReview \/ RetryReviewComment
  PROVE  DriverInv'
<1> USE Tokens
<1>1. PICK h \in Next1(Posts), kind \in {"review", "review_comment"}, run \in Runs \cup {0},
           head \in Heads \cup {0}, out \in Outs :
        Written(h, kind, run, head, out) /\ tasks' = TasksAfter(review, h) /\ Launching(h)
  <2>1. review.verdict \in Decided => review.verdict \in Outs
    BY DEF Outs
  <2>2. review \in Review /\ pr.head \in Heads
    BY DEF DriverInv, BaseInv, TypeOK
  <2>3. CASE TriggerReview
    <3>1. PICK h \in Next1(Posts), run \in Runs :
            Written(h, "review", run, pr.head, "none") /\ tasks' = TasksAfter(review, h)
              /\ Launching(h)
      BY <2>3 DEF TriggerReview
    <3>2. "none" \in Outs
      BY DEF Outs
    <3> QED
      BY <2>2, <3>1, <3>2
  <2>4. CASE RetryReviewComment
    <3> DEFINE r == Settled(review)
    <3>1. /\ r.run = review.run /\ r.target = review.target /\ r.verdict = review.verdict
      BY <2>2 DEF Settled, Review
    <3>2. r.verdict \in Decided
      BY <2>4 DEF RetryReviewComment, CommentMissing
    <3>3. r.run \in Runs \cup {0} /\ r.target \in Heads \cup {0} /\ r.verdict \in Outs
      BY <2>1, <2>2, <3>1, <3>2 DEF Review
    <3>4. \E h \in Next1(Posts) :
            Written(h, "review_comment", r.run, r.target, r.verdict)
              /\ tasks' = TasksAfter(review, h) /\ Launching(h)
      BY <2>4 DEF RetryReviewComment
    <3> QED
      BY <3>3, <3>4
  <2> QED
    BY <2>3, <2>4
<1>2. /\ session' = session /\ pr' = pr /\ pr.state = "open"
  BY DEF TriggerReview, RetryReviewComment, Triggers, SupFrame, outside
<1>3. h \in Posts /\ ~Used(h)
  BY <1>1 DEF Next1, Used
<1>4. sup'.at = "launching" /\ sup'.launch = h
  BY <1>1 DEF Launching, Idle
<1>5. Starts(h, kind, run, out)
  BY <1>1, <1>3, NewLaunch DEF DriverInv
<1>6. /\ \A k \in Helpers : Alive(k)' => Alive(k)
      /\ \A k \in Helpers : k # h => (Used(k)' <=> Used(k))
      /\ \A k \in Turns : helper'[k] = helper[k]
  BY <1>3, <1>5 DEF Starts, Alive, Lives, Used
<1>7. \A k \in Turns : k \in tasks => k \in tasks'
  <2>1. review.status \in Reviewing => review.token \in Posts
    BY DEF DriverInv, BaseInv, RowShapes
  <2> QED
    BY <1>1, <2>1, TasksLeft DEF TasksAfter, Dead
<1>8. DriverOwned' /\ PidKnown' /\ Stopped'
  BY <1>2, <1>4, <1>6 DEF DriverInv, DriverOwned, PidKnown, Stopped, At
<1>9. TaskKept'
  BY <1>3, <1>4, <1>6, <1>7 DEF DriverInv, TaskKept, At
<1>10. NoReviewYet'
  BY <1>2, <1>4 DEF DriverInv, NoReviewYet, At
<1>11. FirstLaunched'
  BY <1>2, <1>3, <1>6 DEF DriverInv, FirstLaunched
<1> QED
  BY <1>8, <1>9, <1>10, <1>11 DEF DriverInv

\* terminate, when it may remove the worktree, has seen the worker's launch end: a driver
\* without helper and sentinel is only missed by a row that is older than its pid, and then
\* there is no other process that could have been seen.
LEMMA NothingSurvives ==
  ASSUME DriverInv, At("terminate"), NEW stopped, Stops(sup.session.token, helper, stopped),
         Over(sup.session, Launched, helper, stopped)
  PROVE  \A h \in Turns : stopped[h].driver = "none"
<1> USE Tokens
<1> DEFINE s == sup.session
<1>1. SUFFICES ASSUME NEW h \in Turns, stopped[h].driver # "none" PROVE FALSE
  OBVIOUS
<1>2. helper[h].driver = stopped[h].driver
  BY <1>1 DEF Stops
<1>3. /\ session.token = h /\ session.pid = "driver" /\ h \in tasks
      /\ session.status \in Launched \cup {"terminated"}
  BY <1>1, <1>2 DEF DriverInv, DriverOwned, TaskKept
<1>4. /\ s.token = h
      /\ s.status \notin Launched => session.pid = s.pid
  BY <1>3 DEF DriverInv, BaseInv, CallShapes
<1>5. stopped[h].driver = "orphan"
  BY <1>1, <1>4 DEF Stops, NamesDriver
<1>6. s.pid # "driver"
  BY <1>3, <1>4, <1>5 DEF Over, Active, TaskExists, NamesHelper
<1>7. s.status \in Launched /\ Owned(helper, h)
  BY <1>3, <1>4, <1>6 DEF Over, Active
<1>8. helper[h].at = "gone"
  BY <1>2, <1>5 DEF DriverInv, BaseInv, LaunchShapes, TurnShape
<1>9. PICK k \in Helpers :
        \/ NamesHelper(h, k) /\ Lives(helper, k)
        \/ NamesDriver(h, k, helper[k].driver) /\ helper[k].driver \in {"wrapped", "comment"}
  BY <1>7 DEF Owned
<1>10. k # h
  BY <1>2, <1>5, <1>8, <1>9 DEF Lives
<1>11. h = FirstTurn
  BY <1>9, <1>10 DEF NamesHelper, NamesDriver
<1>12. CASE k \in Turns
  <2>1. h < k
    <3>1. h = 1 /\ k # 1 /\ k \in 1 .. MaxTurns /\ MaxTurns \in Nat
      BY <1>10, <1>11, <1>12, RunnerBounds DEF Turns
    <3> QED
      BY <3>1
  <2>2. ~Used(k)
    BY <1>3, <1>12, <2>1 DEF DriverInv, BaseInv, TurnsInOrder
  <2>3. helper[k].driver = "none"
    BY <1>3, <1>10, <1>12 DEF DriverInv, DriverOwned
  <2> QED
    BY <1>9, <2>2, <2>3 DEF Lives, Used
<1>13. CASE k \in Posts
  <2>1. ~Used(k)
    BY <1>4, <1>6, <1>7, <1>11, <1>13 DEF DriverInv, NoReviewYet
  <2>2. helper[k].driver = "none"
    BY <1>13, <2>1 DEF DriverInv, BaseInv, LaunchShapes, PostShape, Unused
  <2> QED
    BY <1>9, <2>1, <2>2 DEF Lives, Used
<1> QED
  BY <1>12, <1>13

\* terminate stops what its two tokens name.
LEMMA TerminateDrives ==
  ASSUME DriverInv, BaseInv', TerminateStops
  PROVE  DriverInv'
<1> USE Tokens
<1> DEFINE s == sup.session
           stopped == Stop(helper, s.token)
<1>1. /\ At("terminate") /\ helper' = Stop(stopped, review.token)
      /\ UNCHANGED <<session, pr>>
      /\ sup' = [sup EXCEPT !.at = "remove", !.launch = review.token,
                   !.safe = /\ Over(s, Launched, helper, stopped)
                            /\ Over(review, Reviewing, stopped, helper')]
      /\ IF review.status \in Reviewing THEN Cancel(helper', review)
                                        ELSE UNCHANGED <<review, tasks>>
  BY DEF TerminateStops, SupFrame, outside
<1>2. /\ sup \in Supervisor /\ review \in Review /\ helper \in [Helpers -> Helper]
      /\ LaunchShapes
  BY DEF DriverInv, BaseInv, TypeOK
<1>3. /\ sup'.at = "remove" /\ sup'.launch = review.token
      /\ sup'.session = s /\ (sup'.safe => Over(s, Launched, helper, stopped))
  BY <1>1, <1>2 DEF Supervisor
<1>4. Stoppable(helper)
  <2>1. \A h \in Helpers : helper[h].at \in {"unused", "written"} => helper[h].driver = "none"
    BY <1>2 DEF LaunchShapes, TurnShape, PostShape, Used, Unused, Early
  <2> QED
    BY <1>2, <2>1 DEF Stoppable
<1>5. Stoppable(stopped) /\ Stops(s.token, helper, stopped)
  BY <1>2, <1>4, StopEffect
<1>6. Stops(review.token, stopped, helper')
  BY <1>1, <1>2, <1>5, StopEffect
<1> HIDE DEF stopped
<1>7. /\ \A h \in Helpers : (Alive(h)' => Alive(h)) /\ (Used(h)' <=> Used(h))
      /\ \A h \in Helpers : helper'[h].driver \in {"none", helper[h].driver}
  <2>1. ASSUME NEW h \in Helpers
        PROVE  /\ (Lives(helper', h) => Lives(stopped, h)) /\ (Lives(stopped, h) => Lives(helper, h))
               /\ helper'[h].at = "unused" <=> helper[h].at = "unused"
    BY <1>5, <1>6 DEF Stops, Lives
  <2>2. \A h \in Helpers : helper'[h].driver \in {"none", helper[h].driver}
    BY <1>5, <1>6 DEF Stops
  <2> QED
    BY <2>1, <2>2 DEF Alive, Used
<1>8. review'.token = review.token
  BY ZenonT(60), <1>1, <1>2 DEF Cancel, Review
<1>9. \A h \in Turns : h \in tasks => h \in tasks'
  <2>1. review.status \in Reviewing => review.token \in Posts
    BY DEF DriverInv, BaseInv, RowShapes
  <2> QED
    BY <1>1, <2>1, TasksLeft DEF Cancel
<1>10. DriverOwned' /\ PidKnown' /\ FirstLaunched'
  BY <1>1, <1>3, <1>7 DEF DriverInv, DriverOwned, PidKnown, FirstLaunched, At
<1>11. TaskKept'
  BY <1>3, <1>7, <1>9 DEF DriverInv, TaskKept, At
<1>12. NoReviewYet'
  BY <1>1, <1>3, <1>7 DEF DriverInv, NoReviewYet, At
<1>13. Stopped'
  <2>1. session'.token \in {sup'.session.token, NoToken}
    BY <1>1, <1>3 DEF DriverInv, BaseInv, CallShapes
  <2>2. ASSUME NEW h \in Helpers, NamesHelper(s.token, h) \/ NamesHelper(review.token, h)
        PROVE  ~Lives(helper', h)
    BY <1>5, <1>6, <2>2 DEF Stops, NamesHelper, Lives
  <2>3. \A h \in Posts : h = review.token => helper'[h].driver \in {"none", "orphan"}
    BY <1>6 DEF Stops, NamesDriver
  <2>4. sup'.safe => \A h \in Turns : helper'[h].driver = "none"
    <3>1. sup'.safe => \A h \in Turns : stopped[h].driver = "none"
      BY <1>1, <1>3, <1>5, NothingSurvives
    <3> QED
      BY <1>6, <3>1 DEF Stops
  <2>5. \A h \in Helpers : NamesHelper(sup'.session.token, h) \/ NamesHelper(sup'.launch, h) =>
          ~Alive(h)'
    BY <1>3, <2>2 DEF Alive
  <2> QED
    BY <1>3, <1>8, <2>1, <2>3, <2>4, <2>5 DEF Stopped, NamesHelper
<1> QED
  BY <1>10, <1>11, <1>12, <1>13 DEF DriverInv

----------------------------------------------------------------------------
(* The invariant, and the theorems.                                        *)

\* The driver invariant holds at the start.
LEMMA InitDriver == Init => DriverInv
<1> SUFFICES ASSUME Init PROVE DriverInv
  OBVIOUS
<1>1. BaseInv
  BY InitBase
<1>2. /\ session.status = "none" /\ pr.state = "none" /\ sup.at = "idle"
      /\ \A h \in Helpers : helper[h] = Unused
  BY DEF Init, NoSession, Idle
<1>3. \A h \in Helpers : ~Alive(h) /\ ~Used(h) /\ helper[h].driver = "none"
  BY <1>2 DEF Alive, Lives, Used, Unused
<1> QED
  BY <1>1, <1>2, <1>3, Tokens DEF DriverInv, DriverOwned, TaskKept, PidKnown, NoReviewYet, Stopped,
     FirstLaunched, At

\* Every step keeps the driver invariant, if no driver loses helper and sentinel while a call
\* holds an old row.
LEMMA NextKeepsDriver ==
  ASSUME KillsInWindow = FALSE, DriverInv, [Next]_vars
  PROVE  DriverInv'
<1> USE Tokens
<1>1. BaseInv'
  BY NextKeepsBase DEF DriverInv
<1>2. CASE UNCHANGED vars
  <2>1. /\ session' = session /\ review' = review /\ helper' = helper /\ tasks' = tasks
        /\ sup' = sup /\ UNCHANGED outside
    BY <1>2 DEF vars, rows
  <2>2. TurnEffect /\ TaskEffect
    BY <2>1 DEF TurnEffect, TaskEffect
  <2>3. CallEffect
    BY <2>1 DEF CallEffect, SameCall
  <2> QED
    BY <1>1, <2>1, <2>2, <2>3, RestingStarts, RequestStays, QuietKeeps
<1>3. CASE Poll
  BY <1>1, <1>3, ReadsDrive, LostDrives, RecoversDrive, StatesDrive, ReviewEndsDrive DEF Poll
<1>4. CASE Call
  BY <1>1, <1>4, ReadsDrive, SpawnDrives, ReviewsDrive DEF Call
<1>5. CASE Called
  BY <1>1, <1>5, ReadsDrive, LaunchDrives, MarkDrives, CancelDrives, RecoversDrive, SendDrives,
     TerminateDrives, RemoveDrives DEF Called
<1>6. CASE Processes
  <2>1. ASSUME NEW h \in Turns, Turn(h) PROVE DriverInv'
    BY <1>1, <2>1, TurnMovesDrive, TurnStartsDrives, TurnEndsDrive DEF Turn
  <2>2. ASSUME NEW h \in Posts, Judgement(h) PROVE DriverInv'
    BY <1>1, <2>2, JudgementDrives
  <2>3. ASSUME NEW h \in Helpers, Ends(h) PROVE DriverInv'
    <3>1. CASE DriverEnds(h)
      BY <1>1, <3>1, DriverEndsDrives
    <3>2. CASE CommentPosted(h)
      <4>1. h \in Posts
        BY <3>2 DEF CommentPosted, DriverInv, BaseInv, LaunchShapes, TurnShape
      <4> QED
        BY <1>1, <3>2, <4>1, JudgementDrives
    <3> QED
      BY <2>3, <3>1, <3>2 DEF Ends
  <2> QED
    BY <1>6, <2>1, <2>2, <2>3 DEF Processes
<1>7. CASE Faults
  <2>1. ASSUME NEW h \in Helpers, TurnRaises(h) PROVE DriverInv'
    BY <1>1, <2>1, TurnEndsDrive DEF TurnRaises
  <2>2. ASSUME NEW h \in Helpers, CommentFails(h) \/ ReviewRaises(h) PROVE DriverInv'
    <3>1. h \in Posts
      BY <2>2 DEF CommentFails, ReviewRaises, DriverInv, BaseInv, LaunchShapes, TurnShape
    <3> QED
      BY <1>1, <2>2, <3>1, JudgementDrives
  <2>3. ASSUME NEW h \in Helpers, KillHelper(h) PROVE DriverInv'
    BY <1>1, <2>3, KillDrives
  <2> QED
    BY <1>1, <1>7, <2>1, <2>2, <2>3, ReadsDrive, LaunchFailsDrives DEF Faults
<1>8. CASE World
  BY <1>1, <1>8, WorldDrives
<1> QED
  BY <1>2, <1>3, <1>4, <1>5, <1>6, <1>7, <1>8 DEF Next

\* The processes, the task files and the two rows stay as DriverInv says, when no driver
\* loses helper and sentinel while a call holds an old row.
THEOREM DriverInvariance ==
  ASSUME KillsInWindow = FALSE
  PROVE  Spec => []DriverInv
<1>1. DriverInv /\ [Next]_vars => DriverInv'
  BY NextKeepsDriver
<1> QED
  BY <1>1, InitDriver, PTL DEF Spec

\* One coding CLI at most works on the session's worktree, and one command at most posts a
\* comment: the driver is the one that the row names (promote_session_driver,
\* mark_review_post_process), and the row never names another one while it lives.
THEOREM OneDriverWorks ==
  ASSUME KillsInWindow = FALSE
  PROVE  Spec => []OneDriver
<1>1. DriverInv => OneDriver
  <2> SUFFICES ASSUME DriverInv PROVE OneDriver
    OBVIOUS
  <2>1. ASSUME NEW S, NEW x, S \subseteq {x} PROVE Cardinality(S) <= 1
    <3>1. S = {} \/ S = {x}
      BY <2>1
    <3>2. Cardinality({}) = 0 /\ Cardinality({x}) = 1
      BY FS_EmptySet, FS_Singleton
    <3> QED
      BY <3>1, <3>2
  <2>2. {h \in Turns : helper[h].driver # "none"} \subseteq {session.token}
    BY DEF DriverInv, DriverOwned
  <2>3. {h \in Posts : helper[h].driver = "comment"} \subseteq {review.token}
    BY DEF DriverInv, BaseInv, CommentOwned
  <2> HIDE DEF Posts, Turns
  <2>4. Cardinality({h \in Turns : helper[h].driver # "none"}) <= 1
    BY <2>1, <2>2
  <2>5. Cardinality({h \in Posts : helper[h].driver = "comment"}) <= 1
    BY <2>1, <2>3
  <2> QED
    BY <2>4, <2>5 DEF OneDriver
<1> QED
  BY <1>1, DriverInvariance, PTL

\* Only terminate removes a worktree, and only when it has found the launches over.
LEMMA TreeStays ==
  ASSUME TypeOK, [Next]_vars, tree.there, ~tree'.there
  PROVE  TerminateRemoves /\ sup.safe
<1>1. tree \in [there: BOOLEAN, head: Heads, clean: BOOLEAN]
  BY DEF TypeOK
<1>2. tree' # tree
  OBVIOUS
<1>3. ~UNCHANGED vars
  BY <1>2 DEF vars, outside
<1>4. ~Poll
  BY <1>2 DEF Poll, ReadSession, RefreshNothing, RefreshFeedbackSent, RefreshRecovers, RefreshLost,
     RefreshPullRequest, ReviewLost, FeedbackAnswered, ReviewRecovers, FeedbackIgnored,
     ReviewUnchanged, SupFrame, outside
<1>5. ~Call
  <2>1. ~SpawnWorker
    BY <1>1 DEF SpawnWorker
  <2> QED
    BY <1>2, <2>1 DEF Call, RetryReviewComment, TriggerReview, ReadToCancel, ReadToSend,
       ReadToTerminate, SupFrame, outside
<1>6. Called => TerminateRemoves /\ sup.safe
  BY <1>2 DEF Called, Launch, MarkLaunched, CancelReview, SendRecovers, SendRefused, Send,
     TerminateStops, TerminateRemoves, SupFrame, outside
<1>7. ~Processes
  BY <1>2 DEF Processes, Turn, TurnAcquires, TurnStarts, TurnConfirms, TurnRecords, Judgement,
     ReviewAcquires, ReviewStarts, CommentStarts, ReviewJudged, PostStarts, CompleteReview, Ends,
     DriverEnds, CommentPosted, HelperFrame, outside
<1>8. ~Faults
  BY <1>2 DEF Faults, LaunchFails, SupervisorCrash, TurnRaises, CommentFails, ReviewRaises,
     KillHelper, outside
<1>9. ~World
  <2>1. ~WorkerPushes
    BY <1>1 DEF WorkerPushes
  <2>2. ~TreeDirtied
    BY <1>1 DEF TreeDirtied
  <2> QED
    BY <1>2, <2>1, <2>2 DEF World, PullRequestEnds, Age, outside
<1> QED
  BY <1>3, <1>4, <1>5, <1>6, <1>7, <1>8, <1>9 DEF Next

\* terminate never takes the worktree from under a worker, even one that has outlived its
\* helper and its sentinel, nor from under a command that posts the review's comment.
THEOREM WorktreeStays ==
  ASSUME KillsInWindow = FALSE
  PROVE  Spec => WorktreeKept
<1> DEFINE Idles == /\ \A h \in Turns : helper[h].driver = "none"
                    /\ \A h \in Posts : h = review.token => helper[h].driver \in {"none", "orphan"}
<1>1. DriverInv /\ [Next]_vars => [tree.there /\ ~tree'.there => Idles]_vars
  <2> SUFFICES ASSUME DriverInv, [Next]_vars, tree.there, ~tree'.there PROVE Idles
    OBVIOUS
  <2>1. At("remove") /\ sup.safe
    BY TreeStays DEF DriverInv, BaseInv, TerminateRemoves
  <2>2. /\ review.token \in {sup.launch, NoToken}
        /\ \A h \in Posts : h = sup.launch => helper[h].driver \in {"none", "orphan"}
        /\ \A h \in Turns : helper[h].driver = "none"
    BY <2>1 DEF DriverInv, Stopped
  <2> QED
    BY <2>2, Tokens
<1> QED
  BY <1>1, DriverInvariance, PTL DEF Spec, WorktreeKept
=============================================================================
