----------------------------- MODULE RunnerInv -----------------------------
(***************************************************************************)
(* The inductive invariants of ProcessRunner.  BaseInv holds for every     *)
(* value of the constants; DriverInv adds what is known of the processes   *)
(* when no driver loses helper and sentinel while a call holds an old row  *)
(* (KillsInWindow = FALSE).                                                *)
(***************************************************************************)
EXTENDS ProcessRunner

Used(h) == helper[h].at # "unused"
UsedRun(run) == \E k \in Posts : helper[k].run = run
Early == {"written", "launched", "acquired"}

\* A launch that still has a verdict to post, or may be posting it.
Carries(k) ==
  \/ helper[k].kind = "review_comment" /\ helper[k].at \in Early
  \/ helper[k].at \in {"posting", "commenting"}
  \/ helper[k].driver = "comment"

\* The launch of a worker's turn by its position.
TurnShape(h) ==
  /\ ~Used(h) => helper[h] = Unused
  /\ helper[h].at \notin {"posting", "commenting"}
  /\ helper[h].at \in Early => helper[h].driver = "none"
  /\ helper[h].driver # "comment"
  /\ helper[h].driver = "wrapped" => helper[h].at \in {"prompted", "working", "gone"}
  /\ helper[h].driver = "orphan" => helper[h].at = "gone"
  /\ helper[h].at = "prompted" => helper[h].run \in Runs
  /\ helper[h].run # 0 => UsedRun(helper[h].run)

\* The launch of a reviewer or of a comment retry by its position.
PostShape(h) ==
  /\ ~Used(h) => helper[h] = Unused
  /\ Used(h) => helper[h].run \in Runs /\ helper[h].kind # "worker"
  /\ helper[h].at # "prompted"
  /\ helper[h].at \in Early \cup {"posting"} => helper[h].driver = "none"
  /\ helper[h].at = "working" => helper[h].kind = "review"
  /\ helper[h].kind = "review" /\ helper[h].at \in Early => helper[h].out = "none"
  /\ helper[h].at = "working" /\ helper[h].driver # "none" => helper[h].out = "none"
  /\ Carries(h) => helper[h].out \in Decided
  /\ helper[h].at = "commenting" =>
       \/ helper[h].driver = "comment"
       \/ helper[h].driver = "none" /\ helper[h].out \in said[helper[h].run]
  /\ helper[h].driver = "wrapped" => helper[h].at \in {"working", "gone"}
  /\ helper[h].driver = "orphan" => helper[h].at = "gone"
  /\ helper[h].driver = "comment" => helper[h].at \in {"commenting", "gone"}

LaunchShapes == (\A h \in Turns : TurnShape(h)) /\ (\A h \in Posts : PostShape(h))

\* Turns are launched in the order of their tokens, and the session's is the last one.
TurnsInOrder ==
  /\ \A h, k \in Turns : h < k /\ ~Used(h) => ~Used(k)
  /\ session.token # NoToken =>
       Used(session.token) /\ \A k \in Turns : session.token < k => ~Used(k)

RowShapes ==
  /\ session.status = "none" => session.token = NoToken /\ \A h \in Helpers : ~Used(h)
  /\ review.status = "none" <=> review.run = 0
  /\ review.status # "none" => review.target \in Heads /\ UsedRun(review.run)
  /\ review.status \in Reviewing =>
       review.token \in Posts /\ helper[review.token].run = review.run
       /\ Used(review.token)
  /\ review.status \in Feedback =>
       review.token \in Turns /\ helper[review.token].run = review.run

\* What a call holds still fits the rows.
CallShapes ==
  /\ At("launching") =>
       /\ sup.launch \in Helpers /\ helper[sup.launch].at = "written"
       /\ sup.launch \in Turns =>
            /\ session.token = sup.launch
            /\ session.status = "starting" /\ session.pid = "none"
            /\ helper[sup.launch].run = review.run => review.status \in Feedback \cup {"none"}
       /\ sup.launch \in Posts =>
            /\ review.token = sup.launch /\ review.status = "starting"
            /\ review.pid = "none"
  /\ At("marking") => sup.launch \in Helpers /\ Used(sup.launch)
  /\ (At("get_review") \/ At("cancel")) /\ sup.review.status \in Reviewing =>
         /\ sup.review.token \in Posts /\ review.token = sup.review.token
         /\ review.status \in Reviewing \cup {"completed", "failed"}
  /\ At("get_review") /\ sup.review.status \in Feedback =>
         review.status \in Feedback \cup {"completed"}
  /\ At("cancel") => sup.review.status \in Reviewing
  /\ At("refresh") \/ At("send") \/ At("terminate") =>
       /\ sup.session.status # "none" /\ session.status # "none"
       /\ session.token \in {sup.session.token, NoToken}
       /\ sup.session.status \notin Launched =>
            /\ session.status = sup.session.status /\ session.token = sup.session.token
            /\ session.pid = sup.session.pid
       /\ sup.session.status \in Launched => session.status # "terminated"
  /\ At("send") => session.status # "terminated"
  /\ At("remove") => session.status # "none"

\* All that still speaks for a run says the same.
OneVoice ==
  /\ \A k, l \in Posts : Carries(k) /\ Carries(l) /\ helper[k].run = helper[l].run =>
                           helper[k].out = helper[l].out
  /\ \A k \in Posts : Carries(k) => said[helper[k].run] \subseteq {helper[k].out}

\* A verdict that a review holds is the one that was, and will be, said.
DurableVerdict ==
  review.verdict \in Decided /\ review.status # "none" =>
    /\ said[review.run] \subseteq {review.verdict}
    /\ \A k \in Posts : Carries(k) /\ helper[k].run = review.run =>
                          helper[k].out = review.verdict

\* Before the first verdict nothing has been said; after it there are only retries.
FirstVerdict ==
  review.status \in {"starting", "running"} =>
    IF review.verdict \in Decided
      THEN helper[review.token].kind = "review_comment"
      ELSE /\ helper[review.token].kind = "review"
           /\ said[review.run] = {}
           /\ \A k \in Posts : helper[k].run = review.run => ~Carries(k)

PostedVerdict ==
  /\ review.status = "posting" =>
       /\ review.verdict \in Decided
       /\ helper[review.token].at \in {"posting", "commenting", "gone"}
  /\ review.status \in {"completed"} \cup Feedback =>
       review.verdict \in Decided /\ review.verdict \in said[review.run]

Consistent ==
  /\ \A run \in Runs : said[run] # {} => UsedRun(run)
  /\ \A run \in Runs : \A v, w \in said[run] : v = w

OneVerdict == OneVoice /\ DurableVerdict /\ FirstVerdict /\ PostedVerdict /\ Consistent

\* How often a run's feedback was delivered, by what has become of its claims.
DeliveredOnce == \A run \in Runs : prompted[run] <= 1 + faults

FreshCounts ==
  /\ \A run \in Runs : ~UsedRun(run) => prompted[run] = 0
  /\ \A run \in Runs, h \in Turns : ~Used(h) => prompted[run] < h

ClaimCounts ==
  \A h \in Turns : session.token = h /\ helper[h].run # 0 /\ helper[h].at \in Early =>
    prompted[helper[h].run] <= faults /\ prompted[helper[h].run] < h

UnclaimedCounts ==
  review.status \notin Feedback \cup {"none"} => prompted[review.run] <= faults

\* A claim that may be rolled back was not delivered, or is being delivered.
ClaimPending ==
  review.status = "feedback_starting" /\ OwnsTurn(review.token) /\ ~At("remove") =>
    prompted[review.run] <= faults \/ helper[review.token].at = "prompted"

\* While the session works on a run's findings, the run's claim is that launch's.
ClaimLasts ==
  \A h \in Turns :
    session.token = h /\ session.status \in Launched
      /\ helper[h].run # 0 /\ helper[h].run = review.run =>
    review.status \in Feedback /\ review.token = h

Deliveries ==
  /\ DeliveredOnce /\ FreshCounts /\ ClaimCounts /\ UnclaimedCounts /\ ClaimPending
  /\ ClaimLasts

\* The gh command that posts a comment is that of the run that the row is posting.
CommentOwned ==
  \A k \in Posts : helper[k].driver = "comment" =>
    review.token = k /\ review.status = "posting"

\* What the steps of the world and of the faults type, apart from the rest.
WorldTyped ==
  /\ tree \in [there: BOOLEAN, head: Heads, clean: BOOLEAN]
  /\ pr \in [state: {"none", "open", "merged", "closed"}, head: Heads]
  /\ report \in BOOLEAN /\ faults \in 0 .. MaxFaults

BaseInv ==
  TypeOK /\ LaunchShapes /\ TurnsInOrder /\ RowShapes /\ CallShapes /\ CommentOwned
  /\ OneVerdict /\ Deliveries

----------------------------------------------------------------------------

\* A worker's driver is the one that the session row names.
DriverOwned ==
  \A h \in Turns : helper[h].driver # "none" =>
    /\ session.token = h /\ session.pid = "driver"
    /\ session.status \in Launched \cup {"terminated"}

\* The task file of a turn that is alive, or that left a driver, is there.
TaskKept ==
  \A h \in Turns : Alive(h) \/ helper[h].driver # "none" \/ (At("launching") /\ sup.launch = h)
    => h \in tasks

\* A call that looks for a driver without helper and sentinel has the pid to find it by.
PidKnown ==
  \A h \in Turns : helper[h].driver = "orphan" /\ (At("refresh") \/ At("send")) =>
    sup.session.pid = "driver"

\* Until its first driver starts, a session has no pull request, and so no reviewer.
NoReviewYet ==
  /\ pr.state = "none" => \A k \in Posts : ~Used(k)
  /\ session.status = "none" => pr.state = "none"
  /\ session.token = FirstTurn /\ session.status \in Launched /\ session.pid # "driver" =>
       pr.state = "none"
  /\ At("terminate") /\ sup.session.token = FirstTurn /\ sup.session.status \in Launched
       /\ sup.session.pid # "driver" => \A k \in Posts : ~Used(k)

\* Before the worktree is removed, terminate has stopped what its tokens name.
Stopped ==
  At("remove") =>
    /\ session.token \in {sup.session.token, NoToken}
    /\ review.token \in {sup.launch, NoToken}
    /\ \A h \in Helpers : NamesHelper(sup.session.token, h) \/ NamesHelper(sup.launch, h) =>
         ~Alive(h)
    /\ \A h \in Posts : h = sup.launch => helper[h].driver \in {"none", "orphan"}
    /\ sup.safe => \A h \in Turns : helper[h].driver = "none"

\* A session begins with its first turn.
FirstLaunched == session.status # "none" => Used(FirstTurn)

DriverInv ==
  /\ BaseInv /\ DriverOwned /\ TaskKept /\ PidKnown /\ NoReviewYet /\ Stopped
  /\ FirstLaunched
=============================================================================
