---------------------------- MODULE ApprovalGate ----------------------------
(***************************************************************************)
(* One protected work item on its way to a merge: the durable job row      *)
(* (service.py), the workflow checkpoint and graph nodes (graph.py), the   *)
(* background service that reconciles the row, manual ticks that run the   *)
(* same graph beside it, users who decide at the approval gate (cli.py),   *)
(* and a change whose head, review and checks move on their own.           *)
(***************************************************************************)
EXTENDS Naturals

CONSTANTS
  Service,       \* the project's background service
  Ticks,         \* manual `oa tick` processes
  Users,         \* `oa approve` commands that may run at the same time
  MaxHead,       \* bound: heads the change can have
  MaxFaults      \* bound: crashes, exceptions, outages and refusals

ASSUME BoundsNatural == MaxHead \in Nat \ {0} /\ MaxFaults \in Nat
ASSUME ServiceDistinct == Service \notin Ticks

Runs == Ticks \cup {Service}
Heads == 1 .. MaxHead
NoHead == 0
HeadOrNone == Heads \cup {NoHead}
Decisions == {"approve", "reject"}

Nodes == {"start", "worker", "inspect", "verify", "gate", "merge", "cleanup", "end"}
Statuses == {"new", "worker_running", "waiting", "worker_unhealthy", "review_pending",
             "review_approved", "review_stale", "waiting_change_gate", "awaiting_approval",
             "ready_to_merge", "approval_recorded", "approval_rejected", "merged", "completed"}
Terminal == {"completed", "approval_rejected"}

\* SupervisorState with the checkpoint's next node: target is review_target_sha, gate is
\* change_head_sha, approved is the head of a recorded approval.
Checkpoint == [next: Nodes, status: Statuses, target: HeadOrNone, gate: HeadOrNone,
               approved: HeadOrNone]

\* A row of supervisor_jobs.  "waiting" stands for every other active status.
JobStatuses == {"queued", "awaiting_approval", "approval_resuming", "retrying_after_error",
                "waiting_for_ao", "waiting"} \cup Terminal
Job == [active: BOOLEAN, status: JobStatuses, gate: HeadOrNone,
        decision: Decisions \cup {"none"}]

Phases == {"idle", "claim", "rebind", "resume", "clear", "run", "merging", "publish"}
UserSteps == [at: {"idle", "read", "checked"}, gate: HeadOrNone,
              decision: Decisions \cup {"none"}]

VARIABLES
  head, ready, reviewed, merged,  \* the change: head, gates, approved review, merged head
  worker,                         \* the item's worker session
  ckpt,                           \* the thread's latest checkpoint
  job,                            \* the job row
  phase, mem,                     \* each run: what it does next, its state in memory
  seen, claimed,                  \* the service: gate it saw, decision it claimed
  user,                           \* each `oa approve` in progress
  authorized,                     \* heads whose approval a user has queued
  faults                          \* faults so far

change == <<head, ready, reviewed, merged>>
vars == <<change, worker, ckpt, job, phase, mem, seen, claimed, user, authorized, faults>>

Fresh == [next |-> "end", status |-> "new", target |-> NoHead, gate |-> NoHead,
          approved |-> NoHead]
NoUser == [at |-> "idle", gate |-> NoHead, decision |-> "none"]

TypeOK ==
  /\ head \in Heads /\ ready \in BOOLEAN
  /\ reviewed \in HeadOrNone /\ merged \in HeadOrNone
  /\ worker \in {"none", "active", "gone"}
  /\ ckpt \in Checkpoint /\ job \in Job
  /\ phase \in [Runs -> Phases] /\ mem \in [Runs -> Checkpoint]
  /\ seen \in HeadOrNone /\ claimed \in Decisions \cup {"none"}
  /\ user \in [Users -> UserSteps]
  /\ authorized \subseteq Heads
  /\ faults \in 0 .. MaxFaults

Init ==
  /\ head = 1 /\ ready = FALSE /\ reviewed = NoHead /\ merged = NoHead
  /\ worker = "none"
  /\ ckpt = Fresh
  /\ job = [active |-> TRUE, status |-> "queued", gate |-> NoHead, decision |-> "none"]
  /\ phase = [r \in Runs |-> "idle"]
  /\ mem = [r \in Runs |-> Fresh]
  /\ seen = NoHead /\ claimed = "none"
  /\ user = [u \in Users |-> NoUser]
  /\ authorized = {} /\ faults = 0

AtGate == ckpt.next = "gate"

----------------------------------------------------------------------------
(* The graph's nodes.  Each ends with a checkpoint, and the checkpoint     *)
(* written last is the thread's state, whichever run wrote it.             *)

Goto(r, p) == phase' = [phase EXCEPT ![r] = p]
Save(r, c) == mem' = [mem EXCEPT ![r] = c] /\ ckpt' = c
Running(r, node) == phase[r] = "run" /\ mem[r].next = node

\* What a run leaves alone when it executes a node.
NodeFrame == UNCHANGED <<job, seen, claimed, user, authorized, faults>>

\* The node returns an update with this status, and its edge leads to next.
Return(r, status, next) == Save(r, [mem[r] EXCEPT !.status = status, !.next = next])

\* Mutant: the entry guard forgets that a rejection is final.
GuardCompletedOnly(r) ==
  /\ Running(r, "start")
  /\ Return(r, mem[r].status,
            CASE mem[r].status = "merged" -> "cleanup"
              [] mem[r].status = "completed" -> "end"
              [] OTHER -> "worker")
  /\ UNCHANGED <<change, worker, phase>> /\ NodeFrame

\* guard_existing_state and its edges.
GuardExistingState(r) ==
  /\ Running(r, "start")
  /\ Return(r, mem[r].status,
            CASE mem[r].status = "merged" -> "cleanup"
              [] mem[r].status \in Terminal -> "end"
              [] OTHER -> "worker")
  /\ UNCHANGED <<change, worker, phase>> /\ NodeFrame

\* load_work_item, select_route, check_capacity and ensure_worker: the run reuses the
\* item's active worker or starts one.
EnsureWorker(r) ==
  /\ Running(r, "worker")
  /\ worker' = "active"
  /\ Return(r, "worker_running", "inspect")
  /\ UNCHANGED <<change, phase>> /\ NodeFrame

\* inspect_worker: an inactive worker, no approved review yet, or an approved one.
InspectWorker(r) ==
  /\ Running(r, "inspect")
  /\ \/ worker # "active" /\ Return(r, "worker_unhealthy", "end")
     \/ worker = "active" /\ reviewed = NoHead /\ Return(r, "review_pending", "end")
     \/ /\ worker = "active" /\ reviewed # NoHead
        /\ Save(r, [mem[r] EXCEPT !.status = "review_approved", !.target = reviewed,
                                  !.next = "verify"])
  /\ UNCHANGED <<change, worker, phase>> /\ NodeFrame

\* ChangeRequest.ready: open, and every gate is green.
ChangeReady == ready /\ merged = NoHead

\* Mutant: any recorded approval will do, whatever head it was for.
VerifyAnyApproval(r) ==
  /\ Running(r, "verify")
  /\ LET c == [mem[r] EXCEPT !.gate = head]
     IN Save(r,
          CASE head # c.target -> [c EXCEPT !.status = "review_stale", !.next = "end"]
            [] head = c.target /\ ~ChangeReady ->
                 [c EXCEPT !.status = "waiting_change_gate", !.next = "end"]
            [] head = c.target /\ ChangeReady /\ c.approved = NoHead ->
                 [c EXCEPT !.status = "awaiting_approval", !.next = "gate"]
            [] OTHER -> [c EXCEPT !.status = "ready_to_merge", !.next = "merge"])
  /\ UNCHANGED <<change, worker, phase>> /\ NodeFrame

\* verify_change and its edges, for a work item that requires approval.
VerifyChange(r) ==
  /\ Running(r, "verify")
  /\ LET c == [mem[r] EXCEPT !.gate = head]
     IN Save(r,
          CASE head # c.target -> [c EXCEPT !.status = "review_stale", !.next = "end"]
            [] head = c.target /\ ~ChangeReady ->
                 [c EXCEPT !.status = "waiting_change_gate", !.next = "end"]
            [] head = c.target /\ ChangeReady /\ c.approved # head ->
                 [c EXCEPT !.status = "awaiting_approval", !.next = "gate"]
            [] OTHER -> [c EXCEPT !.status = "ready_to_merge", !.next = "merge"])
  /\ UNCHANGED <<change, worker, phase>> /\ NodeFrame

\* A run stops halfway: what it held in memory is gone.
Stop(r) ==
  /\ Goto(r, "idle")
  /\ mem' = [mem EXCEPT ![r] = Fresh]
  /\ IF r = Service THEN seen' = NoHead /\ claimed' = "none" ELSE UNCHANGED <<seen, claimed>>
  /\ UNCHANGED <<change, worker, ckpt, user, authorized>>

\* An exception ends the run.  The service keeps the job for a retry, with whatever
\* decision the row still holds; a tick just ends.
Fail(r) ==
  /\ Stop(r)
  /\ job' = IF r = Service
              THEN [job EXCEPT !.active = TRUE, !.status = "retrying_after_error",
                               !.gate = NoHead]
              ELSE job

\* merge_change: the merge happens at GitHub, and only of the expected head.
MergeChange(r) ==
  /\ Running(r, "merge")
  /\ head = mem[r].gate
  /\ merged' = head
  /\ Goto(r, "merging")
  /\ UNCHANGED <<head, ready, reviewed, worker, ckpt, mem>> /\ NodeFrame

\* GitHub refuses to merge another head than the expected one.
MergeRefused(r) ==
  /\ Running(r, "merge")
  /\ head # mem[r].gate
  /\ Fail(r)
  /\ UNCHANGED faults

\* The merge is done before the checkpoint says so.
SaveMerged(r) ==
  /\ phase[r] = "merging"
  /\ Return(r, "merged", "cleanup")
  /\ Goto(r, "run")
  /\ UNCHANGED <<change, worker>> /\ NodeFrame

\* Mutant: the workflow returns its result before the worker is gone.
CleanupDeferred(r) ==
  /\ Running(r, "cleanup")
  /\ worker' = "ending"
  /\ Return(r, "completed", "end")
  /\ UNCHANGED <<change, phase>> /\ NodeFrame

\* cleanup_worker.
CleanupWorker(r) ==
  /\ Running(r, "cleanup")
  /\ worker' = "gone"
  /\ Return(r, "completed", "end")
  /\ UNCHANGED <<change, phase>> /\ NodeFrame

\* The run is over, or interrupted at the gate.
Halt(r) ==
  /\ phase[r] = "run" /\ mem[r].next \in {"gate", "end"}
  /\ Goto(r, IF r = Service THEN "publish" ELSE "idle")
  /\ mem' = IF r = Service THEN mem ELSE [mem EXCEPT ![r] = Fresh]
  /\ UNCHANGED <<change, worker, ckpt>> /\ NodeFrame

NodeStep(r) ==
  \/ GuardExistingState(r) \/ EnsureWorker(r) \/ InspectWorker(r) \/ VerifyChange(r)
  \/ MergeChange(r) \/ MergeRefused(r) \/ SaveMerged(r) \/ CleanupWorker(r) \/ Halt(r)

\* graph.invoke with a fresh input: the thread starts over from its checkpoint.  The
\* two heads are left out, since each is written again before a node reads it.
Invoke(r) ==
  /\ Save(r, [ckpt EXCEPT !.next = "start", !.target = NoHead, !.gate = NoHead])
  /\ Goto(r, "run")

\* `oa tick` takes no lock against the service.
Tick(t) ==
  /\ phase[t] = "idle"
  /\ Invoke(t)
  /\ UNCHANGED <<change, worker>> /\ NodeFrame

----------------------------------------------------------------------------
(* The service: reconcile_job.                                             *)

\* get_state: the gate it sees, or something else to run on from.
Observe ==
  /\ phase[Service] = "idle" /\ job.active
  /\ IF AtGate THEN Goto(Service, "claim") /\ seen' = ckpt.gate
               ELSE Goto(Service, "clear") /\ seen' = NoHead
  /\ UNCHANGED <<change, worker, ckpt, job, mem, claimed, user, authorized, faults>>

\* The row that claim_approval selects.
Claimable ==
  /\ job.active /\ job.status = "awaiting_approval"
  /\ job.gate = seen /\ job.decision # "none"

\* Mutant: without a decision for this gate the service leaves the row as it is.
ClaimOrLeave ==
  /\ phase[Service] = "claim"
  /\ IF Claimable
       THEN /\ claimed' = job.decision
            /\ job' = [job EXCEPT !.decision = "none", !.status = "approval_resuming"]
            /\ Goto(Service, "resume")
       ELSE /\ Goto(Service, "idle")
            /\ UNCHANGED <<claimed, job>>
  /\ UNCHANGED <<change, worker, ckpt, mem, seen, user, authorized, faults>>

ClaimApproval ==
  /\ phase[Service] = "claim"
  /\ IF Claimable
       THEN /\ claimed' = job.decision
            /\ job' = [job EXCEPT !.decision = "none", !.status = "approval_resuming"]
            /\ Goto(Service, "resume")
       ELSE /\ Goto(Service, "rebind")
            /\ UNCHANGED <<claimed, job>>
  /\ UNCHANGED <<change, worker, ckpt, mem, seen, user, authorized, faults>>

\* Mutant: the gate is published again with the decision the row holds.
RebindKeeping ==
  /\ phase[Service] = "rebind"
  /\ job' = [active |-> TRUE, status |-> "awaiting_approval", gate |-> seen,
             decision |-> job.decision]
  /\ Goto(Service, "idle")
  /\ seen' = NoHead
  /\ UNCHANGED <<change, worker, ckpt, mem, claimed, user, authorized, faults>>

\* No decision: the gate is published again, without one.
RebindGate ==
  /\ phase[Service] = "rebind"
  /\ job' = [active |-> TRUE, status |-> "awaiting_approval", gate |-> seen,
             decision |-> "none"]
  /\ Goto(Service, "idle")
  /\ seen' = NoHead
  /\ UNCHANGED <<change, worker, ckpt, mem, claimed, user, authorized, faults>>

\* approval_gate, resumed with a decision.
Decide(c, decision) ==
  IF decision = "approve"
    THEN [c EXCEPT !.status = "approval_recorded", !.approved = c.gate, !.next = "verify"]
    ELSE [c EXCEPT !.status = "approval_rejected", !.approved = NoHead, !.next = "end"]

\* Command(resume): the thread goes on from the checkpoint it has now.  A checkpoint
\* that is not at the gate goes on without the decision.
Resume ==
  /\ phase[Service] = "resume"
  /\ Save(Service, IF AtGate THEN Decide(ckpt, claimed) ELSE ckpt)
  /\ Goto(Service, "run")
  /\ claimed' = "none" /\ seen' = NoHead
  /\ UNCHANGED <<change, worker, job, user, authorized, faults>>

\* clear_approval, then a fresh run.
ClearAndInvoke ==
  /\ phase[Service] = "clear"
  /\ job' = [job EXCEPT !.decision = "none", !.gate = NoHead]
  /\ Invoke(Service)
  /\ UNCHANGED <<change, worker, seen, claimed, user, authorized, faults>>

\* update_result with the outcome of the run: a gate to decide at, or a status.
Publish ==
  LET c == mem[Service]
  IN /\ phase[Service] = "publish"
     /\ job' = IF c.next = "gate"
                 THEN [active |-> TRUE, status |-> "awaiting_approval", gate |-> c.gate,
                       decision |-> "none"]
                 ELSE [active |-> c.status \notin Terminal,
                       status |-> IF c.status \in Terminal THEN c.status ELSE "waiting",
                       gate |-> NoHead, decision |-> "none"]
     /\ Goto(Service, "idle")
     /\ mem' = [mem EXCEPT ![Service] = Fresh]
     /\ UNCHANGED <<change, worker, ckpt, seen, claimed, user, authorized, faults>>

ServiceStep ==
  Observe \/ ClaimApproval \/ RebindGate \/ Resume \/ ClearAndInvoke \/ Publish

----------------------------------------------------------------------------
(* Faults.                                                                 *)

Fault == faults < MaxFaults /\ faults' = faults + 1

\* A command or a node raises.
Raise(r) == Fault /\ phase[r] # "idle" /\ Fail(r)

\* The process dies.  A service is started again by the next command that needs it.
Crash(r) == Fault /\ phase[r] # "idle" /\ Stop(r) /\ job' = job

\* The run stops for want of a route or capacity, or at an unresolved reservation.
NoWorker(r) ==
  /\ Fault
  /\ Running(r, "worker")
  /\ Return(r, "waiting", "end")
  /\ UNCHANGED <<change, worker, job, phase, seen, claimed, user, authorized>>

\* ensure_ao_ready fails: the row says so, and loses its gate but not its decision.
RunnerDown ==
  /\ Fault
  /\ phase[Service] = "idle" /\ job.active
  /\ job' = [job EXCEPT !.status = "waiting_for_ao", !.gate = NoHead]
  /\ UNCHANGED <<change, worker, ckpt, phase, mem, seen, claimed, user, authorized>>

----------------------------------------------------------------------------
(* Users: `oa approve` reads the gate from the checkpoint, checks the row, *)
(* and then updates it; only the update's own condition is atomic.         *)

UserFrame ==
  UNCHANGED <<change, worker, ckpt, phase, mem, seen, claimed, faults>>

ReadGate(u, decision) ==
  /\ user[u].at = "idle" /\ AtGate
  /\ user' = [user EXCEPT ![u] = [at |-> "read", gate |-> ckpt.gate, decision |-> decision]]
  /\ UNCHANGED <<job, authorized>> /\ UserFrame

\* Mutant: a row that already has its decision back from the service counts as waiting.
RowBound(u) == job.gate = user[u].gate

RowWaits(u) == job.status = "awaiting_approval" /\ job.gate = user[u].gate

CheckRow(u) ==
  /\ user[u].at = "read"
  /\ user' = [user EXCEPT ![u] =
                IF job.active /\ RowWaits(u) /\ job.decision \in {"none", user[u].decision}
                  THEN [@ EXCEPT !.at = "checked"] ELSE NoUser]
  /\ UNCHANGED <<job, authorized>> /\ UserFrame

\* The UPDATE; when it matches no row the command still reports the decision as queued.
QueueDecision(u) ==
  LET d == user[u].decision
  IN /\ user[u].at = "checked"
     /\ user' = [user EXCEPT ![u] = NoUser]
     /\ IF RowWaits(u)
          THEN /\ job' = [job EXCEPT !.active = TRUE, !.decision = d]
               /\ authorized' = IF d = "approve" THEN authorized \cup {user[u].gate}
                                                ELSE authorized
          ELSE UNCHANGED <<job, authorized>>
     /\ UserFrame

\* `oa dispatch` again: a completed job is queued anew, any other is only made active.
Dispatch ==
  /\ job' = IF job.status = "completed"
              THEN [active |-> TRUE, status |-> "queued", gate |-> NoHead, decision |-> "none"]
              ELSE [job EXCEPT !.active = TRUE]
  /\ UNCHANGED <<user, authorized>> /\ UserFrame

UserStep ==
  \/ \E u \in Users :
        \/ \E d \in Decisions : ReadGate(u, d)
        \/ CheckRow(u) \/ QueueDecision(u)
  \/ Dispatch

----------------------------------------------------------------------------
(* The change and the worker.                                              *)

Elsewhere ==
  UNCHANGED <<ckpt, job, phase, mem, seen, claimed, user, authorized, faults>>

Push ==
  /\ head < MaxHead /\ merged = NoHead
  /\ head' = head + 1 /\ ready' = FALSE
  /\ UNCHANGED <<reviewed, merged, worker>> /\ Elsewhere

ChecksChange ==
  /\ merged = NoHead
  /\ ready' = ~ready
  /\ UNCHANGED <<head, reviewed, merged, worker>> /\ Elsewhere

\* The latest review approves the head, or is replaced by one that has not.
Review ==
  /\ merged = NoHead
  /\ reviewed' \in {head, NoHead}
  /\ UNCHANGED <<head, ready, merged, worker>> /\ Elsewhere

\* The worker exits, or its runner retires it because the change is merged.
WorkerEnds ==
  /\ worker = "active" /\ worker' = "gone"
  /\ UNCHANGED change /\ Elsewhere

Environment == Push \/ ChecksChange \/ Review \/ WorkerEnds

Next ==
  \/ ServiceStep \/ UserStep \/ RunnerDown \/ Environment
  \/ \E r \in Runs : NodeStep(r) \/ NoWorker(r) \/ Raise(r) \/ Crash(r)
  \/ \E t \in Ticks : Tick(t)

Spec == Init /\ [][Next]_vars

\* The service polls for ever and its commands end; nobody else has to do anything.
FairSpec == Spec /\ WF_vars(ServiceStep \/ NodeStep(Service))

----------------------------------------------------------------------------
(* Properties.                                                             *)

\* The head that is merged is one that a user has approved at its gate ("a later or
\* different change cannot consume it").  It holds of the service alone, through
\* crashes, retries and pushes; a tick that runs beside the service can break it.
MergedWasApproved == merged # NoHead => merged \in authorized

\* An approval in the row is one that a user gave to the very gate the row is bound to,
\* whatever ticks, retries and outages have rewritten the row since.
RowDecisionAuthorized ==
  job.decision = "approve" /\ job.gate # NoHead => job.gate \in authorized

\* A decision can be queued only while its exact gate is the thread's state.
QueuedOnlyAtGate ==
  [][job.decision = "none" /\ job'.decision # "none"
       => AtGate /\ ckpt.gate = job'.gate]_vars

\* A rejection recorded in the checkpoint is final.
RejectionFinal ==
  [][ckpt.status = "approval_rejected"
       => ckpt'.status = "approval_rejected" /\ merged' = merged]_vars

\* A queued decision does not sit in the row for ever, whatever became of its gate.
DecisionLeavesRow == job.decision # "none" ~> job.decision = "none"

\* A merged change's workflow is completed and its worker cleaned up.  A fault between
\* the merge at GitHub and its checkpoint breaks it: the change is no longer open, so no
\* later run gets past verify_change.
MergeIsCompleted == merged # NoHead ~> ckpt.status = "completed"
=============================================================================
