--------------------------- MODULE ApprovalProofs ---------------------------
(***************************************************************************)
(* Proofs about ApprovalGate.  Types and the binding of a decision in the  *)
(* row hold beside any manual ticks.  What is merged, what is queued and   *)
(* what is rejected are proved of the service alone (Ticks = {}), for any  *)
(* number of users, heads and faults.                                      *)
(***************************************************************************)
EXTENDS ApprovalGate, TLAPS

----------------------------------------------------------------------------
(* What holds beside any ticks.                                            *)

\* A checkpoint that waits at the gate names the head to decide about, and an `oa approve`
\* carries the head that it has read there.
GateNamed(c) == c.next = "gate" => c.gate \in Heads
GatesNamed == GateNamed(ckpt) /\ \A r \in Runs : GateNamed(mem[r])
UserKnowsGate == \A u \in Users : user[u].at # "idle" => user[u].gate \in Heads

BaseInv == TypeOK /\ GatesNamed /\ UserKnowsGate /\ RowDecisionAuthorized

(* What holds of the service alone.                                        *)

\* A checkpoint carries only an approval that a user gave, leads to a merge only of the
\* approved head, and to nothing but its end once it is rejected.
Sound(c) ==
  /\ c.approved # NoHead => c.approved \in authorized
  /\ c.next = "merge" => c.approved = c.gate
  /\ c.status = "approval_rejected" => c.next \in {"start", "end"}

\* While the service holds a gate that it has seen, the thread is at that gate, and the
\* decision it has claimed was given to it.
GateHeld ==
  /\ phase[Service] \in {"claim", "rebind", "resume"} => AtGate /\ ckpt.gate = seen
  /\ phase[Service] = "resume" /\ claimed = "approve" => seen \in authorized

\* A run of the service holds the thread's state, and during a merge it is at the merge.
MemoryIsThread ==
  /\ phase[Service] \in {"run", "merging", "publish"} => mem[Service] = ckpt
  /\ phase[Service] = "merging" => ckpt.next = "merge"

\* The row is bound to a gate only while the thread waits there and no run is under way.
Bound == job.status = "awaiting_approval" /\ job.gate # NoHead
RowBoundToGate ==
  /\ Bound => AtGate /\ ckpt.gate = job.gate
  /\ phase[Service] \in {"clear", "resume", "run", "merging", "publish"} => ~Bound

ServiceInv ==
  Sound(ckpt) /\ GateHeld /\ MemoryIsThread /\ RowBoundToGate /\ MergedWasApproved

IInv == BaseInv /\ ServiceInv

----------------------------------------------------------------------------
(* Types.                                                                  *)

\* A decision of the service on a checkpoint is a checkpoint.
LEMMA DecideTyped ==
  ASSUME NEW c \in Checkpoint, NEW d \in Decisions \cup {"none"}
  PROVE  Decide(c, d) \in Checkpoint
  BY DEF Decide, Checkpoint, Nodes, Statuses, HeadOrNone, NoHead

\* A checkpoint that is saved is well typed.
LEMMA SaveTyped ==
  ASSUME TypeOK, NEW r \in Runs, NEW c \in Checkpoint, Save(r, c)
  PROVE  ckpt' \in Checkpoint /\ mem' \in [Runs -> Checkpoint]
  BY DEF TypeOK, Save

\* A run that stops leaves well typed variables.
LEMMA StopTyped ==
  ASSUME TypeOK, NEW r \in Runs, Stop(r), job' \in Job, faults' \in 0 .. MaxFaults
  PROVE  TypeOK'
  <1>1. Fresh \in Checkpoint
    BY DEF Fresh, Checkpoint, Nodes, Statuses, HeadOrNone, NoHead
  <1>2. /\ phase' \in [Runs -> Phases] /\ mem' \in [Runs -> Checkpoint]
        /\ seen' \in HeadOrNone /\ claimed' \in Decisions \cup {"none"}
    BY <1>1 DEF TypeOK, Stop, Goto, Phases, HeadOrNone
  <1> QED
    BY <1>2 DEF TypeOK, Stop, change

\* An exception leaves well typed variables.
LEMMA FailTyped ==
  ASSUME TypeOK, NEW r \in Runs, Fail(r), faults' \in 0 .. MaxFaults
  PROVE  TypeOK'
  <1>1. job' \in Job
    BY DEF TypeOK, Fail, Job, JobStatuses, HeadOrNone, NoHead
  <1> QED
    BY <1>1, StopTyped DEF Fail

\* The initial state is well typed.
LEMMA TypeInit == Init => TypeOK
  <1> SUFFICES ASSUME Init PROVE TypeOK
    OBVIOUS
  <1>1. Fresh \in Checkpoint
    BY DEF Fresh, Checkpoint, Nodes, Statuses, HeadOrNone, NoHead
  <1>2. job \in Job
    BY DEF Init, Job, JobStatuses, HeadOrNone, NoHead
  <1>3. user \in [Users -> UserSteps]
    BY DEF Init, NoUser, UserSteps, HeadOrNone, NoHead
  <1>4. head \in Heads /\ faults \in 0 .. MaxFaults
    BY BoundsNatural DEF Init, Heads
  <1>5. phase \in [Runs -> Phases]
    BY DEF Init, Phases
  <1> QED
    BY <1>1, <1>2, <1>3, <1>4, <1>5 DEF Init, TypeOK, HeadOrNone

\* A node of the graph is well typed.
LEMMA TypeNode ==
  ASSUME TypeOK, NEW r \in Runs, NodeStep(r)
  PROVE  TypeOK'
  <1>0. mem[r] \in Checkpoint /\ phase[r] \in Phases
    BY DEF TypeOK
  <1>1. ASSUME NEW status \in Statuses, NEW next \in Nodes
        PROVE  [mem[r] EXCEPT !.status = status, !.next = next] \in Checkpoint
    BY <1>0 DEF Checkpoint
  <1>2. CASE GuardExistingState(r)
    <2>1. PICK next \in Nodes : Return(r, mem[r].status, next)
      BY <1>2 DEF GuardExistingState, Nodes
    <2>2. ckpt' \in Checkpoint /\ mem' \in [Runs -> Checkpoint]
      <3>1. mem[r].status \in Statuses
        BY <1>0 DEF Checkpoint
      <3> QED
        BY <1>1, <2>1, <3>1, SaveTyped DEF Return
    <2> QED
      BY <1>2, <2>2 DEF TypeOK, GuardExistingState, NodeFrame, change
  <1>3. CASE EnsureWorker(r)
    <2>1. ckpt' \in Checkpoint /\ mem' \in [Runs -> Checkpoint]
      BY <1>1, <1>3, SaveTyped DEF EnsureWorker, Return, Statuses, Nodes
    <2> QED
      BY <1>3, <2>1 DEF TypeOK, EnsureWorker, NodeFrame, change
  <1>4. CASE InspectWorker(r)
    <2>1. [mem[r] EXCEPT !.status = "review_approved", !.target = reviewed,
                         !.next = "verify"] \in Checkpoint
      BY <1>0 DEF TypeOK, Checkpoint, Statuses, Nodes
    <2>2. ckpt' \in Checkpoint /\ mem' \in [Runs -> Checkpoint]
      BY <1>1, <1>4, <2>1, SaveTyped DEF InspectWorker, Return, Statuses, Nodes
    <2> QED
      BY <1>4, <2>2 DEF TypeOK, InspectWorker, NodeFrame, change
  <1>5. CASE VerifyChange(r)
    <2>1. PICK status \in Statuses, next \in Nodes :
            Save(r, [mem[r] EXCEPT !.gate = head, !.status = status, !.next = next])
      BY <1>0, <1>5 DEF VerifyChange, Statuses, Nodes, Checkpoint
    <2>2. [mem[r] EXCEPT !.gate = head, !.status = status, !.next = next] \in Checkpoint
      BY <1>0 DEF TypeOK, Checkpoint, HeadOrNone
    <2>3. ckpt' \in Checkpoint /\ mem' \in [Runs -> Checkpoint]
      BY <2>1, <2>2, SaveTyped
    <2> QED
      BY <1>5, <2>3 DEF TypeOK, VerifyChange, NodeFrame, change
  <1>6. CASE MergeChange(r)
    BY <1>6 DEF TypeOK, MergeChange, Goto, NodeFrame, Phases, HeadOrNone
  <1>7. CASE MergeRefused(r)
    BY <1>7, FailTyped DEF TypeOK, MergeRefused
  <1>8. CASE SaveMerged(r)
    <2>1. ckpt' \in Checkpoint /\ mem' \in [Runs -> Checkpoint]
      BY <1>1, <1>8, SaveTyped DEF SaveMerged, Return, Statuses, Nodes
    <2> QED
      BY <1>8, <2>1 DEF TypeOK, SaveMerged, Goto, Phases, NodeFrame, change
  <1>9. CASE CleanupWorker(r)
    <2>1. ckpt' \in Checkpoint /\ mem' \in [Runs -> Checkpoint]
      BY <1>1, <1>9, SaveTyped DEF CleanupWorker, Return, Statuses, Nodes
    <2> QED
      BY <1>9, <2>1 DEF TypeOK, CleanupWorker, NodeFrame, change
  <1>10. CASE Halt(r)
    <2>1. Fresh \in Checkpoint
      BY DEF Fresh, Checkpoint, Nodes, Statuses, HeadOrNone, NoHead
    <2> QED
      BY <1>10, <2>1 DEF TypeOK, Halt, Goto, Phases, NodeFrame, change
  <1> QED
    BY <1>2, <1>3, <1>4, <1>5, <1>6, <1>7, <1>8, <1>9, <1>10 DEF NodeStep

\* A fresh run starts from a well typed checkpoint.
LEMMA InvokeTyped ==
  ASSUME TypeOK, NEW r \in Runs, Invoke(r)
  PROVE  /\ ckpt' \in Checkpoint /\ mem' \in [Runs -> Checkpoint]
         /\ phase' \in [Runs -> Phases]
  <1>1. [ckpt EXCEPT !.next = "start", !.target = NoHead, !.gate = NoHead] \in Checkpoint
    BY DEF TypeOK, Checkpoint, Nodes, HeadOrNone, NoHead
  <1> QED
    BY <1>1, SaveTyped DEF Invoke, TypeOK, Goto, Phases

\* A step of reconcile_job is well typed.
LEMMA TypeService ==
  ASSUME TypeOK, ServiceStep
  PROVE  TypeOK'
  <1>0. Service \in Runs /\ Fresh \in Checkpoint
    BY DEF Runs, Fresh, Checkpoint, Nodes, Statuses, HeadOrNone, NoHead
  <1>1. CASE Observe
    BY <1>1 DEF TypeOK, Observe, Goto, Phases, Checkpoint, HeadOrNone, NoHead, change
  <1>2. CASE ClaimApproval
    <2>1. job' \in Job /\ claimed' \in Decisions \cup {"none"}
      BY <1>2 DEF TypeOK, ClaimApproval, Job, JobStatuses
    <2> QED
      BY <1>2, <2>1 DEF TypeOK, ClaimApproval, Goto, Phases, change
  <1>3. CASE RebindGate
    <2>1. job' \in Job
      BY <1>3 DEF TypeOK, RebindGate, Job, JobStatuses
    <2> QED
      BY <1>3, <2>1 DEF TypeOK, RebindGate, Goto, Phases, HeadOrNone, NoHead, change
  <1>4. CASE Resume
    <2>1. ckpt' \in Checkpoint /\ mem' \in [Runs -> Checkpoint]
      BY <1>0, <1>4, DecideTyped, SaveTyped DEF TypeOK, Resume
    <2> QED
      BY <1>4, <2>1 DEF TypeOK, Resume, Goto, Phases, HeadOrNone, NoHead, change
  <1>5. CASE ClearAndInvoke
    <2>1. job' \in Job
      BY <1>5 DEF TypeOK, ClearAndInvoke, Job, HeadOrNone, NoHead
    <2> QED
      BY <1>0, <1>5, <2>1, InvokeTyped DEF TypeOK, ClearAndInvoke, change
  <1>6. CASE Publish
    <2>1. job' \in Job
      <3>1. mem[Service] \in Checkpoint
        BY <1>0 DEF TypeOK
      <3> QED
        BY <1>6, <3>1 DEF Publish, Job, JobStatuses, Terminal, Checkpoint, HeadOrNone, NoHead
    <2> QED
      BY <1>0, <1>6, <2>1 DEF TypeOK, Publish, Goto, Phases, change
  <1> QED
    BY <1>1, <1>2, <1>3, <1>4, <1>5, <1>6 DEF ServiceStep

\* A step of a user is well typed.
LEMMA TypeUser ==
  ASSUME TypeOK, UserKnowsGate, UserStep
  PROVE  TypeOK'
  <1>1. ASSUME NEW u \in Users, NEW d \in Decisions, ReadGate(u, d) PROVE TypeOK'
    <2>1. user' \in [Users -> UserSteps]
      BY <1>1 DEF TypeOK, ReadGate, UserSteps, Checkpoint
    <2> QED
      BY <1>1, <2>1 DEF TypeOK, ReadGate, UserFrame, change
  <1>2. ASSUME NEW u \in Users, CheckRow(u) PROVE TypeOK'
    <2>1. user' \in [Users -> UserSteps]
      BY <1>2 DEF TypeOK, CheckRow, NoUser, UserSteps, HeadOrNone, NoHead
    <2> QED
      BY <1>2, <2>1 DEF TypeOK, CheckRow, UserFrame, change
  <1>3. ASSUME NEW u \in Users, QueueDecision(u) PROVE TypeOK'
    <2>1. user[u] \in UserSteps
      BY DEF TypeOK
    <2>2. user' \in [Users -> UserSteps]
      BY <1>3 DEF TypeOK, QueueDecision, NoUser, UserSteps, HeadOrNone, NoHead
    <2>3. job' \in Job
      BY <1>3, <2>1 DEF TypeOK, QueueDecision, Job, UserSteps
    <2>4. authorized' \subseteq Heads
      BY <1>3 DEF TypeOK, UserKnowsGate, QueueDecision
    <2> QED
      BY <1>3, <2>2, <2>3, <2>4 DEF TypeOK, QueueDecision, UserFrame, change
  <1>4. CASE Dispatch
    <2>1. job' \in Job
      BY <1>4 DEF TypeOK, Dispatch, Job, JobStatuses, HeadOrNone, NoHead
    <2> QED
      BY <1>4, <2>1 DEF TypeOK, Dispatch, UserFrame, change
  <1> QED
    BY <1>1, <1>2, <1>3, <1>4 DEF UserStep

\* A fault is well typed.
LEMMA TypeFault ==
  ASSUME TypeOK, NEW r \in Runs, NoWorker(r) \/ Raise(r) \/ Crash(r) \/ RunnerDown
  PROVE  TypeOK'
  <1>0. faults' \in 0 .. MaxFaults
    BY BoundsNatural DEF TypeOK, NoWorker, Raise, Crash, RunnerDown, Fault
  <1>1. CASE NoWorker(r)
    <2>1. [mem[r] EXCEPT !.status = "waiting", !.next = "end"] \in Checkpoint
      BY DEF TypeOK, Checkpoint, Statuses, Nodes
    <2>2. ckpt' \in Checkpoint /\ mem' \in [Runs -> Checkpoint]
      BY <1>1, <2>1, SaveTyped DEF NoWorker, Return
    <2> QED
      BY <1>0, <1>1, <2>2 DEF TypeOK, NoWorker, change
  <1>2. CASE Raise(r)
    BY <1>0, <1>2, FailTyped DEF Raise
  <1>3. CASE Crash(r)
    BY <1>0, <1>3, StopTyped DEF TypeOK, Crash
  <1>4. CASE RunnerDown
    <2>1. job' \in Job
      BY <1>4 DEF TypeOK, RunnerDown, Job, JobStatuses, HeadOrNone, NoHead
    <2> QED
      BY <1>0, <1>4, <2>1 DEF TypeOK, RunnerDown, change
  <1> QED
    BY <1>1, <1>2, <1>3, <1>4

\* Every step is well typed.
LEMMA TypeStep ==
  ASSUME TypeOK, UserKnowsGate, [Next]_vars
  PROVE  TypeOK'
  <1>1. CASE Environment
    <2>1. /\ head' \in Heads /\ ready' \in BOOLEAN
          /\ reviewed' \in HeadOrNone /\ merged' \in HeadOrNone
          /\ worker' \in {"none", "active", "gone"}
      <3>1. CASE Push
        <4>1. head \in 1 .. MaxHead /\ head < MaxHead /\ head' = head + 1
          BY <3>1 DEF TypeOK, Push, Heads
        <4>2. head' \in Heads
          BY <4>1, BoundsNatural DEF Heads
        <4> QED
          BY <3>1, <4>2 DEF TypeOK, Push
      <3>2. CASE ChecksChange
        BY <3>2 DEF TypeOK, ChecksChange
      <3>3. CASE Review
        BY <3>3 DEF TypeOK, Review, HeadOrNone
      <3>4. CASE WorkerEnds
        BY <3>4 DEF TypeOK, WorkerEnds, change
      <3> QED
        BY <1>1, <3>1, <3>2, <3>3, <3>4 DEF Environment
    <2>2. Elsewhere
      BY <1>1 DEF Environment, Push, ChecksChange, Review, WorkerEnds
    <2> QED
      BY <2>1, <2>2 DEF TypeOK, Elsewhere
  <1>2. ASSUME NEW t \in Ticks, Tick(t) PROVE TypeOK'
    <2>1. t \in Runs
      BY DEF Runs
    <2> QED
      BY <1>2, <2>1, InvokeTyped DEF TypeOK, Tick, NodeFrame, change
  <1>3. CASE UNCHANGED vars
    BY <1>3 DEF TypeOK, vars, change
  <1>4. Service \in Runs
    BY DEF Runs
  <1> QED
    BY <1>1, <1>2, <1>3, <1>4, TypeNode, TypeService, TypeUser, TypeFault DEF Next

----------------------------------------------------------------------------
(* Beside any ticks.                                                       *)

\* Saving a checkpoint keeps the gates named.
LEMMA SaveNamed ==
  ASSUME TypeOK, GatesNamed, NEW r \in Runs, NEW c, Save(r, c), GateNamed(c)
  PROVE  GatesNamed'
  BY DEF TypeOK, GatesNamed, GateNamed, Save

\* So does a run that forgets what it held.
LEMMA ForgetNamed ==
  ASSUME TypeOK, GatesNamed, NEW r \in Runs, ckpt' = ckpt,
         mem' = mem \/ mem' = [mem EXCEPT ![r] = Fresh]
  PROVE  GatesNamed'
  BY DEF TypeOK, GatesNamed, GateNamed, Fresh

\* The head to decide about is named wherever a run or the thread is at the gate.
LEMMA NamedStep ==
  ASSUME TypeOK, GatesNamed, [Next]_vars
  PROVE  GatesNamed'
  <1>0. Service \in Runs /\ Ticks \subseteq Runs
    BY DEF Runs
  <1>1. ASSUME NEW r \in Runs, NEW status, NEW next \in Nodes \ {"gate"},
               Return(r, status, next)
        PROVE  GatesNamed'
    <2>1. GateNamed([mem[r] EXCEPT !.status = status, !.next = next])
      BY DEF TypeOK, GateNamed, Checkpoint
    <2> QED
      BY <1>1, <2>1, SaveNamed DEF Return
  <1>2. ASSUME NEW r \in Runs, NodeStep(r) PROVE GatesNamed'
    <2>1. CASE GuardExistingState(r)
      <3>1. PICK next \in Nodes \ {"gate"} : Return(r, mem[r].status, next)
        BY <2>1 DEF GuardExistingState, Nodes
      <3> QED
        BY <1>1, <3>1
    <2>2. CASE EnsureWorker(r)
      BY <1>1, <2>2 DEF EnsureWorker, Nodes
    <2>3. CASE InspectWorker(r)
      <3>1. GateNamed([mem[r] EXCEPT !.status = "review_approved", !.target = reviewed,
                                     !.next = "verify"])
        BY DEF TypeOK, GateNamed, Checkpoint
      <3> QED
        BY <1>1, <2>3, <3>1, SaveNamed DEF InspectWorker, Nodes
    <2>4. CASE VerifyChange(r)
      <3>1. PICK c \in Checkpoint : Save(r, c) /\ c.gate = head
        <4>1. PICK status \in Statuses, next \in Nodes :
                Save(r, [mem[r] EXCEPT !.gate = head, !.status = status, !.next = next])
          BY <2>4 DEF TypeOK, VerifyChange, Statuses, Nodes, Checkpoint
        <4>2. [mem[r] EXCEPT !.gate = head, !.status = status, !.next = next] \in Checkpoint
          BY DEF TypeOK, Checkpoint, HeadOrNone
        <4> QED
          BY <4>1, <4>2 DEF TypeOK, Checkpoint
      <3> QED
        BY <3>1, SaveNamed DEF TypeOK, GateNamed
    <2>5. CASE MergeChange(r)
      BY <2>5, ForgetNamed DEF MergeChange
    <2>6. CASE MergeRefused(r)
      BY <2>6, ForgetNamed DEF MergeRefused, Fail, Stop
    <2>7. CASE SaveMerged(r)
      BY <1>1, <2>7 DEF SaveMerged, Nodes
    <2>8. CASE CleanupWorker(r)
      BY <1>1, <2>8 DEF CleanupWorker, Nodes
    <2>9. CASE Halt(r)
      BY <2>9, ForgetNamed DEF Halt
    <2> QED
      BY <1>2, <2>1, <2>2, <2>3, <2>4, <2>5, <2>6, <2>7, <2>8, <2>9 DEF NodeStep
  <1>3. ASSUME NEW r \in Runs, Invoke(r) PROVE GatesNamed'
    <2>1. GateNamed([ckpt EXCEPT !.next = "start", !.target = NoHead, !.gate = NoHead])
      BY DEF TypeOK, GateNamed, Checkpoint
    <2> QED
      BY <1>3, <2>1, SaveNamed DEF Invoke
  <1>4. CASE ServiceStep
    <2>1. CASE Resume
      <3>1. GateNamed(IF AtGate THEN Decide(ckpt, claimed) ELSE ckpt)
        BY DEF TypeOK, GateNamed, AtGate, Decide, Checkpoint
      <3> QED
        BY <1>0, <2>1, <3>1, SaveNamed DEF Resume
    <2>2. CASE Observe \/ ClaimApproval \/ RebindGate \/ Publish
      BY <1>0, <2>2, ForgetNamed DEF Observe, ClaimApproval, RebindGate, Publish
    <2> QED
      BY <1>0, <1>3, <1>4, <2>1, <2>2 DEF ServiceStep, ClearAndInvoke
  <1>5. ASSUME NEW r \in Runs, NoWorker(r) \/ Raise(r) \/ Crash(r) PROVE GatesNamed'
    <2>1. CASE NoWorker(r)
      BY <1>1, <2>1 DEF NoWorker, Nodes
    <2> QED
      BY <1>5, <2>1, ForgetNamed DEF Raise, Crash, Fail, Stop
  <1>6. CASE RunnerDown \/ UserStep \/ Environment \/ UNCHANGED vars
    <2>1. ckpt' = ckpt /\ mem' = mem
      BY <1>6 DEF RunnerDown, UserStep, ReadGate, CheckRow, QueueDecision, Dispatch, UserFrame,
                  Environment, Push, ChecksChange, Review, WorkerEnds, Elsewhere, vars
    <2> QED
      BY <1>0, <2>1, ForgetNamed
  <1> QED
    BY <1>0, <1>2, <1>3, <1>4, <1>5, <1>6 DEF Next, Tick

\* An `oa approve` carries the head that it has read.
LEMMA UserStepKnows ==
  ASSUME TypeOK, GatesNamed, UserKnowsGate, [Next]_vars
  PROVE  UserKnowsGate'
  <1>1. CASE user' = user
    BY <1>1 DEF UserKnowsGate
  <1>2. ASSUME NEW u \in Users, NEW d \in Decisions, ReadGate(u, d)
        PROVE  UserKnowsGate'
    <2>1. ckpt.gate \in Heads
      BY <1>2 DEF GatesNamed, GateNamed, ReadGate, AtGate
    <2> QED
      BY <1>2, <2>1 DEF TypeOK, UserKnowsGate, ReadGate
  <1>4. ASSUME NEW u \in Users, CheckRow(u) \/ QueueDecision(u)
        PROVE  UserKnowsGate'
    <2>1. \/ user' = [user EXCEPT ![u] = NoUser]
          \/ user[u].at = "read" /\ user' = [user EXCEPT ![u] = [user[u] EXCEPT !.at = "checked"]]
      BY <1>4 DEF TypeOK, CheckRow, QueueDecision
    <2>2. CASE user' = [user EXCEPT ![u] = NoUser]
      BY <2>2 DEF TypeOK, UserKnowsGate, NoUser
    <2>3. CASE user[u].at = "read" /\ user' = [user EXCEPT ![u] = [user[u] EXCEPT !.at = "checked"]]
      BY <2>3 DEF TypeOK, UserKnowsGate, UserSteps
    <2> QED
      BY <2>1, <2>2, <2>3
  <1>5. CASE Dispatch
    BY <1>5, <1>1 DEF Dispatch
  <1>3. user' = user \/ UserStep
    BY DEF Next, vars, ServiceStep, Observe, ClaimApproval, RebindGate, Resume, ClearAndInvoke,
           Publish, RunnerDown, Environment, Push, ChecksChange, Review, WorkerEnds, Elsewhere,
           NodeStep, GuardExistingState, EnsureWorker, InspectWorker, VerifyChange, MergeChange,
           MergeRefused, SaveMerged, CleanupWorker, Halt, NodeFrame, Fail, Stop, NoWorker,
           Raise, Crash, Tick
  <1> QED
    BY <1>1, <1>2, <1>3, <1>4, <1>5 DEF UserStep

\* A decision in the row is one for the gate of the row: each step clears it, unbinds it,
\* keeps both, or is the UPDATE of `oa approve`.
LEMMA RowStep ==
  ASSUME TypeOK, RowDecisionAuthorized, [Next]_vars
  PROVE  RowDecisionAuthorized'
  <1>1. CASE job' = job /\ authorized' = authorized
    BY <1>1 DEF RowDecisionAuthorized
  <1>2. ASSUME NEW u \in Users, QueueDecision(u) PROVE RowDecisionAuthorized'
    <2>1. CASE RowWaits(u)
      <3>1. /\ job'.decision = user[u].decision /\ job'.gate = user[u].gate
            /\ authorized' = IF user[u].decision = "approve" THEN authorized \cup {user[u].gate}
                                                             ELSE authorized
        BY <1>2, <2>1 DEF TypeOK, QueueDecision, RowWaits, Job
      <3> QED
        BY <3>1 DEF RowDecisionAuthorized
    <2>2. CASE ~RowWaits(u)
      BY <1>1, <1>2, <2>2 DEF QueueDecision
    <2> QED
      BY <2>1, <2>2
  <1>3. CASE Dispatch
    BY <1>3 DEF TypeOK, RowDecisionAuthorized, Dispatch, UserFrame, Job, NoHead
  <1>4. CASE ServiceStep
    <2>1. authorized' = authorized
      BY <1>4 DEF ServiceStep, Observe, ClaimApproval, RebindGate, Resume, ClearAndInvoke,
                  Publish
    <2>2. CASE Observe \/ Resume
      BY <1>1, <2>1, <2>2 DEF Observe, Resume
    <2>3. CASE ClaimApproval \/ ClearAndInvoke
      <3>1. job' = job \/ job'.decision = "none"
        BY <2>3 DEF TypeOK, ClaimApproval, ClearAndInvoke, Job
      <3> QED
        BY <1>1, <2>1, <3>1 DEF RowDecisionAuthorized
    <2>4. CASE RebindGate \/ Publish
      <3>1. job'.decision = "none"
        BY <2>4 DEF RebindGate, Publish
      <3> QED
        BY <3>1 DEF RowDecisionAuthorized
    <2> QED
      BY <1>4, <2>2, <2>3, <2>4 DEF ServiceStep
  <1>5. ASSUME NEW r \in Runs, MergeRefused(r) \/ Raise(r) PROVE RowDecisionAuthorized'
    <2>1. authorized' = authorized /\ (job' = job \/ job'.gate = NoHead)
      BY <1>5 DEF TypeOK, MergeRefused, Raise, Fail, Stop, Job
    <2> QED
      BY <1>1, <2>1 DEF RowDecisionAuthorized
  <1>6. CASE RunnerDown
    BY <1>6 DEF TypeOK, RowDecisionAuthorized, RunnerDown, Job, change
  <1>7. \/ job' = job /\ authorized' = authorized
        \/ ServiceStep \/ Dispatch \/ RunnerDown
        \/ \E u \in Users : QueueDecision(u)
        \/ \E r \in Runs : MergeRefused(r) \/ Raise(r)
    BY DEF Next, vars, UserStep, ReadGate, CheckRow, Environment, Push, ChecksChange, Review,
           WorkerEnds, Elsewhere, NodeStep, GuardExistingState, EnsureWorker, InspectWorker,
           VerifyChange, MergeChange, SaveMerged, CleanupWorker, Halt, NodeFrame, Stop,
           NoWorker, Crash, Tick
  <1> QED
    BY <1>1, <1>2, <1>3, <1>4, <1>5, <1>6, <1>7

\* The base invariant is inductive with any number of ticks, users, heads and faults.
THEOREM BaseInvariance == Spec => []BaseInv
  <1>1. Init => BaseInv
    <2>1. Init => GatesNamed /\ UserKnowsGate /\ RowDecisionAuthorized
      BY DEF Init, GatesNamed, GateNamed, UserKnowsGate, RowDecisionAuthorized, Fresh, NoUser
    <2> QED
      BY <2>1, TypeInit DEF BaseInv
  <1>2. BaseInv /\ [Next]_vars => BaseInv'
    BY TypeStep, NamedStep, UserStepKnows, RowStep DEF BaseInv
  <1> QED
    BY <1>1, <1>2, PTL DEF Spec

\* Every variable keeps its type, also beside manual ticks.
THEOREM GateTyped == Spec => []TypeOK
  BY BaseInvariance, PTL DEF BaseInv

\* An approval in the row was given to the gate that the row is bound to, also beside manual
\* ticks.
THEOREM RowAuthorized == Spec => []RowDecisionAuthorized
  BY BaseInvariance, PTL DEF BaseInv

----------------------------------------------------------------------------
(* The service alone.                                                      *)

\* A node that saves a sound checkpoint keeps the invariant.
LEMMA NodeSaves ==
  ASSUME BaseInv, ServiceInv, phase[Service] = "run", NEW c, Save(Service, c), Sound(c),
         UNCHANGED <<phase, job, merged, authorized>>
  PROVE  ServiceInv'
  <1>1. ckpt' = c /\ mem'[Service] = c
    BY DEF Save, BaseInv, TypeOK, Runs
  <1>2. phase'[Service] = "run" /\ Bound' = Bound
    BY DEF Bound
  <1>3. Sound(ckpt)' /\ MemoryIsThread' /\ MergedWasApproved'
    BY <1>1, <1>2 DEF Sound, MemoryIsThread, MergedWasApproved, ServiceInv
  <1>4. GateHeld' /\ RowBoundToGate'
    BY <1>2 DEF GateHeld, RowBoundToGate, ServiceInv
  <1> QED
    BY <1>3, <1>4 DEF ServiceInv

\* A run that stops, by an exception or by a crash, keeps the invariant.
LEMMA RunStops ==
  ASSUME BaseInv, ServiceInv, Stop(Service), job' = job \/ job'.gate = NoHead
  PROVE  ServiceInv'
  <1>1. phase'[Service] = "idle"
    BY DEF Stop, Goto, BaseInv, TypeOK, Runs
  <1>2. UNCHANGED <<ckpt, merged, authorized>>
    BY DEF Stop, change
  <1>3. Bound' => Bound /\ job' = job
    BY DEF Bound
  <1>4. GateHeld' /\ MemoryIsThread'
    BY <1>1 DEF GateHeld, MemoryIsThread
  <1>5. Sound(ckpt)' /\ MergedWasApproved'
    BY <1>2 DEF Sound, MergedWasApproved, ServiceInv
  <1>6. RowBoundToGate'
    BY <1>1, <1>2, <1>3 DEF RowBoundToGate, AtGate, ServiceInv
  <1> QED
    BY <1>4, <1>5, <1>6 DEF ServiceInv

\* A command, or a change elsewhere, that leaves the thread and the service alone and can
\* only unbind the row.
LEMMA OthersStep ==
  ASSUME ServiceInv, UNCHANGED <<ckpt, phase, mem, seen, claimed, merged>>,
         authorized \subseteq authorized', Bound' => Bound /\ job'.gate = job.gate
  PROVE  ServiceInv'
  <1>1. Sound(ckpt)' /\ MergedWasApproved'
    BY DEF Sound, MergedWasApproved, ServiceInv
  <1>2. GateHeld' /\ MemoryIsThread'
    BY DEF GateHeld, MemoryIsThread, AtGate, ServiceInv
  <1>3. RowBoundToGate'
    BY DEF RowBoundToGate, AtGate, ServiceInv
  <1> QED
    BY <1>1, <1>2, <1>3 DEF ServiceInv

\* An update of the status that does not lead to the merge, and ends a rejected workflow.
LEMMA ReturnSound ==
  ASSUME Sound(ckpt), NEW status \in Statuses, NEW next \in Nodes \ {"merge"}, ckpt \in Checkpoint,
         status = "approval_rejected" => next \in {"start", "end"}
  PROVE  Sound([ckpt EXCEPT !.status = status, !.next = next])
  BY DEF Sound, Checkpoint

\* The nodes of the graph keep the invariant: verify_change leads to the merge only of the
\* approved head, and merge_change merges no other.
LEMMA NodesKeep ==
  ASSUME BaseInv, ServiceInv, NodeStep(Service)
  PROVE  ServiceInv'
  <1>0. /\ ckpt \in Checkpoint /\ Sound(ckpt) /\ head \in Heads /\ reviewed \in HeadOrNone
        /\ phase[Service] \in {"run", "merging", "publish"} => mem[Service] = ckpt
    BY DEF BaseInv, TypeOK, ServiceInv, MemoryIsThread
  <1>1. ASSUME phase[Service] = "run", NEW status \in Statuses, NEW next \in Nodes \ {"merge"},
               Return(Service, status, next), UNCHANGED <<phase, job, merged, authorized>>,
               status = "approval_rejected" => next \in {"start", "end"}
        PROVE  ServiceInv'
    BY <1>0, <1>1, ReturnSound, NodeSaves DEF Return
  <1>2. CASE GuardExistingState(Service)
    <2>1. PICK next \in Nodes \ {"merge"} :
            /\ Return(Service, ckpt.status, next)
            /\ ckpt.status = "approval_rejected" => next = "end"
      BY <1>0, <1>2 DEF GuardExistingState, Running, Nodes, Terminal
    <2>2. ckpt.status \in Statuses
      BY <1>0 DEF Checkpoint
    <2> QED
      BY <1>1, <1>2, <2>1, <2>2 DEF GuardExistingState, Running, NodeFrame, change
  <1>3. CASE EnsureWorker(Service)
    BY <1>1, <1>3 DEF EnsureWorker, Running, NodeFrame, change, Statuses, Nodes
  <1>4. CASE InspectWorker(Service)
    <2>1. Sound([ckpt EXCEPT !.status = "review_approved", !.target = reviewed,
                             !.next = "verify"])
      BY <1>0 DEF Sound, Checkpoint
    <2>2. phase[Service] = "run" /\ UNCHANGED <<phase, job, merged, authorized>>
      BY <1>4 DEF InspectWorker, Running, NodeFrame, change
    <2> QED
      BY <1>0, <1>1, <1>4, <2>1, <2>2, NodeSaves DEF InspectWorker, Statuses, Nodes
  <1>5. CASE VerifyChange(Service)
    <2>1. PICK c \in Checkpoint : Save(Service, c) /\ Sound(c)
      <3>1. PICK status \in Statuses \ {"approval_rejected"}, next \in Nodes :
              /\ Save(Service, [ckpt EXCEPT !.gate = head, !.status = status, !.next = next])
              /\ next = "merge" => ckpt.approved = head
        BY <1>0, <1>5 DEF VerifyChange, Running, Statuses, Nodes, Checkpoint
      <3>2. [ckpt EXCEPT !.gate = head, !.status = status, !.next = next] \in Checkpoint
        BY <1>0 DEF Checkpoint, HeadOrNone
      <3>3. Sound([ckpt EXCEPT !.gate = head, !.status = status, !.next = next])
        BY <1>0, <3>1 DEF Sound, Checkpoint
      <3> QED
        BY <3>1, <3>2, <3>3
    <2>2. phase[Service] = "run" /\ UNCHANGED <<phase, job, merged, authorized>>
      BY <1>5 DEF VerifyChange, Running, NodeFrame, change
    <2> QED
      BY <2>1, <2>2, NodeSaves
  <1>6. CASE MergeChange(Service)
    <2>1. /\ phase[Service] = "run" /\ phase'[Service] = "merging" /\ ckpt.next = "merge"
          /\ merged' = ckpt.gate /\ merged' \in Heads
          /\ UNCHANGED <<ckpt, mem, job, authorized>>
      BY <1>0, <1>6 DEF BaseInv, TypeOK, Runs, MergeChange, Running, Goto, NodeFrame
    <2>2. MergedWasApproved' /\ Sound(ckpt)'
      BY <1>0, <2>1 DEF Sound, MergedWasApproved, Heads, NoHead
    <2>3. GateHeld' /\ MemoryIsThread' /\ RowBoundToGate'
      BY <1>0, <2>1 DEF ServiceInv, GateHeld, MemoryIsThread, RowBoundToGate, Bound
    <2> QED
      BY <2>2, <2>3 DEF ServiceInv
  <1>7. CASE MergeRefused(Service)
    <2>1. job'.gate = NoHead
      BY <1>7 DEF BaseInv, TypeOK, Job, MergeRefused, Fail
    <2> QED
      BY <1>7, <2>1, RunStops DEF MergeRefused, Fail
  <1>8. CASE SaveMerged(Service)
    <2>1. /\ phase[Service] = "merging" /\ phase'[Service] = "run" /\ mem'[Service] = ckpt'
          /\ UNCHANGED <<job, merged, authorized>>
          /\ ckpt' = [ckpt EXCEPT !.status = "merged", !.next = "cleanup"]
      BY <1>0, <1>8 DEF BaseInv, TypeOK, Runs, SaveMerged, Return, Save, Goto, NodeFrame, change
    <2>2. Sound(ckpt)' /\ MergedWasApproved'
      BY <1>0, <2>1 DEF ServiceInv, Sound, Checkpoint, MergedWasApproved
    <2>3. GateHeld' /\ MemoryIsThread' /\ RowBoundToGate'
      BY <2>1 DEF ServiceInv, GateHeld, MemoryIsThread, RowBoundToGate, Bound
    <2> QED
      BY <2>2, <2>3 DEF ServiceInv
  <1>9. CASE CleanupWorker(Service)
    BY <1>1, <1>9 DEF CleanupWorker, Running, NodeFrame, change, Statuses, Nodes
  <1>10. CASE Halt(Service)
    <2>1. /\ phase[Service] = "run" /\ phase'[Service] = "publish"
          /\ UNCHANGED <<ckpt, mem, job, merged, authorized>>
      BY <1>10 DEF BaseInv, TypeOK, Runs, Halt, Goto, NodeFrame, change
    <2> QED
      BY <2>1 DEF ServiceInv, Sound, MergedWasApproved, GateHeld, MemoryIsThread,
                  RowBoundToGate, Bound
  <1> QED
    BY <1>2, <1>3, <1>4, <1>5, <1>6, <1>7, <1>8, <1>9, <1>10 DEF NodeStep

\* A step of reconcile_job keeps the invariant: the decision that it claims was given to the
\* gate it has seen, and the row is bound again only to the gate the thread waits at.
LEMMA ServiceKeeps ==
  ASSUME BaseInv, ServiceInv, ServiceStep
  PROVE  ServiceInv'
  <1>0. /\ ckpt \in Checkpoint /\ job \in Job /\ Service \in Runs
        /\ phase \in [Runs -> Phases] /\ mem \in [Runs -> Checkpoint]
        /\ Sound(ckpt)
        /\ phase[Service] \in {"run", "merging", "publish"} => mem[Service] = ckpt
    BY DEF BaseInv, TypeOK, Runs, ServiceInv, MemoryIsThread
  <1>1. CASE Observe
    <2>1. /\ phase[Service] = "idle" /\ UNCHANGED <<ckpt, job, mem, merged, claimed, authorized>>
          /\ \/ AtGate /\ phase'[Service] = "claim" /\ seen' = ckpt.gate
             \/ ~AtGate /\ phase'[Service] = "clear"
      BY <1>0, <1>1 DEF Observe, Goto, change
    <2>2. Sound(ckpt)' /\ MergedWasApproved' /\ MemoryIsThread'
      BY <2>1 DEF ServiceInv, Sound, MergedWasApproved, MemoryIsThread
    <2>3. GateHeld' /\ RowBoundToGate'
      BY <2>1 DEF ServiceInv, GateHeld, RowBoundToGate, Bound, AtGate
    <2> QED
      BY <2>2, <2>3 DEF ServiceInv
  <1>2. CASE ClaimApproval
    <2>1. /\ phase[Service] = "claim" /\ UNCHANGED <<ckpt, mem, merged, seen, authorized>>
          /\ \/ /\ Claimable /\ phase'[Service] = "resume" /\ claimed' = job.decision
                /\ job'.status = "approval_resuming"
             \/ phase'[Service] = "rebind" /\ job' = job
      BY <1>0, <1>2 DEF ClaimApproval, Goto, Job, change
    <2>2. Sound(ckpt)' /\ MergedWasApproved' /\ MemoryIsThread'
      BY <2>1 DEF ServiceInv, Sound, MergedWasApproved, MemoryIsThread
    <2>3. AtGate /\ ckpt.gate = seen /\ seen \in Heads
      BY <2>1 DEF ServiceInv, GateHeld, BaseInv, GatesNamed, GateNamed, AtGate
    <2>4. Claimable /\ job.decision = "approve" => seen \in authorized
      BY <2>3 DEF Claimable, BaseInv, RowDecisionAuthorized, Heads, NoHead
    <2>5. GateHeld' /\ RowBoundToGate'
      BY <2>1, <2>3, <2>4 DEF ServiceInv, GateHeld, RowBoundToGate, Bound, AtGate
    <2> QED
      BY <2>2, <2>5 DEF ServiceInv
  <1>3. CASE RebindGate
    <2>1. /\ phase[Service] = "rebind" /\ phase'[Service] = "idle"
          /\ UNCHANGED <<ckpt, mem, merged, claimed, authorized>> /\ job'.gate = seen
      BY <1>0, <1>3 DEF RebindGate, Goto, change
    <2>2. AtGate /\ ckpt.gate = seen
      BY <2>1 DEF ServiceInv, GateHeld
    <2> QED
      BY <2>1, <2>2 DEF ServiceInv, Sound, MergedWasApproved, MemoryIsThread, GateHeld,
                        RowBoundToGate, AtGate
  <1>4. CASE Resume
    <2>1. /\ phase[Service] = "resume" /\ phase'[Service] = "run" /\ mem'[Service] = ckpt'
          /\ UNCHANGED <<job, merged, authorized>> /\ ckpt' = Decide(ckpt, claimed)
      BY <1>0, <1>4 DEF Resume, Save, Goto, change, ServiceInv, GateHeld
    <2>2. claimed = "approve" => ckpt.gate \in authorized
      BY <2>1 DEF ServiceInv, GateHeld
    <2>3. Sound(ckpt)' /\ MergedWasApproved'
      BY <1>0, <2>1, <2>2 DEF ServiceInv, Sound, MergedWasApproved, Decide, Checkpoint, NoHead
    <2>4. MemoryIsThread' /\ GateHeld' /\ RowBoundToGate'
      BY <2>1 DEF ServiceInv, MemoryIsThread, GateHeld, RowBoundToGate, Bound
    <2> QED
      BY <2>3, <2>4 DEF ServiceInv
  <1>5. CASE ClearAndInvoke
    <2>1. /\ phase'[Service] = "run" /\ mem'[Service] = ckpt' /\ job'.gate = NoHead
          /\ UNCHANGED <<merged, authorized>>
          /\ ckpt' = [ckpt EXCEPT !.next = "start", !.target = NoHead, !.gate = NoHead]
      BY <1>0, <1>5 DEF ClearAndInvoke, Invoke, Save, Goto, Job, change
    <2>2. Sound(ckpt)' /\ MergedWasApproved'
      BY <1>0, <2>1 DEF ServiceInv, Sound, MergedWasApproved, Checkpoint
    <2>3. MemoryIsThread' /\ GateHeld' /\ RowBoundToGate'
      BY <2>1 DEF MemoryIsThread, GateHeld, RowBoundToGate, Bound
    <2> QED
      BY <2>2, <2>3 DEF ServiceInv
  <1>6. CASE Publish
    <2>1. /\ phase[Service] = "publish" /\ phase'[Service] = "idle"
          /\ UNCHANGED <<ckpt, merged, authorized>>
          /\ Bound' => AtGate /\ job'.gate = ckpt.gate
      BY <1>0, <1>6 DEF Publish, Goto, Bound, AtGate, change
    <2> QED
      BY <2>1 DEF ServiceInv, Sound, MergedWasApproved, MemoryIsThread, GateHeld,
                  RowBoundToGate, AtGate
  <1> QED
    BY <1>1, <1>2, <1>3, <1>4, <1>5, <1>6 DEF ServiceStep

\* Users, outages and the change's own steps keep the invariant.
LEMMA OthersKeep ==
  ASSUME BaseInv, ServiceInv, UserStep \/ RunnerDown \/ Environment \/ UNCHANGED vars
  PROVE  ServiceInv'
  <1>0. job \in Job
    BY DEF BaseInv, TypeOK
  <1>1. ASSUME NEW u \in Users, NEW d \in Decisions, ReadGate(u, d) PROVE ServiceInv'
    BY <1>1, OthersStep DEF ReadGate, UserFrame, Bound, change
  <1>2. ASSUME NEW u \in Users, CheckRow(u) PROVE ServiceInv'
    BY <1>2, OthersStep DEF CheckRow, UserFrame, Bound, change
  <1>3. ASSUME NEW u \in Users, QueueDecision(u) PROVE ServiceInv'
    <2>1. job'.status = job.status /\ job'.gate = job.gate
      BY <1>0, <1>3 DEF QueueDecision, Job
    <2> QED
      BY <1>3, <2>1, OthersStep DEF QueueDecision, UserFrame, Bound, change
  <1>4. CASE Dispatch
    <2>1. Bound' => Bound /\ job'.gate = job.gate
      BY <1>0, <1>4 DEF Dispatch, Job, Bound
    <2> QED
      BY <1>4, <2>1, OthersStep DEF Dispatch, UserFrame, change
  <1>5. CASE RunnerDown
    <2>1. ~Bound'
      BY <1>0, <1>5 DEF RunnerDown, Job, Bound
    <2> QED
      BY <1>5, <2>1, OthersStep DEF RunnerDown, change
  <1>6. CASE Environment
    BY <1>6, OthersStep
       DEF Environment, Push, ChecksChange, Review, WorkerEnds, Elsewhere, Bound, change
  <1>7. CASE UNCHANGED vars
    BY <1>7, OthersStep DEF vars, change, Bound
  <1> QED
    BY <1>1, <1>2, <1>3, <1>4, <1>5, <1>6, <1>7 DEF UserStep

\* Without ticks every step keeps the invariant.
LEMMA ServiceInvStep ==
  ASSUME Ticks = {}, BaseInv, ServiceInv, [Next]_vars
  PROVE  ServiceInv'
  <1>0. Runs = {Service}
    BY DEF Runs
  <1>1. CASE NoWorker(Service)
    <2>1. /\ phase[Service] = "run" /\ mem[Service] = ckpt /\ ckpt \in Checkpoint /\ Sound(ckpt)
          /\ Return(Service, "waiting", "end")
      BY <1>1 DEF NoWorker, Running, ServiceInv, MemoryIsThread, BaseInv, TypeOK
    <2>2. Sound([ckpt EXCEPT !.status = "waiting", !.next = "end"])
      BY <2>1 DEF Sound, Checkpoint
    <2> QED
      BY <1>1, <2>1, <2>2, NodeSaves DEF NoWorker, Return, change
  <1>2. CASE Raise(Service)
    <2>1. job'.gate = NoHead
      BY <1>2 DEF BaseInv, TypeOK, Job, Raise, Fail
    <2> QED
      BY <1>2, <2>1, RunStops DEF Raise, Fail
  <1>3. CASE Crash(Service)
    BY <1>3, RunStops DEF Crash
  <1> QED
    BY <1>0, <1>1, <1>2, <1>3, NodesKeep, ServiceKeeps, OthersKeep DEF Next

\* The invariant of the service alone, for any number of users, heads and faults.
THEOREM ServiceInvariance ==
  ASSUME Ticks = {}
  PROVE  Spec => []IInv
  <1>1. Init => ServiceInv
    BY DEF Init, ServiceInv, Sound, GateHeld, MemoryIsThread, RowBoundToGate, Bound,
           MergedWasApproved, Fresh, NoHead, Runs
  <1>2. BaseInv /\ ServiceInv /\ [Next]_vars => ServiceInv'
    BY ServiceInvStep
  <1> QED
    BY <1>1, <1>2, BaseInvariance, PTL DEF Spec, IInv

\* The head that is merged is one whose approval a user has queued, through crashes, retries
\* and pushes.
THEOREM MergeApproved ==
  ASSUME Ticks = {}
  PROVE  Spec => []MergedWasApproved
  BY ServiceInvariance, PTL DEF IInv, ServiceInv

\* `oa approve` queues a decision only while its gate is the thread's state.
THEOREM DecisionAtGate ==
  ASSUME Ticks = {}
  PROVE  Spec => QueuedOnlyAtGate
  <1>1. ASSUME IInv, [Next]_vars, job.decision = "none", job'.decision # "none"
        PROVE  AtGate /\ ckpt.gate = job'.gate
    <2>0. job \in Job
      BY <1>1 DEF IInv, BaseInv, TypeOK
    <2>1. PICK u \in Users : QueueDecision(u) /\ job' # job
      <3>1. ServiceStep => job' = job \/ job'.decision = "none"
        <4>1. Observe \/ Resume => job' = job
          BY DEF Observe, Resume
        <4>2. ClaimApproval => job' = job \/ job'.decision = "none"
          BY <2>0 DEF ClaimApproval, Job
        <4>3. ClearAndInvoke => job'.decision = "none"
          BY <2>0 DEF ClearAndInvoke, Job
        <4>4. RebindGate \/ Publish => job'.decision = "none"
          BY DEF RebindGate, Publish
        <4> QED
          BY <4>1, <4>2, <4>3, <4>4 DEF ServiceStep
      <3>2. \A r \in Runs : NodeStep(r) \/ NoWorker(r) \/ Raise(r) \/ Crash(r)
                              => job'.decision = job.decision
        BY <2>0 DEF Job, NodeStep, GuardExistingState, EnsureWorker, InspectWorker, VerifyChange,
                    MergeChange, MergeRefused, SaveMerged, CleanupWorker, Halt, NodeFrame,
                    NoWorker, Raise, Crash, Fail
      <3>3. RunnerDown \/ Dispatch \/ Environment \/ UNCHANGED vars
              => job'.decision \in {"none", job.decision}
        <4>1. Dispatch => job'.decision \in {"none", job.decision}
          BY <2>0 DEF Job, Dispatch
        <4>2. RunnerDown => job'.decision = job.decision
          BY <2>0 DEF Job, RunnerDown
        <4>3. Environment \/ UNCHANGED vars => job' = job
          BY DEF Environment, Push, ChecksChange, Review, WorkerEnds, Elsewhere, vars
        <4> QED
          BY <4>1, <4>2, <4>3
      <3>4. \A u \in Users : CheckRow(u) \/ (\E d \in Decisions : ReadGate(u, d)) => job' = job
        BY DEF CheckRow, ReadGate
      <3>5. \A t \in Ticks : ~Tick(t)
        OBVIOUS
      <3> QED
        BY <1>1, <3>1, <3>2, <3>3, <3>4, <3>5 DEF Next, UserStep
    <2>2. RowWaits(u) /\ job'.gate = job.gate /\ user[u].gate \in Heads
      BY <1>1, <2>0, <2>1 DEF QueueDecision, IInv, BaseInv, UserKnowsGate, Job
    <2> QED
      BY <1>1, <2>2 DEF RowWaits, IInv, ServiceInv, RowBoundToGate, Bound, Heads, NoHead
  <1> QED
    BY <1>1, ServiceInvariance, PTL DEF Spec, QueuedOnlyAtGate

\* A rejection in the checkpoint is final: no step of the service alone takes it back, and
\* none merges after it.
THEOREM RejectionStands ==
  ASSUME Ticks = {}
  PROVE  Spec => RejectionFinal
  <1>1. ASSUME IInv, [Next]_vars, ckpt.status = "approval_rejected"
        PROVE  ckpt'.status = "approval_rejected" /\ merged' = merged
    <2>0. /\ Runs = {Service} /\ ckpt \in Checkpoint /\ ckpt.next \in {"start", "end"} /\ ~AtGate
          /\ mem \in [Runs -> Checkpoint]
          /\ phase[Service] \in {"run", "merging", "publish"} => mem[Service] = ckpt
          /\ phase[Service] = "merging" => ckpt.next = "merge"
          /\ phase[Service] # "resume"
      BY <1>1 DEF Runs, IInv, BaseInv, TypeOK, ServiceInv, Sound, MemoryIsThread, GateHeld, AtGate
    <2>1. CASE NodeStep(Service)
      <3>1. GuardExistingState(Service) \/ MergeRefused(Service) \/ Halt(Service)
        BY <2>0, <2>1 DEF NodeStep, Running, EnsureWorker, InspectWorker, VerifyChange,
                          MergeChange, SaveMerged, CleanupWorker
      <3>2. CASE GuardExistingState(Service)
        <4>1. PICK next \in Nodes : ckpt' = [ckpt EXCEPT !.status = ckpt.status, !.next = next]
          <5>1. mem[Service] = ckpt /\ "cleanup" \in Nodes /\ "end" \in Nodes /\ "worker" \in Nodes
            BY <2>0, <3>2 DEF GuardExistingState, Running, Nodes
          <5> QED
            BY <3>2, <5>1 DEF GuardExistingState, Return, Save
        <4>2. ckpt'.status = ckpt.status
          BY <2>0, <4>1 DEF Checkpoint
        <4> QED
          BY <1>1, <3>2, <4>2 DEF GuardExistingState, change
      <3> QED
        BY <1>1, <3>1, <3>2 DEF MergeRefused, Fail, Stop, Halt, change
    <2>2. CASE ServiceStep
      BY <1>1, <2>0, <2>2 DEF ServiceStep, Observe, ClaimApproval, RebindGate, Resume,
                              ClearAndInvoke, Invoke, Save, Publish, Checkpoint, change
    <2>3. CASE NoWorker(Service) \/ Raise(Service) \/ Crash(Service)
      BY <1>1, <2>0, <2>3 DEF NoWorker, Running, Raise, Crash, Fail, Stop, change
    <2>4. CASE UserStep \/ RunnerDown \/ Environment \/ UNCHANGED vars
      <3>1. ckpt' = ckpt
        BY <2>4 DEF UserStep, ReadGate, CheckRow, QueueDecision, Dispatch, UserFrame, RunnerDown,
                    Environment, Push, ChecksChange, Review, WorkerEnds, Elsewhere, vars
      <3>2. merged' = merged
        BY <2>4 DEF UserStep, ReadGate, CheckRow, QueueDecision, Dispatch, UserFrame, RunnerDown,
                    Environment, Push, ChecksChange, Review, WorkerEnds, vars, change
      <3> QED
        BY <1>1, <3>1, <3>2
    <2> QED
      BY <1>1, <2>0, <2>1, <2>2, <2>3, <2>4 DEF Next
  <1> QED
    BY <1>1, ServiceInvariance, PTL DEF Spec, RejectionFinal
=============================================================================
