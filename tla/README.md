# Formal models of agent-workflow-supervisor

TLA+ modules, TLC configurations and TLAPS proofs about the supervisor in
`src/agent_workflow_supervisor/`. The supervisor drives coding agents from a dispatched issue
to a merged change: it starts one worker per work item, watches its review, asks for an
approval, merges, and cleans up. What makes it hard is not any single step but who else may be
taking one: a background service, manual ticks, other projects on the same machine, users
approving, workers and changes that move on their own, commands that time out after having
taken effect, and processes that die anywhere.

## 1. The system

### Components, their state and their operations

| Component | Code | State it keeps | Operations that change it |
|---|---|---|---|
| Workflow graph | `graph.py`, `runtime.py` | one LangGraph thread per project and work item, in a SQLite checkpointer; the checkpoint written last is the thread's state | entry guard, `load_work_item`, `select_route`, `check_capacity`, `ensure_worker`, `inspect_worker`, `return_review_feedback`, `verify_change`, `approval_gate`, `merge_change`, `cleanup_worker` |
| Acquisition records and locks | `locking.py` | two kinds of `flock` files (one user-global, one per work item), a durable JSON record per item, switch markers | lock contexts; record a pending or an acquired worker, clear; claim and release a switch |
| Policy and routing | `policy.py`, `config.py`, `models.py` | none (a configuration per project) | `select_model`, `has_capacity`, `has_model_capacity`, `select_credential_profile` |
| Job store and service loop | `service.py` | `supervisor_jobs`: a row per dispatched item with its status, its approval gate, its queued decision and its notification columns | `dispatch`, `approve`, `claim_approval`, `clear_approval`, `update_result`, `mark_notified`; `reconcile_job` |
| Service lifecycle | `service.py`, `cli.py` | `supervisor.pid` (ownership record), `supervisor.lock` (lifetime lock), the daemon | `start_service`, `stop_service`, `serve`; the commands that stop, reconfigure and restart |
| Bundled runner | `adapters/process.py`, `process_worker.py` | `process_sessions` and `process_reviews` rows, private task files, detached helpers with the coding CLI each drives, worktrees | spawn, poll (`list_sessions`, `get_review`), trigger and cancel a review, retry its comment, deliver feedback, terminate; the helper of a turn, of a review and of a comment |
| Agent Orchestrator adapter | `adapters/ao.py`, `adapters/command.py` | none (Agent Orchestrator's) | `list_sessions`, `get_session`, `spawn_worker`, `send`, `terminate`, reviews |
| GitHub adapter | `adapters/github.py` | none (GitHub's) | `get_change`, `merge` of an expected head |
| Notifications | `service.py` | notification columns of the row | `deliver_pending_notifications` |
| Native relay | `ao_relay.py` | bindings and delivery checkpoints, user-global | `reconcile` under a global lock |
| Account switch | `project_accounts.py`, `account_switch.py`, `accounts.py` | pending-switch markers, account registry | schedule, wait for idle, replace the orchestrator, recover |
| Registry | `registry.py` | `registry.toml` | read, change and write under a file lock |
| Command line | `cli.py` | none | `tick`, `approve`, `dispatch`, `start`, `stop`, project and account commands |
| Identifiers, model health | `identifiers.py`, `model_health.py` | none | pure parsing; probes |

### How they interact

* The service and any number of `oa tick` processes run the same graph on the same thread. Each
  keeps its own state in memory while it runs; every node ends with a checkpoint; nothing
  keeps a tick and the service apart except the locks inside `ensure_worker` and
  `cleanup_worker`.
* `ensure_worker` holds the user-global lock and then the item's lock around everything from
  the session listing to the record of the new worker. `cleanup_worker` holds the item's lock
  only. Capacity limits are shared by all projects of the user through the records.
* The runner is another program: it lists a new worker late, a `spawn` may time out in the
  caller and still take effect, and an item may get a worker that somebody starts by hand.
* `reconcile_job` reads the thread's state; at the gate it claims a decision queued for exactly
  that gate and resumes the thread with it, or publishes the gate again; elsewhere it clears
  the row's decision and runs the graph from its entry.
* `oa approve` reads the gate from the checkpoint, selects the row, then updates it.
* With the bundled runner, every launch (a worker's turn, a review, a comment retry) is a detached
  helper that reads its task file, starts the coding CLI under a sentinel process, and writes the
  same two rows as the supervisor. Helpers outlive the supervisor and a CLI can outlive helper and
  sentinel; the supervisor learns of them from the rows, the process table and the task files.
* An account switch binds the project's account under the user-global lock, leaves a marker that
  holds up `ensure_worker`, and has a detached helper kill and replace the conversation that asked
  for it. The notices of a dispatched item look for that conversation, or for its replacement.
* `dispatch` and `approve` also start the service; `project merge-mode`, `project accounts`
  and `project models` stop it, write configuration and start it again.

### What is hard, and what correctness means

| Component | Hard behaviour | Correctness |
|---|---|---|
| Acquisition | stale listings, timed out spawns, crashes between request and record, capacity shared by projects with different limits, cleanup of an old worker beside a new one | at most one worker per item, no worker forgotten, no limit exceeded, no record of a live worker lost, the global lock always released |
| Approval and merge | ticks beside the service, a head that moves, two users, crashes between claim and resume and between merge and checkpoint | only an approved head is merged, a decision binds to one gate, a rejection is final, no decision is left behind, a merge is completed |
| Lifecycle | stale records, reused pids, starts and stops and reconfigurations at once | one service, which the record names, with the current configuration |
| Review watchdog | attempts counted across run ids, verdicts racing timeouts, runs that somebody else started | bounded attempts, feedback returned once, no approval from an old run |
| Bundled runner | supervisor and helper update one row, processes that die apart from each other, a comment or a prompt accepted whose acknowledgement is lost | one CLI per worktree, a verdict never lost or contradicted, findings given once, no worktree removed under a worker, nothing waits for ever |
| Notifications | crash between delivery and its mark, the item dispatched again meanwhile, the conversation replaced | what is due is delivered, and again only after a fault |
| Native relay | several services observing one session | a relayed verdict once |
| Account switch | a switch asked for while workers are acquired, two switches, schedulers and helpers that die anywhere | the account is never changed under a worker, a living switch's marker is its own, no marker blocks for ever |

`PROJECT.json` lists the hazards one by one, at the line where each bites, with the properties
that would catch it.

## 2. Modules

| Module | What it is |
|---|---|
| `WorkerPool` | Abstract specification: what the supervisor promises of its workers (one per item; a launch within every limit in force). |
| `Acquisition` | `check_capacity`, `ensure_worker`, `cleanup_worker`, the locks, the records and the runner's behaviour. Implements `WorkerPool`. |
| `AcquisitionInv` | Its inductive invariants. |
| `MCAcquisition` | Constant definitions for TLC. |
| `AcquisitionProofs` | Theorems about `Acquisition`: types, locks, one worker per item, what holds beside foreign workers and shadow mode. |
| `AcquisitionCapacity` | Theorems about its limits, and that it implements `WorkerPool`. |
| `ApprovalGate` | One protected item from dispatch to merge: graph nodes, checkpoint, job row, service, ticks, `approve`, and the change. |
| `ApprovalProofs` | Theorems about `ApprovalGate`. |
| `ServiceLifecycle` | The service as a process and the commands that start, stop and reconfigure it. |
| `LifecycleProofs` | Theorems about `ServiceLifecycle`. |
| `ReviewWatchdog` | `inspect_worker` and `return_review_feedback` in full for one item with a pull request: attempts, timeouts, run ids, verdicts, findings; and the runner that reviews. |
| `ReviewProofs` | Theorems about `ReviewWatchdog`. |
| `ProcessStore` | The bundled runner's two rows and their operations, conditional and unconditional. |
| `ProcessRunner` | Supervisor, helpers, CLIs, task files, worktree and pull request around those rows. |
| `RunnerInv` | The inductive invariants of `ProcessRunner`. |
| `RunnerProofs` | Theorems about `ProcessRunner`: types, verdicts, deliveries. |
| `RunnerDriver` | Theorems about its processes and its worktree. |
| `Orchestrators` | The orchestrator conversations of a project. |
| `AccountSwitch` | The marker, the scheduler, its helper, a switch made by hand, and a worker acquired beside them. |
| `Notifications` | The notification columns of the row and `deliver_pending_notifications`. |
| `Conversation` | `AccountSwitch` and `Notifications` composed over the same `Orchestrators`. |
| `ConversationProofs` | Theorems about `Conversation`. |

`Conversation` is a composition: a step of the switch, of the notices or of the conversations
themselves, with faults counted together. It carries an acquisition of its own, reduced to what a
switch can see of it (is a worker reserved or active, and under which account). The other state
machines stand side by side: `ApprovalGate` takes from the
watchdog only that a review is approved or not, `Acquisition` only that a run of the graph goes
on after `ensure_worker`, the lifecycle only that a service runs, and the watchdog sees a runner
that does whatever either runner may do.

### Acquisition

A process `p` is one run of the graph. `pc[p]` is its position in `ensure_worker` or
`cleanup_worker`; `task`, `route`, `scan`, `pick` and `wid` are its local variables: the item,
the chosen model, the one session listing the node works from, the lane (execution project)
it was admitted to, and the worker. `globalLock`
and `itemLock` are the lock files, `resv` the record files, `sess` the runner's sessions,
`thread` the `worker_id` in each item's checkpoint.

One action per step between two points where another process can act. `Scan` is the listing
under the locks; the `Verify...` actions are the three outcomes of `get_session` for a reserved
worker that is not listed, plus the case where there is nothing to look up; `Conflict`,
`Reuse`, `Refuse` and `Admit` are the exits of the decision that follows; `Reserve`,
`RequestSpawn`, `SpawnReturns` or `SpawnFails` and `RecordAcquired` are the launch. Every
exception and every death of a process is `Abandon`, possible at any position: the locks go,
the files stay. `ResumeCleanup` lets any later run clean up the worker of an old checkpoint.
The capacity rules (`HasHarnessCapacity`, `HasModelCapacity`, `SelectLane`, `ResourceCount`)
are operators translated line by line, since which record represents which session is where
an off-by-one would hide.

What is abstracted: capacity 0 in a record stands for none; ties between equally used
credential profiles are broken freely, not by configuration order; a run stopped by a pending account
switch is an `Abandon` (the two are composed in `Conversation`); a session started by hand is listed at once. Legacy records, which
lack a model or a capacity (graph.py 203-210), do not occur in the model.

### ApprovalGate

`ckpt` is the thread's latest checkpoint (next node, status, and three heads: the review's
target, the gate's head, the approved head); `mem[r]` is what a run `r` holds in memory, and
`phase[r]` where the service is in `reconcile_job`. `job` is the row. Nodes are actions that
read `mem` and the outside world and write both `mem` and `ckpt`, so that a tick can move the
thread between any two steps of the service. `MergeChange` and `SaveMerged` are separate: the
merge happens at GitHub, the checkpoint after. A user is the three steps of `oa approve`:
`ReadGate`, `CheckRow` (the SELECT) and `QueueDecision` (the UPDATE and its condition).
The change's head, checks and review move freely until it is merged. `authorized` is a history
variable: the heads whose approval an UPDATE has put into the row.

What is abstracted: `inspect_worker` knows approved or not approved; the watchdog's attempts
are those of `ReviewWatchdog`, and the report-only path is not modelled. `"waiting"` in the row stands for every
status that is neither terminal nor about approval. The LangGraph checkpointer is external: a
node's update is saved when the node ends, `Command(resume)` continues from the thread's latest
checkpoint, and on a thread that is not at an interrupt it goes on without the value.

### ServiceLifecycle

A daemon is a launch: its pid together with its token. `life` is its position in `serve`;
before `signal.signal` a SIGTERM kills it, afterwards it only sets a flag (`term`). `record` is
`supervisor.pid`, `lock` the lifetime lock, `reused` the dead daemons whose pid is now another
process's: such a record is alive but not owned, and start and stop refuse it. A command is a
position `at` in `start_service`, `stop_service` or the stop, write, start sequence. `DropStale`
removes the file some time after it was read, as the code does. `overlapped` is a history
variable: two commands have been under way at once, or one has been killed.

### ReviewWatchdog

`rec` is what `get_review` returns (the runner's latest record: status, verdict, target head,
run id, start), `ckpt` the review fields of `SupervisorState`. A poll is one action per exit of
`inspect_worker`: without a record `InitialReview`, `NothingToReview`, `AwaitRecord`,
`RestartMissing`, `GiveUpMissing`; with a verdict `ChangesRequested`, `Approved`; without one
`RestartFailed`, `GiveUpFailed`, `FirstTrigger`, `AwaitVerdict`, `RestartTimedOut`,
`GiveUpTimedOut`. `Key`, `SameReview`, `StartedElsewhere`, `Attempts`, `Started`, `KnownRun` and
the `...Now` operators are the local variables of lines 850-930 in their order. An exit that
calls the runner keeps the update it has decided on in `mem` while `phase` walks through the
calls (`CancelReview`, `TriggerReview`) to `SaveCheckpoint`; the runner and the world move in
between. `ReadFeedback`, `FeedbackGone`, `DeliverFeedback` and `FeedbackRefused` are
`return_review_feedback`, whose second read of the review may find another one. `Crash` is the
process dying, or an exception that `reconcile_job` catches, between any two of these.

The runner starts an accepted trigger at once or later (`queued`, `TriggerSurfaces`), fails
runs, answers them, loses records, and may or may not name the head in its record. Others start
runs, push heads and replace the worker. `tried`, `delivered` and `repeats` are history
variables.

What is abstracted: a timestamp is missing, younger or older than `review_timeout_seconds`, and
time passes between polls only, since a node is short against the 30 minutes. A push while a
record is there makes the record ask for a review of the new head at once. A worker that has
opened its pull request stays at `pr_open`. An exit without a call is one step with its
checkpoint. Two supervisors polling one thread, the report-only exits (lines 710-740) and shadow
mode are left out. A dead worker (`worker_unhealthy`) is `ReplaceWorker`, since `ensure_worker`
gives the item another one. An approval that names no change is no verdict to the code (lines 832
and 842): it is a run that is done with its verdict unknown, which the watchdog times out.

### ProcessStore and ProcessRunner

One session of the bundled runner. `session` and `review` are the rows (`process_sessions`,
`process_reviews`); the operations in `ProcessStore` say which columns each compares: an
`update_session` compares nothing, `claim_helper` and the like compare the token, and the review
operations compare status, run and token. `helper[h]` is a launch: where its process is, the
`driver` it started (`wrapped` by its sentinel, an `orphan` whose helper and sentinel are gone, or
the `gh` command of a comment), and its task. `tasks` are the task files that exist, `tree` the
worktree, `pr` the pull request, `sup` the call that the supervisor is in with the rows it has read
for it. `prompted` and `said` are history variables: prompts that a driver has accepted for a run's
findings, and verdicts its comments carry.

The supervisor is one sequential caller. A poll is `ReadSession`, one exit of `_refresh_session`
(`RefreshNothing`, `RefreshFeedbackSent`, `RefreshRecovers`, `RefreshLost`, `RefreshPullRequest`)
and one of `get_review` (`ReviewLost`, `FeedbackAnswered`, `ReviewRecovers`, `FeedbackIgnored`,
`ReviewUnchanged`); between the read of a row and the write that follows from it the helpers move.
The other calls are `SpawnWorker`, `TriggerReview`, `RetryReviewComment`, `CancelReview`, `Send` and
the two halves of `terminate`, and a launch is `Launch`, then `MarkLaunched`. The helper of a turn is
`TurnAcquires`, `TurnStarts`, `TurnConfirms`, `TurnRecords`; that of a review goes on to
`ReviewJudged`, `PostStarts` and `CompleteReview`; `TurnRaises`, `ReviewRaises` and `CommentFails`
are their exception paths.
The token of the first turn is the session id, which is part of every helper's command line and of
every task file's name: `NamesHelper` and `NamesDriver` say what a search for a token finds. The
worktree's path ends in the session id too. A codex or opencode reviewer has it on its command line
and is found with the first turn's token (`WorktreeInArgv`), a reviewer of another harness is not.

Faults: `KillHelper` kills a helper, its sentinel, its driver or several of them, which leaves task
files and orphans; `SupervisorCrash` may happen between two writes of a call; a launch, a turn, a
review and `gh` may fail, `gh` before or after it was accepted. `Age` is the passing of the limits that count from a
row's `updated_at`.

What is abstracted: a record of a helper and the unlink of its task file are one step; `young` is
kept for a status only where some limit waits for it; output is a verdict, an error or garbage;
time passes for both rows at once; a turn may or may not leave a session that can be resumed, since
its provider's id is looked for in the output (`TurnRecords`). `TurnStarts` and `ReviewStarts` are
one step from `Popen` to the prompt: a CLI whose `mark_helper_process` is refused is stopped there
before it has been given anything to do, and a helper that dies in between is one that dies before
or after. `gh` has its arguments from the start, so that it may have posted before it is stopped
(`MayBeSaid`). The process table is complete: a failing `ps`, which the code reads as an empty
table, is left out, and what the pid and its group still tell is in `Active`. `WorktreeKept` leaves orphaned reviewers out: the code does not
look for them and they only read. Left out: `send` to a worker that has no review, two supervisors
on one session, platforms other than POSIX, a sentinel killed alone.

### Orchestrators, AccountSwitch, Notifications and Conversation

`conv` is the state of each conversation; users open and close them and their turns begin and end.
A switch `s` has a scheduler (`sched[s]`: `Ask`, `SchedulerBinds`, `Configure`, `Mark`,
`StartHelper`, `Attach`) and a helper (`helper[s]`: `SeesSource` or `GivesUp`, `HelperBinds`,
`Configure`, `KillReplaced`, `SpawnReplacement`, `Leave`); a switch in `Manual` is
`bind-account --restart`, which binds and replaces in one call. `lock` is the user-global lock,
`marker` the pending-switch file with the pid that answers for it (`Pending`, `Reclaimed`,
`ClearedBy`). `resv` and `worker` are the record and the worker of the project's one item. A process
may die, and a command may fail with or without having taken effect, at any point (`InFlight`).
Agent Orchestrator may drop a project with its last conversation; it is then added and configured
again before the spawn. In between the project has no account of its own, which others see only if
the switch ends there (`Reregister`), since it holds the lock. `SeesSource` is the second of two idle
observations: the first changes nothing, and the turn may go on after it.

`job` is the notification part of the row: `Dispatch` and `UpdateResult` write it, the service's
delivery is `FindDue`, `ChooseTarget` or `NoTarget`, `Send` or `SendFails`, and `MarkNotified`, each
with what it read in `snap`. A key is a gate (its change and head) or `completed`.

What is abstracted: `bind-account` without `--restart`, the option `--session`, execution-project
pools, reused pids and the project's own lock (always taken inside the global one); a switch asks
for another account than the default; the error text of a failed delivery and the other terminal
statuses, which have a key of the same form. Enough conversations exist that a spawn is always
possible.

Consequences of the code that no property here forbids: a scheduler that dies between starting the
helper and attaching it leaves a marker that is reclaimed although the helper goes on, and that
helper may replace the conversation later (`project_accounts.py`, about line 779); a failing
`ao session get` reads as a missing session, so that a busy conversation may be killed
(`account_switch.py:17-21`); a message taken by a conversation just before it is replaced is gone
with it; a status that comes back with the key it was last notified of is not sent again; a
status without a key of its own leaves an unsent key in place; and dispatching a completed item
again drops a notice of its completion that is not yet delivered.

## 3. Runs

`tlc -workers 2 -config <cfg> <module>`.

| Run | Configuration | Bounds | Shows |
|---|---|---|---|
| `harness` | `MCAcquisition`, `AcquireHarness.cfg` | 2 processes, 2 items of one project, 3 sessions, room for 1 worker | type invariant, `OneWorkerPerItem`, `EveryWorkerReserved`, `HarnessCapacityKept`, `UncertainSpawnKept`, and the refinement `ImplementsPool` |
| `shared` | `AcquireShared.cfg` | 2 projects with limits 2 and 1 on a shared model and a shared login, 2 sessions | `ModelCapacityKept`, `LoginCapacityKept`: the smallest limit in force holds over all projects |
| `foreign` | `AcquireForeign.cfg` | one worker started by hand, one process in shadow mode, two routes | `KnownWorkerKept`, `ShadowLeavesRunnerAlone`, and under fairness `GlobalLockReleased` |
| `service` | `ApprovalService.cfg` | the service alone, 2 users, 2 heads, 1 fault | type invariant, `MergedWasApproved`, `QueuedOnlyAtGate`, `RejectionFinal`, and under fairness `DecisionLeavesRow` |
| `mixed` | `ApprovalMixed.cfg` | service and tick, 1 user, 2 heads | `RowDecisionAuthorized` even beside a tick |
| `tick` | `ApprovalTick.cfg` | the same | finding: `MergedWasApproved` is violated |
| `crash` | `ApprovalCrash.cfg` | service alone, 1 fault | finding: `MergeIsCompleted` is violated |
| `lifecycle` | `Lifecycle.cfg` | 2 commands, 3 launches, 1 change of configuration, 2 faults | type invariant, `OneService`, `ServiceFound`, `ServiceUpToDate` |
| `watchdog` | `Watchdog.cfg` | a budget of 2, 2 heads, 1 disturbance | type invariant, `AttemptsBounded`, `StallMeansTried`, `FeedbackOnce`, and under fairness `FeedbackReturned` and `NoSilentWait` |
| `runner` | `ProcessRunner`, `Runner.cfg` | 2 heads, 1 review run, 3 turns, 2 reviewers or comment retries, 1 fault | type invariant, `OneDriver`, `VerdictPosted`, `PromptOnce`, `VerdictStands`, `WorktreeKept`, and under fairness `NothingHangs` |
| `finished_lost` | `RunnerFinished.cfg` | 1 turn, no fault | finding: `FinishedKept` is violated |
| `conversation` | `Conversation.cfg` | a scheduled and a manual switch, 4 conversations, 2 accounts, 1 gate, 1 fault | type invariant, `WorkerOnBoundAccount`, `NoticesDelivered`, `SwitchUndisturbed`, and under fairness `WaitEnds` and `Informed` |

Further configurations, of the same modules:

| Configuration | Shows |
|---|---|
| `AcquireNative.cfg` | `OneWorkerPerItem` is violated with a worker started by hand beside two of the supervisor's |
| `LifecycleStale.cfg` | `ConfigurationInForce` is violated when commands overlap |
| `WatchdogBudget.cfg` | `BudgetIncludesInitialAttempt` is violated |
| `RunnerWide.cfg` | the safety properties of `runner` with two review runs (1.57 million states) |
| `RunnerWindow.cfg` | `OneDriver` and `WorktreeKept` are violated when helper and sentinel are killed while a poll or `send` holds the row it read |
| `ConversationWide.cfg` | the safety properties of `conversation` with two scheduled switches (819,000 states) |

Why the bounds are enough. Every race here is between two parties over one item, lock or row,
and two of each are there. Three sessions allow an old worker, a timed out request and a new
one. Two heads are the old and the new one, which is all that staleness needs. One fault per
behaviour places a crash, an exception or an outage at any single point (the `service` run also
passes with two). Three launches allow a dead service with its stale record and two starts that
race over it; two faults allow a crash followed by a reused pid or a killed command.
A budget of 2 (the default) tells the first attempt from a restart and a restart from giving up.
A disturbance is a crash, a lost record, a replaced worker or a run that somebody else starts:
each of them resets or hides a count, so that the bounds on attempts and deliveries are stated
per disturbance, and one of any kind at any point is what the run explores. Run ids and attempt
counts are not capped: the budget, the heads and the disturbances bound them.
For the runner three turns are the first, one that answers findings and one after a claim that was
rolled back; two launches on the review's side are a reviewer and a retry of its comment, or two reviewers;
one fault is a death or a failure anywhere (one kill may take several processes). `Endings` leaves
the pass run one way for a pull request to end, `WorktreeInArgv` is set in the pass run and not in the
others (the proofs hold for both), and `KillsInWindow` keeps kills that leave an
orphan out of the moments in which a poll or `send` holds the rows it has read: there the pid it
looks for is out of date, which `RunnerWindow.cfg` shows. A fourth conversation lets both switches replace one and
a user open one. `CHECK_DEADLOCK` is off in the configurations of `ProcessRunner` and `Conversation`: a session that is
terminated, and a project whose conversations and switches are used up, have nothing left to do.
The others have it on: those models never stop.
`harness` and `shared` use the symmetry of processes and of sessions; no liveness property is
checked under symmetry.

### What the findings say

* `tick`: the claim of a decision and the resume that uses it are two steps. A tick in between
  can move the thread to the gate of another head, and the decision is then applied there. The
  row itself stays right (`mixed`); without ticks the merged head is always approved
  (`service`).
* `crash`: a merge that GitHub has made and the checkpoint has not is not recognised later: the
  change is no longer open, so `verify_change` waits for ever.
* `finished_lost`: a poll reads every session's row before it looks at the processes. If the worker
  ends between the two, its helper records `finished`, removes its task file and ends, and the poll
  finds neither process nor task file and writes `failed` over it. A failed session is not looked at
  again, so that a worker that exited successfully gets no window to be found a pull request.

The further configurations that end in a violation:

* `AcquireNative.cfg`: with the pending record of a timed out spawn in place, a worker started by hand for
  the same item, in the same lane and harness, is taken for the missing one. When it ends, its record is
  dropped and another worker is spawned, while the timed out request can still start. Without
  such workers the property is proved.
* `LifecycleStale.cfg`: a service that a start is just launching has loaded the old file and has no
  record yet; a reconfiguration in that moment believes that no service runs. The same
  overlap with a stale record can leave a running service that no record names (two starts both
  find the record stale, and the slower one removes the winner's). `ServiceFound` and
  `ServiceUpToDate` are therefore stated, and proved, for commands that run in turn.
* `WatchdogBudget.cfg`: attempts made while the runner has no record are counted under
  `<worker>:unknown`; when the record appears and names the head, the count starts again. A head
  can get up to twice the budget without a new commit or anybody else's run, which is the bound
  that `AttemptsBounded` states and the `watchdog` run checks.
* `RunnerWindow.cfg`: a call looks for an orphaned CLI by the pid in the row that it has read. A
  poll reads the row while it still has the helper's pid; the helper starts the CLI and records the CLI's
  pid; helper and sentinel are killed; the poll finds neither and calls the session lost. The
  CLI runs on, and a second turn starts beside it, or `terminate` removes its worktree.

### Fairness

`Acquisition`: weak fairness of the steps of a run that has started, because every external
command has a timeout and a node runs to its end, and strong fairness of taking an item lock,
because the kernel wakes a process blocked in `flock`. Nothing is assumed of when a run starts, or
of the runner. `ApprovalGate`: weak fairness of the service's own steps, because `serve` polls for ever
and its commands end; no fairness of users, ticks, the change, or recovery from a fault
beyond the service's being restarted. `ReviewWatchdog`: weak fairness of the service's steps and
of time, and strong fairness of the delivery of findings, because the runner refuses a message
only while another is on its way. Nothing is assumed of the runner beyond that: a
run may never end, a trigger may never surface, a record may never appear. `ProcessRunner`: weak
fairness of the supervisor (it polls for ever and finishes its calls) and of helpers, CLIs and time;
that a coding CLI ends is an assumption about it, since the code sets a worker's turn no limit.
Users, faults and the supervisor's choice of another call are not fair. `Conversation`: weak
fairness of the switches' processes that run (a helper gives up after its own limit, and `flock`
lets a waiting one in), of the acquisition that is retried at every poll, and of the delivery.
Conversations owe nothing, and `Informed` says on which of their behaviours delivery depends.
Everything else is safety and assumes none.

## 4. Proofs

Checked with `tlapm`, for every value of the constants that meets the named assumptions of the
module (constants have their types, `Nobody` and the like are distinct from real values, bounds are natural numbers).

**Acquisition, base** (`AcquisitionProofs`). `BaseInv` is `TypeOK`, `LocksMatch` (positions and
lock files agree) and `RecordsThere` (what a step reads is there). It is inductive without further
assumption, with native workers and shadow mode: theorems `TypeCorrect` and `LockProtocol`.

**Acquisition, safety** (`AcquisitionProofs`). `OneWorkerPerItem` is not inductive: a process
about to spawn must know that nothing is in play for its item, and what it knows comes from a
listing that may be stale. `IInv` adds the argument the locks rest on: a session named anywhere
has started and belongs to that item (`WorkersStarted`); what a run has read under the locks is
still true of the item when it acts (`SnapshotSound`); from admission to record a spawn is its
item's only one (`SpawnSound`); cleanup clears only the record of an ended worker
(`CleanupSound`). `Invariance` proves it inductive under `Supervised`, that is no native workers
and no shadow mode; `AcquireNative.cfg` shows that the first half of the assumption is needed, and
the second is needed because shadow cleanup drops the record of a running worker. Consequences:
`OneWorker`, `NoWorkerForgotten`, `UncertainSpawnSafe`.

**Acquisition, beside others** (`AcquisitionProofs`). What does not need `Supervised` has an
invariant of its own, `KnownInv`: a record that names a worker names a started session of its item
(`KnownStarted`), a run that decides has that session in its listing and a run that reserves found
no record (`KnownSeen`), only in shadow mode is a record cleared whose worker runs (`KnownEnded`),
and a process in shadow mode never comes to ask for a worker (`ShadowIdle`). Consequences, for
every value of the constants: `KnownWorkerSafe` and `ShadowSafe`.

**Acquisition, limits** (`AcquisitionCapacity`). The code compares numbers of records with limits;
the promise is about workers. The bridge is that every worker in play has a record of its item,
one worker per item, and the record is for the worker's own model, lane and harness
(`ModelsMatch`, `LimitsRecorded` and `IInv`): the workers in play inject into the records, so that
it is enough to bound the records. `HarnessFits`, `ModelFits` and `LoginFits` do; a step leaves
every set of records as it is, or smaller, but for the reservation, which adds one under the
global lock. For that step `Admitted` says that from admission to reservation there is room for
one more under every limit in force, because only the lock's holder adds records, and `LoginHeld`
carries what a login admits from the reservation to the request. `CapacityInvariance` proves this
inductive under `Supervised`; `HarnessLimitKept`, `ModelLimitKept` and `LoginLimitKept` follow.
`PoolRefinement` is the refinement: the initial state is a pool's, the request of a spawn is a
`Launch` of an item that has no worker and within every limit, the end of a worker is the pool's,
and every other step of every process is a stutter of it.

**Lifecycle** (`LifecycleProofs`). The lock protocol gives `OneServiceHolds`. For commands in turn
the strengthening says what the only command under way knows at each position (nothing is up, or
nothing but its own daemon), and that a live daemon is recorded or being launched;
`ServiceAlwaysFound` and `ServiceAlwaysUpToDate` follow, and `LifecycleTyped` for the types.

**Review** (`ReviewProofs`). Both theorems rest on what the checkpoint knows of the runner. For
`StallOnlyAfterBudget` the invariant `BudgetInv` compares counts: attempts in the checkpoint under
the current head's key are at most the attempts made at that head (`AttemptsCounted`; a node about
to trigger is one ahead), which needs that a record never names another head and that a run of the
head counts as an attempt (`RecordSound`, `RunsCounted`), and a stalled checkpoint has a spent
budget (`StallCounted`). For `FeedbackSentOnce`, `FeedbackInv` says that if the latest run's
findings were delivered, then the checkpoint or the update about to be saved says so, or fewer
deliveries were repeated than disturbances happened (`DeliveryKnown`), and what a node between its
read and its send may rely on (`SendingSound`). `IInv`, their conjunction with `TypeOK`, is
inductive (`ReviewInvariant`).

**Review, attempts** (`ReviewProofs`). That the attempts at a head are bounded (`ReviewsBounded`)
is a statement about what can still come, since counts are lost and begun again: a record that
appears has another key, and a run id that the node does not know sets its count back to one.
`Left` is the number of attempts that can still be made at the current head without another
disturbance, by what the record is, whether the node has counted on its review (`Counting`),
whether an unknown run is there or may surface (`Resetting`), and whether a call is about to be
made (`Coming`). It never exceeds two budgets (`LeftRange`). The lemmas from `SpendMissing` to
`SpendTime` show that a step lowers `Left` by at least the attempts it makes; a disturbance may
raise it to anything in its range, and the bound rises by two budgets then; a new head has no
attempts. `SpentBounded`, that the attempts made and `Left` together are within the bound, is
therefore inductive (`SpendInvariant`), with what updates are made of (`NodeSound`).

**Approval** (`ApprovalProofs`). `BaseInv` holds beside any number of ticks: types, a checkpoint
at the gate names a head (`GatesNamed`), `oa approve` carries the head it read (`UserKnowsGate`),
and `RowDecisionAuthorized`, since every step clears the row's decision, unbinds it, keeps both,
or is the UPDATE itself: `GateTyped`, `RowAuthorized`. What is merged, queued and rejected is
proved for `Ticks = {}` (with ticks it is false, run `tick`). `ServiceInv` says that the service's
memory is the thread's state while it runs (`MemoryIsThread`), that the gate it has seen is still
the thread's and the decision it has claimed was given to it (`GateHeld`), that a bound row means
a thread waiting at that very gate (`RowBoundToGate`), and that a checkpoint leads to a merge only
of its approved head and to nothing but its end once rejected (`Sound`). It is inductive
(`ServiceInvariance`); `MergeApproved`, `DecisionAtGate` and `RejectionStands` follow, for any
number of users, heads and faults.

**Conversation** (`ConversationProofs`). For the account: a switch between its check and its last
step holds the global lock, so that no worker is reserved or active until it lets go of it,
and a worker in play has a reservation, which keeps later switches out. For the notices: `told`
counts the messages sent for the row's key, and while that key is not marked it is at most the
faults so far plus the message that the service is about to mark. For the marker: only the holder
of the lock, which has looked at it, replaces it (`MarkerHeld`); a process that has ended stays so
(`HelperStarted`: a helper is started once), so that a marker can lose the process that answers
for it and never gets one back. `ConversationInvariant` proves all three inductive with the types;
`ConversationTyped`, `AccountKept`, `MarkerItsOwn` and `NoticeOncePerFault` follow.

**Runner, rows** (`RunnerProofs`). `BaseInv` holds for every value of the constants, whatever
dies. It says what a launch looks like at each of its positions (`LaunchShapes`), that turns are
launched in the order of their tokens and the row has the last one (`TurnsInOrder`), what the
rows' columns have to do with each other and with the launch that they name (`RowShapes`), and
what is left of a row that a call read before other processes moved (`CallShapes`): this is what
the conditional updates of `ProcessStore` are there for. On top of it, `OneVerdict` compares
everything that speaks for a run, its comments, the launches that may still comment and the row's
verdict; `Deliveries` counts how often a run's findings reached a worker, by what has become of
its claim: one not made yet, made and not yet delivered, or rolled back, has at most one delivery
per fault, and a claim is rolled back only when its turn was not prompted, or with a fault; and a
`gh` command belongs to the run that the row is posting (`CommentOwned`). `BaseInvariance` proves
it inductive; `RunnerTyped`, `VerdictIsPosted`, `PromptedOnce` and, of every step, `VerdictKept`
follow.

**Runner, processes** (`RunnerDriver`). `DriverInv` adds that a worker's driver is the one whose
pid the session row has (`DriverOwned`), that its task file is there (`TaskKept`), that a call
which looks for a driver without its helper has the pid to find it by (`PidKnown`), that no
reviewer exists before the first driver (`NoReviewYet`), and what `terminate` has stopped before
it removes the worktree (`Stopped`). It is inductive (`DriverInvariance`) when `KillsInWindow =
FALSE`, that is if helper and sentinel are not killed together while a poll or `send` holds the
rows that it has read; `RunnerWindow.cfg` shows that `OneDriver` and `WorktreeKept` fail without
the assumption. `OneDriverWorks` and `WorktreeStays` follow under the same assumption.

Every invariant and every action property of a passing run is stated by a theorem. Only
model-checked are the liveness properties (`GlobalLockReleased`, `DecisionLeavesRow`,
`FeedbackReturned`, `NoSilentWait`, `NothingHangs`, `WaitEnds`, `Informed`), since liveness under
fairness is outside the prover's reach here, and what the configurations that end in a violation
show.

## 5. Plan

1. `WorkerPool`, `Acquisition` with safety proofs: done.
2. `ApprovalGate` with proofs: done.
3. `ServiceLifecycle` with proofs: done.
4. `ReviewWatchdog` with proofs: done, but for report-only items.
5. `ProcessStore`, `ProcessRunner` with proofs: done.
6. `Notifications`, `AccountSwitch` and their composition `Conversation` with proofs: done; left are
   the relay, execution-project pools and `bind-account` without `--restart`.
7. Proofs: done for what the runs check. Left: that the approval path implements an abstract gate (an item
   is merged once, with an approval of its head), and the same for the conditional updates of `ProcessStore`.

## 6. Not modelled

In the plan, not in the models yet: report-only items in the watchdog and the gate, and the native
relay (`ao_relay.py`: verdicts of native reviewers relayed once per key, with a table of its own
under a global lock). The registry (`registry.py`) reads, changes and writes its file under one
exclusive lock, so that its operations do not interleave. What each model of a modelled component leaves out is said with it in section 2.
Out of scope: identifier parsing and label
routing (pure, a work item and a route are model values), model health probes (stateless I/O),
configuration parsing and printing, building the command lines of CLIs and parsing their output, the
contents of prompts, comments and logs, platforms other than POSIX. GitHub, Agent Orchestrator, the
coding CLIs and the checkpointer are modelled from how the code uses them.

Two hazards have no model: a request that is lost in the runner leaves a pending reservation that
only an operator can clear (`graph.py:560`), and the pid that `stop_service` has verified may be
another process's by the time the signal is sent (`service.py:790`).
