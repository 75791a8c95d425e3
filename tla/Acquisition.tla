---------------------------- MODULE Acquisition ----------------------------
(***************************************************************************)
(* Acquisition of one worker per work item, as graph.py's check_capacity,  *)
(* ensure_worker and cleanup_worker do it over locking.py's file locks and *)
(* durable reservation records.                                            *)
(*                                                                         *)
(* A process is one run of the workflow graph: the background service or a *)
(* manual tick, of any supervised project.  Sessions live in the runner,   *)
(* which answers late, lists a new worker late, and may lose a spawn       *)
(* request or start it long after the caller gave up.                      *)
(***************************************************************************)
EXTENDS Naturals, FiniteSets

CONSTANTS
  Procs,         \* runs of the workflow graph (service, manual ticks)
  Items,         \* dispatched work items of every project
  Projects,      \* supervised projects (one configuration each)
  Lanes,         \* execution projects of the runner
  Logins,        \* login identities (Claude configuration directories)
  Harnesses,
  Models,        \* model profiles a route can select
  Sessions,      \* session ids
  Native,        \* sessions that somebody else than the supervisor starts
  Shadow,        \* processes whose configuration is in shadow mode
  ProjectOf,     \* [Items -> Projects]
  HarnessOf,     \* [Models -> Harnesses]
  LoginOf,       \* [Lanes -> Logins], the lane's binding or its profile's directory
  HomeLane,      \* [Projects -> Lanes], config.project.id
  KnownLanes,    \* [Projects -> SUBSET Lanes], home and every profile's lane
  Pool,          \* [Projects -> [Harnesses -> SUBSET Lanes]], routed profiles
  HarnessLimit,  \* [Projects -> [Harnesses -> Nat]], policy.capacity
  ModelLimit,    \* [Projects -> [Models -> Nat]], the profile's capacity
  LaneLimit,     \* [Projects -> [Lanes -> Nat]], the profile's max_workers
  Nobody,        \* no process, no session, no work item, no model
  NoKey,         \* a reservation made without a credential profile
  NoResv,        \* there is no record file for the work item
  Unborn         \* a session id the runner has not given out

PCs == {"idle", "route", "global", "item", "scan", "verify", "decide", "reserve",
        "spawn", "wait", "record", "save", "ready", "c_lock", "c_term", "c_clear"}

\* credential_resource_key
CredentialKey(h, lane) == <<h, LoginOf[lane]>>
Keys == Harnesses \X Logins

\* AcquisitionRecord.  Capacity 0 stands for an absent one: a recorded capacity is
\* at least 1.
Reservation ==
  [state: {"pending", "worker"}, worker: Sessions \cup {Nobody}, lane: Lanes,
   harness: Harnesses, model: Models, mcap: Nat, key: Keys \cup {NoKey}, kcap: Nat]

\* AgentSession, and the request that precedes it.
Session ==
  [state: {"requested", "active", "ended", "lost"}, item: Items, model: Models,
   lane: Lanes, listed: BOOLEAN]

ASSUME ConstantsTyped ==
  /\ Native \subseteq Sessions /\ Shadow \subseteq Procs
  /\ ProjectOf \in [Items -> Projects]
  /\ HarnessOf \in [Models -> Harnesses]
  /\ LoginOf \in [Lanes -> Logins]
  /\ HomeLane \in [Projects -> Lanes]
  /\ KnownLanes \in [Projects -> SUBSET Lanes]
  /\ Pool \in [Projects -> [Harnesses -> SUBSET Lanes]]
  /\ HarnessLimit \in [Projects -> [Harnesses -> Nat]]
  /\ ModelLimit \in [Projects -> [Models -> Nat \ {0}]]
  /\ LaneLimit \in [Projects -> [Lanes -> Nat \ {0}]]

ASSUME ConstantsDistinct ==
  /\ Nobody \notin Procs \cup Sessions \cup Items \cup Models
  /\ Nobody \notin [item : Items, model : Models, lane : Lanes]
  /\ NoKey \notin Keys
  /\ NoResv \notin Reservation
  /\ Unborn \notin Session

ASSUME ItemsFinite == IsFiniteSet(Items)
ASSUME SessionsFinite == IsFiniteSet(Sessions)

VARIABLES
  globalLock,  \* holder of the user-global allocation lock
  itemLock,    \* holder of each work item's acquisition lock
  resv,        \* the durable reservation record of each work item
  sess,        \* the runner's sessions
  thread,      \* worker_id in the work item's workflow checkpoint
  pc, task, route, scan, pick, wid  \* a process: position, item, model, session
                              \* snapshot, lane admitted to, worker asked for or obtained

vars == <<globalLock, itemLock, resv, sess, thread, pc, task, route, scan, pick, wid>>
locals == <<task, route, scan, pick, wid>>

TypeOK ==
  /\ globalLock \in Procs \cup {Nobody}
  /\ itemLock \in [Items -> Procs \cup {Nobody}]
  /\ resv \in [Items -> Reservation \cup {NoResv}]
  /\ sess \in [Sessions -> Session \cup {Unborn}]
  /\ thread \in [Items -> Sessions \cup {Nobody}]
  /\ pc \in [Procs -> PCs]
  /\ task \in [Procs -> Items \cup {Nobody}]
  /\ route \in [Procs -> Models \cup {Nobody}]
  /\ scan \in [Procs -> SUBSET Sessions]
  /\ pick \in [Procs -> Lanes \cup {Nobody}]
  /\ wid \in [Procs -> Sessions \cup {Nobody}]

Init ==
  /\ globalLock = Nobody
  /\ itemLock = [i \in Items |-> Nobody]
  /\ resv = [i \in Items |-> NoResv]
  /\ sess = [s \in Sessions |-> Unborn]
  /\ thread = [i \in Items |-> Nobody]
  /\ pc = [p \in Procs |-> "idle"]
  /\ task = [p \in Procs |-> Nobody]
  /\ route = [p \in Procs |-> Nobody]
  /\ scan = [p \in Procs |-> {}]
  /\ pick = [p \in Procs |-> Nobody]
  /\ wid = [p \in Procs |-> Nobody]

----------------------------------------------------------------------------
(* What the code reads.                                                    *)

Reserved(i) == resv[i] # NoResv
IsPending(i) == Reserved(i) /\ resv[i].state = "pending"
HasWorker(i) == Reserved(i) /\ resv[i].state = "worker"

IsActive(s) == sess[s] # Unborn /\ sess[s].state = "active"
IsEnded(s) == sess[s] # Unborn /\ sess[s].state = "ended"
\* A worker that is running, or that the runner may still start.
IsLive(s) == sess[s] # Unborn /\ sess[s].state \in {"requested", "active"}
HarnessOfSession(s) == HarnessOf[sess[s].model]

\* all_sessions: the active workers listed for the project's lanes and for more.
Visible(i, more) ==
  {s \in Sessions : /\ IsActive(s)
                    /\ sess[s].listed
                    /\ sess[s].lane \in KnownLanes[ProjectOf[i]] \cup more}

ReservedLane(i) == IF Reserved(i) THEN {resv[i].lane} ELSE {}

\* A listed session that may be the one a pending reservation waits for.
MatchesPending(s, i) ==
  /\ sess[s].item = i
  /\ sess[s].lane = resv[i].lane
  /\ HarnessOfSession(s) = resv[i].harness

\* global_resource_count: the matching records, and the matching sessions that no
\* matching record stands for.
ResourceCount(seen, items, matching) ==
  LET represented ==
        {s \in seen : \E j \in items :
            \/ HasWorker(j) /\ resv[j].worker = s
            \/ IsPending(j) /\ MatchesPending(s, j)}
  IN Cardinality(items) + Cardinality(matching \ represented)

ModelRecords(m) == {j \in Items : Reserved(j) /\ resv[j].model = m}

\* Mutant: only the current configuration's capacity counts, not the recorded ones.
OwnLimitOnly(project, m, seen) ==
  ResourceCount(seen, ModelRecords(m), {s \in seen : HarnessOfSession(s) = HarnessOf[m]})
    < ModelLimit[project][m]

HasModelCapacity(project, m, seen) ==
  LET count == ResourceCount(seen, ModelRecords(m),
                             {s \in seen : HarnessOfSession(s) = HarnessOf[m]})
  IN /\ count < ModelLimit[project][m]
     /\ \A j \in ModelRecords(m) : count < resv[j].mcap

\* Mutant: records are matched by execution project, not by login.
RecordsOfLane(h, lane) ==
  {j \in Items : Reserved(j) /\ resv[j].lane = lane /\ resv[j].harness = h}

CredentialRecords(h, lane) ==
  {j \in Items : /\ Reserved(j)
                 /\ \/ resv[j].key = CredentialKey(h, lane)
                    \/ resv[j].key = NoKey /\ resv[j].lane = lane /\ resv[j].harness = h}

CredentialCount(h, lane, seen) ==
  ResourceCount(seen, CredentialRecords(h, lane),
                {s \in seen : HarnessOfSession(s) = h /\ sess[s].lane = lane})

CredentialFree(project, h, lane, seen) ==
  /\ CredentialCount(h, lane, seen) < LaneLimit[project][lane]
  /\ \A j \in CredentialRecords(h, lane) :
        resv[j].kcap # 0 => CredentialCount(h, lane, seen) < resv[j].kcap

\* select_global_credential_profile: a least used profile with room (the order of
\* the configuration breaks ties; here any of them may be taken).
SelectLane(project, h, seen) ==
  LET free == {lane \in Pool[project][h] : CredentialFree(project, h, lane, seen)}
  IN {lane \in free : \A other \in free :
        CredentialCount(h, lane, seen) <= CredentialCount(h, other, seen)}

\* Mutant: a reservation still pending takes no room.
AcquiredOnly(i, seen) ==
  {j \in Items \ {i} : /\ ProjectOf[j] = ProjectOf[i]
                       /\ HasWorker(j) /\ resv[j].worker \notin seen}

\* sessions_with_capacity_reservations: the project's other reservations that no
\* session of the snapshot stands for.
Unrepresented(i, seen) ==
  {j \in Items \ {i} :
      /\ ProjectOf[j] = ProjectOf[i]
      /\ Reserved(j)
      /\ ~(HasWorker(j) /\ resv[j].worker \in seen)
      /\ ~(IsPending(j) /\ \E s \in seen : MatchesPending(s, j))}

HasHarnessCapacity(i, h, seen) ==
  Cardinality({s \in seen : HarnessOfSession(s) = h})
    + Cardinality({j \in Unrepresented(i, seen) : resv[j].harness = h})
      < HarnessLimit[ProjectOf[i]][h]

\* has_model_capacity and select_credential_profile: the unlocked, advisory check
\* over what is listed, with no reservation counted.
AdvisoryCapacity(i, m, seen) ==
  LET P == ProjectOf[i]
      h == HarnessOf[m]
      count(S) == Cardinality({s \in S : HarnessOfSession(s) = h})
  IN /\ count(seen) < HarnessLimit[P][h]
     /\ count(seen) < ModelLimit[P][m]
     /\ \/ Pool[P][h] = {}
        \/ \E lane \in Pool[P][h] :
              count({s \in seen : sess[s].lane = lane}) < LaneLimit[P][lane]

----------------------------------------------------------------------------
(* Steps of a process.                                                     *)

\* Where the run of p goes next; it keeps its item and route.
Goto(p, label) == pc' = [pc EXCEPT ![p] = label]

\* The run ends and forgets its local state.
EndRun(p) ==
  /\ Goto(p, "idle")
  /\ task' = [task EXCEPT ![p] = Nobody]
  /\ route' = [route EXCEPT ![p] = Nobody]
  /\ scan' = [scan EXCEPT ![p] = {}]
  /\ pick' = [pick EXCEPT ![p] = Nobody]
  /\ wid' = [wid EXCEPT ![p] = Nobody]

\* Leaving a lock context, or dying in it: the flock is gone.
ReleaseLocks(p) ==
  /\ globalLock' = IF globalLock = p THEN Nobody ELSE globalLock
  /\ itemLock' = [i \in Items |-> IF itemLock[i] = p THEN Nobody ELSE itemLock[i]]

\* A tick or a reconciliation starts; select_route has chosen a model.
Start(p, i, m) ==
  /\ pc[p] = "idle"
  /\ Goto(p, "route")
  /\ task' = [task EXCEPT ![p] = i]
  /\ route' = [route EXCEPT ![p] = m]
  /\ UNCHANGED <<globalLock, itemLock, resv, sess, thread, scan, pick, wid>>

\* check_capacity: a visible worker of the item, or visible room, lets the run go on.
CheckCapacity(p) ==
  LET seen == Visible(task[p], {})
  IN /\ pc[p] = "route"
     /\ \/ \E s \in seen : sess[s].item = task[p]
        \/ AdvisoryCapacity(task[p], route[p], seen)
     /\ Goto(p, "global")
     /\ UNCHANGED <<globalLock, itemLock, resv, sess, thread, locals>>

\* Mutant: the user-global lock is not waited for.
SkipGlobal(p) ==
  /\ pc[p] = "global"
  /\ Goto(p, "item")
  /\ UNCHANGED <<globalLock, itemLock, resv, sess, thread, locals>>

\* worker_acquisition_locks: the global lock first ...
AcquireGlobal(p) ==
  /\ pc[p] = "global"
  /\ globalLock = Nobody
  /\ globalLock' = p
  /\ Goto(p, "item")
  /\ UNCHANGED <<itemLock, resv, sess, thread, locals>>

\* ... then the work item's.
AcquireItem(p) ==
  /\ pc[p] = "item"
  /\ itemLock[task[p]] = Nobody
  /\ itemLock' = [itemLock EXCEPT ![task[p]] = p]
  /\ Goto(p, "scan")
  /\ UNCHANGED <<globalLock, resv, sess, thread, locals>>

\* Under both locks: read the reservation and list the sessions once.
Scan(p) ==
  /\ pc[p] = "scan"
  /\ scan' = [scan EXCEPT ![p] = Visible(task[p], ReservedLane(task[p]))]
  /\ Goto(p, "verify")
  /\ UNCHANGED <<globalLock, itemLock, resv, sess, thread, task, route, pick, wid>>

\* No reserved worker to verify, or the listing shows it as active.
VerifyListed(p) ==
  /\ pc[p] = "verify"
  /\ HasWorker(task[p]) => resv[task[p]].worker \in scan[p]
  /\ Goto(p, "decide")
  /\ UNCHANGED <<globalLock, itemLock, resv, sess, thread, locals>>

\* get_session finds the reserved worker active although it was not listed.
VerifyFound(p) ==
  LET w == resv[task[p]].worker
  IN /\ pc[p] = "verify"
     /\ HasWorker(task[p]) /\ w \notin scan[p]
     /\ IsActive(w)
     /\ scan' = [scan EXCEPT ![p] = @ \cup {w}]
     /\ Goto(p, "decide")
     /\ UNCHANGED <<globalLock, itemLock, resv, sess, thread, task, route, pick, wid>>

\* Mutant: a worker that is not listed is taken for ended.
DropUnlisted(p) ==
  /\ pc[p] = "verify"
  /\ HasWorker(task[p]) /\ resv[task[p]].worker \notin scan[p]
  /\ resv' = [resv EXCEPT ![task[p]] = NoResv]
  /\ Goto(p, "decide")
  /\ UNCHANGED <<globalLock, itemLock, sess, thread, locals>>

\* get_session reports the reserved worker as over: the reservation is dropped.
VerifyEnded(p) ==
  LET w == resv[task[p]].worker
  IN /\ pc[p] = "verify"
     /\ HasWorker(task[p]) /\ w \notin scan[p]
     /\ IsEnded(w)
     /\ resv' = [resv EXCEPT ![task[p]] = NoResv]
     /\ Goto(p, "decide")
     /\ UNCHANGED <<globalLock, itemLock, sess, thread, locals>>

\* get_session has no answer: worker_reservation_unverified, nothing is changed.
VerifyUnknown(p) ==
  /\ pc[p] = "verify"
  /\ HasWorker(task[p]) /\ resv[task[p]].worker \notin scan[p]
  /\ ReleaseLocks(p)
  /\ EndRun(p)
  /\ UNCHANGED <<resv, sess, thread>>

Workers(p) == {s \in scan[p] : sess[s].item = task[p]}

\* The reservation after a pending one met exactly one matching worker.
Recovered(p) ==
  LET matches == {s \in Workers(p) : MatchesPending(s, task[p])}
  IN IF IsPending(task[p]) /\ \E s \in matches : matches = {s}
       THEN [resv[task[p]] EXCEPT !.state = "worker",
                                  !.worker = CHOOSE s \in matches : TRUE]
       ELSE resv[task[p]]

\* worker_conflict: two workers, or one of another harness.
Conflict(p) ==
  /\ pc[p] = "decide"
  /\ Workers(p) # {}
  /\ ~\E s \in Sessions : /\ Workers(p) = {s}
                          /\ HarnessOfSession(s) = HarnessOf[route[p]]
  /\ resv' = [resv EXCEPT ![task[p]] = Recovered(p)]
  /\ ReleaseLocks(p)
  /\ EndRun(p)
  /\ UNCHANGED <<sess, thread>>

\* The record written for the one active worker of the item that fits the route.
AdoptedRecord(p, s) ==
  LET old == resv[task[p]]
      kept == Reserved(task[p])
      P == ProjectOf[task[p]]
      inPool == sess[s].lane \in Pool[P][HarnessOf[route[p]]]
  IN [state |-> "worker", worker |-> s, lane |-> sess[s].lane,
      harness |-> HarnessOfSession(s),
      model |-> IF kept THEN old.model ELSE route[p],
      mcap |-> IF kept THEN old.mcap ELSE ModelLimit[P][route[p]],
      key |-> IF kept /\ old.key # NoKey THEN old.key
              ELSE IF inPool THEN CredentialKey(HarnessOfSession(s), sess[s].lane) ELSE NoKey,
      kcap |-> IF kept /\ old.kcap # 0 THEN old.kcap
               ELSE IF inPool THEN LaneLimit[P][sess[s].lane] ELSE 0]

Reuse(p, s) ==
  /\ pc[p] = "decide"
  /\ Workers(p) = {s}
  /\ HarnessOfSession(s) = HarnessOf[route[p]]
  /\ resv' = [resv EXCEPT ![task[p]] = AdoptedRecord(p, s)]
  /\ wid' = [wid EXCEPT ![p] = s]
  /\ scan' = [scan EXCEPT ![p] = {}]
  /\ ReleaseLocks(p)
  /\ Goto(p, "save")
  /\ UNCHANGED <<sess, thread, task, route, pick>>

\* Mutant: a pending reservation does not stop another spawn.
IgnorePending(p) ==
  LET i == task[p]
      P == ProjectOf[i]
      h == HarnessOf[route[p]]
  IN /\ Workers(p) = {}
     /\ HasHarnessCapacity(i, h, scan[p])
     /\ HasModelCapacity(P, route[p], scan[p])
     /\ Pool[P][h] # {} => SelectLane(P, h, scan[p]) # {}

\* Whether a run in "decide" may take a new worker: no worker, no reservation, and
\* room for the harness, the model and, with a profile pool, a login.
MayAdmit(p) ==
  LET i == task[p]
      P == ProjectOf[i]
      h == HarnessOf[route[p]]
  IN /\ Workers(p) = {}
     /\ ~IsPending(i)
     /\ HasHarnessCapacity(i, h, scan[p])
     /\ HasModelCapacity(P, route[p], scan[p])
     /\ Pool[P][h] # {} => SelectLane(P, h, scan[p]) # {}

\* worker_acquisition_pending, waiting_capacity, waiting_profile_capacity, or
\* planned_worker in shadow mode.
Refuse(p) ==
  /\ pc[p] = "decide"
  /\ Workers(p) = {}
  /\ ~MayAdmit(p) \/ p \in Shadow
  /\ ReleaseLocks(p)
  /\ EndRun(p)
  /\ UNCHANGED <<resv, sess, thread>>

\* The checks pass, on the listing and on the records of the other items; a profile
\* with room is chosen.
Admit(p, lane) ==
  LET P == ProjectOf[task[p]]
      h == HarnessOf[route[p]]
  IN /\ pc[p] = "decide"
     /\ p \notin Shadow
     /\ MayAdmit(p)
     /\ IF Pool[P][h] = {} THEN lane = HomeLane[P] ELSE lane \in SelectLane(P, h, scan[p])
     /\ pick' = [pick EXCEPT ![p] = lane]
     /\ scan' = [scan EXCEPT ![p] = {}]
     /\ Goto(p, "reserve")
     /\ UNCHANGED <<globalLock, itemLock, resv, sess, thread, task, route, wid>>

\* Mutant: the reservation does not say which model it is for.
RecordWithoutModel(p, lane) ==
  LET P == ProjectOf[task[p]]
  IN [state |-> "pending", worker |-> Nobody, lane |-> lane, harness |-> HarnessOf[route[p]],
      model |-> Nobody, mcap |-> ModelLimit[P][route[p]], key |-> NoKey, kcap |-> 0]

\* The record that reserves an item for a worker not yet asked for.
PendingRecord(p, lane) ==
  LET P == ProjectOf[task[p]]
      h == HarnessOf[route[p]]
      pooled == Pool[P][h] # {}
  IN [state |-> "pending", worker |-> Nobody, lane |-> lane, harness |-> h,
      model |-> route[p], mcap |-> ModelLimit[P][route[p]],
      key |-> IF pooled THEN CredentialKey(h, lane) ELSE NoKey,
      kcap |-> IF pooled THEN LaneLimit[P][lane] ELSE 0]

\* record_pending_acquisition, before the runner is asked for anything.
Reserve(p) ==
  /\ pc[p] = "reserve"
  /\ resv' = [resv EXCEPT ![task[p]] = PendingRecord(p, pick[p])]
  /\ pick' = [pick EXCEPT ![p] = Nobody]
  /\ Goto(p, "spawn")
  /\ UNCHANGED <<globalLock, itemLock, sess, thread, task, route, scan, wid>>

\* runner.spawn_worker: the request leaves the process.
RequestSpawn(p, s) ==
  /\ pc[p] = "spawn"
  /\ s \notin Native /\ sess[s] = Unborn
  /\ sess' = [sess EXCEPT ![s] =
                [state |-> "requested", item |-> task[p], model |-> route[p],
                 lane |-> resv[task[p]].lane, listed |-> FALSE]]
  /\ wid' = [wid EXCEPT ![p] = s]
  /\ Goto(p, "wait")
  /\ UNCHANGED <<globalLock, itemLock, resv, thread, task, route, scan, pick>>

\* The runner answers with the session it started.
SpawnReturns(p) ==
  /\ pc[p] = "wait"
  /\ IsActive(wid[p]) \/ IsEnded(wid[p])
  /\ Goto(p, "record")
  /\ UNCHANGED <<globalLock, itemLock, resv, sess, thread, locals>>

\* Mutant: a failed spawn takes its reservation back.
ForgetFailedSpawn(p) ==
  /\ pc[p] \in {"spawn", "wait"}
  /\ resv' = [resv EXCEPT ![task[p]] = NoResv]
  /\ ReleaseLocks(p)
  /\ EndRun(p)
  /\ UNCHANGED <<sess, thread>>

\* Mutant: the spawn command has no timeout.
FailBeforeAsking(p) ==
  /\ pc[p] = "spawn"
  /\ ReleaseLocks(p)
  /\ EndRun(p)
  /\ UNCHANGED <<resv, sess, thread>>

\* The command cannot be run, times out, or its answer cannot be read: the exception
\* leaves the pending reservation behind.
SpawnFails(p) ==
  /\ pc[p] \in {"spawn", "wait"}
  /\ ReleaseLocks(p)
  /\ EndRun(p)
  /\ UNCHANGED <<resv, sess, thread>>

\* record_acquired_worker, then the locks are left.
RecordAcquired(p) ==
  /\ pc[p] = "record"
  /\ resv' = [resv EXCEPT ![task[p]].state = "worker", ![task[p]].worker = wid[p]]
  /\ ReleaseLocks(p)
  /\ Goto(p, "save")
  /\ UNCHANGED <<sess, thread, locals>>

\* The node's result, with its worker_id, reaches the workflow checkpoint.
SaveThread(p) ==
  /\ pc[p] = "save"
  /\ thread' = [thread EXCEPT ![task[p]] = wid[p]]
  /\ Goto(p, "ready")
  /\ UNCHANGED <<globalLock, itemLock, resv, sess, locals>>

\* The run stops at review, at a gate, or because there is nothing to do yet.
Finish(p) ==
  /\ pc[p] = "ready"
  /\ EndRun(p)
  /\ UNCHANGED <<globalLock, itemLock, resv, sess, thread>>

\* The run reaches cleanup_worker: merged, or the report is complete.
StartCleanup(p) ==
  /\ pc[p] = "ready"
  /\ Goto(p, "c_lock")
  /\ UNCHANGED <<globalLock, itemLock, resv, sess, thread, locals>>

\* A later run finds "merged" in the checkpoint and cleans the worker it names.
ResumeCleanup(p, i) ==
  /\ pc[p] = "idle"
  /\ thread[i] # Nobody
  /\ Goto(p, "c_lock")
  /\ task' = [task EXCEPT ![p] = i]
  /\ wid' = [wid EXCEPT ![p] = thread[i]]
  /\ UNCHANGED <<globalLock, itemLock, resv, sess, thread, route, scan, pick>>

\* cleanup_worker takes the item's lock, not the global one.
CleanupLock(p) ==
  /\ pc[p] = "c_lock"
  /\ itemLock[task[p]] = Nobody
  /\ itemLock' = [itemLock EXCEPT ![task[p]] = p]
  /\ Goto(p, "c_term")
  /\ UNCHANGED <<globalLock, resv, sess, thread, locals>>

\* Mutant: cleanup terminates in shadow mode too.
TerminateAlways(p) ==
  /\ pc[p] = "c_term"
  /\ sess' = IF IsActive(wid[p]) THEN [sess EXCEPT ![wid[p]].state = "ended"] ELSE sess
  /\ Goto(p, "c_clear")
  /\ UNCHANGED <<globalLock, itemLock, resv, thread, locals>>

\* runner.terminate; shadow mode leaves the worker alone.
Terminate(p) ==
  /\ pc[p] = "c_term"
  /\ sess' = IF p \notin Shadow /\ IsActive(wid[p])
               THEN [sess EXCEPT ![wid[p]].state = "ended"] ELSE sess
  /\ Goto(p, "c_clear")
  /\ UNCHANGED <<globalLock, itemLock, resv, thread, locals>>

\* Mutant: cleanup drops whatever reservation the item has.
ClearAny(p) ==
  /\ pc[p] = "c_clear"
  /\ resv' = [resv EXCEPT ![task[p]] = NoResv]
  /\ ReleaseLocks(p)
  /\ EndRun(p)
  /\ UNCHANGED <<sess, thread>>

\* clear_acquisition_record drops the record only if it names this worker.
ClearRecord(p) ==
  LET i == task[p]
  IN /\ pc[p] = "c_clear"
     /\ resv' = IF HasWorker(i) /\ resv[i].worker = wid[p]
                  THEN [resv EXCEPT ![i] = NoResv] ELSE resv
     /\ ReleaseLocks(p)
     /\ EndRun(p)
     /\ UNCHANGED <<sess, thread>>

\* An exception leaves the node, or the process dies: the locks are released, the
\* records and the runner keep what they have.  A failed listing or termination and
\* the stops for no advisory capacity or a pending account switch end this way too.
Abandon(p) ==
  /\ pc[p] # "idle"
  /\ ReleaseLocks(p)
  /\ EndRun(p)
  /\ UNCHANGED <<resv, sess, thread>>

----------------------------------------------------------------------------
(* Steps of the runner.                                                    *)

\* A request becomes a running worker, whether or not the caller still waits.
Begin(s) ==
  /\ sess[s] # Unborn /\ sess[s].state = "requested"
  /\ sess' = [sess EXCEPT ![s].state = "active"]

\* A request dies with its caller or inside the runner.
Lose(s) ==
  /\ sess[s] # Unborn /\ sess[s].state = "requested"
  /\ sess' = [sess EXCEPT ![s].state = "lost"]

\* The session list starts to show an active worker.
Appear(s) ==
  /\ IsActive(s) /\ ~sess[s].listed
  /\ sess' = [sess EXCEPT ![s].listed = TRUE]

\* The worker exits, or its change is merged or closed.
End(s) ==
  /\ IsActive(s)
  /\ sess' = [sess EXCEPT ![s].state = "ended"]

\* Somebody starts a worker for the item by hand.
StartNative(s, i, m, lane) ==
  /\ s \in Native /\ sess[s] = Unborn
  /\ sess' = [sess EXCEPT ![s] = [state |-> "active", item |-> i, model |-> m,
                                  lane |-> lane, listed |-> TRUE]]

RunnerStep ==
  /\ \E s \in Sessions :
        \/ Begin(s) \/ Lose(s) \/ Appear(s) \/ End(s)
        \/ \E i \in Items, m \in Models, lane \in Lanes : StartNative(s, i, m, lane)
  /\ UNCHANGED <<globalLock, itemLock, resv, thread, pc, locals>>

\* Steps that a live process keeps taking once it has started a run.
Progress(p) ==
  \/ CheckCapacity(p) \/ AcquireGlobal(p) \/ Scan(p)
  \/ VerifyListed(p) \/ VerifyFound(p) \/ VerifyEnded(p) \/ VerifyUnknown(p)
  \/ Conflict(p) \/ Refuse(p)
  \/ \E s \in Sessions : Reuse(p, s)
  \/ \E lane \in Lanes : Admit(p, lane)
  \/ \E s \in Sessions : RequestSpawn(p, s)
  \/ Reserve(p) \/ SpawnReturns(p) \/ SpawnFails(p) \/ RecordAcquired(p) \/ SaveThread(p)
  \/ CleanupLock(p) \/ Terminate(p) \/ ClearRecord(p)

ProcessStep(p) ==
  \/ \E i \in Items, m \in Models : Start(p, i, m)
  \/ Progress(p) \/ AcquireItem(p)
  \/ Finish(p) \/ StartCleanup(p)
  \/ \E i \in Items : ResumeCleanup(p, i)
  \/ Abandon(p)

Next == RunnerStep \/ \E p \in Procs : ProcessStep(p)

Spec == Init /\ [][Next]_vars

\* Commands have timeouts and a node runs to its end, so a live run keeps going; the
\* kernel wakes a process blocked in flock(2) once the lock is free.
Fairness == \A p \in Procs : WF_vars(Progress(p)) /\ SF_vars(AcquireItem(p))

FairSpec == Spec /\ Fairness

----------------------------------------------------------------------------
(* Properties.                                                             *)

\* At most one worker the supervisor asked for is in play for a work item, counting
\* requests that timed out and may still start ("concurrent service/manual ticks
\* cannot both observe an empty work item and create two workers").
OneWorkerPerItem ==
  \A s, t \in Sessions \ Native :
    IsLive(s) /\ IsLive(t) /\ sess[s].item = sess[t].item => s = t

\* A worker in play that the supervisor asked for is never forgotten: its item's
\* reservation names it, or is still pending with the attributes it is found by.
EveryWorkerReserved ==
  \A s \in Sessions \ Native : IsLive(s) =>
    LET i == sess[s].item
    IN \/ HasWorker(i) /\ resv[i].worker = s
       \/ IsPending(i) /\ MatchesPending(s, i)

\* The workers in play on a model never outnumber the capacity any of their own
\* reservations was made under, across processes and project configurations.
ModelCapacityKept ==
  \A i \in Items : Reserved(i) =>
    Cardinality({s \in Sessions : IsLive(s) /\ sess[s].model = resv[i].model})
      <= resv[i].mcap

\* The same for the workers that share one login, over every execution project bound
\* to it.
LoginCapacityKept ==
  \A i \in Items : Reserved(i) /\ resv[i].key # NoKey =>
    Cardinality({s \in Sessions :
                   /\ IsLive(s)
                   /\ Reserved(sess[s].item)
                   /\ resv[sess[s].item].key = resv[i].key}) <= resv[i].kcap

\* A project's harness limit bounds its workers in play, the unlisted ones included.
HarnessCapacityKept ==
  \A P \in Projects, h \in Harnesses :
    Cardinality({s \in Sessions : /\ IsLive(s)
                                  /\ ProjectOf[sess[s].item] = P
                                  /\ HarnessOfSession(s) = h}) <= HarnessLimit[P][h]

\* A reservation that names a running worker goes on naming it: neither a failed
\* lookup, nor another run's stale listing or cleanup, nor a second worker erases it.
\* The exception is cleanup in shadow mode, which drops the reservation of the worker
\* it leaves running.
KnownWorkerKept ==
  [][\A i \in Items, s \in Sessions :
        HasWorker(i) /\ resv[i].worker = s /\ IsLive(s) /\ IsLive(s)'
        => \/ HasWorker(i)' /\ resv'[i].worker = s
           \/ \E p \in Shadow : pc[p] = "c_clear" /\ wid[p] = s]_vars

\* A pending reservation is not given up while a request made under it can still
\* start: it becomes the reservation of that very session.
UncertainSpawnKept ==
  [][\A s \in Sessions \ Native :
        IsLive(s) /\ IsPending(sess[s].item) /\ IsLive(s)'
        => \/ IsPending(sess[s].item)'
           \/ HasWorker(sess[s].item)' /\ resv'[sess[s].item].worker = s]_vars

\* A process in shadow mode neither starts nor ends a worker.
ShadowLeavesRunnerAlone ==
  [][\A p \in Shadow : pc'[p] # pc[p] => sess' = sess]_vars

\* Whoever holds the user-global allocation lock lets go of it: the lock order and
\* the commands' timeouts leave nobody waiting for ever.
GlobalLockReleased ==
  \A p \in Procs : globalLock = p ~> globalLock # p

\* The promise to the rest of the system.
WP == INSTANCE WorkerPool
        WITH job <- [s \in Sessions |->
                       IF IsLive(s)
                         THEN [item |-> sess[s].item, model |-> sess[s].model,
                               lane |-> sess[s].lane]
                         ELSE Nobody]

\* Seen through the runner's sessions, the protocol is a pool of workers that launches
\* at most one per item and never past a configured limit.
ImplementsPool == WP!Spec
=============================================================================
