--------------------------- MODULE AcquisitionInv ---------------------------
(***************************************************************************)
(* The inductive invariants of Acquisition.  BaseInv holds for every value *)
(* of the constants.  IInv adds what holds when every worker is started by *)
(* the supervisor and no process runs in shadow mode (Supervised).         *)
(***************************************************************************)
EXTENDS Acquisition

Supervised == Native = {} /\ Shadow = {}

\* Positions inside the global lock, inside an item lock, with a route, and with a
\* worker that the runner has started.
Allocating == {"item", "scan", "verify", "decide", "reserve", "spawn", "wait", "record"}
HoldingItem == {"scan", "verify", "decide", "reserve", "spawn", "wait", "record", "c_term",
                "c_clear"}
Routed == {"route", "global", "item", "scan", "verify", "decide", "reserve", "spawn",
           "wait", "record"}
WithWorker == {"record", "save", "ready", "c_lock", "c_term", "c_clear"}

\* Who holds which lock can be read off the processes' positions.
LocksMatch ==
  /\ \A p \in Procs : pc[p] # "idle" => task[p] \in Items
  /\ \A p \in Procs : pc[p] \in Routed => route[p] \in Models
  /\ \A p \in Procs : pc[p] \in Allocating <=> globalLock = p
  /\ \A p \in Procs : pc[p] \in HoldingItem => itemLock[task[p]] = p
  /\ \A p \in Procs, i \in Items : itemLock[i] = p => pc[p] \in HoldingItem /\ task[p] = i

\* Records that are read are there: a reservation made is still pending until its
\* spawn is over, and session ids name sessions.
RecordsThere ==
  /\ \A i \in Items : HasWorker(i) => resv[i].worker \in Sessions
  /\ \A p \in Procs : pc[p] \in {"spawn", "wait", "record"} => IsPending(task[p])
  /\ \A p \in Procs : pc[p] = "reserve" => pick[p] \in Lanes
  /\ \A p \in Procs : pc[p] \in {"wait"} \cup WithWorker => wid[p] \in Sessions
  /\ \A p \in Procs : \A s \in scan[p] : sess[s] # Unborn

BaseInv == TypeOK /\ LocksMatch /\ RecordsThere

----------------------------------------------------------------------------

Started(s) == sess[s] # Unborn /\ sess[s].state \in {"active", "ended"}

\* How a session may change in a step: what it works on is fixed, and it only moves
\* forward from requested to active to ended.
Evolves(s) ==
  sess[s] # Unborn =>
    /\ sess'[s] \in Session
    /\ sess'[s].item = sess[s].item
    /\ sess'[s].model = sess[s].model
    /\ sess'[s].lane = sess[s].lane
    /\ Started(s) => Started(s)'
    /\ IsEnded(s) => IsEnded(s)'
    /\ IsLive(s)' => IsLive(s)

\* A worker id kept anywhere belongs to a started session of the right item.
WorkersStarted ==
  /\ \A i \in Items : HasWorker(i) =>
        Started(resv[i].worker) /\ MatchesPending(resv[i].worker, i)
  /\ \A i \in Items : thread[i] # Nobody => Started(thread[i]) /\ sess[thread[i]].item = i
  /\ \A p \in Procs : pc[p] \in WithWorker =>
        Started(wid[p]) /\ sess[wid[p]].item = task[p]

\* The reservation s is accounted for by.
Accounted(s, i) ==
  \/ HasWorker(i) /\ resv[i].worker = s
  \/ IsPending(i) /\ MatchesPending(s, i)

\* No session but s is in play for item i.
OnlyLive(s, i) == \A t \in Sessions : IsLive(t) /\ sess[t].item = i => t = s

\* A run's snapshot of its item, however old, still agrees with the reservation.
SnapshotSound ==
  \A p \in Procs : pc[p] \in {"verify", "decide"} =>
    /\ \A s \in Workers(p) :
          Started(s) /\ Accounted(s, task[p]) /\ OnlyLive(s, task[p])
    /\ pc[p] = "decide" /\ HasWorker(task[p]) => resv[task[p]].worker \in scan[p]

\* Between its admission and its record, a spawn is the item's only one.
SpawnSound ==
  \A p \in Procs :
    /\ pc[p] \in {"reserve", "spawn"} =>
          \A t \in Sessions : IsLive(t) => sess[t].item # task[p]
    /\ pc[p] = "reserve" => ~Reserved(task[p])
    /\ pc[p] = "spawn" => resv[task[p]].model = route[p]
    /\ pc[p] \in {"wait", "record"} =>
          /\ sess[wid[p]] # Unborn
          /\ MatchesPending(wid[p], task[p])
          /\ OnlyLive(wid[p], task[p])

CleanupSound == \A p \in Procs : pc[p] = "c_clear" => IsEnded(wid[p])

HarnessSound == \A i \in Items : Reserved(i) => resv[i].harness = HarnessOf[resv[i].model]

IInv ==
  /\ BaseInv
  /\ WorkersStarted
  /\ SnapshotSound
  /\ SpawnSound
  /\ CleanupSound
  /\ HarnessSound
  /\ OneWorkerPerItem
  /\ EveryWorkerReserved

----------------------------------------------------------------------------
(* The limits.  A record stands for the worker that it was made for, so    *)
(* that the records of a harness, a model or a login bound its workers.    *)

HarnessRecords(P, h) ==
  {j \in Items : Reserved(j) /\ ProjectOf[j] = P /\ resv[j].harness = h}
KeyRecords(key) == {j \in Items : Reserved(j) /\ resv[j].key = key}

\* A worker in play runs on the model that its item's record is for.
ModelsMatch == \A s \in Sessions : IsLive(s) => resv[sess[s].item].model = sess[s].model

\* A record has the limits that its project configures for it.
LimitsRecorded ==
  \A i \in Items : Reserved(i) =>
    LET r == resv[i]
        P == ProjectOf[i]
    IN /\ r.mcap = ModelLimit[P][r.model]
       /\ IF Pool[P][r.harness] = {}
            THEN r.key = NoKey /\ r.kcap = 0
            ELSE r.key = CredentialKey(r.harness, r.lane) /\ r.kcap = LaneLimit[P][r.lane]

HarnessFits ==
  \A P \in Projects, h \in Harnesses :
    Cardinality(HarnessRecords(P, h)) <= HarnessLimit[P][h]
ModelFits ==
  \A i \in Items : Reserved(i) => Cardinality(ModelRecords(resv[i].model)) <= resv[i].mcap
LoginFits ==
  \A i \in Items : Reserved(i) /\ resv[i].key # NoKey =>
    Cardinality(KeyRecords(resv[i].key)) <= resv[i].kcap

\* Room for one more record on a login, next to the records already there.
LoginAdmits(P, h, lane) ==
  /\ Cardinality(CredentialRecords(h, lane)) < LaneLimit[P][lane]
  /\ \A j \in CredentialRecords(h, lane) :
        resv[j].kcap # 0 => Cardinality(CredentialRecords(h, lane)) < resv[j].kcap

\* From its admission to its reservation a run has the room that it was admitted to.
Admitted ==
  \A p \in Procs : pc[p] = "reserve" =>
    LET P == ProjectOf[task[p]]
        m == route[p]
        h == HarnessOf[m]
    IN /\ Cardinality(HarnessRecords(P, h)) < HarnessLimit[P][h]
       /\ Cardinality(ModelRecords(m)) < ModelLimit[P][m]
       /\ \A j \in ModelRecords(m) : Cardinality(ModelRecords(m)) < resv[j].mcap
       /\ Pool[P][h] # {} => LoginAdmits(P, h, pick[p])

\* Up to its request, the records on the login that it was admitted to still fit.  (Later
\* they may not: a project without a pool does not look at the login of its own lane.)
LoginHeld ==
  \A p \in Procs : pc[p] = "spawn" =>
    LET i == task[p]
        n == Cardinality(CredentialRecords(resv[i].harness, resv[i].lane))
    IN Pool[ProjectOf[i]][resv[i].harness] # {} =>
         \A j \in CredentialRecords(resv[i].harness, resv[i].lane) :
           resv[j].kcap # 0 => n <= resv[j].kcap

CapacityInv ==
  /\ IInv
  /\ ModelsMatch /\ LimitsRecorded
  /\ HarnessFits /\ ModelFits /\ LoginFits
  /\ Admitted /\ LoginHeld
----------------------------------------------------------------------------
(* What holds with foreign workers and with processes in shadow mode too:  *)
(* a reservation never loses the worker that it names.                     *)

\* Worker ids that are kept belong to started sessions, those on records to the item's.
KnownStarted ==
  /\ \A i \in Items : HasWorker(i) => Started(resv[i].worker) /\ sess[resv[i].worker].item = i
  /\ \A i \in Items : thread[i] # Nobody => Started(thread[i])
  /\ \A p \in Procs : pc[p] \in WithWorker => Started(wid[p])
  /\ \A p \in Procs : pc[p] \in {"wait", "record"} =>
        sess[wid[p]] # Unborn /\ sess[wid[p]].item = task[p]

\* A run that decides has seen its item's worker, and one that reserves has none.
KnownSeen ==
  \A p \in Procs :
    /\ pc[p] \in {"verify", "decide"} => \A s \in scan[p] : Started(s)
    /\ pc[p] = "decide" /\ HasWorker(task[p]) => resv[task[p]].worker \in scan[p]
    /\ pc[p] = "reserve" => ~Reserved(task[p])

\* Only in shadow mode is a record cleared of a worker that runs.
KnownEnded == \A p \in Procs \ Shadow : pc[p] = "c_clear" => IsEnded(wid[p])

\* A process in shadow mode never comes to ask for a worker.
ShadowIdle == \A p \in Shadow : pc[p] \notin {"reserve", "spawn"}

KnownInv == BaseInv /\ KnownStarted /\ KnownSeen /\ KnownEnded /\ ShadowIdle
=============================================================================
