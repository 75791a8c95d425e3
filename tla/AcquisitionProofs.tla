------------------------- MODULE AcquisitionProofs -------------------------
(***************************************************************************)
(* Theorems about Acquisition, for every value of its constants: types and *)
(* locks; one worker per work item, when the supervisor starts every worker; *)
(* and the known worker, which native workers and shadow mode leave alone. *)
(***************************************************************************)
EXTENDS AcquisitionInv, TLAPS

USE ConstantsDistinct

-----------------------------------------------------------------------------
(***************************************************************************)
(* Types, and the positions of the processes against the lock files.       *)
(***************************************************************************)

\* The records that a run writes are reservations.
LEMMA AdoptedTyped ==
  ASSUME BaseInv, NEW p \in Procs, NEW s \in scan[p], pc[p] = "decide"
  PROVE  AdoptedRecord(p, s) \in Reservation
<1>1. /\ sess[s] \in Session
      /\ task[p] \in Items
      /\ route[p] \in Models
      /\ s \in Sessions
  BY DEF BaseInv, TypeOK, LocksMatch, RecordsThere, Routed
<1>2. /\ HarnessOfSession(s) \in Harnesses
      /\ sess[s].lane \in Lanes
  BY <1>1, ConstantsTyped DEF HarnessOfSession, Session
<1>3. ProjectOf[task[p]] \in Projects
  BY <1>1, ConstantsTyped
<1>4. /\ ModelLimit[ProjectOf[task[p]]][route[p]] \in Nat
      /\ LaneLimit[ProjectOf[task[p]]][sess[s].lane] \in Nat
  BY <1>1, <1>2, <1>3, ConstantsTyped
<1>5. CredentialKey(HarnessOfSession(s), sess[s].lane) \in Keys
  BY <1>2, ConstantsTyped DEF CredentialKey, Keys
<1>6. Reserved(task[p]) => resv[task[p]] \in Reservation
  BY <1>1 DEF BaseInv, TypeOK, Reserved
<1> QED
  BY <1>1, <1>2, <1>4, <1>5, <1>6 DEF AdoptedRecord, Reservation

\* So is the reservation after a recovery, if there is one.
LEMMA RecoveredTyped ==
  ASSUME BaseInv, NEW p \in Procs, pc[p] = "decide"
  PROVE  /\ Recovered(p) \in Reservation \cup {NoResv}
         /\ Recovered(p) # NoResv /\ Recovered(p).state = "worker"
              => Recovered(p).worker \in Sessions
<1>1. task[p] \in Items /\ resv[task[p]] \in Reservation \cup {NoResv}
  BY DEF BaseInv, TypeOK, LocksMatch
<1>2. Workers(p) \subseteq Sessions
  BY DEF BaseInv, TypeOK, Workers
<1>3. resv[task[p]] # NoResv /\ resv[task[p]].state = "worker"
        => resv[task[p]].worker \in Sessions
  BY <1>1 DEF BaseInv, RecordsThere, HasWorker, Reserved
<1> DEFINE matches == {s \in Workers(p) : MatchesPending(s, task[p])}
           w == CHOOSE s \in matches : TRUE
<1>4. CASE IsPending(task[p]) /\ \E s \in matches : matches = {s}
  <2>1. w \in Sessions
    BY <1>2, <1>4
  <2>2. resv[task[p]] \in Reservation
    BY <1>1, <1>4 DEF IsPending, Reserved
  <2>3. Recovered(p) = [resv[task[p]] EXCEPT !.state = "worker", !.worker = w]
    BY <1>4 DEF Recovered
  <2> HIDE DEF w
  <2> QED
    BY <2>1, <2>2, <2>3 DEF Reservation
<1>5. CASE ~(IsPending(task[p]) /\ \E s \in matches : matches = {s})
  <2>1. Recovered(p) = resv[task[p]]
    BY <1>5 DEF Recovered
  <2> QED
    BY <2>1, <1>1, <1>3
<1> QED
  BY <1>4, <1>5

\* And the one written before a spawn.
LEMMA PendingTyped ==
  ASSUME BaseInv, NEW p \in Procs, NEW lane \in Lanes, pc[p] = "reserve"
  PROVE  PendingRecord(p, lane) \in Reservation
<1>1. task[p] \in Items /\ route[p] \in Models
  BY DEF BaseInv, TypeOK, LocksMatch, Routed
<1>2. ProjectOf[task[p]] \in Projects /\ HarnessOf[route[p]] \in Harnesses
  BY <1>1, ConstantsTyped
<1>3. /\ ModelLimit[ProjectOf[task[p]]][route[p]] \in Nat
      /\ LaneLimit[ProjectOf[task[p]]][lane] \in Nat
  BY <1>1, <1>2, ConstantsTyped
<1>4. CredentialKey(HarnessOf[route[p]], lane) \in Keys
  BY <1>2, ConstantsTyped DEF CredentialKey, Keys
<1> QED
  BY <1>1, <1>2, <1>3, <1>4 DEF PendingRecord, Reservation

\* Changing the state of a born session leaves the types alone.
LEMMA StateChangeTyped ==
  ASSUME TypeOK, NEW s \in Sessions, sess[s] # Unborn,
         NEW state \in {"active", "ended", "lost"},
         sess' = [sess EXCEPT ![s].state = state]
  PROVE  /\ sess' \in [Sessions -> Session \cup {Unborn}]
         /\ sess'[s] \in Session
         /\ sess'[s].item = sess[s].item
         /\ sess'[s].model = sess[s].model
         /\ sess'[s].lane = sess[s].lane
         /\ sess'[s].state = state
         /\ \A t \in Sessions \ {s} : sess'[t] = sess[t]
<1>1. sess[s] \in Session
  BY DEF TypeOK
<1>2. [sess[s] EXCEPT !.state = state] \in Session
  BY <1>1 DEF Session
<1> QED
  BY <1>1, <1>2 DEF TypeOK, Session

\* Sessions keep their type, and each of them evolves, in every step.
LEMMA SessionsStep ==
  ASSUME BaseInv, [Next]_vars
  PROVE  /\ sess' \in [Sessions -> Session \cup {Unborn}]
         /\ \A s \in Sessions : Evolves(s)
<1> DEFINE Goal == /\ sess' \in [Sessions -> Session \cup {Unborn}]
                   /\ \A s \in Sessions : Evolves(s)
<1>1. ASSUME sess' = sess PROVE Goal
  BY <1>1 DEF BaseInv, TypeOK, Evolves, Started, IsEnded, IsLive
<1>2. ASSUME NEW s \in Sessions, sess[s] # Unborn, NEW state \in {"active", "ended", "lost"},
             sess' = [sess EXCEPT ![s].state = state],
             sess[s].state \in {"requested", "active"},
             sess[s].state = "active" => state = "ended"
      PROVE  Goal
  <2>1. TypeOK
    BY DEF BaseInv
  <2>2. Unborn \notin Session
    OBVIOUS
  <2>3. /\ sess' \in [Sessions -> Session \cup {Unborn}]
        /\ sess'[s] \in Session
        /\ sess'[s].item = sess[s].item
        /\ sess'[s].model = sess[s].model
        /\ sess'[s].lane = sess[s].lane
        /\ sess'[s].state = state
        /\ \A t \in Sessions \ {s} : sess'[t] = sess[t]
    BY <1>2, <2>1, StateChangeTyped
  <2>4. Evolves(s)
    <3>1. sess'[s] # Unborn
      BY <2>2, <2>3
    <3> QED
      BY <1>2, <2>3, <3>1 DEF Evolves, Started, IsEnded, IsLive
  <2>5. ASSUME NEW t \in Sessions \ {s} PROVE Evolves(t)
    <3>1. sess'[t] = sess[t] /\ sess[t] \in Session \cup {Unborn}
      BY <2>1, <2>3, <2>5 DEF TypeOK
    <3> QED
      BY <3>1 DEF Evolves, Started, IsEnded, IsLive
  <2> QED
    BY <2>3, <2>4, <2>5
<1>3. ASSUME NEW s \in Sessions, Appear(s) PROVE Goal
  <2>1. sess[s] \in Session
    BY <1>3 DEF BaseInv, TypeOK, Appear, IsActive
  <2>2. [sess[s] EXCEPT !.listed = TRUE] \in Session
    BY <2>1 DEF Session
  <2> QED
    BY <1>3, <2>1, <2>2
       DEF BaseInv, TypeOK, Session, Appear, Evolves, Started, IsEnded, IsLive, IsActive
<1>4. ASSUME NEW s \in Sessions, sess[s] = Unborn, NEW new \in Session,
             sess' = [sess EXCEPT ![s] = new]
      PROVE  Goal
  BY <1>4 DEF BaseInv, TypeOK, Evolves, Started, IsEnded, IsLive
<1>5. ASSUME RunnerStep PROVE Goal
  <2>1. ASSUME NEW s \in Sessions, Begin(s) PROVE Goal
    BY <2>1, <1>2 DEF Begin
  <2>2. ASSUME NEW s \in Sessions, Lose(s) PROVE Goal
    BY <2>2, <1>2 DEF Lose
  <2>3. ASSUME NEW s \in Sessions, End(s) PROVE Goal
    BY <2>3, <1>2 DEF End, IsActive
  <2>4. ASSUME NEW s \in Sessions, NEW i \in Items, NEW m \in Models, NEW lane \in Lanes,
               StartNative(s, i, m, lane)
        PROVE  Goal
    BY <2>4, <1>4 DEF StartNative, Session
  <2> QED
    BY <1>5, <1>3, <2>1, <2>2, <2>3, <2>4 DEF RunnerStep
<1>6. ASSUME NEW p \in Procs, NEW s \in Sessions, RequestSpawn(p, s) PROVE Goal
  <2>1. task[p] \in Items /\ route[p] \in Models /\ resv[task[p]].lane \in Lanes
    BY <1>6 DEF RequestSpawn, BaseInv, TypeOK, LocksMatch, RecordsThere, Routed, IsPending,
                Reserved, Reservation
  <2> QED
    BY <1>6, <2>1, <1>4 DEF RequestSpawn, Session
<1>7. ASSUME NEW p \in Procs, Terminate(p) PROVE Goal
  <2>1. wid[p] \in Sessions
    BY <1>7 DEF Terminate, BaseInv, RecordsThere, WithWorker
  <2> QED
    BY <1>7, <2>1, <1>1, <1>2 DEF Terminate, IsActive
<1>8. ASSUME UNCHANGED vars PROVE Goal
  BY <1>8, <1>1 DEF vars
<1>9. ASSUME NEW p \in Procs, ProcessStep(p),
             ~Terminate(p), \A s \in Sessions : ~RequestSpawn(p, s)
      PROVE  sess' = sess
  BY <1>9 DEF ProcessStep, Progress, Start, CheckCapacity, AcquireGlobal, AcquireItem, Scan,
     VerifyListed, VerifyFound, VerifyEnded, VerifyUnknown, Conflict, Reuse, Refuse, Admit,
     Reserve, SpawnReturns, SpawnFails, RecordAcquired, SaveThread, Finish, StartCleanup,
     ResumeCleanup, CleanupLock, ClearRecord, Abandon
<1> QED
  BY <1>1, <1>5, <1>6, <1>7, <1>8, <1>9 DEF Next

\* No step leaves the types.
LEMMA TypeStep ==
  ASSUME BaseInv, [Next]_vars
  PROVE  TypeOK'
<1> USE DEF BaseInv, TypeOK, Goto, EndRun, ReleaseLocks, locals
<1>1. sess' \in [Sessions -> Session \cup {Unborn}]
  BY SessionsStep
<1>2. ASSUME NEW p \in Procs, CheckCapacity(p) PROVE TypeOK'
  BY <1>2, <1>1 DEF PCs, CheckCapacity
<1>3. ASSUME NEW p \in Procs, AcquireGlobal(p) PROVE TypeOK'
  BY <1>3, <1>1 DEF PCs, AcquireGlobal
<1>4. ASSUME NEW p \in Procs, AcquireItem(p) PROVE TypeOK'
  BY <1>4, <1>1 DEF PCs, AcquireItem
<1>5. ASSUME NEW p \in Procs, Scan(p) PROVE TypeOK'
  BY <1>5, <1>1 DEF PCs, Scan, Visible
<1>6. ASSUME NEW p \in Procs, VerifyListed(p) PROVE TypeOK'
  BY <1>6, <1>1 DEF PCs, VerifyListed
<1>7. ASSUME NEW p \in Procs, VerifyFound(p) PROVE TypeOK'
  <2>1. resv[task[p]].worker \in Sessions
    BY <1>7 DEF VerifyFound, LocksMatch, RecordsThere
  <2> QED
    BY <1>7, <1>1, <2>1 DEF PCs, VerifyFound
<1>8. ASSUME NEW p \in Procs, VerifyEnded(p) PROVE TypeOK'
  BY <1>8, <1>1 DEF PCs, VerifyEnded
<1>9. ASSUME NEW p \in Procs, VerifyUnknown(p) PROVE TypeOK'
  BY <1>9, <1>1 DEF PCs, VerifyUnknown
<1>10. ASSUME NEW p \in Procs, Conflict(p) PROVE TypeOK'
  BY <1>10, <1>1, RecoveredTyped DEF PCs, Conflict
<1>11. ASSUME NEW p \in Procs, Refuse(p) PROVE TypeOK'
  BY <1>11, <1>1 DEF PCs, Refuse
<1>12. ASSUME NEW p \in Procs, SpawnReturns(p) PROVE TypeOK'
  BY <1>12, <1>1 DEF PCs, SpawnReturns
<1>13. ASSUME NEW p \in Procs, SpawnFails(p) PROVE TypeOK'
  BY <1>13, <1>1 DEF PCs, SpawnFails
<1>14. ASSUME NEW p \in Procs, RecordAcquired(p) PROVE TypeOK'
  <2>1. task[p] \in Items /\ resv[task[p]] \in Reservation /\ wid[p] \in Sessions
    BY <1>14 DEF RecordAcquired, LocksMatch, RecordsThere, IsPending, Reserved, WithWorker
  <2>2. resv' \in [Items -> Reservation \cup {NoResv}]
    BY <1>14, <2>1 DEF RecordAcquired, Reservation
  <2> QED
    BY <1>14, <1>1, <2>2 DEF PCs, RecordAcquired
<1>15. ASSUME NEW p \in Procs, SaveThread(p) PROVE TypeOK'
  BY <1>15, <1>1 DEF PCs, SaveThread
<1>16. ASSUME NEW p \in Procs, Finish(p) PROVE TypeOK'
  BY <1>16, <1>1 DEF PCs, Finish
<1>17. ASSUME NEW p \in Procs, StartCleanup(p) PROVE TypeOK'
  BY <1>17, <1>1 DEF PCs, StartCleanup
<1>18. ASSUME NEW p \in Procs, CleanupLock(p) PROVE TypeOK'
  BY <1>18, <1>1 DEF PCs, CleanupLock
<1>19. ASSUME NEW p \in Procs, Terminate(p) PROVE TypeOK'
  BY <1>19, <1>1 DEF PCs, Terminate
<1>20. ASSUME NEW p \in Procs, ClearRecord(p) PROVE TypeOK'
  BY <1>20, <1>1 DEF PCs, ClearRecord
<1>21. ASSUME NEW p \in Procs, Abandon(p) PROVE TypeOK'
  BY <1>21, <1>1 DEF PCs, Abandon
<1>22. ASSUME NEW p \in Procs, NEW i \in Items, NEW m \in Models, Start(p, i, m)
     PROVE TypeOK'
  BY <1>22, <1>1 DEF PCs, Start
<1>23. ASSUME NEW p \in Procs, NEW i \in Items, ResumeCleanup(p, i) PROVE TypeOK'
  BY <1>23, <1>1 DEF PCs, ResumeCleanup
<1>24. ASSUME NEW p \in Procs, NEW s \in Sessions, Reuse(p, s) PROVE TypeOK'
  <2>1. AdoptedRecord(p, s) \in Reservation
    BY <1>24, AdoptedTyped DEF Reuse, Workers
  <2> QED
    BY <1>24, <1>1, <2>1 DEF PCs, Reuse
<1>25. ASSUME NEW p \in Procs, Reserve(p) PROVE TypeOK'
  <2>1. PendingRecord(p, pick[p]) \in Reservation
    BY <1>25, PendingTyped DEF Reserve, RecordsThere
  <2> QED
    BY <1>25, <1>1, <2>1 DEF PCs, Reserve
<1>26. ASSUME NEW p \in Procs, NEW s \in Sessions, RequestSpawn(p, s) PROVE TypeOK'
  BY <1>26, <1>1 DEF PCs, RequestSpawn
<1>27. ASSUME RunnerStep PROVE TypeOK'
  BY <1>27, <1>1 DEF PCs, RunnerStep
<1>28. ASSUME UNCHANGED vars PROVE TypeOK'
  BY <1>28 DEF vars
<1>29. ASSUME NEW p \in Procs, NEW lane \in Lanes, Admit(p, lane) PROVE TypeOK'
  BY <1>29, <1>1 DEF PCs, Admit
<1> QED
  BY <1>2, <1>3, <1>4, <1>5, <1>6, <1>7, <1>8, <1>9, <1>10, <1>11, <1>12, <1>13,
     <1>14, <1>15, <1>16, <1>17, <1>18, <1>19, <1>20, <1>21, <1>22, <1>23, <1>24,
     <1>25, <1>26, <1>27, <1>28, <1>29
     DEF Next, ProcessStep, Progress

\* No step lets a lock and the positions of the processes disagree.
LEMMA LocksStep ==
  ASSUME BaseInv, [Next]_vars
  PROVE  LocksMatch'
<1> USE DEF BaseInv, TypeOK, LocksMatch, Allocating, HoldingItem, Routed, Goto, EndRun,
            ReleaseLocks, locals
<1>1. ASSUME NEW p \in Procs, CheckCapacity(p) PROVE LocksMatch'
  BY <1>1 DEF CheckCapacity
<1>2. ASSUME NEW p \in Procs, AcquireGlobal(p) PROVE LocksMatch'
  BY <1>2 DEF AcquireGlobal
<1>3. ASSUME NEW p \in Procs, AcquireItem(p) PROVE LocksMatch'
  BY <1>3 DEF AcquireItem
<1>4. ASSUME NEW p \in Procs, Scan(p) PROVE LocksMatch'
  BY <1>4 DEF Scan
<1>5. ASSUME NEW p \in Procs, VerifyListed(p) PROVE LocksMatch'
  BY <1>5 DEF VerifyListed
<1>6. ASSUME NEW p \in Procs, VerifyFound(p) PROVE LocksMatch'
  BY <1>6 DEF VerifyFound
<1>7. ASSUME NEW p \in Procs, VerifyEnded(p) PROVE LocksMatch'
  BY <1>7 DEF VerifyEnded
<1>8. ASSUME NEW p \in Procs, VerifyUnknown(p) PROVE LocksMatch'
  BY <1>8 DEF VerifyUnknown
<1>9. ASSUME NEW p \in Procs, Conflict(p) PROVE LocksMatch'
  BY <1>9 DEF Conflict
<1>10. ASSUME NEW p \in Procs, Refuse(p) PROVE LocksMatch'
  BY <1>10 DEF Refuse
<1>11. ASSUME NEW p \in Procs, SpawnReturns(p) PROVE LocksMatch'
  BY <1>11 DEF SpawnReturns
<1>12. ASSUME NEW p \in Procs, SpawnFails(p) PROVE LocksMatch'
  BY <1>12 DEF SpawnFails
<1>13. ASSUME NEW p \in Procs, RecordAcquired(p) PROVE LocksMatch'
  BY <1>13 DEF RecordAcquired
<1>14. ASSUME NEW p \in Procs, SaveThread(p) PROVE LocksMatch'
  BY <1>14 DEF SaveThread
<1>15. ASSUME NEW p \in Procs, Finish(p) PROVE LocksMatch'
  BY <1>15 DEF Finish
<1>16. ASSUME NEW p \in Procs, StartCleanup(p) PROVE LocksMatch'
  BY <1>16 DEF StartCleanup
<1>17. ASSUME NEW p \in Procs, CleanupLock(p) PROVE LocksMatch'
  BY <1>17 DEF CleanupLock
<1>18. ASSUME NEW p \in Procs, Terminate(p) PROVE LocksMatch'
  BY <1>18 DEF Terminate
<1>19. ASSUME NEW p \in Procs, ClearRecord(p) PROVE LocksMatch'
  BY <1>19 DEF ClearRecord
<1>20. ASSUME NEW p \in Procs, Abandon(p) PROVE LocksMatch'
  BY <1>20 DEF Abandon
<1>21. ASSUME NEW p \in Procs, NEW i \in Items, NEW m \in Models, Start(p, i, m)
     PROVE LocksMatch'
  BY <1>21 DEF Start
<1>22. ASSUME NEW p \in Procs, NEW i \in Items, ResumeCleanup(p, i) PROVE LocksMatch'
  BY <1>22 DEF ResumeCleanup
<1>23. ASSUME NEW p \in Procs, NEW s \in Sessions, Reuse(p, s) PROVE LocksMatch'
  BY <1>23 DEF Reuse
<1>24. ASSUME NEW p \in Procs, Reserve(p) PROVE LocksMatch'
  BY <1>24 DEF Reserve
<1>25. ASSUME NEW p \in Procs, NEW s \in Sessions, RequestSpawn(p, s) PROVE LocksMatch'
  BY <1>25 DEF RequestSpawn
<1>26. ASSUME RunnerStep PROVE LocksMatch'
  BY <1>26 DEF RunnerStep
<1>27. ASSUME UNCHANGED vars PROVE LocksMatch'
  BY <1>27 DEF vars
<1>28. ASSUME NEW p \in Procs, NEW lane \in Lanes, Admit(p, lane) PROVE LocksMatch'
  BY <1>28 DEF Admit
<1> QED
  BY <1>1, <1>2, <1>3, <1>4, <1>5, <1>6, <1>7, <1>8, <1>9, <1>10, <1>11, <1>12,
     <1>13, <1>14, <1>15, <1>16, <1>17, <1>18, <1>19, <1>20, <1>21, <1>22, <1>23,
     <1>24, <1>25, <1>26, <1>27, <1>28
     DEF Next, ProcessStep, Progress

\* No step takes away a record that a run relies on.
LEMMA RecordsStep ==
  ASSUME BaseInv, [Next]_vars
  PROVE  RecordsThere'
<1> USE DEF BaseInv, TypeOK, LocksMatch, RecordsThere, HoldingItem, Allocating, WithWorker,
            Goto, EndRun, ReleaseLocks, locals, HasWorker, IsPending, Reserved
<1>1. \A s \in Sessions : sess[s] # Unborn => sess'[s] # Unborn
  <2> HIDE DEF BaseInv
  <2> QED
    BY SessionsStep DEF Evolves
<1>2. ASSUME NEW p \in Procs, CheckCapacity(p) PROVE RecordsThere'
  BY <1>2, <1>1 DEF CheckCapacity
<1>3. ASSUME NEW p \in Procs, AcquireGlobal(p) PROVE RecordsThere'
  BY <1>3, <1>1 DEF AcquireGlobal
<1>4. ASSUME NEW p \in Procs, AcquireItem(p) PROVE RecordsThere'
  BY <1>4, <1>1 DEF AcquireItem
<1>5. ASSUME NEW p \in Procs, Scan(p) PROVE RecordsThere'
  BY <1>5, <1>1 DEF Scan, Visible, IsActive
<1>6. ASSUME NEW p \in Procs, VerifyListed(p) PROVE RecordsThere'
  BY <1>6, <1>1 DEF VerifyListed
<1>7. ASSUME NEW p \in Procs, VerifyFound(p) PROVE RecordsThere'
  BY <1>7, <1>1 DEF VerifyFound, IsActive
<1>8. ASSUME NEW p \in Procs, VerifyEnded(p) PROVE RecordsThere'
  BY <1>8, <1>1 DEF VerifyEnded
<1>9. ASSUME NEW p \in Procs, VerifyUnknown(p) PROVE RecordsThere'
  BY <1>9, <1>1 DEF VerifyUnknown
<1>10. ASSUME NEW p \in Procs, Conflict(p) PROVE RecordsThere'
  <2>1. \A i \in Items : HasWorker(i)' => resv'[i].worker \in Sessions
    BY <1>10, RecoveredTyped DEF Conflict
  <2> QED
    BY <1>10, <1>1, <2>1 DEF Conflict
<1>11. ASSUME NEW p \in Procs, Refuse(p) PROVE RecordsThere'
  BY <1>11, <1>1 DEF Refuse
<1>12. ASSUME NEW p \in Procs, SpawnReturns(p) PROVE RecordsThere'
  BY <1>12, <1>1 DEF SpawnReturns
<1>13. ASSUME NEW p \in Procs, SpawnFails(p) PROVE RecordsThere'
  BY <1>13, <1>1 DEF SpawnFails
<1>14. ASSUME NEW p \in Procs, RecordAcquired(p) PROVE RecordsThere'
  <2>1. task[p] \in Items /\ resv[task[p]] \in Reservation /\ wid[p] \in Sessions
    BY <1>14 DEF RecordAcquired
  <2> QED
    BY <1>14, <1>1, <2>1 DEF RecordAcquired, Reservation
<1>15. ASSUME NEW p \in Procs, SaveThread(p) PROVE RecordsThere'
  BY <1>15, <1>1 DEF SaveThread
<1>16. ASSUME NEW p \in Procs, Finish(p) PROVE RecordsThere'
  BY <1>16, <1>1 DEF Finish
<1>17. ASSUME NEW p \in Procs, StartCleanup(p) PROVE RecordsThere'
  BY <1>17, <1>1 DEF StartCleanup
<1>18. ASSUME NEW p \in Procs, CleanupLock(p) PROVE RecordsThere'
  BY <1>18, <1>1 DEF CleanupLock
<1>19. ASSUME NEW p \in Procs, Terminate(p) PROVE RecordsThere'
  BY <1>19, <1>1 DEF Terminate
<1>20. ASSUME NEW p \in Procs, ClearRecord(p) PROVE RecordsThere'
  BY <1>20, <1>1 DEF ClearRecord
<1>21. ASSUME NEW p \in Procs, Abandon(p) PROVE RecordsThere'
  BY <1>21, <1>1 DEF Abandon
<1>22. ASSUME NEW p \in Procs, NEW i \in Items, NEW m \in Models, Start(p, i, m)
     PROVE RecordsThere'
  BY <1>22, <1>1 DEF Start
<1>23. ASSUME NEW p \in Procs, NEW i \in Items, ResumeCleanup(p, i) PROVE RecordsThere'
  BY <1>23, <1>1 DEF ResumeCleanup
<1>24. ASSUME NEW p \in Procs, NEW s \in Sessions, Reuse(p, s) PROVE RecordsThere'
  <2>1. \A i \in Items : HasWorker(i)' => resv'[i].worker \in Sessions
    BY <1>24 DEF Reuse, AdoptedRecord
  <2> QED
    BY <1>24, <1>1, <2>1 DEF Reuse
<1>25. ASSUME NEW p \in Procs, Reserve(p) PROVE RecordsThere'
  <2>1. PendingRecord(p, pick[p]) # NoResv
    <3>1. PendingRecord(p, pick[p]) \in Reservation
      BY <1>25, PendingTyped DEF Reserve
    <3> QED
      BY <3>1
  <2>2. PendingRecord(p, pick[p]).state = "pending"
    BY DEF PendingRecord
  <2> QED
    BY <1>25, <1>1, <2>1, <2>2 DEF Reserve
<1>26. ASSUME NEW p \in Procs, NEW s \in Sessions, RequestSpawn(p, s) PROVE RecordsThere'
  BY <1>26, <1>1 DEF RequestSpawn
<1>27. ASSUME RunnerStep PROVE RecordsThere'
  BY <1>27, <1>1 DEF RunnerStep
<1>28. ASSUME UNCHANGED vars PROVE RecordsThere'
  BY <1>28 DEF vars
<1>29. ASSUME NEW p \in Procs, NEW lane \in Lanes, Admit(p, lane) PROVE RecordsThere'
  BY <1>29, <1>1 DEF Admit
<1> QED
  BY <1>2, <1>3, <1>4, <1>5, <1>6, <1>7, <1>8, <1>9, <1>10, <1>11, <1>12, <1>13,
     <1>14, <1>15, <1>16, <1>17, <1>18, <1>19, <1>20, <1>21, <1>22, <1>23, <1>24,
     <1>25, <1>26, <1>27, <1>28, <1>29
     DEF Next, ProcessStep, Progress

\* The lock protocol and the types hold for every value of the constants, with workers
\* started by hand and with shadow mode.
THEOREM BaseInvariant == Spec => []BaseInv
<1>1. Init => BaseInv
  BY DEF Init, BaseInv, TypeOK, LocksMatch, RecordsThere, PCs, Allocating, HoldingItem,
         Routed, WithWorker, HasWorker, IsPending, Reserved
<1>2. BaseInv /\ [Next]_vars => BaseInv'
  BY TypeStep, LocksStep, RecordsStep DEF BaseInv
<1> QED
  BY <1>1, <1>2, PTL DEF Spec

\* Type correctness: every variable keeps its type, for every value of the constants.
THEOREM TypeCorrect == Spec => []TypeOK
<1>1. BaseInv => TypeOK
  BY DEF BaseInv
<1> QED
  BY BaseInvariant, <1>1, PTL

\* The locks exclude: a work item's lock has one holder, who is the only run between
\* taking and leaving it, and the global lock covers every step from the listing to the
\* record of the new worker.
THEOREM LockProtocol == Spec => []LocksMatch
<1>1. BaseInv => LocksMatch
  BY DEF BaseInv
<1> QED
  BY BaseInvariant, <1>1, PTL

-----------------------------------------------------------------------------
(***************************************************************************)
(* One worker per work item: the inductive invariant of the supervised     *)
(* protocol.                                                               *)
(***************************************************************************)

\* A step of one process leaves the local state of the others alone.
LEMMA OthersStay ==
  ASSUME BaseInv, NEW p \in Procs, ProcessStep(p), NEW q \in Procs \ {p}
  PROVE  /\ pc'[q] = pc[q]
         /\ task'[q] = task[q]
         /\ route'[q] = route[q]
         /\ scan'[q] = scan[q]
         /\ wid'[q] = wid[q]
<1> USE DEF BaseInv, TypeOK, Goto, EndRun, locals
<1> DEFINE Goal == /\ pc'[q] = pc[q]
                   /\ task'[q] = task[q]
                   /\ route'[q] = route[q]
                   /\ scan'[q] = scan[q]
                   /\ wid'[q] = wid[q]
<1>1. CASE \E i \in Items, m \in Models : Start(p, i, m)
  BY <1>1 DEF Start
<1>2. CASE CheckCapacity(p) \/ AcquireGlobal(p) \/ AcquireItem(p) \/ Scan(p)
  BY <1>2 DEF CheckCapacity, AcquireGlobal, AcquireItem, Scan
<1>3. CASE VerifyListed(p) \/ VerifyFound(p) \/ VerifyEnded(p) \/ VerifyUnknown(p)
  BY <1>3 DEF VerifyListed, VerifyFound, VerifyEnded, VerifyUnknown
<1>4. CASE Conflict(p) \/ Refuse(p) \/ Abandon(p)
  BY <1>4 DEF Conflict, Refuse, Abandon
<1>5. CASE \/ \E s \in Sessions : Reuse(p, s) \/ RequestSpawn(p, s)
           \/ \E lane \in Lanes : Admit(p, lane)
           \/ Reserve(p)
  BY <1>5 DEF Reuse, Admit, Reserve, RequestSpawn
<1>6. CASE SpawnReturns(p) \/ SpawnFails(p) \/ RecordAcquired(p) \/ SaveThread(p)
  BY <1>6 DEF SpawnReturns, SpawnFails, RecordAcquired, SaveThread
<1>7. CASE Finish(p) \/ StartCleanup(p) \/ \E i \in Items : ResumeCleanup(p, i)
  BY <1>7 DEF Finish, StartCleanup, ResumeCleanup
<1>8. CASE CleanupLock(p) \/ Terminate(p) \/ ClearRecord(p)
  BY <1>8 DEF CleanupLock, Terminate, ClearRecord
<1> QED
  BY <1>1, <1>2, <1>3, <1>4, <1>5, <1>6, <1>7, <1>8 DEF ProcessStep, Progress

\* The steps of p that write the reservation of the item it works on.
Writes(p) ==
  \/ VerifyEnded(p) \/ Conflict(p) \/ RecordAcquired(p) \/ ClearRecord(p)
  \/ Reserve(p)
  \/ \E s \in Sessions : Reuse(p, s)

\* A reservation is written only by the run that holds the lock of its item.
LEMMA OnlyHolderWrites ==
  ASSUME BaseInv, [Next]_vars, NEW i \in Items, resv'[i] # resv[i]
  PROVE  \E p \in Procs : Writes(p) /\ task[p] = i /\ itemLock[i] = p
<1> USE DEF BaseInv, TypeOK, LocksMatch, HoldingItem
<1>1. PICK p \in Procs : ProcessStep(p)
  BY DEF Next, RunnerStep, vars
<1>2. ASSUME ~Writes(p) PROVE resv' = resv
  BY <1>1, <1>2 DEF Writes, ProcessStep, Progress, Start, CheckCapacity, AcquireGlobal,
     AcquireItem, Scan, VerifyListed, VerifyFound, VerifyUnknown, Refuse, Admit, RequestSpawn,
     SpawnReturns, SpawnFails, SaveThread, Finish, StartCleanup, ResumeCleanup,
     CleanupLock, Terminate, Abandon, locals
<1>3. Writes(p)
  BY <1>2
<1>4. pc[p] \in {"verify", "decide", "reserve", "record", "c_clear"}
  BY <1>3 DEF Writes, VerifyEnded, Conflict, RecordAcquired, ClearRecord, Reuse, Reserve
<1>5. task[p] = i
  BY <1>3, <1>4 DEF Writes, VerifyEnded, Conflict, RecordAcquired, ClearRecord, Reuse, Reserve
<1> QED
  BY <1>3, <1>4, <1>5

\* A session comes into play only as the request of the run that reserved its item.
LEMMA OnlySpawnsBegin ==
  ASSUME BaseInv, Supervised, [Next]_vars, NEW s \in Sessions, IsLive(s)', ~IsLive(s)
  PROVE  \E p \in Procs : RequestSpawn(p, s)
<1>1. sess[s] = Unborn
  <2> HIDE DEF BaseInv
  <2> QED
    BY SessionsStep DEF Evolves
<1>2. sess'[s] # Unborn
  BY DEF IsLive
<1>3. ~RunnerStep
  BY <1>1, <1>2 DEF RunnerStep, Begin, Lose, Appear, End, StartNative, Supervised, IsActive,
     BaseInv, TypeOK
<1>4. PICK p \in Procs : ProcessStep(p)
  BY <1>1, <1>2, <1>3 DEF Next, vars
<1>5. ASSUME NEW t \in Sessions, RequestSpawn(p, t) PROVE t = s
  BY <1>1, <1>2, <1>5 DEF RequestSpawn, BaseInv, TypeOK
<1>6. ~Terminate(p)
  BY <1>1, <1>2 DEF Terminate, BaseInv, TypeOK, IsActive
<1>7. ASSUME ~Terminate(p), \A t \in Sessions : ~RequestSpawn(p, t) PROVE sess' = sess
  BY <1>4, <1>7 DEF ProcessStep, Progress, Start, CheckCapacity, AcquireGlobal, AcquireItem,
     Scan, VerifyListed, VerifyFound, VerifyEnded, VerifyUnknown, Conflict, Reuse, Refuse,
     Admit, Reserve, SpawnReturns, SpawnFails, RecordAcquired, SaveThread, Finish, StartCleanup,
     ResumeCleanup, CleanupLock, ClearRecord, Abandon, locals
<1> QED
  BY <1>1, <1>2, <1>5, <1>6, <1>7

\* The run that holds an item's lock is the only one that holds it.
LEMMA HolderUnique ==
  ASSUME BaseInv, NEW p \in Procs, NEW q \in Procs,
         pc[p] \in HoldingItem, pc[q] \in HoldingItem, task[p] = task[q]
  PROVE  p = q
BY DEF BaseInv, LocksMatch

\* A session of the item found in a live snapshot, and every session in play, keeps its
\* item, model and lane.
LEMMA BornStays ==
  ASSUME BaseInv, [Next]_vars, NEW s \in Sessions, sess[s] # Unborn
  PROVE  /\ sess'[s] \in Session
         /\ sess'[s] # Unborn
         /\ sess'[s].item = sess[s].item
         /\ sess'[s].model = sess[s].model
         /\ sess'[s].lane = sess[s].lane
         /\ HarnessOfSession(s)' = HarnessOfSession(s)
         /\ Started(s) => Started(s)'
         /\ IsEnded(s) => IsEnded(s)'
         /\ IsLive(s)' => IsLive(s)
<1>1. Evolves(s)
  BY SessionsStep
<1> QED
  BY <1>1 DEF Evolves, HarnessOfSession

\* A listed worker of the item is the one its reservation stands for, so an admission,
\* which saw none, found no reservation either.
LEMMA AdmittedUnreserved ==
  ASSUME IInv, Supervised, NEW p \in Procs, pc[p] = "decide", Workers(p) = {},
         ~IsPending(task[p])
  PROVE  /\ ~Reserved(task[p])
         /\ \A s \in Sessions : IsLive(s) => sess[s].item # task[p]
<1>1. task[p] \in Items
  BY DEF IInv, BaseInv, LocksMatch
<1>2. ~HasWorker(task[p])
  <2> SUFFICES ASSUME HasWorker(task[p]) PROVE FALSE
    OBVIOUS
  <2>1. resv[task[p]].worker \in scan[p]
    BY DEF IInv, SnapshotSound
  <2>2. sess[resv[task[p]].worker].item = task[p]
    BY <1>1 DEF IInv, WorkersStarted, MatchesPending
  <2> QED
    BY <2>1, <2>2 DEF Workers
<1>3. ~Reserved(task[p])
  BY <1>1, <1>2 DEF IInv, BaseInv, TypeOK, HasWorker, IsPending, Reserved, Reservation
<1>4. ASSUME NEW s \in Sessions, IsLive(s), sess[s].item = task[p] PROVE FALSE
  BY <1>2, <1>4 DEF IInv, EveryWorkerReserved, Supervised
<1> QED
  BY <1>3, <1>4

\* A run that met workers of its item met the one its reservation stands for.
LEMMA MetWorker ==
  ASSUME IInv, NEW p \in Procs, pc[p] \in {"verify", "decide"}, NEW s \in Workers(p)
  PROVE  /\ s \in Sessions
         /\ Started(s)
         /\ sess[s].item = task[p]
         /\ Accounted(s, task[p])
         /\ MatchesPending(s, task[p])
         /\ \A t \in Sessions : IsLive(t) /\ sess[t].item = task[p] => t = s
<1>1. task[p] \in Items /\ s \in Sessions
  BY DEF IInv, BaseInv, TypeOK, LocksMatch, Workers
<1>2. /\ Started(s) /\ Accounted(s, task[p]) /\ OnlyLive(s, task[p])
  BY DEF IInv, SnapshotSound
<1>3. MatchesPending(s, task[p])
  BY <1>1, <1>2 DEF Accounted, IInv, WorkersStarted
<1> QED
  BY <1>1, <1>2, <1>3 DEF Workers, OnlyLive

\* The reservation that a run writes after meeting workers keeps lane and harness, and
\* names the worker if there is one to name.
LEMMA RecoveredKeeps ==
  ASSUME IInv, NEW p \in Procs, pc[p] = "decide", Recovered(p) # resv[task[p]]
  PROVE  /\ IsPending(task[p])
         /\ Recovered(p) # NoResv
         /\ Recovered(p).state = "worker"
         /\ Recovered(p).worker \in Workers(p)
         /\ Recovered(p).lane = resv[task[p]].lane
         /\ Recovered(p).harness = resv[task[p]].harness
         /\ Recovered(p).model = resv[task[p]].model
<1> DEFINE matches == {s \in Workers(p) : MatchesPending(s, task[p])}
           w == CHOOSE s \in matches : TRUE
<1>1. IsPending(task[p]) /\ \E s \in matches : matches = {s}
  BY DEF Recovered
<1>2. Recovered(p) = [resv[task[p]] EXCEPT !.state = "worker", !.worker = w]
  BY <1>1 DEF Recovered
<1>3. w \in Workers(p)
  BY <1>1
<1>4. resv[task[p]] \in Reservation
  BY <1>1 DEF IsPending, Reserved, IInv, BaseInv, TypeOK, LocksMatch
<1> HIDE DEF w
<1>5. /\ Recovered(p).state = "worker"
      /\ Recovered(p).worker = w
      /\ Recovered(p).lane = resv[task[p]].lane
      /\ Recovered(p).harness = resv[task[p]].harness
      /\ Recovered(p).model = resv[task[p]].model
  BY <1>2, <1>4 DEF Reservation
<1>6. Recovered(p) # NoResv
  <2> HIDE DEF IInv
  <2>1. Recovered(p) \in Reservation \cup {NoResv}
    BY RecoveredTyped DEF IInv
  <2>2. [resv[task[p]] EXCEPT !.state = "worker", !.worker = w] \in Reservation
    <3>1. w \in Sessions
      BY <1>3, MetWorker
    <3> QED
      BY <1>4, <3>1 DEF Reservation
  <2> QED
    BY <1>2, <2>2
<1> QED
  BY <1>1, <1>3, <1>5, <1>6

\* What a worker in play is accounted for by can change from a pending reservation to
\* one that names it, and in no other way.
LEMMA AccountedKept ==
  ASSUME IInv, Supervised, [Next]_vars, NEW s \in Sessions, IsLive(s), IsLive(s)',
         NEW i \in Items, sess[s].item = i
  PROVE  /\ Accounted(s, i)'
         /\ IsPending(i) => IsPending(i)' \/ (HasWorker(i) /\ resv[i].worker = s)'
<1> DEFINE Named == (HasWorker(i) /\ resv[i].worker = s)'
<1>1. Accounted(s, i)
  BY DEF IInv, EveryWorkerReserved, Accounted, Supervised
<1>2. s = s' /\ sess[s] # Unborn /\ ~IsEnded(s)
  BY DEF IsLive, IsEnded
<1>3. BaseInv
  BY DEF IInv
<1>4. MatchesPending(s, i) /\ resv'[i] = resv[i] => MatchesPending(s, i)'
  BY <1>2, <1>3, BornStays DEF MatchesPending
<1>5. CASE resv'[i] = resv[i]
  BY <1>1, <1>4, <1>5 DEF Accounted, HasWorker, IsPending, Reserved
<1>6. CASE resv'[i] # resv[i]
  <2>1. PICK p \in Procs : Writes(p) /\ task[p] = i /\ itemLock[i] = p
    BY <1>3, <1>6, OnlyHolderWrites
  <2>2. ~VerifyEnded(p)
    BY <1>1, <1>2, <2>1 DEF VerifyEnded, Accounted, HasWorker, IsPending
  <2>3. ~ClearRecord(p)
    BY <1>1, <1>2, <1>6, <2>1 DEF ClearRecord, IInv, CleanupSound, Accounted, HasWorker, IsPending
  <2>4. ASSUME Conflict(p) PROVE Named
    <3>1. resv'[i] = Recovered(p) /\ pc[p] = "decide"
      BY <1>3, <2>1, <2>4 DEF Conflict, BaseInv, TypeOK
    <3>2. /\ Recovered(p).state = "worker" /\ Recovered(p) # NoResv
          /\ Recovered(p).worker \in Workers(p)
      BY <1>6, <2>1, <3>1, RecoveredKeeps
    <3>3. Recovered(p).worker = s
      BY <2>1, <3>1, <3>2, MetWorker
    <3> QED
      BY <3>1, <3>2, <3>3 DEF HasWorker, Reserved
  <2>5. ASSUME NEW t \in Sessions, Reuse(p, t) PROVE Named
    <3>1. resv'[i] = AdoptedRecord(p, t) /\ pc[p] = "decide" /\ t \in Workers(p)
      BY <1>3, <2>1, <2>5 DEF Reuse, BaseInv, TypeOK
    <3>2. t = s
      BY <2>1, <3>1, MetWorker
    <3>3. AdoptedRecord(p, t) \in Reservation
      BY <1>3, <3>1, AdoptedTyped DEF Workers
    <3>4. AdoptedRecord(p, t).state = "worker" /\ AdoptedRecord(p, t).worker = t
      BY DEF AdoptedRecord
    <3> QED
      BY <3>1, <3>2, <3>3, <3>4 DEF HasWorker, Reserved
  <2>6. ASSUME Reserve(p) PROVE FALSE
    BY <2>1, <2>6 DEF Reserve, IInv, SpawnSound
  <2>7. ASSUME RecordAcquired(p) PROVE Named
    <3>1. wid[p] = s
      BY <2>1, <2>7 DEF RecordAcquired, IInv, SpawnSound, OnlyLive
    <3>2. resv[i] \in Reservation /\ wid[p] \in Sessions
      BY <1>3, <2>1, <2>7 DEF RecordAcquired, BaseInv, TypeOK, RecordsThere, WithWorker, IsPending,
                              Reserved
    <3>3. resv'[i] = [resv[i] EXCEPT !.state = "worker", !.worker = wid[p]]
      BY <1>3, <2>1, <2>7, <3>2 DEF RecordAcquired, BaseInv, TypeOK, Reservation
    <3>4. /\ resv'[i] \in Reservation
          /\ resv'[i].state = "worker"
          /\ resv'[i].worker = wid[p]
      BY <3>2, <3>3 DEF Reservation
    <3> QED
      BY <3>1, <3>4 DEF HasWorker, Reserved
  <2>8. Named
    BY <2>1, <2>2, <2>3, <2>5, <2>6, <2>7, <2>4, <1>1
       DEF Writes, Accounted
  <2> QED
    BY <2>8 DEF Accounted
<1> QED
  BY <1>5, <1>6

\* A request that comes into play finds no other worker of its item in play, and is
\* accounted for by the pending reservation it was made under.
LEMMA NewRequest ==
  ASSUME IInv, NEW p \in Procs, NEW s \in Sessions, RequestSpawn(p, s)
  PROVE  /\ sess'[s].item = task[p]
         /\ resv' = resv /\ IsPending(task[p])
         /\ MatchesPending(s, task[p])'
         /\ \A t \in Sessions : IsLive(t) => sess[t].item # task[p]
         /\ \A t \in Sessions \ {s} : sess'[t] = sess[t]
<1>1. /\ task[p] \in Items /\ route[p] \in Models
      /\ IsPending(task[p]) /\ resv[task[p]] \in Reservation
  BY DEF RequestSpawn, IInv, BaseInv, TypeOK, LocksMatch, Routed, RecordsThere, IsPending,
         Reserved
<1>2. resv[task[p]].model = route[p] /\ resv[task[p]].harness = HarnessOf[route[p]]
  BY <1>1 DEF RequestSpawn, IInv, SpawnSound, HarnessSound, IsPending
<1>3. sess'[s] = [state |-> "requested", item |-> task[p], model |-> route[p],
                  lane |-> resv[task[p]].lane, listed |-> FALSE]
  BY DEF RequestSpawn, IInv, BaseInv, TypeOK
<1>4. resv' = resv
  BY DEF RequestSpawn
<1>5. MatchesPending(s, task[p])'
  <2>1. task' = task
    BY DEF RequestSpawn
  <2> QED
    BY <1>2, <1>3, <1>4, <2>1 DEF MatchesPending, HarnessOfSession
<1>6. \A t \in Sessions : IsLive(t) => sess[t].item # task[p]
  BY DEF RequestSpawn, IInv, SpawnSound
<1>7. \A t \in Sessions \ {s} : sess'[t] = sess[t]
  BY DEF RequestSpawn, IInv, BaseInv, TypeOK
<1> QED
  BY <1>1, <1>3, <1>4, <1>5, <1>6, <1>7

\* A session in play after a step is in play before it, or is a new request.
LEMMA LiveBefore ==
  ASSUME IInv, Supervised, [Next]_vars, NEW s \in Sessions, IsLive(s)'
  PROVE  \/ IsLive(s) /\ sess'[s].item = sess[s].item
         \/ \E p \in Procs : RequestSpawn(p, s)
<1>1. BaseInv
  BY DEF IInv
<1>2. CASE IsLive(s)
  BY <1>1, <1>2, BornStays DEF IsLive
<1>3. CASE ~IsLive(s)
  BY <1>1, <1>3, OnlySpawnsBegin
<1> QED
  BY <1>2, <1>3

\* No step brings a second worker of an item into play.
LEMMA OneWorkerStep ==
  ASSUME IInv, Supervised, [Next]_vars
  PROVE  OneWorkerPerItem'
<1> SUFFICES ASSUME NEW s \in Sessions, NEW t \in Sessions, IsLive(s)', IsLive(t)',
                    sess'[s].item = sess'[t].item
             PROVE  s = t
  BY DEF OneWorkerPerItem, IsLive
<1>1. CASE IsLive(s) /\ IsLive(t)
  <2>1. sess[s].item = sess[t].item
    BY <1>1, BornStays DEF IInv, IsLive
  <2> QED
    BY <1>1, <2>1 DEF IInv, OneWorkerPerItem, Supervised
<1>2. ASSUME NEW p \in Procs, RequestSpawn(p, s) PROVE s = t
  BY <1>2, NewRequest DEF IsLive
<1>3. ASSUME NEW p \in Procs, RequestSpawn(p, t) PROVE s = t
  BY <1>3, NewRequest DEF IsLive
<1> QED
  BY <1>1, <1>2, <1>3, LiveBefore

\* No step leaves a worker in play without its reservation.
LEMMA ReservedStep ==
  ASSUME IInv, Supervised, [Next]_vars
  PROVE  EveryWorkerReserved'
<1> SUFFICES ASSUME NEW s \in Sessions, IsLive(s)'
             PROVE  Accounted(s, sess[s].item)'
  BY DEF EveryWorkerReserved, Accounted
<1>1. CASE IsLive(s)
  <2>1. sess[s].item \in Items /\ sess'[s].item = sess[s].item
    BY <1>1, BornStays DEF IInv, BaseInv, TypeOK, Session, IsLive
  <2>2. Accounted(s, sess[s].item)
    BY <1>1 DEF IInv, EveryWorkerReserved, Accounted, Supervised
  <2>3. ASSUME NEW i \in Items, sess[s].item = i PROVE Accounted(s, i)'
    BY <1>1, <2>3, AccountedKept
  <2> DEFINE i == sess[s].item
  <2>4. PICK j \in Items : j = i
    BY <2>1
  <2>5. Accounted(s, j)'
    BY <2>3, <2>4
  <2> QED
    BY <2>1, <2>4, <2>5 DEF Accounted, HasWorker, IsPending, Reserved, MatchesPending
<1>2. ASSUME NEW p \in Procs, RequestSpawn(p, s) PROVE Accounted(s, sess[s].item)'
  <2>1. task[p] \in Items /\ task' = task
    BY <1>2 DEF RequestSpawn, IInv, BaseInv, LocksMatch
  <2>2. sess'[s].item = task[p] /\ resv' = resv /\ IsPending(task[p]) /\ MatchesPending(s, task[p])'
    BY <1>2, NewRequest
  <2> QED
    BY <2>1, <2>2 DEF Accounted, IsPending, Reserved, MatchesPending
<1> QED
  BY <1>1, <1>2, LiveBefore

\* A process keeps its position and local state, or it is the one that steps.
LEMMA StaysOrSteps ==
  ASSUME BaseInv, [Next]_vars, NEW q \in Procs
  PROVE  \/ /\ pc'[q] = pc[q]
            /\ task'[q] = task[q]
            /\ route'[q] = route[q]
            /\ scan'[q] = scan[q]
            /\ wid'[q] = wid[q]
         \/ ProcessStep(q)
<1>1. CASE RunnerStep \/ UNCHANGED vars
  BY <1>1 DEF RunnerStep, vars, locals
<1>2. ASSUME NEW p \in Procs, ProcessStep(p), ~ProcessStep(q)
      PROVE  /\ pc'[q] = pc[q]
             /\ task'[q] = task[q]
             /\ route'[q] = route[q]
             /\ scan'[q] = scan[q]
             /\ wid'[q] = wid[q]
  <2>1. q \in Procs \ {p}
    BY <1>2
  <2> QED
    BY <1>2, <2>1, OthersStay
<1> QED
  BY <1>1, <1>2 DEF Next

\* Between taking and leaving its item's lock, a run finds the reservation as it left it.
LEMMA HeldReservation ==
  ASSUME BaseInv, [Next]_vars, NEW q \in Procs, pc[q] \in HoldingItem, ~Writes(q)
  PROVE  resv'[task[q]] = resv[task[q]]
<1>1. task[q] \in Items /\ itemLock[task[q]] = q
  BY DEF BaseInv, LocksMatch, HoldingItem
<1> QED
  BY <1>1, OnlyHolderWrites

\* A worker id is recorded only for a started worker that fits the reservation.
LEMMA RecordedStarted ==
  ASSUME IInv, Supervised, [Next]_vars, NEW i \in Items, HasWorker(i)'
  PROVE  Started(resv[i].worker)' /\ MatchesPending(resv[i].worker, i)'
<1> DEFINE w == resv'[i].worker
<1>1. BaseInv
  BY DEF IInv
<1>2. ASSUME w \in Sessions, Started(w), sess[w].item = i, sess[w].lane = resv'[i].lane,
             HarnessOfSession(w) = resv'[i].harness
      PROVE  Started(resv[i].worker)' /\ MatchesPending(resv[i].worker, i)'
  BY <1>1, <1>2, BornStays DEF Started, MatchesPending, HarnessOfSession
<1>3. CASE resv'[i] = resv[i]
  <2>1. HasWorker(i)
    BY <1>3 DEF HasWorker, Reserved
  <2>2. w \in Sessions /\ Started(w) /\ MatchesPending(w, i)
    BY <1>1, <1>3, <2>1 DEF IInv, WorkersStarted, BaseInv, RecordsThere
  <2> QED
    BY <1>2, <1>3, <2>2 DEF MatchesPending
<1>4. CASE resv'[i] # resv[i]
  <2>1. PICK p \in Procs : Writes(p) /\ task[p] = i /\ itemLock[i] = p
    BY <1>1, <1>4, OnlyHolderWrites
  <2>2. ~VerifyEnded(p) /\ ~ClearRecord(p)
    BY <1>1, <1>4, <2>1 DEF VerifyEnded, ClearRecord, HasWorker, Reserved, BaseInv, TypeOK
  <2>3. ASSUME Conflict(p)
        PROVE  /\ w \in Sessions /\ Started(w) /\ sess[w].item = i
               /\ sess[w].lane = resv'[i].lane /\ HarnessOfSession(w) = resv'[i].harness
    <3>1. resv'[i] = Recovered(p) /\ pc[p] = "decide"
      BY <1>1, <2>1, <2>3 DEF Conflict, BaseInv, TypeOK
    <3>2. /\ Recovered(p).worker \in Workers(p)
          /\ Recovered(p).lane = resv[i].lane
          /\ Recovered(p).harness = resv[i].harness
      BY <1>4, <2>1, <3>1, RecoveredKeeps
    <3> QED
      BY <2>1, <3>1, <3>2, MetWorker DEF MatchesPending
  <2>4. ASSUME NEW t \in Sessions, Reuse(p, t)
        PROVE  /\ w \in Sessions /\ Started(w) /\ sess[w].item = i
               /\ sess[w].lane = resv'[i].lane /\ HarnessOfSession(w) = resv'[i].harness
    <3>1. resv'[i] = AdoptedRecord(p, t) /\ pc[p] = "decide" /\ t \in Workers(p)
      BY <1>1, <2>1, <2>4 DEF Reuse, BaseInv, TypeOK
    <3>2. /\ AdoptedRecord(p, t).worker = t
          /\ AdoptedRecord(p, t).lane = sess[t].lane
          /\ AdoptedRecord(p, t).harness = HarnessOfSession(t)
      BY DEF AdoptedRecord
    <3> QED
      BY <2>1, <3>1, <3>2, MetWorker
  <2>5. ASSUME Reserve(p) PROVE FALSE
    <3>1. resv'[i] = PendingRecord(p, pick[p])
      BY <1>1, <2>1, <2>5 DEF Reserve, BaseInv, TypeOK
    <3>2. PendingRecord(p, pick[p]).state = "pending"
      BY DEF PendingRecord
    <3> QED
      BY <3>1, <3>2 DEF HasWorker
  <2>6. ASSUME RecordAcquired(p)
        PROVE  /\ w \in Sessions /\ Started(w) /\ sess[w].item = i
               /\ sess[w].lane = resv'[i].lane /\ HarnessOfSession(w) = resv'[i].harness
    <3>1. resv[i] \in Reservation /\ wid[p] \in Sessions
      BY <1>1, <2>1, <2>6 DEF RecordAcquired, BaseInv, TypeOK, RecordsThere, WithWorker,
                              IsPending, Reserved
    <3>2. resv'[i] = [resv[i] EXCEPT !.state = "worker", !.worker = wid[p]]
      BY <1>1, <2>1, <2>6, <3>1 DEF RecordAcquired, BaseInv, TypeOK, Reservation
    <3>3. w = wid[p] /\ resv'[i].lane = resv[i].lane /\ resv'[i].harness = resv[i].harness
      BY <3>1, <3>2 DEF Reservation
    <3>4. Started(wid[p]) /\ MatchesPending(wid[p], i)
      BY <2>1, <2>6 DEF RecordAcquired, IInv, WorkersStarted, WithWorker, SpawnSound
    <3> QED
      BY <3>1, <3>3, <3>4 DEF MatchesPending
  <2> QED
    BY <1>2, <2>1, <2>2, <2>3, <2>4, <2>5, <2>6 DEF Writes
<1> QED
  BY <1>3, <1>4

\* No step keeps a worker id that is not a started session of the right item.
LEMMA WorkersStartedStep ==
  ASSUME IInv, Supervised, [Next]_vars
  PROVE  WorkersStarted'
<1>1. BaseInv
  BY DEF IInv
<1>2. ASSUME NEW i \in Items, thread'[i] # Nobody
      PROVE  Started(thread[i])' /\ (sess[thread[i]].item = i)'
  <2>1. ASSUME thread'[i] \in Sessions, Started(thread'[i]), sess[thread'[i]].item = i
        PROVE  Started(thread[i])' /\ (sess[thread[i]].item = i)'
    BY <1>1, <2>1, BornStays DEF Started
  <2>2. CASE thread'[i] = thread[i]
    BY <1>1, <1>2, <2>1, <2>2 DEF BaseInv, TypeOK, IInv, WorkersStarted
  <2>3. CASE thread'[i] # thread[i]
    <3>1. PICK p \in Procs : SaveThread(p)
      BY <2>3, ZenonT(60) DEF Next, RunnerStep, vars, ProcessStep, Progress, Start, CheckCapacity,
         AcquireGlobal, AcquireItem, Scan, VerifyListed, VerifyFound, VerifyEnded,
         VerifyUnknown, Conflict, Reuse, Refuse, Admit, Reserve, RequestSpawn, SpawnReturns,
         SpawnFails, RecordAcquired, Finish, StartCleanup, ResumeCleanup, CleanupLock,
         Terminate, ClearRecord, Abandon
    <3>2. task[p] = i /\ thread'[i] = wid[p]
      BY <1>1, <2>3, <3>1 DEF SaveThread, BaseInv, TypeOK
    <3>3. wid[p] \in Sessions /\ Started(wid[p]) /\ sess[wid[p]].item = task[p]
      BY <1>1, <3>1 DEF SaveThread, BaseInv, RecordsThere, IInv, WorkersStarted, WithWorker
    <3> QED
      BY <2>1, <3>2, <3>3
  <2> QED
    BY <2>2, <2>3
<1>3. ASSUME NEW q \in Procs, pc'[q] \in WithWorker
      PROVE  Started(wid[q])' /\ (sess[wid[q]].item = task[q])'
  <2>1. ASSUME wid'[q] \in Sessions, Started(wid'[q]), sess[wid'[q]].item = task'[q]
        PROVE  Started(wid[q])' /\ (sess[wid[q]].item = task[q])'
    BY <1>1, <2>1, BornStays DEF Started
  <2>2. CASE pc[q] \in WithWorker /\ wid'[q] = wid[q] /\ task'[q] = task[q]
    BY <1>1, <2>1, <2>2 DEF BaseInv, RecordsThere, IInv, WorkersStarted
  <2>3. ASSUME NEW s \in Sessions, Reuse(q, s)
        PROVE  wid'[q] \in Sessions /\ Started(wid'[q]) /\ sess[wid'[q]].item = task'[q]
    <3>1. wid'[q] = s /\ task'[q] = task[q] /\ s \in Workers(q) /\ pc[q] = "decide"
      BY <1>1, <2>3 DEF Reuse, BaseInv, TypeOK
    <3> QED
      BY <3>1, MetWorker
  <2>4. ASSUME SpawnReturns(q)
        PROVE  wid'[q] \in Sessions /\ Started(wid'[q]) /\ sess[wid'[q]].item = task'[q]
    BY <1>1, <2>4 DEF SpawnReturns, locals, BaseInv, RecordsThere, IInv, SpawnSound,
       MatchesPending, Started, IsActive, IsEnded
  <2>5. ASSUME NEW i \in Items, ResumeCleanup(q, i)
        PROVE  wid'[q] \in Sessions /\ Started(wid'[q]) /\ sess[wid'[q]].item = task'[q]
    BY <1>1, <2>5 DEF ResumeCleanup, BaseInv, TypeOK, IInv, WorkersStarted
  <2>6. ASSUME ProcessStep(q),
               \A s \in Sessions : ~Reuse(q, s), ~SpawnReturns(q),
               \A i \in Items : ~ResumeCleanup(q, i)
        PROVE  pc[q] \in WithWorker /\ wid'[q] = wid[q] /\ task'[q] = task[q]
    BY <1>1, <1>3, <2>6 DEF BaseInv, TypeOK, WithWorker, ProcessStep, Progress, Start,
       CheckCapacity, AcquireGlobal, AcquireItem, Scan, VerifyListed, VerifyFound,
       VerifyEnded, VerifyUnknown, Conflict, Refuse, Admit, Reserve, RequestSpawn, SpawnFails,
       RecordAcquired, SaveThread, Finish, StartCleanup, CleanupLock, Terminate,
       ClearRecord, Abandon, Goto, EndRun, locals
  <2>7. CASE ProcessStep(q)
    BY <2>1, <2>2, <2>3, <2>4, <2>5, <2>6, <2>7
  <2>8. CASE ~ProcessStep(q)
    BY <1>1, <1>3, <2>2, <2>8, StaysOrSteps
  <2> QED
    BY <2>7, <2>8
<1> QED
  BY <1>2, <1>3, RecordedStarted DEF WorkersStarted

\* While a run holds its item's lock and has not spawned, nothing comes into play for the
\* item.
LEMMA NoneBegins ==
  ASSUME IInv, Supervised, [Next]_vars, NEW q \in Procs,
         pc[q] \in HoldingItem \ {"spawn"},
         NEW t \in Sessions, IsLive(t)', sess'[t].item = task[q]
  PROVE  IsLive(t) /\ sess[t].item = task[q]
<1>1. ASSUME NEW p \in Procs, RequestSpawn(p, t) PROVE FALSE
  <2>1. pc[p] = "spawn" /\ task[p] = task[q]
    BY <1>1, NewRequest DEF RequestSpawn
  <2>2. p = q
    BY <2>1, HolderUnique DEF IInv, HoldingItem
  <2> QED
    BY <2>1, <2>2
<1> QED
  BY <1>1, LiveBefore

\* No step, of this run or of another, makes a run's snapshot of its item stale.
LEMMA SnapshotStep ==
  ASSUME IInv, Supervised, [Next]_vars
  PROVE  SnapshotSound'
<1> SUFFICES ASSUME NEW q \in Procs, pc'[q] \in {"verify", "decide"}
             PROVE  /\ \A s \in Workers(q)' :
                         Started(s)' /\ Accounted(s, task[q])' /\ OnlyLive(s, task[q])'
                    /\ pc'[q] = "decide" /\ HasWorker(task[q])'
                         => resv'[task'[q]].worker \in scan'[q]
  BY DEF SnapshotSound
<1>1. BaseInv
  BY DEF IInv
<1> DEFINE i == task[q]
<1>2. ASSUME pc[q] \in HoldingItem \ {"spawn"}, resv'[i] = resv[i], task'[q] = i,
             NEW s \in Sessions, sess[s].item = i, Started(s), Accounted(s, i), OnlyLive(s, i)
      PROVE  Started(s)' /\ Accounted(s, task[q])' /\ OnlyLive(s, task[q])'
  <2>1. sess[s] # Unborn
    BY <1>2 DEF Started
  <2>2. /\ Started(s)'
        /\ sess'[s].item = sess[s].item /\ sess'[s].lane = sess[s].lane
        /\ HarnessOfSession(s)' = HarnessOfSession(s)
    BY <1>1, <1>2, <2>1, BornStays
  <2>3. Accounted(s, task[q])'
    BY <1>2, <2>2 DEF Accounted, HasWorker, IsPending, Reserved, MatchesPending
  <2>4. OnlyLive(s, task[q])'
    BY <1>2, NoneBegins DEF OnlyLive
  <2> QED
    BY <2>2, <2>3, <2>4
<1>3. CASE /\ (pc[q] \in {"verify", "decide"} /\ pc'[q] = pc[q]) \/ VerifyListed(q)
           /\ task'[q] = i /\ scan'[q] = scan[q] /\ ~Writes(q)
  <2>1. resv'[i] = resv[i] /\ pc[q] \in HoldingItem \ {"spawn"}
    BY <1>1, <1>3, HeldReservation DEF HoldingItem, VerifyListed
  <2>2. ASSUME NEW s \in Workers(q)'
        PROVE  Started(s)' /\ Accounted(s, task[q])' /\ OnlyLive(s, task[q])'
    <3>1. s \in Sessions /\ sess[s] # Unborn /\ s \in scan[q] /\ sess'[s].item = i
      BY <1>1, <1>3, <2>2 DEF Workers, BaseInv, TypeOK, RecordsThere
    <3>2. s \in Workers(q)
      BY <1>1, <3>1, BornStays DEF Workers
    <3>3. /\ Started(s) /\ Accounted(s, i) /\ OnlyLive(s, i)
          /\ sess[s].item = i
      BY <1>3, <3>2 DEF IInv, SnapshotSound, Workers, VerifyListed
    <3> QED
      BY <1>2, <1>3, <2>1, <3>1, <3>3
  <2>3. ASSUME pc'[q] = "decide", HasWorker(task[q])' PROVE resv'[task'[q]].worker \in scan'[q]
    BY <1>3, <2>1, <2>3 DEF HasWorker, Reserved, IInv, SnapshotSound, VerifyListed
  <2> QED
    BY <2>2, <2>3
<1>4. CASE Scan(q)
  <2>1. /\ i \in Items /\ task'[q] = i /\ resv' = resv /\ sess' = sess
        /\ scan'[q] = Visible(i, ReservedLane(i)) /\ pc'[q] = "verify"
    BY <1>1, <1>4 DEF Scan, BaseInv, TypeOK, LocksMatch, Goto
  <2>2. ASSUME NEW s \in Workers(q)'
        PROVE  Started(s)' /\ Accounted(s, task[q])' /\ OnlyLive(s, task[q])'
    <3>1. s \in Sessions /\ IsActive(s) /\ sess[s].item = i
      BY <2>1, <2>2 DEF Workers, Visible
    <3>2. IsLive(s) /\ Started(s)
      BY <3>1 DEF IsActive, IsLive, Started
    <3>3. Accounted(s, i)
      BY <3>1, <3>2 DEF IInv, EveryWorkerReserved, Accounted, Supervised
    <3>4. OnlyLive(s, i)
      BY <3>1, <3>2 DEF IInv, OneWorkerPerItem, OnlyLive, Supervised
    <3> QED
      BY <2>1, <3>2, <3>3, <3>4 DEF Started, Accounted, HasWorker, IsPending, Reserved,
         MatchesPending, HarnessOfSession, OnlyLive, IsLive
  <2> QED
    BY <2>1, <2>2
<1>5. CASE VerifyFound(q)
  <2> DEFINE w == resv[i].worker
  <2>1. /\ i \in Items /\ task'[q] = i /\ resv' = resv /\ sess' = sess
        /\ scan'[q] = scan[q] \cup {w}
        /\ HasWorker(i) /\ IsActive(w) /\ pc[q] = "verify"
    BY <1>1, <1>5 DEF VerifyFound, BaseInv, TypeOK, LocksMatch
  <2>2. /\ w \in Sessions /\ Started(w) /\ IsLive(w) /\ sess[w].item = i /\ Accounted(w, i)
    BY <1>1, <2>1 DEF IsActive, IsLive, Started, BaseInv, RecordsThere, IInv, WorkersStarted,
       MatchesPending, Accounted
  <2>3. OnlyLive(w, i)
    BY <2>2 DEF IInv, OneWorkerPerItem, OnlyLive, Supervised
  <2>4. ASSUME NEW s \in Workers(q)'
        PROVE  Started(s)' /\ Accounted(s, task[q])' /\ OnlyLive(s, task[q])'
    <3>1. s = w \/ s \in Workers(q)
      BY <2>1, <2>4 DEF Workers
    <3>2. s \in Sessions /\ Started(s) /\ Accounted(s, i) /\ OnlyLive(s, i)
      BY <1>1, <2>1, <2>2, <2>3, <3>1 DEF IInv, SnapshotSound, Workers, BaseInv, TypeOK
    <3> QED
      BY <2>1, <3>2 DEF Started, Accounted, HasWorker, IsPending, Reserved,
         MatchesPending, HarnessOfSession, OnlyLive, IsLive
  <2> QED
    BY <2>1, <2>4
<1>6. CASE VerifyEnded(q)
  <2>1. /\ i \in Items /\ task'[q] = i /\ resv'[i] = NoResv /\ sess' = sess
        /\ scan' = scan /\ HasWorker(i) /\ resv[i].worker \notin scan[q] /\ pc[q] = "verify"
    BY <1>1, <1>6 DEF VerifyEnded, BaseInv, TypeOK, LocksMatch, locals
  <2>2. ASSUME NEW s \in Workers(q)' PROVE FALSE
    <3>1. s \in Workers(q)
      BY <2>1, <2>2 DEF Workers
    <3>2. Accounted(s, i) /\ s \in scan[q]
      BY <2>1, <3>1 DEF IInv, SnapshotSound, Workers
    <3> QED
      BY <2>1, <3>2 DEF Accounted, HasWorker, IsPending
  <2>3. ~HasWorker(task[q])'
    BY <2>1 DEF HasWorker, Reserved
  <2> QED
    BY <2>2, <2>3
<1>7. ASSUME ProcessStep(q), ~VerifyListed(q), ~Scan(q), ~VerifyFound(q), ~VerifyEnded(q)
      PROVE  FALSE
  BY <1>1, <1>7 DEF BaseInv, TypeOK, ProcessStep, Progress, Start,
     CheckCapacity, AcquireGlobal, AcquireItem, VerifyUnknown, Conflict, Reuse, Refuse,
     Admit, Reserve, RequestSpawn, SpawnReturns, SpawnFails, RecordAcquired, SaveThread, Finish,
     StartCleanup, ResumeCleanup, CleanupLock, Terminate, ClearRecord, Abandon, Goto, EndRun
<1>8. CASE VerifyListed(q)
  <2>1. /\ pc[q] \in {"verify", "decide"} /\ task'[q] = i /\ scan'[q] = scan[q]
        /\ ~Writes(q)
    BY <1>1, <1>8 DEF VerifyListed, locals, BaseInv, TypeOK, Goto, Writes, VerifyEnded,
       Conflict, RecordAcquired, ClearRecord, Reuse, Reserve
  <2> QED
    BY <1>3, <1>8, <2>1
<1>9. CASE ~ProcessStep(q)
  <2>1. ~Writes(q)
    BY <1>9 DEF Writes, ProcessStep, Progress
  <2> QED
    BY <1>1, <1>3, <1>9, <2>1, StaysOrSteps
<1> QED
  BY <1>4, <1>5, <1>6, <1>7, <1>8, <1>9

\* No step lets a second worker of an item come between admission and record.
LEMMA SpawnStep ==
  ASSUME IInv, Supervised, [Next]_vars
  PROVE  SpawnSound'
<1>1. BaseInv
  BY DEF IInv
<1>2. ASSUME NEW q \in Procs, pc'[q] \in {"reserve", "spawn"}
      PROVE  /\ \A t \in Sessions : IsLive(t)' => sess'[t].item # task'[q]
             /\ pc'[q] = "reserve" => ~Reserved(task[q])'
             /\ pc'[q] = "spawn" => resv'[task'[q]].model = route'[q]
  <2>1. CASE \E lane \in Lanes : Admit(q, lane)
    <3>1. PICK lane \in Lanes : Admit(q, lane)
      BY <2>1
    <3>2. /\ pc[q] = "decide" /\ Workers(q) = {} /\ ~IsPending(task[q])
          /\ task' = task /\ sess' = sess /\ resv' = resv /\ pc'[q] = "reserve"
      BY <1>1, <3>1 DEF Admit, MayAdmit, Goto, BaseInv, TypeOK
    <3>3. /\ ~Reserved(task[q])
          /\ \A t \in Sessions : IsLive(t) => sess[t].item # task[q]
      BY <3>2, AdmittedUnreserved
    <3> QED
      BY <3>2, <3>3 DEF IsLive, Reserved
  <2>2. CASE Reserve(q)
    <3>1. /\ pc[q] = "reserve" /\ pc'[q] = "spawn" /\ task[q] \in Items
          /\ task' = task /\ route' = route /\ sess' = sess
          /\ resv'[task[q]] = PendingRecord(q, pick[q])
      BY <1>1, <2>2 DEF Reserve, Goto, BaseInv, TypeOK, LocksMatch
    <3>2. PendingRecord(q, pick[q]).model = route[q]
      BY DEF PendingRecord
    <3> QED
      BY <3>1, <3>2 DEF IsLive, IInv, SpawnSound
  <2>3. CASE ProcessStep(q) /\ ~Reserve(q) /\ ~\E lane \in Lanes : Admit(q, lane)
    BY <1>1, <1>2, <2>3 DEF BaseInv, TypeOK, ProcessStep, Progress, Start, CheckCapacity,
       AcquireGlobal, AcquireItem, Scan, VerifyListed, VerifyFound, VerifyEnded,
       VerifyUnknown, Conflict, Reuse, Refuse, RequestSpawn, SpawnReturns, SpawnFails,
       RecordAcquired, SaveThread, Finish, StartCleanup, ResumeCleanup, CleanupLock,
       Terminate, ClearRecord, Abandon, Goto, EndRun
  <2>4. CASE ~ProcessStep(q)
    <3>1. /\ pc[q] \in {"reserve", "spawn"} /\ pc'[q] = pc[q]
          /\ task'[q] = task[q] /\ route'[q] = route[q]
          /\ resv'[task[q]] = resv[task[q]]
      BY <1>1, <1>2, <2>4, StaysOrSteps, HeldReservation
         DEF HoldingItem, Writes, ProcessStep, Progress
    <3>2. ASSUME NEW t \in Sessions, IsLive(t)', sess'[t].item = task[q] PROVE FALSE
      <4>1. ASSUME NEW p \in Procs, RequestSpawn(p, t) PROVE FALSE
        <5>1. pc[p] = "spawn" /\ task[p] = task[q]
          BY <3>2, <4>1, NewRequest DEF RequestSpawn
        <5>2. p = q
          BY <1>1, <3>1, <5>1, HolderUnique DEF HoldingItem
        <5> QED
          BY <2>4, <4>1, <5>2 DEF ProcessStep, Progress
      <4>2. IsLive(t) /\ sess[t].item = task[q]
        BY <3>2, <4>1, LiveBefore
      <4> QED
        BY <3>1, <4>2 DEF IInv, SpawnSound
    <3> QED
      BY <3>1, <3>2 DEF IInv, SpawnSound, Reserved
  <2> QED
    BY <2>1, <2>2, <2>3, <2>4
<1>3. ASSUME NEW q \in Procs, pc'[q] \in {"wait", "record"}
      PROVE  /\ sess'[wid'[q]] # Unborn
             /\ MatchesPending(wid[q], task[q])'
             /\ OnlyLive(wid[q], task[q])'
  <2>1. ASSUME NEW s \in Sessions, RequestSpawn(q, s)
        PROVE  /\ sess'[wid'[q]] # Unborn
               /\ MatchesPending(wid[q], task[q])'
               /\ OnlyLive(wid[q], task[q])'
    <3>1. wid'[q] = s /\ task' = task
      BY <1>1, <2>1 DEF RequestSpawn, BaseInv, TypeOK
    <3>2. /\ MatchesPending(s, task[q])'
          /\ \A t \in Sessions : IsLive(t) => sess[t].item # task[q]
          /\ \A t \in Sessions \ {s} : sess'[t] = sess[t]
      BY <2>1, NewRequest
    <3>3. sess'[s] # Unborn
      <4>1. task[q] \in Items /\ route[q] \in Models /\ resv[task[q]].lane \in Lanes
        BY <1>1, <2>1 DEF RequestSpawn, BaseInv, TypeOK, LocksMatch, Routed, RecordsThere,
           IsPending, Reserved, Reservation
      <4>2. sess'[s] = [state |-> "requested", item |-> task[q], model |-> route[q],
                        lane |-> resv[task[q]].lane, listed |-> FALSE]
        BY <1>1, <2>1 DEF RequestSpawn, BaseInv, TypeOK
      <4>3. sess'[s] \in Session
        BY <4>1, <4>2 DEF Session
      <4> QED
        BY <4>3
    <3>4. OnlyLive(wid[q], task[q])'
      BY <3>1, <3>2 DEF OnlyLive, IsLive
    <3> QED
      BY <3>1, <3>2, <3>3, <3>4 DEF MatchesPending, HarnessOfSession
  <2>2. ASSUME pc[q] \in {"wait", "record"}, wid'[q] = wid[q], task'[q] = task[q], ~Writes(q)
        PROVE  /\ sess'[wid'[q]] # Unborn
               /\ MatchesPending(wid[q], task[q])'
               /\ OnlyLive(wid[q], task[q])'
    <3>1. resv'[task[q]] = resv[task[q]]
      BY <1>1, <2>2, HeldReservation DEF HoldingItem
    <3>2. /\ wid[q] \in Sessions /\ sess[wid[q]] # Unborn
          /\ MatchesPending(wid[q], task[q]) /\ OnlyLive(wid[q], task[q])
      BY <1>1, <2>2 DEF IInv, SpawnSound, BaseInv, RecordsThere, WithWorker
    <3>3. MatchesPending(wid[q], task[q])' /\ sess'[wid[q]] # Unborn
      BY <1>1, <2>2, <3>1, <3>2, BornStays DEF MatchesPending
    <3>4. OnlyLive(wid[q], task[q])'
      BY <2>2, <3>2, NoneBegins DEF OnlyLive, HoldingItem
    <3> QED
      BY <2>2, <3>3, <3>4
  <2>3. ASSUME SpawnReturns(q)
        PROVE  pc[q] \in {"wait", "record"} /\ wid'[q] = wid[q] /\ task'[q] = task[q] /\ ~Writes(q)
    BY <2>3 DEF SpawnReturns, locals, Writes, VerifyEnded, Conflict, RecordAcquired,
       ClearRecord, Reuse, Reserve
  <2>4. ASSUME ProcessStep(q), ~SpawnReturns(q), \A s \in Sessions : ~RequestSpawn(q, s)
        PROVE  FALSE
    BY <1>1, <1>3, <2>4 DEF BaseInv, TypeOK, ProcessStep, Progress, Start, CheckCapacity,
       AcquireGlobal, AcquireItem, Scan, VerifyListed, VerifyFound, VerifyEnded,
       VerifyUnknown, Conflict, Reuse, Refuse, Admit, Reserve, SpawnFails,
       RecordAcquired, SaveThread, Finish, StartCleanup, ResumeCleanup, CleanupLock,
       Terminate, ClearRecord, Abandon, Goto, EndRun
  <2>5. CASE ~ProcessStep(q)
    <3>1. ~Writes(q)
      BY <2>5 DEF Writes, ProcessStep, Progress
    <3> QED
      BY <1>1, <1>3, <2>2, <2>5, <3>1, StaysOrSteps
  <2> QED
    BY <2>1, <2>2, <2>3, <2>4, <2>5
<1> QED
  BY <1>2, <1>3 DEF SpawnSound

\* When the record is cleared, the worker has ended.
LEMMA CleanupStep ==
  ASSUME IInv, Supervised, [Next]_vars
  PROVE  CleanupSound'
<1> SUFFICES ASSUME NEW q \in Procs, pc'[q] = "c_clear" PROVE IsEnded(wid[q])'
  BY DEF CleanupSound
<1>1. BaseInv
  BY DEF IInv
<1>2. CASE Terminate(q)
  <2>1. wid[q] \in Sessions /\ wid' = wid /\ Started(wid[q]) /\ sess[wid[q]] \in Session
    BY <1>1, <1>2 DEF Terminate, locals, IInv, WorkersStarted, BaseInv, RecordsThere,
       WithWorker, Started, TypeOK
  <2>2. CASE IsActive(wid[q])
    <3>1. sess' = [sess EXCEPT ![wid[q]].state = "ended"]
      BY <1>2, <2>2 DEF Terminate, Supervised
    <3>2. sess'[wid[q]] = [sess[wid[q]] EXCEPT !.state = "ended"]
      BY <1>1, <2>1, <3>1 DEF BaseInv, TypeOK
    <3>3. sess'[wid[q]] \in Session /\ sess'[wid[q]].state = "ended"
      BY <2>1, <3>2 DEF Session
    <3> QED
      BY <2>1, <3>3 DEF IsEnded
  <2>3. CASE ~IsActive(wid[q])
    BY <1>2, <2>1, <2>3 DEF Terminate, Started, IsActive, IsEnded
  <2> QED
    BY <2>2, <2>3
<1>3. CASE ~Terminate(q)
  <2>1. ASSUME ProcessStep(q) PROVE FALSE
    BY <1>1, <1>3, <2>1 DEF BaseInv, TypeOK, ProcessStep, Progress, Start, CheckCapacity,
       AcquireGlobal, AcquireItem, Scan, VerifyListed, VerifyFound, VerifyEnded,
       VerifyUnknown, Conflict, Reuse, Refuse, Admit, Reserve, RequestSpawn, SpawnReturns,
       SpawnFails, RecordAcquired, SaveThread, Finish, StartCleanup, ResumeCleanup,
       CleanupLock, ClearRecord, Abandon, Goto, EndRun
  <2>2. pc[q] = "c_clear" /\ wid'[q] = wid[q]
    BY <1>1, <2>1, StaysOrSteps
  <2>3. wid[q] \in Sessions /\ IsEnded(wid[q])
    BY <1>1, <2>2 DEF IInv, CleanupSound, BaseInv, RecordsThere, WithWorker
  <2>4. IsEnded(wid[q])' = (sess'[wid[q]] # Unborn /\ sess'[wid[q]].state = "ended")
    BY <2>2 DEF IsEnded
  <2>5. sess[wid[q]] # Unborn
    BY <2>3 DEF IsEnded
  <2>6. Evolves(wid[q])
    BY <1>1, <2>3, SessionsStep
  <2> QED
    BY <2>2, <2>3, <2>5, <2>6 DEF Evolves, IsEnded
<1> QED
  BY <1>2, <1>3

\* A reservation's harness stays the harness of its model.
LEMMA HarnessStep ==
  ASSUME IInv, Supervised, [Next]_vars
  PROVE  HarnessSound'
<1> SUFFICES ASSUME NEW i \in Items, Reserved(i)'
             PROVE  resv'[i].harness = HarnessOf[resv'[i].model]
  BY DEF HarnessSound
<1>1. BaseInv
  BY DEF IInv
<1>2. CASE resv'[i] = resv[i]
  BY <1>2 DEF IInv, HarnessSound, Reserved
<1>3. CASE resv'[i] # resv[i]
  <2>1. PICK p \in Procs : Writes(p) /\ task[p] = i /\ itemLock[i] = p
    BY <1>1, <1>3, OnlyHolderWrites
  <2>2. ~VerifyEnded(p) /\ ~ClearRecord(p)
    BY <1>1, <1>3, <2>1 DEF VerifyEnded, ClearRecord, Reserved, BaseInv, TypeOK
  <2>3. CASE Conflict(p)
    <3>1. resv'[i] = Recovered(p) /\ pc[p] = "decide"
      BY <1>1, <2>1, <2>3 DEF Conflict, BaseInv, TypeOK
    <3>2. /\ IsPending(i)
          /\ Recovered(p).model = resv[i].model
          /\ Recovered(p).harness = resv[i].harness
      BY <1>3, <2>1, <3>1, RecoveredKeeps
    <3> QED
      BY <3>1, <3>2 DEF IInv, HarnessSound, IsPending
  <2>4. ASSUME NEW t \in Sessions, Reuse(p, t)
        PROVE  resv'[i].harness = HarnessOf[resv'[i].model]
    <3>1. resv'[i] = AdoptedRecord(p, t) /\ pc[p] = "decide" /\ t \in Workers(p)
      BY <1>1, <2>1, <2>4 DEF Reuse, BaseInv, TypeOK
    <3>2. Accounted(t, i) /\ MatchesPending(t, i)
      BY <2>1, <3>1, MetWorker
    <3>3. Reserved(i)
      BY <3>2 DEF Accounted, HasWorker, IsPending
    <3>4. /\ AdoptedRecord(p, t).harness = HarnessOfSession(t)
          /\ AdoptedRecord(p, t).model = resv[i].model
      BY <2>1, <3>3 DEF AdoptedRecord
    <3> QED
      BY <3>1, <3>2, <3>3, <3>4 DEF IInv, HarnessSound, MatchesPending
  <2>5. ASSUME Reserve(p)
        PROVE  resv'[i].harness = HarnessOf[resv'[i].model]
    <3>1. resv'[i] = PendingRecord(p, pick[p])
      BY <1>1, <2>1, <2>5 DEF Reserve, BaseInv, TypeOK
    <3> QED
      BY <3>1 DEF PendingRecord
  <2>6. CASE RecordAcquired(p)
    <3>1. resv[i] \in Reservation /\ IsPending(i)
      BY <1>1, <2>1, <2>6 DEF RecordAcquired, BaseInv, TypeOK, RecordsThere, IsPending,
         Reserved
    <3>2. resv'[i] = [resv[i] EXCEPT !.state = "worker", !.worker = wid[p]]
      BY <1>1, <2>1, <2>6, <3>1 DEF RecordAcquired, BaseInv, TypeOK, Reservation
    <3>3. resv'[i].model = resv[i].model /\ resv'[i].harness = resv[i].harness
      BY <3>1, <3>2 DEF Reservation
    <3> QED
      BY <3>1, <3>3 DEF IInv, HarnessSound, IsPending
  <2> QED
    BY <2>1, <2>2, <2>3, <2>4, <2>5, <2>6 DEF Writes
<1> QED
  BY <1>2, <1>3

\* IInv is an inductive invariant of the supervised protocol.
THEOREM Invariance == Supervised => (Spec => []IInv)
<1> SUFFICES ASSUME Supervised PROVE Spec => []IInv
  OBVIOUS
<1>1. Init => IInv
  <2> SUFFICES ASSUME Init PROVE IInv
    OBVIOUS
  <2>1. BaseInv
    BY DEF Init, BaseInv, TypeOK, LocksMatch, RecordsThere, PCs, Allocating, HoldingItem,
       Routed, WithWorker, HasWorker, IsPending, Reserved
  <2>2. /\ \A s \in Sessions : ~IsLive(s)
        /\ \A i \in Items : ~Reserved(i) /\ thread[i] = Nobody
        /\ \A p \in Procs : pc[p] = "idle"
    BY DEF Init, IsLive, Reserved
  <2> QED
    BY <2>1, <2>2 DEF IInv, WorkersStarted, SnapshotSound, SpawnSound, CleanupSound,
       HarnessSound, OneWorkerPerItem, EveryWorkerReserved, HasWorker, WithWorker
<1>2. IInv /\ [Next]_vars => IInv'
  <2> SUFFICES ASSUME IInv, [Next]_vars PROVE IInv'
    OBVIOUS
  <2>1. BaseInv'
    BY TypeStep, LocksStep, RecordsStep DEF IInv, BaseInv
  <2> QED
    BY <2>1, WorkersStartedStep, SnapshotStep, SpawnStep, CleanupStep, HarnessStep,
       OneWorkerStep, ReservedStep DEF IInv
<1> QED
  BY <1>1, <1>2, PTL DEF Spec

\* However many runs of the graph race, time out, die and retry, a work item never has
\* two of the supervisor's workers in play.
THEOREM OneWorker == Supervised => (Spec => []OneWorkerPerItem)
<1>1. IInv => OneWorkerPerItem
  BY DEF IInv
<1> QED
  BY Invariance, <1>1, PTL

\* No worker in play is ever forgotten by the durable reservations.
THEOREM NoWorkerForgotten == Supervised => (Spec => []EveryWorkerReserved)
<1>1. IInv => EveryWorkerReserved
  BY DEF IInv
<1> QED
  BY Invariance, <1>1, PTL

\* The reservation of a request that may still start is kept until it names that worker.
THEOREM UncertainSpawnSafe == Supervised => (Spec => UncertainSpawnKept)
<1> SUFFICES ASSUME Supervised PROVE Spec => UncertainSpawnKept
  OBVIOUS
<1>1. ASSUME IInv, [Next]_vars
      PROVE  \A s \in Sessions \ Native :
               IsLive(s) /\ IsPending(sess[s].item) /\ IsLive(s)'
               => \/ IsPending(sess[s].item)'
                  \/ HasWorker(sess[s].item)' /\ resv'[sess[s].item].worker = s
  <2> SUFFICES ASSUME NEW s \in Sessions, IsLive(s), IsPending(sess[s].item), IsLive(s)'
               PROVE  \/ IsPending(sess[s].item)'
                      \/ HasWorker(sess[s].item)' /\ resv'[sess[s].item].worker = s
    OBVIOUS
  <2>1. sess[s].item \in Items /\ sess'[s].item = sess[s].item
    BY <1>1, BornStays DEF IInv, BaseInv, TypeOK, Session, IsLive
  <2>2. PICK i \in Items : i = sess[s].item
    BY <2>1
  <2>3. IsPending(i)' \/ (HasWorker(i) /\ resv[i].worker = s)'
    BY <1>1, <2>2, AccountedKept
  <2> QED
    BY <2>1, <2>2, <2>3 DEF IsPending, HasWorker, Reserved
<1> QED
  BY Invariance, <1>1, PTL DEF Spec, UncertainSpawnKept

-----------------------------------------------------------------------------
(***************************************************************************)
(* A known worker stays recorded, and shadow mode does not touch the runner. *)
(***************************************************************************)

\* The worker that a run recovers is one of those it has met.
LEMMA RecoveredMet ==
  ASSUME BaseInv, NEW p \in Procs, pc[p] = "decide", Recovered(p) # resv[task[p]]
  PROVE  IsPending(task[p]) /\ Recovered(p).worker \in Workers(p)
<1> DEFINE matches == {s \in Workers(p) : MatchesPending(s, task[p])}
           w == CHOOSE s \in matches : TRUE
<1>1. /\ IsPending(task[p]) /\ w \in Workers(p)
      /\ Recovered(p) = [resv[task[p]] EXCEPT !.state = "worker", !.worker = w]
  BY DEF Recovered
<1>2. resv[task[p]] \in Reservation
  BY <1>1 DEF BaseInv, TypeOK, LocksMatch, IsPending, Reserved
<1> HIDE DEF w
<1>3. Recovered(p).worker = w
  BY <1>1, <1>2 DEF Reservation
<1> QED
  BY <1>1, <1>3

\* A worker id comes on a record only from a listing or from a spawn that has answered.
LEMMA RecordNames ==
  ASSUME KnownInv, [Next]_vars, NEW i \in Items, HasWorker(i)'
  PROVE  LET w == resv'[i].worker
         IN w \in Sessions /\ Started(w) /\ sess[w].item = i
<1> DEFINE w == resv'[i].worker
           Good == w \in Sessions /\ Started(w) /\ sess[w].item = i
<1>1. BaseInv
  BY DEF KnownInv
<1>2. CASE resv'[i] = resv[i]
  BY <1>1, <1>2 DEF HasWorker, Reserved, KnownInv, KnownStarted, BaseInv, RecordsThere
<1>3. CASE resv'[i] # resv[i]
  <2>1. PICK p \in Procs : Writes(p) /\ task[p] = i /\ itemLock[i] = p
    BY <1>1, <1>3, OnlyHolderWrites
  <2>2. ~VerifyEnded(p) /\ ~ClearRecord(p)
    BY <1>1, <1>3, <2>1 DEF VerifyEnded, ClearRecord, HasWorker, Reserved, BaseInv, TypeOK
  <2>3. \A t \in Workers(p) : pc[p] = "decide" => t \in Sessions /\ Started(t) /\ sess[t].item = i
    BY <1>1, <2>1 DEF KnownInv, KnownSeen, Workers, BaseInv, TypeOK
  <2>4. ASSUME Conflict(p) PROVE Good
    <3>1. resv'[i] = Recovered(p) /\ pc[p] = "decide"
      BY <1>1, <2>1, <2>4 DEF Conflict, BaseInv, TypeOK
    <3>2. Recovered(p).worker \in Workers(p)
      BY <1>1, <1>3, <2>1, <3>1, RecoveredMet
    <3> QED
      BY <2>3, <3>1, <3>2
  <2>5. ASSUME NEW t \in Sessions, Reuse(p, t) PROVE Good
    <3>1. resv'[i] = AdoptedRecord(p, t) /\ pc[p] = "decide" /\ t \in Workers(p)
      BY <1>1, <2>1, <2>5 DEF Reuse, BaseInv, TypeOK
    <3>2. AdoptedRecord(p, t).worker = t
      BY DEF AdoptedRecord
    <3> QED
      BY <2>3, <3>1, <3>2
  <2>6. ASSUME Reserve(p) PROVE FALSE
    <3>1. resv'[i] = PendingRecord(p, pick[p])
      BY <1>1, <2>1, <2>6 DEF Reserve, BaseInv, TypeOK
    <3>2. PendingRecord(p, pick[p]).state = "pending"
      BY DEF PendingRecord
    <3> QED
      BY <3>1, <3>2 DEF HasWorker
  <2>7. ASSUME RecordAcquired(p) PROVE Good
    <3>1. resv[i] \in Reservation /\ wid[p] \in Sessions
      BY <1>1, <2>1, <2>7 DEF RecordAcquired, BaseInv, TypeOK, RecordsThere, WithWorker,
                              IsPending, Reserved
    <3>2. resv'[i] = [resv[i] EXCEPT !.state = "worker", !.worker = wid[p]]
      BY <1>1, <2>1, <2>7, <3>1 DEF RecordAcquired, BaseInv, TypeOK, Reservation
    <3>3. w = wid[p]
      BY <3>1, <3>2 DEF Reservation
    <3>4. Started(wid[p]) /\ sess[wid[p]].item = i
      BY <2>1, <2>7 DEF RecordAcquired, KnownInv, KnownStarted, WithWorker
    <3> QED
      BY <3>1, <3>3, <3>4
  <2> QED
    BY <2>1, <2>2, <2>4, <2>5, <2>6, <2>7 DEF Writes
<1> QED
  BY <1>2, <1>3

\* The worker ids that are kept stay those of started sessions.
LEMMA KnownStartedStep ==
  ASSUME KnownInv, [Next]_vars
  PROVE  KnownStarted'
<1>1. BaseInv /\ KnownStarted
  BY DEF KnownInv
<1>2. ASSUME NEW i \in Items, HasWorker(i)'
      PROVE  Started(resv[i].worker)' /\ (sess[resv[i].worker].item = i)'
  <2>1. resv'[i].worker \in Sessions /\ Started(resv'[i].worker) /\ sess[resv'[i].worker].item = i
    BY <1>2, RecordNames
  <2> QED
    BY <1>1, <2>1, BornStays DEF Started
<1>3. ASSUME NEW i \in Items, thread'[i] # Nobody
      PROVE  Started(thread[i])'
  <2>1. ASSUME thread'[i] \in Sessions, Started(thread'[i])
        PROVE  Started(thread[i])'
    BY <1>1, <2>1, BornStays DEF Started
  <2>2. CASE thread'[i] = thread[i]
    BY <1>1, <1>3, <2>1, <2>2 DEF BaseInv, TypeOK, KnownStarted
  <2>3. CASE thread'[i] # thread[i]
    <3>1. PICK p \in Procs : SaveThread(p)
      BY <2>3, ZenonT(60) DEF Next, RunnerStep, vars, ProcessStep, Progress, Start, CheckCapacity,
         AcquireGlobal, AcquireItem, Scan, VerifyListed, VerifyFound, VerifyEnded,
         VerifyUnknown, Conflict, Reuse, Refuse, Admit, Reserve, RequestSpawn, SpawnReturns,
         SpawnFails, RecordAcquired, Finish, StartCleanup, ResumeCleanup, CleanupLock,
         Terminate, ClearRecord, Abandon
    <3>2. thread'[i] = wid[p]
      BY <1>1, <2>3, <3>1 DEF SaveThread, BaseInv, TypeOK
    <3>3. wid[p] \in Sessions /\ Started(wid[p])
      BY <1>1, <3>1 DEF SaveThread, BaseInv, RecordsThere, KnownStarted, WithWorker
    <3> QED
      BY <2>1, <3>2, <3>3
  <2> QED
    BY <2>2, <2>3
<1>4. ASSUME NEW q \in Procs, pc'[q] \in WithWorker
      PROVE  Started(wid[q])'
  <2>1. ASSUME wid'[q] \in Sessions, Started(wid'[q])
        PROVE  Started(wid[q])'
    BY <1>1, <2>1, BornStays DEF Started
  <2>2. CASE pc[q] \in WithWorker /\ wid'[q] = wid[q]
    BY <1>1, <2>1, <2>2 DEF BaseInv, RecordsThere, KnownStarted
  <2>3. ASSUME NEW s \in Sessions, Reuse(q, s)
        PROVE  wid'[q] \in Sessions /\ Started(wid'[q])
    BY <1>1, <2>3 DEF Reuse, BaseInv, TypeOK, KnownInv, KnownSeen, Workers
  <2>4. ASSUME SpawnReturns(q)
        PROVE  wid'[q] \in Sessions /\ Started(wid'[q])
    BY <1>1, <2>4 DEF SpawnReturns, locals, BaseInv, RecordsThere, Started, IsActive, IsEnded
  <2>5. ASSUME NEW i \in Items, ResumeCleanup(q, i)
        PROVE  wid'[q] \in Sessions /\ Started(wid'[q])
    BY <1>1, <2>5 DEF ResumeCleanup, BaseInv, TypeOK, KnownStarted
  <2>6. ASSUME ProcessStep(q),
               \A s \in Sessions : ~Reuse(q, s), ~SpawnReturns(q),
               \A i \in Items : ~ResumeCleanup(q, i)
        PROVE  pc[q] \in WithWorker /\ wid'[q] = wid[q]
    BY <1>1, <1>4, <2>6 DEF BaseInv, TypeOK, WithWorker, ProcessStep, Progress, Start,
       CheckCapacity, AcquireGlobal, AcquireItem, Scan, VerifyListed, VerifyFound,
       VerifyEnded, VerifyUnknown, Conflict, Refuse, Admit, Reserve, RequestSpawn, SpawnFails,
       RecordAcquired, SaveThread, Finish, StartCleanup, CleanupLock, Terminate,
       ClearRecord, Abandon, Goto, EndRun, locals
  <2>7. CASE ProcessStep(q)
    BY <2>1, <2>2, <2>3, <2>4, <2>5, <2>6, <2>7
  <2>8. CASE ~ProcessStep(q)
    BY <1>1, <1>4, <2>2, <2>8, StaysOrSteps
  <2> QED
    BY <2>7, <2>8
<1>5. ASSUME NEW q \in Procs, pc'[q] \in {"wait", "record"}
      PROVE  sess'[wid'[q]] # Unborn /\ sess'[wid'[q]].item = task'[q]
  <2>1. ASSUME NEW s \in Sessions, RequestSpawn(q, s)
        PROVE  sess'[wid'[q]] # Unborn /\ sess'[wid'[q]].item = task'[q]
    <3>1. /\ wid'[q] = s /\ task' = task /\ sess'[s].item = task[q]
          /\ sess'[s].state = "requested"
      BY <1>1, <2>1 DEF RequestSpawn, BaseInv, TypeOK
    <3>2. sess'[s] \in Session
      BY <1>1, <2>1 DEF RequestSpawn, BaseInv, TypeOK, LocksMatch, RecordsThere, Routed,
         IsPending, Reserved, Reservation, Session
    <3> QED
      BY <3>1, <3>2
  <2>2. CASE pc[q] \in {"wait", "record"} /\ wid'[q] = wid[q] /\ task'[q] = task[q]
    BY <1>1, <2>2, BornStays DEF KnownStarted, BaseInv, RecordsThere, WithWorker
  <2>3. ASSUME ProcessStep(q), \A s \in Sessions : ~RequestSpawn(q, s)
        PROVE  pc[q] \in {"wait", "record"} /\ wid'[q] = wid[q] /\ task'[q] = task[q]
    BY <1>1, <1>5, <2>3 DEF BaseInv, TypeOK, ProcessStep, Progress, Start,
       CheckCapacity, AcquireGlobal, AcquireItem, Scan, VerifyListed, VerifyFound,
       VerifyEnded, VerifyUnknown, Conflict, Reuse, Refuse, Admit, Reserve, SpawnReturns,
       SpawnFails, RecordAcquired, SaveThread, Finish, StartCleanup, ResumeCleanup,
       CleanupLock, Terminate, ClearRecord, Abandon, Goto, EndRun, locals
  <2> QED
    BY <1>1, <1>5, <2>1, <2>2, <2>3, StaysOrSteps
<1> QED
  BY <1>2, <1>3, <1>4, <1>5 DEF KnownStarted

\* What a run has seen of its item stays true until it decides.
LEMMA KnownSeenStep ==
  ASSUME KnownInv, [Next]_vars
  PROVE  KnownSeen'
<1>1. BaseInv /\ KnownStarted /\ KnownSeen
  BY DEF KnownInv
<1>2. ASSUME NEW q \in Procs, pc'[q] \in {"verify", "decide"}, NEW s \in scan'[q]
      PROVE  Started(s)'
  <2>1. ASSUME s \in Sessions, Started(s) PROVE Started(s)'
    BY <1>1, <2>1, BornStays DEF Started
  <2>2. CASE pc[q] \in {"verify", "decide"} /\ scan'[q] = scan[q]
    BY <1>1, <1>2, <2>1, <2>2 DEF KnownSeen, BaseInv, TypeOK
  <2>3. CASE Scan(q)
    <3>1. scan'[q] = Visible(task[q], ReservedLane(task[q]))
      BY <1>1, <2>3 DEF Scan, BaseInv, TypeOK
    <3> QED
      BY <1>2, <2>1, <3>1 DEF Visible, IsActive, Started
  <2>4. CASE VerifyFound(q)
    <3>1. /\ scan'[q] = scan[q] \cup {resv[task[q]].worker} /\ pc[q] = "verify"
          /\ IsActive(resv[task[q]].worker) /\ HasWorker(task[q]) /\ task[q] \in Items
      BY <1>1, <2>4 DEF VerifyFound, BaseInv, TypeOK, LocksMatch
    <3>2. resv[task[q]].worker \in Sessions
      BY <1>1, <3>1 DEF BaseInv, RecordsThere
    <3> QED
      BY <1>1, <1>2, <2>1, <3>1, <3>2 DEF KnownSeen, BaseInv, TypeOK, IsActive, Started
  <2>5. ASSUME ProcessStep(q), ~Scan(q), ~VerifyFound(q)
        PROVE  pc[q] \in {"verify", "decide"} /\ scan'[q] = scan[q]
    BY <1>1, <1>2, <2>5 DEF BaseInv, TypeOK, ProcessStep, Progress, Start, CheckCapacity,
       AcquireGlobal, AcquireItem, VerifyListed, VerifyEnded, VerifyUnknown, Conflict, Reuse,
       Refuse, Admit, Reserve, RequestSpawn, SpawnReturns, SpawnFails, RecordAcquired,
       SaveThread, Finish, StartCleanup, ResumeCleanup, CleanupLock, Terminate, ClearRecord,
       Abandon, Goto, EndRun, locals
  <2> QED
    BY <1>1, <1>2, <2>2, <2>3, <2>4, <2>5, StaysOrSteps
<1>3. ASSUME NEW q \in Procs, pc'[q] = "decide", NEW i \in Items, i = task'[q], HasWorker(i)'
      PROVE  resv'[i].worker \in scan'[q]
  <2>1. CASE VerifyListed(q)
    BY <1>1, <1>3, <2>1 DEF VerifyListed, locals, HasWorker, Reserved
  <2>2. CASE VerifyFound(q)
    BY <1>1, <1>3, <2>2 DEF VerifyFound, BaseInv, TypeOK
  <2>3. ASSUME VerifyEnded(q) PROVE FALSE
    BY <1>1, <1>3, <2>3 DEF VerifyEnded, locals, BaseInv, TypeOK, HasWorker, Reserved
  <2>4. ASSUME ProcessStep(q), ~VerifyListed(q), ~VerifyFound(q), ~VerifyEnded(q) PROVE FALSE
    BY <1>1, <1>3, <2>4 DEF BaseInv, TypeOK, ProcessStep, Progress, Start, CheckCapacity,
       AcquireGlobal, AcquireItem, Scan, VerifyUnknown, Conflict, Reuse, Refuse, Admit,
       Reserve, RequestSpawn, SpawnReturns, SpawnFails, RecordAcquired, SaveThread, Finish,
       StartCleanup, ResumeCleanup, CleanupLock, Terminate, ClearRecord, Abandon, Goto, EndRun
  <2>5. CASE ~ProcessStep(q)
    <3>1. pc[q] = "decide" /\ task[q] = i /\ scan'[q] = scan[q]
      BY <1>1, <1>3, <2>5, StaysOrSteps
    <3>2. ~Writes(q)
      BY <2>5 DEF Writes, ProcessStep, Progress
    <3>3. resv'[i] = resv[i]
      BY <1>1, <3>1, <3>2, HeldReservation DEF HoldingItem
    <3> QED
      BY <1>1, <1>3, <3>1, <3>3 DEF KnownSeen, HasWorker, Reserved
  <2> QED
    BY <2>1, <2>2, <2>3, <2>4, <2>5
<1>4. ASSUME NEW q \in Procs, pc'[q] = "reserve", NEW i \in Items, i = task'[q]
      PROVE  resv'[i] = NoResv
  <2>1. ASSUME NEW lane \in Lanes, Admit(q, lane) PROVE resv'[i] = NoResv
    <3>1. /\ pc[q] = "decide" /\ resv' = resv /\ task[q] = i
          /\ Workers(q) = {} /\ ~IsPending(i)
      BY <1>4, <2>1 DEF Admit, MayAdmit
    <3>2. ~HasWorker(i)
      BY <1>1, <3>1 DEF KnownSeen, KnownStarted, Workers
    <3>3. Reserved(i) => resv[i].state \in {"pending", "worker"}
      BY <1>1 DEF BaseInv, TypeOK, Reserved, Reservation
    <3> QED
      BY <3>1, <3>2, <3>3 DEF Reserved, HasWorker, IsPending
  <2>2. ASSUME ProcessStep(q), \A lane \in Lanes : ~Admit(q, lane) PROVE FALSE
    BY <1>1, <1>4, <2>2 DEF BaseInv, TypeOK, ProcessStep, Progress, Start, CheckCapacity,
       AcquireGlobal, AcquireItem, Scan, VerifyListed, VerifyFound, VerifyEnded,
       VerifyUnknown, Conflict, Reuse, Refuse, Reserve, RequestSpawn, SpawnReturns,
       SpawnFails, RecordAcquired, SaveThread, Finish, StartCleanup, ResumeCleanup,
       CleanupLock, Terminate, ClearRecord, Abandon, Goto, EndRun
  <2>3. CASE ~ProcessStep(q)
    <3>1. pc[q] = "reserve" /\ task[q] = i
      BY <1>1, <1>4, <2>3, StaysOrSteps
    <3>2. ~Writes(q)
      BY <2>3 DEF Writes, ProcessStep, Progress
    <3>3. resv'[i] = resv[i]
      BY <1>1, <3>1, <3>2, HeldReservation DEF HoldingItem
    <3> QED
      BY <1>1, <3>1, <3>3 DEF KnownSeen, Reserved
  <2> QED
    BY <2>1, <2>2, <2>3
<1>5. \A q \in Procs : pc'[q] \in {"decide", "reserve"} => task'[q] \in Items
  BY <1>1, LocksStep DEF LocksMatch
<1>6. \A q \in Procs, i \in Items :
        /\ pc'[q] = "decide" /\ i = task'[q] /\ HasWorker(i)' => resv'[i].worker \in scan'[q]
        /\ pc'[q] = "reserve" /\ i = task'[q] => resv'[i] = NoResv
  BY <1>3, <1>4
<1>7. ASSUME NEW q \in Procs
      PROVE  /\ pc'[q] = "decide" /\ HasWorker(task[q])' => resv'[task'[q]].worker \in scan'[q]
             /\ pc'[q] = "reserve" => ~Reserved(task[q])'
  BY <1>5, <1>6 DEF HasWorker, Reserved
<1> QED
  BY <1>2, <1>7 DEF KnownSeen

\* Outside shadow mode, a record is cleared of a worker that has ended.
LEMMA KnownEndedStep ==
  ASSUME KnownInv, [Next]_vars
  PROVE  KnownEnded'
<1> SUFFICES ASSUME NEW q \in Procs \ Shadow, pc'[q] = "c_clear" PROVE IsEnded(wid[q])'
  BY DEF KnownEnded
<1>1. BaseInv
  BY DEF KnownInv
<1>2. CASE Terminate(q)
  <2>1. wid[q] \in Sessions /\ wid' = wid /\ Started(wid[q]) /\ sess[wid[q]] \in Session
    BY <1>1, <1>2 DEF Terminate, locals, KnownInv, KnownStarted, BaseInv, RecordsThere,
       WithWorker, Started, TypeOK
  <2>2. CASE IsActive(wid[q])
    <3>1. sess' = [sess EXCEPT ![wid[q]].state = "ended"]
      BY <1>2, <2>2 DEF Terminate
    <3>2. sess'[wid[q]] = [sess[wid[q]] EXCEPT !.state = "ended"]
      BY <1>1, <2>1, <3>1 DEF BaseInv, TypeOK
    <3>3. sess'[wid[q]] \in Session /\ sess'[wid[q]].state = "ended"
      BY <2>1, <3>2 DEF Session
    <3> QED
      BY <2>1, <3>3 DEF IsEnded
  <2>3. CASE ~IsActive(wid[q])
    BY <1>2, <2>1, <2>3 DEF Terminate, Started, IsActive, IsEnded
  <2> QED
    BY <2>2, <2>3
<1>3. CASE ~Terminate(q)
  <2>1. ASSUME ProcessStep(q) PROVE FALSE
    BY <1>1, <1>3, <2>1 DEF BaseInv, TypeOK, ProcessStep, Progress, Start, CheckCapacity,
       AcquireGlobal, AcquireItem, Scan, VerifyListed, VerifyFound, VerifyEnded,
       VerifyUnknown, Conflict, Reuse, Refuse, Admit, Reserve, RequestSpawn, SpawnReturns,
       SpawnFails, RecordAcquired, SaveThread, Finish, StartCleanup, ResumeCleanup,
       CleanupLock, ClearRecord, Abandon, Goto, EndRun
  <2>2. pc[q] = "c_clear" /\ wid'[q] = wid[q]
    BY <1>1, <2>1, StaysOrSteps
  <2>3. wid[q] \in Sessions /\ IsEnded(wid[q]) /\ sess[wid[q]] # Unborn
    BY <1>1, <2>2 DEF KnownInv, KnownEnded, BaseInv, RecordsThere, WithWorker, IsEnded
  <2>4. \A s : s = wid[q] => IsEnded(s)'
    BY <1>1, <2>3, BornStays
  <2> QED
    BY <2>2, <2>4
<1> QED
  BY <1>2, <1>3

\* A process in shadow mode stays away from the runner.
LEMMA ShadowIdleStep ==
  ASSUME BaseInv, ShadowIdle, [Next]_vars
  PROVE  ShadowIdle'
<1> SUFFICES ASSUME NEW q \in Shadow, pc'[q] \in {"reserve", "spawn"} PROVE FALSE
  BY DEF ShadowIdle
<1>1. q \in Procs
  BY ConstantsTyped
<1>2. pc[q] \notin {"reserve", "spawn"}
  BY DEF ShadowIdle
<1>3. ProcessStep(q)
  BY <1>1, <1>2, StaysOrSteps
<1> QED
  BY <1>1, <1>2, <1>3 DEF BaseInv, TypeOK, ProcessStep, Progress, Start, CheckCapacity,
     AcquireGlobal, AcquireItem, Scan, VerifyListed, VerifyFound, VerifyEnded,
     VerifyUnknown, Conflict, Reuse, Refuse, Admit, Reserve, RequestSpawn, SpawnReturns,
     SpawnFails, RecordAcquired, SaveThread, Finish, StartCleanup, ResumeCleanup,
     CleanupLock, Terminate, ClearRecord, Abandon, Goto, EndRun

\* KnownInv is an inductive invariant of the protocol, with foreign workers and with
\* processes in shadow mode too.
THEOREM KnownInvariance == Spec => []KnownInv
<1>1. Init => KnownInv
  <2> SUFFICES ASSUME Init PROVE KnownInv
    OBVIOUS
  <2>1. BaseInv
    BY DEF Init, BaseInv, TypeOK, LocksMatch, RecordsThere, PCs, Allocating, HoldingItem,
       Routed, WithWorker, HasWorker, IsPending, Reserved
  <2>2. /\ \A i \in Items : ~Reserved(i) /\ thread[i] = Nobody
        /\ \A p \in Procs : pc[p] = "idle"
        /\ \A p \in Shadow : pc[p] = "idle"
    BY ConstantsTyped DEF Init, Reserved
  <2> QED
    BY <2>1, <2>2 DEF KnownInv, KnownStarted, KnownSeen, KnownEnded, ShadowIdle, HasWorker,
       WithWorker
<1>2. KnownInv /\ [Next]_vars => KnownInv'
  <2> SUFFICES ASSUME KnownInv, [Next]_vars PROVE KnownInv'
    OBVIOUS
  <2>1. BaseInv'
    BY TypeStep, LocksStep, RecordsStep DEF KnownInv, BaseInv
  <2> QED
    BY <2>1, KnownStartedStep, KnownSeenStep, KnownEndedStep, ShadowIdleStep DEF KnownInv
<1> QED
  BY <1>1, <1>2, PTL DEF Spec

\* The record of a running worker goes on naming it, whatever other runs have listed,
\* whoever else has started workers: only its own cleanup in shadow mode drops it.
THEOREM KnownWorkerSafe == Spec => KnownWorkerKept
<1>1. ASSUME KnownInv, [Next]_vars
      PROVE  \A i \in Items, s \in Sessions :
               HasWorker(i) /\ resv[i].worker = s /\ IsLive(s) /\ IsLive(s)'
               => \/ HasWorker(i)' /\ resv'[i].worker = s
                  \/ \E p \in Shadow : pc[p] = "c_clear" /\ wid[p] = s
  <2> SUFFICES ASSUME NEW i \in Items, NEW s \in Sessions, HasWorker(i), resv[i].worker = s,
                      IsLive(s), resv'[i] # resv[i]
               PROVE  \/ HasWorker(i)' /\ resv'[i].worker = s
                      \/ \E p \in Shadow : pc[p] = "c_clear" /\ wid[p] = s
    BY DEF HasWorker, Reserved
  <2>1. BaseInv /\ KnownStarted /\ KnownSeen
    BY <1>1 DEF KnownInv
  <2>2. PICK p \in Procs : Writes(p) /\ task[p] = i /\ itemLock[i] = p
    BY <1>1, <2>1, OnlyHolderWrites
  <2>3. ~IsPending(i) /\ Reserved(i)
    BY DEF HasWorker, IsPending
  <2>4. ~VerifyEnded(p) /\ ~Reserve(p) /\ ~RecordAcquired(p)
    BY <2>1, <2>2, <2>3 DEF VerifyEnded, IsEnded, IsLive, Reserve, KnownSeen, RecordAcquired,
       BaseInv, RecordsThere
  <2>5. ~Conflict(p)
    <3>1. Conflict(p) => resv'[i] = Recovered(p) /\ pc[p] = "decide"
      BY <2>1, <2>2 DEF Conflict, BaseInv, TypeOK
    <3> QED
      BY <2>1, <2>2, <2>3, <3>1, RecoveredMet
  <2>6. ASSUME NEW t \in Sessions, Reuse(p, t) PROVE HasWorker(i)' /\ resv'[i].worker = s
    <3>1. /\ resv'[i] = AdoptedRecord(p, t) /\ pc[p] = "decide" /\ Workers(p) = {t}
      BY <2>1, <2>2, <2>6 DEF Reuse, BaseInv, TypeOK
    <3>2. s \in Workers(p)
      BY <2>1, <2>2, <3>1 DEF KnownSeen, KnownStarted, Workers
    <3>3. AdoptedRecord(p, t).worker = s /\ AdoptedRecord(p, t).state = "worker"
      BY <3>1, <3>2 DEF AdoptedRecord
    <3>4. AdoptedRecord(p, t) # NoResv
      BY <2>1, <3>1, AdoptedTyped DEF Workers
    <3> QED
      BY <3>1, <3>3, <3>4 DEF HasWorker, Reserved
  <2>7. CASE ClearRecord(p)
    <3>1. pc[p] = "c_clear" /\ wid[p] = s
      BY <2>2, <2>7 DEF ClearRecord
    <3>2. p \in Shadow
      BY <1>1, <3>1 DEF KnownInv, KnownEnded, IsEnded, IsLive
    <3> QED
      BY <3>1, <3>2
  <2> QED
    BY <2>2, <2>4, <2>5, <2>6, <2>7 DEF Writes
<1> QED
  BY KnownInvariance, <1>1, PTL DEF Spec, KnownWorkerKept

\* Shadow mode observes: its runs neither start a worker nor end one.
THEOREM ShadowSafe == Spec => ShadowLeavesRunnerAlone
<1>1. ASSUME KnownInv, [Next]_vars
      PROVE  \A p \in Shadow : pc'[p] # pc[p] => sess' = sess
  <2> SUFFICES ASSUME NEW p \in Shadow, pc'[p] # pc[p] PROVE sess' = sess
    OBVIOUS
  <2>1. p \in Procs /\ BaseInv /\ pc[p] # "spawn"
    BY <1>1, ConstantsTyped DEF KnownInv, ShadowIdle
  <2>2. ProcessStep(p)
    BY <1>1, <2>1, StaysOrSteps
  <2> QED
    BY <2>1, <2>2 DEF ProcessStep, Progress, Start, CheckCapacity, AcquireGlobal,
       AcquireItem, Scan, VerifyListed, VerifyFound, VerifyEnded, VerifyUnknown, Conflict,
       Reuse, Refuse, Admit, Reserve, RequestSpawn, SpawnReturns, SpawnFails, RecordAcquired,
       SaveThread, Finish, StartCleanup, ResumeCleanup, CleanupLock, Terminate, ClearRecord,
       Abandon
<1> QED
  BY KnownInvariance, <1>1, PTL DEF Spec, ShadowLeavesRunnerAlone
=============================================================================
