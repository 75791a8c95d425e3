------------------------- MODULE AcquisitionCapacity -------------------------
(***************************************************************************)
(* The limits of Acquisition hold, and the protocol implements WorkerPool, *)
(* for every value of the constants under which the supervisor starts      *)
(* every worker.                                                           *)
(***************************************************************************)
EXTENDS AcquisitionProofs, FiniteSetTheorems

\* Sets of items and of sessions have a number of members.
LEMMA ItemsCount ==
  ASSUME NEW A \in SUBSET Items
  PROVE  IsFiniteSet(A) /\ Cardinality(A) \in Nat
BY ItemsFinite, FS_Subset, FS_CardinalityType

LEMMA SessionsCount ==
  ASSUME NEW A \in SUBSET Sessions
  PROVE  IsFiniteSet(A) /\ Cardinality(A) \in Nat
BY SessionsFinite, FS_Subset, FS_CardinalityType

\* Fewer items, smaller number.
LEMMA CountShrinks ==
  ASSUME NEW B \in SUBSET Items, NEW A \in SUBSET B
  PROVE  Cardinality(A) <= Cardinality(B)
BY ItemsCount, FS_Subset

\* One more item adds at most one.
LEMMA CountGrows ==
  ASSUME NEW B \in SUBSET Items, NEW i \in Items, NEW A \in SUBSET (B \cup {i})
  PROVE  Cardinality(A) <= Cardinality(B) + 1
<1>1. IsFiniteSet(B) /\ Cardinality(B) \in Nat
  BY ItemsCount
<1>2. /\ B \cup {i} \in SUBSET Items
      /\ Cardinality(B \cup {i}) = IF i \in B THEN Cardinality(B) ELSE Cardinality(B) + 1
  BY <1>1, FS_AddElement
<1>3. Cardinality(B \cup {i}) <= Cardinality(B) + 1
  <2>1. CASE i \in B
    BY <2>1, <1>1, <1>2
  <2>2. CASE i \notin B
    BY <2>2, <1>1, <1>2
  <2> QED
    BY <2>1, <2>2
<1>4. Cardinality(A) <= Cardinality(B \cup {i})
  BY <1>2, CountShrinks
<1>5. A \in SUBSET Items
  BY <1>2
<1>6. Cardinality(A) \in Nat /\ Cardinality(B \cup {i}) \in Nat
  BY <1>2, <1>5, ItemsCount
<1> QED
  BY <1>1, <1>3, <1>4, <1>6

\* Sessions that work on different items of a set are at most as many as the set has.
LEMMA CountByItem ==
  ASSUME NEW S \in SUBSET Sessions, NEW R \in SUBSET Items,
         \A s \in S : sess[s].item \in R,
         \A s, t \in S : sess[s].item = sess[t].item => s = t
  PROVE  Cardinality(S) <= Cardinality(R)
<1> DEFINE f == [s \in S |-> sess[s].item]
<1>1. f \in [S -> R]
  OBVIOUS
<1>2. /\ IsFiniteSet(S) /\ Cardinality(S) \in Nat
      /\ IsFiniteSet(R) /\ Cardinality(R) \in Nat
  BY ItemsCount, SessionsCount
<1>3. \A s, t \in S : f[s] = f[t] => s = t
  OBVIOUS
<1> HIDE DEF f
<1>4. ~(Cardinality(R) < Cardinality(S))
  BY <1>1, <1>2, <1>3, FS_PigeonHole
<1> QED
  BY <1>2, <1>4

\* And the items of a set that has a session of its own for each are at most as many as
\* the sessions.
LEMMA CountBySession ==
  ASSUME NEW S \in SUBSET Sessions, NEW R \in SUBSET Items,
         \A i \in R : \E s \in S : sess[s].item = i
  PROVE  Cardinality(R) <= Cardinality(S)
<1> DEFINE f == [i \in R |-> CHOOSE s \in S : sess[s].item = i]
<1>1. f \in [R -> S] /\ \A i \in R : sess[f[i]].item = i
  OBVIOUS
<1>2. /\ IsFiniteSet(S) /\ Cardinality(S) \in Nat
      /\ IsFiniteSet(R) /\ Cardinality(R) \in Nat
  BY ItemsCount, SessionsCount
<1> HIDE DEF f
<1>3. \A i, j \in R : f[i] = f[j] => i = j
  BY <1>1
<1>4. ~(Cardinality(S) < Cardinality(R))
  BY <1>1, <1>2, <1>3, FS_PigeonHole
<1> QED
  BY <1>2, <1>4

-----------------------------------------------------------------------------
(* How the records change.                                                 *)

\* A record that is there before and after a step is for the same worker.
TermsKept(i) ==
  /\ Reserved(i)
  /\ resv'[i].lane = resv[i].lane
  /\ resv'[i].harness = resv[i].harness
  /\ resv'[i].model = resv[i].model
  /\ resv'[i].mcap = resv[i].mcap
  /\ resv'[i].key = resv[i].key
  /\ resv'[i].kcap = resv[i].kcap

\* A record that a process makes for its item.
Made(p, i) ==
  /\ Reserve(p) /\ task[p] = i
  /\ ~Reserved(i)
  /\ resv'[i] = PendingRecord(p, pick[p])

\* Where a run may reserve, it leaves the terms of a record alone.
LEMMA RecordStep ==
  ASSUME IInv, LimitsRecorded, Supervised, [Next]_vars, NEW i \in Items, Reserved(i)'
  PROVE  TermsKept(i) \/ \E p \in Procs : Made(p, i)
<1>1. BaseInv
  BY DEF IInv
<1>2. CASE resv'[i] = resv[i]
  BY <1>2 DEF TermsKept, Reserved
<1>3. CASE resv'[i] # resv[i]
  <2>1. PICK p \in Procs : Writes(p) /\ task[p] = i /\ itemLock[i] = p
    BY <1>1, <1>3, OnlyHolderWrites
  <2>2. ~VerifyEnded(p) /\ ~ClearRecord(p)
    BY <1>1, <1>3, <2>1 DEF VerifyEnded, ClearRecord, Reserved, BaseInv, TypeOK
  <2>3. CASE Conflict(p)
    <3>1. resv'[i] = Recovered(p) /\ pc[p] = "decide"
      BY <1>1, <2>1, <2>3 DEF Conflict, BaseInv, TypeOK
    <3>2. IsPending(i) /\ resv[i] \in Reservation
      BY <1>1, <1>3, <2>1, <3>1, RecoveredKeeps DEF IsPending, Reserved, BaseInv, TypeOK
    <3>3. \A w : /\ [resv[i] EXCEPT !.state = "worker", !.worker = w].lane = resv[i].lane
                 /\ [resv[i] EXCEPT !.state = "worker", !.worker = w].harness = resv[i].harness
                 /\ [resv[i] EXCEPT !.state = "worker", !.worker = w].model = resv[i].model
                 /\ [resv[i] EXCEPT !.state = "worker", !.worker = w].mcap = resv[i].mcap
                 /\ [resv[i] EXCEPT !.state = "worker", !.worker = w].key = resv[i].key
                 /\ [resv[i] EXCEPT !.state = "worker", !.worker = w].kcap = resv[i].kcap
      BY <3>2 DEF Reservation
    <3>4. PICK w : Recovered(p) = [resv[i] EXCEPT !.state = "worker", !.worker = w]
      BY <1>3, <2>1, <3>1 DEF Recovered
    <3> QED
      BY <3>1, <3>2, <3>3, <3>4 DEF TermsKept, IsPending
  <2>4. ASSUME NEW t \in Sessions, Reuse(p, t)
        PROVE  TermsKept(i)
    <3>1. resv'[i] = AdoptedRecord(p, t) /\ pc[p] = "decide" /\ t \in Workers(p)
      BY <1>1, <2>1, <2>4 DEF Reuse, BaseInv, TypeOK
    <3>2. Accounted(t, i) /\ MatchesPending(t, i)
      BY <2>1, <3>1, MetWorker
    <3>3. Reserved(i)
      BY <3>2 DEF Accounted, HasWorker, IsPending
    <3>4. HarnessOfSession(t) = HarnessOf[route[p]]
      BY <2>4 DEF Reuse
    <3>5. sess[t].lane = resv[i].lane /\ HarnessOfSession(t) = resv[i].harness
      BY <3>2 DEF MatchesPending
    <3>6. /\ AdoptedRecord(p, t).lane = resv[i].lane
          /\ AdoptedRecord(p, t).harness = resv[i].harness
          /\ AdoptedRecord(p, t).model = resv[i].model
          /\ AdoptedRecord(p, t).mcap = resv[i].mcap
      BY <2>1, <3>3, <3>5 DEF AdoptedRecord
    <3>7. CASE Pool[ProjectOf[i]][resv[i].harness] = {}
      <4>1. sess[t].lane \notin Pool[ProjectOf[i]][HarnessOf[route[p]]]
        BY <3>4, <3>5, <3>7
      <4>2. resv[i].key = NoKey /\ resv[i].kcap = 0
        BY <3>3, <3>7 DEF LimitsRecorded
      <4>3. AdoptedRecord(p, t).key = NoKey /\ AdoptedRecord(p, t).kcap = 0
        BY <2>1, <4>1, <4>2 DEF AdoptedRecord
      <4> QED
        BY <3>1, <3>3, <3>6, <4>2, <4>3 DEF TermsKept
    <3>8. CASE Pool[ProjectOf[i]][resv[i].harness] # {}
      <4>1. /\ resv[i].key = CredentialKey(resv[i].harness, resv[i].lane)
            /\ resv[i].kcap = LaneLimit[ProjectOf[i]][resv[i].lane]
        BY <3>3, <3>8 DEF LimitsRecorded
      <4>2. resv[i] \in Reservation
        BY <1>1, <3>3 DEF BaseInv, TypeOK, Reserved
      <4>3. resv[i].harness \in Harnesses /\ resv[i].lane \in Lanes
        BY <4>2 DEF Reservation
      <4>4. resv[i].key # NoKey
        BY <4>1, <4>3, ConstantsTyped, ConstantsDistinct DEF CredentialKey, Keys
      <4>5. resv[i].kcap # 0
        BY <4>1, <4>3, ConstantsTyped
      <4>6. /\ AdoptedRecord(p, t).key = resv[i].key
            /\ AdoptedRecord(p, t).kcap = resv[i].kcap
        BY <2>1, <3>3, <4>4, <4>5 DEF AdoptedRecord
      <4> QED
        BY <3>1, <3>3, <3>6, <4>6 DEF TermsKept
    <3> QED
      BY <3>7, <3>8
  <2>5. ASSUME Reserve(p) PROVE Made(p, i)
    <3>1. resv'[i] = PendingRecord(p, pick[p]) /\ ~Reserved(i)
      BY <1>1, <2>1, <2>5 DEF Reserve, BaseInv, TypeOK, IInv, SpawnSound
    <3> QED
      BY <2>1, <2>5, <3>1 DEF Made
  <2>6. CASE RecordAcquired(p)
    <3>1. resv[i] \in Reservation /\ IsPending(i)
      BY <1>1, <2>1, <2>6 DEF RecordAcquired, BaseInv, TypeOK, RecordsThere, IsPending,
         Reserved
    <3>2. resv'[i] = [resv[i] EXCEPT !.state = "worker", !.worker = wid[p]]
      BY <1>1, <2>1, <2>6, <3>1 DEF RecordAcquired, BaseInv, TypeOK, Reservation
    <3> QED
      BY <3>1, <3>2 DEF TermsKept, IsPending, Reservation
  <2> QED
    BY <2>1, <2>2, <2>3, <2>4, <2>5, <2>6 DEF Writes
<1> QED
  BY <1>2, <1>3

\* One reservation is made at a time, and no other record changes with it.
LEMMA OneMade ==
  ASSUME BaseInv, NEW p \in Procs, Reserve(p)
  PROVE  /\ task[p] \in Items
         /\ resv'[task[p]] = PendingRecord(p, pick[p])
         /\ \A i \in Items \ {task[p]} : resv'[i] = resv[i]
         /\ \A q \in Procs : Reserve(q) => q = p
<1>1. task[p] \in Items
  BY DEF Reserve, BaseInv, LocksMatch
<1>2. /\ resv'[task[p]] = PendingRecord(p, pick[p])
      /\ \A i \in Items \ {task[p]} : resv'[i] = resv[i]
  BY <1>1 DEF Reserve, BaseInv, TypeOK
<1>3. \A q \in Procs : Reserve(q) => globalLock = q
  BY DEF Reserve, BaseInv, LocksMatch, Allocating
<1> QED
  BY <1>1, <1>2, <1>3

\* What the records are after a step in which none is made: the same or fewer.
LEMMA NoneMade ==
  ASSUME IInv, LimitsRecorded, Supervised, [Next]_vars, \A p \in Procs : ~Reserve(p)
  PROVE  \A i \in Items : Reserved(i)' => TermsKept(i)
BY RecordStep DEF Made

\* And in one that makes a record.
LEMMA SomeMade ==
  ASSUME IInv, LimitsRecorded, Supervised, [Next]_vars, NEW p \in Procs, Reserve(p)
  PROVE  /\ \A i \in Items \ {task[p]} : Reserved(i)' => TermsKept(i)
         /\ Made(p, task[p])
<1>1. BaseInv
  BY DEF IInv
<1>2. \A i \in Items \ {task[p]} : resv'[i] = resv[i]
  BY <1>1, OneMade
<1>3. ASSUME NEW i \in Items \ {task[p]}, Reserved(i)' PROVE TermsKept(i)
  BY <1>2, <1>3 DEF TermsKept, Reserved
<1>4. ~Reserved(task[p])
  BY DEF Reserve, IInv, SpawnSound
<1> QED
  BY <1>1, <1>3, <1>4, OneMade DEF Made

\* The record a run makes.
LEMMA MadeTerms ==
  ASSUME BaseInv, NEW p \in Procs, Reserve(p)
  PROVE  LET i == task[p]
             h == HarnessOf[route[p]]
         IN /\ i \in Items /\ ProjectOf[i] \in Projects
            /\ route[p] \in Models /\ h \in Harnesses /\ pick[p] \in Lanes
            /\ resv'[i] # NoResv
            /\ resv'[i].harness = h
            /\ resv'[i].model = route[p]
            /\ resv'[i].lane = pick[p]
            /\ resv'[i].mcap = ModelLimit[ProjectOf[i]][route[p]]
            /\ Pool[ProjectOf[i]][h] = {} => resv'[i].key = NoKey /\ resv'[i].kcap = 0
            /\ Pool[ProjectOf[i]][h] # {} =>
                 /\ resv'[i].key = CredentialKey(h, pick[p])
                 /\ resv'[i].kcap = LaneLimit[ProjectOf[i]][pick[p]]
<1>1. pc[p] = "reserve" /\ task[p] \in Items
  BY OneMade DEF Reserve
<1>2. route[p] \in Models /\ pick[p] \in Lanes
  BY <1>1 DEF BaseInv, LocksMatch, RecordsThere, Routed
<1>3. ProjectOf[task[p]] \in Projects /\ HarnessOf[route[p]] \in Harnesses
  BY <1>1, <1>2, ConstantsTyped
<1>4. resv'[task[p]] = PendingRecord(p, pick[p])
  BY OneMade
<1>5. PendingRecord(p, pick[p]) # NoResv
  BY <1>1, <1>2, PendingTyped, ConstantsDistinct
<1> DEFINE P == ProjectOf[task[p]]
           h == HarnessOf[route[p]]
           r == PendingRecord(p, pick[p])
<1>6. /\ r.harness = h /\ r.model = route[p] /\ r.lane = pick[p]
      /\ r.mcap = ModelLimit[P][route[p]]
      /\ Pool[P][h] = {} => r.key = NoKey /\ r.kcap = 0
      /\ Pool[P][h] # {} =>
           r.key = CredentialKey(h, pick[p]) /\ r.kcap = LaneLimit[P][pick[p]]
  BY DEF PendingRecord
<1> HIDE DEF r
<1> QED
  BY <1>1, <1>2, <1>3, <1>4, <1>5, <1>6 DEF r

\* The recorded limits stay the configured ones.
LEMMA LimitsStep ==
  ASSUME IInv, LimitsRecorded, Supervised, [Next]_vars
  PROVE  LimitsRecorded'
<1> DEFINE Limits(i, r) ==
      /\ r.mcap = ModelLimit[ProjectOf[i]][r.model]
      /\ IF Pool[ProjectOf[i]][r.harness] = {}
           THEN r.key = NoKey /\ r.kcap = 0
           ELSE /\ r.key = CredentialKey(r.harness, r.lane)
                /\ r.kcap = LaneLimit[ProjectOf[i]][r.lane]
<1>1. BaseInv
  BY DEF IInv
<1>2. \A i \in Items : Reserved(i) => Limits(i, resv[i])
  BY DEF LimitsRecorded
<1>3. ASSUME NEW i \in Items, Reserved(i)' PROVE Limits(i, resv'[i])
  <2>1. CASE TermsKept(i)
    BY <1>2, <2>1 DEF TermsKept
  <2>2. ASSUME NEW p \in Procs, Made(p, i) PROVE Limits(i, resv'[i])
    BY <1>1, <2>2, MadeTerms DEF Made
  <2> QED
    BY <1>3, <2>1, <2>2, RecordStep
<1> QED
  BY <1>3 DEF LimitsRecorded

\* A worker in play has a record, which is for its model on its lane.
LEMMA LiveReserved ==
  ASSUME IInv, Supervised, NEW s \in Sessions, IsLive(s)
  PROVE  /\ sess[s] \in Session
         /\ sess[s].item \in Items
         /\ Reserved(sess[s].item)
         /\ resv[sess[s].item] \in Reservation
         /\ Accounted(s, sess[s].item)
         /\ resv[sess[s].item].lane = sess[s].lane
         /\ resv[sess[s].item].harness = HarnessOfSession(s)
<1>1. sess[s] \in Session /\ sess[s].item \in Items
  BY DEF IsLive, IInv, BaseInv, TypeOK, Session
<1>2. Accounted(s, sess[s].item)
  BY DEF IInv, EveryWorkerReserved, Supervised, Accounted
<1>3. MatchesPending(s, sess[s].item) /\ Reserved(sess[s].item)
  BY <1>1, <1>2 DEF Accounted, IInv, WorkersStarted, HasWorker, IsPending
<1> QED
  BY <1>1, <1>2, <1>3 DEF MatchesPending, Reserved, IInv, BaseInv, TypeOK

\* The record of a worker in play stays for its model.
LEMMA ModelsStep ==
  ASSUME IInv, LimitsRecorded, ModelsMatch, Supervised, [Next]_vars
  PROVE  ModelsMatch'
<1> SUFFICES ASSUME NEW s \in Sessions, IsLive(s)'
             PROVE  resv'[sess'[s].item].model = sess'[s].model
  BY DEF ModelsMatch
<1>1. BaseInv
  BY DEF IInv
<1>2. CASE IsLive(s)
  <2>1. PICK i \in Items : i = sess[s].item /\ Reserved(i) /\ resv[i].model = sess[s].model
    BY <1>2, LiveReserved DEF ModelsMatch
  <2>2. sess'[s].item = i /\ sess'[s].model = resv[i].model
    BY <1>1, <1>2, <2>1, BornStays DEF IsLive
  <2>3. Accounted(s, i)'
    BY <1>2, <2>1, AccountedKept
  <2>4. Reserved(i)'
    BY <2>3 DEF Accounted, HasWorker, IsPending
  <2>5. TermsKept(i)
    BY <2>1, <2>4, RecordStep DEF Made
  <2> QED
    BY <2>2, <2>5 DEF TermsKept
<1>3. ASSUME NEW p \in Procs, RequestSpawn(p, s)
      PROVE  resv'[sess'[s].item].model = sess'[s].model
  <2>1. sess'[s].item = task[p] /\ resv' = resv
    BY <1>3, NewRequest
  <2>2. sess'[s].model = route[p]
    BY <1>1, <1>3 DEF RequestSpawn, BaseInv, TypeOK
  <2>3. resv[task[p]].model = route[p]
    BY <1>3 DEF RequestSpawn, IInv, SpawnSound
  <2> QED
    BY <2>1, <2>2, <2>3
<1> QED
  BY <1>2, <1>3, LiveBefore

-----------------------------------------------------------------------------
(* The records fit the limits.                                             *)

\* Records of any kind are a set of items.
LEMMA RecordSets ==
  /\ \A P, h : HarnessRecords(P, h) \in SUBSET Items /\ HarnessRecords(P, h)' \in SUBSET Items
  /\ \A m : ModelRecords(m) \in SUBSET Items /\ ModelRecords(m)' \in SUBSET Items
  /\ \A key : KeyRecords(key) \in SUBSET Items /\ KeyRecords(key)' \in SUBSET Items
  /\ \A h, lane : /\ CredentialRecords(h, lane) \in SUBSET Items
                  /\ CredentialRecords(h, lane)' \in SUBSET Items
BY DEF HarnessRecords, ModelRecords, KeyRecords, CredentialRecords

\* Where no record is made, there are no more of any kind.
LEMMA FewerRecords ==
  ASSUME IInv, LimitsRecorded, Supervised, [Next]_vars, \A p \in Procs : ~Reserve(p)
  PROVE  /\ \A P, h : HarnessRecords(P, h)' \subseteq HarnessRecords(P, h)
         /\ \A m : ModelRecords(m)' \subseteq ModelRecords(m)
         /\ \A key : KeyRecords(key)' \subseteq KeyRecords(key)
         /\ \A h, lane : CredentialRecords(h, lane)' \subseteq CredentialRecords(h, lane)
<1>1. \A i \in Items : Reserved(i)' => TermsKept(i)
  BY NoneMade
<1> QED
  BY <1>1 DEF TermsKept, HarnessRecords, ModelRecords, KeyRecords, CredentialRecords

\* Where a run makes one, there is at most that one more, and only of its own kind.
LEMMA OneMoreRecord ==
  ASSUME IInv, LimitsRecorded, Supervised, [Next]_vars, NEW p \in Procs, Reserve(p)
  PROVE  LET i == task[p]
         IN /\ \A P, h :
                 /\ HarnessRecords(P, h)' \subseteq HarnessRecords(P, h) \cup {i}
                 /\ ~(P = ProjectOf[i] /\ h = HarnessOf[route[p]])
                      => HarnessRecords(P, h)' \subseteq HarnessRecords(P, h)
            /\ \A m :
                 /\ ModelRecords(m)' \subseteq ModelRecords(m) \cup {i}
                 /\ m # route[p] => ModelRecords(m)' \subseteq ModelRecords(m)
            /\ \A key :
                 /\ KeyRecords(key)' \subseteq KeyRecords(key) \cup {i}
                 /\ key # resv'[i].key => KeyRecords(key)' \subseteq KeyRecords(key)
            /\ \A h, lane :
                 CredentialRecords(h, lane)' \subseteq CredentialRecords(h, lane) \cup {i}
<1>1. \A j \in Items \ {task[p]} : Reserved(j)' => TermsKept(j)
  BY SomeMade
<1>2. resv'[task[p]].harness = HarnessOf[route[p]] /\ resv'[task[p]].model = route[p]
  BY MadeTerms DEF IInv
<1>3. \A P, h :
        /\ HarnessRecords(P, h)' \subseteq HarnessRecords(P, h) \cup {task[p]}
        /\ ~(P = ProjectOf[task[p]] /\ h = HarnessOf[route[p]])
             => HarnessRecords(P, h)' \subseteq HarnessRecords(P, h)
  BY <1>1, <1>2 DEF TermsKept, HarnessRecords
<1>4. \A m : /\ ModelRecords(m)' \subseteq ModelRecords(m) \cup {task[p]}
             /\ m # route[p] => ModelRecords(m)' \subseteq ModelRecords(m)
  BY <1>1, <1>2 DEF TermsKept, ModelRecords
<1>5. \A key : /\ KeyRecords(key)' \subseteq KeyRecords(key) \cup {task[p]}
               /\ key # resv'[task[p]].key => KeyRecords(key)' \subseteq KeyRecords(key)
  BY <1>1 DEF TermsKept, KeyRecords
<1>6. \A h, lane :
        CredentialRecords(h, lane)' \subseteq CredentialRecords(h, lane) \cup {task[p]}
  BY <1>1 DEF TermsKept, CredentialRecords
<1> QED
  BY <1>3, <1>4, <1>5, <1>6

\* One more than fewer than a limit is within it.
LEMMA WithinLimit ==
  ASSUME NEW A \in SUBSET Items, NEW i \in Items, NEW B \in SUBSET (A \cup {i}),
         NEW limit \in Nat, Cardinality(A) < limit
  PROVE  Cardinality(B) <= limit
<1>1. Cardinality(A) \in Nat /\ Cardinality(B) \in Nat
  <2>1. B \in SUBSET Items
    OBVIOUS
  <2> QED
    BY <2>1, ItemsCount
<1>2. Cardinality(B) <= Cardinality(A) + 1
  BY CountGrows
<1> QED
  BY <1>1, <1>2

\* Fewer than within a limit is within it.
LEMMA StaysWithin ==
  ASSUME NEW A \in SUBSET Items, NEW B \in SUBSET A, NEW limit \in Nat,
         Cardinality(A) <= limit
  PROVE  Cardinality(B) <= limit
<1>1. Cardinality(A) \in Nat /\ Cardinality(B) \in Nat
  <2>1. B \in SUBSET Items
    OBVIOUS
  <2> QED
    BY <2>1, ItemsCount
<1>2. Cardinality(B) <= Cardinality(A)
  BY CountShrinks
<1> QED
  BY <1>1, <1>2

\* And fewer than below a limit is below it.
LEMMA StaysBelow ==
  ASSUME NEW A \in SUBSET Items, NEW B \in SUBSET A, NEW limit \in Nat,
         Cardinality(A) < limit
  PROVE  Cardinality(B) < limit
<1>1. Cardinality(A) \in Nat /\ Cardinality(B) \in Nat
  <2>1. B \in SUBSET Items
    OBVIOUS
  <2> QED
    BY <2>1, ItemsCount
<1>2. Cardinality(B) <= Cardinality(A)
  BY CountShrinks
<1> QED
  BY <1>1, <1>2

\* The records of a harness stay within its limit.
LEMMA HarnessFitsStep ==
  ASSUME IInv, LimitsRecorded, HarnessFits, Admitted, Supervised, [Next]_vars
  PROVE  HarnessFits'
<1> SUFFICES ASSUME NEW P \in Projects, NEW h \in Harnesses
             PROVE  Cardinality(HarnessRecords(P, h)') <= HarnessLimit[P][h]
  BY DEF HarnessFits
<1>1. /\ HarnessRecords(P, h) \in SUBSET Items
      /\ HarnessLimit[P][h] \in Nat
      /\ Cardinality(HarnessRecords(P, h)) <= HarnessLimit[P][h]
  BY RecordSets, ConstantsTyped DEF HarnessFits
<1>2. CASE HarnessRecords(P, h)' \subseteq HarnessRecords(P, h)
  BY <1>1, <1>2, StaysWithin
<1>3. ASSUME NEW p \in Procs, Reserve(p), P = ProjectOf[task[p]], h = HarnessOf[route[p]]
      PROVE  Cardinality(HarnessRecords(P, h)') <= HarnessLimit[P][h]
  <2>1. HarnessRecords(P, h)' \subseteq HarnessRecords(P, h) \cup {task[p]}
    BY <1>3, OneMoreRecord
  <2>2. Cardinality(HarnessRecords(P, h)) < HarnessLimit[P][h]
    BY <1>3 DEF Admitted, Reserve
  <2>3. task[p] \in Items
    BY <1>3, OneMade DEF IInv
  <2> QED
    BY <1>1, <2>1, <2>2, <2>3, WithinLimit
<1> QED
  BY <1>2, <1>3, FewerRecords, OneMoreRecord

\* The records for a model stay within each of the capacities recorded for it.
LEMMA ModelFitsStep ==
  ASSUME IInv, LimitsRecorded, ModelFits, Admitted, Supervised, [Next]_vars
  PROVE  ModelFits'
<1> SUFFICES ASSUME NEW i \in Items, resv'[i] # NoResv
             PROVE  \A m : m = resv'[i].model
                             => Cardinality(ModelRecords(m)') <= resv'[i].mcap
  BY DEF ModelFits, Reserved
<1>1. resv'[i].mcap \in Nat
  BY TypeStep DEF IInv, TypeOK, Reservation
<1> SUFFICES ASSUME NEW m, m = resv'[i].model
             PROVE  Cardinality(ModelRecords(m)') <= resv'[i].mcap
  OBVIOUS
<1>2. ModelRecords(m) \in SUBSET Items
  BY RecordSets
<1>3. CASE TermsKept(i) /\ ModelRecords(m)' \subseteq ModelRecords(m)
  <2>1. Cardinality(ModelRecords(m)) <= resv'[i].mcap
    BY <1>3 DEF TermsKept, ModelFits
  <2> QED
    BY <1>1, <1>2, <1>3, <2>1, StaysWithin
<1>4. ASSUME NEW p \in Procs, Reserve(p)
      PROVE  Cardinality(ModelRecords(m)') <= resv'[i].mcap
  <2>1. ModelRecords(m)' \subseteq ModelRecords(m) \cup {task[p]} /\ task[p] \in Items
    BY <1>4, OneMoreRecord, OneMade DEF IInv
  <2>2. pc[p] = "reserve"
    BY <1>4 DEF Reserve
  <2>3. CASE i = task[p]
    <3>1. m = route[p] /\ resv'[i].mcap = ModelLimit[ProjectOf[i]][route[p]]
      BY <1>4, <2>3, MadeTerms DEF IInv
    <3>2. Cardinality(ModelRecords(m)) < resv'[i].mcap
      BY <2>2, <2>3, <3>1 DEF Admitted
    <3> QED
      BY <1>1, <1>2, <2>1, <3>2, WithinLimit
  <2>4. CASE i # task[p]
    <3>1. TermsKept(i)
      BY <1>4, <2>4, SomeMade DEF Reserved
    <3>2. CASE m # route[p]
      BY <1>3, <1>4, <3>1, <3>2, OneMoreRecord
    <3>3. CASE m = route[p]
      <4>1. i \in ModelRecords(m)
        BY <3>1 DEF TermsKept, ModelRecords
      <4>2. Cardinality(ModelRecords(m)) < resv'[i].mcap
        BY <2>2, <3>1, <3>3, <4>1 DEF TermsKept, Admitted
      <4> QED
        BY <1>1, <1>2, <2>1, <4>2, WithinLimit
    <3> QED
      BY <3>2, <3>3
  <2> QED
    BY <2>3, <2>4
<1>5. CASE \A p \in Procs : ~Reserve(p)
  BY <1>3, <1>5, FewerRecords, NoneMade DEF Reserved
<1> QED
  BY <1>4, <1>5

\* A record has a login exactly where its project has profiles, and then it has a limit.
LEMMA KeyedLimit ==
  ASSUME BaseInv, LimitsRecorded, NEW i \in Items, Reserved(i)
  PROVE  /\ resv[i].mcap \in Nat /\ resv[i].kcap \in Nat
         /\ ProjectOf[i] \in Projects
         /\ resv[i].lane \in Lanes /\ resv[i].harness \in Harnesses
         /\ resv[i].mcap = ModelLimit[ProjectOf[i]][resv[i].model]
         /\ Pool[ProjectOf[i]][resv[i].harness] = {} => resv[i].key = NoKey /\ resv[i].kcap = 0
         /\ Pool[ProjectOf[i]][resv[i].harness] # {} =>
              /\ resv[i].key = CredentialKey(resv[i].harness, resv[i].lane)
              /\ resv[i].key # NoKey
              /\ resv[i].kcap = LaneLimit[ProjectOf[i]][resv[i].lane]
              /\ resv[i].kcap # 0
<1>1. resv[i] \in Reservation
  BY DEF BaseInv, TypeOK, Reserved
<1>2. /\ resv[i].mcap \in Nat /\ resv[i].kcap \in Nat
      /\ ProjectOf[i] \in Projects /\ resv[i].lane \in Lanes /\ resv[i].harness \in Harnesses
  BY <1>1, ConstantsTyped DEF Reservation
<1>3. /\ CredentialKey(resv[i].harness, resv[i].lane) # NoKey
      /\ LaneLimit[ProjectOf[i]][resv[i].lane] # 0
  BY <1>2, ConstantsTyped, ConstantsDistinct DEF CredentialKey, Keys
<1> QED
  BY <1>2, <1>3 DEF LimitsRecorded

\* The records on a login stay within each of the capacities recorded for it.
LEMMA LoginFitsStep ==
  ASSUME IInv, LimitsRecorded, LoginFits, Admitted, Supervised, [Next]_vars
  PROVE  LoginFits'
<1> SUFFICES ASSUME NEW i \in Items, resv'[i] # NoResv, resv'[i].key # NoKey
             PROVE  \A key : key = resv'[i].key
                               => Cardinality(KeyRecords(key)') <= resv'[i].kcap
  BY DEF LoginFits, Reserved
<1>1. resv'[i].kcap \in Nat
  BY TypeStep DEF IInv, TypeOK, Reservation
<1> SUFFICES ASSUME NEW key, key = resv'[i].key
             PROVE  Cardinality(KeyRecords(key)') <= resv'[i].kcap
  OBVIOUS
<1>2. BaseInv /\ KeyRecords(key) \in SUBSET Items
  BY RecordSets DEF IInv
<1>3. CASE TermsKept(i) /\ KeyRecords(key)' \subseteq KeyRecords(key)
  <2>1. Cardinality(KeyRecords(key)) <= resv'[i].kcap
    BY <1>3 DEF TermsKept, LoginFits
  <2> QED
    BY <1>1, <1>2, <1>3, <2>1, StaysWithin
<1>4. ASSUME NEW p \in Procs, Reserve(p), key = resv'[task[p]].key
      PROVE  Cardinality(KeyRecords(key)') <= resv'[i].kcap
  <2> DEFINE P == ProjectOf[task[p]]
             h == HarnessOf[route[p]]
             lane == pick[p]
  <2>1. KeyRecords(key)' \subseteq KeyRecords(key) \cup {task[p]} /\ task[p] \in Items
    BY <1>2, <1>4, OneMoreRecord, OneMade
  <2>2. pc[p] = "reserve"
    BY <1>4 DEF Reserve
  <2>3. /\ Pool[P][h] # {}
        /\ key = CredentialKey(h, lane)
        /\ resv'[task[p]].kcap = LaneLimit[P][lane]
    BY <1>2, <1>4, MadeTerms
  <2>4. LoginAdmits(P, h, lane)
    BY <2>2, <2>3 DEF Admitted
  <2>5. KeyRecords(key) \subseteq CredentialRecords(h, lane)
    BY <2>3 DEF KeyRecords, CredentialRecords
  <2> HIDE DEF P, h, lane
  <2>6. Cardinality(CredentialRecords(h, lane)) < resv'[i].kcap
    <3>1. CASE i = task[p]
      BY <2>3, <2>4, <3>1 DEF LoginAdmits
    <3>2. CASE i # task[p]
      <4>1. TermsKept(i)
        BY <1>4, <3>2, SomeMade DEF Reserved
      <4>2. i \in CredentialRecords(h, lane)
        BY <2>5, <4>1 DEF TermsKept, KeyRecords
      <4>3. resv[i].kcap # 0
        BY <1>2, <4>1, KeyedLimit DEF TermsKept
      <4> QED
        BY <2>4, <4>1, <4>2, <4>3 DEF TermsKept, LoginAdmits
    <3> QED
      BY <3>1, <3>2
  <2>7. Cardinality(KeyRecords(key)) < resv'[i].kcap
    BY <1>1, <2>5, <2>6, RecordSets, StaysBelow
  <2> QED
    BY <1>1, <1>2, <2>1, <2>7, WithinLimit
<1>5. ASSUME NEW p \in Procs, Reserve(p), key # resv'[task[p]].key
      PROVE  Cardinality(KeyRecords(key)') <= resv'[i].kcap
  BY <1>3, <1>5, OneMoreRecord, SomeMade DEF Reserved
<1>6. CASE \A p \in Procs : ~Reserve(p)
  BY <1>3, <1>6, FewerRecords, NoneMade DEF Reserved
<1> QED
  BY <1>4, <1>5, <1>6

\* The room that a run is admitted to.
Room(P, m, lane) ==
  LET h == HarnessOf[m]
  IN /\ Cardinality(HarnessRecords(P, h)) < HarnessLimit[P][h]
     /\ Cardinality(ModelRecords(m)) < ModelLimit[P][m]
     /\ \A j \in ModelRecords(m) : Cardinality(ModelRecords(m)) < resv[j].mcap
     /\ Pool[P][h] # {} => LoginAdmits(P, h, lane)

\* It is there until somebody makes a reservation.
LEMMA RoomStays ==
  ASSUME IInv, LimitsRecorded, Supervised, [Next]_vars, \A p \in Procs : ~Reserve(p),
         NEW P \in Projects, NEW m \in Models, NEW lane \in Lanes, Room(P, m, lane)
  PROVE  Room(P, m, lane)'
<1> DEFINE h == HarnessOf[m]
<1>1. h \in Harnesses
  BY ConstantsTyped
<1>2. HarnessLimit[P][h] \in Nat /\ ModelLimit[P][m] \in Nat /\ LaneLimit[P][lane] \in Nat
  BY <1>1, ConstantsTyped
<1>3. \A j \in Items : Reserved(j)' => TermsKept(j)
  BY NoneMade
<1>4. \A j \in Items : Reserved(j) => resv[j].mcap \in Nat /\ resv[j].kcap \in Nat
  BY KeyedLimit DEF IInv
<1>5. Cardinality(HarnessRecords(P, h))' < HarnessLimit[P][h]
  BY <1>2, RecordSets, FewerRecords, StaysBelow DEF Room
<1>6. \A limit \in Nat : Cardinality(ModelRecords(m)) < limit
                           => Cardinality(ModelRecords(m))' < limit
  BY RecordSets, FewerRecords, StaysBelow
<1>7. Cardinality(ModelRecords(m))' < ModelLimit[P][m]
  BY <1>2, <1>6 DEF Room
<1>8. \A j \in ModelRecords(m)' : Cardinality(ModelRecords(m))' < resv'[j].mcap
  <2> SUFFICES ASSUME NEW j \in ModelRecords(m)'
               PROVE  Cardinality(ModelRecords(m))' < resv'[j].mcap
    OBVIOUS
  <2>1. j \in Items /\ j \in ModelRecords(m) /\ TermsKept(j)
    <3>1. j \in Items /\ Reserved(j)'
      BY DEF ModelRecords
    <3> QED
      BY <1>3, <3>1, FewerRecords
  <2>2. Cardinality(ModelRecords(m)) < resv[j].mcap
    BY <2>1 DEF Room
  <2> QED
    BY <1>4, <1>6, <2>1, <2>2 DEF TermsKept
<1>9. \A limit \in Nat : Cardinality(CredentialRecords(h, lane)) < limit
                           => Cardinality(CredentialRecords(h, lane))' < limit
  BY RecordSets, FewerRecords, StaysBelow
<1>10. ASSUME LoginAdmits(P, h, lane) PROVE LoginAdmits(P, h, lane)'
  <2>1. Cardinality(CredentialRecords(h, lane))' < LaneLimit[P][lane]
    BY <1>2, <1>9, <1>10 DEF LoginAdmits
  <2>2. ASSUME NEW j \in CredentialRecords(h, lane)', resv'[j].kcap # 0
        PROVE  Cardinality(CredentialRecords(h, lane))' < resv'[j].kcap
    <3>1. j \in Items /\ j \in CredentialRecords(h, lane) /\ TermsKept(j)
      <4>1. j \in Items /\ Reserved(j)'
        BY DEF CredentialRecords
      <4> QED
        BY <1>3, <4>1, FewerRecords
    <3>2. Cardinality(CredentialRecords(h, lane)) < resv[j].kcap
      BY <1>10, <2>2, <3>1 DEF LoginAdmits, TermsKept
    <3> QED
      BY <1>4, <1>9, <3>1, <3>2 DEF TermsKept
  <2> QED
    BY <2>1, <2>2 DEF LoginAdmits
<1> QED
  BY <1>5, <1>7, <1>8, <1>10 DEF Room

\* A resource that counts below a limit has fewer records than the limit.
LEMMA CountsRecords ==
  ASSUME NEW seen \in SUBSET Sessions, NEW items \in SUBSET Items,
         NEW matching \in SUBSET Sessions, NEW limit \in Nat,
         ResourceCount(seen, items, matching) < limit
  PROVE  Cardinality(items) < limit
<1> DEFINE represented ==
      {s \in seen : \E j \in items : \/ HasWorker(j) /\ resv[j].worker = s
                                     \/ IsPending(j) /\ MatchesPending(s, j)}
           rest == matching \ represented
<1>1. Cardinality(items) \in Nat /\ Cardinality(rest) \in Nat
  <2>1. rest \in SUBSET Sessions
    OBVIOUS
  <2> HIDE DEF rest
  <2> QED
    BY <2>1, ItemsCount, SessionsCount
<1>2. Cardinality(items) + Cardinality(rest) < limit
  BY DEF ResourceCount
<1> HIDE DEF rest
<1> QED
  BY <1>1, <1>2

\* A project that counts below its harness limit has fewer records than the limit: each
\* record is counted itself or stands for a session of its own that is counted.
LEMMA CountsHarness ==
  ASSUME IInv, NEW i \in Items, ~Reserved(i), NEW seen \in SUBSET Sessions,
         NEW h \in Harnesses, HasHarnessCapacity(i, h, seen)
  PROVE  Cardinality(HarnessRecords(ProjectOf[i], h)) < HarnessLimit[ProjectOf[i]][h]
<1> DEFINE A == {s \in seen : HarnessOfSession(s) = h}
           U == {j \in Unrepresented(i, seen) : resv[j].harness = h}
           R == HarnessRecords(ProjectOf[i], h)
           limit == HarnessLimit[ProjectOf[i]][h]
<1>1. Cardinality(A) + Cardinality(U) < limit
  BY DEF HasHarnessCapacity
<1>2. A \in SUBSET Sessions /\ U \in SUBSET Items /\ R \in SUBSET Items /\ limit \in Nat
  BY ConstantsTyped DEF Unrepresented, HarnessRecords
<1>3. \A j \in R \ U : \E s \in A : sess[s].item = j
  <2> SUFFICES ASSUME NEW j \in R \ U PROVE \E s \in A : sess[s].item = j
    OBVIOUS
  <2>1. /\ j \in Items /\ Reserved(j) /\ resv[j].harness = h /\ j # i
        /\ ProjectOf[j] = ProjectOf[i]
    BY DEF HarnessRecords
  <2>2. j \notin Unrepresented(i, seen)
    BY <2>1
  <2>3. \/ HasWorker(j) /\ resv[j].worker \in seen
        \/ IsPending(j) /\ \E s \in seen : MatchesPending(s, j)
    BY <2>1, <2>2 DEF Unrepresented
  <2>4. HasWorker(j) => MatchesPending(resv[j].worker, j)
    BY <2>1 DEF IInv, WorkersStarted
  <2>5. PICK s \in seen : MatchesPending(s, j)
    BY <2>3, <2>4
  <2> QED
    BY <2>1, <2>5 DEF MatchesPending
<1> HIDE DEF A, U, R, limit
<1>4. Cardinality(R \ U) <= Cardinality(A)
  BY <1>2, <1>3, CountBySession
<1>5. /\ IsFiniteSet(R \ U) /\ Cardinality(R \ U) \in Nat
      /\ IsFiniteSet(U) /\ Cardinality(U) \in Nat
      /\ Cardinality(R) \in Nat
      /\ Cardinality((R \ U) \cap U) \in Nat
      /\ Cardinality((R \ U) \cup U) \in Nat
      /\ Cardinality(A) \in Nat
  <2>1. (R \ U) \in SUBSET Items /\ ((R \ U) \cap U) \in SUBSET Items
        /\ ((R \ U) \cup U) \in SUBSET Items
    BY <1>2
  <2> QED
    BY <1>2, <2>1, ItemsCount, SessionsCount
<1>6. /\ Cardinality((R \ U) \cup U)
           = Cardinality(R \ U) + Cardinality(U) - Cardinality((R \ U) \cap U)
      /\ Cardinality(R) <= Cardinality((R \ U) \cup U)
  <2>1. ((R \ U) \cup U) \in SUBSET Items /\ R \in SUBSET ((R \ U) \cup U)
    BY <1>2
  <2> QED
    BY <1>5, <2>1, FS_Union, CountShrinks
<1>7. Cardinality(R) < limit
  BY <1>1, <1>2, <1>4, <1>5, <1>6
<1> QED
  BY <1>7 DEF R, limit

\* A lane whose login counts below its limits has room for a record.
LEMMA CountsLogin ==
  ASSUME BaseInv, NEW P \in Projects, NEW h \in Harnesses, NEW lane \in Lanes,
         NEW seen \in SUBSET Sessions, CredentialFree(P, h, lane, seen)
  PROVE  LoginAdmits(P, h, lane)
<1> DEFINE items == CredentialRecords(h, lane)
           matching == {s \in seen : HarnessOfSession(s) = h /\ sess[s].lane = lane}
<1>1. items \in SUBSET Items /\ matching \in SUBSET Sessions
  BY RecordSets
<1>2. CredentialCount(h, lane, seen) = ResourceCount(seen, items, matching)
  BY DEF CredentialCount
<1> HIDE DEF items, matching
<1>3. \A limit \in Nat : CredentialCount(h, lane, seen) < limit => Cardinality(items) < limit
  BY <1>1, <1>2, CountsRecords
<1>4. LaneLimit[P][lane] \in Nat
  BY ConstantsTyped
<1>5. \A j \in items : resv[j].kcap \in Nat
  BY DEF items, CredentialRecords, BaseInv, TypeOK, Reserved, Reservation
<1>6. Cardinality(items) < LaneLimit[P][lane]
  BY <1>3, <1>4 DEF CredentialFree
<1>7. \A j \in items : resv[j].kcap # 0 => Cardinality(items) < resv[j].kcap
  BY <1>3, <1>5 DEF CredentialFree, items
<1> QED
  BY <1>6, <1>7 DEF LoginAdmits, items

\* A run that is admitted has the room it was admitted to.
LEMMA AdmitRoom ==
  ASSUME IInv, Supervised, NEW p \in Procs, NEW lane \in Lanes, Admit(p, lane)
  PROVE  Room(ProjectOf[task[p]], route[p], lane)
<1> DEFINE i == task[p]
           P == ProjectOf[i]
           m == route[p]
           h == HarnessOf[m]
<1>1. BaseInv /\ pc[p] = "decide" /\ MayAdmit(p)
  BY DEF IInv, Admit
<1>2. /\ i \in Items /\ m \in Models /\ scan[p] \in SUBSET Sessions
      /\ P \in Projects /\ h \in Harnesses
  BY <1>1, ConstantsTyped DEF BaseInv, LocksMatch, Routed, TypeOK
<1>3. ~Reserved(i)
  BY <1>1, AdmittedUnreserved DEF MayAdmit
<1>4. Cardinality(HarnessRecords(P, h)) < HarnessLimit[P][h]
  BY <1>1, <1>2, <1>3, CountsHarness DEF MayAdmit
<1>5. HasModelCapacity(P, m, scan[p])
  BY <1>1 DEF MayAdmit
<1>6. ModelLimit[P][m] \in Nat /\ \A j \in ModelRecords(m) : resv[j].mcap \in Nat
  BY <1>1, <1>2, ConstantsTyped DEF ModelRecords, BaseInv, TypeOK, Reserved, Reservation
<1>7. Pool[P][h] # {} => CredentialFree(P, h, lane, scan[p])
  BY DEF Admit, SelectLane
<1>8. Pool[P][h] # {} => LoginAdmits(P, h, lane)
  BY <1>1, <1>2, <1>7, CountsLogin
<1> DEFINE matching == {s \in scan[p] : HarnessOfSession(s) = HarnessOf[m]}
           count == ResourceCount(scan[p], ModelRecords(m), matching)
<1>9. count < ModelLimit[P][m] /\ \A j \in ModelRecords(m) : count < resv[j].mcap
  BY <1>5 DEF HasModelCapacity
<1>10. matching \in SUBSET Sessions /\ ModelRecords(m) \in SUBSET Items
  BY <1>2, RecordSets
<1>11. \A limit \in Nat : count < limit => Cardinality(ModelRecords(m)) < limit
  <2> HIDE DEF matching, P, h, m, i
  <2> QED
    BY <1>2, <1>10, CountsRecords
<1> HIDE DEF count
<1>12. /\ Cardinality(ModelRecords(m)) < ModelLimit[P][m]
       /\ \A j \in ModelRecords(m) : Cardinality(ModelRecords(m)) < resv[j].mcap
  BY <1>6, <1>9, <1>11
<1> QED
  BY <1>4, <1>8, <1>12 DEF Room

\* The lane that a run is admitted to is kept until the reservation.
LEMMA PickStays ==
  ASSUME BaseInv, [Next]_vars, NEW p \in Procs, pc[p] = "reserve", pc'[p] = "reserve"
  PROVE  pick'[p] = pick[p] /\ ~ProcessStep(p) /\ \A q \in Procs : ~Reserve(q)
<1>1. globalLock = p
  BY DEF BaseInv, LocksMatch, Allocating
<1>2. ~Reserve(p)
  BY DEF Reserve, Goto, BaseInv, TypeOK
<1>3. \A q \in Procs : Reserve(q) => globalLock = q
  BY DEF Reserve, BaseInv, LocksMatch, Allocating
<1>4. ASSUME NEW q \in Procs \ {p}, ProcessStep(q) PROVE pick'[p] = pick[p]
  BY <1>4 DEF BaseInv, TypeOK, ProcessStep, Progress, Start, CheckCapacity,
     AcquireGlobal, AcquireItem, Scan, VerifyListed, VerifyFound, VerifyEnded,
     VerifyUnknown, Conflict, Reuse, Refuse, Admit, Reserve, RequestSpawn, SpawnReturns,
     SpawnFails, RecordAcquired, SaveThread, Finish, StartCleanup, ResumeCleanup, CleanupLock,
     Terminate, ClearRecord, Abandon, EndRun, locals
<1>5. ASSUME ProcessStep(p) PROVE FALSE
  BY <1>2, <1>5 DEF BaseInv, TypeOK, ProcessStep, Progress, Start, CheckCapacity,
     AcquireGlobal, AcquireItem, Scan, VerifyListed, VerifyFound, VerifyEnded,
     VerifyUnknown, Conflict, Reuse, Refuse, Admit, RequestSpawn, SpawnReturns,
     SpawnFails, RecordAcquired, SaveThread, Finish, StartCleanup, ResumeCleanup, CleanupLock,
     Terminate, ClearRecord, Abandon, Goto, EndRun
<1>6. ASSUME RunnerStep \/ UNCHANGED vars PROVE pick'[p] = pick[p]
  BY <1>6 DEF RunnerStep, locals, vars
<1> QED
  BY <1>1, <1>2, <1>3, <1>4, <1>5, <1>6 DEF Next

\* Only an admission takes a run to its reservation.
LEMMA OnlyAdmitReserves ==
  ASSUME BaseInv, [Next]_vars, NEW p \in Procs, pc[p] # "reserve", pc'[p] = "reserve"
  PROVE  \E lane \in Lanes : Admit(p, lane)
<1>1. ASSUME ProcessStep(p), \A lane \in Lanes : ~Admit(p, lane) PROVE FALSE
  BY <1>1 DEF BaseInv, TypeOK, ProcessStep, Progress, Start, CheckCapacity,
     AcquireGlobal, AcquireItem, Scan, VerifyListed, VerifyFound, VerifyEnded,
     VerifyUnknown, Conflict, Reuse, Refuse, Reserve, RequestSpawn, SpawnReturns,
     SpawnFails, RecordAcquired, SaveThread, Finish, StartCleanup, ResumeCleanup, CleanupLock,
     Terminate, ClearRecord, Abandon, Goto, EndRun
<1> QED
  BY <1>1, StaysOrSteps

\* Room is found at the admission and is there until the reservation.
LEMMA AdmittedStep ==
  ASSUME IInv, LimitsRecorded, Admitted, Supervised, [Next]_vars
  PROVE  Admitted'
<1>1. BaseInv
  BY DEF IInv
<1>2. Admitted <=> \A p \in Procs :
                     pc[p] = "reserve" => Room(ProjectOf[task[p]], route[p], pick[p])
  BY DEF Admitted, Room
<1>3. Admitted' <=> \A p \in Procs :
                      pc'[p] = "reserve" => Room(ProjectOf[task[p]], route[p], pick[p])'
  BY DEF Admitted, Room
<1>4. ASSUME NEW p \in Procs, pc'[p] = "reserve"
      PROVE  Room(ProjectOf[task[p]], route[p], pick[p])'
  <2>1. CASE pc[p] = "reserve"
    <3>1. \A q \in Procs : ~Reserve(q)
      BY <1>1, <1>4, <2>1, PickStays
    <3>2. ~ProcessStep(p)
      BY <1>1, <1>4, <2>1, PickStays
    <3>3. pick'[p] = pick[p] /\ task'[p] = task[p] /\ route'[p] = route[p]
      BY <1>1, <1>4, <2>1, <3>2, PickStays, StaysOrSteps
    <3>4. ProjectOf[task[p]] \in Projects /\ route[p] \in Models /\ pick[p] \in Lanes
      BY <1>1, <2>1, ConstantsTyped DEF BaseInv, LocksMatch, RecordsThere, Routed
    <3>5. \A P, m, lane : P = ProjectOf[task[p]] /\ m = route[p] /\ lane = pick[p]
                            => Room(P, m, lane)'
      BY <1>2, <2>1, <3>1, <3>4, RoomStays
    <3> QED
      BY <3>3, <3>5
  <2>2. ASSUME NEW lane \in Lanes, Admit(p, lane)
        PROVE  Room(ProjectOf[task[p]], route[p], pick[p])'
    <3>1. Room(ProjectOf[task[p]], route[p], lane)
      BY <2>2, AdmitRoom
    <3>2. /\ task' = task /\ route' = route /\ pick'[p] = lane /\ resv' = resv
      BY <1>1, <2>2 DEF Admit, BaseInv, TypeOK
    <3> QED
      BY <3>1, <3>2 DEF Room, HarnessRecords, ModelRecords, LoginAdmits, CredentialRecords,
         Reserved
  <2>3. CASE pc[p] # "reserve"
    <3>1. \E lane \in Lanes : Admit(p, lane)
      BY <1>1, <1>4, <2>3, OnlyAdmitReserves
    <3> QED
      BY <2>2, <3>1
  <2> QED
    BY <2>1, <2>3
<1> QED
  BY <1>3, <1>4

\* While a run waits to ask for its worker nobody makes a reservation, and only one that
\* has just made its own comes to wait.
LEMMA SpawnStays ==
  ASSUME BaseInv, [Next]_vars, NEW p \in Procs, pc'[p] = "spawn"
  PROVE  \/ Reserve(p)
         \/ pc[p] = "spawn" /\ ~ProcessStep(p) /\ \A q \in Procs : ~Reserve(q)
<1>1. ASSUME ProcessStep(p), ~Reserve(p) PROVE FALSE
  BY <1>1 DEF BaseInv, TypeOK, ProcessStep, Progress, Start, CheckCapacity,
     AcquireGlobal, AcquireItem, Scan, VerifyListed, VerifyFound, VerifyEnded,
     VerifyUnknown, Conflict, Reuse, Refuse, Admit, RequestSpawn, SpawnReturns,
     SpawnFails, RecordAcquired, SaveThread, Finish, StartCleanup, ResumeCleanup, CleanupLock,
     Terminate, ClearRecord, Abandon, Goto, EndRun
<1>2. CASE ~ProcessStep(p)
  <2>1. pc[p] = "spawn"
    BY <1>2, StaysOrSteps
  <2>2. globalLock = p
    BY <2>1 DEF BaseInv, LocksMatch, Allocating
  <2>3. \A q \in Procs : Reserve(q) => globalLock = q
    BY DEF Reserve, BaseInv, LocksMatch, Allocating
  <2>4. ~Reserve(p)
    BY <2>1 DEF Reserve
  <2> QED
    BY <1>2, <2>1, <2>2, <2>3, <2>4
<1> QED
  BY <1>1, <1>2

\* The records on the login of a run that is about to ask for its worker still fit.
LEMMA LoginHeldStep ==
  ASSUME IInv, LimitsRecorded, Admitted, LoginHeld, Supervised, [Next]_vars
  PROVE  LoginHeld'
<1> DEFINE Held(i) ==
      LET h == resv[i].harness
          lane == resv[i].lane
      IN Pool[ProjectOf[i]][h] # {} =>
           \A j \in CredentialRecords(h, lane) :
             resv[j].kcap # 0 => Cardinality(CredentialRecords(h, lane)) <= resv[j].kcap
<1>1. BaseInv
  BY DEF IInv
<1>2. /\ LoginHeld <=> \A p \in Procs : pc[p] = "spawn" => Held(task[p])
      /\ LoginHeld' <=> \A p \in Procs : pc'[p] = "spawn" => Held(task[p])'
  BY DEF LoginHeld
<1>3. \A j \in Items : resv'[j] # NoResv => resv'[j].kcap \in Nat
  BY TypeStep DEF IInv, TypeOK, Reservation
<1>4. ASSUME NEW p \in Procs, Reserve(p) PROVE Held(task[p])'
  <2>1. ASSUME NEW i, NEW h, NEW lane, i = task[p], h = HarnessOf[route[p]], lane = pick[p]
        PROVE  Held(i)'
    <3>1. /\ i \in Items /\ resv'[i].harness = h /\ resv'[i].lane = lane
          /\ Pool[ProjectOf[i]][h] # {} => resv'[i].kcap = LaneLimit[ProjectOf[i]][lane]
      BY <1>1, <1>4, <2>1, MadeTerms
    <3>2. \A j \in Items \ {i} : Reserved(j)' => TermsKept(j)
      BY <1>4, <2>1, SomeMade
    <3>3. CredentialRecords(h, lane)' \subseteq CredentialRecords(h, lane) \cup {i}
      BY <1>4, <2>1, OneMoreRecord
    <3>4. Pool[ProjectOf[i]][h] # {} => LoginAdmits(ProjectOf[i], h, lane)
      BY <1>4, <2>1 DEF Admitted, Reserve
    <3>5. ASSUME Pool[ProjectOf[i]][h] # {},
                 NEW j \in CredentialRecords(h, lane)', resv'[j].kcap # 0
          PROVE  Cardinality(CredentialRecords(h, lane)') <= resv'[j].kcap
      <4>1. j \in Items /\ Reserved(j)'
        BY <3>5 DEF CredentialRecords
      <4>2. Cardinality(CredentialRecords(h, lane)) < resv'[j].kcap
        <5>1. CASE j = i
          BY <3>1, <3>4, <3>5, <5>1 DEF LoginAdmits
        <5>2. CASE j # i
          <6>1. j \in CredentialRecords(h, lane) /\ TermsKept(j)
            BY <3>2, <3>3, <3>5, <4>1, <5>2
          <6> QED
            BY <3>4, <3>5, <6>1 DEF LoginAdmits, TermsKept
        <5> QED
          BY <5>1, <5>2
      <4>3. resv'[j].kcap \in Nat
        BY <1>3, <4>1 DEF Reserved
      <4> QED
        BY <3>1, <3>3, <4>2, <4>3, RecordSets, WithinLimit
    <3> QED
      BY <3>1, <3>5
  <2>2. task' = task
    BY <1>4 DEF Reserve
  <2>3. \A i : i = task[p] => Held(i)'
    BY <2>1
  <2> HIDE DEF Held
  <2> QED
    BY <2>2, <2>3
<1>5. ASSUME NEW p \in Procs, pc[p] = "spawn", ~ProcessStep(p), \A q \in Procs : ~Reserve(q)
      PROVE  Held(task[p])'
  <2>1. ASSUME NEW i, NEW h, NEW lane, i = task[p], h = resv[i].harness, lane = resv[i].lane
        PROVE  Held(i)'
    <3>1. i \in Items /\ Reserved(i) /\ Held(i)
      BY <1>1, <1>2, <1>5, <2>1 DEF BaseInv, LocksMatch, RecordsThere, IsPending
    <3>2. ~Writes(p)
      BY <1>5 DEF Writes, ProcessStep, Progress
    <3>3. resv'[i].harness = h /\ resv'[i].lane = lane
      BY <1>1, <1>5, <2>1, <3>2, HeldReservation DEF HoldingItem
    <3>4. CredentialRecords(h, lane)' \subseteq CredentialRecords(h, lane)
      BY <1>5, FewerRecords
    <3>5. ASSUME Pool[ProjectOf[i]][h] # {},
                 NEW j \in CredentialRecords(h, lane)', resv'[j].kcap # 0
          PROVE  Cardinality(CredentialRecords(h, lane)') <= resv'[j].kcap
      <4>1. j \in Items /\ Reserved(j)'
        BY <3>5 DEF CredentialRecords
      <4>2. TermsKept(j) /\ j \in CredentialRecords(h, lane)
        BY <1>5, <3>4, <3>5, <4>1, NoneMade
      <4>3. Cardinality(CredentialRecords(h, lane)) <= resv'[j].kcap
        BY <2>1, <3>1, <3>5, <4>2 DEF TermsKept
      <4>4. resv'[j].kcap \in Nat
        BY <1>3, <4>1 DEF Reserved
      <4> QED
        BY <3>4, <4>3, <4>4, RecordSets, StaysWithin
    <3> QED
      BY <3>3, <3>5
  <2>2. task'[p] = task[p]
    BY <1>1, <1>5, StaysOrSteps
  <2>3. \A i : i = task[p] => Held(i)'
    BY <2>1
  <2> HIDE DEF Held
  <2> QED
    BY <2>2, <2>3
<1> HIDE DEF Held
<1> QED
  BY <1>1, <1>2, <1>4, <1>5, SpawnStays

\* CapacityInv is an inductive invariant of the supervised protocol.
THEOREM CapacityInvariance == Supervised => (Spec => []CapacityInv)
<1> SUFFICES ASSUME Supervised PROVE Spec => []CapacityInv
  OBVIOUS
<1>1. Init => ModelsMatch /\ LimitsRecorded /\ HarnessFits /\ ModelFits /\ LoginFits
              /\ Admitted /\ LoginHeld
  <2> SUFFICES ASSUME Init
               PROVE  ModelsMatch /\ LimitsRecorded /\ HarnessFits /\ ModelFits /\ LoginFits
                      /\ Admitted /\ LoginHeld
    OBVIOUS
  <2>1. /\ \A s \in Sessions : ~IsLive(s)
        /\ \A i \in Items : ~Reserved(i)
        /\ \A p \in Procs : pc[p] = "idle"
    BY DEF Init, IsLive, Reserved
  <2>2. ModelsMatch /\ LimitsRecorded /\ ModelFits /\ LoginFits /\ Admitted /\ LoginHeld
    BY <2>1 DEF ModelsMatch, LimitsRecorded, ModelFits, LoginFits, Admitted, LoginHeld
  <2>3. HarnessFits
    <3>1. \A P, h : HarnessRecords(P, h) = {}
      BY <2>1 DEF HarnessRecords
    <3>2. Cardinality({}) = 0
      BY FS_EmptySet
    <3>3. \A P \in Projects, h \in Harnesses : HarnessLimit[P][h] \in Nat
      BY ConstantsTyped
    <3>4. \A n \in Nat : 0 <= n
      OBVIOUS
    <3>5. ASSUME NEW P \in Projects, NEW h \in Harnesses
          PROVE  Cardinality(HarnessRecords(P, h)) <= HarnessLimit[P][h]
      <4>1. Cardinality(HarnessRecords(P, h)) = 0 /\ HarnessLimit[P][h] \in Nat
        BY <3>1, <3>2, <3>3
      <4> QED
        BY <3>4, <4>1
    <3> QED
      BY <3>5 DEF HarnessFits
  <2> QED
    BY <2>2, <2>3
<1>2. CapacityInv /\ IInv' /\ [Next]_vars => CapacityInv'
  BY LimitsStep, ModelsStep, HarnessFitsStep, ModelFitsStep, LoginFitsStep, AdmittedStep,
     LoginHeldStep DEF CapacityInv
<1>3. IInv /\ ModelsMatch /\ LimitsRecorded /\ HarnessFits /\ ModelFits /\ LoginFits
        /\ Admitted /\ LoginHeld <=> CapacityInv
  BY DEF CapacityInv
<1> QED
  BY <1>1, <1>2, <1>3, Invariance, PTL DEF Spec

\* The workers in play of a kind are at most as many as the records of that kind: each has
\* its own item, whose record stands for it.
LEMMA LiveCount ==
  ASSUME IInv, Supervised, NEW R \in SUBSET Items,
         NEW S \in SUBSET {s \in Sessions : IsLive(s) /\ sess[s].item \in R}
  PROVE  Cardinality(S) <= Cardinality(R)
<1>1. \A s, t \in S : sess[s].item = sess[t].item => s = t
  BY DEF IInv, OneWorkerPerItem, Supervised
<1> QED
  BY <1>1, CountByItem

\* No project has more workers in play on a harness than its limit, the unlisted and the
\* not yet started ones included.
THEOREM HarnessLimitKept == Supervised => (Spec => []HarnessCapacityKept)
<1> SUFFICES ASSUME Supervised PROVE Spec => []HarnessCapacityKept
  OBVIOUS
<1>1. ASSUME CapacityInv PROVE HarnessCapacityKept
  <2> SUFFICES ASSUME NEW P \in Projects, NEW h \in Harnesses
               PROVE  Cardinality({s \in Sessions : /\ IsLive(s)
                                                    /\ ProjectOf[sess[s].item] = P
                                                    /\ HarnessOfSession(s) = h})
                        <= HarnessLimit[P][h]
    BY DEF HarnessCapacityKept
  <2> DEFINE S == {s \in Sessions : /\ IsLive(s)
                                    /\ ProjectOf[sess[s].item] = P
                                    /\ HarnessOfSession(s) = h}
             R == HarnessRecords(P, h)
  <2>1. IInv /\ Cardinality(R) <= HarnessLimit[P][h]
    BY <1>1 DEF CapacityInv, HarnessFits
  <2>2. \A s \in S : sess[s].item \in R
    BY <1>1, <2>1, LiveReserved DEF HarnessRecords
  <2>3. S \in SUBSET {s \in Sessions : IsLive(s) /\ sess[s].item \in R}
    BY <2>2
  <2>4. S \in SUBSET Sessions /\ R \in SUBSET Items /\ HarnessLimit[P][h] \in Nat
    BY RecordSets, ConstantsTyped
  <2> HIDE DEF S, R
  <2>5. Cardinality(S) <= Cardinality(R)
    BY <1>1, <2>1, <2>3, <2>4, LiveCount
  <2>6. Cardinality(S) \in Nat /\ Cardinality(R) \in Nat
    BY <2>4, ItemsCount, SessionsCount
  <2>7. Cardinality(S) <= HarnessLimit[P][h]
    BY <2>1, <2>4, <2>5, <2>6
  <2> QED
    BY <2>7 DEF S
<1> QED
  BY <1>1, CapacityInvariance, PTL

\* Nor are there more workers in play on a model than any of their reservations allows.
THEOREM ModelLimitKept == Supervised => (Spec => []ModelCapacityKept)
<1> SUFFICES ASSUME Supervised PROVE Spec => []ModelCapacityKept
  OBVIOUS
<1>1. ASSUME CapacityInv PROVE ModelCapacityKept
  <2> SUFFICES ASSUME NEW i \in Items, Reserved(i)
               PROVE  Cardinality({s \in Sessions :
                                     IsLive(s) /\ sess[s].model = resv[i].model})
                        <= resv[i].mcap
    BY DEF ModelCapacityKept
  <2> DEFINE S == {s \in Sessions : IsLive(s) /\ sess[s].model = resv[i].model}
             R == ModelRecords(resv[i].model)
  <2>1. IInv /\ Cardinality(R) <= resv[i].mcap
    BY <1>1 DEF CapacityInv, ModelFits
  <2>2. \A s \in S : sess[s].item \in R
    BY <1>1, <2>1, LiveReserved DEF ModelRecords, CapacityInv, ModelsMatch
  <2>3. S \in SUBSET {s \in Sessions : IsLive(s) /\ sess[s].item \in R}
    BY <2>2
  <2>4. S \in SUBSET Sessions /\ R \in SUBSET Items /\ resv[i].mcap \in Nat
    BY <1>1, RecordSets, KeyedLimit DEF CapacityInv, IInv
  <2> HIDE DEF S, R
  <2>5. Cardinality(S) <= Cardinality(R)
    BY <1>1, <2>1, <2>3, <2>4, LiveCount
  <2>6. Cardinality(S) \in Nat /\ Cardinality(R) \in Nat
    BY <2>4, ItemsCount, SessionsCount
  <2>7. Cardinality(S) <= resv[i].mcap
    BY <2>1, <2>4, <2>5, <2>6
  <2> QED
    BY <2>7 DEF S
<1> QED
  BY <1>1, CapacityInvariance, PTL

\* Nor more that share a login, over every execution project bound to it.
THEOREM LoginLimitKept == Supervised => (Spec => []LoginCapacityKept)
<1> SUFFICES ASSUME Supervised PROVE Spec => []LoginCapacityKept
  OBVIOUS
<1>1. ASSUME CapacityInv PROVE LoginCapacityKept
  <2> SUFFICES ASSUME NEW i \in Items, Reserved(i), resv[i].key # NoKey
               PROVE  Cardinality({s \in Sessions :
                                     /\ IsLive(s)
                                     /\ Reserved(sess[s].item)
                                     /\ resv[sess[s].item].key = resv[i].key}) <= resv[i].kcap
    BY DEF LoginCapacityKept
  <2> DEFINE S == {s \in Sessions : /\ IsLive(s)
                                    /\ Reserved(sess[s].item)
                                    /\ resv[sess[s].item].key = resv[i].key}
             R == KeyRecords(resv[i].key)
  <2>1. IInv /\ Cardinality(R) <= resv[i].kcap
    BY <1>1 DEF CapacityInv, LoginFits
  <2>2. \A s \in S : sess[s].item \in R
    BY <1>1, <2>1, LiveReserved DEF KeyRecords
  <2>3. S \in SUBSET {s \in Sessions : IsLive(s) /\ sess[s].item \in R}
    BY <2>2
  <2>4. S \in SUBSET Sessions /\ R \in SUBSET Items /\ resv[i].kcap \in Nat
    BY <1>1, RecordSets, KeyedLimit DEF CapacityInv, IInv
  <2> HIDE DEF S, R
  <2>5. Cardinality(S) <= Cardinality(R)
    BY <1>1, <2>1, <2>3, <2>4, LiveCount
  <2>6. Cardinality(S) \in Nat /\ Cardinality(R) \in Nat
    BY <2>4, ItemsCount, SessionsCount
  <2>7. Cardinality(S) <= resv[i].kcap
    BY <2>1, <2>4, <2>5, <2>6
  <2> QED
    BY <2>7 DEF S
<1> QED
  BY <1>1, CapacityInvariance, PTL

-----------------------------------------------------------------------------
(* The protocol implements WorkerPool.                                     *)

\* What the pool of workers sees of the sessions.
Jobs == [s \in Sessions |->
           IF IsLive(s) THEN [item |-> sess[s].item, model |-> sess[s].model,
                              lane |-> sess[s].lane]
           ELSE Nobody]

\* A job stands for a worker in play.
LEMMA JobOf ==
  ASSUME BaseInv, NEW s \in Sessions
  PROVE  /\ Jobs[s] # Nobody <=> IsLive(s)
         /\ IsLive(s) => /\ Jobs[s].item = sess[s].item
                         /\ Jobs[s].model = sess[s].model
                         /\ Jobs[s].lane = sess[s].lane
<1>1. CASE IsLive(s)
  <2>1. Jobs[s] = [item |-> sess[s].item, model |-> sess[s].model, lane |-> sess[s].lane]
    BY <1>1 DEF Jobs
  <2>2. sess[s].item \in Items /\ sess[s].model \in Models /\ sess[s].lane \in Lanes
    BY <1>1 DEF BaseInv, TypeOK, IsLive, Session
  <2>3. Jobs[s] \in [item : Items, model : Models, lane : Lanes]
    BY <2>1, <2>2
  <2> QED
    BY <1>1, <2>1, <2>3, ConstantsDistinct
<1>2. CASE ~IsLive(s)
  BY <1>2 DEF Jobs
<1> QED
  BY <1>1, <1>2

\* What counts against the limits of a launch.
LEMMA PoolSets ==
  ASSUME BaseInv
  PROVE  /\ \A s \in Sessions :
              /\ WP!Busy(s) <=> IsLive(s)
              /\ IsLive(s) => /\ WP!Project(s) = ProjectOf[sess[s].item]
                              /\ WP!Harness(s) = HarnessOfSession(s)
         /\ \A m : WP!OnModel(m) = {s \in Sessions : IsLive(s) /\ sess[s].model = m}
         /\ \A P, h : WP!OnHarness(P, h) =
              {s \in Sessions : /\ IsLive(s)
                                /\ ProjectOf[sess[s].item] = P
                                /\ HarnessOfSession(s) = h}
         /\ \A h, lane : WP!OnLogin(h, lane) =
              {s \in Sessions :
                 /\ IsLive(s) /\ HarnessOfSession(s) = h
                 /\ IF WP!Pooled(ProjectOf[sess[s].item], h)
                      THEN LoginOf[sess[s].lane] = LoginOf[lane]
                      ELSE sess[s].lane = lane}
<1>1. \A s \in Sessions : /\ Jobs[s] # Nobody <=> IsLive(s)
                          /\ IsLive(s) => /\ Jobs[s].item = sess[s].item
                                          /\ Jobs[s].model = sess[s].model
                                          /\ Jobs[s].lane = sess[s].lane
  BY JobOf
<1>2. \A s \in Sessions : /\ WP!Busy(s) <=> Jobs[s] # Nobody
                          /\ WP!Project(s) = ProjectOf[Jobs[s].item]
                          /\ WP!Harness(s) = HarnessOf[Jobs[s].model]
  BY DEF WP!Busy, WP!Project, WP!Harness, Jobs
<1>3. \A s \in Sessions :
        /\ WP!Busy(s) <=> IsLive(s)
        /\ IsLive(s) => /\ WP!Project(s) = ProjectOf[sess[s].item]
                        /\ WP!Harness(s) = HarnessOfSession(s)
  BY <1>1, <1>2 DEF HarnessOfSession
<1>4. \A m : WP!OnModel(m) = {s \in Sessions : WP!Busy(s) /\ Jobs[s].model = m}
  BY DEF WP!OnModel, Jobs
<1>5. \A P, h : WP!OnHarness(P, h) =
        {s \in Sessions : WP!Busy(s) /\ WP!Project(s) = P /\ WP!Harness(s) = h}
  BY DEF WP!OnHarness
<1>6. \A h, lane : WP!OnLogin(h, lane) =
        {s \in Sessions : /\ WP!Busy(s) /\ WP!Harness(s) = h
                          /\ IF WP!Pooled(WP!Project(s), h)
                               THEN LoginOf[Jobs[s].lane] = LoginOf[lane]
                               ELSE Jobs[s].lane = lane}
  BY DEF WP!OnLogin, Jobs
<1>7. \A m : WP!OnModel(m) = {s \in Sessions : IsLive(s) /\ sess[s].model = m}
  BY <1>1, <1>3, <1>4
<1>8. \A P, h : WP!OnHarness(P, h) =
        {s \in Sessions : /\ IsLive(s)
                          /\ ProjectOf[sess[s].item] = P
                          /\ HarnessOfSession(s) = h}
  BY <1>3, <1>5
<1>9. \A h, lane : WP!OnLogin(h, lane) =
        {s \in Sessions :
           /\ IsLive(s) /\ HarnessOfSession(s) = h
           /\ IF WP!Pooled(ProjectOf[sess[s].item], h)
                THEN LoginOf[sess[s].lane] = LoginOf[lane]
                ELSE sess[s].lane = lane}
  BY <1>1, <1>3, <1>6
<1> QED
  BY <1>3, <1>7, <1>8, <1>9

\* Where an item has a record of a kind and no worker yet, there are fewer workers than
\* records of that kind.
LEMMA LiveBelow ==
  ASSUME IInv, Supervised, NEW R \in SUBSET Items, NEW i \in R,
         \A s \in Sessions : IsLive(s) => sess[s].item # i,
         NEW S \in SUBSET {s \in Sessions : IsLive(s) /\ sess[s].item \in R},
         NEW limit \in Nat, Cardinality(R) <= limit
  PROVE  Cardinality(S) < limit
<1>1. S \in SUBSET {s \in Sessions : IsLive(s) /\ sess[s].item \in R \ {i}}
  OBVIOUS
<1>2. R \ {i} \in SUBSET Items /\ S \in SUBSET Sessions
  OBVIOUS
<1>3. Cardinality(S) <= Cardinality(R \ {i})
  BY <1>1, <1>2, LiveCount
<1>4. /\ IsFiniteSet(R) /\ Cardinality(R) \in Nat
      /\ Cardinality(S) \in Nat /\ Cardinality(R \ {i}) \in Nat
  BY <1>2, ItemsCount, SessionsCount
<1>5. Cardinality(R \ {i}) = Cardinality(R) - 1
  BY <1>4, FS_RemoveElement
<1> QED
  BY <1>3, <1>4, <1>5

\* The pool counts as the rest of the specification does.
LEMMA SameCardinality ==
  ASSUME NEW S
  PROVE  WP!Cardinality(S) = Cardinality(S)
BY DEF WP!Cardinality, Cardinality

\* A request is a launch that the pool allows.
LEMMA RequestLaunches ==
  ASSUME CapacityInv, Supervised, NEW p \in Procs, NEW s \in Sessions, RequestSpawn(p, s),
         NEW i, NEW m, NEW lane, i = task[p], m = route[p], lane = resv[i].lane
  PROVE  WP!Launch(s, i, m, lane)
<1> DEFINE h == HarnessOf[m]
           P == ProjectOf[i]
<1>1. IInv /\ BaseInv /\ LimitsRecorded /\ pc[p] = "spawn"
  BY DEF CapacityInv, IInv, RequestSpawn
<1>2. /\ i \in Items /\ m \in Models /\ Reserved(i)
      /\ resv[i].model = m /\ resv[i].harness = h
      /\ \A t \in Sessions : IsLive(t) => sess[t].item # i
  BY <1>1 DEF BaseInv, LocksMatch, RecordsThere, Routed, IInv, SpawnSound, HarnessSound,
     IsPending
<1>3. P \in Projects /\ h \in Harnesses /\ lane \in Lanes
  BY <1>1, <1>2, ConstantsTyped, KeyedLimit
<1>4. /\ HarnessLimit[P][h] \in Nat /\ ModelLimit[P][m] \in Nat
      /\ resv[i].mcap = ModelLimit[P][m]
  BY <1>1, <1>2, <1>3, ConstantsTyped, KeyedLimit
<1>5. \A t \in Sessions : IsLive(t) =>
        LET j == sess[t].item
        IN /\ j \in Items /\ Reserved(j) /\ j # i
           /\ resv[j].lane = sess[t].lane
           /\ resv[j].harness = HarnessOfSession(t)
           /\ resv[j].model = sess[t].model
  BY <1>1, <1>2, LiveReserved DEF CapacityInv, ModelsMatch
<1>6. ~IsLive(s)
  BY DEF RequestSpawn, IsLive
<1> HIDE DEF h, P
<1>7. WP!HarnessRoom(P, h)
  <2> DEFINE S == WP!OnHarness(P, h)
             R == HarnessRecords(P, h)
  <2>1. R \in SUBSET Items /\ i \in R /\ Cardinality(R) <= HarnessLimit[P][h]
    BY <1>2, <1>3, RecordSets DEF CapacityInv, HarnessFits, HarnessRecords, P
  <2>2. S = {t \in Sessions : IsLive(t) /\ ProjectOf[sess[t].item] = P
                                /\ HarnessOfSession(t) = h}
    BY <1>1, PoolSets
  <2>3. S \in SUBSET {t \in Sessions : IsLive(t) /\ sess[t].item \in R}
    BY <1>5, <2>2 DEF HarnessRecords
  <2> HIDE DEF S, R
  <2>4. Cardinality(S) < HarnessLimit[P][h]
    BY <1>1, <1>2, <1>4, <2>1, <2>3, LiveBelow
  <2> QED
    BY <2>4, SameCardinality DEF WP!HarnessRoom, S
<1>8. WP!ModelRoom(P, m)
  <2> DEFINE S == WP!OnModel(m)
             R == ModelRecords(m)
  <2>1. R \in SUBSET Items /\ i \in R /\ Cardinality(R) <= ModelLimit[P][m]
    BY <1>2, <1>4, RecordSets DEF CapacityInv, ModelFits, ModelRecords
  <2>2. S = {t \in Sessions : IsLive(t) /\ sess[t].model = m}
    BY <1>1, PoolSets
  <2>3. S \in SUBSET {t \in Sessions : IsLive(t) /\ sess[t].item \in R}
    BY <1>5, <2>2 DEF ModelRecords
  <2>4. ASSUME NEW t \in S
        PROVE  /\ ModelLimit[WP!Project(t)][m] \in Nat
               /\ Cardinality(R) <= ModelLimit[WP!Project(t)][m]
    <3>1. t \in Sessions /\ IsLive(t) /\ sess[t].model = m
      BY <2>2, <2>4
    <3>2. PICK j \in Items : j = sess[t].item /\ Reserved(j) /\ resv[j].model = m
      BY <1>5, <3>1
    <3>3. WP!Project(t) = ProjectOf[j]
      BY <1>1, <3>1, <3>2, PoolSets
    <3>4. resv[j].mcap = ModelLimit[ProjectOf[j]][m] /\ resv[j].mcap \in Nat
      BY <1>1, <3>2, KeyedLimit
    <3>5. Cardinality(R) <= resv[j].mcap
      BY <3>2 DEF CapacityInv, ModelFits
    <3> QED
      BY <3>3, <3>4, <3>5
  <2> HIDE DEF S, R
  <2>5. \A limit \in Nat : Cardinality(R) <= limit => Cardinality(S) < limit
    BY <1>1, <1>2, <2>1, <2>3, LiveBelow
  <2>6. /\ Cardinality(S) < ModelLimit[P][m]
        /\ \A t \in S : Cardinality(S) < ModelLimit[WP!Project(t)][m]
    BY <1>4, <2>1, <2>4, <2>5
  <2> QED
    BY <2>6, SameCardinality DEF WP!ModelRoom, S
<1>9. ASSUME WP!Pooled(P, h) PROVE WP!LoginRoom(P, h, lane)
  <2> DEFINE S == WP!OnLogin(h, lane)
             R == CredentialRecords(h, lane)
  <2>1. /\ resv[i].key = CredentialKey(h, lane)
        /\ resv[i].kcap = LaneLimit[P][lane] /\ resv[i].kcap # 0 /\ resv[i].kcap \in Nat
    BY <1>1, <1>2, <1>9, KeyedLimit DEF WP!Pooled, P
  <2>2. R \in SUBSET Items /\ i \in R
    BY <1>2, <2>1, RecordSets DEF CredentialRecords
  <2>3. \A j \in R : resv[j].kcap # 0 => Cardinality(R) <= resv[j].kcap
    BY <1>1, <1>2, <1>9 DEF CapacityInv, LoginHeld, WP!Pooled, P
  <2>4. S = {t \in Sessions :
               /\ IsLive(t) /\ HarnessOfSession(t) = h
               /\ IF WP!Pooled(ProjectOf[sess[t].item], h)
                    THEN LoginOf[sess[t].lane] = LoginOf[lane]
                    ELSE sess[t].lane = lane}
    BY <1>1, PoolSets
  <2>5. ASSUME NEW t \in S
        PROVE  /\ t \in Sessions /\ IsLive(t) /\ sess[t].item \in R
               /\ WP!Pooled(WP!Project(t), h) =>
                    LET limit == LaneLimit[WP!Project(t)][Jobs[t].lane]
                    IN limit \in Nat /\ Cardinality(R) <= limit
    <3>1. t \in Sessions /\ IsLive(t) /\ HarnessOfSession(t) = h
      BY <2>4, <2>5
    <3>2. PICK j \in Items : /\ j = sess[t].item /\ Reserved(j)
                             /\ resv[j].harness = h /\ resv[j].lane = sess[t].lane
      BY <1>5, <3>1
    <3>3. WP!Project(t) = ProjectOf[j] /\ Jobs[t].lane = resv[j].lane
      BY <1>1, <3>1, <3>2, PoolSets, JobOf
    <3>4. CASE WP!Pooled(ProjectOf[j], h)
      <4>1. LoginOf[resv[j].lane] = LoginOf[lane]
        BY <2>4, <2>5, <3>2, <3>4
      <4>2. /\ resv[j].key = CredentialKey(h, resv[j].lane)
            /\ resv[j].kcap = LaneLimit[ProjectOf[j]][resv[j].lane]
            /\ resv[j].kcap # 0 /\ resv[j].kcap \in Nat
        BY <1>1, <3>2, <3>4, KeyedLimit DEF WP!Pooled
      <4>3. j \in R
        BY <3>2, <4>1, <4>2 DEF CredentialRecords, CredentialKey
      <4> QED
        BY <2>3, <3>1, <3>2, <3>3, <4>2, <4>3
    <3>5. CASE ~WP!Pooled(ProjectOf[j], h)
      <4>1. resv[j].lane = lane
        BY <2>4, <2>5, <3>2, <3>5
      <4>2. resv[j].key = NoKey
        BY <1>1, <3>2, <3>5, KeyedLimit DEF WP!Pooled
      <4>3. j \in R
        BY <3>2, <4>1, <4>2 DEF CredentialRecords
      <4> QED
        BY <3>1, <3>2, <3>3, <3>5, <4>3
    <3> QED
      BY <3>4, <3>5
  <2>6. \A t \in S : WP!Pooled(WP!Project(t), h) =>
          /\ LaneLimit[WP!Project(t)][Jobs[t].lane] \in Nat
          /\ Cardinality(R) <= LaneLimit[WP!Project(t)][Jobs[t].lane]
    BY <2>5
  <2>7. S \in SUBSET {t \in Sessions : IsLive(t) /\ sess[t].item \in R}
    BY <2>5
  <2>8. Cardinality(R) <= LaneLimit[P][lane] /\ LaneLimit[P][lane] \in Nat
    BY <2>1, <2>2, <2>3
  <2> HIDE DEF S, R
  <2>9. \A limit \in Nat : Cardinality(R) <= limit => Cardinality(S) < limit
    BY <1>1, <1>2, <2>2, <2>7, LiveBelow
  <2>10. /\ Cardinality(S) < LaneLimit[P][lane]
         /\ \A t \in S : WP!Pooled(WP!Project(t), h) =>
              Cardinality(S) < LaneLimit[WP!Project(t)][Jobs[t].lane]
    BY <2>6, <2>8, <2>9
  <2> QED
    BY <2>10, SameCardinality DEF WP!LoginRoom, S, Jobs
<1>10. ~WP!Busy(s) /\ \A t \in Sessions : WP!Busy(t) => Jobs[t].item # i
  BY <1>1, <1>2, <1>6, PoolSets, JobOf
<1>11. Jobs' = [Jobs EXCEPT ![s] = [item |-> i, model |-> m, lane |-> lane]]
  <2>1. /\ sess'[s] = [state |-> "requested", item |-> i, model |-> m, lane |-> lane,
                       listed |-> FALSE]
        /\ \A t \in Sessions \ {s} : sess'[t] = sess[t]
    BY <1>1 DEF RequestSpawn, BaseInv, TypeOK
  <2>2. sess'[s] \in Session
    BY <1>2, <1>3, <2>1 DEF Session
  <2>3. sess'[s] # Unborn
    BY <2>2, ConstantsDistinct
  <2>4. Jobs'[s] = [item |-> i, model |-> m, lane |-> lane]
    BY <2>1, <2>3 DEF Jobs, IsLive
  <2>5. \A t \in Sessions \ {s} : Jobs'[t] = Jobs[t]
    BY <2>1 DEF Jobs, IsLive
  <2>6. Jobs = [t \in Sessions |-> Jobs[t]] /\ Jobs' = [t \in Sessions |-> Jobs'[t]]
    BY DEF Jobs
  <2> QED
    BY <2>4, <2>5, <2>6
<1> QED
  BY <1>7, <1>8, <1>9, <1>10, <1>11 DEF WP!Launch, Jobs, h, P

\* A session that leaves the game leaves the pool.
LEMMA EndLeaves ==
  ASSUME BaseInv, NEW s \in Sessions, IsLive(s), NEW state \in {"ended", "lost"},
         sess' = [sess EXCEPT ![s].state = state]
  PROVE  WP!Leave(s)
<1>1. /\ sess'[s].state = state /\ \A t \in Sessions \ {s} : sess'[t] = sess[t]
  BY StateChangeTyped DEF BaseInv, IsLive
<1>2. Jobs'[s] = Nobody
  BY <1>1 DEF Jobs, IsLive
<1>3. \A t \in Sessions \ {s} : Jobs'[t] = Jobs[t]
  BY <1>1 DEF Jobs, IsLive
<1>4. Jobs = [t \in Sessions |-> Jobs[t]] /\ Jobs' = [t \in Sessions |-> Jobs'[t]]
  BY DEF Jobs
<1>5. Jobs' = [Jobs EXCEPT ![s] = Nobody]
  BY <1>2, <1>3, <1>4
<1>6. WP!Busy(s)
  BY PoolSets
<1> QED
  BY <1>5, <1>6 DEF WP!Leave, Jobs

\* Every step of the protocol is one of the pool or leaves it as it is.
LEMMA PoolStep ==
  ASSUME CapacityInv, Supervised, [Next]_vars
  PROVE  WP!Next \/ Jobs' = Jobs
<1>1. BaseInv
  BY DEF CapacityInv, IInv
<1>2. ASSUME sess' = sess PROVE Jobs' = Jobs
  BY <1>2 DEF Jobs, IsLive
<1>3. ASSUME NEW s \in Sessions, WP!Leave(s) PROVE WP!Next
  BY <1>3 DEF WP!Next
<1>4. ASSUME NEW p \in Procs, NEW s \in Sessions, RequestSpawn(p, s) PROVE WP!Next
  <2>1. task[p] \in Items /\ route[p] \in Models /\ resv[task[p]].lane \in Lanes
    BY <1>1, <1>4 DEF RequestSpawn, BaseInv, TypeOK, LocksMatch, RecordsThere, Routed,
       IsPending, Reserved, Reservation
  <2>2. PICK i \in Items, m \in Models, lane \in Lanes :
          i = task[p] /\ m = route[p] /\ lane = resv[i].lane
    BY <2>1
  <2>3. WP!Launch(s, i, m, lane)
    BY <1>4, <2>2, RequestLaunches
  <2> QED
    BY <2>3 DEF WP!Next
<1>5. ASSUME NEW p \in Procs, Terminate(p) PROVE WP!Next \/ Jobs' = Jobs
  <2>1. wid[p] \in Sessions
    BY <1>1, <1>5 DEF Terminate, BaseInv, RecordsThere, WithWorker
  <2>2. CASE IsActive(wid[p])
    <3>1. IsLive(wid[p]) /\ sess' = [sess EXCEPT ![wid[p]].state = "ended"]
      BY <1>5, <2>2 DEF Terminate, Supervised, IsActive, IsLive
    <3> QED
      BY <1>1, <1>3, <2>1, <3>1, EndLeaves
  <2>3. CASE ~IsActive(wid[p])
    BY <1>2, <1>5, <2>3 DEF Terminate
  <2> QED
    BY <2>2, <2>3
<1>6. ASSUME NEW p \in Procs, ProcessStep(p),
             ~Terminate(p), \A s \in Sessions : ~RequestSpawn(p, s)
      PROVE  sess' = sess
  <2>1. CASE \/ \E i \in Items, m \in Models : Start(p, i, m)
             \/ CheckCapacity(p) \/ AcquireGlobal(p) \/ AcquireItem(p) \/ Scan(p)
             \/ VerifyListed(p) \/ VerifyFound(p) \/ VerifyEnded(p) \/ VerifyUnknown(p)
    BY <2>1 DEF Start, CheckCapacity, AcquireGlobal, AcquireItem, Scan, VerifyListed,
       VerifyFound, VerifyEnded, VerifyUnknown
  <2>2. CASE \/ Conflict(p) \/ Refuse(p) \/ Reserve(p)
             \/ \E s \in Sessions : Reuse(p, s)
             \/ \E lane \in Lanes : Admit(p, lane)
             \/ SpawnReturns(p) \/ SpawnFails(p) \/ RecordAcquired(p) \/ SaveThread(p)
    BY <2>2 DEF Conflict, Reuse, Refuse, Admit, Reserve, SpawnReturns, SpawnFails,
       RecordAcquired, SaveThread
  <2>3. CASE \/ Finish(p) \/ StartCleanup(p) \/ \E i \in Items : ResumeCleanup(p, i)
             \/ CleanupLock(p) \/ ClearRecord(p) \/ Abandon(p)
    BY <2>3 DEF Finish, StartCleanup, ResumeCleanup, CleanupLock, ClearRecord, Abandon
  <2>4. CASE Progress(p)
    BY <1>6, <2>1, <2>2, <2>3, <2>4, Zenon DEF Progress
  <2> QED
    BY <1>6, <2>1, <2>2, <2>3, <2>4, Zenon DEF ProcessStep
<1>7. ASSUME NEW s \in Sessions, Begin(s) \/ Appear(s) PROVE Jobs' = Jobs
  <2>1. sess[s] \in Session /\ sess \in [Sessions -> Session \cup {Unborn}]
    BY <1>1, <1>7 DEF BaseInv, TypeOK, Begin, Appear, IsActive
  <2>2. sess' = [sess EXCEPT ![s].state = "active"] \/ sess' = [sess EXCEPT ![s].listed = TRUE]
    BY <1>7 DEF Begin, Appear
  <2>3. /\ \A t \in Sessions \ {s} : sess'[t] = sess[t]
        /\ sess'[s].item = sess[s].item /\ sess'[s].model = sess[s].model
        /\ sess'[s].lane = sess[s].lane /\ sess'[s] # Unborn
    <3>1. CASE sess' = [sess EXCEPT ![s].state = "active"]
      BY <1>1, <1>7, <2>1, <3>1, BornStays DEF Session, Begin, Appear, IsActive
    <3>2. CASE sess' = [sess EXCEPT ![s].listed = TRUE]
      BY <1>1, <1>7, <2>1, <3>2, BornStays DEF Session, Begin, Appear, IsActive
    <3> QED
      BY <2>2, <3>1, <3>2
  <2>4. sess[s].state \in {"requested", "active"} /\ sess'[s].state = "active"
    BY <1>7, <2>1 DEF Session, Begin, Appear, IsActive
  <2>5. \A t \in Sessions : Jobs'[t] = Jobs[t]
    <3>1. Jobs'[s] = Jobs[s]
      BY <1>7, <2>3, <2>4 DEF Jobs, IsLive, Begin, Appear, IsActive
    <3>2. \A t \in Sessions \ {s} : Jobs'[t] = Jobs[t]
      BY <2>3 DEF Jobs, IsLive
    <3> QED
      BY <3>1, <3>2
  <2>6. Jobs = [t \in Sessions |-> Jobs[t]] /\ Jobs' = [t \in Sessions |-> Jobs'[t]]
    BY DEF Jobs
  <2> QED
    BY <2>5, <2>6
<1>8. ASSUME NEW s \in Sessions, Lose(s) \/ End(s) PROVE WP!Next
  <2>1. IsLive(s) /\ \E state \in {"ended", "lost"} : sess' = [sess EXCEPT ![s].state = state]
    BY <1>8 DEF Lose, End, IsActive, IsLive
  <2> QED
    BY <1>1, <1>3, <2>1, EndLeaves
<1>9. CASE RunnerStep
  BY <1>7, <1>8, <1>9 DEF RunnerStep, StartNative, Supervised
<1>10. CASE UNCHANGED vars
  BY <1>2, <1>10 DEF vars
<1> QED
  BY <1>2, <1>4, <1>5, <1>6, <1>9, <1>10 DEF Next

\* Through the runner's sessions, the protocol of locks, records and retries is a pool of
\* workers that launches at most one per item and never past a configured limit.
THEOREM PoolRefinement == Supervised => (Spec => ImplementsPool)
<1> SUFFICES ASSUME Supervised PROVE Spec => ImplementsPool
  OBVIOUS
<1>1. Init => WP!Init
  BY DEF Init, WP!Init, IsLive
<1>2. CapacityInv /\ [Next]_vars => [WP!Next]_Jobs
  BY PoolStep
<1> QED
  BY <1>1, <1>2, CapacityInvariance, PTL DEF Spec, ImplementsPool, WP!Spec, Jobs
=============================================================================
