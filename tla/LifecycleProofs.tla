--------------------------- MODULE LifecycleProofs ---------------------------
(***************************************************************************)
(* Proofs about ServiceLifecycle, for any number of commands and launches: *)
(* there is never more than one service, and commands that run one after   *)
(* the other always find it, under the configuration last written.         *)
(***************************************************************************)
EXTENDS ServiceLifecycle, TLAPS

\* Past the lifetime lock.
Holding == {"check"} \cup Handled

\* The lock's holder is the daemon that is past it.
LockMatches == \A d \in Daemons : life[d] \in Holding <=> lock = d

\* The record is written by the service and outlives only its writer.
RecordWritten ==
  record # NoOne => life[record] \in {"serve", "stop", "unlink", "dead"}

\* A command acts on the daemon it started or found.
ActsOn ==
  \A c \in Commands :
    at[c] \in {"s_wait", "s_reap", "t_kill", "t_wait"} => seen[c] \in Daemons

BaseInv == TypeOK /\ LockMatches /\ RecordWritten /\ ActsOn

----------------------------------------------------------------------------
(* Commands one after the other.                                           *)

OneCommand == \A c, e \in Commands : at[c] # "idle" /\ at[e] # "idle" => c = e

Launching(c) == at[c] \in {"s_wait", "s_reap"}
NoneUp == \A d \in Daemons : ~Owned(d)

\* What a command knows at each step: nothing is up, or nothing but its own daemon.
CommandKnows ==
  \A c \in Commands :
    /\ at[c] \in {"s_drop", "s_spawn", "t_drop", "r_write"} => NoneUp
    /\ at[c] \in {"s_wait", "s_reap", "t_kill", "t_wait"} =>
         \A d \in Daemons : Owned(d) => d = seen[c]

\* A live daemon is recorded, unless a command is still launching it.
FoundOrLaunched ==
  \A d \in Daemons : Owned(d) /\ record # d => \E c \in Commands : Launching(c)

\* What a live daemon has loaded is what the file holds.
Loaded == \A d \in Daemons : Owned(d) /\ life[d] # "boot" => conf[d] = config

SerialInv ==
  ~overlapped => OneCommand /\ CommandKnows /\ FoundOrLaunched /\ Loaded

IInv == BaseInv /\ SerialInv

----------------------------------------------------------------------------
(* Every step keeps BaseInv.                                               *)

\* The initial state satisfies the invariant.
LEMMA BaseInit == Init => BaseInv
  <1> SUFFICES ASSUME Init PROVE BaseInv
    OBVIOUS
  <1>1. TypeOK
    <2>1. 0 \in 0 .. MaxConfig /\ 0 \in 0 .. MaxFaults
      BY LifecycleBounds
    <2>2. overlapped \in BOOLEAN
      BY Zenon DEF Init
    <2> QED
      BY <2>1, <2>2 DEF Init, TypeOK, Up, CommandSteps, Ops
  <1>2. LockMatches
    BY NoOneDistinct DEF Init, LockMatches, Holding, Handled
  <1>3. RecordWritten /\ ActsOn
    BY DEF Init, RecordWritten, ActsOn
  <1> QED
    BY <1>1, <1>2, <1>3 DEF BaseInv

\* A command's step keeps BaseInv.
LEMMA BaseCommand ==
  ASSUME BaseInv, NEW c \in Commands, CommandStep(c)
  PROVE  BaseInv'
  <1> USE NoOneDistinct, LifecycleBounds
      DEF BaseInv, TypeOK, LockMatches, RecordWritten, ActsOn, Up, Unhandled, Handled,
          Holding, CommandSteps, Ops, Goto, Act, Done, AfterStop, CommandFrame,
          DaemonFrame, Live, Die, Signal, daemon, Fault, Owned, PidAlive, RecordOwned,
          RecordUnverified, RecordStale
  <1>1. ASSUME NEW o \in {"start", "stop", "reconfigure"}, Begin(c, o)
        PROVE  BaseInv'
    BY <1>1 DEF Begin
  <1>2. ASSUME NEW d \in Daemons, Spawn(c, d) PROVE BaseInv'
    BY <1>2 DEF Spawn
  <1>3. CASE StartRead(c)
    BY <1>3 DEF StartRead
  <1>4. CASE DropStale(c)
    BY <1>4 DEF DropStale
  <1>5. CASE SpawnFails(c)
    BY <1>5 DEF SpawnFails
  <1>6. CASE StartSucceeds(c)
    BY <1>6 DEF StartSucceeds
  <1>7. CASE StartGivesUp(c)
    BY <1>7 DEF StartGivesUp
  <1>8. CASE ReapChild(c)
    BY <1>8 DEF ReapChild
  <1>9. CASE StopRead(c)
    BY <1>9 DEF StopRead
  <1>10. CASE StopSignal(c)
    BY <1>10 DEF StopSignal
  <1>11. CASE StopWaits(c)
    BY <1>11 DEF StopWaits
  <1>12. CASE CheckRunning(c)
    BY <1>12 DEF CheckRunning
  <1>13. CASE WriteConfig(c)
    BY <1>13 DEF WriteConfig
  <1>14. CASE Interrupt(c)
    BY <1>14 DEF Interrupt
  <1> QED
    BY <1>1, <1>2, <1>3, <1>4, <1>5, <1>6, <1>7, <1>8, <1>9, <1>10, <1>11, <1>12, <1>13, <1>14 DEF CommandStep

\* A daemon's step, or its end, keeps BaseInv.
LEMMA BaseDaemon ==
  ASSUME BaseInv, NEW d \in Daemons,
         ServeStep(d) \/ CrashDaemon(d) \/ ReusePid(d) \/ StrangerEnds(d)
  PROVE  BaseInv'
  <1> USE NoOneDistinct, LifecycleBounds
      DEF BaseInv, TypeOK, LockMatches, RecordWritten, ActsOn, Up, Unhandled, Handled,
          Holding, CommandSteps, Ops, Goto, Act, Done, AfterStop, CommandFrame,
          DaemonFrame, Live, Die, Signal, daemon, Fault, Owned, PidAlive, RecordOwned,
          RecordUnverified, RecordStale
  <1>1. CASE LoadConfig(d)
    BY <1>1 DEF LoadConfig
  <1>2. CASE TakeLock(d)
    BY <1>2 DEF TakeLock
  <1>3. CASE CheckRecord(d)
    BY <1>3 DEF CheckRecord
  <1>4. CASE WriteRecord(d)
    BY <1>4 DEF WriteRecord
  <1>5. CASE LeaveLoop(d)
    BY <1>5 DEF LeaveLoop
  <1>6. CASE ReadOwnRecord(d)
    BY <1>6 DEF ReadOwnRecord
  <1>7. CASE RemoveRecord(d)
    BY <1>7 DEF RemoveRecord
  <1>8. CASE CrashDaemon(d)
    BY <1>8 DEF CrashDaemon
  <1>9. CASE ReusePid(d)
    BY <1>9 DEF ReusePid
  <1>10. CASE StrangerEnds(d)
    BY <1>10 DEF StrangerEnds
  <1> QED
    BY <1>1, <1>2, <1>3, <1>4, <1>5, <1>6, <1>7, <1>8, <1>9, <1>10 DEF ServeStep

----------------------------------------------------------------------------
(* And SerialInv.                                                          *)

\* A command's step keeps what serial commands know.
LEMMA SerialCommand ==
  ASSUME IInv, NEW c \in Commands, CommandStep(c)
  PROVE  SerialInv'
  <1> USE NoOneDistinct, LifecycleBounds
      DEF IInv, SerialInv, OneCommand, CommandKnows, FoundOrLaunched, Loaded,
          Launching, NoneUp, BaseInv, TypeOK, LockMatches, RecordWritten, ActsOn, Up,
          Unhandled, Handled, Holding, CommandSteps, Ops, Goto, Act, Done, AfterStop, CommandFrame,
          DaemonFrame, Live, Die, Signal, daemon, Fault, Owned, PidAlive, RecordOwned,
          RecordUnverified, RecordStale
  <1>1. ASSUME NEW o \in {"start", "stop", "reconfigure"}, Begin(c, o)
        PROVE  SerialInv'
    <2> SUFFICES ASSUME ~overlapped' PROVE SerialInv'
      OBVIOUS
    <2>1. ~overlapped /\ \A other \in Commands : at[other] = "idle"
      BY <1>1, Zenon DEF Begin
    <2>2. at' = [at EXCEPT ![c] = CASE o = "start" -> "s_read" [] o = "stop" -> "t_read"
                                    [] OTHER -> "r_check"]
      BY <1>1 DEF Begin
    <2>3. at'[c] \in {"s_read", "t_read", "r_check"}
      BY <2>2
    <2>4. \A other \in Commands : other # c => at'[other] = "idle"
      BY <2>1, <2>2
    <2>5. UNCHANGED <<daemon, record, config, seen>>
      BY <1>1 DEF Begin
    <2> QED
      BY <2>1, <2>3, <2>4, <2>5
  <1>2. ASSUME NEW d \in Daemons, Spawn(c, d) PROVE SerialInv'
    BY <1>2 DEF Spawn
  <1>3. CASE StartRead(c)
    BY <1>3 DEF StartRead
  <1>4. CASE DropStale(c)
    BY <1>4 DEF DropStale
  <1>5. CASE SpawnFails(c)
    BY <1>5 DEF SpawnFails
  <1>6. CASE StartSucceeds(c)
    BY <1>6 DEF StartSucceeds
  <1>7. CASE StartGivesUp(c)
    BY <1>7 DEF StartGivesUp
  <1>8. CASE ReapChild(c)
    BY <1>8 DEF ReapChild
  <1>9. CASE StopRead(c)
    BY <1>9 DEF StopRead
  <1>10. CASE StopSignal(c)
    BY <1>10 DEF StopSignal
  <1>11. CASE StopWaits(c)
    BY <1>11 DEF StopWaits
  <1>12. CASE CheckRunning(c)
    BY <1>12 DEF CheckRunning
  <1>13. CASE WriteConfig(c)
    BY <1>13 DEF WriteConfig
  <1>14. CASE Interrupt(c)
    BY <1>14 DEF Interrupt
  <1> QED
    BY <1>1, <1>2, <1>3, <1>4, <1>5, <1>6, <1>7, <1>8, <1>9, <1>10, <1>11, <1>12, <1>13, <1>14 DEF CommandStep

\* A daemon's step, or its end, keeps it too.
LEMMA SerialDaemon ==
  ASSUME IInv, NEW d \in Daemons,
         ServeStep(d) \/ CrashDaemon(d) \/ ReusePid(d) \/ StrangerEnds(d)
  PROVE  SerialInv'
  <1> USE NoOneDistinct, LifecycleBounds
      DEF IInv, SerialInv, OneCommand, CommandKnows, FoundOrLaunched, Loaded,
          Launching, NoneUp, BaseInv, TypeOK, LockMatches, RecordWritten, ActsOn, Up,
          Unhandled, Handled, Holding, CommandSteps, Ops, Goto, Act, Done, AfterStop, CommandFrame,
          DaemonFrame, Live, Die, Signal, daemon, Fault, Owned, PidAlive, RecordOwned,
          RecordUnverified, RecordStale
  <1>1. CASE LoadConfig(d)
    BY <1>1 DEF LoadConfig
  <1>2. CASE TakeLock(d)
    BY <1>2 DEF TakeLock
  <1>3. CASE CheckRecord(d)
    BY <1>3 DEF CheckRecord
  <1>4. CASE WriteRecord(d)
    BY <1>4 DEF WriteRecord
  <1>5. CASE LeaveLoop(d)
    BY <1>5 DEF LeaveLoop
  <1>6. CASE ReadOwnRecord(d)
    BY <1>6 DEF ReadOwnRecord
  <1>7. CASE RemoveRecord(d)
    BY <1>7 DEF RemoveRecord
  <1>8. CASE CrashDaemon(d)
    BY <1>8 DEF CrashDaemon
  <1>9. CASE ReusePid(d)
    BY <1>9 DEF ReusePid
  <1>10. CASE StrangerEnds(d)
    BY <1>10 DEF StrangerEnds
  <1> QED
    BY <1>1, <1>2, <1>3, <1>4, <1>5, <1>6, <1>7, <1>8, <1>9, <1>10 DEF ServeStep

----------------------------------------------------------------------------
(* The theorems.                                                           *)

\* IInv holds initially and every step keeps it.
THEOREM LifecycleInvariant == Spec => []IInv
  <1>1. Init => IInv
    <2>1. Init => SerialInv
      BY DEF Init, SerialInv, OneCommand, CommandKnows, FoundOrLaunched, Loaded, NoneUp,
             Owned, Up, Unhandled, Handled
    <2> QED
      BY <2>1, BaseInit DEF IInv
  <1>2. IInv /\ [Next]_vars => IInv'
    <2> SUFFICES ASSUME IInv, [Next]_vars PROVE IInv'
      OBVIOUS
    <2>1. BaseInv
      BY DEF IInv
    <2>2. CASE \E c \in Commands : CommandStep(c)
      BY <2>1, <2>2, BaseCommand, SerialCommand DEF IInv
    <2>3. CASE \E d \in Daemons :
                 ServeStep(d) \/ CrashDaemon(d) \/ ReusePid(d) \/ StrangerEnds(d)
      BY <2>1, <2>3, BaseDaemon, SerialDaemon DEF IInv
    <2>4. CASE UNCHANGED vars
      BY <2>4
      DEF vars, IInv, BaseInv, TypeOK, LockMatches, RecordWritten, ActsOn, SerialInv,
          OneCommand, CommandKnows, FoundOrLaunched, Loaded, Launching, NoneUp, Owned
    <2> QED
      BY <2>2, <2>3, <2>4 DEF Next
  <1> QED
    BY <1>1, <1>2, PTL DEF Spec

\* Every variable keeps its type, whatever dies and whoever runs a command.
THEOREM LifecycleTyped == Spec => []TypeOK
  <1>1. IInv => TypeOK
    BY DEF IInv, BaseInv
  <1> QED
    BY <1>1, LifecycleInvariant, PTL

\* The lifetime lock permits one service per runtime directory, for any number of
\* commands and launches.
THEOREM OneServiceHolds == Spec => []OneService
  <1>1. IInv => OneService
    BY DEF IInv, BaseInv, LockMatches, Holding, OneService
  <1> QED
    BY <1>1, LifecycleInvariant, PTL

\* Commands that run one after the other, crashes and stale records included, leave no
\* live service that the record does not name.
THEOREM ServiceAlwaysFound == Spec => []ServiceFound
  <1>1. IInv => ServiceFound
    BY DEF IInv, SerialInv, FoundOrLaunched, Launching, ServiceFound, AllIdle
  <1> QED
    BY <1>1, LifecycleInvariant, PTL

\* And they leave it with the configuration last written.
THEOREM ServiceAlwaysUpToDate == Spec => []ServiceUpToDate
  <1>1. IInv => ServiceUpToDate
    <2> SUFFICES ASSUME IInv, ~overlapped, AllIdle, NEW d \in Daemons, Owned(d)
                 PROVE  conf[d] = config
      BY DEF ServiceUpToDate
    <2>1. record = d
      BY DEF IInv, SerialInv, FoundOrLaunched, Launching, AllIdle
    <2>2. life[d] # "boot"
      BY <2>1, NoOneDistinct DEF IInv, BaseInv, RecordWritten
    <2> QED
      BY <2>2 DEF IInv, SerialInv, Loaded
  <1> QED
    BY <1>1, LifecycleInvariant, PTL
=============================================================================
