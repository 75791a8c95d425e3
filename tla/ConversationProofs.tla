-------------------------- MODULE ConversationProofs --------------------------
(***************************************************************************)
(* Proofs about Conversation, for any number of conversations, switches,   *)
(* gates and faults: the account is never changed under a worker, the      *)
(* marker of a switch that lives is its own, and a notice is marked only   *)
(* after it was taken and repeated once per fault.                         *)
(***************************************************************************)
EXTENDS Conversation, TLAPS

----------------------------------------------------------------------------
(* Types.                                                                  *)

\* The initial state is well typed.
LEMMA TypeInit == Init => TypeOK
  <1> SUFFICES ASSUME Init PROVE TypeOK
    OBVIOUS
  <1> USE ConvConstants, SwitchConstants, NoticeConstants
  <1>1. ConvTypeOK
    BY DEF Init, ConvInit, ConvTypeOK
  <1>2. SwitchTypeOK
    BY DEF Init, SwitchInit, SwitchTypeOK, NoMarker, NoWorker, Binding
  <1>3. NoticeTypeOK
    BY DEF Init, NoticeInit, NoticeTypeOK, NoSnap, Notices, Completed
  <1> QED
    BY <1>1, <1>2, <1>3 DEF TypeOK

\* A session that begins is one of the conversations.
LEMMA BeginTyped ==
  ASSUME ConvTypeOK, Begin
  PROVE  conv' \in [Convs -> {"unborn", "busy", "idle", "gone"}]
  <1>1. New \in Convs
    BY DEF Begin, Unborn, New
  <1> QED
    BY <1>1 DEF ConvTypeOK, Begin

\* A conversation's step is well typed.
LEMMA TypeConv ==
  ASSUME TypeOK, ConvNext, UNCHANGED <<switchVars, noticeVars>>
  PROVE  TypeOK'
  <1>1. ConvTypeOK'
    <2>1. CASE Open
      BY <2>1, BeginTyped, ConvConstants DEF TypeOK, ConvTypeOK, Open, Fault
    <2>2. ASSUME NEW c \in Convs, Talk(c) PROVE ConvTypeOK'
      BY <2>2 DEF TypeOK, ConvTypeOK, Talk
    <2> QED
      BY <2>1, <2>2 DEF ConvNext
  <1>2. SwitchTypeOK'
    BY DEF TypeOK, SwitchTypeOK, switchVars, switching, acquiring
  <1>3. NoticeTypeOK'
    BY DEF TypeOK, NoticeTypeOK, noticeVars, Notices
  <1> QED
    BY <1>1, <1>2, <1>3 DEF TypeOK

\* A step of binding the account is well typed.
LEMMA TypeBind ==
  ASSUME TypeOK, NEW s \in Switches, Bind(s), UNCHANGED noticeVars
  PROVE  TypeOK'
  <1> USE ConvConstants, SwitchConstants
      DEF TypeOK, ConvTypeOK, SwitchTypeOK, Binding, MoveScheduler, MoveHelper, Move, Last,
          Reclaimed, NoMarker, BindFrame, acquiring
  <1>0. NoticeTypeOK'
    BY DEF NoticeTypeOK, noticeVars, Notices
  <1>1. CASE SchedulerBinds(s)
    BY <1>0, <1>1 DEF SchedulerBinds, Chosen
  <1>2. CASE HelperBinds(s)
    BY <1>0, <1>2 DEF HelperBinds
  <1>3. CASE Configure(s)
    BY <1>0, <1>3 DEF Configure, SetConfig
  <1>4. CASE Mark(s)
    BY <1>0, <1>4 DEF Mark
  <1>5. CASE KillReplaced(s)
    BY <1>0, <1>5 DEF KillReplaced, Kill
  <1>6. CASE SpawnReplacement(s)
    <2>1. conv' \in [Convs -> {"unborn", "busy", "idle", "gone"}]
      BY <1>6, BeginTyped DEF SpawnReplacement, Spawn
    <2> QED
      BY <1>0, <1>6, <2>1 DEF SpawnReplacement, Spawn
  <1> QED
    BY <1>1, <1>2, <1>3, <1>4, <1>5, <1>6 DEF Bind

\* A step of a scheduler, of a helper or of the worker is well typed.
LEMMA TypeSwitch ==
  ASSUME TypeOK, SwitchNext, UNCHANGED noticeVars
  PROVE  TypeOK'
  <1> USE ConvConstants, SwitchConstants
      DEF ConvTypeOK, SwitchTypeOK, Binding, MoveScheduler, MoveHelper, Move, Last,
          Reclaimed, NoMarker, NoWorker, BindFrame, HelperFrame, WorkerFrame, ClearedBy, acquiring
  <1>0. NoticeTypeOK'
    BY DEF TypeOK, NoticeTypeOK, noticeVars, Notices
  <1>1. ASSUME NEW s \in Switches, InFlight(s)
        PROVE  /\ conv' \in [Convs -> {"unborn", "busy", "idle", "gone"}]
               /\ bound' \in Accounts
    BY <1>1, BeginTyped DEF TypeOK, InFlight, SetConfig, Kill, Reregister, Spawn
  <1>2. ASSUME NEW s \in Switches, Ask(s) \/ StartHelper(s) \/ Attach(s) PROVE TypeOK'
    <2>1. CASE Ask(s)
      BY <1>0, <2>1 DEF TypeOK, Ask
    <2>2. CASE StartHelper(s)
      BY <1>0, <2>2 DEF TypeOK, StartHelper
    <2>3. CASE Attach(s)
      BY <1>0, <2>3 DEF TypeOK, Attach
    <2> QED
      BY <1>2, <2>1, <2>2, <2>3
  <1>3. ASSUME NEW s \in Switches,
               SeesSource(s) \/ MissesSource(s) \/ GivesUp(s) \/ Leave(s)
        PROVE  TypeOK'
    <2>1. CASE SeesSource(s) \/ MissesSource(s)
      BY <1>0, <2>1 DEF TypeOK, SeesSource, MissesSource, Fault
    <2>2. CASE GivesUp(s)
      BY <1>0, <2>2 DEF TypeOK, GivesUp
    <2>3. CASE Leave(s)
      BY <1>0, <2>3 DEF TypeOK, Leave
    <2> QED
      BY <1>3, <2>1, <2>2, <2>3
  <1>4. ASSUME NEW s \in Switches, StartFails(s) PROVE TypeOK'
    BY <1>0, <1>4 DEF TypeOK, StartFails, Fault
  <1>5. ASSUME NEW s \in Switches, BindFails(s) PROVE TypeOK'
    BY <1>0, <1>1, <1>5 DEF TypeOK, BindFails, Fault
  <1>6. ASSUME NEW s \in Switches, SchedulerDies(s) \/ HelperDies(s) PROVE TypeOK'
    BY <1>0, <1>1, <1>6 DEF TypeOK, SchedulerDies, HelperDies, Fault
  <1>7. CASE Acquire \/ WorkerAppears \/ WorkerFound \/ WorkerEnds \/ WorkerForgotten
    <2>1. CASE Acquire
      BY <1>0, <2>1 DEF TypeOK, Acquire
    <2>2. CASE WorkerAppears
      BY <1>0, <2>2 DEF TypeOK, WorkerAppears
    <2>3. CASE WorkerFound \/ WorkerEnds \/ WorkerForgotten
      BY <1>0, <2>3 DEF TypeOK, WorkerFound, WorkerEnds, WorkerForgotten
    <2> QED
      BY <1>7, <2>1, <2>2, <2>3
  <1> QED
    BY <1>2, <1>3, <1>4, <1>5, <1>6, <1>7, TypeBind DEF SwitchNext, Switch, SwitchFaults

\* A step that touches the row or its delivery is well typed, for a count of messages that is
\* within its bound.
LEMMA TypeNotice ==
  ASSUME TypeOK, NoticeNext, UNCHANGED switchVars, told' <= MaxFaults + 1
  PROVE  TypeOK'
  <1> USE ConvConstants, NoticeConstants
      DEF TypeOK, ConvTypeOK, NoticeTypeOK, Notices, Completed, NoSnap, EndDelivery
  <1>0. SwitchTypeOK'
    BY DEF SwitchTypeOK, switchVars, switching, acquiring
  <1>1. ASSUME NEW c \in Dispatchers \cup {Nobody}, Dispatch(c) PROVE TypeOK'
    BY <1>0, <1>1 DEF Dispatch
  <1>2. ASSUME NEW notice \in Notices \cup {Nobody}, UpdateResult(notice) PROVE TypeOK'
    <2>1. job' \in [status : {"none", "open", Completed}, key : Notices \cup {Nobody},
                    notified : Notices \cup {Nobody}, origin : Convs \cup {Nobody}]
      BY <1>2 DEF UpdateResult
    <2> QED
      BY <1>0, <1>2, <2>1 DEF UpdateResult
  <1>3. CASE FindDue
    BY <1>0, <1>3 DEF FindDue, Due
  <1>4. CASE ChooseTarget
    <2>1. Targets(snap.origin) \subseteq Convs \cup {Nobody}
      BY DEF Targets
    <2>2. target' \in Convs \cup {Nobody}
      BY <1>4, <2>1 DEF ChooseTarget
    <2> QED
      BY <1>0, <1>4, <2>2 DEF ChooseTarget
  <1>5. CASE NoTarget
    BY <1>0, <1>5 DEF NoTarget, Fault
  <1>6. CASE Send
    BY <1>0, <1>6 DEF Send, Accept
  <1>7. CASE SendFails
    BY <1>0, <1>7 DEF SendFails, Accept, Fault
  <1>8. CASE MarkNotified
    BY <1>0, <1>8 DEF MarkNotified, Marked
  <1>9. CASE ServiceDies
    BY <1>0, <1>9 DEF ServiceDies, Fault
  <1> QED
    BY <1>1, <1>2, <1>3, <1>4, <1>5, <1>6, <1>7, <1>8, <1>9 DEF NoticeNext, Deliver

----------------------------------------------------------------------------
(* The account under a worker.                                             *)

\* No worker without a record, and none while a switch that has passed its check may write the
\* configuration.
NoneReserved ==
  /\ resv = "none" => worker.state = "none"
  /\ \A s \in Switches : lock = s /\ At(s) \in Binding => resv = "none"

AccountInv == WorkerOnBoundAccount /\ NoneReserved

\* A command in flight changes the account only when no worker is reserved.
LEMMA InFlightSafe ==
  ASSUME TypeOK, AccountInv, NEW s \in Switches, lock = s, InFlight(s)
  PROVE  bound' = bound \/ worker.state = "none"
  BY DEF InFlight, SetConfig, Kill, Reregister, Spawn, AccountInv, NoneReserved, Binding

\* A step of binding the account keeps the invariant.
LEMMA AccountBind ==
  ASSUME TypeOK, AccountInv, NEW s \in Switches, Bind(s)
  PROVE  AccountInv'
  <1> USE SwitchConstants
      DEF TypeOK, SwitchTypeOK, AccountInv, NoneReserved, WorkerOnBoundAccount, At, Binding,
          MoveScheduler, MoveHelper, Move, Last, BindFrame, acquiring
  <1>1. CASE SchedulerBinds(s)
    BY <1>1 DEF SchedulerBinds, MayBind
  <1>2. CASE HelperBinds(s)
    BY <1>2 DEF HelperBinds, MayBind
  <1>3. CASE Configure(s)
    BY <1>3 DEF Configure, SetConfig
  <1>4. CASE Mark(s)
    BY <1>4 DEF Mark
  <1>5. CASE KillReplaced(s)
    BY <1>5 DEF KillReplaced, Kill
  <1>6. CASE SpawnReplacement(s)
    BY <1>6 DEF SpawnReplacement, Spawn
  <1> QED
    BY <1>1, <1>2, <1>3, <1>4, <1>5, <1>6 DEF Bind

\* Every other step of a switch, and every step of the worker, keeps the invariant.
LEMMA AccountSwitched ==
  ASSUME TypeOK, AccountInv, SwitchNext
  PROVE  AccountInv'
  <1> USE SwitchConstants
      DEF SwitchTypeOK, NoneReserved, WorkerOnBoundAccount, At, Binding, MoveScheduler,
          MoveHelper, Move, Last, BindFrame, HelperFrame, WorkerFrame, NoWorker, acquiring
  <1>1. ASSUME NEW s \in Switches, Ask(s) \/ StartHelper(s) \/ Attach(s) \/ StartFails(s)
        PROVE  AccountInv'
    BY <1>1 DEF TypeOK, AccountInv, Ask, StartHelper, Attach, StartFails
  <1>2. ASSUME NEW s \in Switches,
               SeesSource(s) \/ MissesSource(s) \/ GivesUp(s) \/ Leave(s)
        PROVE  AccountInv'
    BY <1>2 DEF TypeOK, AccountInv, SeesSource, MissesSource, GivesUp, Leave
  <1>3. ASSUME NEW s \in Switches, BindFails(s) PROVE AccountInv'
    <2>1. bound' = bound \/ worker.state = "none"
      BY <1>3, InFlightSafe DEF BindFails
    <2> QED
      BY <1>3, <2>1 DEF TypeOK, AccountInv, BindFails
  <1>4. ASSUME NEW s \in Switches, SchedulerDies(s) PROVE AccountInv'
    <2>1. bound' = bound \/ worker.state = "none"
      BY <1>4, InFlightSafe DEF SchedulerDies
    <2> QED
      BY <1>4, <2>1 DEF TypeOK, AccountInv, SchedulerDies
  <1>5. ASSUME NEW s \in Switches, HelperDies(s) PROVE AccountInv'
    <2>1. bound' = bound \/ worker.state = "none"
      BY <1>5, InFlightSafe DEF HelperDies
    <2> QED
      BY <1>5, <2>1 DEF TypeOK, AccountInv, HelperDies
  <1>6. CASE Acquire
    BY <1>6 DEF TypeOK, AccountInv, Acquire
  <1>7. CASE WorkerAppears \/ WorkerFound \/ WorkerEnds \/ WorkerForgotten
    BY <1>7 DEF TypeOK, AccountInv, WorkerAppears, WorkerFound, WorkerEnds, WorkerForgotten
  <1> QED
    BY <1>1, <1>2, <1>3, <1>4, <1>5, <1>6, <1>7, AccountBind
    DEF SwitchNext, Switch, SwitchFaults

----------------------------------------------------------------------------
(* The marker.                                                             *)

\* Only one switch at a time is past its check and holds the global lock, a helper exists only
\* once its scheduler has started it, and a marker whose process lives is the holder's own.
LockHeld == lock \in Switches => At(lock) \in Binding
HelperStarted == \A s \in Switches : helper[s] # "none" => sched[s] \in {"started", "ended"}
MarkerHeld == lock \in Switches /\ Pending => marker.switch = lock

MarkerInv == LockHeld /\ HelperStarted /\ MarkerHeld

\* Nobody but the marker's own switch changes it, while the process that answers for it lives.
Undisturbed ==
  \A s \in Switches :
    /\ marker.switch = s /\ marker' # marker
    /\ IF marker.attached THEN helper[s] # "ended" ELSE sched[s] # "ended"
    => sched'[s] # sched[s] \/ helper'[s] # helper[s]

\* A marker that is reclaimed was not pending.
LEMMA MarkerReclaimed ==
  ASSUME TypeOK, marker' = Reclaimed
  PROVE  /\ Undisturbed
         /\ UNCHANGED <<sched, helper>> => (Pending' => Pending /\ marker' = marker)
         /\ Pending => marker' = marker
  BY SwitchConstants
  DEF TypeOK, SwitchTypeOK, Undisturbed, Reclaimed, Pending, ResponsibleAlive, NoMarker

\* While the marker stays, it can only lose the process that answers for it.
LEMMA MarkerStays ==
  ASSUME TypeOK, UNCHANGED marker,
         \A s \in Switches : /\ sched[s] = "ended" => sched'[s] = "ended"
                             /\ helper[s] = "ended" => helper'[s] = "ended"
  PROVE  Undisturbed /\ (Pending' => Pending)
  BY DEF TypeOK, SwitchTypeOK, Undisturbed, Pending, ResponsibleAlive

\* A step of binding the account keeps the invariant and disturbs no other switch.
LEMMA MarkerBind ==
  ASSUME TypeOK, MarkerInv, NEW t \in Switches, Bind(t)
  PROVE  MarkerInv' /\ Undisturbed
  <1> USE SwitchConstants
  <1>1. /\ sched \in [Switches -> Binding \cup {"unused", "asked", "marked", "started", "ended"}]
        /\ helper \in [Switches -> Binding \cup {"none", "waiting", "idle", "missing",
                                                  "leaving", "ended"}]
        /\ "ended" \notin Binding /\ "none" \notin Binding /\ "started" \notin Binding
        /\ Nobody \notin Switches
    BY DEF TypeOK, SwitchTypeOK, Binding
  <1>2. CASE SchedulerBinds(t)
    <2>1. /\ lock = Nobody /\ sched[t] = "asked" /\ UNCHANGED helper /\ marker' = Reclaimed
          /\ \/ sched' = [sched EXCEPT ![t] = "checked"] /\ lock' = t /\ MayBind(t)
             \/ sched' = [sched EXCEPT ![t] = "ended"] /\ lock' = Nobody
      BY <1>2 DEF SchedulerBinds, MoveScheduler
    <2>2. helper[t] = "none"
      BY <2>1 DEF MarkerInv, HelperStarted
    <2>3. LockHeld' /\ HelperStarted'
      BY <1>1, <2>1, <2>2 DEF MarkerInv, LockHeld, HelperStarted, At, Binding
    <2>4. MarkerHeld'
      BY <1>1, <2>1, MarkerReclaimed
      DEF MarkerHeld, MayBind, Pending, ResponsibleAlive, Reclaimed, NoMarker
    <2> QED
      BY <2>1, <2>3, <2>4, MarkerReclaimed DEF MarkerInv
  <1>3. CASE HelperBinds(t)
    <2>1. /\ lock = Nobody /\ helper[t] \in {"idle", "missing"} /\ UNCHANGED sched
          /\ marker' = Reclaimed
          /\ \/ helper' = [helper EXCEPT ![t] = "checked"] /\ lock' = t /\ MayBind(t)
             \/ helper' = [helper EXCEPT ![t] = "leaving"] /\ lock' = Nobody
      BY <1>3 DEF HelperBinds, MoveHelper
    <2>2. LockHeld' /\ HelperStarted'
      BY <1>1, <2>1 DEF MarkerInv, LockHeld, HelperStarted, At, Binding
    <2>3. MarkerHeld'
      BY <1>1, <2>1, MarkerReclaimed
      DEF MarkerHeld, MayBind, Pending, ResponsibleAlive, Reclaimed, NoMarker
    <2> QED
      BY <2>1, <2>2, <2>3, MarkerReclaimed DEF MarkerInv
  <1>4. CASE Mark(t)
    <2>1. /\ lock = t /\ helper[t] = "none" /\ sched[t] = "configured" /\ lock' = Nobody
          /\ sched' = [sched EXCEPT ![t] = "marked"] /\ UNCHANGED helper
          /\ marker' = [switch |-> t, attached |-> FALSE]
      BY <1>4 DEF Mark, Restarts, At, MoveScheduler
    <2>2. MarkerInv'
      BY <1>1, <2>1 DEF MarkerInv, LockHeld, HelperStarted, MarkerHeld
    <2>3. Pending => marker.switch = t
      BY <2>1 DEF MarkerInv, MarkerHeld
    <2>4. Undisturbed
      BY <1>1, <2>1, <2>3 DEF Undisturbed, Pending, ResponsibleAlive
    <2> QED
      BY <2>2, <2>4
  <1>5. CASE Configure(t) \/ KillReplaced(t) \/ SpawnReplacement(t)
    <2>1. /\ lock = t /\ At(t) \in Binding /\ UNCHANGED marker
          /\ \/ lock' = t /\ \E p \in Binding : Move(t, p)
             \/ lock' = Nobody /\ Move(t, Last(t))
      BY <1>5 DEF Configure, KillReplaced, SpawnReplacement, Binding
    <2>2. \/ /\ helper[t] = "none" /\ sched[t] \in Binding /\ UNCHANGED helper
             /\ \/ lock' = t /\ \E p \in Binding : sched' = [sched EXCEPT ![t] = p]
                \/ lock' = Nobody /\ sched' = [sched EXCEPT ![t] = "ended"]
          \/ /\ helper[t] \in Binding /\ UNCHANGED sched
             /\ \/ lock' = t /\ \E p \in Binding : helper' = [helper EXCEPT ![t] = p]
                \/ lock' = Nobody /\ helper' = [helper EXCEPT ![t] = "leaving"]
      BY <2>1 DEF At, Move, Last, MoveScheduler, MoveHelper
    <2>3. \A s \in Switches : /\ sched[s] = "ended" => sched'[s] = "ended"
                              /\ helper[s] = "ended" => helper'[s] = "ended"
      BY <1>1, <2>2
    <2>4. Undisturbed /\ (Pending' => Pending)
      BY <2>1, <2>3, MarkerStays
    <2>5. LockHeld' /\ HelperStarted'
      BY <1>1, <2>2 DEF MarkerInv, LockHeld, HelperStarted, At
    <2>6. MarkerHeld'
      BY <1>1, <2>1, <2>4 DEF MarkerInv, MarkerHeld
    <2> QED
      BY <2>4, <2>5, <2>6 DEF MarkerInv
  <1> QED
    BY <1>2, <1>3, <1>4, <1>5 DEF Bind

\* So does every other step of a switch, and every step of the worker.
LEMMA MarkerSwitched ==
  ASSUME TypeOK, MarkerInv, SwitchNext
  PROVE  MarkerInv' /\ Undisturbed
  <1> USE SwitchConstants
  <1>1. /\ sched \in [Switches -> Binding \cup {"unused", "asked", "marked", "started", "ended"}]
        /\ helper \in [Switches -> Binding \cup {"none", "waiting", "idle", "missing",
                                                  "leaving", "ended"}]
        /\ "ended" \notin Binding /\ "none" \notin Binding /\ "started" \notin Binding
        /\ "marked" \notin Binding /\ "waiting" \notin Binding
        /\ "unused" \notin Binding /\ "leaving" \notin Binding
        /\ Nobody \notin Switches
    BY DEF TypeOK, SwitchTypeOK, Binding
  <1>2. ASSUME NEW t \in Switches, Ask(t) \/ StartHelper(t) PROVE MarkerInv' /\ Undisturbed
    <2>1. /\ UNCHANGED <<lock, marker>>
          /\ \/ sched[t] = "unused" /\ sched' = [sched EXCEPT ![t] = "asked"]
                /\ UNCHANGED helper
             \/ sched[t] = "marked" /\ sched' = [sched EXCEPT ![t] = "started"]
                /\ helper' = [helper EXCEPT ![t] = "waiting"]
      BY <1>2 DEF Ask, StartHelper, MoveScheduler
    <2>2. helper[t] = "none"
      BY <2>1 DEF MarkerInv, HelperStarted
    <2>3. Undisturbed /\ (Pending' => Pending)
      BY <1>1, <2>1, <2>2, MarkerStays
    <2>4. lock # t
      BY <1>1, <2>1, <2>2 DEF MarkerInv, LockHeld, At
    <2>5. MarkerInv'
      BY <1>1, <2>1, <2>2, <2>3, <2>4 DEF MarkerInv, LockHeld, HelperStarted, MarkerHeld, At
    <2> QED
      BY <2>3, <2>5
  <1>3. ASSUME NEW t \in Switches, StartFails(t) \/ Attach(t) \/ Leave(t)
        PROVE  MarkerInv' /\ Undisturbed
    <2>1. /\ lock = Nobody /\ lock' = Nobody
          /\ \/ /\ sched[t] \in {"marked", "started"} /\ UNCHANGED helper
                /\ sched' = [sched EXCEPT ![t] = "ended"]
             \/ /\ helper[t] = "leaving" /\ UNCHANGED sched
                /\ helper' = [helper EXCEPT ![t] = "ended"]
          /\ marker.switch # t => marker' = marker
      BY <1>3 DEF StartFails, Attach, Leave, MoveScheduler, ClearedBy, HelperFrame
    <2>2. MarkerInv'
      BY <1>1, <2>1 DEF MarkerInv, LockHeld, HelperStarted, MarkerHeld
    <2>3. Undisturbed
      BY <1>1, <2>1 DEF Undisturbed
    <2> QED
      BY <2>2, <2>3
  <1>4. ASSUME NEW t \in Switches, SeesSource(t) \/ MissesSource(t) \/ GivesUp(t)
        PROVE  MarkerInv' /\ Undisturbed
    <2>1. /\ helper[t] = "waiting" /\ UNCHANGED <<sched, lock, marker>>
          /\ \E p \in {"idle", "missing", "leaving"} : helper' = [helper EXCEPT ![t] = p]
      BY <1>4 DEF SeesSource, MissesSource, GivesUp, HelperFrame
    <2>2. Undisturbed /\ (Pending' => Pending)
      BY <1>1, <2>1, MarkerStays
    <2>3. MarkerInv'
      BY <1>1, <2>1, <2>2 DEF MarkerInv, LockHeld, HelperStarted, MarkerHeld, At
    <2> QED
      BY <2>2, <2>3
  <1>5. ASSUME NEW t \in Switches, BindFails(t) PROVE MarkerInv' /\ Undisturbed
    <2>1. /\ lock = t /\ At(t) \in Binding /\ lock' = Nobody /\ UNCHANGED marker
          /\ Move(t, Last(t))
      BY <1>5 DEF BindFails, MarkerInv, LockHeld
    <2>2. \/ /\ helper[t] = "none" /\ UNCHANGED helper
             /\ sched' = [sched EXCEPT ![t] = "ended"]
          \/ /\ helper[t] \in Binding /\ UNCHANGED sched
             /\ helper' = [helper EXCEPT ![t] = "leaving"]
      BY <2>1 DEF At, Move, Last, MoveScheduler, MoveHelper
    <2>3. Undisturbed
      BY <1>1, <2>1, <2>2, MarkerStays
    <2>4. MarkerInv'
      BY <1>1, <2>1, <2>2 DEF MarkerInv, LockHeld, HelperStarted, MarkerHeld
    <2> QED
      BY <2>3, <2>4
  <1>6. ASSUME NEW t \in Switches, SchedulerDies(t) \/ HelperDies(t)
        PROVE  MarkerInv' /\ Undisturbed
    <2>1. /\ UNCHANGED marker
          /\ \/ /\ sched[t] # "unused" /\ sched' = [sched EXCEPT ![t] = "ended"]
                /\ UNCHANGED helper
                /\ lock' = IF lock = t /\ helper[t] = "none" THEN Nobody ELSE lock
             \/ /\ helper[t] # "none" /\ helper' = [helper EXCEPT ![t] = "ended"]
                /\ UNCHANGED sched
                /\ lock' = IF lock = t THEN Nobody ELSE lock
      BY <1>6 DEF SchedulerDies, HelperDies, MoveScheduler, MoveHelper
    <2>2. Undisturbed /\ (Pending' => Pending)
      BY <1>1, <2>1, MarkerStays
    <2>3. MarkerInv'
      BY <1>1, <2>1, <2>2 DEF MarkerInv, LockHeld, HelperStarted, MarkerHeld, At
    <2> QED
      BY <2>2, <2>3
  <1>7. CASE Acquire
    <2>1. lock = Nobody /\ UNCHANGED <<lock, sched, helper>> /\ marker' = Reclaimed
      BY <1>7 DEF Acquire, WorkerFrame
    <2>2. MarkerInv'
      BY <1>1, <2>1 DEF MarkerInv, LockHeld, HelperStarted, MarkerHeld
    <2> QED
      BY <2>1, <2>2, MarkerReclaimed
  <1>8. CASE WorkerAppears \/ WorkerFound \/ WorkerEnds \/ WorkerForgotten
    <2>1. UNCHANGED <<lock, sched, helper, marker>>
      BY <1>8 DEF WorkerAppears, WorkerFound, WorkerEnds, WorkerForgotten, WorkerFrame
    <2> QED
      BY <2>1 DEF MarkerInv, LockHeld, HelperStarted, MarkerHeld, At, Pending,
                  ResponsibleAlive, Undisturbed
  <1> QED
    BY <1>2, <1>3, <1>4, <1>5, <1>6, <1>7, <1>8, MarkerBind DEF SwitchNext, Switch, SwitchFaults

----------------------------------------------------------------------------
(* The messages sent for a notice.                                         *)

\* What the service relies on while it delivers: the row still has the key that it read and is
\* not marked with it, or the row was begun afresh and has no key.
Delivering ==
  at # "reconciling" =>
    /\ snap.key \in Notices
    /\ \/ job.key = snap.key /\ Due
       \/ job.key = Nobody

\* What is due has been sent at most once per fault, but for the message about to be marked,
\* and nothing is marked that was not sent.
Counted ==
  /\ told <= 1 + faults
  /\ job.notified # job.key /\ at # "sent" => told <= faults
  /\ at = "sent" /\ job.key = snap.key => told > 0
  /\ job.key = Nobody => job.notified = Nobody

NoticeInv == Delivering /\ Counted

\* A step that touches the row or its delivery keeps the invariant, and is as the property asks.
LEMMA NoticeStep ==
  ASSUME TypeOK, NoticeInv, NoticeNext
  PROVE  /\ NoticeInv'
         /\ told' \in Nat /\ faults' \in 0 .. MaxFaults
         /\ job'.notified \notin {job.notified, Nobody} => job'.notified = job.key /\ told > 0
  <1> USE ConvConstants, NoticeConstants
      DEF TypeOK, ConvTypeOK, NoticeTypeOK, NoticeInv, Delivering, Counted, Due, NoSnap,
          EndDelivery
  <1>0. told \in Nat /\ faults \in Nat
    OBVIOUS
  <1>1. ASSUME NEW c \in Dispatchers \cup {Nobody}, Dispatch(c)
        PROVE  /\ NoticeInv' /\ UNCHANGED faults /\ told' \in Nat
               /\ job'.notified \in {job.notified, Nobody}
    <2>1. CASE job.status \in {"none", Completed}
      <3>1. job'.key = Nobody /\ job'.notified = Nobody /\ told' = 0
        BY <1>1, <2>1 DEF Dispatch
      <3>2. UNCHANGED <<faults, at, snap>>
        BY <1>1 DEF Dispatch
      <3>3. Delivering'
        BY <3>1, <3>2
      <3>4. Counted'
        BY <3>1, <3>2
      <3> QED
        BY <3>1, <3>2, <3>3, <3>4
    <2>2. CASE job.status \notin {"none", Completed}
      <3>1. /\ job'.key = job.key /\ job'.notified = job.notified /\ told' = told
            /\ Due => Due'
        BY <1>1, <2>2 DEF Dispatch
      <3>2. UNCHANGED <<faults, at, snap>>
        BY <1>1 DEF Dispatch
      <3>3. Delivering'
        BY <3>1, <3>2
      <3>4. Counted'
        BY <3>1, <3>2
      <3> QED
        BY <3>1, <3>2, <3>3, <3>4
    <2> QED
      BY <2>1, <2>2
  <1>2. ASSUME NEW notice \in Notices \cup {Nobody}, UpdateResult(notice)
        PROVE  NoticeInv' /\ UNCHANGED faults /\ told' \in Nat /\ job'.notified = job.notified
    <2>1. /\ job'.notified = job.notified /\ job'.origin = job.origin
          /\ job'.key = IF notice = Nobody THEN job.key ELSE notice
          /\ told' = IF job'.key = job.key THEN told ELSE 0
      BY <1>2 DEF UpdateResult
    <2> QED
      BY <1>2, <2>1 DEF UpdateResult
  <1>3. CASE FindDue
    BY <1>3 DEF FindDue
  <1>4. CASE ChooseTarget
    BY <1>4 DEF ChooseTarget
  <1>5. CASE NoTarget
    BY <1>5 DEF NoTarget, Fault
  <1>6. CASE Send
    <2>1. /\ at = "sending" /\ at' = "sent" /\ UNCHANGED <<faults, job, snap>>
          /\ told' = IF job.key = snap.key THEN told + 1 ELSE told
      BY <1>6 DEF Send, Accept
    <2> QED
      BY <2>1
  <1>7. CASE SendFails
    BY <1>7 DEF SendFails, Accept, Fault
  <1>8. CASE MarkNotified
    BY <1>8 DEF MarkNotified, Marked
  <1>9. CASE ServiceDies
    BY <1>9 DEF ServiceDies, Fault
  <1> QED
    BY <1>1, <1>2, <1>3, <1>4, <1>5, <1>6, <1>7, <1>8, <1>9 DEF NoticeNext, Deliver

----------------------------------------------------------------------------
(* The theorems.                                                           *)

IInv == TypeOK /\ AccountInv /\ MarkerInv /\ NoticeInv

\* Faults are only ever counted up, and within their bound.
LEMMA FaultsGrow ==
  ASSUME TypeOK, ConvNext \/ SwitchNext
  PROVE  faults' \in 0 .. MaxFaults /\ faults <= faults'
  BY ConvConstants
  DEF TypeOK, ConvTypeOK, ConvNext, Open, Talk, SwitchNext, Switch, SwitchFaults, Bind, Fault,
      SchedulerBinds, HelperBinds, Configure, Mark, KillReplaced, SpawnReplacement, Ask,
      StartHelper, Attach, SeesSource, GivesUp, Leave, BindFails, StartFails, SchedulerDies,
      HelperDies, MissesSource, Acquire, WorkerAppears, WorkerFound, WorkerEnds,
      WorkerForgotten, WorkerFrame

\* Bounds on a count stay bounds while faults grow.
LEMMA BoundGrows ==
  ASSUME NEW count \in Nat, NEW before \in Nat, NEW after \in Nat, before <= after
  PROVE  /\ count <= before => count <= after
         /\ count <= 1 + before => count <= 1 + after /\ count <= after + 1
  OBVIOUS

\* While the row and its delivery stay as they are, faults do no harm.
LEMMA NoticeKept ==
  ASSUME TypeOK, NoticeInv, UNCHANGED <<job, at, snap, told>>,
         faults' \in 0 .. MaxFaults, faults <= faults'
  PROVE  NoticeInv'
  <1>1. Delivering'
    BY DEF NoticeInv, Delivering, Due
  <1>2. told \in Nat /\ told' \in Nat /\ faults \in Nat /\ faults' \in Nat
    BY ConvConstants DEF TypeOK, ConvTypeOK, NoticeTypeOK
  <1>3. told' <= 1 + faults => told' <= 1 + faults'
    BY <1>2, BoundGrows
  <1>4. told' <= faults => told' <= faults'
    BY <1>2, BoundGrows
  <1>5. Counted'
    BY <1>3, <1>4 DEF NoticeInv, Counted
  <1> QED
    BY <1>1, <1>5 DEF NoticeInv

\* A step that leaves the switches and the lock alone keeps what is said of the marker.
LEMMA MarkerKept ==
  ASSUME MarkerInv, UNCHANGED switchVars
  PROVE  MarkerInv' /\ Undisturbed
  BY DEF MarkerInv, LockHeld, HelperStarted, MarkerHeld, At, Pending, ResponsibleAlive, Undisturbed,
         switchVars, switching

\* Every step keeps the invariant, and is as SwitchUndisturbed and NoticesDelivered ask.
LEMMA Step ==
  ASSUME IInv, [Next]_vars
  PROVE  /\ IInv' /\ Undisturbed
         /\ told' <= 1 + faults'
         /\ job'.notified \notin {job.notified, Nobody} => job'.notified = job.key /\ told > 0
  <1> USE ConvConstants DEF IInv
  <1>1. CASE ConvNext /\ UNCHANGED <<switchVars, noticeVars>>
    <2>1. TypeOK'
      BY <1>1, TypeConv
    <2>2. AccountInv'
      BY <1>1 DEF AccountInv, NoneReserved, WorkerOnBoundAccount, At, switchVars, switching,
                  acquiring
    <2>3. faults' \in 0 .. MaxFaults /\ faults <= faults'
      BY <1>1, FaultsGrow
    <2>4. UNCHANGED <<job, at, snap, told>>
      BY <1>1 DEF noticeVars
    <2>5. NoticeInv'
      BY <2>3, <2>4, NoticeKept
    <2>6. MarkerInv' /\ Undisturbed
      BY <1>1, MarkerKept
    <2> QED
      BY <2>1, <2>2, <2>4, <2>5, <2>6 DEF NoticeInv, Counted
  <1>2. CASE SwitchNext /\ UNCHANGED noticeVars
    <2>1. TypeOK' /\ AccountInv' /\ MarkerInv' /\ Undisturbed
      BY <1>2, TypeSwitch, AccountSwitched, MarkerSwitched
    <2>2. faults' \in 0 .. MaxFaults /\ faults <= faults'
      BY <1>2, FaultsGrow
    <2>3. UNCHANGED <<job, at, snap, told>>
      BY <1>2 DEF noticeVars
    <2>4. NoticeInv'
      BY <2>2, <2>3, NoticeKept
    <2> QED
      BY <2>1, <2>3, <2>4 DEF NoticeInv, Counted
  <1>3. CASE NoticeNext /\ UNCHANGED switchVars
    <2>1. /\ NoticeInv' /\ told' \in Nat /\ faults' \in 0 .. MaxFaults
          /\ job'.notified \notin {job.notified, Nobody} => job'.notified = job.key /\ told > 0
      BY <1>3, NoticeStep
    <2>2. told' <= 1 + faults'
      BY <2>1 DEF NoticeInv, Counted
    <2>3. TypeOK'
      <3>1. told' <= MaxFaults + 1
        <4>1. MaxFaults \in Nat /\ faults' \in Nat /\ faults' <= MaxFaults
          BY <2>1, ConvConstants
        <4> QED
          BY <2>1, <2>2, <4>1, BoundGrows
      <3> QED
        BY <1>3, <3>1, TypeNotice
    <2>4. AccountInv'
      BY <1>3 DEF AccountInv, NoneReserved, WorkerOnBoundAccount, At, switchVars, switching,
                  acquiring
    <2>5. MarkerInv' /\ Undisturbed
      BY <1>3, MarkerKept
    <2> QED
      BY <2>1, <2>2, <2>3, <2>4, <2>5
  <1>4. CASE UNCHANGED vars
    <2>1. MarkerInv' /\ Undisturbed
      BY <1>4, MarkerKept DEF vars
    <2> QED
      BY <1>4, <2>1
      DEF vars, TypeOK, ConvTypeOK, SwitchTypeOK, NoticeTypeOK, AccountInv, NoneReserved,
          WorkerOnBoundAccount, At, NoticeInv, Delivering, Counted, Due, switchVars, switching,
          acquiring, noticeVars
  <1> QED
    BY <1>1, <1>2, <1>3, <1>4 DEF Next

\* The invariant holds always.
THEOREM ConversationInvariant == Spec => []IInv
  <1>1. Init => IInv
    <2> SUFFICES ASSUME Init PROVE IInv
      OBVIOUS
    <2>1. AccountInv
      BY SwitchConstants
      DEF Init, SwitchInit, NoWorker, AccountInv, NoneReserved, WorkerOnBoundAccount
    <2>2. NoticeInv
      BY ConvConstants DEF Init, ConvInit, NoticeInit, NoticeInv, Delivering, Counted, Due
    <2>3. MarkerInv
      BY SwitchConstants DEF Init, SwitchInit, MarkerInv, LockHeld, HelperStarted, MarkerHeld
    <2> QED
      BY TypeInit, <2>1, <2>2, <2>3 DEF IInv
  <1>2. IInv /\ [Next]_vars => IInv'
    BY Step
  <1> QED
    BY <1>1, <1>2, PTL DEF Spec

\* Every state of the composition is well typed (TypeOK).
THEOREM ConversationTyped == Spec => []TypeOK
  <1>1. IInv => TypeOK
    BY DEF IInv
  <1> QED
    BY <1>1, ConversationInvariant, PTL

\* The account is never changed under a worker that runs or may still start.
THEOREM AccountKept == Spec => []WorkerOnBoundAccount
  <1>1. IInv => WorkerOnBoundAccount
    BY DEF IInv, AccountInv
  <1> QED
    BY <1>1, ConversationInvariant, PTL

\* While the process that answers for a marker lives, only the marker's own switch changes it.
THEOREM MarkerItsOwn == Spec => SwitchUndisturbed
  <1>1. IInv /\ [Next]_vars => [Undisturbed]_vars
    BY Step
  <1> QED
    BY <1>1, ConversationInvariant, PTL DEF Spec, SwitchUndisturbed, Undisturbed

\* A notice is marked only after a conversation took it, and sent again once per fault at most.
THEOREM NoticeOncePerFault == Spec => NoticesDelivered
  <1>1. IInv /\ [Next]_vars
          => [/\ told' <= 1 + faults'
              /\ job'.notified \notin {job.notified, Nobody}
                   => job'.notified = job.key /\ told > 0]_vars
    BY Step
  <1> QED
    BY <1>1, ConversationInvariant, PTL DEF Spec, NoticesDelivered
=============================================================================
