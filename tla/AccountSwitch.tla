---------------------------- MODULE AccountSwitch ----------------------------
(***************************************************************************)
(* Changing the Claude account of an Agent Orchestrator project            *)
(* (project_accounts.py, account_switch.py, locking.py).  A switch that is *)
(* scheduled from a conversation binds the account at once, leaves a       *)
(* marker that holds up new workers, and has a detached helper replace the *)
(* conversation when its turn is over.  The supervisor acquires a worker   *)
(* beside it, under the same global lock.                                  *)
(***************************************************************************)
EXTENDS Orchestrators

CONSTANTS
  Switches,      \* requests to change the account
  Manual,        \* those made by hand: `oa project bind-account --restart`
  Accounts,
  Default        \* the account of a project that nobody configured, as in the beginning

ASSUME SwitchConstants ==
  Manual \subseteq Switches /\ Default \in Accounts /\ Nobody \notin Switches

VARIABLES
  bound,         \* the account in AO's project configuration
  marker,        \* the account-switch marker: its switch, whether a helper is attached
  sched,         \* position of the process that schedules or makes each switch
  helper,        \* position of each switch's helper
  want,          \* the account that each switch asks for
  source,        \* the conversation that each switch replaces
  lock,          \* holder of the global lock: the switch that is binding, or Nobody
  resv,          \* the acquisition record of the project's work item
  worker         \* its worker in AO, and the account that it runs under

switching == <<bound, marker, sched, helper, want, source, lock>>
acquiring == <<resv, worker>>
switchVars == <<switching, acquiring>>

NoWorker == [state |-> "none", account |-> Default]
NoMarker == [switch |-> Nobody, attached |-> FALSE]
Binding == {"checked", "configured", "killed"}

SwitchTypeOK ==
  /\ bound \in Accounts /\ want \in [Switches -> Accounts] /\ source \in [Switches -> Convs]
  /\ marker \in [switch : Switches \cup {Nobody}, attached : BOOLEAN]
  /\ sched \in [Switches -> Binding \cup {"unused", "asked", "marked", "started", "ended"}]
  /\ helper \in [Switches -> Binding \cup {"none", "waiting", "idle", "missing", "leaving",
                                            "ended"}]
  /\ lock \in Switches \cup {Nobody}
  /\ resv \in {"none", "pending", "worker"}
  /\ worker \in [state : {"none", "requested", "active"}, account : Accounts]

SwitchInit ==
  /\ bound = Default /\ marker = NoMarker /\ lock = Nobody
  /\ sched = [s \in Switches |-> "unused"] /\ helper = [s \in Switches |-> "none"]
  /\ want \in [Switches -> Accounts \ {Default}] /\ source = [s \in Switches |-> First]
  /\ resv = "none" /\ worker = NoWorker

----------------------------------------------------------------------------
(* The marker.                                                             *)

\* Mutant: the scheduler answers for the marker also after a helper is attached.
SchedulerAnswers == sched[marker.switch] # "ended"

\* The pid that account_switch_pending looks for: the helper's once it is attached, the
\* scheduler's before.
ResponsibleAlive ==
  LET s == marker.switch
  IN IF marker.attached THEN helper[s] # "ended" ELSE sched[s] # "ended"

\* Mutant: a marker is pending whether or not the process that answers for it lives.
MarkerStands == marker.switch # Nobody

\* account_switch_pending; a marker that nobody is responsible for is removed.
Pending == marker.switch # Nobody /\ ResponsibleAlive
Reclaimed == IF Pending THEN marker ELSE NoMarker

\* clear_account_switch_pending.
ClearedBy(s) == IF marker.switch = s THEN NoMarker ELSE marker

----------------------------------------------------------------------------
(* bind_ao_project_account, by the scheduler, by a helper, or by hand.     *)

\* The scheduler only binds; a helper, and a switch made by hand, replace as well.
Restarts(s) == s \in Manual \/ helper[s] # "none"

\* Mutant: it looks at the workers that run and not at those reserved.
MayBindBesideReservation(s) ==
  /\ Pending => marker.switch = s
  /\ worker.state # "active"

\* What it checks under the global lock: no other switch is pending, no worker is reserved,
\* none is active.
MayBind(s) ==
  /\ Pending => marker.switch = s
  /\ resv = "none"
  /\ worker.state # "active"

\* A switch made by hand names no conversation: it replaces the only one, if there is one.
Chosen(s) ==
  IF s \notin Manual THEN UNCHANGED source
  ELSE IF \A c \in Convs : ~Active(c) THEN UNCHANGED source
  ELSE \E c \in Convs : Active(c) /\ source' = [source EXCEPT ![s] = c]

MoveScheduler(s, at) == sched' = [sched EXCEPT ![s] = at] /\ UNCHANGED helper
MoveHelper(s, at) == helper' = [helper EXCEPT ![s] = at] /\ UNCHANGED sched

BindFrame == UNCHANGED <<want, source, acquiring>>
Ambiguous(s) == s \in Manual /\ \E c, d \in Convs : c # d /\ Active(c) /\ Active(d)

SchedulerBinds(s) ==
  /\ sched[s] = "asked" /\ lock = Nobody
  /\ IF MayBind(s) /\ ~Ambiguous(s)
       THEN MoveScheduler(s, "checked") /\ lock' = s /\ Chosen(s)
       ELSE MoveScheduler(s, "ended") /\ UNCHANGED <<lock, source>>
  /\ marker' = Reclaimed
  /\ UNCHANGED <<conv, bound, faults, want, acquiring>>

HelperBinds(s) ==
  /\ helper[s] \in {"idle", "missing"} /\ lock = Nobody
  /\ IF MayBind(s) /\ (helper[s] = "missing" \/ Active(source[s]))
       THEN MoveHelper(s, "checked") /\ lock' = s
       ELSE MoveHelper(s, "leaving") /\ UNCHANGED lock
  /\ marker' = Reclaimed
  /\ UNCHANGED <<conv, bound, faults>> /\ BindFrame

\* Whoever binds for s: the helper, or the scheduler before there is one.
At(s) == IF helper[s] = "none" THEN sched[s] ELSE helper[s]
Move(s, at) == IF helper[s] = "none" THEN MoveScheduler(s, at) ELSE MoveHelper(s, at)
Last(s) == IF helper[s] = "none" THEN "ended" ELSE "leaving"

\* What the commands of Agent Orchestrator do: project set-config, session kill, spawn.
SetConfig(s) == bound' = want[s] /\ UNCHANGED conv
Kill(s) ==
  /\ conv' = IF Active(source[s]) THEN [conv EXCEPT ![source[s]] = "gone"] ELSE conv
  /\ UNCHANGED bound
Spawn == Begin /\ UNCHANGED bound

\* The configuration, and the record of the login identity.
Configure(s) ==
  /\ lock = s /\ At(s) = "checked"
  /\ SetConfig(s)
  /\ Move(s, "configured")
  /\ UNCHANGED <<marker, lock, faults>> /\ BindFrame

\* The scheduler leaves its marker and goes on to start the helper.
Mark(s) ==
  /\ lock = s /\ ~Restarts(s) /\ At(s) = "configured"
  /\ marker' = [switch |-> s, attached |-> FALSE]
  /\ lock' = Nobody
  /\ MoveScheduler(s, "marked")
  /\ UNCHANGED <<conv, bound, faults>> /\ BindFrame

KillReplaced(s) ==
  /\ lock = s /\ Restarts(s) /\ At(s) = "configured"
  /\ Kill(s)
  /\ Move(s, "killed")
  /\ UNCHANGED <<marker, lock, faults>> /\ BindFrame

SpawnReplacement(s) ==
  /\ lock = s /\ At(s) = "killed"
  /\ Spawn
  /\ lock' = Nobody
  /\ Move(s, Last(s))
  /\ UNCHANGED <<marker, faults>> /\ BindFrame

\* AO may have dropped the project with its last conversation.  The project is then added
\* again and configured again before the spawn; cut short, that leaves it unconfigured.
Reregister ==
  /\ \A c \in Convs : ~Active(c)
  /\ bound' = Default /\ UNCHANGED conv

\* The command under way when a process fails or dies may have taken effect.
InFlight(s) ==
  \/ UNCHANGED <<conv, bound>>
  \/ At(s) = "checked" /\ SetConfig(s)
  \/ At(s) = "configured" /\ Restarts(s) /\ Kill(s)
  \/ At(s) = "killed" /\ (Reregister \/ Spawn)

\* A command fails: the exception lets go of the lock.
BindFails(s) ==
  /\ Fault /\ lock = s
  /\ InFlight(s)
  /\ lock' = Nobody
  /\ Move(s, Last(s))
  /\ UNCHANGED marker /\ BindFrame

----------------------------------------------------------------------------
(* schedule_ao_project_account_switch.                                     *)

\* It is asked for by a conversation in its turn, when no worker is active, or in a terminal.
Ask(s) ==
  /\ sched[s] = "unused"
  /\ \/ s \in Manual /\ UNCHANGED source
     \/ /\ s \notin Manual /\ worker.state # "active"
        /\ \E c \in Convs : conv[c] = "busy" /\ source' = [source EXCEPT ![s] = c]
  /\ MoveScheduler(s, "asked")
  /\ UNCHANGED <<conv, bound, marker, want, lock, acquiring, faults>>

StartHelper(s) ==
  /\ sched[s] = "marked"
  /\ sched' = [sched EXCEPT ![s] = "started"]
  /\ helper' = [helper EXCEPT ![s] = "waiting"]
  /\ UNCHANGED <<conv, bound, marker, want, source, lock, acquiring, faults>>

\* The helper does not start, or its pid is not recorded.
StartFails(s) ==
  /\ Fault /\ lock = Nobody
  /\ \/ sched[s] = "marked"
     \/ sched[s] = "started" /\ marker.switch = s /\ ~marker.attached
  /\ marker' = ClearedBy(s)
  /\ MoveScheduler(s, "ended")
  /\ UNCHANGED <<conv, bound, want, source, lock, acquiring>>

\* attach_account_switch_helper, under the global lock; without its marker it raises.
Attach(s) ==
  /\ sched[s] = "started" /\ lock = Nobody
  /\ marker' = IF marker.switch = s THEN [marker EXCEPT !.attached = TRUE] ELSE marker
  /\ MoveScheduler(s, "ended")
  /\ UNCHANGED <<conv, bound, want, source, lock, acquiring, faults>>

----------------------------------------------------------------------------
(* The helper (account_switch.py).                                         *)

HelperFrame == UNCHANGED <<conv, bound, want, source, acquiring, sched>>

\* wait_until_idle.
SeesSource(s) ==
  /\ helper[s] = "waiting" /\ conv[source[s]] # "busy"
  /\ helper' = [helper EXCEPT ![s] = IF conv[source[s]] = "idle" THEN "idle" ELSE "missing"]
  /\ UNCHANGED <<marker, lock, faults>> /\ HelperFrame

\* A command that fails is taken for a session that is missing.
MissesSource(s) ==
  /\ Fault /\ helper[s] = "waiting"
  /\ helper' = [helper EXCEPT ![s] = "missing"]
  /\ UNCHANGED <<marker, lock>> /\ HelperFrame

GivesUp(s) ==
  /\ helper[s] = "waiting" /\ conv[source[s]] = "busy"
  /\ helper' = [helper EXCEPT ![s] = "leaving"]
  /\ UNCHANGED <<marker, lock, faults>> /\ HelperFrame

\* The finally block of run_switch.
Leave(s) ==
  /\ helper[s] = "leaving" /\ lock = Nobody
  /\ marker' = ClearedBy(s)
  /\ helper' = [helper EXCEPT ![s] = "ended"]
  /\ UNCHANGED <<lock, faults>> /\ HelperFrame

----------------------------------------------------------------------------
(* Deaths.                                                                 *)

SchedulerDies(s) ==
  /\ Fault /\ sched[s] \notin {"unused", "ended"}
  /\ IF lock = s /\ helper[s] = "none"
       THEN lock' = Nobody /\ InFlight(s)
       ELSE UNCHANGED <<lock, conv, bound>>
  /\ MoveScheduler(s, "ended")
  /\ UNCHANGED marker /\ BindFrame

HelperDies(s) ==
  /\ Fault /\ helper[s] \notin {"none", "ended"}
  /\ IF lock = s THEN lock' = Nobody /\ InFlight(s) ELSE UNCHANGED <<lock, conv, bound>>
  /\ MoveHelper(s, "ended")
  /\ UNCHANGED marker /\ BindFrame

----------------------------------------------------------------------------
(* The worker of the project's item (ensure_worker, cleanup_worker).       *)

WorkerFrame == UNCHANGED <<conv, bound, sched, helper, want, source, lock, faults>>

\* ensure_worker: no worker while a switch is pending.  A spawn that times out leaves its
\* record pending.
Acquire ==
  /\ lock = Nobody /\ resv = "none" /\ ~Pending
  /\ \E state \in {"active", "requested"} :
       /\ worker' = [state |-> state, account |-> bound]
       /\ resv' = IF state = "active" THEN "worker" ELSE "pending"
  /\ marker' = Reclaimed
  /\ WorkerFrame

\* The late start of a worker, and its discovery in the listing.
WorkerAppears ==
  /\ worker.state = "requested"
  /\ \E account \in {worker.account, bound} :
       worker' = [state |-> "active", account |-> account]
  /\ UNCHANGED <<resv, marker>> /\ WorkerFrame
WorkerFound ==
  /\ lock = Nobody /\ resv = "pending" /\ worker.state = "active"
  /\ resv' = "worker"
  /\ UNCHANGED <<worker, marker>> /\ WorkerFrame

\* The worker ends, and a record that names it is dropped; a pending one stays.
WorkerEnds ==
  /\ worker.state = "active"
  /\ worker' = NoWorker
  /\ UNCHANGED <<resv, marker>> /\ WorkerFrame
WorkerForgotten ==
  /\ resv = "worker" /\ worker = NoWorker
  /\ resv' = "none"
  /\ UNCHANGED <<worker, marker>> /\ WorkerFrame

----------------------------------------------------------------------------
Bind(s) ==
  \/ SchedulerBinds(s) \/ HelperBinds(s) \/ Configure(s) \/ Mark(s) \/ KillReplaced(s)
  \/ SpawnReplacement(s)
Switch(s) ==
  Bind(s) \/ StartHelper(s) \/ Attach(s) \/ SeesSource(s) \/ GivesUp(s) \/ Leave(s)
SwitchFaults(s) ==
  BindFails(s) \/ StartFails(s) \/ SchedulerDies(s) \/ HelperDies(s) \/ MissesSource(s)

SwitchNext ==
  \/ \E s \in Switches : Ask(s) \/ Switch(s) \/ SwitchFaults(s)
  \/ Acquire \/ WorkerAppears \/ WorkerFound \/ WorkerEnds \/ WorkerForgotten

=============================================================================
