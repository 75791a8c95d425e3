-------------------------- MODULE ServiceLifecycle --------------------------
(***************************************************************************)
(* The background service of one project as a process: its lifetime lock   *)
(* and ownership record (service.py: serve), and the commands that start,  *)
(* stop and reconfigure it (start_service, stop_service and the commands   *)
(* of cli.py that stop it, change the configuration and start it again).   *)
(*                                                                         *)
(* A daemon stands for its pid together with its instance token.  The pid  *)
(* of a dead one may come to belong to an unrelated process.               *)
(***************************************************************************)
EXTENDS Naturals

CONSTANTS
  Commands,      \* command processes that may run at the same time
  Daemons,       \* launches of the service
  NoOne,         \* no daemon
  MaxConfig,     \* bound: changes of the configuration
  MaxFaults      \* bound: crashes, failures, and pids taken over

ASSUME NoOneDistinct == NoOne \notin Daemons
ASSUME LifecycleBounds == MaxConfig \in Nat /\ MaxFaults \in Nat

\* A reconfiguration that has stopped the service is a "restart".
Ops == {"start", "stop", "reconfigure", "restart"}
CommandSteps ==
  {"idle", "r_check", "r_write", "s_read", "s_drop", "s_spawn", "s_wait", "s_reap",
   "t_read", "t_drop", "t_kill", "t_wait"}

\* Before its handlers are installed, a signal kills a daemon; after, it asks it to stop.
Unhandled == {"boot", "lock", "check"}
Handled == {"write", "serve", "stop", "unlink"}
Up == Unhandled \cup Handled

VARIABLES
  lock,              \* holder of the lifetime lock
  record,            \* the daemon that supervisor.pid names
  config,            \* version of the configuration file
  life, conf, term,  \* a daemon: step, configuration it loaded, asked to stop
  reused,            \* dead daemons whose pid is now an unrelated process's
  at, op, seen,      \* a command: step, what it is, the daemon it acts on
  overlapped,        \* two commands have run at once, or one has been killed
  faults

daemon == <<lock, life, conf, term>>
vars == <<lock, record, config, life, conf, term, reused, at, op, seen, overlapped, faults>>

TypeOK ==
  /\ lock \in Daemons \cup {NoOne}
  /\ record \in Daemons \cup {NoOne}
  /\ config \in 0 .. MaxConfig
  /\ life \in [Daemons -> Up \cup {"unborn", "dead"}]
  /\ conf \in [Daemons -> 0 .. MaxConfig]
  /\ term \subseteq Daemons /\ reused \subseteq Daemons
  /\ at \in [Commands -> CommandSteps]
  /\ op \in [Commands -> Ops]
  /\ seen \in [Commands -> Daemons \cup {NoOne}]
  /\ overlapped \in BOOLEAN
  /\ faults \in 0 .. MaxFaults

Init ==
  /\ lock = NoOne /\ record = NoOne /\ config = 0
  /\ life = [d \in Daemons |-> "unborn"]
  /\ conf = [d \in Daemons |-> 0]
  /\ term = {} /\ reused = {}
  /\ at = [c \in Commands |-> "idle"]
  /\ op = [c \in Commands |-> "start"]
  /\ seen = [c \in Commands |-> NoOne]
  /\ overlapped = FALSE /\ faults = 0

Fault == faults < MaxFaults /\ faults' = faults + 1

\* _record_owned_by_service, by token and command line; process_alive, by pid.
Owned(d) == life[d] \in Up
PidAlive(d) == Owned(d) \/ d \in reused

\* What a reader of the record can find.
RecordOwned == record # NoOne /\ Owned(record)
RecordUnverified == record # NoOne /\ PidAlive(record) /\ ~Owned(record)
RecordStale == record # NoOne /\ ~PidAlive(record)

\* A daemon's process ends, and with it its lock and all it had in memory.
Die(d) ==
  /\ life' = [life EXCEPT ![d] = "dead"]
  /\ lock' = IF lock = d THEN NoOne ELSE lock
  /\ conf' = [conf EXCEPT ![d] = 0]
  /\ term' = term \ {d}

\* SIGTERM.
Signal(d) ==
  IF life[d] \in Unhandled
    THEN Die(d)
    ELSE /\ term' = IF life[d] \in Handled THEN term \cup {d} ELSE term
         /\ UNCHANGED <<life, lock, conf>>

----------------------------------------------------------------------------
(* Commands.                                                               *)

Goto(c, step) == at' = [at EXCEPT ![c] = step] /\ UNCHANGED <<op, seen>>
Act(c, step, d) ==
  at' = [at EXCEPT ![c] = step] /\ seen' = [seen EXCEPT ![c] = d] /\ UNCHANGED op
Done(c) ==
  /\ at' = [at EXCEPT ![c] = "idle"]
  /\ op' = [op EXCEPT ![c] = "start"]
  /\ seen' = [seen EXCEPT ![c] = NoOne]

\* What follows stop_service when it returns: a restart goes on.
AfterStop(c) == IF op[c] = "restart" THEN Act(c, "r_write", NoOne) ELSE Done(c)

CommandFrame == UNCHANGED <<config, reused, overlapped, faults>>

Begin(c, o) ==
  /\ at[c] = "idle"
  /\ op' = [op EXCEPT ![c] = o]
  /\ at' = [at EXCEPT ![c] = CASE o = "start" -> "s_read" [] o = "stop" -> "t_read"
                                [] OTHER -> "r_check"]
  /\ overlapped' = (overlapped \/ \E other \in Commands : at[other] # "idle")
  /\ UNCHANGED <<daemon, record, config, reused, seen, faults>>

\* start_service reads the record: the service runs already, the record is not to be
\* trusted, it is stale, or there is none.
StartRead(c) ==
  /\ at[c] = "s_read"
  /\ \/ (RecordOwned \/ RecordUnverified) /\ Done(c)
     \/ RecordStale /\ Goto(c, "s_drop")
     \/ record = NoOne /\ Goto(c, "s_spawn")
  /\ UNCHANGED <<daemon, record>> /\ CommandFrame

\* The file is removed, whatever it holds by now.
DropStale(c) ==
  /\ \/ at[c] = "s_drop" /\ Goto(c, "s_spawn")
     \/ at[c] = "t_drop" /\ AfterStop(c)
  /\ record' = NoOne
  /\ UNCHANGED daemon /\ CommandFrame

Spawn(c, d) ==
  /\ at[c] = "s_spawn" /\ life[d] = "unborn"
  /\ life' = [life EXCEPT ![d] = "boot"]
  /\ Act(c, "s_wait", d)
  /\ UNCHANGED <<lock, conf, term, record>> /\ CommandFrame

\* The runner does not become ready, or the process cannot be created.
SpawnFails(c) ==
  /\ at[c] = "s_spawn"
  /\ Done(c)
  /\ UNCHANGED <<daemon, record>> /\ CommandFrame

\* The record names a verified service: the command's own child, or another one's, and
\* then the child has to go.
StartSucceeds(c) ==
  /\ at[c] = "s_wait" /\ RecordOwned
  /\ IF record = seen[c] THEN Done(c) /\ UNCHANGED daemon
                         ELSE Goto(c, "s_reap") /\ Signal(seen[c])
  /\ UNCHANGED record /\ CommandFrame

\* Mutant: a start that gives up leaves its child to itself.
GiveUpOnly(c) ==
  /\ at[c] = "s_wait"
  /\ Done(c)
  /\ UNCHANGED <<daemon, record>> /\ CommandFrame

\* Five seconds are over, or the child is dead beside an unverified record.
StartGivesUp(c) ==
  /\ at[c] = "s_wait"
  /\ Goto(c, "s_reap") /\ Signal(seen[c])
  /\ UNCHANGED record /\ CommandFrame

\* _terminate_spawned_child waits for its child, and kills it after five seconds.
ReapChild(c) ==
  /\ at[c] = "s_reap"
  /\ \/ life[seen[c]] = "dead" /\ UNCHANGED daemon
     \/ life[seen[c]] # "dead" /\ Die(seen[c])
  /\ Done(c)
  /\ UNCHANGED record /\ CommandFrame

\* stop_service reads the record: there is none, it is stale, not to be trusted, or it
\* names the service.
StopRead(c) ==
  /\ at[c] = "t_read"
  /\ \/ record = NoOne /\ AfterStop(c)
     \/ RecordStale /\ Goto(c, "t_drop")
     \/ RecordUnverified /\ Done(c)
     \/ RecordOwned /\ Act(c, "t_kill", record)
  /\ UNCHANGED <<daemon, record>> /\ CommandFrame

\* os.kill: with no such process it raises; a pid taken over since gets the signal.
StopSignal(c) ==
  /\ at[c] = "t_kill"
  /\ IF PidAlive(seen[c]) THEN Goto(c, "t_wait") ELSE Done(c)
  /\ Signal(seen[c])
  /\ UNCHANGED record /\ CommandFrame

\* The service is gone, or did not stop in time.
StopWaits(c) ==
  /\ at[c] = "t_wait"
  /\ \/ ~PidAlive(seen[c]) /\ AfterStop(c)
     \/ PidAlive(seen[c]) /\ Done(c)
  /\ UNCHANGED <<daemon, record>> /\ CommandFrame

\* Mutant: the change is made under a running service.
CheckOnly(c) ==
  /\ at[c] = "r_check"
  /\ op' = [op EXCEPT ![c] = IF RecordOwned THEN "restart" ELSE @]
  /\ at' = [at EXCEPT ![c] = "r_write"]
  /\ UNCHANGED <<daemon, record, seen>> /\ CommandFrame

\* service_running: only a running service is stopped first.
CheckRunning(c) ==
  /\ at[c] = "r_check"
  /\ op' = [op EXCEPT ![c] = IF RecordOwned THEN "restart" ELSE @]
  /\ at' = [at EXCEPT ![c] = IF RecordOwned THEN "t_read" ELSE "r_write"]
  /\ UNCHANGED <<daemon, record, seen>> /\ CommandFrame

\* The configuration is written, or restored after an error; a service that was
\* stopped is started again.
WriteConfig(c) ==
  /\ at[c] = "r_write"
  /\ config' \in {config, config + 1} \cap (0 .. MaxConfig)
  /\ IF op[c] = "restart" THEN Goto(c, "s_read") ELSE Done(c)
  /\ UNCHANGED <<daemon, record, reused, overlapped, faults>>

\* The command is interrupted; its child lives on.
Interrupt(c) ==
  /\ Fault /\ at[c] # "idle"
  /\ Done(c)
  /\ overlapped' = TRUE
  /\ UNCHANGED <<daemon, record, config, reused>>

CommandStep(c) ==
  \/ \E o \in {"start", "stop", "reconfigure"} : Begin(c, o)
  \/ StartRead(c) \/ DropStale(c) \/ \E d \in Daemons : Spawn(c, d)
  \/ SpawnFails(c) \/ StartSucceeds(c) \/ StartGivesUp(c) \/ ReapChild(c)
  \/ StopRead(c) \/ StopSignal(c) \/ StopWaits(c)
  \/ CheckRunning(c) \/ WriteConfig(c) \/ Interrupt(c)

----------------------------------------------------------------------------
(* The daemon: serve.                                                      *)

DaemonFrame == UNCHANGED <<config, reused, at, op, seen, overlapped, faults>>
Live(d, step) == life' = [life EXCEPT ![d] = step]

LoadConfig(d) ==
  /\ life[d] = "boot" /\ Live(d, "lock")
  /\ conf' = [conf EXCEPT ![d] = config]
  /\ UNCHANGED <<lock, term, record>> /\ DaemonFrame

\* Mutant: the lifetime lock is taken without regard to its holder.
TakeLockAnyway(d) ==
  /\ life[d] = "lock"
  /\ lock' = d /\ Live(d, "check")
  /\ UNCHANGED <<conf, term, record>> /\ DaemonFrame

\* _service_lifetime_lock does not wait.
TakeLock(d) ==
  /\ life[d] = "lock"
  /\ IF lock = NoOne THEN lock' = d /\ Live(d, "check") /\ UNCHANGED <<conf, term>>
                    ELSE Die(d)
  /\ UNCHANGED record /\ DaemonFrame

\* A record of another live pid ends the launch; then the handlers are installed.
CheckRecord(d) ==
  /\ life[d] = "check"
  /\ IF RecordOwned \/ RecordUnverified
       THEN Die(d)
       ELSE Live(d, "write") /\ UNCHANGED <<lock, conf, term>>
  /\ UNCHANGED record /\ DaemonFrame

\* Mutant: the record is written in place, and seen half written.
WriteInPlace(d) ==
  /\ life[d] = "write" /\ Live(d, "serve")
  /\ record' \in {d, "torn"}
  /\ UNCHANGED <<lock, conf, term>> /\ DaemonFrame

WriteRecord(d) ==
  /\ life[d] = "write" /\ Live(d, "serve")
  /\ record' = d
  /\ UNCHANGED <<lock, conf, term>> /\ DaemonFrame

\* The loop ends when asked to, or by an exception.
LeaveLoop(d) ==
  /\ life[d] = "serve" /\ Live(d, "stop")
  /\ (d \in term /\ UNCHANGED faults) \/ Fault
  /\ UNCHANGED <<lock, conf, term, record, config, reused, at, op, seen, overlapped>>

\* On its way out the daemon looks whether the record is still its own ...
ReadOwnRecord(d) ==
  /\ life[d] = "stop"
  /\ IF record = d THEN Live(d, "unlink") /\ UNCHANGED <<lock, conf, term>> ELSE Die(d)
  /\ UNCHANGED record /\ DaemonFrame

\* ... and removes it.
RemoveRecord(d) ==
  /\ life[d] = "unlink" /\ Die(d)
  /\ record' = NoOne
  /\ DaemonFrame

ServeStep(d) ==
  \/ LoadConfig(d) \/ TakeLock(d) \/ CheckRecord(d) \/ WriteRecord(d)
  \/ LeaveLoop(d) \/ ReadOwnRecord(d) \/ RemoveRecord(d)

\* The daemon dies: its record stays.
CrashDaemon(d) ==
  /\ Fault /\ Owned(d) /\ Die(d)
  /\ UNCHANGED <<record, config, reused, at, op, seen, overlapped>>

\* The pid of a dead daemon is given to another process, which ends some time.
ReusePid(d) ==
  /\ Fault /\ life[d] = "dead" /\ d \notin reused
  /\ reused' = reused \cup {d}
  /\ UNCHANGED <<daemon, record, config, at, op, seen, overlapped>>

StrangerEnds(d) ==
  /\ d \in reused /\ reused' = reused \ {d}
  /\ UNCHANGED <<daemon, record, config, at, op, seen, overlapped, faults>>

Next ==
  \/ \E c \in Commands : CommandStep(c)
  \/ \E d \in Daemons : ServeStep(d) \/ CrashDaemon(d) \/ ReusePid(d) \/ StrangerEnds(d)

Spec == Init /\ [][Next]_vars

----------------------------------------------------------------------------
(* Properties.                                                             *)

\* Two daemons never share the runtime directory ("one lifetime lock permits one daemon
\* per project runtime directory"), whatever starts, crashes and stale records came before.
OneService ==
  \A d, e \in Daemons : life[d] \in Handled /\ life[e] \in Handled => d = e

AllIdle == \A c \in Commands : at[c] = "idle"

\* Between commands that neither overlap nor are killed, every live daemon is the one
\* the record names, so that stop and start can find it.
ServiceFound ==
  ~overlapped /\ AllIdle => \A d \in Daemons : Owned(d) => record = d

\* And it runs under the configuration last written.
ServiceUpToDate ==
  ~overlapped /\ AllIdle => \A d \in Daemons : Owned(d) => conf[d] = config

\* When no command is under way, a service runs under the configuration last written
\* ("changing the merge mode affects future reconciliation").  A start that another
\* command makes between the stop and the write of a reconfiguration breaks it: its
\* daemon has loaded the old file, and the restart finds a service running.
ConfigurationInForce ==
  AllIdle => \A d \in Daemons : life[d] = "serve" /\ d \notin term => conf[d] = config
=============================================================================
