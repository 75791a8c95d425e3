---------------------------- MODULE Notifications ----------------------------
(***************************************************************************)
(* Telling the user's conversation what became of a dispatched item        *)
(* (service.py).  The service writes the state of the workflow to the row, *)
(* and after each round of reconciliation sends what the row has not yet   *)
(* called notified.  Commands that dispatch the item again, and the        *)
(* conversations, move in between.                                         *)
(***************************************************************************)
EXTENDS Orchestrators

CONSTANTS
  Gates,         \* gates of the item that ask for an approval, by change and head
  Dispatchers    \* conversations that dispatch the item (a bound)

Completed == "completed"
Notices == Gates \cup {Completed}

ASSUME NoticeConstants == Dispatchers \subseteq Convs /\ Nobody \notin Notices

VARIABLES
  job,           \* the row: how far it is, notification key, key notified, conversation to tell
  at,            \* position of the service in deliver_pending_notifications
  snap,          \* the key and the conversation of the row that it delivers
  target,        \* the conversation that it has chosen
  told           \* history: messages accepted for the row's key since it was set

noticeVars == <<job, at, snap, target, told>>

NoticeTypeOK ==
  /\ job \in [status : {"none", "open", Completed}, key : Notices \cup {Nobody},
              notified : Notices \cup {Nobody}, origin : Convs \cup {Nobody}]
  /\ at \in {"reconciling", "found", "sending", "sent"}
  /\ snap \in [key : Notices \cup {Nobody}, origin : Convs \cup {Nobody}]
  /\ target \in Convs \cup {Nobody}
  /\ told \in 0 .. MaxFaults + 1

NoSnap == [key |-> Nobody, origin |-> Nobody]

NoticeInit ==
  /\ job = [status |-> "none", key |-> Nobody, notified |-> Nobody, origin |-> Nobody]
  /\ at = "reconciling" /\ snap = NoSnap /\ target = Nobody
  /\ told = 0

\* JobStore.dispatch, from a conversation at work or from a terminal (Nobody).  A finished
\* item begins afresh.
Dispatch(c) ==
  /\ c \in Convs => conv[c] = "busy"
  /\ LET afresh == job.status \in {"none", Completed}
         origin == IF c = Nobody THEN job.origin ELSE c
     IN IF afresh
          THEN /\ job' = [status |-> "open", key |-> Nobody, notified |-> Nobody,
                          origin |-> origin]
               /\ told' = 0
          ELSE job' = [job EXCEPT !.origin = origin] /\ UNCHANGED told
  /\ UNCHANGED <<conv, faults, at, snap, target>>

\* update_result, by the service's reconciliation of an active row.  A status that is not for
\* the user (Nobody) has no key, and the old one stays.
UpdateResult(notice) ==
  /\ at = "reconciling" /\ job.status = "open"
  /\ LET key == IF notice = Nobody THEN job.key ELSE notice
     IN /\ job' = [job EXCEPT !.status = IF notice = Completed THEN Completed ELSE "open",
                              !.key = key]
        /\ told' = IF key = job.key THEN told ELSE 0
  /\ UNCHANGED <<conv, faults, at, snap, target>>

\* Mutant: what was notified is not compared with the key.
DueAgain == job.origin # Nobody /\ job.key # Nobody

\* pending_notifications.
Due == job.origin # Nobody /\ job.key # Nobody /\ job.notified # job.key

FindDue ==
  /\ at = "reconciling" /\ Due
  /\ at' = "found" /\ snap' = [key |-> job.key, origin |-> job.origin]
  /\ UNCHANGED <<conv, faults, job, target, told>>

\* The end of a delivery; an error is recorded in the row's notification_error.
EndDelivery == at' = "reconciling" /\ snap' = NoSnap /\ target' = Nobody

\* Mutant: only the conversation that dispatched it is told.
OnlyDispatcher(origin) == {c \in {origin} : Active(c)}

\* _notification_target: the conversation that dispatched it, or else the only one there is.
Targets(origin) ==
  IF Active(origin) THEN {origin}
  ELSE {c \in Convs : \A other \in Convs : Active(other) <=> other = c}

ChooseTarget ==
  /\ at = "found"
  /\ \E c \in Targets(snap.origin) : target' = c
  /\ at' = "sending"
  /\ UNCHANGED <<conv, faults, job, snap, told>>

\* There is none, or more than one, or a command fails.
NoTarget ==
  /\ at = "found"
  /\ \/ Targets(snap.origin) = {} /\ UNCHANGED faults
     \/ Fault
  /\ EndDelivery
  /\ UNCHANGED <<conv, job, told>>

\* The message as the conversation gets it.
Accept == told' = IF job.key = snap.key THEN told + 1 ELSE told

Send ==
  /\ at = "sending" /\ Active(target)
  /\ Accept /\ at' = "sent"
  /\ UNCHANGED <<conv, faults, job, snap, target>>

\* The conversation has gone, or the command fails, having taken effect or not.
SendFails ==
  /\ at = "sending"
  /\ \/ ~Active(target) /\ UNCHANGED <<told, faults>>
     \/ Fault /\ UNCHANGED told
     \/ Fault /\ Active(target) /\ Accept
  /\ EndDelivery
  /\ UNCHANGED <<conv, job>>

\* Mutant: the key of the row by now is not compared.
MarkedWhateverKey(key) == [job EXCEPT !.notified = key]

\* mark_notified: only for the key that the row still has.
Marked(key) == IF job.key = key THEN [job EXCEPT !.notified = key] ELSE job

MarkNotified ==
  /\ at = "sent"
  /\ job' = Marked(snap.key)
  /\ EndDelivery
  /\ UNCHANGED <<conv, faults, told>>

\* The service dies, and is started again.
ServiceDies ==
  /\ Fault /\ at # "reconciling"
  /\ EndDelivery
  /\ UNCHANGED <<conv, job, told>>

Deliver == FindDue \/ ChooseTarget \/ NoTarget \/ Send \/ SendFails \/ MarkNotified

NoticeNext ==
  \/ \E c \in Dispatchers \cup {Nobody} : Dispatch(c)
  \/ \E notice \in Notices \cup {Nobody} : UpdateResult(notice)
  \/ Deliver \/ ServiceDies
=============================================================================
