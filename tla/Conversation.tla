---------------------------- MODULE Conversation ----------------------------
(***************************************************************************)
(* One project under Agent Orchestrator: the conversation that dispatches  *)
(* an item, the account switch that replaces the conversation, the worker  *)
(* acquired beside it, and the notices that must find the user again.      *)
(***************************************************************************)
EXTENDS AccountSwitch, Notifications

vars == <<conv, faults, switchVars, noticeVars>>

Init == ConvInit /\ SwitchInit /\ NoticeInit

ConvNext == Open \/ \E c \in Convs : Talk(c)

Next ==
  \/ ConvNext /\ UNCHANGED <<switchVars, noticeVars>>
  \/ SwitchNext /\ UNCHANGED noticeVars
  \/ NoticeNext /\ UNCHANGED switchVars

Spec == Init /\ [][Next]_vars

\* Processes that run go on, and flock lets a waiting one in; the service polls.
Fairness ==
  /\ WF_vars((\E s \in Switches : Switch(s)) /\ UNCHANGED noticeVars)
  /\ WF_vars(Acquire /\ UNCHANGED noticeVars)
  /\ WF_vars(Deliver /\ UNCHANGED switchVars)

FairSpec == Spec /\ Fairness

TypeOK == ConvTypeOK /\ SwitchTypeOK /\ NoticeTypeOK

----------------------------------------------------------------------------
\* Neither a switch nor the time that a spawn takes leaves an item's worker on another account
\* than the one bound: the account is not changed under a worker that runs or may still start,
\* whichever of the two takes the global lock first (bind_ao_project_account, ensure_worker).
WorkerOnBoundAccount == worker.state \in {"requested", "active"} => worker.account = bound

\* While the process that answers for a marker lives, nobody but the marker's own switch changes
\* it: neither an acquisition that looks at it, nor another switch, nor an old helper that ends
\* (account_switch_pending, clear_account_switch_pending).
SwitchUndisturbed ==
  [][\A s \in Switches :
       /\ marker.switch = s /\ marker' # marker
       /\ IF marker.attached THEN helper[s] # "ended" ELSE sched[s] # "ended"
       => sched'[s] # sched[s] \/ helper'[s] # helper[s]]_vars

\* A notice is called notified only while it is the row's notice and after a conversation has
\* taken it, and beyond the first time it is sent once more per fault at most (mark_notified;
\* docs/cli-reference.md: "once per durable state transition").
NoticesDelivered ==
  [][/\ told' <= 1 + faults'
     /\ job'.notified \notin {job.notified, Nobody} => job'.notified = job.key /\ told > 0]_vars

\* A switch does not hold up new workers for ever, whoever of its processes dies and wherever.
WaitEnds == marker.switch # Nobody /\ resv = "none" ~> marker.switch = Nobody \/ resv # "none"

\* If from some time on there always is a conversation to tell (the one that dispatched, or only
\* one), what is due is delivered, although a switch may have replaced the one that dispatched
\* (_notification_target).
Reachable ==
  \/ job.origin # Nobody /\ Active(job.origin)
  \/ \E c \in Convs : \A other \in Convs : Active(other) <=> other = c
Informed == (<>[]Reachable) => (Due ~> ~Due)
=============================================================================
