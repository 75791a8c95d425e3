---------------------------- MODULE Orchestrators ----------------------------
(***************************************************************************)
(* The orchestrator conversations of one Agent Orchestrator project, as    *)
(* the account switch and the delivery of notices use them: sessions of    *)
(* AO that take turns, that users open and close, and that a switch        *)
(* replaces.                                                               *)
(***************************************************************************)
EXTENDS Naturals, FiniteSets

CONSTANTS
  Convs,         \* orchestrator sessions that can ever exist
  First,         \* the one at work in the beginning
  Nobody,        \* no conversation, no switch
  MaxFaults      \* bound: deaths, failures of commands, conversations opened by users

ASSUME ConvConstants ==
  First \in Convs /\ Nobody \notin Convs /\ MaxFaults \in Nat

VARIABLES
  conv,          \* the state of each conversation
  faults

ConvTypeOK ==
  /\ conv \in [Convs -> {"unborn", "busy", "idle", "gone"}]
  /\ faults \in 0 .. MaxFaults

ConvInit ==
  /\ conv = [c \in Convs |-> IF c = First THEN "busy" ELSE "unborn"]
  /\ faults = 0

Active(c) == conv[c] \in {"busy", "idle"}
Unborn == {c \in Convs : conv[c] = "unborn"}

Fault == faults < MaxFaults /\ faults' = faults + 1

\* A turn ends or begins; somebody closes the conversation.
Talk(c) ==
  /\ Active(c)
  /\ \E state \in {"busy", "idle", "gone"} \ {conv[c]} : conv' = [conv EXCEPT ![c] = state]
  /\ UNCHANGED faults

\* A session that AO starts has an id never used before; which one makes no difference.
New == CHOOSE c \in Convs : conv[c] = "unborn"
Begin == Unborn # {} /\ conv' = [conv EXCEPT ![New] = "busy"]

\* Somebody opens another conversation.
Open == Begin /\ Fault
=============================================================================
