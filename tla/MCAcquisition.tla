--------------------------- MODULE MCAcquisition ---------------------------
(***************************************************************************)
(* Instances of Acquisition for TLC.                                       *)
(***************************************************************************)
EXTENDS AcquisitionInv, TLC

\* Two items of one project, or of two projects.
OneProject == [i \in Items |-> "A"]
TwoProjects == [i \in Items |-> IF i = "i1" THEN "A" ELSE "B"]

\* Model m1 runs on harness h1, any other on h2.
HarnessPerModel == [m \in Models |-> IF m = "m1" THEN "h1" ELSE "h2"]

\* Every lane is logged in with the same credentials.
SharedLogin == [l \in Lanes |-> "login"]

HomeOf == [P \in Projects |-> IF P = "A" THEN "laneA" ELSE "laneB"]
AllKnown == [P \in Projects |-> Lanes]

\* Harness h2 draws on the credential profile of the project's own lane, h1 on none.
MixedPool ==
  [P \in Projects |-> [h \in Harnesses |-> IF h = "h2" THEN {HomeOf[P]} ELSE {}]]

HarnessOne == [P \in Projects |-> [h \in Harnesses |-> 1]]
HarnessMany == [P \in Projects |-> [h \in Harnesses |-> 9]]

\* Project A allows two workers on m1, project B one; m2 is not scarce.
ModelMany == [P \in Projects |-> [m \in Models |-> 9]]
ModelDiffers ==
  [P \in Projects |-> [m \in Models |-> IF m = "m2" THEN 9 ELSE IF P = "A" THEN 2 ELSE 1]]

\* Project A allows two workers per login, project B one.
LaneDiffers == [P \in Projects |-> [l \in Lanes |-> IF P = "A" THEN 2 ELSE 1]]

\* Processes are alike, and so are sessions: for the runs without Native or Shadow.
Alike == Permutations(Procs) \cup Permutations(Sessions)
=============================================================================
