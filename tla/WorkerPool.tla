----------------------------- MODULE WorkerPool -----------------------------
(***************************************************************************)
(* What the supervisor promises of its workers, whatever locks, records    *)
(* and retries it uses: a work item has at most one worker, and no launch  *)
(* exceeds a limit that a project with a worker in play has configured.    *)
(***************************************************************************)
EXTENDS Naturals, FiniteSets

CONSTANTS Items, Sessions, Models, Lanes, Harnesses, ProjectOf, HarnessOf, LoginOf, Pool,
          HarnessLimit, ModelLimit, LaneLimit, Nobody

VARIABLE job   \* what each session works on, Nobody when it is not in play

Busy(s) == job[s] # Nobody

Project(s) == ProjectOf[job[s].item]
Harness(s) == HarnessOf[job[s].model]
Pooled(project, h) == Pool[project][h] # {}

Init == job = [s \in Sessions |-> Nobody]

\* The sessions in play that count against the limits of a launch.
OnModel(m) == {s \in Sessions : Busy(s) /\ job[s].model = m}
OnHarness(project, h) ==
  {s \in Sessions : Busy(s) /\ Project(s) = project /\ Harness(s) = h}
OnLogin(h, lane) ==
  {s \in Sessions :
     /\ Busy(s) /\ Harness(s) = h
     /\ IF Pooled(Project(s), h) THEN LoginOf[job[s].lane] = LoginOf[lane]
                                 ELSE job[s].lane = lane}

ModelRoom(project, m) ==
  /\ Cardinality(OnModel(m)) < ModelLimit[project][m]
  /\ \A s \in OnModel(m) : Cardinality(OnModel(m)) < ModelLimit[Project(s)][m]

LoginRoom(project, h, lane) ==
  /\ Cardinality(OnLogin(h, lane)) < LaneLimit[project][lane]
  /\ \A s \in OnLogin(h, lane) : Pooled(Project(s), h) =>
        Cardinality(OnLogin(h, lane)) < LaneLimit[Project(s)][job[s].lane]

HarnessRoom(project, h) ==
  Cardinality(OnHarness(project, h)) < HarnessLimit[project][h]

Launch(s, i, m, lane) ==
  /\ ~Busy(s)
  /\ \A t \in Sessions : Busy(t) => job[t].item # i
  /\ HarnessRoom(ProjectOf[i], HarnessOf[m])
  /\ ModelRoom(ProjectOf[i], m)
  /\ Pooled(ProjectOf[i], HarnessOf[m]) => LoginRoom(ProjectOf[i], HarnessOf[m], lane)
  /\ job' = [job EXCEPT ![s] = [item |-> i, model |-> m, lane |-> lane]]

Leave(s) ==
  /\ Busy(s)
  /\ job' = [job EXCEPT ![s] = Nobody]

Next ==
  \E s \in Sessions :
    \/ \E i \in Items, m \in Models, lane \in Lanes : Launch(s, i, m, lane)
    \/ Leave(s)

Spec == Init /\ [][Next]_job
=============================================================================
