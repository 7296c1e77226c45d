--------------------- MODULE RunnerManagerDeleteProofs ---------------------
(***************************************************************************)
(* Proofs about the pods that RunnerManager deletes, for any pods,         *)
(* configurations and bounds.  The status and the list of runners that a   *)
(* deletion rests on are older than the deletion; the proofs say what in   *)
(* them is still true when the call is made.                               *)
(***************************************************************************)
EXTENDS RunnerManagerVisitProofs

-----------------------------------------------------------------------------
(* Busy runners.  A runner takes one job in its life, so one that was busy *)
(* when the pass began and is busy now was busy all the time.              *)

\* A runner exists only for a pod that has started, and has a job only while
\* its pod says so.
RunnerInv ==
    \A p \in Pods :
        /\ pod[p].phase \in {"none", "pending"} => runner[p] = "none"
        /\ runner[p] = "busy" => st[p].state = "running"

\* The runner of pod p has taken its job.
HadJob(p) ==
    /\ runner[p] \in {"busy", "done", "offline", "removed"}
    /\ st[p].state # "initializing"
    /\ pod[p].phase \notin {"none", "pending"}

StartInv == \A p \in busyAtStart : HadJob(p)

\* The list shows the jobs that began before the pass and still run.
SeenInv ==
    pc \notin {"idle", "runners"} =>
        \A p \in busyAtStart : runner[p] = "busy" => runnerList[p] = "busy"

\* No such job is the reason of a deletion.
SparedInv ==
    pc \in {"post", "put", "delete"} => ~(cur \in busyAtStart /\ runner[cur] = "busy")

BusyInv == TypeInv /\ RunnerInv /\ StartInv /\ SeenInv /\ SparedInv

\* The steps that change the state of a runner.
LEMMA RunnerChanges ==
    ASSUME TypeInv, [Next]_vars, NEW p \in Pods
    PROVE  \/ runner'[p] = runner[p]
           \/ runner[p] \in Registered /\ runner'[p] = "removed"
           \/ Register(p) \/ Connect(p) \/ TakeJob(p) \/ EndJob(p) \/ RestartContainer(p)
           \/ Terminated(p)
  <1>1. runner \in [Pods -> RunnerStates] BY DEF TypeInv, TypeOK, EnvTypeOK
  <1>2. ASSUME NEW q \in Pods, RemoveRunner(q)
        PROVE  \/ runner'[p] = runner[p]
               \/ runner[p] \in Registered /\ runner'[p] = "removed"
    BY <1>1, <1>2 DEF RemoveRunner
  <1>3. ASSUME NEW q \in Pods, q # p, PodSteps(q) PROVE runner'[p] = runner[p]
    BY <1>1, <1>3 DEF PodSteps, ReplicaSet, PodStarts, Register, Connect, TakeJob, EndJob, Publish,
                      RestartContainer, Terminated
  <1>4. CASE PodSteps(p)
    BY <1>4 DEF PodSteps, ReplicaSet, PodStarts, Publish
  <1>5. CASE Manager
    BY <1>2, <1>5
    DEF Manager, FetchRunnerPods, FetchRunners, BeginMaintain, SkipPod, GetStatus, PostResult,
        DeletePod, PutDeletionTime, Protect, Relabel, Unlink, PodsVisited, EndPass, envVars
  <1> QED BY <1>3, <1>4, <1>5
          DEF Next, Update, RestartController, Agent, AgentExtend, AgentPut, AgentDelete, Tick, vars,
              envVars

\* A runner belongs to a pod that has started; a busy one to a running job.
LEMMA RunnerStep ==
    ASSUME TypeInv, RunnerInv, [Next]_vars
    PROVE  RunnerInv'
  <1> SUFFICES ASSUME NEW p \in Pods
               PROVE  /\ pod'[p].phase \in {"none", "pending"} => runner'[p] = "none"
                      /\ runner'[p] = "busy" => st'[p].state = "running"
    BY DEF RunnerInv
  <1>1. st \in [Pods -> Statuses] /\ runner \in [Pods -> RunnerStates]
    BY DEF TypeInv, TypeOK, EnvTypeOK
  <1>2. ASSUME pod'[p].phase \in {"none", "pending"} PROVE runner'[p] = "none"
    <2>1. pod[p].phase \in {"none", "pending"} BY <1>2, StartedStays
    <2>2. runner[p] = "none" BY <2>1 DEF RunnerInv
    <2> QED BY <2>1, <2>2, RunnerChanges
            DEF Registered, Register, Connect, TakeJob, EndJob, RestartContainer, Terminated
  <1>3. ASSUME runner'[p] = "busy" PROVE st'[p].state = "running"
    <2>1. CASE TakeJob(p) BY <2>1 DEF TakeJob
    <2>2. ASSUME Register(p) \/ Connect(p) \/ EndJob(p) \/ RestartContainer(p) \/ Terminated(p)
          PROVE  FALSE
      BY <1>1, <1>3, <2>2
      DEF Register, Connect, EndJob, RestartContainer, Terminated, Registered
    <2>3. CASE runner'[p] = runner[p]
      <3>1. runner[p] = "busy" /\ st[p].state = "running" /\ pod[p].phase \notin {"none", "pending"}
        BY <1>3, <2>3 DEF RunnerInv
      <3>2. ~PodStarts(p) /\ ~Publish(p) BY <3>1 DEF PodStarts, Publish
      <3> QED BY <2>2, <3>1, <3>2, StatusChanges
    <2> QED BY <1>3, <2>1, <2>2, <2>3, RunnerChanges
  <1> QED BY <1>2, <1>3

\* A runner that has taken its job takes no other.
LEMMA HadJobStays ==
    ASSUME TypeInv, [Next]_vars, NEW p \in Pods, HadJob(p)
    PROVE  HadJob(p)' /\ (runner'[p] = "busy" => runner[p] = "busy")
  <1>1. st \in [Pods -> Statuses] /\ runner \in [Pods -> RunnerStates]
    BY DEF TypeInv, TypeOK, EnvTypeOK
  <1>2. pod'[p].phase \notin {"none", "pending"} BY StartedStays DEF HadJob
  <1>3. st'[p].state # "initializing"
    <2>1. ~PodStarts(p) BY DEF HadJob, PodStarts
    <2>2. Connect(p) => st'[p].state = "running" BY <1>1 DEF Connect, Statuses
    <2>3. ASSUME Publish(p) PROVE st'[p].state = "debugging"
      <3>1. PICK ext \in BOOLEAN, d \in 0 .. PublishDelay :
               st' = [st EXCEPT ![p].state = "debugging", ![p].finishedAt = now - d,
                                ![p].extend = ext]
        BY <2>3 DEF Publish
      <3> QED BY <1>1, <3>1 DEF Statuses
    <2>4. RestartContainer(p) \/ Terminated(p) => st'[p].state \in {"stale", Nil}
      BY <1>1 DEF RestartContainer, Terminated, ZeroStatus
    <2> QED BY <2>1, <2>2, <2>3, <2>4, StatusChanges, NilAssumption DEF HadJob
  <1>4. /\ runner'[p] \in {"busy", "done", "offline", "removed"}
        /\ runner'[p] = "busy" => runner[p] = "busy"
    <2>1. ~Register(p) /\ ~Connect(p) /\ ~TakeJob(p) BY DEF HadJob, Register, Connect, TakeJob
    <2>2. EndJob(p) => runner'[p] = "done" BY <1>1 DEF EndJob
    <2>3. RestartContainer(p) \/ Terminated(p) =>
             runner'[p] = IF runner[p] \in Registered THEN "offline" ELSE runner[p]
      BY <1>1 DEF RestartContainer, Terminated
    <2> QED BY <2>1, <2>2, <2>3, RunnerChanges DEF HadJob
  <1> QED BY <1>2, <1>3, <1>4 DEF HadJob

\* A pass keeps the list of runners that it has fetched.
LEMMA ListBefore ==
    ASSUME [Next]_vars, pc' \notin {"idle", "runners"}
    PROVE  \/ /\ FetchRunners /\ runnerList' = ListRunners /\ pc' = "maintain"
              /\ UNCHANGED <<runner, busyAtStart>>
           \/ pc \notin {"idle", "runners"} /\ UNCHANGED <<runnerList, busyAtStart>>
  <1>1. CASE Manager
    BY <1>1 DEF Manager, FetchRunnerPods, FetchRunners, BeginMaintain, SkipPod, GetStatus,
                PostResult, DeletePod, PutDeletionTime, Protect, Relabel, Unlink, PodsVisited,
                RemoveRunner, EndPass, PassEnds, envVars, histVars
  <1>2. CASE RestartController BY <1>2 DEF RestartController, PassEnds
  <1>3. CASE UNCHANGED passVars /\ ~Manager /\ ~RestartController
    BY <1>3 DEF Next, Update, PodSteps, ReplicaSet, PodStarts, Register, Connect, TakeJob, EndJob,
                Publish, RestartContainer, Terminated, Agent, AgentExtend, AgentPut, AgentDelete,
                Tick, vars, passVars, histVars
  <1> QED BY <1>1, <1>2, <1>3, OtherSteps

\* The runners that are noted when a pass begins have taken their jobs.
LEMMA StartStep ==
    ASSUME TypeInv, RunnerInv, StartInv, [Next]_vars
    PROVE  StartInv'
  <1>1. busyAtStart \subseteq Pods BY DEF TypeInv, TypeOK, HistTypeOK
  <1>2. CASE FetchRunnerPods /\ busyAtStart' = {p \in Pods : runner[p] = "busy"}
    <2>1. ASSUME NEW p \in Pods, runner[p] = "busy" PROVE HadJob(p)
      BY <2>1 DEF RunnerInv, HadJob
    <2>2. UNCHANGED <<runner, st, pod>> BY <1>2 DEF FetchRunnerPods, envVars
    <2> QED BY <1>2, <2>1, <2>2 DEF StartInv, HadJob
  <1>3. CASE busyAtStart' \subseteq busyAtStart
    <2> SUFFICES ASSUME NEW p \in busyAtStart' PROVE HadJob(p)'
      BY DEF StartInv
    <2> QED BY <1>1, <1>3, HadJobStays DEF StartInv
  <1>4. \/ FetchRunnerPods /\ busyAtStart' = {p \in Pods : runner[p] = "busy"}
        \/ busyAtStart' \subseteq busyAtStart
    BY DEF Next, Manager, FetchRunnerPods, FetchRunners, BeginMaintain, SkipPod, GetStatus,
         PostResult, DeletePod, PutDeletionTime, Protect, Relabel, Unlink, PodsVisited,
         RemoveRunner, EndPass, PassEnds, histVars, Update, RestartController, PodSteps,
         ReplicaSet, PodStarts, Register, Connect, TakeJob, EndJob, Publish, RestartContainer,
         Terminated, Agent, AgentExtend, AgentPut, AgentDelete, Tick, vars
  <1> QED BY <1>2, <1>3, <1>4

\* The list of runners does not lose a job that goes on.
LEMMA SeenStep ==
    ASSUME TypeInv, StartInv, SeenInv, [Next]_vars
    PROVE  SeenInv'
  <1> SUFFICES ASSUME pc' \notin {"idle", "runners"}, NEW p \in busyAtStart',
                      runner'[p] = "busy"
               PROVE  runnerList'[p] = "busy"
    BY DEF SeenInv
  <1>1. busyAtStart \subseteq Pods BY DEF TypeInv, TypeOK, HistTypeOK
  <1>2. CASE runnerList' = ListRunners /\ UNCHANGED <<runner, busyAtStart>>
    BY <1>1, <1>2 DEF ListRunners, Registered
  <1>3. CASE pc \notin {"idle", "runners"} /\ UNCHANGED <<runnerList, busyAtStart>>
    <2>1. runner[p] = "busy" BY <1>1, <1>3, HadJobStays DEF StartInv
    <2> QED BY <1>3, <2>1 DEF SeenInv
  <1> QED BY <1>2, <1>3, ListBefore

\* A visit does not turn against a job that goes on.
LEMMA SparedStep ==
    ASSUME BusyInv, [Next]_vars
    PROVE  SparedInv'
  <1> SUFFICES ASSUME pc' \in {"post", "put", "delete"}, cur' \in busyAtStart',
                      runner'[cur'] = "busy"
               PROVE  FALSE
    BY DEF SparedInv
  <1>1. TypeInv /\ RunnerInv /\ StartInv /\ SeenInv /\ SparedInv BY DEF BusyInv
  <1>2. busyAtStart' = busyAtStart /\ busyAtStart \subseteq Pods
    BY <1>1, ListBefore DEF TypeInv, TypeOK, HistTypeOK
  <1>3. runner[cur'] = "busy" BY <1>1, <1>2, HadJobStays DEF StartInv
  <1>4. ASSUME NEW p \in Pods, GetStatus(p), cur' = p, pc' = AfterStatus(p, st[p]) PROVE FALSE
    <2>1. st[p].state = "running" BY <1>1, <1>3, <1>4 DEF RunnerInv
    <2>2. runnerList[p] = "busy" BY <1>1, <1>2, <1>3, <1>4 DEF SeenInv, GetStatus
    <2> QED BY <1>4, <2>1, <2>2 DEF AfterStatus, AfterDebugging, InUse, RunnerBusy
  <1>5. ASSUME pc \in {"post", "put", "delete"}, UNCHANGED cur PROVE FALSE
    BY <1>1, <1>2, <1>3, <1>5 DEF SparedInv
  <1>6. PostResult \/ PutDeletionTime => pc \in {"post", "put", "delete"}
    BY DEF PostResult, PutDeletionTime
  <1>7. pc' \in Visiting BY DEF Visiting
  <1> QED BY <1>1, <1>4, <1>5, <1>6, <1>7, VisitingBefore DEF passVars

\* Every step keeps the account of the busy runners.
LEMMA BusyStep == BusyInv /\ [Next]_vars => BusyInv'
  <1> SUFFICES ASSUME BusyInv, [Next]_vars PROVE BusyInv'
    OBVIOUS
  <1> QED BY TypeStep, RunnerStep, StartStep, SeenStep, SparedStep DEF BusyInv

\* No runner is there at the start.
LEMMA BusyInit == Init => BusyInv
  <1> SUFFICES ASSUME Init PROVE BusyInv
    OBVIOUS
  <1>1. RunnerInv /\ StartInv /\ SeenInv /\ SparedInv
    BY DEF Init, RunnerInv, StartInv, SeenInv, SparedInv
  <1> QED BY <1>1, TypeInit DEF BusyInv

\* A pod whose runner works on one job during the whole pass is not deleted by
\* it, though the list of runners and the status are older than the deletion.
THEOREM ManagerBusyPodIsKept == Spec => BusyPodIsKept
  <1>1. Spec => []BusyInv BY BusyInit, BusyStep, PTL DEF Spec
  <1>2. BusyInv => (\A p \in Pods : Deletes(p) => ~(p \in busyAtStart /\ runner[p] = "busy"))
    BY DEF BusyInv, SparedInv, Deletes
  <1> QED BY <1>1, <1>2, PTL DEF BusyPodIsKept

-----------------------------------------------------------------------------
(* Failed pods.  The time that decides is the one stored in the pod, if    *)
(* there is one, and it may have been stored by an earlier pass.           *)

\* The configuration may change, but not the time failed pods are kept.
FixedExtension == \A c, d \in Configs : c.extendDuration = d.extendDuration

\* The deletion time of status s is the one the manager computes.
OnTime(s) == s.deletionTime # Nil => s.deletionTime = s.finishedAt + cfg.extendDuration

\* A pod that has not published has no deletion time; one that has, has the
\* manager's, unless a user has set it.
StoredInv ==
    \A p \in Pods \ clicked :
        /\ ~Begun(p) => st[p].deletionTime = Nil
        /\ st[p].state = "debugging" => OnTime(st[p])

\* The snapshot of a pass.
SettledInv ==
    pc \in Passing => snap.extendDuration = cfg.extendDuration /\ snap.now <= now

\* A status that was read stays true of the pod, except for its deletion time.
ReadInv ==
    pc \in Visiting /\ status.state = "debugging" =>
        /\ Begun(cur)
        /\ cur \notin clicked => OnTime(status)
        /\ st[cur].state = "debugging" => st[cur].finishedAt = status.finishedAt

\* A debugging pod is deleted for its time only.
ReasonInv == pc = "delete" /\ status.state = "debugging" => NeedDelete(status)

KeptInv == TypeInv /\ StoredInv /\ SettledInv /\ ReadInv /\ ReasonInv

\* The time failed pods are kept is the same before and after a step.
LEMMA ExtensionStays ==
    ASSUME FixedExtension, TypeInv, [Next]_vars
    PROVE  cfg'.extendDuration = cfg.extendDuration /\ cfg.extendDuration \in Nat
  <1>1. cfg \in Configs /\ cfg' \in Configs BY TypeStep DEF TypeInv, TypeOK, ProcTypeOK
  <1> QED BY <1>1, ManagerAssumption DEF FixedExtension

\* What a user has touched stays touched.
LEMMA ClickedGrows ==
    ASSUME [Next]_vars
    PROVE  clicked \subseteq clicked'
  BY DEF Next, Manager, FetchRunnerPods, FetchRunners, BeginMaintain, SkipPod, GetStatus,
         PostResult, DeletePod, PutDeletionTime, Protect, Relabel, Unlink, PodsVisited,
         RemoveRunner, EndPass, histVars, Update, RestartController, PodSteps, ReplicaSet,
         PodStarts, Register, Connect, TakeJob, EndJob, Publish, RestartContainer, Terminated,
         Agent, AgentExtend, AgentPut, AgentDelete, Tick, vars

\* Who sets the deletion time that a pod shows.
LEMMA DeletionChanges ==
    ASSUME TypeInv, [Next]_vars, NEW p \in Pods
    PROVE  \/ st'[p].deletionTime = st[p].deletionTime
           \/ st'[p].deletionTime = Nil
           \/ /\ PutDeletionTime /\ cur = p
              /\ st'[p].deletionTime = status.finishedAt + snap.extendDuration
           \/ p \in clicked'
  <1> DEFINE Same == st'[p].deletionTime = st[p].deletionTime
  <1>1. st \in [Pods -> Statuses] BY DEF TypeInv, TypeOK, EnvTypeOK
  <1>2. ASSUME UNCHANGED st PROVE Same BY <1>2
  <1>3. CASE PutDeletionTime
    <2>1. cur \in Pods BY <1>3 DEF PutDeletionTime, TypeInv, CurInv, Visiting
    <2>2. CASE st' = [st EXCEPT ![cur].deletionTime = status.finishedAt + snap.extendDuration]
      BY <1>1, <1>3, <2>1, <2>2 DEF Statuses
    <2> QED BY <1>2, <1>3, <2>2 DEF PutDeletionTime
  <1>4. ASSUME NEW q \in Pods, AgentPut(q) \/ AgentDelete(q) PROVE Same \/ p \in clicked'
    BY <1>1, <1>4 DEF AgentPut, AgentDelete
  <1>5. ASSUME NEW q \in Pods, PodStarts(q) \/ Connect(q) PROVE Same
    BY <1>1, <1>5 DEF PodStarts, Connect, Statuses
  <1>6. ASSUME NEW q \in Pods, Publish(q) PROVE Same
    <2>1. PICK ext \in BOOLEAN, d \in 0 .. PublishDelay :
             st' = [st EXCEPT ![q].state = "debugging", ![q].finishedAt = now - d,
                              ![q].extend = ext]
      BY <1>6 DEF Publish
    <2> QED BY <1>1, <2>1 DEF Statuses
  <1>7. ASSUME NEW q \in Pods, RestartContainer(q) \/ Terminated(q)
        PROVE  Same \/ st'[p].deletionTime = Nil
    BY <1>1, <1>7 DEF RestartContainer, Terminated, ZeroStatus
  <1>8. CASE Manager
    BY <1>2, <1>3, <1>8
    DEF Manager, FetchRunnerPods, FetchRunners, BeginMaintain, SkipPod, GetStatus, PostResult,
        DeletePod, Protect, Relabel, Unlink, PodsVisited, RemoveRunner, EndPass, envVars
  <1>9. ASSUME NEW q \in Pods, PodSteps(q) PROVE Same \/ st'[p].deletionTime = Nil
    BY <1>2, <1>5, <1>6, <1>7, <1>9 DEF PodSteps, ReplicaSet, Register, TakeJob, EndJob
  <1>10. ASSUME NEW q \in Pods, Agent(q) PROVE Same \/ p \in clicked'
    BY <1>2, <1>4, <1>10 DEF Agent, AgentExtend
  <1> QED
    BY <1>2, <1>8, <1>9, <1>10 DEF Next, Update, RestartController, Tick, vars, envVars

\* Only the manager and the users set deletion times, and the manager sets the
\* one that belongs to the finish time.
LEMMA StoredStep ==
    ASSUME FixedExtension, KeptInv, [Next]_vars
    PROVE  StoredInv'
  <1> SUFFICES ASSUME NEW p \in Pods, p \notin clicked'
               PROVE  /\ ~Begun(p)' => st'[p].deletionTime = Nil
                      /\ st'[p].state = "debugging" => OnTime(st[p])'
    BY DEF StoredInv
  <1>1. TypeInv /\ StoredInv /\ SettledInv /\ ReadInv /\ p \notin clicked
    BY ClickedGrows DEF KeptInv
  <1>2. cfg'.extendDuration = cfg.extendDuration BY <1>1, ExtensionStays
  <1>3. ASSUME PutDeletionTime, cur = p
        PROVE  /\ Begun(p) /\ snap.extendDuration = cfg.extendDuration
               /\ st[p].state = "debugging" => st[p].finishedAt = status.finishedAt
    <2>1. pc \in Visiting /\ pc \in Passing /\ status.state = "debugging"
      BY <1>1, <1>3 DEF PutDeletionTime, Visiting, Passing, TypeInv, FinishInv
    <2> QED BY <1>1, <1>3, <2>1 DEF ReadInv, SettledInv
  <1>4. ASSUME ~Begun(p) PROVE st'[p].deletionTime = Nil
    <2>1. st[p].deletionTime = Nil BY <1>1, <1>4 DEF StoredInv
    <2> QED BY <1>1, <1>3, <1>4, <2>1, DeletionChanges
  <1>5. ~Begun(p)' => ~Begun(p) BY <1>1, BegunStays
  <1>6. ASSUME st'[p].state = "debugging", st'[p].deletionTime # Nil
        PROVE  st'[p].deletionTime = st'[p].finishedAt + cfg.extendDuration
    <2>1. st'[p].finishedAt = st[p].finishedAt /\ st[p].state = "debugging"
      <3>1. Begun(p) BY <1>4, <1>6
      <3>2. ~PodStarts(p) /\ ~Connect(p) /\ ~Publish(p)
        BY <3>1 DEF Begun, PodStarts, Connect, Publish
      <3>3. RestartContainer(p) \/ Terminated(p) => st'[p].state \in {"stale", Nil}
        BY <1>1 DEF RestartContainer, Terminated, ZeroStatus, TypeInv, TypeOK, EnvTypeOK
      <3> QED BY <1>1, <1>6, <3>2, <3>3, StatusChanges, NilAssumption
    <2>2. CASE st'[p].deletionTime = st[p].deletionTime
      BY <1>1, <1>6, <2>1, <2>2 DEF StoredInv, OnTime
    <2>3. CASE /\ PutDeletionTime /\ cur = p
               /\ st'[p].deletionTime = status.finishedAt + snap.extendDuration
      BY <1>3, <2>1, <2>3
    <2> QED BY <1>1, <1>6, <2>2, <2>3, DeletionChanges
  <1> QED BY <1>2, <1>4, <1>5, <1>6 DEF OnTime

\* The snapshot does not get out of date as far as the extension goes.
LEMMA SettledStep ==
    ASSUME FixedExtension, TypeInv, SettledInv, [Next]_vars
    PROVE  SettledInv'
  <1> SUFFICES ASSUME pc' \in Passing
               PROVE  snap'.extendDuration = cfg'.extendDuration /\ snap'.now <= now'
    BY DEF SettledInv
  <1>1. now \in Nat /\ snap.now \in Nat BY DEF TypeInv, TypeOK, EnvTypeOK, PassTypeOK, Snaps
  <1>2. cfg'.extendDuration = cfg.extendDuration BY ExtensionStays
  <1>3. now <= now' BY <1>1, ClockRuns
  <1>4. CASE BeginMaintain BY <1>1, <1>2, <1>3, <1>4 DEF BeginMaintain, TakeSnap
  <1>5. CASE pc \in Passing /\ UNCHANGED snap
    <2>1. now' \in Nat BY <1>1, ClockRuns
    <2> QED BY <1>1, <1>2, <1>3, <1>5, <2>1 DEF SettledInv
  <1> QED BY <1>4, <1>5, PassingBefore

\* What was read stays true of the pod.
LEMMA ReadStep ==
    ASSUME FixedExtension, KeptInv, [Next]_vars
    PROVE  ReadInv'
  <1> SUFFICES ASSUME pc' \in Visiting, status'.state = "debugging"
               PROVE  /\ Begun(cur)'
                      /\ cur' \notin clicked' => OnTime(status)'
                      /\ st'[cur'].state = "debugging"
                            => st'[cur'].finishedAt = status'.finishedAt
    BY DEF ReadInv
  <1>1. TypeInv /\ StoredInv /\ ReadInv BY DEF KeptInv
  <1>2. cfg'.extendDuration = cfg.extendDuration BY <1>1, ExtensionStays
  <1>3. ASSUME NEW p \in Pods, GetStatus(p), cur' = p, status' = st[p]
        PROVE  /\ Begun(p)' /\ UNCHANGED st
               /\ p \notin clicked' => OnTime(status)'
    <2>1. UNCHANGED <<st, pod, cfg, clicked>> /\ pod[p].phase \in {"running", "terminating"}
      BY <1>3 DEF GetStatus, envVars, procVars, histVars
    <2>2. Begun(p) BY <1>3, <2>1 DEF Begun
    <2> QED BY <1>1, <1>3, <2>1, <2>2 DEF Begun, StoredInv, OnTime
  <1>4. ASSUME pc \in Visiting, UNCHANGED <<cur, status>>
        PROVE  /\ Begun(cur)'
               /\ cur' \notin clicked' => OnTime(status)'
               /\ st'[cur'].state = "debugging" => st'[cur'].finishedAt = status'.finishedAt
    <2>1. /\ cur \in Pods /\ Begun(cur)
          /\ cur \notin clicked => OnTime(status)
          /\ st[cur].state = "debugging" => st[cur].finishedAt = status.finishedAt
      BY <1>1, <1>4 DEF TypeInv, CurInv, ReadInv
    <2>2. Begun(cur)'
      <3>1. \A p \in Pods : Begun(p) => (st'[p].state \notin {"initializing", "running"}
                                 /\ pod'[p].phase \notin {"none", "pending"})
        BY <1>1, BegunStays DEF Begun
      <3> QED BY <1>4, <2>1, <3>1 DEF Begun
    <2>3. cur \notin clicked' => OnTime(status)' BY <1>2, <1>4, <2>1, ClickedGrows DEF OnTime
    <2>4. ~PodStarts(cur) /\ ~Connect(cur) /\ ~Publish(cur)
      BY <2>1 DEF Begun, PodStarts, Connect, Publish
    <2>5. RestartContainer(cur) \/ Terminated(cur) => st'[cur].state \in {"stale", Nil}
      BY <1>1, <2>1 DEF RestartContainer, Terminated, ZeroStatus, TypeInv, TypeOK, EnvTypeOK
    <2>6. st'[cur].state = "debugging" => st'[cur].finishedAt = status.finishedAt
      BY <1>1, <2>1, <2>4, <2>5, StatusChanges, NilAssumption
    <2> QED BY <1>4, <2>2, <2>3, <2>6
  <1>5. PostResult \/ PutDeletionTime \/ Protect \/ Relabel => pc \in Visiting
    BY DEF PostResult, PutDeletionTime, Protect, Relabel, Visiting
  <1>6. CASE \E p \in Pods : GetStatus(p) /\ cur' = p /\ status' = st[p]
    <2>1. PICK p \in Pods : GetStatus(p) /\ cur' = p /\ status' = st[p] BY <1>6
    <2>2. Begun(cur)' BY <1>3, <2>1 DEF Begun
    <2> QED BY <1>3, <2>1, <2>2
  <1> QED BY <1>1, <1>4, <1>5, <1>6, VisitingBefore DEF passVars

\* A debugging pod is in use, so its recreate deadline does not count.
LEMMA ReasonStep ==
    ASSUME TypeInv, ReasonInv, [Next]_vars
    PROVE  ReasonInv'
  <1> SUFFICES ASSUME pc' = "delete", status'.state = "debugging"
               PROVE  NeedDelete(status)'
    BY DEF ReasonInv
  <1>1. ASSUME NEW p, NEW s, s.state = "debugging"
        PROVE  /\ AfterDebugging(p, s) # "delete"
               /\ AfterPost(p, s) = "delete" => NeedDelete(s)
               /\ AfterStatus(p, s) = "delete" => NeedDelete(s)
    BY <1>1 DEF AfterDebugging, AfterPost, AfterStatus, InUse
  <1>2. pc' \in Visiting /\ pc' \in Passing BY DEF Visiting, Passing
  <1>3. ASSUME NEW p \in Pods, GetStatus(p), status' = st[p], pc' = AfterStatus(p, st[p])
        PROVE  NeedDelete(status)'
    BY <1>1, <1>3 DEF GetStatus, NeedDelete, NeedExtend
  <1>4. ASSUME PostResult, UNCHANGED status, pc' = AfterPost(cur, status)
        PROVE  NeedDelete(status)'
    BY <1>1, <1>4 DEF PostResult, NeedDelete, NeedExtend
  <1>5. ~(UNCHANGED status /\ pc' = AfterDebugging(cur, status)) BY <1>1
  <1>6. CASE UNCHANGED passVars BY <1>6 DEF passVars, ReasonInv, NeedDelete, NeedExtend
  <1> QED BY <1>2, <1>3, <1>4, <1>5, <1>6, VisitingBefore

\* Every step keeps the account of the deletion times.
LEMMA KeptStep ==
    ASSUME FixedExtension, KeptInv, [Next]_vars
    PROVE  KeptInv'
  BY TypeStep, StoredStep, SettledStep, ReadStep, ReasonStep DEF KeptInv

\* No pod has a deletion time at the start.
LEMMA KeptInit == Init => KeptInv
  <1> SUFFICES ASSUME Init PROVE KeptInv
    OBVIOUS
  <1>1. StoredInv /\ SettledInv /\ ReadInv /\ ReasonInv
    BY NilAssumption DEF Init, ZeroStatus, StoredInv, SettledInv, ReadInv, ReasonInv, OnTime,
       Passing, Visiting
  <1> QED BY <1>1, TypeInit DEF KeptInv

\* If the extension does not change, a failed pod that no user has touched is
\* kept for all of it: whichever pass has stored the deletion time, and
\* whatever the recreate deadline is.
THEOREM ManagerFailedPodIsKept ==
    ASSUME FixedExtension
    PROVE  Spec => FailedPodIsKept
  <1> DEFINE Kept ==
        \A p \in Pods :
           Deletes(p) /\ status.state = "debugging" /\ status.extend /\ p \notin clicked
              /\ cfg.extendDuration # 0
           => now > status.finishedAt + cfg.extendDuration
  <1>1. KeptInv /\ [Next]_vars => KeptInv' BY KeptStep
  <1>2. Spec => []KeptInv BY <1>1, KeptInit, PTL DEF Spec
  <1>3. KeptInv => Kept
    <2> SUFFICES ASSUME KeptInv, NEW p \in Pods, Deletes(p), status.state = "debugging",
                        status.extend, p \notin clicked, cfg.extendDuration # 0
                 PROVE  now > status.finishedAt + cfg.extendDuration
      OBVIOUS
    <2>1. /\ NeedDelete(status) /\ OnTime(status)
          /\ snap.extendDuration = cfg.extendDuration /\ snap.now <= now
      BY DEF Deletes, KeptInv, ReasonInv, ReadInv, SettledInv, Passing, Visiting
    <2>2. snap.now > status.finishedAt + cfg.extendDuration
      BY <2>1 DEF NeedDelete, NeedExtend, OnTime
    <2>3. /\ now \in Nat /\ snap.now \in Nat /\ status.finishedAt \in Int
          /\ cfg.extendDuration \in Nat
      BY ManagerAssumption
      DEF KeptInv, TypeInv, TypeOK, EnvTypeOK, ProcTypeOK, PassTypeOK, FinishInv, Snaps
    <2> QED BY <2>1, <2>2, <2>3
  <1> QED BY <1>2, <1>3, PTL DEF FailedPodIsKept

=============================================================================
