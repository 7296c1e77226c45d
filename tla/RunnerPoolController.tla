------------------------ MODULE RunnerPoolController ------------------------
(***************************************************************************)
(* The reconciler of one RunnerPool (controllers/runnerpool_controller.go) *)
(* with the registries of the runner manager and the secret updater, which *)
(* hold one goroutine each for the pool.                                   *)
(*                                                                         *)
(* A user creates, updates, deletes and recreates the pool under the same  *)
(* name; the webhooks refuse a target that is not valid and any change of  *)
(* it.  Reconcile reads the pool from the cache and works in steps, each   *)
(* of which may fail; a failing reconciliation is queued again.  The       *)
(* finalizer keeps a deleted pool until both goroutines have stopped; the  *)
(* manager's goroutine removes the pool's runners from GitHub on its way   *)
(* out.  The controller may crash, or be shut down in order.               *)
(*                                                                         *)
(* The goroutines' own work is reduced to what the reconciler depends on:  *)
(* SecretUpdater and RunnerManager have the rest.  External: the API       *)
(* server with its watches, the garbage collector, pods and GitHub.  Left  *)
(* out: the Deployment's contents other than the generation of the spec.   *)
(***************************************************************************)
EXTENDS Naturals, FiniteSets

CONSTANTS
    Pods,           \* pods the pool's Deployment may start
    Targets,        \* organizations and repositories, valid and not
    Valid,          \* those that pass the validation
    NoTarget,       \* target of a pool that is not there
    Wanted,         \* the target each pool is created with
    MaxPools,       \* bound: how often the pool is created
    MaxGen,         \* bound: generations of one pool's spec
    MaxFailures,    \* bound: failing calls
    MaxRestarts     \* bound: crashes and shutdowns of the controller

ASSUME ControllerAssumption ==
    /\ Valid \subseteq Targets /\ NoTarget \notin Targets
    /\ Wanted \in [1 .. MaxPools -> Targets]
    /\ MaxPools \in Nat /\ MaxGen \in Nat
    /\ MaxFailures \in Nat /\ MaxRestarts \in Nat

VARIABLES
    \* the API server, pods and GitHub
    pool,           \* the RunnerPool
    secret, deploy, \* its Secret and its Deployment
    pods,           \* its pods
    home,           \* the target each pod was started for
    runners,        \* the pods whose runners GitHub knows, at their targets
    \* the controller
    seen,           \* the pool in the cache
    queued,         \* a request for the pool is in the work queue
    work,           \* the reconciliation: next step, its rp, isContinuation
    upd,            \* SecretUpdater's process: the pool it was started for
    mgr,            \* RunnerManager's process: step, pool, spec, runners to remove
    ctrl,           \* "up", "stopping" (updater stopped), "stopped" (manager too)
    failures, restarts

apiVars == <<pool, secret, deploy>>
podVars == <<pods, home, runners>>
reqVars == <<seen, queued>>
procVars == <<upd, mgr>>
vars == <<apiVars, podVars, reqVars, work, procVars, ctrl, failures, restarts>>

-----------------------------------------------------------------------------
(* Values *)

Uids == 0 .. MaxPools
Gens == 0 .. MaxGen
Goals == Targets \cup {NoTarget}
PoolRecords == [uid : Uids, phase : {"absent", "live", "deleting"}, gen : Gens,
                target : Goals, bound : BOOLEAN]

\* uid 0: nobody's, not there.
NoSecret == [uid |-> 0, filled |-> FALSE]
NoDeploy == [uid |-> 0, gen |-> 0]

Steps == {"idle", "secret", "updater", "deploy", "manager", "status",
          "stopManager", "stopUpdater", "finalizer"}

WorkRecords == [pc : Steps, rp : PoolRecords, cont : BOOLEAN]
ManagerRecords == [pc : {"none", "loop", "list", "remove"}, uid : Uids, gen : Gens,
                   target : Goals, doomed : SUBSET Pods]

NoPool == [uid |-> 0, phase |-> "absent", gen |-> 0, target |-> NoTarget, bound |-> FALSE]
NoWork == [pc |-> "idle", rp |-> NoPool, cont |-> FALSE]
NoManager == [pc |-> "none", uid |-> 0, gen |-> 0, target |-> NoTarget, doomed |-> {}]

\* newManageProcess: owner and repository are those of the pool it is made for.
NewManager(rp) ==
    [pc |-> "loop", uid |-> rp.uid, gen |-> rp.gen, target |-> rp.target, doomed |-> {}]

Init ==
    /\ pool = NoPool
    /\ secret = NoSecret
    /\ deploy = NoDeploy
    /\ pods = [p \in Pods |-> "none"]
    /\ home = [p \in Pods |-> NoTarget]
    /\ runners = {}
    /\ seen = NoPool
    /\ queued = FALSE
    /\ work = NoWork
    /\ upd = 0
    /\ mgr = NoManager
    /\ ctrl = "up"
    /\ failures = 0
    /\ restarts = 0

Works == UNCHANGED failures
Fails == failures < MaxFailures /\ failures' = failures + 1

\* Reconcile returns an error: the request is queued again.
Retry == work' = NoWork /\ queued' = TRUE

Step(s) == work' = [work EXCEPT !.pc = s] /\ UNCHANGED queued

-----------------------------------------------------------------------------
(* Faulty variants of the definitions below, used to check that the        *)
(* properties can fail.                                                    *)

\* Only the process that is started gets the spec; update() is not called.
StartManagerNoUpdate ==
    /\ work.pc = "manager"
    /\ mgr' = IF mgr.pc = "none" THEN NewManager(work.rp) ELSE mgr
    /\ Step("status") /\ Works
    /\ UNCHANGED <<apiVars, podVars, seen, upd, ctrl, restarts>>

\* The finalizer is removed although the pool's goroutines still run.
DequeueSkipsStop ==
    /\ work.pc = "idle" /\ queued /\ ctrl = "up"
    /\ queued' = FALSE
    /\ work' = CASE seen.phase = "absent" -> NoWork
                 [] seen.phase = "deleting" -> [pc |-> "finalizer", rp |-> seen, cont |-> FALSE]
                 [] seen.phase = "live" -> [pc |-> "secret", rp |-> seen, cont |-> FALSE]
    /\ UNCHANGED <<apiVars, podVars, seen, procVars, ctrl, failures, restarts>>

\* A pool without a token is not looked at again.
StartUpdaterNoRequeue ==
    /\ work.pc = "updater"
    /\ ctrl = "up" /\ Works
    /\ upd' = IF upd = 0 THEN work.rp.uid ELSE upd
    /\ IF work.cont THEN Step("deploy") ELSE work' = NoWork /\ UNCHANGED queued
    /\ UNCHANGED <<apiVars, podVars, seen, mgr, ctrl, restarts>>

\* A conflict is taken for success.
RemoveFinalizerIgnoresConflict ==
    /\ work.pc = "finalizer"
    /\ \/ /\ work.rp = pool /\ Works
          /\ pool' = [NoPool EXCEPT !.uid = pool.uid]
       \/ work.rp # pool /\ Works /\ UNCHANGED pool
       \/ Fails /\ UNCHANGED pool
    /\ work' = NoWork /\ UNCHANGED queued
    /\ UNCHANGED <<secret, deploy, podVars, seen, procVars, ctrl, restarts>>

\* The update webhook looks at the new object only.
ValidateUpdateNewOnly(t, old) == t \in Valid

\* A new process waits for events and does not look at what is there.
BootsIdle ==
    /\ ctrl' = "up"
    /\ work' = NoWork
    /\ upd' = 0
    /\ mgr' = NoManager
    /\ seen' = pool
    /\ queued' = FALSE

-----------------------------------------------------------------------------
(* Users *)

\* validateCommon: exactly one of organization and repository, well formed.
ValidateCommon(t) == t \in Valid

\* validateUpdate: the target is immutable.
ValidateUpdate(t, old) == t = old /\ ValidateCommon(t)

\* The defaulting webhook adds the finalizer to every new pool.
CreatePool ==
    /\ pool.phase = "absent" /\ pool.uid < MaxPools /\ MaxGen > 0
    /\ ValidateCommon(Wanted[pool.uid + 1])
    /\ pool' = [uid |-> pool.uid + 1, phase |-> "live", gen |-> 1,
                target |-> Wanted[pool.uid + 1], bound |-> FALSE]
    /\ UNCHANGED <<secret, deploy, podVars, reqVars, work, procVars, ctrl, failures, restarts>>

UpdatePool(t) ==
    /\ pool.phase = "live" /\ pool.gen < MaxGen
    /\ ValidateUpdate(t, pool.target)
    /\ pool' = [pool EXCEPT !.gen = @ + 1, !.target = t]
    /\ UNCHANGED <<secret, deploy, podVars, reqVars, work, procVars, ctrl, failures, restarts>>

DeletePool ==
    /\ pool.phase = "live"
    /\ pool' = [pool EXCEPT !.phase = "deleting"]
    /\ UNCHANGED <<secret, deploy, podVars, reqVars, work, procVars, ctrl, failures, restarts>>

-----------------------------------------------------------------------------
(* Reconcile *)

\* A watch event brings the cache up to date and queues a request.
WatchPool ==
    /\ seen # pool
    /\ seen' = pool
    /\ queued' = TRUE
    /\ UNCHANGED <<apiVars, podVars, work, procVars, ctrl, failures, restarts>>

Dequeue ==
    /\ work.pc = "idle" /\ queued /\ ctrl = "up"
    /\ queued' = FALSE
    /\ work' = CASE seen.phase = "absent" -> NoWork
                 [] seen.phase = "deleting" -> [pc |-> "stopManager", rp |-> seen, cont |-> FALSE]
                 [] seen.phase = "live" -> [pc |-> "secret", rp |-> seen, cont |-> FALSE]
    /\ UNCHANGED <<apiVars, podVars, seen, procVars, ctrl, failures, restarts>>

\* validation, getGitHubCredential and reconcileSecret.  A Secret that is
\* there is taken as it is, whoever owns it.
ReconcileSecret ==
    /\ work.pc = "secret"
    /\ \/ /\ Works
          /\ secret' = IF secret.uid # 0 THEN secret
                       ELSE [uid |-> work.rp.uid, filled |-> FALSE]
          /\ work' = [work EXCEPT !.pc = "updater", !.cont = secret.filled]
          /\ UNCHANGED queued
       \/ Fails /\ Retry /\ UNCHANGED secret
    /\ UNCHANGED <<pool, deploy, podVars, seen, procVars, ctrl, restarts>>

\* SecretUpdater.Start; without a token Reconcile comes back in 10 seconds.
StartUpdater ==
    /\ work.pc = "updater"
    /\ \/ /\ ctrl = "up" /\ Works
          /\ upd' = IF upd = 0 THEN work.rp.uid ELSE upd
          /\ IF work.cont THEN Step("deploy") ELSE Retry
       \/ ctrl # "up" /\ Works /\ Retry /\ UNCHANGED upd
       \/ ctrl = "up" /\ upd = 0 /\ Fails /\ Retry /\ UNCHANGED upd
    /\ UNCHANGED <<apiVars, podVars, seen, mgr, ctrl, restarts>>

\* CreateOrUpdate; a Deployment that another pool controls is an error.
ReconcileDeployment ==
    /\ work.pc = "deploy"
    /\ \/ /\ deploy.uid \in {0, work.rp.uid} /\ Works
          /\ deploy' = [uid |-> work.rp.uid, gen |-> work.rp.gen]
          /\ work' = [work EXCEPT !.pc = "manager"]
          /\ queued' = (queued \/ deploy' # deploy)
       \/ deploy.uid \notin {0, work.rp.uid} /\ Works /\ Retry /\ UNCHANGED deploy
       \/ Fails /\ Retry /\ UNCHANGED deploy
    /\ UNCHANGED <<pool, secret, podVars, seen, procVars, ctrl, restarts>>

\* RunnerManager.StartOrUpdate; update() sets the fields before it can fail.
StartManager ==
    /\ work.pc = "manager"
    /\ \/ /\ ctrl # "stopped" /\ mgr.pc = "none" /\ Works
          /\ mgr' = NewManager(work.rp)
          /\ Step("status")
       \/ ctrl # "stopped" /\ mgr.pc = "none" /\ Fails /\ Retry /\ UNCHANGED mgr
       \/ /\ ctrl # "stopped" /\ mgr.pc # "none"
          /\ mgr' = [mgr EXCEPT !.gen = work.rp.gen]
          /\ (Works /\ Step("status")) \/ (Fails /\ Retry)
       \/ ctrl = "stopped" /\ Works /\ Retry /\ UNCHANGED mgr
    /\ UNCHANGED <<apiVars, podVars, seen, upd, ctrl, restarts>>

\* Updates carry the version that was read and fail if it is outdated.
UpdateStatus ==
    /\ work.pc = "status"
    /\ \/ /\ work.rp = pool /\ Works
          /\ pool' = [pool EXCEPT !.bound = TRUE]
          /\ work' = NoWork /\ UNCHANGED queued
       \/ work.rp # pool /\ Works /\ Retry /\ UNCHANGED pool
       \/ Fails /\ Retry /\ UNCHANGED pool
    /\ UNCHANGED <<secret, deploy, podVars, seen, procVars, ctrl, restarts>>

\* RunnerManager.Stop cancels the goroutine and waits for it.
StopManager ==
    /\ work.pc = "stopManager"
    /\ \/ mgr.pc = "loop" /\ mgr' = [mgr EXCEPT !.pc = "list"] /\ UNCHANGED <<work, queued>>
       \/ mgr.pc = "none" /\ Step("stopUpdater") /\ UNCHANGED mgr
    /\ UNCHANGED <<apiVars, podVars, seen, upd, ctrl, failures, restarts>>

StopUpdater ==
    /\ work.pc = "stopUpdater"
    /\ upd' = 0
    /\ Step("finalizer")
    /\ UNCHANGED <<apiVars, podVars, seen, mgr, ctrl, failures, restarts>>

RemoveFinalizer ==
    /\ work.pc = "finalizer"
    /\ \/ /\ work.rp = pool /\ Works
          /\ pool' = [NoPool EXCEPT !.uid = pool.uid]
          /\ work' = NoWork /\ UNCHANGED queued
       \/ work.rp # pool /\ Works /\ Retry /\ UNCHANGED pool
       \/ Fails /\ Retry /\ UNCHANGED pool
    /\ UNCHANGED <<secret, deploy, podVars, seen, procVars, ctrl, restarts>>

-----------------------------------------------------------------------------
(* The goroutines *)

\* updateSecret.
FillSecret ==
    /\ upd # 0 /\ secret.uid # 0 /\ ~secret.filled
    /\ secret' = [secret EXCEPT !.filled = TRUE]
    /\ queued' = TRUE
    /\ UNCHANGED <<pool, deploy, podVars, seen, work, procVars, ctrl, failures, restarts>>

\* fetchRunners and deleteAllRunners see the runners at the process's target.
ListRunners == {p \in runners : home[p] = mgr.target}

\* maintainRunnerPods: a pod whose runner is busy leaves the ReplicaSet.
Unlink(p) ==
    /\ mgr.pc = "loop" /\ pods[p] = "registered" /\ p \in ListRunners
    /\ pods' = [pods EXCEPT ![p] = "unlinked"]
    /\ UNCHANGED <<apiVars, home, runners, reqVars, work, procVars, ctrl, failures, restarts>>

\* maintainRunnerPods: a pod that has finished is deleted.  Pods are found by
\* the name of the pool, so that the next pool of this name finds them too.
DeletePod(p) ==
    /\ mgr.pc = "loop" /\ pods[p] = "finished"
    /\ pods' = [pods EXCEPT ![p] = "gone"]
    /\ UNCHANGED <<apiVars, home, runners, reqVars, work, procVars, ctrl, failures, restarts>>

\* deleteOfflineRunners, for one runner.
RemoveOffline(p) ==
    /\ mgr.pc = "loop" /\ p \in ListRunners /\ pods[p] = "gone"
    /\ runners' = runners \ {p}
    /\ UNCHANGED <<apiVars, pods, home, reqVars, work, procVars, ctrl, failures, restarts>>

\* deleteAllRunners: any error ends it, and nobody looks at the error.
ListAllRunners ==
    /\ mgr.pc = "list"
    /\ \/ Works /\ mgr' = [mgr EXCEPT !.pc = "remove", !.doomed = ListRunners]
       \/ Fails /\ mgr' = NoManager
    /\ UNCHANGED <<apiVars, podVars, reqVars, work, upd, ctrl, restarts>>

RemoveListedRunner ==
    /\ mgr.pc = "remove"
    /\ \/ \E p \in mgr.doomed :
             \/ /\ p \in runners /\ Works
                /\ runners' = runners \ {p}
                /\ mgr' = [mgr EXCEPT !.doomed = @ \ {p}]
             \/ p \notin runners /\ Works /\ mgr' = NoManager /\ UNCHANGED runners
             \/ Fails /\ mgr' = NoManager /\ UNCHANGED runners
       \/ mgr.doomed = {} /\ Works /\ mgr' = NoManager /\ UNCHANGED runners
    /\ UNCHANGED <<apiVars, pods, home, reqVars, work, upd, ctrl, restarts>>

-----------------------------------------------------------------------------
(* The controller process *)

\* The new process fills its cache and queues what is there.
Boots ==
    /\ ctrl' = "up"
    /\ work' = NoWork
    /\ upd' = 0
    /\ mgr' = NoManager
    /\ seen' = pool
    /\ queued' = (pool.phase # "absent")

Crash ==
    /\ restarts < MaxRestarts
    /\ restarts' = restarts + 1
    /\ Boots
    /\ UNCHANGED <<apiVars, podVars, failures>>

\* SIGTERM: the deferred calls of run() stop the updater, then the manager,
\* while a reconciliation may still be at work.
StopAllUpdaters ==
    /\ ctrl = "up"
    /\ restarts < MaxRestarts
    /\ restarts' = restarts + 1
    /\ ctrl' = "stopping"
    /\ upd' = 0
    /\ UNCHANGED <<apiVars, podVars, reqVars, work, mgr, failures>>

StopAllManagers ==
    /\ ctrl = "stopping"
    /\ ctrl' = "stopped"
    /\ mgr' = IF mgr.pc = "loop" THEN [mgr EXCEPT !.pc = "list"] ELSE mgr
    /\ UNCHANGED <<apiVars, podVars, reqVars, work, upd, failures, restarts>>

Exits ==
    /\ ctrl = "stopped" /\ mgr.pc = "none"
    /\ Boots
    /\ UNCHANGED <<apiVars, podVars, failures, restarts>>

-----------------------------------------------------------------------------
(* The cluster *)

Orphaned(owner) == owner # 0 /\ (owner # pool.uid \/ pool.phase = "absent")

\* The garbage collector; the watches on owned objects queue a request.
CollectSecret ==
    /\ Orphaned(secret.uid)
    /\ secret' = NoSecret
    /\ queued' = TRUE
    /\ UNCHANGED <<pool, deploy, podVars, seen, work, procVars, ctrl, failures, restarts>>

CollectDeployment ==
    /\ Orphaned(deploy.uid)
    /\ deploy' = NoDeploy
    /\ queued' = TRUE
    /\ UNCHANGED <<pool, secret, podVars, seen, work, procVars, ctrl, failures, restarts>>

\* The Deployment hands owner and repository to its pods, in their environment.
PodStarts(p) ==
    /\ pods[p] = "none" /\ deploy.uid # 0
    /\ pods' = [pods EXCEPT ![p] = "starting"]
    /\ home' = [home EXCEPT ![p] = Wanted[deploy.uid]]
    /\ UNCHANGED <<apiVars, runners, reqVars, work, procVars, ctrl, failures, restarts>>

Register(p) ==
    /\ pods[p] = "starting" /\ secret.filled
    /\ pods' = [pods EXCEPT ![p] = "registered"]
    /\ runners' = runners \cup {p}
    /\ UNCHANGED <<apiVars, home, reqVars, work, procVars, ctrl, failures, restarts>>

\* The job of an unlinked pod ends, and its ephemeral runner goes with it.
JobEnds(p) ==
    /\ pods[p] = "unlinked"
    /\ pods' = [pods EXCEPT ![p] = "finished"]
    /\ runners' = runners \ {p}
    /\ UNCHANGED <<apiVars, home, reqVars, work, procVars, ctrl, failures, restarts>>

\* A pod is evicted, or the garbage collector follows its owners; an unlinked
\* pod has none.
PodEnds(p) ==
    /\ pods[p] \in {"starting", "registered"}
    /\ pods' = [pods EXCEPT ![p] = "gone"]
    /\ UNCHANGED <<apiVars, home, runners, reqVars, work, procVars, ctrl, failures, restarts>>

-----------------------------------------------------------------------------

Users == CreatePool \/ DeletePool \/ \E t \in Targets : UpdatePool(t)

Reconcile ==
    \/ Dequeue \/ ReconcileSecret \/ StartUpdater \/ ReconcileDeployment \/ StartManager
    \/ UpdateStatus \/ StopManager \/ StopUpdater \/ RemoveFinalizer

Goroutines ==
    \/ ListAllRunners \/ RemoveListedRunner
    \/ \E p \in Pods : DeletePod(p) \/ RemoveOffline(p)

Controller == Crash \/ StopAllUpdaters \/ StopAllManagers \/ Exits

Cluster ==
    \/ CollectSecret \/ CollectDeployment
    \/ \E p \in Pods : PodStarts(p) \/ Register(p) \/ Unlink(p) \/ JobEnds(p) \/ PodEnds(p)

Next == Users \/ WatchPool \/ Reconcile \/ FillSecret \/ Goroutines \/ Controller \/ Cluster

Spec == Init /\ [][Next]_vars

\* Requests are worked on, goroutines run, watches deliver, the garbage
\* collector collects and a shutdown runs to its end.
Fairness ==
    /\ WF_vars(WatchPool) /\ WF_vars(Reconcile) /\ WF_vars(FillSecret) /\ WF_vars(Goroutines)
    /\ WF_vars(StopAllManagers) /\ WF_vars(Exits)
    /\ WF_vars(CollectSecret) /\ WF_vars(CollectDeployment)

FairSpec == Spec /\ Fairness

-----------------------------------------------------------------------------
(* Properties *)

\* Every variable keeps its type.
TypeOK ==
    /\ pool \in PoolRecords /\ seen \in PoolRecords
    /\ secret \in [uid : Uids, filled : BOOLEAN]
    /\ deploy \in [uid : Uids, gen : Gens]
    /\ pods \in [Pods -> {"none", "starting", "registered", "unlinked", "finished", "gone"}]
    /\ home \in [Pods -> Goals]
    /\ runners \subseteq Pods
    /\ queued \in BOOLEAN
    /\ work \in WorkRecords
    /\ upd \in Uids
    /\ mgr \in ManagerRecords
    /\ ctrl \in {"up", "stopping", "stopped"}
    /\ failures \in Nat /\ restarts \in Nat

\* The finalizer does its work: whatever the interleaving of reconciliations
\* with stale reads, deletions, recreations, crashes and shutdowns, no
\* goroutine runs for a pool that is gone.
NoProcessWithoutPool == pool.phase = "absent" => upd = 0 /\ mgr.pc = "none"

\* A goroutine that works for a live pool was started for that pool and not
\* for an earlier one of the same name.
ProcessOfThisPool ==
    pool.phase # "absent" => upd \in {0, pool.uid} /\ mgr.uid \in {0, pool.uid}

\* Target of a process and target of its pool agree: it is read once, when the
\* process starts, and neither an update nor a pool that follows under the same
\* name can separate the two.
ProcessHasTarget ==
    pool.phase # "absent" /\ mgr.pc # "none" => mgr.target = pool.target

Served ==
    /\ secret.uid # 0 /\ upd = pool.uid
    /\ deploy = [uid |-> pool.uid, gen |-> pool.gen]
    /\ mgr.pc = "loop" /\ mgr.uid = pool.uid /\ mgr.gen = pool.gen

\* When nothing is left to do, a live pool is served: the Deployment and the
\* manager have the newest spec and both goroutines run.  No event that
\* matters is missed and no stale spec is left in place.
QuietMeansServed ==
    ctrl = "up" /\ ~queued /\ work.pc = "idle" /\ seen = pool /\ pool.phase = "live"
        => Served /\ pool.bound

\* A pool is served in the end, unless it is deleted.
PoolIsServed == pool.phase = "live" ~> (pool.phase # "live" \/ Served)

\* A deleted pool goes away in the end: the finalizer does not hold it for
\* ever.
DeletedPoolGoes == pool.phase = "deleting" ~> pool.phase = "absent"

\* README.md: "When a job has finished, meows will delete the assigned runner
\* pod after a while."  An unlinked pod is the manager's to delete: while there
\* is a pool of the name, restarts, failures and a recreated pool do not leave
\* it behind.
FinishedPodGoes ==
    \A p \in Pods : pods[p] = "finished" ~> (pods[p] = "gone" \/ pool.phase # "live")

\* docs/development.md: "The controller can delete runner registrations of
\* unexisting `Pod`s"; controllers/runner_manager_test.go: stopping a pool's
\* process "should delete all runners".  So, when the pool is gone with its
\* pods and its processes, GitHub has no runner of it.
RunnersGoWithPool ==
    (/\ pool.phase = "absent" /\ mgr.pc = "none"
     /\ \A p \in Pods : pods[p] \in {"none", "gone"}) => runners = {}

=============================================================================
