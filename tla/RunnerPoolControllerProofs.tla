--------------------- MODULE RunnerPoolControllerProofs ---------------------
(***************************************************************************)
(* TLAPS proofs about RunnerPoolController: for any number of pods, pools, *)
(* failures and restarts, no goroutine outlives its pool, is passed on to  *)
(* the next pool of the same name or works for another target.             *)
(***************************************************************************)
EXTENDS RunnerPoolController, TLAPS

LiveSteps == {"secret", "updater", "deploy", "manager", "status"}
StopSteps == {"stopManager", "stopUpdater", "finalizer"}

\* A manager that is not there serves no pool.
ShapeInv == mgr.pc = "none" => mgr.uid = 0

\* The cache lags behind the API server but never runs ahead: it does not
\* show a live pool that is gone, nor a deletion that was taken back.
CacheInv ==
    /\ seen.uid <= pool.uid
    /\ seen.phase = "live" => seen.uid = pool.uid /\ pool.phase # "absent"
    /\ seen.phase = "deleting" /\ seen.uid = pool.uid => pool.phase # "live"

\* A reconciliation that builds works for the pool that is there; one that
\* tears down has read a pool whose deletion the cache still shows.
WorkInv ==
    /\ work.pc \in LiveSteps => work.rp.uid = pool.uid /\ pool.phase # "absent"
    /\ work.pc \in StopSteps =>
          /\ work.rp.phase = "deleting"
          /\ work.rp.uid <= pool.uid
          /\ work.rp.uid = pool.uid => pool.phase # "live" /\ seen.phase # "live"

\* The order of the teardown.
StopInv ==
    /\ work.pc \in {"stopUpdater", "finalizer"} => mgr.pc = "none"
    /\ work.pc = "finalizer" => upd = 0

\* The target is read from the cache and kept by the manager's process: both
\* have it from this pool, whose target no update changes.
TargetInv ==
    /\ seen.phase # "absent" /\ seen.uid = pool.uid /\ pool.phase # "absent"
          => seen.target = pool.target
    /\ work.pc \in LiveSteps => work.rp.target = pool.target
    /\ ProcessHasTarget

Inv ==
    /\ TypeOK /\ ShapeInv /\ CacheInv /\ WorkInv /\ StopInv
    /\ NoProcessWithoutPool /\ ProcessOfThisPool /\ TargetInv

-----------------------------------------------------------------------------
(* Types *)

\* The constant records have their types.
LEMMA Constants ==
    /\ NoPool \in PoolRecords /\ NoWork \in WorkRecords /\ NoManager \in ManagerRecords
    /\ NoSecret \in [uid : Uids, filled : BOOLEAN] /\ NoDeploy \in [uid : Uids, gen : Gens]
    /\ 0 \in Uids /\ 0 \in Gens /\ NoTarget \in Goals
  BY ControllerAssumption
  DEF NoPool, NoWork, NoManager, NoSecret, NoDeploy, PoolRecords, WorkRecords, ManagerRecords,
      Uids, Gens, Goals, Steps

\* Pools as users and the API server change them.
LEMMA PoolValues ==
    ASSUME NEW r \in PoolRecords
    PROVE  /\ r.uid \in Uids /\ r.gen \in Gens /\ r.target \in Goals
           /\ r.phase \in {"absent", "live", "deleting"} /\ r.bound \in BOOLEAN
           /\ [r EXCEPT !.phase = "deleting"] \in PoolRecords
           /\ [r EXCEPT !.bound = TRUE] \in PoolRecords
           /\ r.gen < MaxGen =>
                 \A t \in Targets : [r EXCEPT !.gen = @ + 1, !.target = t] \in PoolRecords
           /\ [NoPool EXCEPT !.uid = r.uid] \in PoolRecords
           /\ r.uid < MaxPools /\ MaxGen > 0 =>
                 [uid |-> r.uid + 1, phase |-> "live", gen |-> 1,
                  target |-> Wanted[r.uid + 1], bound |-> FALSE] \in PoolRecords
  <1>1. /\ r.uid \in Uids /\ r.gen \in Gens /\ r.target \in Goals
        /\ r.phase \in {"absent", "live", "deleting"} /\ r.bound \in BOOLEAN
    BY DEF PoolRecords
  <1>2. /\ [r EXCEPT !.phase = "deleting"] \in PoolRecords
        /\ [r EXCEPT !.bound = TRUE] \in PoolRecords
    BY DEF PoolRecords
  <1>3. ASSUME r.gen < MaxGen, NEW t \in Targets
        PROVE  [r EXCEPT !.gen = @ + 1, !.target = t] \in PoolRecords
    <2>1. r.gen + 1 \in Gens /\ t \in Goals
      BY <1>1, <1>3, ControllerAssumption DEF Gens, Goals
    <2> QED BY <2>1 DEF PoolRecords
  <1>4. [NoPool EXCEPT !.uid = r.uid] \in PoolRecords
    BY <1>1, Constants DEF PoolRecords
  <1>5. ASSUME r.uid < MaxPools, MaxGen > 0
        PROVE  [uid |-> r.uid + 1, phase |-> "live", gen |-> 1,
                target |-> Wanted[r.uid + 1], bound |-> FALSE] \in PoolRecords
    <2>1. r.uid + 1 \in Uids /\ r.uid + 1 \in 1 .. MaxPools /\ 1 \in Gens
      BY <1>1, <1>5, ControllerAssumption DEF Uids, Gens
    <2>2. Wanted[r.uid + 1] \in Goals
      BY <2>1, ControllerAssumption DEF Goals
    <2> QED BY <2>1, <2>2 DEF PoolRecords
  <1> QED BY <1>1, <1>2, <1>3, <1>4, <1>5

\* The reconciliation as it moves on.
LEMMA WorkValues ==
    ASSUME NEW w \in WorkRecords
    PROVE  /\ w.rp \in PoolRecords /\ w.pc \in Steps /\ w.cont \in BOOLEAN
           /\ \A s \in Steps : [w EXCEPT !.pc = s] \in WorkRecords
           /\ \A s \in Steps, c \in BOOLEAN : [w EXCEPT !.pc = s, !.cont = c] \in WorkRecords
           /\ \A s \in Steps, r \in PoolRecords :
                 [pc |-> s, rp |-> r, cont |-> FALSE] \in WorkRecords
  BY DEF WorkRecords

\* The manager as it moves on.
LEMMA ManagerValues ==
    ASSUME NEW m \in ManagerRecords
    PROVE  /\ m.uid \in Uids /\ m.doomed \subseteq Pods
           /\ m.pc \in {"none", "loop", "list", "remove"}
           /\ [m EXCEPT !.pc = "list"] \in ManagerRecords
           /\ \A g \in Gens : [m EXCEPT !.gen = g] \in ManagerRecords
           /\ \A d \in SUBSET Pods : [m EXCEPT !.doomed = d] \in ManagerRecords
           /\ \A d \in SUBSET Pods : [m EXCEPT !.pc = "remove", !.doomed = d] \in ManagerRecords
           /\ \A r \in PoolRecords : NewManager(r) \in ManagerRecords
  BY PoolValues DEF ManagerRecords, NewManager

\* The next step's name is one.
LEMMA StepNames ==
    {"updater", "deploy", "manager", "status", "stopManager", "stopUpdater", "finalizer",
     "secret"} \subseteq Steps
  BY DEF Steps

\* In the initial state every variable has its type.
LEMMA TypeInit == Init => TypeOK
  <1> SUFFICES ASSUME Init PROVE TypeOK
    OBVIOUS
  <1>1. /\ secret \in [uid : Uids, filled : BOOLEAN] /\ deploy \in [uid : Uids, gen : Gens]
        /\ pool \in PoolRecords /\ seen \in PoolRecords
        /\ work \in WorkRecords /\ mgr \in ManagerRecords /\ upd \in Uids
    BY Constants DEF Init
  <1>2. /\ pods \in [Pods -> {"none", "starting", "registered", "unlinked", "finished", "gone"}]
        /\ home \in [Pods -> Goals]
        /\ runners \subseteq Pods /\ queued \in BOOLEAN
        /\ ctrl \in {"up", "stopping", "stopped"}
        /\ failures \in Nat /\ restarts \in Nat
    BY Constants DEF Init
  <1> QED BY <1>1, <1>2 DEF TypeOK

\* Every step keeps the types.
LEMMA TypeStep == TypeOK /\ [Next]_vars => TypeOK'
  <1> SUFFICES ASSUME TypeOK, [Next]_vars PROVE TypeOK'
    OBVIOUS
  <1> USE ControllerAssumption, Constants, StepNames
  <1>1. /\ pool \in PoolRecords /\ seen \in PoolRecords /\ work.rp \in PoolRecords
        /\ work.rp.uid \in Uids /\ work.rp.gen \in Gens
        /\ [pool EXCEPT !.bound = TRUE] \in PoolRecords
        /\ [NoPool EXCEPT !.uid = pool.uid] \in PoolRecords
    BY WorkValues, PoolValues DEF TypeOK
  <1>a. /\ [work EXCEPT !.pc = "updater", !.cont = secret.filled] \in WorkRecords
        /\ [work EXCEPT !.pc = "deploy"] \in WorkRecords
        /\ [work EXCEPT !.pc = "manager"] \in WorkRecords
        /\ [work EXCEPT !.pc = "status"] \in WorkRecords
        /\ [work EXCEPT !.pc = "stopUpdater"] \in WorkRecords
        /\ [work EXCEPT !.pc = "finalizer"] \in WorkRecords
        /\ work \in WorkRecords
    <2>1. secret.filled \in BOOLEAN /\ work \in WorkRecords
      BY DEF TypeOK
    <2> QED BY <2>1, WorkValues
  <1>b. /\ mgr \in ManagerRecords /\ mgr.doomed \subseteq Pods
        /\ [mgr EXCEPT !.pc = "list"] \in ManagerRecords
        /\ [mgr EXCEPT !.gen = work.rp.gen] \in ManagerRecords
        /\ \A d \in SUBSET Pods : [mgr EXCEPT !.doomed = d] \in ManagerRecords
        /\ [mgr EXCEPT !.pc = "remove", !.doomed = ListRunners] \in ManagerRecords
        /\ NewManager(work.rp) \in ManagerRecords
    BY <1>1, ManagerValues DEF TypeOK, ListRunners
  <1>c. /\ [uid |-> work.rp.uid, filled |-> FALSE] \in [uid : Uids, filled : BOOLEAN]
        /\ [uid |-> work.rp.uid, gen |-> work.rp.gen] \in [uid : Uids, gen : Gens]
        /\ secret \in [uid : Uids, filled : BOOLEAN] /\ deploy \in [uid : Uids, gen : Gens]
    BY <1>1 DEF TypeOK
  <1>2. CASE Users
    <2>1. ASSUME CreatePool PROVE pool' \in PoolRecords
      BY <2>1, <1>1, PoolValues DEF CreatePool
    <2>2. ASSUME NEW t \in Targets, UpdatePool(t) PROVE pool' \in PoolRecords
      BY <2>2, <1>1, PoolValues DEF UpdatePool
    <2>3. ASSUME DeletePool PROVE pool' \in PoolRecords
      BY <2>3, <1>1, PoolValues DEF DeletePool
    <2>4. pool' \in PoolRecords
      BY <1>2, <2>1, <2>2, <2>3 DEF Users
    <2>5. UNCHANGED <<secret, deploy, podVars, reqVars, work, procVars, ctrl, failures, restarts>>
      BY <1>2 DEF Users, CreatePool, UpdatePool, DeletePool
    <2> QED BY <2>4, <2>5 DEF TypeOK, podVars, reqVars, procVars
  <1>3. CASE WatchPool
    BY <1>3 DEF TypeOK, WatchPool, apiVars, podVars, procVars
  <1>4. CASE Dequeue
    BY <1>4, <1>1, WorkValues, PoolValues DEF TypeOK, Dequeue, apiVars, podVars, procVars
  <1>5. CASE ReconcileSecret
    <2>1. work' \in WorkRecords
      BY <1>5, <1>a DEF ReconcileSecret, Retry
    <2>2. secret' \in [uid : Uids, filled : BOOLEAN]
      BY <1>5, <1>c DEF ReconcileSecret
    <2>3. queued' \in BOOLEAN
      BY <1>5 DEF TypeOK, ReconcileSecret, Retry
    <2>4. failures' \in Nat
      BY <1>5 DEF TypeOK, ReconcileSecret, Works, Fails
    <2> QED BY <1>5, <2>1, <2>2, <2>3, <2>4 DEF TypeOK, ReconcileSecret, podVars, procVars
  <1>6. CASE StartUpdater
    <2>1. work' \in WorkRecords
      BY <1>6, <1>a DEF StartUpdater, Retry, Step
    <2>2. upd' \in Uids
      BY <1>6, <1>1 DEF TypeOK, StartUpdater
    <2>3. queued' \in BOOLEAN
      BY <1>6 DEF TypeOK, StartUpdater, Retry, Step
    <2>4. failures' \in Nat
      BY <1>6 DEF TypeOK, StartUpdater, Works, Fails
    <2> QED BY <1>6, <2>1, <2>2, <2>3, <2>4 DEF TypeOK, StartUpdater, apiVars, podVars
  <1>7. CASE ReconcileDeployment
    <2>1. work' \in WorkRecords
      BY <1>7, <1>a DEF ReconcileDeployment, Retry
    <2>2. deploy' \in [uid : Uids, gen : Gens]
      BY <1>7, <1>c DEF ReconcileDeployment
    <2>3. queued' \in BOOLEAN
      BY <1>7 DEF TypeOK, ReconcileDeployment, Retry
    <2>4. failures' \in Nat
      BY <1>7 DEF TypeOK, ReconcileDeployment, Works, Fails
    <2> QED BY <1>7, <2>1, <2>2, <2>3, <2>4 DEF TypeOK, ReconcileDeployment, podVars, procVars
  <1>8. CASE StartManager
    <2>1. work' \in WorkRecords
      BY <1>8, <1>a DEF StartManager, Retry, Step
    <2>2. mgr' \in ManagerRecords
      BY <1>8, <1>b DEF StartManager
    <2>3. queued' \in BOOLEAN
      BY <1>8 DEF TypeOK, StartManager, Retry, Step
    <2>4. failures' \in Nat
      BY <1>8 DEF TypeOK, StartManager, Works, Fails
    <2> QED BY <1>8, <2>1, <2>2, <2>3, <2>4 DEF TypeOK, StartManager, apiVars, podVars
  <1>9. CASE UpdateStatus
    <2>1. work' \in WorkRecords
      BY <1>9, <1>a DEF TypeOK, UpdateStatus, Retry
    <2>2. pool' \in PoolRecords
      BY <1>9, <1>1 DEF TypeOK, UpdateStatus
    <2>3. queued' \in BOOLEAN
      BY <1>9 DEF TypeOK, UpdateStatus, Retry
    <2>4. failures' \in Nat
      BY <1>9 DEF TypeOK, UpdateStatus, Works, Fails
    <2> QED BY <1>9, <2>1, <2>2, <2>3, <2>4 DEF TypeOK, UpdateStatus, podVars, procVars
  <1>10. CASE StopManager
    <2>1. work' \in WorkRecords /\ mgr' \in ManagerRecords
      BY <1>10, <1>a, <1>b DEF StopManager, Step
    <2>2. queued' \in BOOLEAN
      BY <1>10 DEF TypeOK, StopManager, Step
    <2> QED BY <1>10, <2>1, <2>2 DEF TypeOK, StopManager, apiVars, podVars
  <1>11. CASE StopUpdater
    BY <1>11, <1>1, WorkValues DEF TypeOK, StopUpdater, apiVars, podVars, Step
  <1>12. CASE RemoveFinalizer
    <2>1. work' \in WorkRecords
      BY <1>12, <1>a DEF TypeOK, RemoveFinalizer, Retry
    <2>2. pool' \in PoolRecords
      BY <1>12, <1>1 DEF TypeOK, RemoveFinalizer
    <2>3. queued' \in BOOLEAN
      BY <1>12 DEF TypeOK, RemoveFinalizer, Retry
    <2>4. failures' \in Nat
      BY <1>12 DEF TypeOK, RemoveFinalizer, Works, Fails
    <2> QED BY <1>12, <2>1, <2>2, <2>3, <2>4 DEF TypeOK, RemoveFinalizer, podVars, procVars
  <1>13. CASE FillSecret
    BY <1>13 DEF TypeOK, FillSecret, podVars, procVars
  <1>14. CASE Goroutines
    <2>1. CASE ListAllRunners
      <3>1. mgr' \in ManagerRecords
        BY <2>1, <1>b DEF ListAllRunners
      <3>2. failures' \in Nat
        BY <2>1 DEF TypeOK, ListAllRunners, Works, Fails
      <3> QED BY <2>1, <3>1, <3>2 DEF TypeOK, ListAllRunners, apiVars, podVars, reqVars
    <2>2. CASE RemoveListedRunner
      <3>1. mgr' \in ManagerRecords
        <4>1. ASSUME NEW p, mgr' = [mgr EXCEPT !.doomed = @ \ {p}] PROVE mgr' \in ManagerRecords
          <5>1. mgr.doomed \ {p} \in SUBSET Pods BY <1>b
          <5> QED BY <1>b, <4>1, <5>1
        <4>2. (\E p \in mgr.doomed : mgr' = [mgr EXCEPT !.doomed = @ \ {p}]) \/ mgr' = NoManager
          BY <2>2 DEF RemoveListedRunner
        <4> QED BY <4>1, <4>2
      <3>2. failures' \in Nat /\ runners' \subseteq Pods
        BY <2>2 DEF TypeOK, RemoveListedRunner, Works, Fails
      <3> QED BY <2>2, <3>1, <3>2 DEF TypeOK, RemoveListedRunner, apiVars, reqVars
    <2>3. CASE \E p \in Pods : DeletePod(p) \/ RemoveOffline(p)
      BY <2>3 DEF TypeOK, DeletePod, RemoveOffline, apiVars, reqVars, procVars
    <2> QED BY <1>14, <2>1, <2>2, <2>3 DEF Goroutines
  <1>15. CASE Controller
    <2>1. CASE Crash \/ Exits
      <3>1. queued' \in BOOLEAN
        BY <2>1 DEF Crash, Exits, Boots
      <3> QED BY <2>1, <3>1 DEF TypeOK, Crash, Exits, Boots, apiVars, podVars
    <2>2. CASE StopAllUpdaters
      BY <2>2 DEF TypeOK, StopAllUpdaters, apiVars, podVars, reqVars
    <2>3. CASE StopAllManagers
      BY <2>3, <1>b DEF TypeOK, StopAllManagers, apiVars, podVars, reqVars
    <2> QED BY <1>15, <2>1, <2>2, <2>3 DEF Controller
  <1>16. CASE Cluster
    <2>1. CASE CollectSecret
      BY <2>1 DEF TypeOK, CollectSecret, podVars, procVars
    <2>2. CASE CollectDeployment
      BY <2>2 DEF TypeOK, CollectDeployment, podVars, procVars
    <2>3. ASSUME NEW p \in Pods, PodStarts(p) PROVE TypeOK'
      <3>1. deploy.uid \in 1 .. MaxPools
        BY <1>c, <2>3 DEF PodStarts, Uids
      <3>2. Wanted[deploy.uid] \in Goals
        BY <3>1 DEF Goals
      <3> QED BY <2>3, <3>2 DEF TypeOK, PodStarts, apiVars, reqVars, procVars
    <2>4. CASE \E p \in Pods : Register(p) \/ Unlink(p) \/ JobEnds(p) \/ PodEnds(p)
      BY <2>4 DEF TypeOK, Register, Unlink, JobEnds, PodEnds, apiVars, reqVars, procVars
    <2> QED BY <1>16, <2>1, <2>2, <2>3, <2>4 DEF Cluster
  <1>17. CASE UNCHANGED vars
    BY <1>17 DEF TypeOK, vars, apiVars, podVars, reqVars, procVars
  <1> QED
    BY <1>2, <1>3, <1>4, <1>5, <1>6, <1>7, <1>8, <1>9, <1>10, <1>11, <1>12, <1>13, <1>14,
       <1>15, <1>16, <1>17
    DEF Next, Reconcile

-----------------------------------------------------------------------------
(* The goroutines and their pool *)

\* No pool and no process at the start.
LEMMA ProcInit == Init => Inv
  <1> SUFFICES ASSUME Init PROVE Inv
    OBVIOUS
  <1>1. TypeOK
    BY TypeInit
  <1>2. /\ ShapeInv /\ CacheInv /\ WorkInv /\ StopInv
        /\ NoProcessWithoutPool /\ ProcessOfThisPool /\ TargetInv
    BY DEF Init, ShapeInv, CacheInv, WorkInv, StopInv, NoProcessWithoutPool, ProcessOfThisPool,
         TargetInv, ProcessHasTarget, NoPool, NoWork, NoManager, LiveSteps, StopSteps
  <1> QED BY <1>1, <1>2 DEF Inv

\* Every step keeps the invariant.
LEMMA ProcStep == Inv /\ [Next]_vars => Inv'
  <1> SUFFICES ASSUME Inv, [Next]_vars PROVE Inv'
    OBVIOUS
  <1>t. TypeOK'
    BY TypeStep DEF Inv
  <1>n. pool.uid \in Nat /\ seen.uid \in Nat /\ work.rp.uid \in Nat
    <2>1. pool \in PoolRecords /\ seen \in PoolRecords /\ work \in WorkRecords
      BY DEF Inv, TypeOK
    <2>2. pool.uid \in Uids /\ seen.uid \in Uids /\ work.rp.uid \in Uids
      BY <2>1, PoolValues, WorkValues
    <2> QED BY <2>2 DEF Uids
  <1>r. /\ pool = [uid |-> pool.uid, phase |-> pool.phase, gen |-> pool.gen,
                   target |-> pool.target, bound |-> pool.bound]
        /\ work = [pc |-> work.pc, rp |-> work.rp, cont |-> work.cont]
        /\ mgr = [pc |-> mgr.pc, uid |-> mgr.uid, gen |-> mgr.gen, target |-> mgr.target,
                  doomed |-> mgr.doomed]
    BY DEF Inv, TypeOK, PoolRecords, WorkRecords, ManagerRecords
  <1> DEFINE Core == /\ ShapeInv /\ CacheInv /\ WorkInv /\ StopInv
                     /\ NoProcessWithoutPool /\ ProcessOfThisPool /\ TargetInv
  <1>c. Core
    BY DEF Inv
  <1> USE DEF ShapeInv, CacheInv, WorkInv, StopInv, NoProcessWithoutPool, ProcessOfThisPool,
        TargetInv, ProcessHasTarget, LiveSteps, StopSteps, NoPool, NoWork, NoManager
  <1>1. ASSUME CreatePool PROVE Core'
    BY <1>1, <1>c, <1>n DEF CreatePool, reqVars, procVars
  <1>2. ASSUME NEW t \in Targets, UpdatePool(t) PROVE Core'
    <2>1. t = pool.target
      BY <1>2 DEF UpdatePool, ValidateUpdate
    <2> QED BY <1>2, <1>c, <1>r, <2>1 DEF UpdatePool, reqVars, procVars
  <1>3. ASSUME DeletePool PROVE Core'
    BY <1>3, <1>c, <1>r DEF DeletePool, reqVars, procVars
  <1>4. ASSUME WatchPool PROVE Core'
    BY <1>4, <1>c, <1>n DEF WatchPool, apiVars, procVars
  <1>5. ASSUME Dequeue PROVE Core'
    <2>0. UNCHANGED <<pool, seen, upd, mgr>>
      BY <1>5 DEF Dequeue, apiVars, procVars
    <2>1. seen.phase \in {"absent", "live", "deleting"}
      BY PoolValues DEF Inv, TypeOK
    <2>2. CASE seen.phase = "absent"
      <3>1. work' = NoWork BY <1>5, <2>2 DEF Dequeue
      <3> QED BY <1>c, <2>0, <3>1
    <2>3. CASE seen.phase = "deleting"
      <3>1. work' = [pc |-> "stopManager", rp |-> seen, cont |-> FALSE]
        BY <1>5, <2>3 DEF Dequeue
      <3> QED BY <1>c, <1>n, <2>0, <2>3, <3>1
    <2>4. CASE seen.phase = "live"
      <3>1. work' = [pc |-> "secret", rp |-> seen, cont |-> FALSE]
        BY <1>5, <2>4 DEF Dequeue
      <3> QED BY <1>c, <2>0, <2>4, <3>1
    <2> QED BY <2>1, <2>2, <2>3, <2>4
  <1>6. ASSUME ReconcileSecret PROVE Core'
    <2>1. work' = [pc |-> "updater", rp |-> work.rp, cont |-> secret.filled] \/ work' = NoWork
      BY <1>6, <1>r DEF ReconcileSecret, Retry
    <2> QED BY <1>6, <1>c, <2>1 DEF ReconcileSecret, procVars
  <1>7. ASSUME StartUpdater PROVE Core'
    BY <1>7, <1>c, <1>r DEF StartUpdater, apiVars, Retry, Step
  <1>8. ASSUME ReconcileDeployment PROVE Core'
    BY <1>8, <1>c, <1>r DEF ReconcileDeployment, procVars, Retry
  <1>9. ASSUME StartManager PROVE Core'
    BY <1>9, <1>c, <1>r DEF StartManager, NewManager, apiVars, Retry, Step
  <1>10. ASSUME UpdateStatus PROVE Core'
    BY <1>10, <1>c, <1>r DEF UpdateStatus, procVars, Retry
  <1>11. ASSUME StopManager PROVE Core'
    BY <1>11, <1>c, <1>r DEF StopManager, apiVars, Step
  <1>12. ASSUME StopUpdater PROVE Core'
    BY <1>12, <1>c, <1>r DEF StopUpdater, apiVars, Step
  <1>13. ASSUME RemoveFinalizer PROVE Core'
    BY <1>13, <1>c, <1>r, <1>n DEF RemoveFinalizer, procVars, Retry
  <1>14. ASSUME FillSecret PROVE Core'
    BY <1>14, <1>c DEF FillSecret, procVars
  <1>15. ASSUME ListAllRunners PROVE Core'
    <2>1. \/ mgr' = [pc |-> "remove", uid |-> mgr.uid, gen |-> mgr.gen, target |-> mgr.target,
                     doomed |-> ListRunners]
          \/ mgr' = NoManager
      BY <1>15, <1>r DEF ListAllRunners
    <2> QED BY <1>15, <1>c, <2>1 DEF ListAllRunners, apiVars, reqVars
  <1>16. ASSUME RemoveListedRunner PROVE Core'
    BY <1>16, <1>c, <1>r DEF RemoveListedRunner, apiVars, reqVars
  <1>17. ASSUME \E p \in Pods : DeletePod(p) \/ RemoveOffline(p) PROVE Core'
    BY <1>17, <1>c DEF DeletePod, RemoveOffline, apiVars, reqVars, procVars
  <1>18. ASSUME Crash \/ Exits PROVE Core'
    BY <1>18, <1>c, <1>n DEF Crash, Exits, Boots, apiVars
  <1>19. ASSUME StopAllUpdaters PROVE Core'
    BY <1>19, <1>c DEF StopAllUpdaters, apiVars, reqVars
  <1>20. ASSUME StopAllManagers PROVE Core'
    BY <1>20, <1>c, <1>r DEF StopAllManagers, apiVars, reqVars
  <1>21. ASSUME CollectSecret \/ CollectDeployment PROVE Core'
    BY <1>21, <1>c DEF CollectSecret, CollectDeployment, procVars
  <1>22. ASSUME \E p \in Pods : PodStarts(p) \/ Register(p) \/ Unlink(p) \/ JobEnds(p) \/ PodEnds(p)
         PROVE Core'
    BY <1>22, <1>c DEF PodStarts, Register, Unlink, JobEnds, PodEnds, apiVars, reqVars, procVars
  <1>23. ASSUME UNCHANGED vars PROVE Core'
    BY <1>23, <1>c DEF vars, apiVars, reqVars, procVars
  <1>24. Core'
    BY <1>1, <1>2, <1>3, <1>4, <1>5, <1>6, <1>7, <1>8, <1>9, <1>10, <1>11, <1>12, <1>13, <1>14,
       <1>15, <1>16, <1>17, <1>18, <1>19, <1>20, <1>21, <1>22, <1>23
    DEF Next, Users, Reconcile, Goroutines, Controller, Cluster
  <1> QED BY <1>t, <1>24 DEF Inv

\* The invariant holds in every reachable state.
THEOREM ControllerInvariance == Spec => []Inv
  BY ProcInit, ProcStep, PTL DEF Spec

-----------------------------------------------------------------------------
(* What follows *)

\* Every variable keeps its type.
THEOREM ControllerTypeCorrect == Spec => []TypeOK
  <1>1. Inv => TypeOK BY DEF Inv
  <1> QED BY <1>1, ControllerInvariance, PTL

\* No goroutine runs for a pool that is gone, whatever crashes, shutdowns,
\* failing calls and stale reads come between the steps of Reconcile.
THEOREM ControllerNoProcessWithoutPool == Spec => []NoProcessWithoutPool
  <1>1. Inv => NoProcessWithoutPool BY DEF Inv
  <1> QED BY <1>1, ControllerInvariance, PTL

\* No goroutine is passed on from a pool to the next one of the same name.
THEOREM ControllerProcessOfThisPool == Spec => []ProcessOfThisPool
  <1>1. Inv => ProcessOfThisPool BY DEF Inv
  <1> QED BY <1>1, ControllerInvariance, PTL

\* The manager's process works for the target of its pool, for ever: no update
\* and no pool that follows under the same name separates the two.
THEOREM ControllerProcessHasTarget == Spec => []ProcessHasTarget
  <1>1. Inv => ProcessHasTarget BY DEF Inv, TargetInv
  <1> QED BY <1>1, ControllerInvariance, PTL

-----------------------------------------------------------------------------
(* Nothing is missed.  What a reconciliation has built stays built, or a   *)
(* request is queued that will look at it again; what it has read is what  *)
(* the cache shows, or a request is queued.                                *)

\* A pool has a uid, and so has a manager that runs.
UidInv ==
    /\ pool.phase # "absent" => pool.uid # 0
    /\ mgr.pc # "none" => mgr.uid # 0

\* While the controller is up, only a deletion stops the manager, and the
\* reconciliation waits for it.
WaitInv == ctrl = "up" /\ mgr.pc \in {"list", "remove"} => work.pc = "stopManager"

\* A request was queued since the cache moved on.
FreshInv == work.pc \in LiveSteps /\ ~queued => seen = work.rp

\* What the reconciliation has built so far.
BuiltInv ==
    ctrl = "up" =>
        /\ work.pc \in {"updater", "deploy", "manager", "status"} /\ ~queued => secret.uid # 0
        /\ work.pc \in {"deploy", "manager", "status"} => upd = work.rp.uid
        /\ work.pc \in {"manager", "status"} =>
              deploy = [uid |-> work.rp.uid, gen |-> work.rp.gen]
        /\ work.pc = "status" =>
              mgr.pc = "loop" /\ mgr.uid = work.rp.uid /\ mgr.gen = work.rp.gen

\* With no request left, what the cache shows has been built.
RestInv ==
    ctrl = "up" /\ work.pc = "idle" /\ ~queued /\ seen.phase = "live" =>
        /\ secret.uid # 0 /\ upd = seen.uid
        /\ deploy = [uid |-> seen.uid, gen |-> seen.gen]
        /\ mgr.pc = "loop" /\ mgr.uid = seen.uid /\ mgr.gen = seen.gen
        /\ pool.bound

QuietInv == Inv /\ UidInv /\ WaitInv /\ FreshInv /\ BuiltInv /\ RestInv

\* There is no pool at the start.
LEMMA QuietInit == Init => QuietInv
  <1> SUFFICES ASSUME Init PROVE QuietInv
    OBVIOUS
  <1>1. UidInv /\ WaitInv /\ FreshInv /\ BuiltInv /\ RestInv
    BY DEF Init, UidInv, WaitInv, FreshInv, BuiltInv, RestInv, LiveSteps, NoPool, NoWork, NoManager
  <1> QED BY <1>1, ProcInit DEF QuietInv

\* Every step keeps what was built, or leaves a request behind.
LEMMA QuietStep == QuietInv /\ [Next]_vars => QuietInv'
  <1> SUFFICES ASSUME QuietInv, [Next]_vars PROVE QuietInv'
    OBVIOUS
  <1>i. Inv /\ Inv'
    BY ProcStep DEF QuietInv
  <1>n. pool.uid \in Nat
    <2>1. pool \in PoolRecords
      BY <1>i DEF Inv, TypeOK
    <2>2. pool.uid \in Uids
      BY <2>1, PoolValues
    <2> QED BY <2>2 DEF Uids
  <1>r. /\ pool = [uid |-> pool.uid, phase |-> pool.phase, gen |-> pool.gen,
                   target |-> pool.target, bound |-> pool.bound]
        /\ work = [pc |-> work.pc, rp |-> work.rp, cont |-> work.cont]
        /\ mgr = [pc |-> mgr.pc, uid |-> mgr.uid, gen |-> mgr.gen, target |-> mgr.target,
                  doomed |-> mgr.doomed]
        /\ secret = [uid |-> secret.uid, filled |-> secret.filled]
        /\ deploy = [uid |-> deploy.uid, gen |-> deploy.gen]
    BY <1>i DEF Inv, TypeOK, PoolRecords, WorkRecords, ManagerRecords
  <1> DEFINE Core == UidInv /\ WaitInv /\ FreshInv /\ BuiltInv /\ RestInv
             Known == /\ ShapeInv /\ CacheInv /\ WorkInv /\ StopInv
                      /\ NoProcessWithoutPool /\ ProcessOfThisPool
  <1>c. Core /\ Known
    BY <1>i DEF QuietInv, Inv
  <1> USE DEF UidInv, WaitInv, FreshInv, BuiltInv, RestInv, ShapeInv, CacheInv, WorkInv, StopInv,
        NoProcessWithoutPool, ProcessOfThisPool, LiveSteps, StopSteps, NoPool, NoWork, NoManager
  <1>1. ASSUME CreatePool PROVE Core'
    BY <1>1, <1>c, <1>n DEF CreatePool, reqVars, procVars
  <1>2. ASSUME NEW t \in Targets, UpdatePool(t) PROVE Core'
    BY <1>2, <1>c, <1>r DEF UpdatePool, reqVars, procVars
  <1>3. ASSUME DeletePool PROVE Core'
    BY <1>3, <1>c, <1>r DEF DeletePool, reqVars, procVars
  <1>4. ASSUME WatchPool PROVE Core'
    BY <1>4, <1>c DEF WatchPool, apiVars, procVars
  <1>5. ASSUME Dequeue PROVE Core'
    <2>0. /\ UNCHANGED <<pool, secret, deploy, seen, upd, mgr, ctrl>> /\ work.pc = "idle"
          /\ ctrl = "up"
      BY <1>5 DEF Dequeue, apiVars, procVars
    <2>1. seen.phase \in {"absent", "live", "deleting"}
      BY <1>i, PoolValues DEF Inv, TypeOK
    <2>2. CASE seen.phase = "absent"
      <3>1. work' = NoWork BY <1>5, <2>2 DEF Dequeue
      <3> QED BY <1>c, <2>0, <2>2, <3>1
    <2>3. CASE seen.phase = "deleting"
      <3>1. work' = [pc |-> "stopManager", rp |-> seen, cont |-> FALSE]
        BY <1>5, <2>3 DEF Dequeue
      <3> QED BY <1>c, <2>0, <3>1
    <2>4. CASE seen.phase = "live"
      <3>1. work' = [pc |-> "secret", rp |-> seen, cont |-> FALSE]
        BY <1>5, <2>4 DEF Dequeue
      <3> QED BY <1>c, <2>0, <3>1
    <2> QED BY <2>1, <2>2, <2>3, <2>4
  <1>6. ASSUME ReconcileSecret PROVE Core'
    <2>1. \/ work' = [pc |-> "updater", rp |-> work.rp, cont |-> secret.filled] /\ queued' = queued
          \/ work' = NoWork /\ queued'
      BY <1>6, <1>r DEF ReconcileSecret, Retry
    <2>2. work'.pc = "updater" => secret'.uid # 0
      BY <1>6, <1>c, <1>r DEF ReconcileSecret, Retry
    <2> QED BY <1>6, <1>c, <2>1, <2>2 DEF ReconcileSecret, procVars
  <1>7. ASSUME StartUpdater PROVE Core'
    BY <1>7, <1>c, <1>r DEF StartUpdater, apiVars, Retry, Step
  <1>8. ASSUME ReconcileDeployment PROVE Core'
    <2>0. UNCHANGED <<pool, secret, seen, upd, mgr, ctrl>> /\ work.pc = "deploy"
      BY <1>8 DEF ReconcileDeployment, procVars
    <2>1. CASE /\ deploy' = [uid |-> work.rp.uid, gen |-> work.rp.gen]
               /\ work' = [pc |-> "manager", rp |-> work.rp, cont |-> work.cont]
               /\ ~queued' => ~queued
      BY <1>c, <2>0, <2>1
    <2>2. CASE work' = NoWork /\ queued'
      BY <1>c, <2>0, <2>2
    <2> QED BY <1>8, <1>r, <2>1, <2>2 DEF ReconcileDeployment, Retry
  <1>9. ASSUME StartManager PROVE Core'
    <2>0. UNCHANGED <<pool, secret, deploy, seen, upd, ctrl>> /\ work.pc = "manager"
      BY <1>9 DEF StartManager, apiVars
    <2>1. \/ mgr' = [pc |-> "loop", uid |-> work.rp.uid, gen |-> work.rp.gen,
                     target |-> work.rp.target, doomed |-> {}]
          \/ /\ mgr.pc # "none"
             /\ mgr' = [pc |-> mgr.pc, uid |-> mgr.uid, gen |-> work.rp.gen,
                        target |-> mgr.target, doomed |-> mgr.doomed]
          \/ UNCHANGED mgr /\ work' = NoWork /\ queued'
      BY <1>9, <1>r DEF StartManager, NewManager, Retry
    <2>2. \/ work' = [pc |-> "status", rp |-> work.rp, cont |-> work.cont] /\ UNCHANGED queued
          \/ work' = NoWork /\ queued'
      BY <1>9, <1>r DEF StartManager, Retry, Step
    <2>3. /\ pool.phase # "absent" /\ work.rp.uid = pool.uid /\ work.rp.uid # 0
          /\ mgr.pc # "none" => mgr.uid = pool.uid
          /\ ctrl = "up" /\ mgr.pc # "none" => mgr.pc = "loop"
      <3>1. mgr.pc \in {"none", "loop", "list", "remove"}
        BY <1>i, ManagerValues DEF Inv, TypeOK
      <3> QED BY <1>c, <2>0, <3>1
    <2>4. /\ mgr'.pc # "none" => mgr'.uid = work.rp.uid
          /\ ctrl = "up" /\ mgr'.pc # "none" => mgr'.pc = "loop"
          /\ work'.pc = "status" => mgr'.pc # "none" /\ mgr'.gen = work.rp.gen
      BY <2>1, <2>3
    <2>5. CASE work' = [pc |-> "status", rp |-> work.rp, cont |-> work.cont] /\ UNCHANGED queued
      BY <1>c, <2>0, <2>3, <2>4, <2>5
    <2>6. CASE work' = NoWork /\ queued'
      BY <1>c, <2>0, <2>3, <2>4, <2>6
    <2> QED BY <2>2, <2>5, <2>6
  <1>10. ASSUME UpdateStatus PROVE Core'
    BY <1>10, <1>c, <1>r DEF UpdateStatus, procVars, Retry
  <1>11. ASSUME StopManager PROVE Core'
    BY <1>11, <1>c, <1>r DEF StopManager, apiVars, Step
  <1>12. ASSUME StopUpdater PROVE Core'
    BY <1>12, <1>c, <1>r DEF StopUpdater, apiVars, Step
  <1>13. ASSUME RemoveFinalizer PROVE Core'
    BY <1>13, <1>c, <1>r DEF RemoveFinalizer, procVars, Retry
  <1>14. ASSUME FillSecret PROVE Core'
    BY <1>14, <1>c, <1>r DEF FillSecret, procVars
  <1>15. ASSUME ListAllRunners PROVE Core'
    <2>1. \/ mgr' = [pc |-> "remove", uid |-> mgr.uid, gen |-> mgr.gen, target |-> mgr.target,
                     doomed |-> ListRunners]
          \/ mgr' = NoManager
      BY <1>15, <1>r DEF ListAllRunners
    <2> QED BY <1>15, <1>c, <2>1 DEF ListAllRunners, apiVars, reqVars
  <1>16. ASSUME RemoveListedRunner PROVE Core'
    BY <1>16, <1>c, <1>r DEF RemoveListedRunner, apiVars, reqVars
  <1>17. ASSUME \E p \in Pods : DeletePod(p) \/ RemoveOffline(p) PROVE Core'
    BY <1>17, <1>c DEF DeletePod, RemoveOffline, apiVars, reqVars, procVars
  <1>18. ASSUME Crash \/ Exits PROVE Core'
    <2>1. /\ UNCHANGED pool /\ work' = NoWork /\ mgr' = NoManager /\ seen' = pool
          /\ queued' = (pool.phase # "absent")
      BY <1>18 DEF Crash, Exits, Boots, apiVars
    <2>2. ~queued' => seen'.phase # "live"
      BY <2>1
    <2> QED BY <1>c, <2>1, <2>2
  <1>19. ASSUME StopAllUpdaters PROVE Core'
    BY <1>19, <1>c DEF StopAllUpdaters, apiVars, reqVars
  <1>20. ASSUME StopAllManagers PROVE Core'
    BY <1>20, <1>c, <1>r DEF StopAllManagers, apiVars, reqVars
  <1>21. ASSUME CollectSecret PROVE Core'
    BY <1>21, <1>c DEF CollectSecret, procVars
  <1>22. ASSUME CollectDeployment PROVE Core'
    BY <1>22, <1>c DEF CollectDeployment, Orphaned, procVars
  <1>23. ASSUME \E p \in Pods : PodStarts(p) \/ Register(p) \/ Unlink(p) \/ JobEnds(p) \/ PodEnds(p)
         PROVE Core'
    BY <1>23, <1>c DEF PodStarts, Register, Unlink, JobEnds, PodEnds, apiVars, reqVars, procVars
  <1>24. ASSUME UNCHANGED vars PROVE Core'
    BY <1>24, <1>c DEF vars, apiVars, reqVars, procVars
  <1>25. Core'
    BY <1>1, <1>2, <1>3, <1>4, <1>5, <1>6, <1>7, <1>8, <1>9, <1>10, <1>11, <1>12, <1>13, <1>14,
       <1>15, <1>16, <1>17, <1>18, <1>19, <1>20, <1>21, <1>22, <1>23, <1>24
    DEF Next, Users, Reconcile, Goroutines, Controller, Cluster
  <1> QED BY <1>i, <1>25 DEF QuietInv

\* When no request, no reconciliation and no watch event is outstanding, a live
\* pool has its Secret, a Deployment and a manager of its newest generation and
\* both goroutines, and its status says so: however stale the reads, failing
\* calls, crashes and shutdowns on the way, no event that matters was lost.
THEOREM ControllerQuietMeansServed == Spec => []QuietMeansServed
  <1>1. QuietInv => QuietMeansServed
    BY DEF QuietInv, RestInv, QuietMeansServed, Served
  <1> QED BY <1>1, QuietInit, QuietStep, PTL DEF Spec

=============================================================================
