--------------------------- MODULE RunnerManager ---------------------------
(***************************************************************************)
(* The runner manager goroutine of one RunnerPool (manageProcess in        *)
(* controllers/runner_manager.go) among the parties it talks to.           *)
(*                                                                         *)
(* Once per tick the goroutine makes a pass: it lists the pods, lists the  *)
(* runners on GitHub, visits every pod and finally removes runners that    *)
(* have no pod.  Each call to the API server, GitHub, a pod or the Slack   *)
(* agent is one action, and so is its failure; what the code computes      *)
(* between two calls belongs to the earlier one.  Pods are visited in any  *)
(* order.                                                                  *)
(*                                                                         *)
(* Around it: pods that start, register, work, finish, restart and         *)
(* terminate (the life cycle of RunnerPod, with the status a client sees), *)
(* the ReplicaSet that replaces pods it controls, GitHub's view of the     *)
(* runners, RunnerPool updates, and the Slack agent's reaction to the      *)
(* Extend and Delete buttons.                                              *)
(*                                                                         *)
(* Left out: metrics, log lines, message texts and channels, and the       *)
(* stopping of the goroutine.  The pod list is taken to be current when it *)
(* is read (the informer cache has caught up since the previous pass).     *)
(***************************************************************************)
EXTENDS Integers, FiniteSets

CONSTANTS
    Pods,           \* identities of pods (a name is never used twice)
    Nil,            \* nil pointer
    Configs,        \* RunnerPool specs that update() may install
    ExtendBy,       \* agent: extendDurationHours
    ExtendLimit,    \* agent: extendLimitHours
    PublishDelay,   \* how long a pod may take from taking the finish time to
                    \* showing it
    MaxTime,        \* bound: the clock stops here
    MaxFailures,    \* bound: failing calls
    MaxRestarts,    \* bound: controller restarts
    MaxCrashes,     \* bound: container restarts
    MaxClicks       \* bound: buttons pressed

ASSUME ManagerAssumption ==
    /\ IsFiniteSet(Pods)
    /\ Configs # {}
    /\ Configs \subseteq [replicas : Nat, maxRunnerPods : Nat, notify : BOOLEAN,
                          extendDuration : Nat, recreateDeadline : Nat,
                          denyDisruption : BOOLEAN]
    /\ ExtendBy \in Nat /\ ExtendLimit \in Nat /\ PublishDelay \in Nat
    /\ MaxTime \in Nat /\ MaxTime > 2
    /\ MaxFailures \in Nat /\ MaxRestarts \in Nat
    /\ MaxCrashes \in Nat /\ MaxClicks \in Nat

\* Nil is no time and no pod state.
ASSUME NilAssumption ==
    Nil \notin Int /\ Nil \notin {"initializing", "running", "debugging", "stale"}

VARIABLES
    \* the cluster, GitHub, Slack
    now,            \* wall clock
    pod,            \* the pods in the API server
    st,             \* what each pod's GET /status would answer
    runner,         \* GitHub's view of each pod's runner
    button,         \* Slack: pods whose message carries buttons
    reply,          \* agent: deletion time computed for a pod, not yet sent
    \* the fields of manageProcess
    cfg,            \* replicas ... denyDisruption
    lastCheckTime,
    \* the locals of one pass
    pc,             \* the call made next
    podList, runnerList,
    snap,           \* now, lastCheckTime, notify, extendDuration, recreateDeadline
    removable,      \* numRemovablePods
    todo,           \* pods, then runners, the pass has still to visit
    cur, status,    \* the pod being visited and its answer
    \* history
    posts,          \* PostResult calls made for a pod
    clicked,        \* pods whose deletion time a user has set
    busyAtStart,    \* runners that were busy when the pass began
    overtaken,      \* pods that started while a pass was listing, or that
                    \* published their finish time late
    failures, restarts, crashes, clicks

envVars == <<now, pod, st, runner, button, reply>>
procVars == <<cfg, lastCheckTime>>
passVars == <<pc, podList, runnerList, snap, removable, todo, cur, status>>
counters == <<restarts, crashes, clicks>>
histVars == <<posts, clicked, busyAtStart, overtaken, failures, counters>>
vars == <<envVars, procVars, passVars, histVars>>

-----------------------------------------------------------------------------
(* Values *)

\* A terminating pod has been deleted but is still listed, with phase Running.
Phases == {"none", "pending", "running", "terminating", "gone"}

\* hash: the pod-template-hash label that ties the pod to its ReplicaSet;
\* name: the runner-pod-name label that its own PDB selects.
PodRecords == [phase : Phases, hash : BOOLEAN, name : BOOLEAN, pdb : BOOLEAN,
               created : Nat]

NoPod == [phase |-> "none", hash |-> FALSE, name |-> FALSE, pdb |-> FALSE,
          created |-> 0]

PodStates == {"initializing", "running", "debugging", "stale"}

Statuses == [state : PodStates \cup {Nil}, finishedAt : Int \cup {Nil},
             deletionTime : Int \cup {Nil}, extend : BOOLEAN]

ZeroStatus == [state |-> Nil, finishedAt |-> Nil, deletionTime |-> Nil,
               extend |-> FALSE]

Snaps == [now : Nat, lastCheckTime : Nat, notify : BOOLEAN, extendDuration : Nat,
          recreateDeadline : Nat, budget : Int]

NoSnap == [now |-> 0, lastCheckTime |-> 0, notify |-> FALSE,
           extendDuration |-> 0, recreateDeadline |-> 0, budget |-> 0]

\* GitHub lists a runner from its registration until its job is over ("done")
\* or somebody removes it.
RunnerStates == {"none", "offline", "idle", "busy", "done", "removed"}
Registered == {"offline", "idle", "busy"}

Calls == {"idle", "runners", "maintain", "visit", "post", "delete", "put",
          "protect", "relabel", "unlink", "offline"}

\* The pool's runners, all pages as of one moment.
ListRunners == [r \in Pods |-> IF runner[r] \in Registered THEN runner[r] ELSE "none"]

Listed(p) == podList[p].phase \notin {"none", "gone"}
Exists(p) == pod[p].phase \notin {"none", "gone"}

\* Pods no ReplicaSet counts any more, and pods that one does.
Unlinked == {p \in Pods : Exists(p) /\ ~pod[p].hash}
Controlled == {p \in Pods : pod[p].phase \in {"pending", "running"} /\ pod[p].hash}

Init ==
    /\ now = 2
    /\ pod = [p \in Pods |-> NoPod]
    /\ st = [p \in Pods |-> ZeroStatus]
    /\ runner = [p \in Pods |-> "none"]
    /\ button = {}
    /\ reply = [p \in Pods |-> Nil]
    /\ cfg \in Configs
    /\ lastCheckTime = 1
    /\ pc = "idle"
    /\ podList = [p \in Pods |-> NoPod]
    /\ runnerList = [p \in Pods |-> "none"]
    /\ snap = NoSnap
    /\ removable = 0
    /\ todo = {}
    /\ cur = Nil
    /\ status = ZeroStatus
    /\ posts = [p \in Pods |-> 0]
    /\ clicked = {}
    /\ busyAtStart = {}
    /\ overtaken = {}
    /\ failures = 0 /\ restarts = 0 /\ crashes = 0 /\ clicks = 0

-----------------------------------------------------------------------------
(* Calls that fail, and the clock                                          *)

Works == UNCHANGED failures
Fails == failures < MaxFailures /\ failures' = failures + 1

\* Two readings of the clock by different processes differ.
AdvanceClock == now' = IF now < MaxTime THEN now + 1 ELSE now

\* The locals of a pass go out of scope.
PassEnds ==
    /\ pc' = "idle"
    /\ podList' = [p \in Pods |-> NoPod]
    /\ runnerList' = [p \in Pods |-> "none"]
    /\ snap' = NoSnap
    /\ removable' = 0
    /\ todo' = {}
    /\ cur' = Nil
    /\ status' = ZeroStatus
    /\ busyAtStart' = {}

\* The visit of the current pod ends.
VisitEnds ==
    /\ pc' = "visit"
    /\ cur' = Nil
    /\ status' = ZeroStatus

-----------------------------------------------------------------------------
(* Faulty variants of the definitions below.  Each one breaks a property   *)
(* of this module; they are used to check that the properties can fail.    *)

\* An error of ListRunners is logged but not returned.
FetchRunnersIgnoresError ==
    /\ pc = "runners"
    /\ \/ Works /\ runnerList' = ListRunners
       \/ Fails /\ UNCHANGED runnerList
    /\ pc' = "maintain"
    /\ UNCHANGED <<envVars, procVars, podList, snap, removable, todo, cur, status,
                   posts, clicked, busyAtStart, overtaken, counters>>

\* Pods that were unlinked in earlier passes are not counted.
NumUnlabeledPodsForgotten == 0

\* lastCheckTime is overwritten before it is copied.
TakeSnapLate ==
    [now |-> now, lastCheckTime |-> now, notify |-> cfg.notify,
     extendDuration |-> cfg.extendDuration,
     recreateDeadline |-> cfg.recreateDeadline,
     budget |-> cfg.maxRunnerPods - cfg.replicas]

\* lastCheckTime stays at the start of the process.
NewSinceStart(s) == s.finishedAt > 0

\* Only the deletion time that was stored in the pod counts.
NeedDeleteStoredOnly(s) ==
    IF s.deletionTime # Nil THEN snap.now > s.deletionTime
    ELSE ~(s.extend /\ snap.extendDuration # 0)

\* Debugging pods are not spared by the recreate deadline.
InUseBusyOnly(p, s) == runnerList[p] = "busy"

\* Off by one: a pod is unlinked with no room left.
AfterRelabelOffByOne(p) ==
    IF removable < 0 \/ ~podList[p].hash THEN "visit" ELSE "unlink"

\* The label is set, and the pod unlinked, before the PDB is made.
ProtectLater ==
    /\ pc = "protect"
    /\ pc' = "relabel"
    /\ UNCHANGED <<envVars, procVars, podList, runnerList, snap, removable, todo, cur, status,
                   histVars>>

\* The budget of the pass is not reduced.
UnlinkUncounted ==
    /\ pc = "unlink"
    /\ Exists(cur) /\ Works
    /\ pod' = [pod EXCEPT ![cur].hash = FALSE]
    /\ VisitEnds
    /\ UNCHANGED <<now, st, runner, button, reply, procVars, podList, runnerList, snap,
                   removable, todo, posts, clicked, busyAtStart, overtaken, counters>>

\* Runners that do have a pod are taken for the ones that do not.
PodsVisitedInverted ==
    /\ pc = "visit" /\ todo = {}
    /\ todo' = {r \in Pods : runnerList[r] = "offline" /\ Listed(r)}
    /\ pc' = "offline"
    /\ UNCHANGED <<envVars, procVars, podList, runnerList, snap, removable, cur, status,
                   histVars>>

-----------------------------------------------------------------------------
(* The beginning of a pass                                                 *)

FetchRunnerPods ==
    /\ pc = "idle"
    /\ \/ /\ Works
          /\ podList' = pod
          /\ pc' = "runners"
          /\ busyAtStart' = {p \in Pods : runner[p] = "busy"}
       \/ Fails /\ UNCHANGED <<podList, pc, busyAtStart>>
    /\ UNCHANGED <<envVars, procVars, runnerList, snap, removable, todo, cur, status,
                   posts, clicked, overtaken, counters>>

FetchRunners ==
    /\ pc = "runners"
    /\ \/ /\ Works
          /\ runnerList' = ListRunners
          /\ pc' = "maintain"
          /\ UNCHANGED <<podList, snap, removable, todo, cur, status, busyAtStart>>
       \/ Fails /\ PassEnds
    /\ UNCHANGED <<envVars, procVars, posts, clicked, overtaken, counters>>

NumUnlabeledPods == Cardinality({p \in Pods : Listed(p) /\ ~podList[p].hash})

\* The clock and the configuration, as the whole pass will use them.
TakeSnap ==
    [now |-> now, lastCheckTime |-> lastCheckTime, notify |-> cfg.notify,
     extendDuration |-> cfg.extendDuration,
     recreateDeadline |-> cfg.recreateDeadline,
     budget |-> cfg.maxRunnerPods - cfg.replicas]

\* The head of maintainRunnerPods: lastCheckTime moves on before any pod is
\* looked at; the number of pods to unlink may be negative.
BeginMaintain ==
    /\ pc = "maintain"
    /\ snap' = TakeSnap
    /\ removable' = cfg.maxRunnerPods - cfg.replicas - NumUnlabeledPods
    /\ lastCheckTime' = now
    /\ AdvanceClock
    /\ todo' = {p \in Pods : Listed(p)}
    /\ pc' = "visit"
    /\ overtaken' = {p \in overtaken : st[p].state = "debugging"}
    /\ UNCHANGED <<pod, st, runner, button, reply, cfg, podList, runnerList, cur, status,
                   posts, clicked, busyAtStart, failures, counters>>

-----------------------------------------------------------------------------
(* What the code decides between two calls for the pod it visits           *)

RunnerBusy(p) == runnerList[p] = "busy"

NeedExtend(s) == s.extend /\ snap.extendDuration # 0

New(s) == s.finishedAt > snap.lastCheckTime

NeedDelete(s) ==
    IF s.deletionTime # Nil THEN snap.now > s.deletionTime
    ELSE NeedExtend(s) => snap.now > s.finishedAt + snap.extendDuration

InUse(p, s) == RunnerBusy(p) \/ s.state = "debugging"

\* The recreate deadline, then the protection of pods in use.
AfterDebugging(p, s) ==
    IF podList[p].created + snap.recreateDeadline < snap.now /\ ~InUse(p, s)
    THEN "delete"
    ELSE IF InUse(p, s) THEN "protect" ELSE "visit"

AfterPost(p, s) ==
    IF NeedDelete(s) THEN "delete"
    ELSE IF s.deletionTime = Nil /\ New(s) THEN "put"
    ELSE AfterDebugging(p, s)

AfterStatus(p, s) ==
    IF s.state = "stale" THEN "delete"
    ELSE IF s.state # "debugging" THEN AfterDebugging(p, s)
    ELSE IF snap.notify /\ New(s) THEN "post"
    ELSE AfterPost(p, s)

AfterRelabel(p) ==
    IF removable <= 0 \/ ~podList[p].hash THEN "visit" ELSE "unlink"

\* Continue with call c for pod p, or end the visit.
Continue(c, p, s) ==
    IF c = "visit" THEN VisitEnds ELSE pc' = c /\ cur' = p /\ status' = s

-----------------------------------------------------------------------------
(* The visit of one pod                                                    *)

\* A pod whose listed phase is not Running is skipped, and so is one that
\* does not answer.
SkipPod(p) ==
    /\ pc = "visit" /\ p \in todo
    /\ \/ podList[p].phase = "pending" /\ Works
       \/ podList[p].phase # "pending" /\ pod[p].phase \in {"terminating", "gone"} /\ Works
       \/ podList[p].phase # "pending" /\ pod[p].phase = "running" /\ Fails
    /\ todo' = todo \ {p}
    /\ UNCHANGED <<envVars, procVars, pc, podList, runnerList, snap, removable, cur,
                   status, posts, clicked, busyAtStart, overtaken, counters>>

GetStatus(p) ==
    /\ pc = "visit" /\ p \in todo
    /\ podList[p].phase # "pending"
    /\ pod[p].phase \in {"running", "terminating"}
    /\ todo' = todo \ {p}
    /\ Continue(AfterStatus(p, st[p]), p, st[p])
    /\ UNCHANGED <<envVars, procVars, podList, runnerList, snap, removable, histVars>>

\* The message carries buttons when the pod will be kept.  A failure is only
\* logged.
PostResult ==
    /\ pc = "post"
    /\ posts' = [posts EXCEPT ![cur] = @ + 1]
    /\ \/ Works /\ button' = IF NeedExtend(status) THEN button \cup {cur} ELSE button
       \/ Fails /\ UNCHANGED button
    /\ Continue(AfterPost(cur, status), cur, status)
    /\ UNCHANGED <<now, pod, st, runner, reply, procVars, podList, runnerList, snap,
                   removable, todo, clicked, busyAtStart, overtaken, counters>>

\* A pod that is gone already counts as deleted.
DeletePod ==
    /\ pc = "delete"
    /\ \/ /\ Works
          /\ pod' = IF pod[cur].phase = "running"
                    THEN [pod EXCEPT ![cur].phase = "terminating"] ELSE pod
       \/ Fails /\ UNCHANGED pod
    /\ VisitEnds
    /\ UNCHANGED <<now, st, runner, button, reply, procVars, podList, runnerList, snap,
                   removable, todo, posts, clicked, busyAtStart, overtaken, counters>>

PutDeletionTime ==
    /\ pc = "put"
    /\ \/ /\ pod[cur].phase \in {"running", "terminating"} /\ Works
          /\ st' = [st EXCEPT ![cur].deletionTime = status.finishedAt + snap.extendDuration]
       \/ pod[cur].phase # "running" /\ Works /\ UNCHANGED st
       \/ pod[cur].phase = "running" /\ Fails /\ UNCHANGED st
    /\ Continue(AfterDebugging(cur, status), cur, status)
    /\ UNCHANGED <<now, pod, runner, button, reply, procVars, podList, runnerList, snap,
                   removable, todo, posts, clicked, busyAtStart, overtaken, counters>>

\* Updates carry the version of the pod that was listed (or came back from
\* the last update) and fail if the pod has changed since.  Its PDB is an
\* object of its own.
Fresh(p) ==
    /\ pod[p].phase = podList[p].phase
    /\ pod[p].hash = podList[p].hash
    /\ pod[p].name = podList[p].name

\* A faulty variant of Protect, to check that LabelMeansBudget can fail: the
\* label is set whether denyDisruption asks for a budget or not.
ProtectLabelsAnyway ==
    /\ pc = "protect" /\ Works
    /\ IF ~podList[cur].name
       THEN /\ pod' = IF Exists(cur) /\ cfg.denyDisruption
                       THEN [pod EXCEPT ![cur].pdb = TRUE] ELSE pod
            /\ Continue("relabel", cur, status)
       ELSE UNCHANGED pod /\ Continue(AfterRelabel(cur), cur, status)
    /\ UNCHANGED <<now, st, runner, button, reply, procVars, podList, runnerList, snap,
                   removable, todo, posts, clicked, busyAtStart, overtaken, counters>>

\* denyDisruption is read here, without the lock: the value of this moment.
\* A protected pod has its own PDB before it gets the label the PDB selects.
\* A PDB made for a pod that is gone is collected.
Protect ==
    /\ pc = "protect"
    /\ IF cfg.denyDisruption /\ ~podList[cur].name
       THEN \/ /\ Works
               /\ pod' = IF Exists(cur) THEN [pod EXCEPT ![cur].pdb = TRUE] ELSE pod
               /\ Continue("relabel", cur, status)
            \/ Fails /\ UNCHANGED pod /\ VisitEnds
       ELSE Works /\ UNCHANGED pod /\ Continue(AfterRelabel(cur), cur, status)
    /\ UNCHANGED <<now, st, runner, button, reply, procVars, podList, runnerList, snap,
                   removable, todo, posts, clicked, busyAtStart, overtaken, counters>>

Relabel ==
    /\ pc = "relabel"
    /\ \/ /\ Fresh(cur) /\ Works
          /\ pod' = [pod EXCEPT ![cur].name = TRUE]
          /\ podList' = [podList EXCEPT ![cur].name = TRUE]
          /\ Continue(AfterRelabel(cur), cur, status)
       \/ ~Fresh(cur) /\ Works /\ UNCHANGED <<pod, podList>> /\ VisitEnds
       \/ Fresh(cur) /\ Fails /\ UNCHANGED <<pod, podList>> /\ VisitEnds
    /\ UNCHANGED <<now, st, runner, button, reply, procVars, runnerList, snap, removable,
                   todo, posts, clicked, busyAtStart, overtaken, counters>>

\* Without its pod-template-hash label the pod leaves the ReplicaSet, which
\* then starts a replacement.
Unlink ==
    /\ pc = "unlink"
    /\ \/ /\ Fresh(cur) /\ Works
          /\ pod' = [pod EXCEPT ![cur].hash = FALSE]
          /\ removable' = removable - 1
       \/ ~Fresh(cur) /\ Works /\ UNCHANGED <<pod, removable>>
       \/ Fresh(cur) /\ Fails /\ UNCHANGED <<pod, removable>>
    /\ VisitEnds
    /\ UNCHANGED <<now, st, runner, button, reply, procVars, podList, runnerList, snap,
                   todo, posts, clicked, busyAtStart, overtaken, counters>>

-----------------------------------------------------------------------------
(* The end of a pass: deleteOfflineRunners                                 *)

PodsVisited ==
    /\ pc = "visit" /\ todo = {}
    /\ todo' = {r \in Pods : runnerList[r] = "offline" /\ ~Listed(r)}
    /\ pc' = "offline"
    /\ UNCHANGED <<envVars, procVars, podList, runnerList, snap, removable, cur, status,
                   histVars>>

\* The first failure ends the pass.  Removing a runner that GitHub has
\* dropped meanwhile fails too.
RemoveRunner(r) ==
    /\ pc = "offline" /\ r \in todo
    /\ \/ /\ runner[r] \in Registered /\ Works
          /\ runner' = [runner EXCEPT ![r] = "removed"]
          /\ todo' = todo \ {r}
          /\ UNCHANGED <<pc, podList, runnerList, snap, removable, cur, status, busyAtStart>>
       \/ runner[r] \notin Registered /\ Works /\ UNCHANGED runner /\ PassEnds
       \/ runner[r] \in Registered /\ Fails /\ UNCHANGED runner /\ PassEnds
    /\ UNCHANGED <<now, pod, st, button, reply, procVars, posts, clicked, overtaken, counters>>

EndPass ==
    /\ pc = "offline" /\ todo = {}
    /\ PassEnds
    /\ UNCHANGED <<envVars, procVars, posts, clicked, overtaken, failures, counters>>

-----------------------------------------------------------------------------
(* The process                                                             *)

\* update(): the fields change at once, also in the middle of a pass.
Update(c) ==
    /\ cfg # c
    /\ cfg' = c
    /\ UNCHANGED <<envVars, lastCheckTime, passVars, histVars>>

\* The controller dies and a new one starts a new manageProcess.
RestartController ==
    /\ restarts < MaxRestarts
    /\ restarts' = restarts + 1
    /\ lastCheckTime' = now
    /\ AdvanceClock
    /\ PassEnds
    /\ UNCHANGED <<pod, st, runner, button, reply, cfg, posts, clicked, overtaken, failures,
                   crashes, clicks>>

-----------------------------------------------------------------------------
(* Pods and GitHub                                                         *)

\* The ReplicaSet replaces pods it no longer counts, and gives up pods when
\* there are too many.
ReplicaSet(p) ==
    /\ \/ /\ pod[p].phase = "none" /\ Cardinality(Controlled) < cfg.replicas
          /\ pod' = [pod EXCEPT ![p] = [phase |-> "pending", hash |-> TRUE, name |-> FALSE,
                                        pdb |-> FALSE, created |-> now]]
       \/ /\ p \in Controlled /\ Cardinality(Controlled) > cfg.replicas
          /\ pod' = [pod EXCEPT ![p].phase = "terminating"]
    /\ UNCHANGED <<now, st, runner, button, reply, procVars, passVars, histVars>>

\* The container starts: the flag is created, the setup command runs.
PodStarts(p) ==
    /\ pod[p].phase = "pending"
    /\ pod' = [pod EXCEPT ![p].phase = "running"]
    /\ st' = [st EXCEPT ![p].state = "initializing"]
    /\ overtaken' = IF pc \in {"runners", "maintain"} THEN overtaken \cup {p} ELSE overtaken
    /\ UNCHANGED <<now, runner, button, reply, procVars, passVars, posts, clicked,
                   busyAtStart, failures, counters>>

\* config.sh registers the runner; it is offline until the listener connects.
Register(p) ==
    /\ pod[p].phase = "running" /\ st[p].state = "initializing" /\ runner[p] = "none"
    /\ runner' = [runner EXCEPT ![p] = "offline"]
    /\ UNCHANGED <<now, pod, st, button, reply, procVars, passVars, histVars>>

\* The listener connects, if its registration is still there.
Connect(p) ==
    /\ pod[p].phase = "running" /\ st[p].state = "initializing" /\ runner[p] = "offline"
    /\ st' = [st EXCEPT ![p].state = "running"]
    /\ runner' = [runner EXCEPT ![p] = "idle"]
    /\ UNCHANGED <<now, pod, button, reply, procVars, passVars, histVars>>

TakeJob(p) ==
    /\ pod[p].phase = "running" /\ st[p].state = "running" /\ runner[p] = "idle"
    /\ runner' = [runner EXCEPT ![p] = "busy"]
    /\ UNCHANGED <<now, pod, st, button, reply, procVars, passVars, histVars>>

\* GitHub drops an ephemeral runner with the end of its job.
EndJob(p) ==
    /\ pod[p].phase = "running" /\ st[p].state = "running" /\ runner[p] = "busy"
    /\ runner' = [runner EXCEPT ![p] = "done"]
    /\ UNCHANGED <<now, pod, st, button, reply, procVars, passVars, histVars>>

\* updateToDebuggingState: the finish time may be older than its publication.
Publish(p) ==
    /\ pod[p].phase = "running" /\ st[p].state = "running" /\ runner[p] = "done"
    /\ now + cfg.extendDuration < MaxTime
    /\ \E ext \in BOOLEAN, d \in 0 .. PublishDelay :
          /\ st' = [st EXCEPT ![p].state = "debugging", ![p].finishedAt = now - d,
                              ![p].extend = ext]
          /\ overtaken' = IF d > 0 THEN overtaken \cup {p} ELSE overtaken
    /\ UNCHANGED <<now, pod, runner, button, reply, procVars, passVars, posts, clicked,
                   busyAtStart, failures, counters>>

\* The container dies and restarts: the flag file makes the pod stale.
RestartContainer(p) ==
    /\ pod[p].phase = "running" /\ st[p].state # "stale"
    /\ crashes < MaxCrashes
    /\ crashes' = crashes + 1
    /\ st' = [st EXCEPT ![p] = [ZeroStatus EXCEPT !.state = "stale"]]
    /\ runner' = [runner EXCEPT ![p] = IF @ \in Registered THEN "offline" ELSE @]
    /\ UNCHANGED <<now, pod, button, reply, procVars, passVars, posts, clicked,
                   busyAtStart, overtaken, failures, restarts, clicks>>

Terminated(p) ==
    /\ pod[p].phase = "terminating"
    /\ pod' = [pod EXCEPT ![p] = [NoPod EXCEPT !.phase = "gone"]]
    /\ st' = [st EXCEPT ![p] = ZeroStatus]
    /\ runner' = [runner EXCEPT ![p] = IF @ \in Registered THEN "offline" ELSE @]
    /\ UNCHANGED <<now, button, reply, procVars, passVars, histVars>>

Tick ==
    /\ now < MaxTime
    /\ now' = now + 1
    /\ UNCHANGED <<pod, st, runner, button, reply, procVars, passVars, histVars>>

-----------------------------------------------------------------------------
(* The Slack agent handles the buttons                                     *)

\* extendPod, first half: the status is read and the new time computed.
AgentExtend(p) ==
    /\ clicks < MaxClicks /\ p \in button /\ reply[p] = Nil
    /\ pod[p].phase = "running"
    /\ LET base == IF st[p].deletionTime # Nil THEN st[p].deletionTime ELSE now
           limit == now + ExtendLimit
           tm == base + ExtendBy
       IN  /\ now + ExtendLimit < MaxTime
           /\ reply' = [reply EXCEPT ![p] = IF tm > limit THEN limit ELSE tm]
    /\ clicks' = clicks + 1
    /\ UNCHANGED <<now, pod, st, runner, button, procVars, passVars, posts, clicked,
                   busyAtStart, overtaken, failures, restarts, crashes>>

\* extendPod, second half: the PUT.
AgentPut(p) ==
    /\ reply[p] # Nil
    /\ reply' = [reply EXCEPT ![p] = Nil]
    /\ \/ /\ pod[p].phase = "running" /\ Works
          /\ st' = [st EXCEPT ![p].deletionTime = reply[p]]
          /\ clicked' = clicked \cup {p}
       \/ pod[p].phase # "running" /\ Works /\ UNCHANGED <<st, clicked>>
       \/ pod[p].phase = "running" /\ Fails /\ UNCHANGED <<st, clicked>>
    /\ UNCHANGED <<now, pod, runner, button, procVars, passVars, posts, busyAtStart,
                   overtaken, counters>>

\* deletePod: the zero time is stored.
AgentDelete(p) ==
    /\ clicks < MaxClicks /\ p \in button
    /\ pod[p].phase = "running"
    /\ clicks' = clicks + 1
    /\ st' = [st EXCEPT ![p].deletionTime = 0]
    /\ clicked' = clicked \cup {p}
    /\ UNCHANGED <<now, pod, runner, button, reply, procVars, passVars, posts,
                   busyAtStart, overtaken, failures, restarts, crashes>>

-----------------------------------------------------------------------------

Manager ==
    \/ FetchRunnerPods \/ FetchRunners \/ BeginMaintain
    \/ \E p \in Pods : SkipPod(p) \/ GetStatus(p)
    \/ PostResult \/ DeletePod \/ PutDeletionTime \/ Protect \/ Relabel \/ Unlink
    \/ PodsVisited
    \/ \E r \in Pods : RemoveRunner(r)
    \/ EndPass

PodSteps(p) ==
    \/ ReplicaSet(p) \/ PodStarts(p) \/ Register(p) \/ Connect(p) \/ TakeJob(p)
    \/ EndJob(p) \/ Publish(p) \/ RestartContainer(p) \/ Terminated(p)

Agent(p) == AgentExtend(p) \/ AgentPut(p) \/ AgentDelete(p)

Next ==
    \/ Manager
    \/ \E c \in Configs : Update(c)
    \/ RestartController
    \/ \E p \in Pods : PodSteps(p)
    \/ \E p \in Pods : Agent(p)
    \/ Tick

Spec == Init /\ [][Next]_vars

\* The ticker keeps the goroutine going and its calls return; deleted pods
\* terminate; the clock runs on.
Fairness ==
    /\ WF_vars(Manager)
    /\ WF_vars(Tick)
    /\ \A p \in Pods : WF_vars(Terminated(p)) /\ WF_vars(AgentPut(p))

FairSpec == Spec /\ Fairness

-----------------------------------------------------------------------------
(* Properties *)

EnvTypeOK ==
    /\ now \in Nat
    /\ pod \in [Pods -> PodRecords]
    /\ st \in [Pods -> Statuses]
    /\ runner \in [Pods -> RunnerStates]
    /\ button \subseteq Pods
    /\ reply \in [Pods -> Int \cup {Nil}]

ProcTypeOK == cfg \in Configs /\ lastCheckTime \in Nat

PassTypeOK ==
    /\ pc \in Calls
    /\ podList \in [Pods -> PodRecords]
    /\ runnerList \in [Pods -> RunnerStates]
    /\ snap \in Snaps
    /\ removable \in Int
    /\ todo \subseteq Pods
    /\ cur \in Pods \cup {Nil}
    /\ status \in Statuses

HistTypeOK ==
    /\ posts \in [Pods -> Nat]
    /\ clicked \subseteq Pods
    /\ busyAtStart \subseteq Pods
    /\ overtaken \subseteq Pods
    /\ failures \in Nat /\ restarts \in Nat /\ crashes \in Nat /\ clicks \in Nat

\* Every variable keeps its type.
TypeOK == EnvTypeOK /\ ProcTypeOK /\ PassTypeOK /\ HistTypeOK

\* However passes, failing updates, controller restarts and configuration
\* changes interleave, there are never more pods outside the ReplicaSet than
\* some configuration allows: the budget of a pass is computed from a list
\* that is older than the unlinking (maintainRunnerPods, numRemovablePods).
UnlinkedWithinMax ==
    \/ Unlinked = {}
    \/ \E c \in Configs : Cardinality(Unlinked) <= c.maxRunnerPods - c.replicas

\* docs/crd-runner-pool.md, maxRunnerPods: with a fixed configuration the
\* pods that are not being deleted stay within maxRunnerPods, or within
\* replicas if that is larger (maxRunnerPods defaults to 0).
PodsWithinMax ==
    LET live == {p \in Pods : pod[p].phase \in {"pending", "running"}}
    IN  \/ Cardinality(live) <= cfg.maxRunnerPods
        \/ Cardinality(live) <= cfg.replicas

\* With denyDisruption, a pod that has left its ReplicaSet is covered by its
\* own PDB, whichever of the three calls failed in whichever pass.
ProtectedWhenUnlinked ==
    \A p \in Unlinked : pod[p].name /\ pod[p].pdb

\* A pod with a label of its own has a budget of its own.  The passes that follow
\* go by the label and never create the budget of a pod that has it, so the label
\* must not get ahead of the budget: denyDisruption is read without the lock and
\* may be switched off and on in the middle of a visit, calls fail, and the
\* controller restarts between the two.
LabelMeansBudget == \A p \in Pods : Exists(p) /\ pod[p].name => pod[p].pdb

\* A job is announced at most twice: once by a pass that meets it, and once
\* more by the next pass if it finished after that pass took its time.
AtMostTwoPosts == \A p \in Pods : posts[p] <= 2

\* The visit of a debugging pod is past the notification.
PastPost ==
    /\ pc \in {"delete", "put", "protect", "relabel", "unlink"}
    /\ status.state = "debugging" /\ snap.notify

\* As long as no call has failed and the controller has not restarted, a pass
\* deals with the finished job of a running pod only after a PostResult for it,
\* in this pass or an earlier one.  The pods missed are those that started, ran
\* their job and finished while a pass was listing runners, those that
\* published their finish time late, and those that are being deleted: a job
\* may start and end between the reading of an idle pod's status and the
\* deletion for its recreate deadline.
ListedJobIsPosted ==
    PastPost /\ failures = 0 /\ restarts = 0 /\ pod[cur].phase = "running"
        /\ cur \notin overtaken => posts[cur] >= 1

\* The manager deletes pod p in this step.
Deletes(p) == pc = "delete" /\ cur = p /\ pc' = "visit" /\ pod'[p] # pod[p]

\* A failed pod that no user has touched is kept for the whole extension,
\* whatever its recreate deadline is.
FailedPodIsKept ==
    [][\A p \in Pods :
          Deletes(p) /\ status.state = "debugging" /\ status.extend /\ p \notin clicked
              /\ cfg.extendDuration # 0
          => now > status.finishedAt + cfg.extendDuration]_vars

\* A pod whose runner works on a job during the whole pass is not deleted.
BusyPodIsKept ==
    [][\A p \in Pods : Deletes(p) => ~(p \in busyAtStart /\ runner[p] = "busy")]_vars

\* A finished or stale pod is deleted in the end, users' extensions, failing
\* calls and restarts notwithstanding.
FinishedPodIsRemoved ==
    \A p \in Pods : (pod[p].phase = "running" /\ st[p].state \in {"debugging", "stale"})
                      ~> pod[p].phase = "gone"

\* The runner of a pod that is gone is removed from GitHub in the end.
OrphanRunnerIsRemoved ==
    \A p \in Pods : (pod[p].phase = "gone" /\ runner[p] = "offline") ~> runner[p] = "removed"

\* CHANGELOG.md: "Recreate unused runner pods"; the tests call a pod whose
\* "recreate deadline is exceeded but runner is busy" one not to delete.
BusyPodIsNeverDeleted ==
    [][\A p \in Pods : Deletes(p) => runner[p] # "busy"]_vars

\* docs/design.md: "The goroutine deletes runners who are offline and do not
\* have a related runner pod."
OnlyOrphansRemoved ==
    [][\A r \in Pods : runner'[r] = "removed" /\ runner[r] # "removed" =>
          runner[r] = "offline" /\ ~Exists(r)]_vars

=============================================================================
