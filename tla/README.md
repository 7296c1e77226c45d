# A TLA+ model of meows

meows runs GitHub Actions self-hosted runners in Kubernetes pods.  This directory
holds TLA+ specifications of its moving parts, the configurations that model-check
them with TLC, and proofs checked by TLAPS.  Paths below are relative to the
repository root (`src/` in `PROJECT.json`).

## 1. The system

### Components, state, operations

| Component | State it keeps | Operations | Model |
|---|---|---|---|
| Runner pod program (`runner/runner.go`, `runner/listener.go`, started by `cmd/entrypoint`) | flag files in an `emptyDir`; the mutex-protected fields of `Runner` (state, result, finish time, extension flag, deletion time) | `runListener` (claim, setup, register, listen, publish), `GET /status`, `PUT /deletion_time` | `RunnerPod`, abstractly `PodLifecycle` |
| Job scripts (`scripts/`, `cmd/job-started`, `runner/jobinfo.go`) | files read by the pod program | `job-success`, `job-failure`, `job-cancelled`, `job-started` | `TouchFile` in `RunnerPod` |
| Runner manager (`controllers/runner_manager.go`) | a registry of one goroutine per pool; per goroutine a copy of the spec and `lastCheckTime` | the pass: list pods, list runners, `maintainRunnerPods`, `deleteOfflineRunners`; `StartOrUpdate`, `Stop`, `StopAll`, `deleteAllRunners` | `RunnerManager` (the pass), `RunnerListing` (the pass over a list that was fetched page by page, `deleteAllRunners`), `RunnerPoolController` (the registry) |
| Secret updater (`controllers/secret_updater.go`) | a registry of one goroutine per pool; the loop's `waitTime` | `run`, `needUpdate`, `updateSecret`; `Start`, `Stop`, `StopAll` | `SecretUpdater` (the loop), `RunnerPoolController` (the registry) |
| RunnerPool reconciler (`controllers/runnerpool_controller.go`) | none of its own: it reads the cache and writes Secret, Deployment, status, finalizer | `Reconcile` with `reconcileSecret`, `reconcileDeployment` | `RunnerPoolController` |
| Controller process (`cmd/controller/cmd/run.go`) | both registries, the work queue, the cache | start, crash, orderly shutdown with the deferred `StopAll` calls | `RunnerPoolController` |
| API types and webhooks (`api/v1alpha1`) | the RunnerPool | defaulting (adds the finalizer), validation, immutable target | `CreatePool`, `UpdatePool`, `ValidateCommon`, `ValidateUpdate` in `RunnerPoolController` |
| GitHub client (`github/client.go`) | none | `ListRunners`, `RemoveRunner`, `CreateRegistrationToken` | `RunnerListing`; calls of `RunnerManager` and `SecretUpdater` |
| Pod client (`runner/client.go`) | none | `GetStatus`, `PutDeletionTime` | calls of `RunnerManager` and `SlackAgent` |
| Slack agent (`agent/`, `cmd/slack-agent`) | the event in hand, the locals of its handler, and the events waiting in the channel of the Slack client | `ServeHTTP`, `listenInteractiveEvents` with `extendPod`, `deletePod`, `putDeletionTime` | `SlackAgent`; reduced to its effect on pods in `RunnerManager` |
| Metrics, `meows` command line, generated code | - | - | not modelled (section 7) |

### How they interact

* A user creates a RunnerPool.  The **reconciler** creates an empty Secret and starts
  the **secret updater**, which asks GitHub for a registration token and patches it
  into the Secret.  Only then does the reconciler create the Deployment and start the
  **runner manager** goroutine.
* Each **pod** mounts the Secret, registers an ephemeral runner, runs one job and
  stays in the `debugging` state until somebody deletes it.
* In every pass the **manager** asks every pod for its status, announces finished jobs
  through the **Slack agent**, stores deletion times, deletes pods whose time is over,
  takes busy pods out of their ReplicaSet (so that a fresh pod replaces them), and
  removes runners without pods from GitHub.
* A user who presses a button makes the **agent** write a deletion time into the pod
  while the manager may be in the middle of a pass.
* Deleting the pool makes the reconciler stop both goroutines, wait for them and
  remove the finalizer; the garbage collector takes the rest.

### What is hard

* *Reads that are old when used*: a pass decides from lists it took at its start; the
  reconciler works on a cached pool; the updater reads a cached Secret; an agent and the
  manager each store a deletion time that they worked out from an older one.
* *Order of calls*: pods are listed before runners; the message is posted before the
  deletion time is stored; `lastCheckTime` moves on before any pod is asked.
* *Partial failure*: nearly every error is logged and skipped; the next pass starts from
  whatever was reached.  An agent instead ends at an error, and Slack delivers the
  click again, perhaps to another agent.
* *Lists in pieces*: the runners of all pools come page by page from one list that
  changes between the pages.
* *Crashes*: a container may die between any two steps and has only the `started` flag
  file to tell its successor; a controller loses all goroutines.
* *Numbers at the edge*: the room for unlinked pods may be negative; a token lasts an
  hour, retries take a minute, the lead is five minutes, and the time stamp in the
  annotation has no fractions of a second.
* *Liveness*: finished pods, orphan runners, empty Secrets and deleted pools must all
  be taken care of in the end.

`PROJECT.json` lists each hazard at its line with the properties that cover it.

### What makes each component correct

* **Pod**: it is used once, whatever dies; a verdict becomes visible all at once and
  stays; a failure is never reported as something else; a restarted pod says `stale`.
* **Manager**: it never unlinks more pods than the spec has room for, never leaves an
  unlinked pod unprotected, keeps busy and failed pods as long as it should, announces
  what finished, and in the end removes every finished pod and every orphan runner.
* **Secret updater**: the token in the Secret is good, is not replaced without need, and
  a Secret without one gets one.
* **Reconciler**: goroutines live exactly as long as their pool and work for its target;
  the newest spec is in force once things are quiet; a deleted pool goes away.
* **Slack agent**: no click is lost; the limit on extensions holds; what a user was told
  about a deletion time is not silently undone, but for races that can be named.
* **Listing**: what a list misses or repeats is bounded by what joined and left while it
  was made, and a manager touches no runner of another pool.

## 2. Modules

```
PodLifecycle            what a pod promises to its clients (abstract)
  ^ refined by
RunnerPod               the pod program, with crashes            RunnerPodProofs
  . its life cycle is the pods of
RunnerManager           the manager's pass and what surrounds it RunnerManagerProofs,
                                                                 RunnerManagerVisitProofs,
                                                                 RunnerManagerDeleteProofs
  . parts of the pass in more detail
RunnerListing           ListRunners page by page, its users      RunnerListingProofs
SlackAgent              agents, clicks, visits of the manager    SlackAgentProofs
SecretUpdater           the token loop                           SecretUpdaterProofs
RunnerPoolController    Reconcile, registries, shutdown;         RunnerPoolControllerProofs
                        the two loops reduced to what it depends on
MC<module>.tla          constants for TLC;  *.cfg  one per run
```

Every module starts with a comment that says what it covers.  A few conventions hold
in all of them:

* One action per call to another party or, in the pod, per step between which the
  container may die.  What the code computes between two calls belongs to one of them.
* A call that may fail has a disjunct `Fails`, which uses up one of `MaxFailures` (in
  `SecretUpdater`: one of `MaxSetbacks` in a row).  `Works` is the other case.
* `pc` (in `RunnerPoolController` `work.pc` and `mgr.pc`) is the next call of a process.
* Each module has a section of *faulty variants* of its definitions: the changes a
  plausible bug would make.  Putting one in place of the real definition makes TLC find
  the property it is meant to break, which shows that the property can fail.
* History variables only record what happened and are read by properties only.  Two
  of them need a word: `claim` in `RunnerPod` also supplies the abstract `claim` of
  `PodLifecycle`, and `overtaken` in `RunnerManager` collects the pods whose result may be
  too old when a pass first meets it: they started while a pass was between its listing
  of pods and its reading of the clock, or published their finish time late.

### RunnerPod

`files` are the files under `/var/meows` and survive a restart; `mem` holds the fields
of `Runner`; `found` holds the locals of `updateToDebuggingState` between looking at the
flags and taking the lock.  `FindStale` to `PublishResult` are `runListener`, `listen`
and `updateToDebuggingState` in order; every error return is an `Exit`, since the entry
point then ends and the container restarts.  `DeletionTimeHandler` may run whenever the
process is up, in any state, as in the code.  The listener's exit, the job, GitHub's
registration and the kubelet are external: an ephemeral runner takes one job at most, and
the listener ends well only when no job is running.  The scripts of a job touch their files while it
runs or after it (`TouchFile`), after the verdict too: a process the job has left behind may still run
them.

`ImplementsLifecycle` maps the five status fields, `claim` and the clock to
`PodLifecycle`, in which a verdict appears in one step, only the claiming incarnation
works, and later ones answer `stale`.

### RunnerManager

`pc` walks through one pass: `FetchRunnerPods`, `FetchRunners`, `BeginMaintain` (the copy
of the fields under the lock), then for each listed pod in any order `SkipPod` or
`GetStatus` and the calls that follow from the status (`PostResult`, `DeletePod`,
`PutDeletionTime`, `Protect`, `Relabel`, `Unlink`), then `PodsVisited`, `RemoveRunner` and
`EndPass`.  `podList`, `runnerList`, `snap`, `removable`, `cur` and `status` are the locals
of the pass.  The recreate deadline, the removal budget, the busy test and the
deletion-time rule are operators named for the idea (`InUse`, `NeedDelete`, `New`,
`NumUnlabeledPods`, `AfterRelabel`).  Updates of a pod carry the listed version and fail
if the pod has changed since (`Fresh`).  `Update` is `manageProcess.update` and may fall into
the middle of a pass; `RestartController` starts a new process.

Pods follow the life cycle of `RunnerPod`, with the status a client sees; `Publish` has a
parameter `PublishDelay` because the finish time is taken before the lock.  `runner` is
GitHub's view: registered and offline, idle, busy, done (dropped by GitHub after its one
job) or removed.

### SecretUpdater

All times are relative to now, so the state space is finite without a bound on the
clock.  `Filled` models the conversion of the expiry time to RFC 3339: the annotation may
be up to one second early.  `NeedUpdate` and `UpdateTime` are `needUpdate`; `GetSecret`
reads the cache, which lags behind the Secret.  A patch may reach the server and its
answer be lost.  Two assumptions on time are built into `Tick`: a round ends at most
`Slack` ticks after its timer was due, and the cache is at most `MaxLag` ticks behind, which may
be more than the second that the loop waits after a patch.  `lag` is how long the cache
has been behind, and the history variable `behind` notes that a round has read it when that was a
second or more: such a round may replace a token that is as good as new, and
`OnlyDueTokensAreReplaced` excepts it and no other.

### RunnerPoolController

`pool` is the RunnerPool with a UID, so that a pool recreated under the same name is told
from its predecessor; `seen` is the cached copy; `work` is the reconciliation in
progress with its stale `rp`; `upd` and `mgr` are the entries of the two registries.
Updates that carry a resource version (`UpdateStatus`, `RemoveFinalizer`) fail if the
pool has changed since it was read.  `StopManager` waits for the goroutine, which first
lists and removes the pool's runners (`ListAllRunners`, `RemoveListedRunner`).
`StopAllUpdaters`, `StopAllManagers` and `Exits` are the deferred calls of `run()`, during
which a reconciliation may still be working.

A pool has a `target`, the organization or repository it is for.  The webhooks
(`ValidateCommon`, `ValidateUpdate`) refuse one that is not valid and any change of it; a pool
that is created again under the same name may have another.  `NewManager` reads the
target once, as `newManageProcess` does, and lists and removes only the runners that are registered
there (`ListRunners`; `home` is where a pod registers).  A pod may be evicted at any time (`PodEnds`), and its
runner is then left to `RemoveOffline`.  A pod that took a job is unlinked from its
Deployment (`Unlink`), is not collected with it, and is deleted by whichever manager lists
it (`DeletePod`).

### RunnerListing

GitHub's list is the function `pos` from runners to places: `Join` and `Leave` shift
what is behind.  `next` runners are on the pages fetched so far, so the next `Page`
is what has places `next + 1` to `next + PerPage` *when it is fetched*.  `list` holds what the
first entry of a runner says, which is the one `runnerBusy` finds; `again` the runners that
are in the list more than once.  The list is used in three ways: `VisitPod` (a runner that is
not in it counts as idle), `PodsVisited` with `RemoveRunner` (offline runners without a pod), and,
after `Stop`, `RemoveRunner` for every entry.  `Stop` may come at any moment of a pass, whose
calls then fail as their context is cancelled.  Runners outside `Own` belong to other pools of
the organization.

### SlackAgent

`events` are the clicks with how often Slack has delivered them; `inbox` is what `Deliver` has put into
the channel of each agent's Slack client (`smClient.Events`) and its event loop has not taken yet; `ag` is
that loop with the locals of its handler; `message` is the channel of the message that carries the buttons.
`ExtendPod` and `DeletePodNow` run from the receive of an event to the PUT, `Put`,
`PostMessage` and `Ack` are the rest.  An error anywhere but in the PUT ends the process
(`Exits`), with all that waits in its channel, and `Run` starts it again.  Slack may hand out an event that is not
acknowledged up to `MaxDeliveries` times, to any agent, also while another one has it.
The zero time that Delete stores is `ZeroTime`, and adding hours to it leaves it in the
past, as in the code (year 1).  The manager's side is what
`maintainRunnerPods` does with a debugging pod of a pool that notifies and extends; `New`
is told by two sets instead of comparing times, so that a job that finishes in
the same tick as a pass may be on either side of it.

## 3. Runs

State counts are of distinct states; a passing run takes three minutes at most.

| Run | Instance | Shows |
|---|---|---|
| `pod` | clock 0..1, deletion times 0 and 2, container restarts without bound; 8,868 states | the pod's invariants, the two liveness properties and the refinement of `PodLifecycle` |
| `capacity` | 3 pods, 1 replica, max 2, 1 failing call; 858,704 states | never more unlinked pods than room, never more live pods than `maxRunnerPods` |
| `reconfigure` | 2 pods, room shrinking from 1 to 0 and back, 1 restart; 961,924 states | the bound on unlinked pods while the spec changes in the middle of passes; no label ahead of its budget when `denyDisruption` changes too |
| `lifetime` | 1 pod, 1 failing call, 1 controller and 1 container restart, 1 click, clock to 6, recreate deadline 0; 681,290 states | at most two announcements, and one where a pass could meet the job in time; no unlinked pod without label and PDB; failed and busy pods are kept; finished pods and orphan runners go |
| `secret` | second 2, minute 6, lead 30, life 45, slack 1, lag up to 3, 5 setbacks, 2 deletions; 188,681 states | the token stays valid, is replaced only when due or hidden by the cache for a second, and a Secret is filled |
| `controller` | 1 pod, 2 pools in turn with different targets, an invalid target, 2 generations, 1 failure, 1 crash or shutdown; 478,903 states | goroutines live as long as their pool and work for its target; quiet means served; pools are served and go away; a finished unlinked pod is not left behind |
| `agent` | 1 pod, 2 agents, 2 clicks, 2 deliveries each, 1 failing call, clock to 2; 3,005,481 states | no pod is kept beyond the limit; no click is swallowed; a deletion time is taken back only by Delete or by a race that can be named |
| `listing` | 3 runners, 2 of them of this pool, 1 runner per page, 1 failing call; 945,302 states | a list misses at most as many runners as left meanwhile, repeats one only if one joined; foreign runners are kept; busy pods are deleted only by such a miss; stopping removes what was listed; a listing ends |

### Disagreements between docs and code

Four runs check what a doc, a comment or a test says and find behaviours of the code
that contradict it.  Each is a race a reader of the docs would not expect; whether it
matters in operation is for the maintainers to say.

| Run | Says | TLC shows |
|---|---|---|
| `recreate` | CHANGELOG.md, runner_manager_test.go: only unused pods are recreated | a runner that takes a job after the listing is deleted at the recreate deadline |
| `orphan` | docs/design.md: runners are removed when offline and without a pod | a pod that starts and registers between the two listings loses its registration |
| `runners_left` | docs/development.md, runner_manager_test.go: runners of a deleted pool are removed | a pod that registers after `deleteAllRunners` has listed leaves its runner behind |
| `stale_visit` | docs/design.md: pods past their deletion time are deleted | a pod that is extended while the manager visits it is deleted although its deletion time lies in the future |

Next to them the passing runs check what the code does guarantee: `BusyPodIsKept`,
`OrphanRunnerIsRemoved`, `StopRemovesAll`, and `FailedPodIsKept` with `UndoneOnlyByRace`.

Three more disagreements need no run of their own.  docs/runner-pod-api.md says that a pod
which is not `debugging` answers with its `state` only, but `deletionTimeHandler` stores a
deletion time in every state (its comment asks whether it should) and `statusHandler`
shows it; `DeletionTimeHandler` is enabled accordingly.  A comment in `agent/socket.go`
expects a deletion time to be there when Extend is pressed, but the message is posted
before the deletion time is stored; the last case of `UndoneOnlyByRace` is what follows
from it.  docs/user-manual.md says that a failed job is announced, but a pod that starts and
finishes between the listing of pods and the reading of the clock is not;
`ListedJobIsPosted` excepts it by name.  It also excepts pods that are being deleted: an idle
pod past its recreate deadline may take and finish a job between the reading of its status and
the deletion, and a later pass that still reaches it while it terminates finds a result that it
takes for history if the pass before has skipped the pod.

### Bounds, and why they are enough

* **Pods.** Three pods and one replica suffice for two pods to be unlinked one after the
  other, one of them counted by the list and one during the pass.  A pod's identity is
  used once, so two pods let one be replaced.  `RunnerManagerProofs` proves the bound on
  unlinked pods for any number.  The life of one pod does not depend on others except
  through the capacity, so `lifetime` has one.
* **Time.** Six units cover start, job, publication, an extension of one unit, a click and
  the deletion.  The recreate deadline of `lifetime` is 0, so that an idle pod is due as soon as
  the clock has moved on and a job can still start, finish and be met before the clock ends.
  `Publish` and `AgentExtend` are disabled when the time they compute would
  lie beyond the clock's end: otherwise the stopped clock, not the code, would keep a pod.
* **Failures and restarts.** One of each meets every step of every pass, and after it the
  system must recover.
* **Seconds and minutes.** The lead is five minutes as in the code, so four setbacks in a row are
  tolerated and the fifth is not; `TokenStaysValid` is exact at that border.  The life of a
  token is cut from an hour to one long sleep plus the lead.  The cache may lag by a second and
  a half, so that a round reads it before and after it shows the last patch.
* **Pools.** Two pools in turn show what a successor inherits; two generations show an
  update that meets a reconciliation of the old spec.
* **Pages.** One runner per page makes every place a border between pages, and three runners
  let one be skipped or repeated while another leaves or joins; two of them of
  this pool let both sides of that be its own.  With four runners and two per page the safety
  properties hold as well (7,953,657 states).  `RunnerListingProofs` has the theorem for all
  sizes.
* **Clicks.** Two agents and two deliveries let one event be in two hands at once; two clicks let an
  Extend meet a Delete, before and after it, and wait in one channel when the process ends.  In two
  units a pod's duration runs out and it is gone while clicks for it are under way; two
  extensions go beyond the limit.
* **Runners.** `lifetime` has one runner.  That a failing removal ends the pass, and other runners
  without pods have to wait for the next one, is in the model but not met in this run.

Symmetry over pods is used in `capacity` and `reconfigure`, over agents in `agent`; these check no
liveness.
`CHECK_DEADLOCK FALSE` appears where the system may stop: in the controller configurations
once the last pool has been deleted, in the agent's once all clicks are used up and
all pods are gone, in `listing` once the manager has stopped and no pod is left to change.

### Fairness

* `RunnerPod`: weak fairness of the goroutine's own steps (nothing blocks them for ever)
  and of the kubelet's restart of a container.  The job and the listener get none.
* `RunnerManager`: weak fairness of the pass (a ticker drives it, client calls have time-outs),
  of the clock, of the termination of a deleted pod (grace period), and of
  the agent's PUT after a click.  Users, pods, jobs and spec changes get none.  The
  properties rely on failures being finitely many, which `MaxFailures` says.
* `SecretUpdater`: weak fairness of the loop, the reconciler's creation of the Secret, the
  informer and the clock.
* `RunnerPoolController`: weak fairness of the work queue, the goroutines, the watches, the
  garbage collector and, once begun, the shutdown.  Users get none.
* `RunnerListing`: weak fairness of the goroutine's steps.  `ListingEnds` needs no bound on how
  runners come and go beyond the finite set of them, since a runner registers once.
* `SlackAgent` has safety properties only.  Slack gives an event up after a few deliveries and
  an agent that is down takes none, so no fairness that the code could justify
  makes a click succeed; `NoClickIsLost` says instead what must have happened when Slack gives up.

## 4. Proofs

TLAPS checks the following for every value of the constants that satisfies the named
assumptions (`PodAssumption`, `ManagerAssumption`, `UpdaterAssumption`,
`ControllerAssumption`, `ListingAssumption`, `AgentAssumption`, and `NilAssumption` or
`NoNilAssumption`, which say that `Nil` is no ordinary value).

* **RunnerPodProofs**: `PodTypeCorrect`, `PodServesOnce`, `PodOnlyCreatorWorks`,
  `PodDebuggingIsComplete`, `PodFailureIsReported`, `PodVerdictIsStable` and `PodImplementsLifecycle`.  The properties are not inductive:
  that the setup command runs once follows only from where the process is.  The
  strengthening ties the step of `runListener` to the flag file (`started` exists exactly
  when somebody has claimed the pod), to the fields in memory, to the locals in `found` and
  to the counts of setups and jobs.  The refinement uses the same invariant: each step maps
  to a step of `PodLifecycle` or changes nothing a client can see.
* **RunnerManagerProofs**: `ManagerTypeCorrect`, `ManagerUnlinkedWithinMax` and
  `ManagerPodsWithinMax`, for any finite set of pods, any set of specs and any interleaving
  with spec changes.  A pass works with a list and a budget that are out of date, so the bound
  alone is not inductive.  `CapInv` adds: until the budget is computed, every unlinked pod is
  in the list as an unlinked one (`ListInv`); afterwards the budget is one that some spec
  allows, and the unlinked pods plus what the pass may still unlink stay within it
  (`BudgetInv`); and `Unlink` is reached only with room left (`RoomInv`).  The argument is
  one of cardinalities: only `Unlink` makes the set grow, by one, and it takes one from
  `removable`.  `ManagerPodsWithinMax` is for specs that differ in anything but `replicas` and
  `maxRunnerPods` (`FixedSize`): a spec that shrinks leaves the pods that are there.  `FullInv`
  says that the ReplicaSet has no more than `replicas` pods, since it is the only one
  that makes a pod and gives up what is too much; the live pods are those and the unlinked ones.
* **RunnerManagerVisitProofs**: `ManagerLabelMeansBudget`, `ManagerProtectedWhenUnlinked`, if every spec
  asks for protection (`AlwaysDeny`), `ManagerAtMostTwoPosts`, and `ManagerListedJobIsPosted`, if every spec asks for
  notifications (`AlwaysNotify`).  Budget, label and unlinking are three calls that
  may fail in any pass: `LabelInv` says that a pod has its budget before the label, `LeaveInv` that it has
  the label before it leaves, and `ReachedInv` what has been done when a visit comes to the label
  or past it.  Half of this needs no assumption on the specs: that the label is never ahead of the budget
  (`LabelInv`) is `ManagerLabelMeansBudget`, for specs that change at any moment.  For the announcements, `ClockInv` says that no
  result and no pass is ahead of the clock; `AnnouncedInv` that a job that was announced is
  not published anew, and one that was announced twice is no later than `lastCheckTime`;
  `AheadInv` the same for the pods the pass has yet to visit, against the
  `lastCheckTime` it holds itself.  That no job is missed is the converse: what a pod publishes is
  later than the last reading of the clock (`AfterInv`), the list of a pass shows every pod that
  runs before the clock is read (`ShownInv`), and so a job that the next pass would take for
  history was announced, or its pod is still to be visited in this pass and will be found new
  (`DueInv`).  `DealtInv` carries this into the visit.  Pods that are being deleted had to be
  excepted: without `pod[cur].phase = "running"` the proof fails for a good reason, and TLC
  finds the case within the bounds of `lifetime` (section 3).
* **RunnerManagerDeleteProofs**: `ManagerBusyPodIsKept` and, if all specs agree on
  `extendDuration` (`FixedExtension`), `ManagerFailedPodIsKept`.  A deletion rests on a list of runners
  and a status that are older than it.  For busy pods: a runner that has taken its job takes no other
  (`StartInv`), so one that was busy when the pass began and is busy now was busy when the runners
  were listed (`SeenInv`) and when the status was read, and no visit of it comes to a deletion
  (`SparedInv`).  For failed pods: unless a user has touched the pod, the stored deletion time is
  the finish time plus the extension, whichever pass has stored it, and a pod that has not published
  has none (`StoredInv`); the snapshot is not ahead of the clock (`SettledInv`); a debugging status
  that was read stays true but for its deletion time (`ReadInv`); and a debugging pod comes to its
  deletion for this time only, since it counts as in use (`ReasonInv`).
* **SecretUpdaterProofs**: `UpdaterTypeCorrect`, `UpdaterTokenStaysValid` and
  `UpdaterOnlyDueTokensAreReplaced`, for all durations with a life of at least the lead, two
  seconds, the slack and the largest lag.  The invariant bounds the timer (`TimerInv`) and the age
  of the token in hand (`HandInv`), says that the cache shows the Secret as it was before
  (`OrderInv`), that a token it does not show is young, and that the wait after its patch is not over before the
  cache is a second behind (`LagInv`), that the next token expires later than this one (`FreshInv`), that a
  patch is only under way for a token that is due or was hidden (`DueInv`), and that the next look at
  the Secret comes before expiry less the cost of the setbacks so far (`LeadInv`).
* **RunnerPoolControllerProofs**: `ControllerTypeCorrect`, `ControllerNoProcessWithoutPool`,
  `ControllerProcessOfThisPool`, `ControllerProcessHasTarget` and `ControllerQuietMeansServed`, for any number of pools, generations, failures and
  restarts.  The invariant says that the cache lags behind but never runs ahead
  (`CacheInv`), that a reconciliation that builds works for the pool that is there and one
  that tears down has read a deleting one (`WorkInv`), that a
  reconciliation past `stopManager` or `stopUpdater` has an empty registry (`StopInv`),
  that cached and current copies of one pool have one target and a process that of its
  pool (`TargetInv`), and the shape of idle records (`ShapeInv`).  The heart is that removing the finalizer needs
  an up-to-date version, which is a deleting one, while every start of a process belongs
  to a reconciliation of a live one.  `ControllerQuietMeansServed` is about a work queue that may drop a
  request only if another one follows: a reconciliation works on what the cache shows, or a request
  is queued (`FreshInv`); each of its steps has done what the next one relies on, or a
  request is queued (`BuiltInv`); and with no request left, what the cache shows has been
  built (`RestInv`).
* **SlackAgentProofs**: `AgentTypeCorrect`, `AgentWithinLimit`, `AgentUndoneOnlyByRace` and
  `AgentNoClickIsLost`, for all durations and any number of pods, agents, clicks and deliveries.
  The time a handler is about to store is within the limit when it is worked out, and the clock
  only moves on; it is not before the one the handler has read, unless the limit cuts it
  (`HandlerInv`); what waits in a channel are clicks (`InboxInv`); the manager stores one only if it has
  read none (`VisitInv`); and an event that was delivered and not answered is in some agent's hands or
  channel, until a failing call or a pod that is gone makes a process end (`DeliveryInv`).
* **RunnerListingProofs**: `ListingTypeCorrect`, `ListingMissedAtMostGone`,
  `ListingTwiceOnlyIfJoined`, `ListingStopRemovesAll`, `ListingForeignRunnersAreKept` and
  `ListingBusyPodIsKept`, for any number of runners and any page size.  Places are distinct
  (`HubInv`); the runners that were there from the beginning, lie on the pages fetched and
  are not in the list number at most the ones that have left, since a runner that leaves
  moves at most one across the end of the last page (`ListInv`, an argument of
  cardinalities).  `BusyInv` says that a runner that was busy at the start does not become busy
  again, `RemovalInv` that a stopping manager still has every runner it did not miss before it.

The type invariants are proved and not checked by a run.

### Only model-checked

Every safety property that a passing run checks is also a theorem.  Liveness under fairness
(`RestartedPodGoesStale`, `FinishedJobIsPublished`, `FinishedPodIsRemoved`,
`OrphanRunnerIsRemoved`, `SecretIsFilled`, `PoolIsServed`, `DeletedPoolGoes`, `FinishedPodGoes`,
`ListingEnds`) is beyond the prover and rests on the runs.  The hypotheses `FixedSize`,
`AlwaysDeny`, `AlwaysNotify` and `FixedExtension` are satisfied by the specs of the runs that
check the property in question; without them the properties do not hold, as a spec that
changes does not undo what was done under the old one.

## 5. What the properties do not say

* An announcement may be lost when a call fails: the code logs the error and
  `lastCheckTime` has moved on.  That is by design, and no property forbids it.
* `UnlinkedWithinMax` is about the largest room any installed spec gives: after
  the spec has shrunk, pods that were unlinked before stay.
* `FailedPodIsKept` is about pods no user has touched: a Delete click is meant to end
  them early, and an extension made during a pass is not seen by it (`stale_visit`).
* `UndoneOnlyByRace` does not forbid that a Delete or an extension is undone; it says by
  whom.  With an `extendDuration` above six hours the limit makes Extend shorten a pod's life.
* `FinishedPodGoes` ends with the pool: nobody lists the unlinked pods of a pool that is deleted
  for good, and they stay until a pool of the same name is created.
* `OnlyDueTokensAreReplaced` does not forbid that a good token is replaced: a round that starts a second
  after a patch and reads a cache that does not show it yet does so.
* `LabelMeansBudget` says nothing of pods without the label: one that was unlinked while
  `denyDisruption` was off has no budget until a pass meets it after it was turned on.
* When a call has failed or a clicked pod is gone, `NoClickIsLost` only says that what is
  acknowledged was answered: the process that ends may take all deliveries of a click along.
* `NoClickIsLost` is about clicks that are answered, whether the answer is that the deletion time
  was stored or that it was not.

## 6. Plan

Done: the pod, the manager's pass, the token loop, the reconciler with its registries and
webhooks, the Slack agent, the listing of runners.  What would be worth adding:

1. **RunnerManager with a lagging informer**: what remains of `UnlinkedWithinMax` when the
   list of pods may be older than the last unlinking.
2. **Composition** of the manager with the pod module: the manager's pods as an instance of
   `PodLifecycle`.
   Start and restart are one step there and two in `PodLifecycle`, so this needs finer
   steps of the pods first.

## 7. Not modelled

* **Metrics** (`metrics/`): output only; nothing reads them.
* **`meows` command line** (`cmd/meows`): one-shot commands for operators, without state.
* **Generated code, API registration, constants**.
* **The rules of the validation** other than the one on the target, and the credentials and
  transports of the GitHub client: pure or pure I/O; a rejected request changes nothing.
* **Informer lag of the pod list** in `RunnerManager`: how far the cache may lag is up to the
  library, and with no bound on it the code gives no bound on unlinked pods.
* **Development mode of the Slack agent**: it stores nothing and answers at random.
* **Leader election, flags, health checks** of the controller: library code.  One controller is
  taken to be active at a time.
* **Texts** of Slack messages, job information: no decision depends on them.
