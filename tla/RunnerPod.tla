------------------------------ MODULE RunnerPod ------------------------------
(***************************************************************************)
(* One runner pod: the Go program of runner/runner.go and                  *)
(* runner/listener.go, which boots in the runner container, drives the     *)
(* GitHub Actions listener and serves GET /status and PUT /deletion_time.  *)
(*                                                                         *)
(* Durable: the flag files in the pod's emptyDir.  Volatile: the fields of *)
(* Runner, lost whenever the container restarts.  The container may die    *)
(* between any two steps; the kubelet then restarts it.                    *)
(*                                                                         *)
(* External, modelled from its use: the Actions listener (exit codes), the *)
(* job it runs (it touches flag files through the job scripts), GitHub's   *)
(* registration of an --ephemeral runner (one job at most) and the kubelet.*)
(*                                                                         *)
(* Left out: prometheus metrics, log lines, the contents of the job        *)
(* information, requests the handlers reject without touching the Runner.  *)
(***************************************************************************)
EXTENDS Naturals, FiniteSets

CONSTANTS
    Nil,            \* nil pointer / empty string
    MaxTime,        \* bound: clock
    PutTimes        \* deletion times clients send

ASSUME PodAssumption ==
    /\ MaxTime \in Nat
    /\ PutTimes \subseteq Nat

\* Nil is no time, flag, state, result or other value of a status field.
ASSUME NilAssumption ==
    /\ Nil \notin Nat
    /\ Nil \notin BOOLEAN
    /\ Nil \notin {"initializing", "running", "debugging", "stale",
                   "success", "failure", "cancelled", "unknown"}

VARIABLES
    files,          \* files under /var/meows (emptyDir: survives restarts)
    pc,             \* where runListener is; "down" when no process runs
    mem,            \* the mutex-protected fields of Runner
    found,          \* locals of updateToDebuggingState, before the lock
    now,            \* wall clock
    reg,            \* GitHub: "none", "idle", "busy" or "done"
    claim,          \* history: who created the started flag: nobody ("free"),
                    \* this incarnation ("mine") or an earlier one ("spent")
    setups, jobs,   \* history: executions of the setup command, jobs taken
    failed          \* history: the job has touched "failure" while it ran

vars == <<files, pc, mem, found, now, reg, claim, setups, jobs, failed>>

FlagFiles == {"started", "extend", "failure", "cancelled", "success"}
InfoFiles == {"github.env", "slack_channel"}

Results == {"success", "failure", "cancelled", "unknown"}
States == {"initializing", "running", "debugging", "stale"}
Steps == {"down", "begin", "claimed", "setup", "token", "configure",
          "configured", "listen", "sleep", "collect", "publish", "wait"}

\* Runner as NewRunner leaves it.
NewRunner ==
    [state |-> Nil, result |-> Nil, finishedAt |-> Nil, deletionTime |-> Nil,
     extend |-> Nil, jobInfo |-> Nil, slackChannel |-> Nil]

NotFound == [result |-> Nil, finishedAt |-> Nil, extend |-> Nil]

Init ==
    /\ files = {}
    /\ pc = "begin"
    /\ mem = NewRunner
    /\ found = NotFound
    /\ now = 0
    /\ reg = "none"
    /\ claim = "free"
    /\ setups = 0
    /\ jobs = 0
    /\ failed = FALSE

-----------------------------------------------------------------------------
(* Faulty variants of the actions below.  Each one breaks a property of    *)
(* this module; they are used to check that the properties can fail.       *)

\* The flag is not written.
CreateStartedFlagNoFile ==
    /\ pc = "begin" /\ "started" \notin files
    /\ claim' = "mine"
    /\ pc' = "claimed"
    /\ UNCHANGED <<files, mem, found, now, reg, setups, jobs, failed>>

\* The flag is created without looking for it first.
CreateStartedFlagUnchecked ==
    /\ pc = "begin"
    /\ files' = files \cup {"started"}
    /\ claim' = IF claim = "free" THEN "mine" ELSE claim
    /\ pc' = "claimed"
    /\ UNCHANGED <<mem, found, now, reg, setups, jobs, failed>>

\* The stale branch forgets to update the state.
FindStaleSilently ==
    /\ pc = "begin" /\ "started" \in files
    /\ pc' = "wait"
    /\ UNCHANGED <<files, mem, found, now, reg, claim, setups, jobs, failed>>

\* The state becomes "debugging" before the result is collected.
ListenerSucceedsEarlyState ==
    /\ pc = "listen" /\ reg # "busy"
    /\ mem' = [mem EXCEPT !.state = "debugging"]
    /\ pc' = "collect"
    /\ UNCHANGED <<files, found, now, reg, claim, setups, jobs, failed>>

\* The success flag is looked at first.
ResultOfSuccessFirst(fs) ==
    IF "success" \in fs THEN "success"
    ELSE IF "failure" \in fs THEN "failure"
    ELSE IF "cancelled" \in fs THEN "cancelled" ELSE "unknown"

\* The result is stored but the state is not changed.
PublishResultNoState ==
    /\ pc = "publish"
    /\ mem' = [mem EXCEPT !.result = found.result, !.finishedAt = found.finishedAt,
                          !.extend = found.extend]
    /\ pc' = "wait"
    /\ UNCHANGED <<files, found, now, reg, claim, setups, jobs, failed>>

\* Storing a deletion time also touches the finish time.
DeletionTimeHandlerTouchesFinish(t) ==
    /\ pc # "down"
    /\ mem' = [mem EXCEPT !.deletionTime = t, !.finishedAt = now]
    /\ UNCHANGED <<files, pc, found, now, reg, claim, setups, jobs, failed>>

\* Collecting the result already switches the state.
CollectResultEarlyState ==
    /\ pc = "collect"
    /\ found' = [result |-> "unknown", finishedAt |-> now, extend |-> FALSE]
    /\ mem' = [mem EXCEPT !.state = "debugging"]
    /\ pc' = "publish"
    /\ UNCHANGED <<files, now, reg, claim, setups, jobs, failed>>

-----------------------------------------------------------------------------
(* The process leaves: memory is gone, files stay.  A job that was running *)
(* dies with the container.                                                *)

Exit ==
    /\ pc' = "down"
    /\ mem' = NewRunner
    /\ found' = NotFound
    /\ reg' = IF reg = "busy" THEN "done" ELSE reg
    /\ claim' = IF claim = "mine" THEN "spent" ELSE claim

Crash ==
    /\ pc # "down"
    /\ Exit
    /\ UNCHANGED <<files, now, setups, jobs, failed>>

RestartContainer ==
    /\ pc = "down"
    /\ pc' = "begin"
    /\ UNCHANGED <<files, mem, found, now, reg, claim, setups, jobs, failed>>

-----------------------------------------------------------------------------
(* runListener *)

\* The started flag was left by an earlier incarnation: never work again.
FindStale ==
    /\ pc = "begin" /\ "started" \in files
    /\ mem' = [mem EXCEPT !.state = "stale"]
    /\ pc' = "wait"
    /\ UNCHANGED <<files, found, now, reg, claim, setups, jobs, failed>>

CreateStartedFlag ==
    /\ pc = "begin" /\ "started" \notin files
    /\ files' = files \cup {"started"}
    /\ claim' = "mine"
    /\ pc' = "claimed"
    /\ UNCHANGED <<mem, found, now, reg, setups, jobs, failed>>

\* os.Create fails: the process ends without having claimed the pod.
CreateStartedFlagFails ==
    /\ pc = "begin" /\ "started" \notin files
    /\ Exit
    /\ UNCHANGED <<files, now, setups, jobs, failed>>

EnterInitializing ==
    /\ pc = "claimed"
    /\ mem' = [mem EXCEPT !.state = "initializing"]
    /\ pc' = "setup"
    /\ UNCHANGED <<files, found, now, reg, claim, setups, jobs, failed>>

RunSetupCommand ==
    /\ pc = "setup"
    /\ setups' = setups + 1
    /\ \/ pc' = "token" /\ UNCHANGED <<mem, found, reg, claim>>
       \/ Exit
    /\ UNCHANGED <<files, now, jobs, failed>>

\* The token comes from a mounted secret, which may not be there.
ReadToken ==
    /\ pc = "token"
    /\ \/ pc' = "configure" /\ UNCHANGED <<mem, found, reg, claim>>
       \/ Exit
    /\ UNCHANGED <<files, now, setups, jobs, failed>>

\* config.sh --replace --ephemeral registers the runner, or fails (e.g.
\* because the token has expired).
Configure ==
    /\ pc = "configure"
    /\ \/ pc' = "configured" /\ reg' = "idle" /\ UNCHANGED <<mem, found, claim>>
       \/ Exit
    /\ UNCHANGED <<files, now, setups, jobs, failed>>

EnterRunning ==
    /\ pc = "configured"
    /\ mem' = [mem EXCEPT !.state = "running"]
    /\ pc' = "listen"
    /\ UNCHANGED <<files, found, now, reg, claim, setups, jobs, failed>>

\* What listen does with the outcome of one Runner.Listener process.  An
\* ephemeral listener exits successfully once its job is over, or without
\* having had one.
ListenerSucceeds ==
    /\ pc = "listen" /\ reg # "busy"
    /\ pc' = "collect"
    /\ UNCHANGED <<files, mem, found, now, reg, claim, setups, jobs, failed>>

\* Exit code 1, or a listener that could not be started at all.
ListenerTerminates ==
    /\ pc = "listen"
    /\ Exit
    /\ UNCHANGED <<files, now, setups, jobs, failed>>

\* Any other exit code: launch it again 10 seconds later.
ListenerToBeRelaunched ==
    /\ pc = "listen"
    /\ pc' = "sleep"
    /\ UNCHANGED <<files, mem, found, now, reg, claim, setups, jobs, failed>>

RelaunchListener ==
    /\ pc = "sleep"
    /\ pc' = "listen"
    /\ UNCHANGED <<files, mem, found, now, reg, claim, setups, jobs, failed>>

\* The first half of updateToDebuggingState: flags are looked at and the
\* finish time is taken before the lock.
ResultOf(fs) ==
    CASE "failure" \in fs   -> "failure"
      [] "failure" \notin fs /\ "cancelled" \in fs -> "cancelled"
      [] fs \cap {"failure", "cancelled"} = {} /\ "success" \in fs -> "success"
      [] OTHER -> "unknown"

CollectResult ==
    /\ pc = "collect"
    /\ found' = [result |-> ResultOf(files), finishedAt |-> now,
                 extend |-> "extend" \in files]
    /\ pc' = "publish"
    /\ UNCHANGED <<files, mem, now, reg, claim, setups, jobs, failed>>

\* The second half: job information and Slack channel are read, then all
\* fields change under one lock.
PublishResult ==
    /\ pc = "publish"
    /\ mem' = [mem EXCEPT
          !.state = "debugging",
          !.result = found.result,
          !.finishedAt = found.finishedAt,
          !.extend = found.extend,
          !.jobInfo = IF "github.env" \in files THEN "info" ELSE Nil,
          !.slackChannel = IF "slack_channel" \in files THEN "channel" ELSE Nil]
    /\ pc' = "wait"
    /\ UNCHANGED <<files, found, now, reg, claim, setups, jobs, failed>>

-----------------------------------------------------------------------------
(* The HTTP server *)

\* deletionTimeHandler does not look at the state.
DeletionTimeHandler(t) ==
    /\ pc # "down"
    /\ mem' = [mem EXCEPT !.deletionTime = t]
    /\ UNCHANGED <<files, pc, found, now, reg, claim, setups, jobs, failed>>

\* statusHandler copies the fields under the lock; the encoder then omits
\* the empty ones.  These are the keys of the reply.
StatusKeys == {k \in DOMAIN mem : mem[k] # Nil}

-----------------------------------------------------------------------------
(* Environment: the job and the clock *)

StartJob ==
    /\ pc = "listen" /\ reg = "idle"
    /\ reg' = "busy"
    /\ jobs' = jobs + 1
    /\ UNCHANGED <<files, pc, mem, found, now, claim, setups, failed>>

\* A workflow step runs job-started or one of job-success, job-failure and
\* job-cancelled; job-failure touches "extend" after "failure".  The scripts
\* stay within reach when the job is over, of a process that it has left behind
\* and of a user who debugs the pod.
TouchFile(f) ==
    /\ pc # "down" /\ reg \in {"busy", "done"} /\ f \notin files
    /\ f = "extend" => "failure" \in files
    /\ files' = files \cup {f}
    /\ failed' = (failed \/ (f = "failure" /\ reg = "busy"))
    /\ UNCHANGED <<pc, mem, found, now, reg, claim, setups, jobs>>

EndJob ==
    /\ pc # "down" /\ reg = "busy"
    /\ reg' = "done"
    /\ UNCHANGED <<files, pc, mem, found, now, claim, setups, jobs, failed>>

Tick ==
    /\ now < MaxTime
    /\ now' = now + 1
    /\ UNCHANGED <<files, pc, mem, found, reg, claim, setups, jobs, failed>>

-----------------------------------------------------------------------------

RunListener ==
    \/ FindStale \/ CreateStartedFlag \/ CreateStartedFlagFails
    \/ EnterInitializing \/ RunSetupCommand \/ ReadToken \/ Configure
    \/ EnterRunning \/ RelaunchListener \/ CollectResult \/ PublishResult

Listener == ListenerSucceeds \/ ListenerTerminates \/ ListenerToBeRelaunched

Next ==
    \/ RunListener
    \/ Listener
    \/ Crash
    \/ RestartContainer
    \/ \E t \in PutTimes : DeletionTimeHandler(t)
    \/ StartJob
    \/ \E f \in (FlagFiles \cup InfoFiles) \ {"started"} : TouchFile(f)
    \/ EndJob
    \/ Tick

\* The goroutine makes progress and the kubelet restarts a container.
Fairness == WF_vars(RunListener) /\ WF_vars(RestartContainer)

Spec == Init /\ [][Next]_vars
FairSpec == Spec /\ Fairness

-----------------------------------------------------------------------------
(* Properties *)

\* Every variable keeps its type.
TypeOK ==
    /\ files \subseteq FlagFiles \cup InfoFiles
    /\ pc \in Steps
    /\ mem \in [state : States \cup {Nil}, result : Results \cup {Nil},
                finishedAt : Nat \cup {Nil}, deletionTime : Nat \cup {Nil},
                extend : BOOLEAN \cup {Nil}, jobInfo : {"info", Nil},
                slackChannel : {"channel", Nil}]
    /\ found \in [result : Results \cup {Nil}, finishedAt : Nat \cup {Nil},
                  extend : BOOLEAN \cup {Nil}]
    /\ now \in Nat
    /\ reg \in {"none", "idle", "busy", "done"}
    /\ claim \in {"free", "mine", "spent"}
    /\ setups \in Nat
    /\ jobs \in Nat
    /\ failed \in BOOLEAN

\* The steps of runListener after the started flag and before the end.
Working == {"claimed", "setup", "token", "configure", "configured", "listen",
            "sleep", "collect", "publish"}

\* A pod runs its setup command at most once and serves at most one job,
\* however often and wherever its container dies: the started flag is
\* created before anything else is done (runner.go, runListener).
ServesOnce == setups <= 1 /\ jobs <= 1

\* Only the incarnation that created the started flag ever works: one that
\* finds a used environment reports "stale" and nothing else.
OnlyCreatorWorks ==
    /\ pc \in Working => claim = "mine"
    /\ mem.state \in {"initializing", "running", "debugging"} => claim = "mine"
    /\ mem.state = "stale" => claim = "spent"

\* A reply that says "debugging" carries result, finish time and extension
\* flag: the encoder omits none of them.  The controller dereferences the
\* finish time without a check, and takes a missing extension flag for "no"
\* (runner_manager.go, maintainRunnerPods).
DebuggingIsComplete ==
    mem.state = "debugging" => {"result", "finishedAt", "extend"} \subseteq StatusKeys

\* A job that recorded a failure while it ran is reported as failed, also
\* when other flag files were left by earlier or later steps, or by processes
\* that outlive it.
FailureIsReported ==
    mem.state = "debugging" /\ failed => mem.result = "failure"

\* Once the server answers "debugging", the verdict and the finish time do
\* not change until the container restarts, whatever flags are touched and
\* deletion times are stored afterwards.  The controller compares the
\* finish time with its last check in every pass and counts on that.
VerdictIsStable ==
    [][mem.state = "debugging" =>
          \/ /\ mem'.state = "debugging"
             /\ mem'.result = mem.result
             /\ mem'.finishedAt = mem.finishedAt
             /\ mem'.extend = mem.extend
          \/ mem' = NewRunner]_vars

\* A used pod whose container died and restarted reports "stale" (or dies
\* again), so that the controller can replace it.
RestartedPodGoesStale ==
    (pc = "begin" /\ "started" \in files) ~> (mem.state = "stale" \/ pc = "down")

\* A listener that ended well leads to a debugging status, unless the
\* container dies first.
FinishedJobIsPublished ==
    pc = "collect" ~> (mem.state = "debugging" \/ pc = "down")

\* The status seen by clients implements the abstract life cycle.
Abstract == INSTANCE PodLifecycle WITH
    Times <- PutTimes,
    status <- [state |-> mem.state, result |-> mem.result,
               finishedAt |-> mem.finishedAt,
               deletionTime |-> mem.deletionTime, extend |-> mem.extend]

\* Every behaviour of the pod is one of the abstract life cycle: a later
\* incarnation can only answer "stale", a verdict appears in one step.
ImplementsLifecycle == Abstract!LifeSpec

=============================================================================
