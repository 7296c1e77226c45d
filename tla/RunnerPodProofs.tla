-------------------------- MODULE RunnerPodProofs --------------------------
(***************************************************************************)
(* Proofs about RunnerPod: type correctness, at most one setup and one job *)
(* per pod over any number of container restarts, completeness of a        *)
(* "debugging" status, and the implementation of PodLifecycle.             *)
(***************************************************************************)
EXTENDS RunnerPod, TLAPS

-----------------------------------------------------------------------------
(* The inductive invariant relates the durable flag, the position of the   *)
(* goroutine and the published state.                                      *)

\* The started flag is on disk exactly when some incarnation claimed the pod.
FlagInv == "started" \in files <=> claim # "free"

\* Only the claiming incarnation is past the check of the flag.
ClaimInv ==
    /\ pc \in Working => claim = "mine"
    /\ pc \in {"down", "begin"} => claim # "mine"
    /\ pc = "wait" => claim # "free"

\* The published state follows the position of the goroutine.
StateInv ==
    /\ pc \in {"down", "begin", "claimed"} => mem.state = Nil
    /\ pc \in {"setup", "token", "configure", "configured"} => mem.state = "initializing"
    /\ pc \in {"listen", "sleep", "collect", "publish"} => mem.state = "running"
    /\ pc = "wait" => mem.state = IF claim = "mine" THEN "debugging" ELSE "stale"

\* Setup and registration have not happened before their place in the code.
CountInv ==
    /\ setups <= 1
    /\ claim = "free" \/ pc \in {"claimed", "setup"} => setups = 0
    /\ claim = "free" \/ pc \in {"claimed", "setup", "token", "configure"} => reg = "none"
    /\ jobs <= 1
    /\ reg \in {"none", "idle"} => jobs = 0
    /\ reg = "busy" => pc \in {"listen", "sleep"}

\* What was collected is complete when it is published, and afterwards.
FoundInv ==
    /\ failed => "failure" \in files
    /\ pc = "publish" => /\ found.result \in Results
                         /\ found.finishedAt \in 0 .. now
                         /\ found.extend \in BOOLEAN
                         /\ failed => found.result = "failure"
    /\ mem.state = "debugging" => /\ mem.result \in Results
                                  /\ mem.finishedAt \in Nat
                                  /\ mem.extend \in BOOLEAN
                                  /\ failed => mem.result = "failure"

PodInv == TypeOK /\ FlagInv /\ ClaimInv /\ StateInv /\ CountInv /\ FoundInv

-----------------------------------------------------------------------------

\* The precedence of the flag files: a failure flag decides the result.
LEMMA ResultOfLemma ==
    ASSUME NEW fs
    PROVE  /\ ResultOf(fs) \in Results
           /\ "failure" \in fs => ResultOf(fs) = "failure"
  BY DEF ResultOf, Results

\* The initial state satisfies the invariant.
LEMMA PodInit == Init => PodInv
  <1> SUFFICES ASSUME Init PROVE PodInv
    OBVIOUS
  <1>1. failed = FALSE /\ failed \in BOOLEAN BY DEF Init
  <1> QED
    BY <1>1, NilAssumption
    DEF Init, PodInv, TypeOK, FlagInv, ClaimInv, StateInv, CountInv, FoundInv,
        NewRunner, NotFound, Steps, Working, FlagFiles, InfoFiles

\* The type invariant is preserved by every step.
LEMMA TypeStep == TypeOK /\ [Next]_vars => TypeOK'
  <1> SUFFICES ASSUME TypeOK, [Next]_vars PROVE TypeOK'
    OBVIOUS
  <1> USE PodAssumption DEF TypeOK, Steps, States, FlagFiles, InfoFiles
  <1>1. CASE RunListener
    <2>1. CASE FindStale BY <2>1 DEF FindStale
    <2>2. CASE CreateStartedFlag BY <2>2 DEF CreateStartedFlag
    <2>3. CASE CreateStartedFlagFails
      BY <2>3 DEF CreateStartedFlagFails, Exit, NewRunner, NotFound
    <2>4. CASE EnterInitializing BY <2>4 DEF EnterInitializing
    <2>5. CASE RunSetupCommand BY <2>5 DEF RunSetupCommand, Exit, NewRunner, NotFound
    <2>6. CASE ReadToken BY <2>6 DEF ReadToken, Exit, NewRunner, NotFound
    <2>7. CASE Configure BY <2>7 DEF Configure, Exit, NewRunner, NotFound
    <2>8. CASE EnterRunning BY <2>8 DEF EnterRunning
    <2>9. CASE RelaunchListener BY <2>9 DEF RelaunchListener
    <2>10. CASE CollectResult
      <3>1. ResultOf(files) \in Results BY ResultOfLemma
      <3>2. ("extend" \in files) \in BOOLEAN OBVIOUS
      <3> QED BY <2>10, <3>1, <3>2 DEF CollectResult
    <2>11. CASE PublishResult
      <3> DEFINE info == IF "github.env" \in files THEN "info" ELSE Nil
                 chan == IF "slack_channel" \in files THEN "channel" ELSE Nil
      <3>1. /\ found.result \in Results \cup {Nil}
            /\ found.finishedAt \in Nat \cup {Nil}
            /\ found.extend \in BOOLEAN \cup {Nil}
            /\ info \in {"info", Nil}
            /\ chan \in {"channel", Nil}
        OBVIOUS
      <3>2. mem' = [mem EXCEPT !.state = "debugging", !.result = found.result,
                      !.finishedAt = found.finishedAt, !.extend = found.extend,
                      !.jobInfo = info, !.slackChannel = chan]
        BY <2>11 DEF PublishResult
      <3> HIDE DEF info, chan
      <3>3. mem' \in [state : States \cup {Nil}, result : Results \cup {Nil},
                      finishedAt : Nat \cup {Nil}, deletionTime : Nat \cup {Nil},
                      extend : BOOLEAN \cup {Nil}, jobInfo : {"info", Nil},
                      slackChannel : {"channel", Nil}]
        BY <3>1, <3>2
      <3> QED BY <2>11, <3>3 DEF PublishResult
    <2> QED BY <1>1, <2>1, <2>2, <2>3, <2>4, <2>5, <2>6, <2>7, <2>8, <2>9, <2>10,
               <2>11 DEF RunListener
  <1>2. CASE Listener
    <2>1. CASE ListenerSucceeds BY <2>1 DEF ListenerSucceeds
    <2>2. CASE ListenerTerminates
      BY <2>2 DEF ListenerTerminates, Exit, NewRunner, NotFound
    <2>3. CASE ListenerToBeRelaunched BY <2>3 DEF ListenerToBeRelaunched
    <2> QED BY <1>2, <2>1, <2>2, <2>3 DEF Listener
  <1>3. CASE Crash BY <1>3 DEF Crash, Exit, NewRunner, NotFound
  <1>4. CASE RestartContainer BY <1>4 DEF RestartContainer
  <1>5. ASSUME NEW t \in PutTimes, DeletionTimeHandler(t) PROVE TypeOK'
    BY <1>5 DEF DeletionTimeHandler
  <1>6. CASE StartJob BY <1>6 DEF StartJob
  <1>7. ASSUME NEW f \in (FlagFiles \cup InfoFiles) \ {"started"}, TouchFile(f)
        PROVE TypeOK'
    BY <1>7 DEF TouchFile
  <1>8. CASE EndJob BY <1>8 DEF EndJob
  <1>9. CASE Tick BY <1>9 DEF Tick
  <1>10. CASE UNCHANGED vars BY <1>10 DEF vars
  <1> QED BY <1>1, <1>2, <1>3, <1>4, <1>5, <1>6, <1>7, <1>8, <1>9, <1>10 DEF Next

\* The rest of the invariant is preserved by every step.
LEMMA PodStep == PodInv /\ [Next]_vars => PodInv'
  <1> SUFFICES ASSUME PodInv, [Next]_vars PROVE PodInv'
    OBVIOUS
  <1>0. TypeOK'
    BY TypeStep DEF PodInv
  <1> SUFFICES (FlagInv /\ ClaimInv /\ StateInv /\ CountInv /\ FoundInv)'
    BY <1>0 DEF PodInv
  <1> USE PodAssumption, NilAssumption, <1>0
      DEF PodInv, TypeOK, FlagInv, ClaimInv, StateInv, CountInv, FoundInv,
          Steps, Working, FlagFiles, InfoFiles
  <1>1. CASE RunListener
    <2>1. CASE FindStale BY <2>1 DEF FindStale
    <2>2. CASE CreateStartedFlag BY <2>2 DEF CreateStartedFlag
    <2>3. CASE CreateStartedFlagFails
      BY <2>3 DEF CreateStartedFlagFails, Exit, NewRunner, NotFound
    <2>4. CASE EnterInitializing BY <2>4 DEF EnterInitializing
    <2>5. CASE RunSetupCommand BY <2>5 DEF RunSetupCommand, Exit, NewRunner, NotFound
    <2>6. CASE ReadToken BY <2>6 DEF ReadToken, Exit, NewRunner, NotFound
    <2>7. CASE Configure BY <2>7 DEF Configure, Exit, NewRunner, NotFound
    <2>8. CASE EnterRunning BY <2>8 DEF EnterRunning
    <2>9. CASE RelaunchListener BY <2>9 DEF RelaunchListener
    <2>10. CASE CollectResult BY <2>10, ResultOfLemma DEF CollectResult
    <2>11. CASE PublishResult BY <2>11 DEF PublishResult
    <2> QED BY <1>1, <2>1, <2>2, <2>3, <2>4, <2>5, <2>6, <2>7, <2>8, <2>9, <2>10,
               <2>11 DEF RunListener
  <1>2. CASE Listener
    <2>1. CASE ListenerSucceeds BY <2>1 DEF ListenerSucceeds
    <2>2. CASE ListenerTerminates
      BY <2>2 DEF ListenerTerminates, Exit, NewRunner, NotFound
    <2>3. CASE ListenerToBeRelaunched BY <2>3 DEF ListenerToBeRelaunched
    <2> QED BY <1>2, <2>1, <2>2, <2>3 DEF Listener
  <1>3. CASE Crash BY <1>3 DEF Crash, Exit, NewRunner, NotFound
  <1>4. CASE RestartContainer BY <1>4 DEF RestartContainer
  <1>5. ASSUME NEW t \in PutTimes, DeletionTimeHandler(t)
        PROVE (FlagInv /\ ClaimInv /\ StateInv /\ CountInv /\ FoundInv)'
    BY <1>5 DEF DeletionTimeHandler
  <1>6. CASE StartJob BY <1>6 DEF StartJob
  <1>7. ASSUME NEW f \in (FlagFiles \cup InfoFiles) \ {"started"}, TouchFile(f)
        PROVE (FlagInv /\ ClaimInv /\ StateInv /\ CountInv /\ FoundInv)'
    BY <1>7 DEF TouchFile
  <1>8. CASE EndJob BY <1>8 DEF EndJob
  <1>9. CASE Tick BY <1>9 DEF Tick
  <1>10. CASE UNCHANGED vars BY <1>10 DEF vars
  <1> QED BY <1>1, <1>2, <1>3, <1>4, <1>5, <1>6, <1>7, <1>8, <1>9, <1>10 DEF Next

\* PodInv is an invariant of the specification.
THEOREM PodInvariance == Spec => []PodInv
  BY PodInit, PodStep, PTL DEF Spec

\* Every variable of the pod keeps its type.
THEOREM PodTypeCorrect == Spec => []TypeOK
  BY PodInvariance, PTL DEF PodInv

\* At most one setup and one job per pod, however often the container dies.
THEOREM PodServesOnce == Spec => []ServesOnce
  <1>1. PodInv => ServesOnce BY DEF PodInv, CountInv, ServesOnce
  <1> QED BY PodInvariance, <1>1, PTL

\* Only the incarnation that created the started flag ever works.
THEOREM PodOnlyCreatorWorks == Spec => []OnlyCreatorWorks
  <1>1. PodInv => OnlyCreatorWorks
    BY NilAssumption DEF PodInv, TypeOK, ClaimInv, StateInv, OnlyCreatorWorks, Steps, Working
  <1> QED BY PodInvariance, <1>1, PTL

\* A "debugging" status is complete: whoever reads it finds the whole verdict.
THEOREM PodDebuggingIsComplete == Spec => []DebuggingIsComplete
  <1>1. PodInv => DebuggingIsComplete
    BY NilAssumption DEF PodInv, TypeOK, FoundInv, DebuggingIsComplete, StatusKeys, Results
  <1> QED BY PodInvariance, <1>1, PTL

\* A failure that the job has recorded is reported, whatever other flags exist.
THEOREM PodFailureIsReported == Spec => []FailureIsReported
  <1>1. PodInv => FailureIsReported
    BY NilAssumption
       DEF PodInv, TypeOK, FoundInv, DebuggingIsComplete, FailureIsReported, StatusKeys, Results
  <1> QED BY PodInvariance, <1>1, PTL

-----------------------------------------------------------------------------

\* Every step from a state of the invariant leaves a published verdict alone
\* or loses all of it with the process.
THEOREM PodVerdictIsStable == Spec => VerdictIsStable
  <1> DEFINE Stable == mem.state = "debugging" =>
                 \/ /\ mem'.state = "debugging"
                    /\ mem'.result = mem.result
                    /\ mem'.finishedAt = mem.finishedAt
                    /\ mem'.extend = mem.extend
                 \/ mem' = NewRunner
  <1>1. PodInv /\ [Next]_vars => [Stable]_vars
    <2> SUFFICES ASSUME PodInv, Next, mem.state = "debugging" PROVE Stable
      OBVIOUS
    <2>1. pc = "wait"
      BY NilAssumption DEF PodInv, TypeOK, StateInv, Steps
    <2> QED
      BY <2>1 DEF Next, RunListener, Listener, FindStale, CreateStartedFlag,
            CreateStartedFlagFails, EnterInitializing, RunSetupCommand,
            ReadToken, Configure, EnterRunning, RelaunchListener,
            CollectResult, PublishResult, ListenerSucceeds,
            ListenerTerminates, ListenerToBeRelaunched, Crash, Exit,
            RestartContainer, DeletionTimeHandler, StartJob, TouchFile,
            EndJob, Tick, PodInv, TypeOK
  <1> QED BY <1>1, PodInvariance, PTL DEF Spec, VerdictIsStable

\* The pod's steps are steps of the abstract life cycle or leave it alone.
THEOREM PodImplementsLifecycle == Spec => ImplementsLifecycle
  <1> USE DEF Abstract!ZeroStatus, Abstract!lifeVars, NewRunner
  <1>1. Init => Abstract!LifeInit
    BY DEF Init, Abstract!LifeInit
  <1>2. PodInv /\ [Next]_vars => [Abstract!LifeNext]_(Abstract!lifeVars)
    <2> SUFFICES ASSUME PodInv, [Next]_vars
                 PROVE  Abstract!LifeNext \/ UNCHANGED Abstract!lifeVars
      OBVIOUS
    <2> USE DEF PodInv, TypeOK, ClaimInv, StateInv, Working
    <2>1. CASE FindStale
      BY <2>1 DEF FindStale, FlagInv, Abstract!LifeNext, Abstract!GoStale
    <2>2. CASE CreateStartedFlag
      BY <2>2 DEF CreateStartedFlag, FlagInv, Abstract!LifeNext, Abstract!Claim
    <2>3. ASSUME Exit, UNCHANGED now PROVE Abstract!Restart
      BY <2>3 DEF Exit, Abstract!Restart
    <2>4. CASE EnterInitializing
      BY <2>4 DEF EnterInitializing, Abstract!LifeNext, Abstract!Initialize
    <2>5. CASE EnterRunning
      BY <2>5 DEF EnterRunning, Abstract!LifeNext, Abstract!StartListening
    <2>6. CASE PublishResult
      <3>1. /\ found.result \in Abstract!JobResults
            /\ found.extend \in BOOLEAN
            /\ found.finishedAt \in 0 .. now
        BY <2>6 DEF PublishResult, FoundInv, Results, Abstract!JobResults
      <3> DEFINE st == [state |-> mem.state, result |-> mem.result,
                        finishedAt |-> mem.finishedAt,
                        deletionTime |-> mem.deletionTime, extend |-> mem.extend]
      <3>a. /\ mem'.state = "debugging"
            /\ mem'.result = found.result
            /\ mem'.finishedAt = found.finishedAt
            /\ mem'.extend = found.extend
            /\ mem'.deletionTime = mem.deletionTime
            /\ claim = "mine" /\ mem.state = "running"
            /\ UNCHANGED <<claim, now>>
        BY <2>6 DEF PublishResult
      <3>b. st' = [state |-> "debugging", result |-> found.result,
                   finishedAt |-> found.finishedAt,
                   deletionTime |-> mem.deletionTime, extend |-> found.extend]
        BY <3>a
      <3>c. st.state = "running" /\ st.deletionTime = mem.deletionTime
        BY <3>a
      <3>d. \E res \in Abstract!JobResults, ext \in BOOLEAN, at \in 0 .. now :
               st' = [state |-> "debugging", result |-> res, finishedAt |-> at,
                      deletionTime |-> st.deletionTime, extend |-> ext]
        BY <3>1, <3>b, <3>c, Zenon
      <3>2. Abstract!Finish
        BY <3>a, <3>c, <3>d, Zenon DEF Abstract!Finish
      <3> QED BY <3>2 DEF Abstract!LifeNext
    <2>7. ASSUME NEW t \in PutTimes, DeletionTimeHandler(t)
          PROVE Abstract!StoreDeletionTime
      BY <2>7 DEF DeletionTimeHandler, Abstract!StoreDeletionTime
    <2>8. CASE Tick
      BY <2>8 DEF Tick, Abstract!LifeNext, Abstract!LifeTick
    <2>9. CASE CreateStartedFlagFails \/ ListenerTerminates \/ Crash
      BY <2>3, <2>9 DEF CreateStartedFlagFails, ListenerTerminates, Crash, Abstract!LifeNext
    <2>10. CASE RunSetupCommand \/ ReadToken \/ Configure
      BY <2>3, <2>10 DEF RunSetupCommand, ReadToken, Configure, Abstract!LifeNext
    <2>11. CASE \/ RelaunchListener \/ CollectResult \/ ListenerSucceeds
                \/ ListenerToBeRelaunched \/ RestartContainer \/ StartJob \/ EndJob
                \/ UNCHANGED vars
      BY <2>11 DEF RelaunchListener, CollectResult, ListenerSucceeds,
            ListenerToBeRelaunched, RestartContainer, StartJob, EndJob, vars
    <2>12. ASSUME NEW f, TouchFile(f) PROVE UNCHANGED Abstract!lifeVars
      BY <2>12 DEF TouchFile
    <2> QED
      BY <2>1, <2>2, <2>4, <2>5, <2>6, <2>7, <2>8, <2>9, <2>10, <2>11, <2>12
      DEF Next, RunListener, Listener, Abstract!LifeNext
  <1> QED BY <1>1, <1>2, PodInvariance, PTL DEF Spec, ImplementsLifecycle, Abstract!LifeSpec

=============================================================================
