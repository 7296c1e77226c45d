------------------------ MODULE RunnerManagerProofs ------------------------
(***************************************************************************)
(* Proofs about RunnerManager for any set of pods, any set of              *)
(* configurations and any bounds: type correctness, that the pods outside  *)
(* the ReplicaSet stay within what some configuration allows, and that all *)
(* pods do if the configurations agree on it.                              *)
(***************************************************************************)
EXTENDS RunnerManager, FiniteSetTheorems, TLAPS

-----------------------------------------------------------------------------
(* Types.  A visit works on a pod, and every status that says "debugging"  *)
(* has a finish time: the code dereferences that pointer.                  *)

Visiting == {"post", "delete", "put", "protect", "relabel", "unlink"}

CurInv == pc \in Visiting => cur \in Pods

FinishInv ==
    /\ \A p \in Pods : st[p].state = "debugging" => st[p].finishedAt \in Int
    /\ status.state = "debugging" => status.finishedAt \in Int
    /\ pc \in {"post", "put"} => status.state = "debugging"

TypeInv == TypeOK /\ CurInv /\ FinishInv

\* The calls that may follow the reading of a status.
LEMMA AfterStatusType ==
    ASSUME NEW p, NEW s
    PROVE  /\ AfterDebugging(p, s) \in {"delete", "protect", "visit"}
           /\ AfterPost(p, s) \in {"delete", "put", "protect", "visit"}
           /\ AfterStatus(p, s) \in {"post", "delete", "put", "protect", "visit"}
           /\ AfterStatus(p, s) \in {"post", "put"} => s.state = "debugging"
           /\ AfterRelabel(p) \in {"visit", "unlink"}
  BY DEF AfterDebugging, AfterPost, AfterStatus, AfterRelabel

\* The initial states are typed.
LEMMA TypeInit == Init => TypeInv
  <1> SUFFICES ASSUME Init PROVE TypeInv
    OBVIOUS
  <1> USE DEF Init
  <1>1. TypeOK
    <2>1. NoPod \in PodRecords BY DEF NoPod, PodRecords, Phases
    <2>2. ZeroStatus \in Statuses BY DEF ZeroStatus, Statuses
    <2>3. NoSnap \in Snaps BY DEF NoSnap, Snaps
    <2> QED BY <2>1, <2>2, <2>3 DEF TypeOK, EnvTypeOK, ProcTypeOK, PassTypeOK, HistTypeOK,
               Calls, RunnerStates
  <1>2. CurInv /\ FinishInv
    BY NilAssumption DEF CurInv, FinishInv, Visiting, ZeroStatus
  <1> QED BY <1>1, <1>2 DEF TypeInv

\* The end of a pass leaves typed locals.
LEMMA PassEndsType ==
    ASSUME PassEnds
    PROVE  PassTypeOK' /\ CurInv' /\ pc' = "idle" /\ status'.state = Nil
           /\ busyAtStart' \subseteq Pods
  <1>1. NoPod \in PodRecords /\ ZeroStatus \in Statuses /\ NoSnap \in Snaps
    BY DEF NoPod, PodRecords, Phases, ZeroStatus, Statuses, NoSnap, Snaps
  <1>2. ZeroStatus.state = Nil BY DEF ZeroStatus
  <1> QED BY <1>1, <1>2 DEF PassEnds, PassTypeOK, CurInv, Visiting, RunnerStates, Calls

\* The end of a visit leaves typed locals.
LEMMA VisitEndsType ==
    ASSUME VisitEnds
    PROVE  /\ pc' = "visit" /\ cur' \in Pods \cup {Nil}
           /\ status' \in Statuses /\ status'.state = Nil
  BY DEF VisitEnds, ZeroStatus, Statuses

\* Going on with one of the next calls keeps the locals typed.
LEMMA ContinueType ==
    ASSUME NEW c \in Visiting \cup {"visit"}, NEW p \in Pods, NEW s \in Statuses,
           Continue(c, p, s)
    PROVE  /\ pc' = c /\ pc' \in Calls
           /\ cur' \in Pods \cup {Nil} /\ CurInv'
           /\ status' \in Statuses
           /\ c = "visit" => status'.state = Nil
           /\ c # "visit" => status' = s /\ cur' = p
  BY VisitEndsType DEF Continue, CurInv, Visiting, Calls, VisitEnds

-----------------------------------------------------------------------------

\* A call works or fails: the count of failures stays a number.
LEMMA FailureType ==
    ASSUME failures \in Nat, Works \/ Fails
    PROVE  failures' \in Nat
  BY DEF Works, Fails

\* Updates of one field of a pod keep the type of the pods.
LEMMA PodUpdateType ==
    ASSUME NEW f \in [Pods -> PodRecords], NEW p \in Pods
    PROVE  /\ [f EXCEPT ![p].hash = FALSE] \in [Pods -> PodRecords]
           /\ [f EXCEPT ![p].name = TRUE] \in [Pods -> PodRecords]
           /\ [f EXCEPT ![p].pdb = TRUE] \in [Pods -> PodRecords]
           /\ \A ph \in Phases : [f EXCEPT ![p].phase = ph] \in [Pods -> PodRecords]
  <1>1. f[p] \in PodRecords OBVIOUS
  <1>2. /\ [f[p] EXCEPT !.hash = FALSE] \in PodRecords
        /\ [f[p] EXCEPT !.name = TRUE] \in PodRecords
        /\ [f[p] EXCEPT !.pdb = TRUE] \in PodRecords
        /\ \A ph \in Phases : [f[p] EXCEPT !.phase = ph] \in PodRecords
    BY <1>1, Zenon DEF PodRecords
  <1> QED BY <1>2

\* Updates of a status keep the type of the statuses.
LEMMA StatusUpdateType ==
    ASSUME NEW f \in [Pods -> Statuses], NEW p \in Pods
    PROVE  /\ \A t \in Int : [f EXCEPT ![p].deletionTime = t] \in [Pods -> Statuses]
           /\ \A x \in PodStates : [f EXCEPT ![p].state = x] \in [Pods -> Statuses]
           /\ \A t \in Int, e \in BOOLEAN :
                 [f EXCEPT ![p].state = "debugging", ![p].finishedAt = t, ![p].extend = e]
                    \in [Pods -> Statuses]
           /\ [ZeroStatus EXCEPT !.state = "stale"] \in Statuses
  <1>1. f[p] \in Statuses OBVIOUS
  <1>2. \A t \in Int : [f[p] EXCEPT !.deletionTime = t] \in Statuses
    BY <1>1, Zenon DEF Statuses
  <1>3. \A x \in PodStates : [f[p] EXCEPT !.state = x] \in Statuses
    BY <1>1, Zenon DEF Statuses
  <1>4. ASSUME NEW t \in Int, NEW e \in BOOLEAN
        PROVE  [f EXCEPT ![p].state = "debugging", ![p].finishedAt = t, ![p].extend = e]
                  \in [Pods -> Statuses]
    <2>1. "debugging" \in PodStates BY DEF PodStates
    <2> DEFINE new == [[[f[p] EXCEPT !.state = "debugging"] EXCEPT !.finishedAt = t]
                        EXCEPT !.extend = e]
    <2>2. new \in Statuses BY <1>1, <1>4, <2>1, Zenon DEF Statuses
    <2>3. [f EXCEPT ![p].state = "debugging", ![p].finishedAt = t, ![p].extend = e]
             = [f EXCEPT ![p] = new]
      OBVIOUS
    <2> QED BY <2>2, <2>3
  <1>5. [ZeroStatus EXCEPT !.state = "stale"] \in Statuses
    BY DEF ZeroStatus, Statuses, PodStates
  <1> QED BY <1>2, <1>3, <1>4, <1>5

\* Steps of the manager keep the types.
LEMMA ManagerType == TypeInv /\ Manager => TypeInv'
  <1> SUFFICES ASSUME TypeInv, Manager PROVE TypeInv'
    OBVIOUS
  <1> USE NilAssumption DEF TypeInv, TypeOK, envVars, procVars, histVars, counters
  <1>1. CASE FetchRunnerPods
    <2>1. PassTypeOK' /\ CurInv'
      BY <1>1 DEF FetchRunnerPods, PassTypeOK, EnvTypeOK, CurInv, Visiting, Calls
    <2>2. HistTypeOK'
      BY <1>1, FailureType DEF FetchRunnerPods, HistTypeOK
    <2>3. EnvTypeOK' /\ ProcTypeOK' /\ FinishInv'
      BY <1>1 DEF FetchRunnerPods, EnvTypeOK, ProcTypeOK, FinishInv
    <2> QED BY <2>1, <2>2, <2>3
  <1>2. CASE FetchRunners
    <2>0. ListRunners \in [Pods -> RunnerStates]
      BY DEF ListRunners, EnvTypeOK, RunnerStates
    <2>1. PassTypeOK' /\ CurInv'
      BY <1>2, <2>0, PassEndsType DEF FetchRunners, PassTypeOK, EnvTypeOK, CurInv, Visiting, Calls
    <2>2. HistTypeOK'
      BY <1>2, PassEndsType, FailureType DEF FetchRunners, HistTypeOK
    <2>3. EnvTypeOK' /\ ProcTypeOK' /\ FinishInv'
      BY <1>2, PassEndsType DEF FetchRunners, EnvTypeOK, ProcTypeOK, FinishInv
    <2> QED BY <2>1, <2>2, <2>3
  <1>3. CASE BeginMaintain
    <2>1. NumUnlabeledPods \in Nat
      BY ManagerAssumption, FS_Subset, FS_CardinalityType DEF NumUnlabeledPods
    <2>2. TakeSnap \in Snaps /\ cfg.maxRunnerPods - cfg.replicas \in Int
      BY ManagerAssumption DEF TakeSnap, Snaps, EnvTypeOK, ProcTypeOK
    <2>3. PassTypeOK' /\ CurInv'
      BY <1>3, <2>1, <2>2 DEF BeginMaintain, PassTypeOK, CurInv, Visiting, Calls
    <2>4. EnvTypeOK' /\ ProcTypeOK' /\ HistTypeOK' /\ FinishInv'
      BY <1>3 DEF BeginMaintain, AdvanceClock, EnvTypeOK, ProcTypeOK, HistTypeOK, FinishInv
    <2> QED BY <2>3, <2>4
  <1>4. ASSUME NEW p \in Pods, SkipPod(p) PROVE TypeInv'
    BY <1>4, FailureType
    DEF SkipPod, EnvTypeOK, ProcTypeOK, PassTypeOK, HistTypeOK, CurInv, FinishInv
  <1>5. ASSUME NEW p \in Pods, GetStatus(p) PROVE TypeInv'
    <2>1. st[p] \in Statuses BY DEF EnvTypeOK
    <2>2. AfterStatus(p, st[p]) \in Visiting \cup {"visit"}
      BY AfterStatusType DEF Visiting
    <2>3. Continue(AfterStatus(p, st[p]), p, st[p]) BY <1>5 DEF GetStatus
    <2>4. /\ pc' = AfterStatus(p, st[p]) /\ pc' \in Calls
          /\ cur' \in Pods \cup {Nil} /\ CurInv'
          /\ status' \in Statuses
          /\ status'.state = Nil \/ status' = st[p]
          /\ pc' # "visit" => status' = st[p]
      BY <2>1, <2>2, <2>3, ContinueType
    <2>5. PassTypeOK' BY <1>5, <2>4 DEF GetStatus, PassTypeOK
    <2>6. EnvTypeOK' /\ ProcTypeOK' /\ HistTypeOK'
      BY <1>5 DEF GetStatus, EnvTypeOK, ProcTypeOK, HistTypeOK
    <2>7. FinishInv'
      BY <1>5, <2>4, AfterStatusType DEF GetStatus, FinishInv
    <2> QED BY <2>4, <2>5, <2>6, <2>7
  <1>6. CASE PostResult
    <2>1. cur \in Pods /\ status \in Statuses BY <1>6 DEF PostResult, CurInv, Visiting, PassTypeOK
    <2>2. AfterPost(cur, status) \in Visiting \cup {"visit"}
      BY AfterStatusType DEF Visiting
    <2>3. Continue(AfterPost(cur, status), cur, status) BY <1>6 DEF PostResult
    <2>4. /\ pc' = AfterPost(cur, status) /\ pc' \in Calls
          /\ cur' \in Pods \cup {Nil} /\ CurInv'
          /\ status' \in Statuses
          /\ status'.state = Nil \/ status' = status
          /\ pc' # "visit" => status' = status
      BY <2>1, <2>2, <2>3, ContinueType
    <2>5. PassTypeOK' BY <1>6, <2>4 DEF PostResult, PassTypeOK
    <2>6. EnvTypeOK' /\ ProcTypeOK' /\ HistTypeOK'
      BY <1>6, <2>1, FailureType DEF PostResult, EnvTypeOK, ProcTypeOK, HistTypeOK
    <2>7. FinishInv'
      BY <1>6, <2>4, AfterStatusType DEF PostResult, FinishInv
    <2> QED BY <2>4, <2>5, <2>6, <2>7
  <1>7. CASE DeletePod
    <2>1. EnvTypeOK'
      BY <1>7 DEF DeletePod, EnvTypeOK, PodRecords, Phases
    <2>2. ProcTypeOK' /\ HistTypeOK'
      BY <1>7, FailureType DEF DeletePod, ProcTypeOK, HistTypeOK
    <2>3. PassTypeOK' /\ CurInv' /\ FinishInv'
      BY <1>7, VisitEndsType DEF DeletePod, PassTypeOK, CurInv, Visiting, Calls, FinishInv
    <2> QED BY <2>1, <2>2, <2>3
  <1>8. CASE PutDeletionTime
    <2>1. cur \in Pods /\ status \in Statuses /\ status.finishedAt \in Int
      BY <1>8 DEF PutDeletionTime, CurInv, Visiting, PassTypeOK, FinishInv
    <2>2. AfterDebugging(cur, status) \in Visiting \cup {"visit"}
      BY AfterStatusType DEF Visiting
    <2>3. Continue(AfterDebugging(cur, status), cur, status) BY <1>8 DEF PutDeletionTime
    <2>4. /\ pc' = AfterDebugging(cur, status) /\ pc' \in Calls
          /\ cur' \in Pods \cup {Nil} /\ CurInv'
          /\ status' \in Statuses
          /\ status'.state = Nil \/ status' = status
      BY <2>1, <2>2, <2>3, ContinueType
    <2>5. PassTypeOK' BY <1>8, <2>4 DEF PutDeletionTime, PassTypeOK
    <2>6. ProcTypeOK' /\ HistTypeOK'
      BY <1>8, FailureType DEF PutDeletionTime, ProcTypeOK, HistTypeOK
    <2>7. status.finishedAt + snap.extendDuration \in Int
      BY <2>1 DEF PassTypeOK, Snaps
    <2>8. EnvTypeOK'
      BY <1>8, <2>1, <2>7 DEF PutDeletionTime, EnvTypeOK, Statuses
    <2>9. FinishInv'
      BY <1>8, <2>1, <2>4, AfterStatusType DEF PutDeletionTime, FinishInv, EnvTypeOK, Statuses
    <2> QED BY <2>4, <2>5, <2>6, <2>8, <2>9
  <1>9. CASE Protect
    <2>1. cur \in Pods /\ status \in Statuses BY <1>9 DEF Protect, CurInv, Visiting, PassTypeOK
    <2>2. "relabel" \in Visiting \cup {"visit"} /\ AfterRelabel(cur) \in Visiting \cup {"visit"}
      BY AfterStatusType DEF Visiting
    <2>3. \/ VisitEnds
          \/ Continue("relabel", cur, status)
          \/ Continue(AfterRelabel(cur), cur, status)
      BY <1>9 DEF Protect
    <2>4. /\ pc' \in {"visit", "relabel", "unlink"}
          /\ cur' \in Pods \cup {Nil} /\ CurInv'
          /\ status' \in Statuses
          /\ status'.state = Nil \/ status' = status
      BY <2>1, <2>2, <2>3, VisitEndsType, ContinueType, AfterStatusType DEF CurInv, Visiting
    <2>5. PassTypeOK' BY <1>9, <2>4 DEF Protect, PassTypeOK, Calls
    <2>6. ProcTypeOK' /\ HistTypeOK' /\ FinishInv'
      BY <1>9, <2>4, FailureType DEF Protect, ProcTypeOK, HistTypeOK, FinishInv
    <2>7. pod \in [Pods -> PodRecords] BY DEF EnvTypeOK
    <2>8. [pod EXCEPT ![cur].pdb = TRUE] \in [Pods -> PodRecords]
      BY <2>1, <2>7, PodUpdateType
    <2>9. pod' = pod \/ pod' = [pod EXCEPT ![cur].pdb = TRUE]
      BY <1>9 DEF Protect
    <2>10. pod' \in [Pods -> PodRecords] BY <2>7, <2>8, <2>9
    <2>11. EnvTypeOK' BY <1>9, <2>10 DEF Protect, EnvTypeOK
    <2> QED BY <2>4, <2>5, <2>6, <2>11
  <1>10. CASE Relabel
    <2>1. cur \in Pods /\ status \in Statuses BY <1>10 DEF Relabel, CurInv, Visiting, PassTypeOK
    <2>2. AfterRelabel(cur) \in Visiting \cup {"visit"}
      BY AfterStatusType DEF Visiting
    <2>3. VisitEnds \/ Continue(AfterRelabel(cur), cur, status)
      BY <1>10 DEF Relabel
    <2>4. /\ pc' \in {"visit", "unlink"}
          /\ cur' \in Pods \cup {Nil} /\ CurInv'
          /\ status' \in Statuses
          /\ status'.state = Nil \/ status' = status
      BY <2>1, <2>2, <2>3, VisitEndsType, ContinueType, AfterStatusType DEF CurInv, Visiting
    <2>12. podList \in [Pods -> PodRecords] BY DEF PassTypeOK
    <2>13. [podList EXCEPT ![cur].name = TRUE] \in [Pods -> PodRecords]
      BY <2>1, <2>12, PodUpdateType
    <2>14. podList' = podList \/ podList' = [podList EXCEPT ![cur].name = TRUE]
      BY <1>10 DEF Relabel
    <2>15. podList' \in [Pods -> PodRecords] BY <2>12, <2>13, <2>14
    <2>5. PassTypeOK' BY <1>10, <2>4, <2>15 DEF Relabel, PassTypeOK, Calls
    <2>6. ProcTypeOK' /\ HistTypeOK' /\ FinishInv'
      BY <1>10, <2>4, FailureType DEF Relabel, ProcTypeOK, HistTypeOK, FinishInv
    <2>7. pod \in [Pods -> PodRecords] BY DEF EnvTypeOK
    <2>8. [pod EXCEPT ![cur].name = TRUE] \in [Pods -> PodRecords]
      BY <2>1, <2>7, PodUpdateType
    <2>9. pod' = pod \/ pod' = [pod EXCEPT ![cur].name = TRUE]
      BY <1>10 DEF Relabel
    <2>10. pod' \in [Pods -> PodRecords] BY <2>7, <2>8, <2>9
    <2>11. EnvTypeOK' BY <1>10, <2>10 DEF Relabel, EnvTypeOK
    <2> QED BY <2>4, <2>5, <2>6, <2>11
  <1>11. CASE Unlink
    <2>1. ProcTypeOK' /\ HistTypeOK'
      BY <1>11, FailureType DEF Unlink, ProcTypeOK, HistTypeOK
    <2>2. PassTypeOK' /\ CurInv' /\ FinishInv'
      BY <1>11, VisitEndsType DEF Unlink, PassTypeOK, CurInv, Visiting, Calls, FinishInv
    <2>3. cur \in Pods /\ pod \in [Pods -> PodRecords]
      BY <1>11 DEF Unlink, CurInv, Visiting, EnvTypeOK
    <2>4. [pod EXCEPT ![cur].hash = FALSE] \in [Pods -> PodRecords]
      BY <2>3, PodUpdateType
    <2>5. pod' = pod \/ pod' = [pod EXCEPT ![cur].hash = FALSE]
      BY <1>11 DEF Unlink
    <2>6. pod' \in [Pods -> PodRecords] BY <2>3, <2>4, <2>5
    <2>7. EnvTypeOK' BY <1>11, <2>6 DEF Unlink, EnvTypeOK
    <2> QED BY <2>1, <2>2, <2>7
  <1>12. CASE PodsVisited
    BY <1>12 DEF PodsVisited, EnvTypeOK, ProcTypeOK, PassTypeOK, HistTypeOK, CurInv,
                 FinishInv, Visiting, Calls
  <1>13. ASSUME NEW r \in Pods, RemoveRunner(r) PROVE TypeInv'
    <2>1. PassTypeOK' /\ CurInv' /\ FinishInv'
      BY <1>13, PassEndsType DEF RemoveRunner, PassTypeOK, CurInv, FinishInv, Visiting
    <2>2. ProcTypeOK' /\ HistTypeOK'
      BY <1>13, PassEndsType, FailureType DEF RemoveRunner, ProcTypeOK, HistTypeOK
    <2>3. EnvTypeOK'
      BY <1>13 DEF RemoveRunner, EnvTypeOK, RunnerStates
    <2> QED BY <2>1, <2>2, <2>3
  <1>14. CASE EndPass
    BY <1>14, PassEndsType DEF EndPass, EnvTypeOK, ProcTypeOK, HistTypeOK, FinishInv
  <1> QED
    BY <1>1, <1>2, <1>3, <1>4, <1>5, <1>6, <1>7, <1>8, <1>9, <1>10, <1>11, <1>12, <1>13,
       <1>14 DEF Manager

\* Steps of a pod, its ReplicaSet and its runner keep the types.
LEMMA PodStepsType ==
    ASSUME TypeInv, NEW p \in Pods, PodSteps(p)
    PROVE  TypeInv'
  <1> USE NilAssumption DEF TypeInv, TypeOK, procVars, passVars, histVars, counters
  <1>1. CASE ReplicaSet(p)
    <2>1. [phase |-> "pending", hash |-> TRUE, name |-> FALSE, pdb |-> FALSE,
           created |-> now] \in PodRecords
      BY DEF PodRecords, Phases, EnvTypeOK
    <2>2. pod' \in [Pods -> PodRecords]
      <3>1. pod \in [Pods -> PodRecords] /\ "terminating" \in Phases
        BY DEF EnvTypeOK, Phases
      <3>2. [pod EXCEPT ![p].phase = "terminating"] \in [Pods -> PodRecords]
        BY <3>1, PodUpdateType
      <3>3. \/ pod' = [pod EXCEPT ![p].phase = "terminating"]
            \/ pod' = [pod EXCEPT ![p] = [phase |-> "pending", hash |-> TRUE, name |-> FALSE,
                                          pdb |-> FALSE, created |-> now]]
        BY <1>1 DEF ReplicaSet
      <3> QED BY <2>1, <3>1, <3>2, <3>3
    <2> QED BY <1>1, <2>2 DEF ReplicaSet, EnvTypeOK, ProcTypeOK, PassTypeOK, HistTypeOK, CurInv,
                              FinishInv
  <1>2. CASE PodStarts(p)
    <2>1. pod' \in [Pods -> PodRecords]
      BY <1>2, PodUpdateType DEF PodStarts, EnvTypeOK, Phases
    <2>2. st \in [Pods -> Statuses] /\ "initializing" \in PodStates
      BY DEF EnvTypeOK, PodStates
    <2>3. [st EXCEPT ![p].state = "initializing"] \in [Pods -> Statuses]
      BY <2>2, StatusUpdateType
    <2>4. st' \in [Pods -> Statuses] BY <1>2, <2>3 DEF PodStarts
    <2>5. EnvTypeOK' BY <1>2, <2>1, <2>4 DEF PodStarts, EnvTypeOK
    <2>6. st'[p].state = "initializing" /\ \A q \in Pods : q # p => st'[q] = st[q]
      BY <1>2, <2>2 DEF PodStarts, Statuses
    <2>7. FinishInv' BY <1>2, <2>6 DEF PodStarts, FinishInv
    <2> QED BY <1>2, <2>5, <2>7 DEF PodStarts, ProcTypeOK, PassTypeOK, HistTypeOK, CurInv
  <1>3. CASE Register(p)
    BY <1>3 DEF Register, EnvTypeOK, ProcTypeOK, PassTypeOK, HistTypeOK, CurInv, FinishInv,
                RunnerStates
  <1>4. CASE Connect(p)
    BY <1>4 DEF Connect, EnvTypeOK, ProcTypeOK, PassTypeOK, HistTypeOK, CurInv, FinishInv,
                RunnerStates, Statuses, PodStates
  <1>5. CASE TakeJob(p)
    BY <1>5 DEF TakeJob, EnvTypeOK, ProcTypeOK, PassTypeOK, HistTypeOK, CurInv, FinishInv,
                RunnerStates
  <1>6. CASE EndJob(p)
    BY <1>6 DEF EndJob, EnvTypeOK, ProcTypeOK, PassTypeOK, HistTypeOK, CurInv, FinishInv,
                RunnerStates
  <1>7. CASE Publish(p)
    <2>1. PICK ext \in BOOLEAN, d \in 0 .. PublishDelay :
             st' = [st EXCEPT ![p].state = "debugging", ![p].finishedAt = now - d,
                              ![p].extend = ext]
      BY <1>7 DEF Publish
    <2>2. now - d \in Int BY ManagerAssumption DEF EnvTypeOK
    <2>3. EnvTypeOK'
      BY <1>7, <2>1, <2>2, StatusUpdateType DEF Publish, EnvTypeOK
    <2>4. /\ \A q \in Pods : q # p => st'[q] = st[q]
          /\ st'[p].finishedAt = now - d
      BY <2>1 DEF EnvTypeOK, Statuses
    <2>5. FinishInv'
      BY <1>7, <2>2, <2>4 DEF Publish, FinishInv, passVars
    <2> QED BY <1>7, <2>3, <2>5 DEF Publish, ProcTypeOK, PassTypeOK, HistTypeOK, CurInv
  <1>8. CASE RestartContainer(p)
    <2>1. st' \in [Pods -> Statuses]
      BY <1>8, StatusUpdateType DEF RestartContainer, EnvTypeOK
    <2>2. st'[p].state = "stale" /\ \A q \in Pods : q # p => st'[q] = st[q]
      BY <1>8 DEF RestartContainer, EnvTypeOK, ZeroStatus
    <2>3. EnvTypeOK' /\ FinishInv'
      BY <1>8, <2>1, <2>2 DEF RestartContainer, EnvTypeOK, FinishInv, RunnerStates
    <2> QED BY <1>8, <2>3 DEF RestartContainer, ProcTypeOK, PassTypeOK, HistTypeOK, CurInv
  <1>9. CASE Terminated(p)
    BY <1>9 DEF Terminated, NoPod, ZeroStatus, EnvTypeOK, ProcTypeOK, PassTypeOK, HistTypeOK,
                CurInv, FinishInv, RunnerStates, Statuses, PodStates, PodRecords, Phases
  <1> QED
    BY <1>1, <1>2, <1>3, <1>4, <1>5, <1>6, <1>7, <1>8, <1>9 DEF PodSteps

\* Steps of the Slack agent keep the types.
LEMMA AgentType ==
    ASSUME TypeInv, NEW p \in Pods, Agent(p)
    PROVE  TypeInv'
  <1> USE NilAssumption DEF TypeInv, TypeOK, procVars, passVars, counters
  <1>1. CASE AgentExtend(p)
    BY <1>1, ManagerAssumption
    DEF AgentExtend, EnvTypeOK, ProcTypeOK, PassTypeOK, HistTypeOK, CurInv, FinishInv, Statuses
  <1>2. CASE AgentPut(p)
    <2>1. reply[p] \in Int BY <1>2 DEF AgentPut, EnvTypeOK
    <2>2. st' \in [Pods -> Statuses]
      <3>1. st \in [Pods -> Statuses] BY DEF EnvTypeOK
      <3>2. [st EXCEPT ![p].deletionTime = reply[p]] \in [Pods -> Statuses]
        BY <2>1, <3>1, StatusUpdateType
      <3>3. st' = st \/ st' = [st EXCEPT ![p].deletionTime = reply[p]]
        BY <1>2 DEF AgentPut
      <3> QED BY <3>1, <3>2, <3>3
    <2>3. EnvTypeOK'
      BY <1>2, <2>2 DEF AgentPut, EnvTypeOK
    <2>4. \A q \in Pods : st'[q].state = st[q].state /\ st'[q].finishedAt = st[q].finishedAt
      BY <1>2 DEF AgentPut, EnvTypeOK, Statuses
    <2>5. FinishInv' BY <1>2, <2>4 DEF AgentPut, FinishInv
    <2>6. HistTypeOK' BY <1>2, FailureType DEF AgentPut, HistTypeOK
    <2> QED BY <1>2, <2>3, <2>5, <2>6 DEF AgentPut, ProcTypeOK, PassTypeOK, CurInv
  <1>3. CASE AgentDelete(p)
    BY <1>3
    DEF AgentDelete, EnvTypeOK, ProcTypeOK, PassTypeOK, HistTypeOK, CurInv, FinishInv, Statuses
  <1> QED BY <1>1, <1>2, <1>3 DEF Agent

\* The types are preserved by every step.
LEMMA TypeStep == TypeInv /\ [Next]_vars => TypeInv'
  <1> SUFFICES ASSUME TypeInv, [Next]_vars PROVE TypeInv'
    OBVIOUS
  <1> USE NilAssumption DEF TypeInv, TypeOK, envVars, procVars, passVars, histVars, counters
  <1>1. ASSUME NEW c \in Configs, Update(c) PROVE TypeInv'
    BY <1>1 DEF Update, EnvTypeOK, ProcTypeOK, PassTypeOK, HistTypeOK, CurInv, FinishInv
  <1>2. CASE RestartController
    BY <1>2, PassEndsType
    DEF RestartController, AdvanceClock, EnvTypeOK, ProcTypeOK, HistTypeOK, FinishInv
  <1>3. CASE Tick
    BY <1>3 DEF Tick, EnvTypeOK, ProcTypeOK, PassTypeOK, HistTypeOK, CurInv, FinishInv
  <1>4. CASE UNCHANGED vars
    BY <1>4 DEF vars, EnvTypeOK, ProcTypeOK, PassTypeOK, HistTypeOK, CurInv, FinishInv
  <1> QED
    BY <1>1, <1>2, <1>3, <1>4, ManagerType, PodStepsType, AgentType DEF Next

\* Every variable of the manager's model keeps its type, and a status that
\* says "debugging" has a finish time whenever the code dereferences it.
THEOREM ManagerTypeInvariance == Spec => []TypeInv
  BY TypeInit, TypeStep, PTL DEF Spec

\* Every variable keeps its type.
THEOREM ManagerTypeCorrect == Spec => []TypeOK
  <1>1. TypeInv => TypeOK BY DEF TypeInv
  <1> QED BY <1>1, ManagerTypeInvariance, PTL

-----------------------------------------------------------------------------
(* Steps.  Most steps leave the pods alone, and most leave the pass alone. *)

\* A step of another party than the manager leaves the pass alone.
LEMMA OtherSteps ==
    ASSUME [Next]_vars
    PROVE  Manager \/ RestartController \/ UNCHANGED passVars
  BY DEF Next, Update, PodSteps, ReplicaSet, PodStarts, Register, Connect, TakeJob, EndJob,
         Publish, RestartContainer, Terminated, Agent, AgentExtend, AgentPut, AgentDelete,
         Tick, vars

\* The steps that change a pod.
LEMMA PodChanges ==
    ASSUME [Next]_vars
    PROVE  \/ UNCHANGED pod
           \/ DeletePod \/ Protect \/ Relabel \/ Unlink
           \/ \E p \in Pods : ReplicaSet(p) \/ PodStarts(p) \/ Terminated(p)
  BY DEF Next, Manager, FetchRunnerPods, FetchRunners, BeginMaintain, SkipPod, GetStatus,
         PostResult, PutDeletionTime, PodsVisited, RemoveRunner, EndPass, envVars, Update,
         RestartController, PodSteps, Register, Connect, TakeJob, EndJob, Publish,
         RestartContainer, Agent, AgentExtend, AgentPut, AgentDelete, Tick, vars

-----------------------------------------------------------------------------
(* The pods outside the ReplicaSet.  UnlinkedWithinMax alone is not        *)
(* inductive: it says nothing of the room a pass still believes in.        *)

\* From the head of maintainRunnerPods to the end of the pass.
Budgeted == Visiting \cup {"visit", "offline"}

\* Until the pods are counted, the list shows every pod that was unlinked.
ListInv ==
    pc \in {"runners", "maintain"} => \A p \in Unlinked : Listed(p) /\ ~podList[p].hash

\* Then the pods outside the ReplicaSet and the room that is left stay within
\* the budget of a configuration.
BudgetInv ==
    pc \in Budgeted =>
        /\ \E c \in Configs : snap.budget = c.maxRunnerPods - c.replicas
        /\ Cardinality(Unlinked) + removable <= snap.budget

RoomInv == pc = "unlink" => removable > 0

CapInv == TypeInv /\ UnlinkedWithinMax /\ ListInv /\ BudgetInv /\ RoomInv

\* Sets of pods are finite.
LEMMA UnlinkedFinite ==
    /\ IsFiniteSet(Unlinked) /\ Cardinality(Unlinked) \in Nat
    /\ IsFiniteSet(Unlinked') /\ Cardinality(Unlinked') \in Nat
  BY ManagerAssumption, FS_Subset, FS_CardinalityType DEF Unlinked

\* A configuration's room is an integer.
LEMMA RoomType == \A c \in Configs : c.maxRunnerPods - c.replicas \in Int
  BY ManagerAssumption

\* Initially there is no pod.
LEMMA CapInit == Init => CapInv
  <1> SUFFICES ASSUME Init PROVE CapInv
    OBVIOUS
  <1>1. Unlinked = {} BY DEF Init, Unlinked, Exists, NoPod
  <1> QED BY <1>1, TypeInit
          DEF CapInv, UnlinkedWithinMax, ListInv, BudgetInv, RoomInv, Budgeted, Visiting, Init

\* A step that unlinks no pod and leaves the budget of the pass alone.
LEMMA Shrinks ==
    ASSUME CapInv, TypeInv', Unlinked' \subseteq Unlinked,
           UNCHANGED <<snap, removable>>,
           \/ UNCHANGED <<pc, podList>>
           \/ pc \in Budgeted /\ pc' \in Budgeted /\ (pc' = "unlink" => removable > 0)
    PROVE  CapInv'
  <1>1. Cardinality(Unlinked') <= Cardinality(Unlinked)
    BY UnlinkedFinite, FS_Subset
  <1>2. removable \in Int /\ snap.budget \in Int
    BY DEF CapInv, TypeInv, TypeOK, PassTypeOK, Snaps
  <1>3. UnlinkedWithinMax'
    BY <1>1, UnlinkedFinite, RoomType DEF CapInv, UnlinkedWithinMax
  <1>4. ListInv'
    BY DEF CapInv, ListInv, Listed, Budgeted, Visiting
  <1>5. BudgetInv'
    BY <1>1, <1>2, UnlinkedFinite DEF CapInv, BudgetInv
  <1>6. RoomInv'
    BY DEF CapInv, RoomInv
  <1> QED BY <1>3, <1>4, <1>5, <1>6 DEF CapInv

\* A step that unlinks no pod and ends the pass.
LEMMA ShrinksAtEnd ==
    ASSUME CapInv, TypeInv', Unlinked' \subseteq Unlinked, pc' = "idle"
    PROVE  CapInv'
  <1>1. Cardinality(Unlinked') <= Cardinality(Unlinked)
    BY UnlinkedFinite, FS_Subset
  <1>2. UnlinkedWithinMax'
    BY <1>1, UnlinkedFinite, RoomType DEF CapInv, UnlinkedWithinMax
  <1> QED BY <1>2 DEF CapInv, ListInv, BudgetInv, RoomInv, Budgeted, Visiting

\* Only Unlink takes a pod out of its ReplicaSet.
LEMMA OnlyUnlinkUnlinks ==
    ASSUME TypeInv, [Next]_vars
    PROVE  Unlink \/ Unlinked' \subseteq Unlinked
  <1> DEFINE Kept(q) == Exists(q)' /\ ~pod'[q].hash => Exists(q) /\ ~pod[q].hash
  <1> SUFFICES ASSUME ~Unlink, NEW q \in Pods PROVE Kept(q)
    BY DEF Unlinked
  <1>1. pod \in [Pods -> PodRecords] BY DEF TypeInv, TypeOK, EnvTypeOK
  <1>2. ASSUME UNCHANGED pod PROVE Kept(q)
    BY <1>2 DEF Exists
  <1>3. CASE DeletePod
    <2>1. cur \in Pods BY <1>3 DEF DeletePod, TypeInv, CurInv, Visiting
    <2>2. CASE pod' = [pod EXCEPT ![cur].phase = "terminating"] /\ pod[cur].phase = "running"
      BY <1>1, <2>1, <2>2 DEF Exists, PodRecords
    <2> QED BY <1>2, <1>3, <2>2 DEF DeletePod
  <1>4. CASE Protect
    <2>1. cur \in Pods BY <1>4 DEF Protect, TypeInv, CurInv, Visiting
    <2>2. CASE pod' = [pod EXCEPT ![cur].pdb = TRUE]
      BY <1>1, <2>1, <2>2 DEF Exists, PodRecords
    <2> QED BY <1>2, <1>4, <2>2 DEF Protect
  <1>5. CASE Relabel
    <2>1. cur \in Pods BY <1>5 DEF Relabel, TypeInv, CurInv, Visiting
    <2>2. CASE pod' = [pod EXCEPT ![cur].name = TRUE]
      BY <1>1, <2>1, <2>2 DEF Exists, PodRecords
    <2> QED BY <1>2, <1>5, <2>2 DEF Relabel
  <1>6. CASE Manager
    BY <1>2, <1>3, <1>4, <1>5, <1>6
    DEF Manager, FetchRunnerPods, FetchRunners, BeginMaintain, SkipPod, GetStatus, PostResult,
        PutDeletionTime, PodsVisited, RemoveRunner, EndPass, envVars
  <1>7. ASSUME NEW p \in Pods, PodSteps(p) PROVE Kept(q)
    <2>1. CASE ReplicaSet(p)
      <3>1. CASE pod' = [pod EXCEPT ![p].phase = "terminating"] /\ p \in Controlled
        BY <1>1, <3>1 DEF Controlled, Exists, PodRecords
      <3>2. CASE pod' = [pod EXCEPT ![p] = [phase |-> "pending", hash |-> TRUE,
                             name |-> FALSE, pdb |-> FALSE, created |-> now]]
        BY <1>1, <3>2 DEF Exists
      <3> QED BY <2>1, <3>1, <3>2 DEF ReplicaSet
    <2>2. CASE PodStarts(p)
      BY <1>1, <2>2 DEF PodStarts, Exists, PodRecords
    <2>3. CASE Terminated(p)
      BY <1>1, <2>3 DEF Terminated, Exists, NoPod
    <2> QED BY <1>2, <1>7, <2>1, <2>2, <2>3
            DEF PodSteps, Register, Connect, TakeJob, EndJob, Publish, RestartContainer
  <1> QED
    BY <1>2, <1>6, <1>7
    DEF Next, Update, RestartController, Tick, Agent, AgentExtend, AgentPut, AgentDelete, vars,
        envVars

\* The budget of a new pass covers the pods that are unlinked already.
LEMMA BeginMaintainCap ==
    ASSUME CapInv, BeginMaintain, TypeInv', Unlinked' \subseteq Unlinked
    PROVE  CapInv'
  <1> DEFINE L == {p \in Pods : Listed(p) /\ ~podList[p].hash}
  <1>1. IsFiniteSet(L) /\ Cardinality(L) \in Nat
    BY ManagerAssumption, FS_Subset, FS_CardinalityType
  <1>2. Unlinked \subseteq L
    BY DEF CapInv, ListInv, BeginMaintain, Unlinked
  <1>3. Cardinality(Unlinked') <= Cardinality(L)
    BY <1>1, <1>2, UnlinkedFinite, FS_Subset
  <1>4. cfg \in Configs /\ cfg.maxRunnerPods - cfg.replicas \in Int
    BY RoomType DEF CapInv, TypeInv, TypeOK, ProcTypeOK
  <1>5. /\ snap'.budget = cfg.maxRunnerPods - cfg.replicas
        /\ removable' = cfg.maxRunnerPods - cfg.replicas - Cardinality(L)
        /\ pc' = "visit"
    BY DEF BeginMaintain, TakeSnap, NumUnlabeledPods
  <1>6. BudgetInv'
    BY <1>1, <1>3, <1>4, <1>5, UnlinkedFinite DEF BudgetInv
  <1>7. Cardinality(Unlinked') <= Cardinality(Unlinked)
    BY UnlinkedFinite, FS_Subset
  <1>8. UnlinkedWithinMax'
    BY <1>7, UnlinkedFinite, RoomType DEF CapInv, UnlinkedWithinMax
  <1> QED BY <1>5, <1>6, <1>8 DEF CapInv, ListInv, RoomInv

\* Unlinking a pod uses up room that was there.
LEMMA UnlinkCap ==
    ASSUME CapInv, Unlink, TypeInv'
    PROVE  CapInv'
  <1>1. /\ cur \in Pods /\ pod \in [Pods -> PodRecords]
        /\ removable \in Int /\ snap.budget \in Int /\ removable > 0
    BY DEF Unlink, CapInv, TypeInv, TypeOK, PassTypeOK, EnvTypeOK, Snaps, CurInv, Visiting,
           RoomInv
  <1>2. PICK c \in Configs : snap.budget = c.maxRunnerPods - c.replicas
    BY DEF CapInv, BudgetInv, Unlink, Budgeted, Visiting
  <1>3. Cardinality(Unlinked) + removable <= snap.budget
    BY DEF CapInv, BudgetInv, Unlink, Budgeted, Visiting
  <1>4. pc' = "visit" /\ snap' = snap /\ podList' = podList
    BY DEF Unlink, VisitEnds
  <1>5. CASE UNCHANGED <<pod, removable>>
    <2>1. Unlinked' \subseteq Unlinked BY <1>5 DEF Unlinked, Exists
    <2> QED BY <1>4, <1>5, <2>1, Shrinks DEF Unlink, Budgeted, Visiting
  <1>6. CASE pod' = [pod EXCEPT ![cur].hash = FALSE] /\ removable' = removable - 1
    <2>1. Unlinked' \subseteq Unlinked \cup {cur}
      BY <1>1, <1>6 DEF Unlinked, Exists, PodRecords
    <2>2. /\ IsFiniteSet(Unlinked \cup {cur})
          /\ Cardinality(Unlinked \cup {cur}) \in Nat
          /\ Cardinality(Unlinked \cup {cur}) <= Cardinality(Unlinked) + 1
      <3>1. IsFiniteSet(Unlinked \cup {cur}) BY UnlinkedFinite, FS_AddElement
      <3>2. Cardinality(Unlinked \cup {cur}) =
               IF cur \in Unlinked THEN Cardinality(Unlinked) ELSE Cardinality(Unlinked) + 1
        BY UnlinkedFinite, FS_AddElement
      <3> QED BY <3>1, <3>2, UnlinkedFinite
    <2>3. Cardinality(Unlinked') <= Cardinality(Unlinked) + 1
      BY <2>1, <2>2, UnlinkedFinite, FS_Subset
    <2>4. Cardinality(Unlinked') + removable' <= snap.budget
      BY <1>1, <1>3, <1>6, <2>3, UnlinkedFinite
    <2>5. BudgetInv' BY <1>2, <1>4, <2>4 DEF BudgetInv
    <2>6. Cardinality(Unlinked') <= snap.budget
      BY <1>1, <1>3, <2>3, UnlinkedFinite
    <2>7. UnlinkedWithinMax' BY <1>2, <2>6 DEF UnlinkedWithinMax
    <2> QED BY <1>4, <2>5, <2>7 DEF CapInv, ListInv, RoomInv
  <1> QED BY <1>5, <1>6 DEF Unlink

\* The room is preserved by every step.
LEMMA CapStep == CapInv /\ [Next]_vars => CapInv'
  <1> SUFFICES ASSUME CapInv, [Next]_vars PROVE CapInv'
    OBVIOUS
  <1>1. TypeInv /\ TypeInv' BY TypeStep DEF CapInv
  <1>2. CASE Unlink BY <1>1, <1>2, UnlinkCap
  <1>3. CASE ~Unlink
    <2>1. Unlinked' \subseteq Unlinked BY <1>1, <1>3, OnlyUnlinkUnlinks
    <2>2. CASE BeginMaintain BY <1>1, <2>1, <2>2, BeginMaintainCap
    <2>3. CASE FetchRunnerPods
      <3>1. CASE pc' = "runners" /\ podList' = pod
        <4>1. ListInv'
          BY <2>3, <3>1 DEF FetchRunnerPods, envVars, ListInv, Unlinked, Exists, Listed
        <4>2. UnlinkedWithinMax'
          BY <2>3 DEF CapInv, UnlinkedWithinMax, FetchRunnerPods, envVars, Unlinked, Exists
        <4> QED BY <1>1, <3>1, <4>1, <4>2 DEF CapInv, BudgetInv, RoomInv, Budgeted, Visiting
      <3>2. CASE UNCHANGED <<podList, pc, busyAtStart>>
        BY <1>1, <2>1, <2>3, <3>2, Shrinks DEF FetchRunnerPods
      <3> QED BY <2>3, <3>1, <3>2 DEF FetchRunnerPods
    <2>4. CASE FetchRunners
      <3>1. CASE PassEnds BY <1>1, <2>1, <3>1, ShrinksAtEnd DEF PassEnds
      <3>2. CASE pc' = "maintain" /\ UNCHANGED podList
        <4>1. ListInv'
          BY <2>1, <2>4, <3>2 DEF CapInv, FetchRunners, ListInv, Listed
        <4>2. UnlinkedWithinMax'
          BY <2>4 DEF CapInv, UnlinkedWithinMax, FetchRunners, envVars, Unlinked, Exists
        <4> QED BY <1>1, <3>2, <4>1, <4>2 DEF CapInv, BudgetInv, RoomInv, Budgeted, Visiting
      <3> QED BY <2>4, <3>1, <3>2 DEF FetchRunners
    <2>5. ASSUME NEW p \in Pods, SkipPod(p) PROVE CapInv'
      BY <1>1, <2>1, <2>5, Shrinks DEF SkipPod
    <2>6. ASSUME NEW p \in Pods, GetStatus(p) PROVE CapInv'
      <3>1. pc' \in Budgeted /\ pc' # "unlink"
        BY <2>6, AfterStatusType DEF GetStatus, Continue, VisitEnds, Budgeted, Visiting
      <3> QED BY <1>1, <2>1, <2>6, <3>1, Shrinks DEF GetStatus, Budgeted
    <2>7. CASE PostResult
      <3>1. pc' \in Budgeted /\ pc' # "unlink"
        BY <2>7, AfterStatusType DEF PostResult, Continue, VisitEnds, Budgeted, Visiting
      <3> QED BY <1>1, <2>1, <2>7, <3>1, Shrinks DEF PostResult, Budgeted, Visiting
    <2>8. CASE DeletePod
      BY <1>1, <2>1, <2>8, Shrinks DEF DeletePod, VisitEnds, Budgeted, Visiting
    <2>9. CASE PutDeletionTime
      <3>1. pc' \in Budgeted /\ pc' # "unlink"
        BY <2>9, AfterStatusType DEF PutDeletionTime, Continue, VisitEnds, Budgeted, Visiting
      <3> QED BY <1>1, <2>1, <2>9, <3>1, Shrinks DEF PutDeletionTime, Budgeted, Visiting
    <2>10. removable \in Int BY <1>1 DEF TypeInv, TypeOK, PassTypeOK
    <2>11. ASSUME Continue(AfterRelabel(cur), cur, status)
           PROVE  pc' \in Budgeted /\ (pc' = "unlink" => removable > 0)
      BY <2>10, <2>11 DEF AfterRelabel, Continue, VisitEnds, Budgeted, Visiting
    <2>12. CASE Protect
      <3>1. pc' \in Budgeted /\ (pc' = "unlink" => removable > 0)
        BY <2>11, <2>12 DEF Protect, Continue, VisitEnds, Budgeted, Visiting
      <3> QED BY <1>1, <2>1, <2>12, <3>1, Shrinks DEF Protect, Budgeted, Visiting
    <2>13. CASE Relabel
      <3>1. pc' \in Budgeted /\ (pc' = "unlink" => removable > 0)
        BY <2>11, <2>13 DEF Relabel, VisitEnds, Budgeted, Visiting
      <3> QED BY <1>1, <2>1, <2>13, <3>1, Shrinks DEF Relabel, Budgeted, Visiting
    <2>14. CASE PodsVisited
      BY <1>1, <2>1, <2>14, Shrinks DEF PodsVisited, Budgeted
    <2>15. ASSUME NEW r \in Pods, RemoveRunner(r) PROVE CapInv'
      BY <1>1, <2>1, <2>15, Shrinks, ShrinksAtEnd DEF RemoveRunner, PassEnds
    <2>16. CASE EndPass
      BY <1>1, <2>1, <2>16, ShrinksAtEnd DEF EndPass, PassEnds
    <2>17. CASE RestartController
      BY <1>1, <2>1, <2>17, ShrinksAtEnd DEF RestartController, PassEnds
    <2>18. CASE UNCHANGED passVars
      BY <1>1, <2>1, <2>18, Shrinks DEF passVars
    <2> QED
      BY <1>3, <2>2, <2>3, <2>4, <2>5, <2>6, <2>7, <2>8, <2>9, <2>12, <2>13, <2>14, <2>15,
         <2>16, <2>17, <2>18, OtherSteps DEF Manager
  <1> QED BY <1>2, <1>3

\* However passes, failing calls, restarts and configuration changes
\* interleave, the pods outside the ReplicaSet stay within the room of some
\* configuration.
THEOREM ManagerUnlinkedWithinMax == Spec => []UnlinkedWithinMax
  <1>1. CapInv => UnlinkedWithinMax BY DEF CapInv
  <1> QED BY <1>1, CapInit, CapStep, PTL DEF Spec

-----------------------------------------------------------------------------
(* All pods that are not being deleted.  They are in the ReplicaSet, which *)
(* fills up to its size, or outside, where the room is bounded: the sum    *)
(* must not exceed maxRunnerPods although the two are counted by different *)
(* programs at different times.                                            *)

\* The configuration may change, but not the numbers of pods.
FixedSize ==
    \A c, d \in Configs : c.replicas = d.replicas /\ c.maxRunnerPods = d.maxRunnerPods

\* The ReplicaSet does not exceed its size.
FullInv == Cardinality(Controlled) <= cfg.replicas

\* Sets of controlled pods are finite.
LEMMA ControlledFinite ==
    /\ IsFiniteSet(Controlled) /\ Cardinality(Controlled) \in Nat
    /\ IsFiniteSet(Controlled') /\ Cardinality(Controlled') \in Nat
  BY ManagerAssumption, FS_Subset, FS_CardinalityType DEF Controlled

\* Only the ReplicaSet adds a pod to itself, one at a time and only when one
\* is missing: no call of the manager brings an unlinked pod back.
LEMMA OnlyReplicaSetGrows ==
    ASSUME TypeInv, [Next]_vars
    PROVE  \/ Controlled' \subseteq Controlled
           \/ \E p \in Pods : /\ Cardinality(Controlled) < cfg.replicas
                              /\ UNCHANGED cfg
                              /\ Controlled' \subseteq Controlled \cup {p}
  <1>1. pod \in [Pods -> PodRecords] BY DEF TypeInv, TypeOK, EnvTypeOK
  <1>2. pc \in Visiting => cur \in Pods BY DEF TypeInv, CurInv
  <1>3. CASE UNCHANGED pod BY <1>3 DEF Controlled
  <1>4. CASE DeletePod
    BY <1>1, <1>2, <1>4 DEF DeletePod, Visiting, Controlled, PodRecords
  <1>5. CASE Protect
    BY <1>1, <1>2, <1>5 DEF Protect, Visiting, Controlled, PodRecords
  <1>6. CASE Relabel
    BY <1>1, <1>2, <1>6 DEF Relabel, Visiting, Controlled, PodRecords
  <1>7. CASE Unlink
    BY <1>1, <1>2, <1>7 DEF Unlink, Visiting, Controlled, PodRecords
  <1>8. ASSUME NEW p \in Pods, PodStarts(p) PROVE Controlled' \subseteq Controlled
    BY <1>1, <1>8 DEF PodStarts, Controlled, PodRecords
  <1>9. ASSUME NEW p \in Pods, Terminated(p) PROVE Controlled' \subseteq Controlled
    BY <1>1, <1>9 DEF Terminated, Controlled, NoPod
  <1>10. ASSUME NEW p \in Pods, ReplicaSet(p)
         PROVE  \/ Controlled' \subseteq Controlled
                \/ /\ Cardinality(Controlled) < cfg.replicas
                   /\ UNCHANGED cfg
                   /\ Controlled' \subseteq Controlled \cup {p}
    <2>1. CASE /\ p \in Controlled
               /\ pod' = [pod EXCEPT ![p].phase = "terminating"]
      BY <1>1, <2>1 DEF Controlled, PodRecords
    <2>2. CASE /\ Cardinality(Controlled) < cfg.replicas
               /\ pod' = [pod EXCEPT ![p] = [phase |-> "pending", hash |-> TRUE,
                              name |-> FALSE, pdb |-> FALSE, created |-> now]]
      <3>1. Controlled' \subseteq Controlled \cup {p} BY <1>1, <2>2 DEF Controlled
      <3> QED BY <1>10, <2>2, <3>1 DEF ReplicaSet, procVars
    <2> QED BY <1>10, <2>1, <2>2 DEF ReplicaSet
  <1> QED BY <1>3, <1>4, <1>5, <1>6, <1>7, <1>8, <1>9, <1>10, PodChanges

\* The ReplicaSet stays within its size.
LEMMA FullStep ==
    ASSUME FixedSize, TypeInv, FullInv, [Next]_vars
    PROVE  FullInv'
  <1>1. cfg \in Configs /\ cfg' \in Configs /\ cfg.replicas \in Nat
    BY TypeStep, ManagerAssumption DEF TypeInv, TypeOK, ProcTypeOK
  <1>2. cfg'.replicas = cfg.replicas BY <1>1 DEF FixedSize
  <1>3. CASE Controlled' \subseteq Controlled
    <2>1. Cardinality(Controlled') <= Cardinality(Controlled)
      BY <1>3, ControlledFinite, FS_Subset
    <2> QED BY <1>1, <1>2, <2>1, ControlledFinite DEF FullInv
  <1>4. ASSUME NEW p \in Pods, Cardinality(Controlled) < cfg.replicas,
               Controlled' \subseteq Controlled \cup {p}
        PROVE  FullInv'
    <2>1. /\ IsFiniteSet(Controlled \cup {p})
          /\ Cardinality(Controlled \cup {p}) =
                IF p \in Controlled THEN Cardinality(Controlled) ELSE Cardinality(Controlled) + 1
      BY ControlledFinite, FS_AddElement
    <2>2. Cardinality(Controlled') <= Cardinality(Controlled \cup {p})
      BY <1>4, <2>1, FS_Subset
    <2> QED BY <1>1, <1>2, <1>4, <2>1, <2>2, ControlledFinite DEF FullInv
  <1> QED BY <1>3, <1>4, OnlyReplicaSetGrows

\* A pod that is not being deleted is in the ReplicaSet or outside.
LEMMA LiveCount ==
    ASSUME FixedSize, CapInv, FullInv
    PROVE  PodsWithinMax
  <1> DEFINE live == {p \in Pods : pod[p].phase \in {"pending", "running"}}
  <1>1. cfg \in Configs /\ cfg.replicas \in Nat /\ cfg.maxRunnerPods \in Nat
    BY ManagerAssumption DEF CapInv, TypeInv, TypeOK, ProcTypeOK
  <1>2. live \subseteq Controlled \cup Unlinked
    BY DEF Controlled, Unlinked, Exists
  <1>3. IsFiniteSet(live) /\ Cardinality(live) \in Nat
    BY ManagerAssumption, FS_Subset, FS_CardinalityType
  <1>4. CASE Unlinked = {}
    <2>1. Cardinality(live) <= Cardinality(Controlled)
      BY <1>2, <1>4, ControlledFinite, FS_Subset
    <2>2. Cardinality(live) <= cfg.replicas
      BY <1>1, <1>3, <2>1, ControlledFinite DEF FullInv
    <2> QED BY <2>2 DEF PodsWithinMax
  <1>5. CASE \E c \in Configs : Cardinality(Unlinked) <= c.maxRunnerPods - c.replicas
    <2>1. Cardinality(Unlinked) <= cfg.maxRunnerPods - cfg.replicas
      BY <1>1, <1>5 DEF FixedSize
    <2>2. /\ IsFiniteSet(Controlled \cup Unlinked)
          /\ IsFiniteSet(Controlled \cap Unlinked)
          /\ Cardinality(Controlled \cup Unlinked) =
                Cardinality(Controlled) + Cardinality(Unlinked)
                  - Cardinality(Controlled \cap Unlinked)
      BY ControlledFinite, UnlinkedFinite, FS_Union, FS_Intersection
    <2>3. Cardinality(live) <= Cardinality(Controlled \cup Unlinked)
      BY <1>2, <2>2, FS_Subset
    <2>4. Cardinality(Controlled \cap Unlinked) \in Nat
      BY <2>2, FS_CardinalityType
    <2>5. Cardinality(live) <= cfg.maxRunnerPods
      BY <1>1, <1>3, <2>1, <2>2, <2>3, <2>4, ControlledFinite, UnlinkedFinite DEF FullInv
    <2> QED BY <2>5 DEF PodsWithinMax
  <1> QED BY <1>4, <1>5 DEF CapInv, UnlinkedWithinMax

\* With fixed numbers of pods, whatever else is reconfigured, fails, restarts
\* or is listed too early, the pods that are not being deleted stay within
\* maxRunnerPods, or within replicas if that is larger.
THEOREM ManagerPodsWithinMax ==
    ASSUME FixedSize
    PROVE  Spec => []PodsWithinMax
  <1>1. Init => CapInv /\ FullInv
    <2> SUFFICES ASSUME Init PROVE FullInv
      BY CapInit
    <2>1. Controlled = {} BY DEF Init, Controlled, NoPod
    <2>2. cfg.replicas \in Nat BY ManagerAssumption DEF Init
    <2> QED BY <2>1, <2>2, FS_EmptySet DEF FullInv
  <1>2. CapInv /\ FullInv /\ [Next]_vars => CapInv' /\ FullInv'
    BY CapStep, FullStep DEF CapInv
  <1>3. CapInv /\ FullInv => PodsWithinMax BY LiveCount
  <1> QED BY <1>1, <1>2, <1>3, PTL DEF Spec

=============================================================================
