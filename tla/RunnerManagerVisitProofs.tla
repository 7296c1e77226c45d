---------------------- MODULE RunnerManagerVisitProofs ----------------------
(***************************************************************************)
(* Proofs about what the visits of RunnerManager do to a pod over several  *)
(* passes, for any pods, configurations and bounds: the disruption budget  *)
(* of an unlinked pod, and that a job is announced at least once and at    *)
(* most twice.                                                             *)
(***************************************************************************)
EXTENDS RunnerManagerProofs

-----------------------------------------------------------------------------
(* Pods come, and do not come back.                                        *)

\* A pod does not become one that has never been.
LEMMA PodsStay ==
    ASSUME TypeInv, [Next]_vars, NEW p \in Pods, pod[p].phase # "none"
    PROVE  pod'[p].phase # "none"
  <1>1. pod \in [Pods -> PodRecords] BY DEF TypeInv, TypeOK, EnvTypeOK
  <1>2. pc \in Visiting => cur \in Pods BY DEF TypeInv, CurInv
  <1>3. CASE DeletePod BY <1>1, <1>2, <1>3 DEF DeletePod, Visiting, PodRecords
  <1>4. CASE Protect BY <1>1, <1>2, <1>4 DEF Protect, Visiting, PodRecords
  <1>5. CASE Relabel BY <1>1, <1>2, <1>5 DEF Relabel, Visiting, PodRecords
  <1>6. CASE Unlink BY <1>1, <1>2, <1>6 DEF Unlink, Visiting, PodRecords
  <1>7. ASSUME NEW q \in Pods, ReplicaSet(q) PROVE pod'[p].phase # "none"
    BY <1>1, <1>7 DEF ReplicaSet, PodRecords
  <1>8. ASSUME NEW q \in Pods, PodStarts(q) PROVE pod'[p].phase # "none"
    BY <1>1, <1>8 DEF PodStarts, PodRecords
  <1>9. ASSUME NEW q \in Pods, Terminated(q) PROVE pod'[p].phase # "none"
    BY <1>1, <1>9 DEF Terminated, NoPod
  <1> QED BY <1>3, <1>4, <1>5, <1>6, <1>7, <1>8, <1>9, PodChanges

\* A pod that has started does not start again.
LEMMA StartedStays ==
    ASSUME TypeInv, [Next]_vars, NEW p \in Pods, pod[p].phase \notin {"none", "pending"}
    PROVE  pod'[p].phase \notin {"none", "pending"}
  <1>1. pod \in [Pods -> PodRecords] BY DEF TypeInv, TypeOK, EnvTypeOK
  <1>2. pc \in Visiting => cur \in Pods BY DEF TypeInv, CurInv
  <1>3. CASE DeletePod BY <1>1, <1>2, <1>3 DEF DeletePod, Visiting, PodRecords
  <1>4. CASE Protect BY <1>1, <1>2, <1>4 DEF Protect, Visiting, PodRecords
  <1>5. CASE Relabel BY <1>1, <1>2, <1>5 DEF Relabel, Visiting, PodRecords
  <1>6. CASE Unlink BY <1>1, <1>2, <1>6 DEF Unlink, Visiting, PodRecords
  <1>7. ASSUME NEW q \in Pods, ReplicaSet(q) \/ PodStarts(q) \/ Terminated(q)
        PROVE  pod'[p].phase \notin {"none", "pending"}
    <2>1. CASE ReplicaSet(q) BY <1>1, <2>1 DEF ReplicaSet, PodRecords
    <2>2. CASE PodStarts(q) BY <1>1, <2>2 DEF PodStarts, PodRecords
    <2>3. CASE Terminated(q) BY <1>1, <2>3 DEF Terminated, NoPod
    <2> QED BY <1>7, <2>1, <2>2, <2>3
  <1> QED BY <1>3, <1>4, <1>5, <1>6, <1>7, PodChanges

\* A pod that runs ran before, or starts.
LEMMA RanBefore ==
    ASSUME TypeInv, [Next]_vars, NEW p \in Pods, pod'[p].phase = "running"
    PROVE  pod[p].phase = "running" \/ PodStarts(p)
  <1>1. pod \in [Pods -> PodRecords] BY DEF TypeInv, TypeOK, EnvTypeOK
  <1>2. pc \in Visiting => cur \in Pods BY DEF TypeInv, CurInv
  <1>3. CASE DeletePod BY <1>1, <1>2, <1>3 DEF DeletePod, Visiting, PodRecords
  <1>4. CASE Protect BY <1>1, <1>2, <1>4 DEF Protect, Visiting, PodRecords
  <1>5. CASE Relabel BY <1>1, <1>2, <1>5 DEF Relabel, Visiting, PodRecords
  <1>6. CASE Unlink BY <1>1, <1>2, <1>6 DEF Unlink, Visiting, PodRecords
  <1>7. ASSUME NEW q \in Pods, ReplicaSet(q) \/ PodStarts(q) \/ Terminated(q)
        PROVE  pod[p].phase = "running" \/ PodStarts(p)
    <2>1. CASE ReplicaSet(q) BY <1>1, <2>1 DEF ReplicaSet, PodRecords
    <2>2. CASE PodStarts(q) BY <1>1, <2>2 DEF PodStarts, PodRecords
    <2>3. CASE Terminated(q) BY <1>1, <2>3 DEF Terminated, NoPod
    <2> QED BY <1>7, <2>1, <2>2, <2>3
  <1> QED BY <1>3, <1>4, <1>5, <1>6, <1>7, PodChanges

-----------------------------------------------------------------------------
(* The disruption budget of an unlinked pod.  Budget, label and unlinking  *)
(* are three calls; the invariant says how far a visit has come.           *)

\* Every configuration asks for protection.
AlwaysDeny == \A c \in Configs : c.denyDisruption

\* The pod of a visit has been there, and may be gone.
ThereInv == pc \in Visiting => pod[cur].phase # "none"

\* A visit that comes to the label has seen to the budget.
CoveredInv == pc = "relabel" /\ Exists(cur) => pod[cur].pdb

LabelInv == TypeInv /\ ThereInv /\ LabelMeansBudget /\ CoveredInv

\* A pod has the label before it leaves, and so it does in a visit.
LeaveInv == \A p \in Pods : Exists(p) /\ ~pod[p].hash => pod[p].name
ReachedInv == pc = "unlink" => podList[cur].name

ProtInv == LabelInv /\ LeaveInv /\ ReachedInv

\* There is no pod at the start.
LEMMA ProtInit == Init => ProtInv
  <1> SUFFICES ASSUME Init PROVE ProtInv
    OBVIOUS
  <1>1. ThereInv /\ LabelMeansBudget /\ CoveredInv /\ LeaveInv /\ ReachedInv
    BY DEF Init, ThereInv, LabelMeansBudget, CoveredInv, LeaveInv, ReachedInv, Visiting, Exists,
           NoPod
  <1> QED BY <1>1, TypeInit DEF ProtInv, LabelInv

\* The pod of a visit stays one that has been there.
LEMMA ThereStep ==
    ASSUME TypeInv, ThereInv, [Next]_vars
    PROVE  ThereInv'
  <1>1. ASSUME UNCHANGED <<pc, cur>> PROVE ThereInv'
    BY <1>1, PodsStay DEF ThereInv, TypeInv, CurInv
  <1>2. ASSUME pc \in Visiting, cur' = cur PROVE ThereInv'
    BY <1>2, PodsStay DEF ThereInv, TypeInv, CurInv
  <1>3. ASSUME pc' \notin Visiting PROVE ThereInv'
    BY <1>3 DEF ThereInv
  <1>4. ASSUME NEW p \in Pods, GetStatus(p) PROVE ThereInv'
    BY <1>4 DEF GetStatus, Continue, VisitEnds, ThereInv, envVars, Visiting
  <1>5. CASE Manager
    <2>1. ASSUME PostResult \/ PutDeletionTime \/ Protect \/ Relabel PROVE ThereInv'
      BY <1>2, <1>3, <2>1 DEF PostResult, PutDeletionTime, Protect, Relabel, Continue, VisitEnds,
                              Visiting
    <2> QED BY <1>1, <1>3, <1>4, <1>5, <2>1
            DEF Manager, FetchRunnerPods, FetchRunners, BeginMaintain, SkipPod, DeletePod, Unlink,
                PodsVisited, RemoveRunner, EndPass, PassEnds, VisitEnds, Visiting
  <1>6. CASE RestartController BY <1>3, <1>6 DEF RestartController, PassEnds, Visiting
  <1>7. CASE UNCHANGED passVars BY <1>1, <1>7 DEF passVars
  <1> QED BY <1>5, <1>6, <1>7, OtherSteps

\* A step that leaves the pods alone and does not come to the label.
LEMMA QuietLabel ==
    ASSUME LabelInv, UNCHANGED pod, UNCHANGED <<pc, cur>> \/ pc' # "relabel"
    PROVE  LabelMeansBudget' /\ CoveredInv'
  BY DEF LabelInv, LabelMeansBudget, CoveredInv, Exists

\* What the steps that leave the pods alone do to the visit.
LEMMA QuietVisit ==
    ASSUME [Next]_vars, UNCHANGED pod, ~Protect, ~Relabel
    PROVE  UNCHANGED <<pc, cur, podList>> \/ pc' \notin {"relabel", "unlink"}
  <1>1. CASE Manager
    <2>1. ASSUME PostResult \/ PutDeletionTime \/ \E p \in Pods : GetStatus(p)
          PROVE  pc' \notin {"relabel", "unlink"}
      BY <2>1, AfterStatusType DEF PostResult, PutDeletionTime, GetStatus, Continue, VisitEnds
    <2> QED
      BY <1>1, <2>1
      DEF Manager, FetchRunnerPods, FetchRunners, BeginMaintain, SkipPod, DeletePod, Unlink,
          PodsVisited, RemoveRunner, EndPass, PassEnds, VisitEnds
  <1>2. CASE RestartController BY <1>2 DEF RestartController, PassEnds
  <1>3. CASE UNCHANGED passVars BY <1>3 DEF passVars
  <1> QED BY <1>1, <1>2, <1>3, OtherSteps

\* The steps of a pod's life: it is made without a label of its own, goes, or
\* keeps its labels and its budget.
LEMMA LifeSteps ==
    ASSUME pod \in [Pods -> PodRecords], NEW p \in Pods,
           ReplicaSet(p) \/ PodStarts(p) \/ Terminated(p)
    PROVE  /\ \A q \in Pods : q # p => pod'[q] = pod[q]
           /\ \/ pod'[p].hash /\ ~pod'[p].name
              \/ pod'[p].phase = "gone"
              \/ /\ Exists(p) /\ pod'[p].hash = pod[p].hash
                 /\ pod'[p].name = pod[p].name /\ pod'[p].pdb = pod[p].pdb
  <1>1. ASSUME NEW r, pod' = [pod EXCEPT ![p] = r]
        PROVE  pod'[p] = r /\ \A q \in Pods : q # p => pod'[q] = pod[q]
    BY <1>1
  <1>2. ASSUME NEW ph, pod' = [pod EXCEPT ![p].phase = ph], Exists(p)
        PROVE  /\ \A q \in Pods : q # p => pod'[q] = pod[q]
               /\ Exists(p) /\ pod'[p].hash = pod[p].hash
               /\ pod'[p].name = pod[p].name /\ pod'[p].pdb = pod[p].pdb
    <2>1. pod'[p] = [pod[p] EXCEPT !.phase = ph] /\ \A q \in Pods : q # p => pod'[q] = pod[q]
      BY <1>2
    <2>2. pod[p] \in PodRecords OBVIOUS
    <2> QED BY <1>2, <2>1, <2>2 DEF PodRecords
  <1>3. CASE ReplicaSet(p)
    <2>1. CASE pod' = [pod EXCEPT ![p] = [phase |-> "pending", hash |-> TRUE, name |-> FALSE,
                                          pdb |-> FALSE, created |-> now]]
      <3> DEFINE r == [phase |-> "pending", hash |-> TRUE, name |-> FALSE, pdb |-> FALSE,
                       created |-> now]
      <3>1. r.hash /\ ~r.name OBVIOUS
      <3> HIDE DEF r
      <3>2. pod' = [pod EXCEPT ![p] = r] BY <2>1 DEF r
      <3> QED BY <1>1, <3>1, <3>2
    <2>2. CASE p \in Controlled /\ pod' = [pod EXCEPT ![p].phase = "terminating"]
      <3>1. Exists(p) BY <2>2 DEF Controlled, Exists
      <3> QED BY <1>2, <2>2, <3>1
    <2> QED BY <1>3, <2>1, <2>2 DEF ReplicaSet
  <1>4. CASE PodStarts(p)
    <2>1. Exists(p) /\ pod' = [pod EXCEPT ![p].phase = "running"]
      BY <1>4 DEF PodStarts, Exists
    <2> QED BY <1>2, <2>1
  <1>5. CASE Terminated(p)
    <2> DEFINE r == [NoPod EXCEPT !.phase = "gone"]
    <2>1. r.phase = "gone" BY DEF NoPod
    <2> HIDE DEF r
    <2>2. pod' = [pod EXCEPT ![p] = r] BY <1>5 DEF Terminated, r
    <2> QED BY <1>1, <2>1, <2>2
  <1> QED BY <1>3, <1>4, <1>5

\* Every step keeps the budget ahead of the label, whatever denyDisruption is.
LEMMA LabelStep ==
    ASSUME LabelInv, [Next]_vars
    PROVE  LabelInv'
  <1>1. TypeInv /\ TypeInv' /\ ThereInv' BY TypeStep, ThereStep DEF LabelInv
  <1>2. pod \in [Pods -> PodRecords] /\ podList \in [Pods -> PodRecords]
    BY <1>1 DEF TypeInv, TypeOK, EnvTypeOK, PassTypeOK
  <1>3. pc \in Visiting => cur \in Pods BY <1>1 DEF TypeInv, CurInv
  <1> SUFFICES LabelMeansBudget' /\ CoveredInv'
    BY <1>1 DEF LabelInv
  <1>4. CASE DeletePod
    BY <1>2, <1>3, <1>4
    DEF LabelInv, DeletePod, VisitEnds, Visiting, LabelMeansBudget, CoveredInv, Exists, PodRecords
  <1>5. CASE Protect
    <2>1. cur \in Pods BY <1>3, <1>5 DEF Protect, Visiting
    <2>2. CASE /\ pod' = IF Exists(cur) THEN [pod EXCEPT ![cur].pdb = TRUE] ELSE pod
               /\ Continue("relabel", cur, status)
      <3>1. LabelMeansBudget'
        BY <1>2, <2>1, <2>2 DEF LabelInv, LabelMeansBudget, Exists, PodRecords
      <3>2. CoveredInv'
        BY <1>2, <2>1, <2>2 DEF Continue, VisitEnds, CoveredInv, Exists, PodRecords
      <3> QED BY <3>1, <3>2
    <2>3. CASE UNCHANGED pod /\ VisitEnds BY <2>3, QuietLabel DEF VisitEnds
    <2>4. CASE UNCHANGED pod /\ Continue(AfterRelabel(cur), cur, status)
      <3>1. pc' # "relabel" BY <2>4, AfterStatusType DEF Continue, VisitEnds
      <3> QED BY <2>4, <3>1, QuietLabel
    <2> QED BY <1>5, <2>2, <2>3, <2>4 DEF Protect
  <1>6. CASE Relabel
    <2>1. cur \in Pods BY <1>3, <1>6 DEF Relabel, Visiting
    <2>2. CASE /\ pod' = [pod EXCEPT ![cur].name = TRUE]
               /\ Continue(AfterRelabel(cur), cur, status)
      <3>1. Exists(cur) => pod[cur].pdb BY <1>6 DEF Relabel, LabelInv, CoveredInv
      <3>2. LabelMeansBudget'
        BY <1>2, <2>1, <2>2, <3>1 DEF LabelInv, LabelMeansBudget, Exists, PodRecords
      <3>3. pc' # "relabel" BY <2>2, AfterStatusType DEF Continue, VisitEnds
      <3> QED BY <3>2, <3>3 DEF CoveredInv
    <2>3. CASE UNCHANGED pod /\ VisitEnds BY <2>3, QuietLabel DEF VisitEnds
    <2> QED BY <1>6, <2>2, <2>3 DEF Relabel
  <1>7. CASE Unlink
    <2>1. cur \in Pods BY <1>3, <1>7 DEF Unlink, Visiting
    <2>2. CASE pod' = [pod EXCEPT ![cur].hash = FALSE] /\ VisitEnds
      BY <1>2, <2>1, <2>2
      DEF LabelInv, LabelMeansBudget, CoveredInv, VisitEnds, Exists, PodRecords
    <2>3. CASE UNCHANGED pod /\ VisitEnds BY <2>3, QuietLabel DEF VisitEnds
    <2> QED BY <1>7, <2>2, <2>3 DEF Unlink
  <1>8. ASSUME NEW p \in Pods, ReplicaSet(p) \/ PodStarts(p) \/ Terminated(p)
        PROVE  LabelMeansBudget' /\ CoveredInv'
    <2>1. UNCHANGED <<pc, cur>>
      BY <1>8 DEF ReplicaSet, PodStarts, Terminated, passVars
    <2>2. LabelMeansBudget'
      BY <1>2, <1>8, LifeSteps DEF LabelInv, LabelMeansBudget, Exists
    <2>3. CoveredInv'
      <3>1. pc = "relabel" => cur \in Pods /\ pod[cur].phase # "none"
        BY <1>3 DEF LabelInv, ThereInv, Visiting
      <3>2. ASSUME pc = "relabel", Exists(cur)' PROVE pod'[cur].pdb
        <4>1. ASSUME Exists(cur), pod'[cur].pdb = pod[cur].pdb PROVE pod'[cur].pdb
          BY <3>2, <4>1 DEF LabelInv, CoveredInv
        <4>2. CASE ReplicaSet(p)
          BY <1>2, <2>1, <3>1, <3>2, <4>1, <4>2 DEF ReplicaSet, Controlled, Exists, PodRecords
        <4>3. CASE PodStarts(p)
          BY <1>2, <2>1, <3>1, <3>2, <4>1, <4>3 DEF PodStarts, Exists, PodRecords
        <4>4. CASE Terminated(p)
          BY <1>2, <2>1, <3>1, <3>2, <4>1, <4>4 DEF Terminated, NoPod, Exists
        <4> QED BY <1>8, <4>2, <4>3, <4>4
      <3> QED BY <2>1, <3>2 DEF CoveredInv
    <2> QED BY <2>2, <2>3
  <1>9. CASE UNCHANGED pod /\ ~Protect /\ ~Relabel BY <1>9, QuietLabel, QuietVisit
  <1> QED BY <1>4, <1>5, <1>6, <1>7, <1>8, <1>9, PodChanges

\* For any configurations and any changes of denyDisruption in the middle of a
\* visit, a pod that has the label which later passes go by has its budget.
THEOREM ManagerLabelMeansBudget == Spec => []LabelMeansBudget
  <1>1. Init => LabelInv BY ProtInit DEF ProtInv
  <1>2. LabelInv /\ [Next]_vars => LabelInv' BY LabelStep
  <1>3. LabelInv => LabelMeansBudget BY DEF LabelInv
  <1> QED BY <1>1, <1>2, <1>3, PTL DEF Spec

\* A step that leaves the pods alone and does not come to the unlinking.
LEMMA QuietProt ==
    ASSUME ProtInv, UNCHANGED pod, UNCHANGED <<pc, cur, podList>> \/ pc' # "unlink"
    PROVE  LeaveInv' /\ ReachedInv'
  BY DEF ProtInv, LeaveInv, ReachedInv, Exists

\* Every step keeps the order of the three calls.
LEMMA ProtStep ==
    ASSUME AlwaysDeny, ProtInv, [Next]_vars
    PROVE  ProtInv'
  <1>1. TypeInv /\ LabelInv' BY LabelStep DEF ProtInv, LabelInv
  <1>2. pod \in [Pods -> PodRecords] /\ podList \in [Pods -> PodRecords]
    BY <1>1 DEF TypeInv, TypeOK, EnvTypeOK, PassTypeOK
  <1>3. pc \in Visiting => cur \in Pods BY <1>1 DEF TypeInv, CurInv
  <1> SUFFICES LeaveInv' /\ ReachedInv'
    BY <1>1 DEF ProtInv
  <1>4. CASE DeletePod
    BY <1>2, <1>3, <1>4
    DEF ProtInv, DeletePod, VisitEnds, Visiting, LeaveInv, ReachedInv, Exists, PodRecords
  <1>5. CASE Protect
    <2>1. cfg.denyDisruption BY <1>1 DEF AlwaysDeny, TypeInv, TypeOK, ProcTypeOK
    <2>2. cur \in Pods BY <1>3, <1>5 DEF Protect, Visiting
    <2>3. CASE /\ pod' = IF Exists(cur) THEN [pod EXCEPT ![cur].pdb = TRUE] ELSE pod
               /\ Continue("relabel", cur, status)
      BY <1>2, <2>2, <2>3
      DEF ProtInv, LeaveInv, Continue, VisitEnds, ReachedInv, Exists, PodRecords
    <2>4. CASE UNCHANGED pod /\ VisitEnds BY <2>4, QuietProt DEF VisitEnds
    <2>5. CASE /\ podList[cur].name /\ UNCHANGED pod
               /\ Continue(AfterRelabel(cur), cur, status)
      <3>1. LeaveInv' BY <2>5 DEF ProtInv, LeaveInv, Exists
      <3>2. pc' = "visit" \/ (pc' = "unlink" /\ cur' = cur)
        BY <2>5, AfterStatusType DEF Continue, VisitEnds
      <3>3. ReachedInv' BY <1>5, <2>5, <3>2 DEF Protect, ReachedInv
      <3> QED BY <3>1, <3>3
    <2> QED BY <1>5, <2>1, <2>3, <2>4, <2>5 DEF Protect
  <1>6. CASE Relabel
    <2>1. cur \in Pods BY <1>3, <1>6 DEF Relabel, Visiting
    <2>2. CASE /\ pod' = [pod EXCEPT ![cur].name = TRUE]
               /\ podList' = [podList EXCEPT ![cur].name = TRUE]
               /\ Continue(AfterRelabel(cur), cur, status)
      <3>1. LeaveInv' BY <1>2, <2>1, <2>2 DEF ProtInv, LeaveInv, Exists, PodRecords
      <3>2. pc' = "visit" \/ (pc' = "unlink" /\ cur' = cur)
        BY <2>2, AfterStatusType DEF Continue, VisitEnds
      <3>3. podList'[cur].name BY <1>2, <2>1, <2>2 DEF PodRecords
      <3>4. ReachedInv' BY <3>2, <3>3 DEF ReachedInv
      <3> QED BY <3>1, <3>4
    <2>3. CASE UNCHANGED pod /\ VisitEnds BY <2>3, QuietProt DEF VisitEnds
    <2> QED BY <1>6, <2>2, <2>3 DEF Relabel
  <1>7. CASE Unlink
    <2>1. cur \in Pods BY <1>3, <1>7 DEF Unlink, Visiting
    <2>2. CASE Fresh(cur) /\ pod' = [pod EXCEPT ![cur].hash = FALSE] /\ VisitEnds
      <3>1. pod[cur].name BY <1>7, <2>2 DEF Unlink, ProtInv, ReachedInv, Fresh
      <3>2. LeaveInv' BY <1>2, <2>1, <2>2, <3>1 DEF ProtInv, LeaveInv, Exists, PodRecords
      <3> QED BY <2>2, <3>2 DEF VisitEnds, ReachedInv
    <2>3. CASE UNCHANGED pod /\ VisitEnds BY <2>3, QuietProt DEF VisitEnds
    <2> QED BY <1>7, <2>2, <2>3 DEF Unlink
  <1>8. ASSUME NEW p \in Pods, ReplicaSet(p) \/ PodStarts(p) \/ Terminated(p)
        PROVE  LeaveInv' /\ ReachedInv'
    <2>1. UNCHANGED <<pc, cur, podList>>
      BY <1>8 DEF ReplicaSet, PodStarts, Terminated, passVars
    <2>2. LeaveInv'
      BY <1>2, <1>8, LifeSteps DEF ProtInv, LeaveInv, Exists
    <2> QED BY <2>1, <2>2 DEF ProtInv, ReachedInv
  <1>9. CASE UNCHANGED pod /\ ~Protect /\ ~Relabel BY <1>9, QuietProt, QuietVisit
  <1> QED BY <1>4, <1>5, <1>6, <1>7, <1>8, <1>9, PodChanges

\* If every configuration asks for it, a pod that has left its ReplicaSet is
\* covered by a budget of its own, whichever of the three calls has failed in
\* whichever pass.
THEOREM ManagerProtectedWhenUnlinked ==
    ASSUME AlwaysDeny
    PROVE  Spec => []ProtectedWhenUnlinked
  <1>1. ProtInv /\ [Next]_vars => ProtInv' BY ProtStep
  <1>2. ProtInv => ProtectedWhenUnlinked
    BY DEF ProtInv, LabelInv, LabelMeansBudget, LeaveInv, ProtectedWhenUnlinked, Unlinked, Exists
  <1> QED BY <1>1, <1>2, ProtInit, PTL DEF Spec

-----------------------------------------------------------------------------
(* Announcements.  A pod finishes once; a pass announces what finished     *)
(* after the clock reading of the previous pass, and a job that finished   *)
(* before this pass read the clock is history for the next one.            *)

\* While the pods are visited.
Passing == Visiting \cup {"visit"}

\* The job of pod p finished no later than t, as far as the pod shows one.
Old(p, t) == st[p].state = "debugging" => st[p].finishedAt <= t

\* The pod will not publish a result any more.
Begun(p) ==
    st[p].state \notin {"initializing", "running"} /\ pod[p].phase \notin {"none", "pending"}

ClockInv == lastCheckTime <= now /\ \A p \in Pods : Old(p, now)

\* A job that was announced was published; a second announcement makes it
\* history for all passes to come.
AnnouncedInv ==
    \A p \in Pods :
        /\ posts[p] <= 2
        /\ posts[p] >= 1 => Begun(p)
        /\ posts[p] = 2 => Old(p, lastCheckTime)

\* What the pass that is under way may still announce.
AheadInv ==
    /\ pc \in Passing => \A p \in todo :
          /\ posts[p] >= 1 => Old(p, lastCheckTime)
          /\ posts[p] = 2 => Old(p, snap.lastCheckTime)
    /\ pc = "post" =>
          /\ cur \notin todo /\ posts[cur] <= 1 /\ Begun(cur)
          /\ posts[cur] = 1 => Old(cur, lastCheckTime)

PostInv == TypeInv /\ ClockInv /\ AnnouncedInv /\ AheadInv

\* Nothing was announced at the start.
LEMMA PostInit == Init => PostInv
  <1> SUFFICES ASSUME Init PROVE PostInv
    OBVIOUS
  <1>1. ClockInv /\ AnnouncedInv /\ AheadInv
    BY NilAssumption
    DEF Init, ClockInv, AnnouncedInv, AheadInv, Old, ZeroStatus, Passing, Visiting
  <1> QED BY <1>1, TypeInit DEF PostInv

\* The steps that change the state or the finish time a pod shows.
LEMMA StatusChanges ==
    ASSUME TypeInv, [Next]_vars, NEW p \in Pods
    PROVE  \/ st'[p].state = st[p].state /\ st'[p].finishedAt = st[p].finishedAt
           \/ PodStarts(p) \/ Connect(p) \/ Publish(p) \/ RestartContainer(p) \/ Terminated(p)
  <1> DEFINE Same == st'[p].state = st[p].state /\ st'[p].finishedAt = st[p].finishedAt
  <1>1. st \in [Pods -> Statuses] BY DEF TypeInv, TypeOK, EnvTypeOK
  <1>2. ASSUME UNCHANGED st PROVE Same BY <1>2
  <1>3. CASE PutDeletionTime
    <2>1. cur \in Pods BY <1>3 DEF PutDeletionTime, TypeInv, CurInv, Visiting
    <2> QED BY <1>1, <1>3, <2>1 DEF PutDeletionTime, Statuses
  <1>4. ASSUME NEW q \in Pods, AgentPut(q) \/ AgentDelete(q) PROVE Same
    BY <1>1, <1>4 DEF AgentPut, AgentDelete, Statuses
  <1>5. ASSUME NEW q \in Pods, q # p,
               PodStarts(q) \/ Connect(q) \/ Publish(q) \/ RestartContainer(q) \/ Terminated(q)
        PROVE  Same
    BY <1>1, <1>5 DEF PodStarts, Connect, Publish, RestartContainer, Terminated
  <1>6. CASE Manager
    BY <1>2, <1>3, <1>6
    DEF Manager, FetchRunnerPods, FetchRunners, BeginMaintain, SkipPod, GetStatus, PostResult,
        DeletePod, Protect, Relabel, Unlink, PodsVisited, RemoveRunner, EndPass, envVars
  <1>7. ASSUME NEW q \in Pods, PodSteps(q)
        PROVE  \/ Same
               \/ PodStarts(p) \/ Connect(p) \/ Publish(p) \/ RestartContainer(p)
               \/ Terminated(p)
    BY <1>2, <1>5, <1>7 DEF PodSteps, ReplicaSet, Register, TakeJob, EndJob
  <1>8. ASSUME NEW q \in Pods, Agent(q) PROVE Same
    BY <1>2, <1>4, <1>8 DEF Agent, AgentExtend
  <1> QED
    BY <1>2, <1>6, <1>7, <1>8 DEF Next, Update, RestartController, Tick, vars, envVars

\* A pod that has published stays one that has, with the finish time it has.
LEMMA BegunStays ==
    ASSUME TypeInv, [Next]_vars, NEW p \in Pods, Begun(p)
    PROVE  /\ Begun(p)'
           /\ \A t : Old(p, t) => Old(p, t)'
  <1>1. /\ st \in [Pods -> Statuses] /\ pod \in [Pods -> PodRecords]
    BY DEF TypeInv, TypeOK, EnvTypeOK
  <1>2. pod'[p].phase \notin {"none", "pending"}
    BY StartedStays DEF Begun
  <1>4. \/ st'[p].state = st[p].state /\ st'[p].finishedAt = st[p].finishedAt
        \/ st'[p].state \in {"stale", Nil}
    <2>1. ~PodStarts(p) /\ ~Connect(p) /\ ~Publish(p)
      BY DEF Begun, PodStarts, Connect, Publish
    <2>2. RestartContainer(p) \/ Terminated(p) => st'[p].state \in {"stale", Nil}
      BY <1>1 DEF RestartContainer, Terminated, ZeroStatus
    <2> QED BY <2>1, <2>2, StatusChanges
  <1>5. Begun(p)' BY <1>2, <1>4, NilAssumption DEF Begun
  <1>6. \A t : Old(p, t) => Old(p, t)' BY <1>4, NilAssumption DEF Old
  <1> QED BY <1>5, <1>6

\* The clock runs by one unit at a time.
LEMMA ClockRuns ==
    ASSUME [Next]_vars
    PROVE  now' \in {now, now + 1}
  BY DEF Next, Manager, FetchRunnerPods, FetchRunners, BeginMaintain, SkipPod, GetStatus,
         PostResult, DeletePod, PutDeletionTime, Protect, Relabel, Unlink, PodsVisited,
         RemoveRunner, EndPass, envVars, Update, RestartController, PodSteps, ReplicaSet,
         PodStarts, Register, Connect, TakeJob, EndJob, Publish, RestartContainer, Terminated,
         Agent, AgentExtend, AgentPut, AgentDelete, Tick, vars, AdvanceClock

\* The clock does not run back, and no job finishes in the future.
LEMMA ClockStep ==
    ASSUME TypeInv, ClockInv, [Next]_vars
    PROVE  ClockInv' /\ (lastCheckTime' = lastCheckTime \/ lastCheckTime' = now)
  <1>1. now \in Nat /\ lastCheckTime \in Nat /\ st \in [Pods -> Statuses]
    BY DEF TypeInv, TypeOK, EnvTypeOK, ProcTypeOK
  <1>2. now' \in {now, now + 1}
    BY ClockRuns
  <1>3. lastCheckTime' = lastCheckTime \/ lastCheckTime' = now
    BY DEF Next, Manager, FetchRunnerPods, FetchRunners, BeginMaintain, SkipPod, GetStatus,
         PostResult, DeletePod, PutDeletionTime, Protect, Relabel, Unlink, PodsVisited,
         RemoveRunner, EndPass, procVars, Update, RestartController, PodSteps, ReplicaSet,
         PodStarts, Register, Connect, TakeJob, EndJob, Publish, RestartContainer, Terminated,
         Agent, AgentExtend, AgentPut, AgentDelete, Tick, vars
  <1>4. lastCheckTime' <= now' BY <1>1, <1>2, <1>3 DEF ClockInv
  <1>5. ASSUME NEW p \in Pods PROVE Old(p, now)'
    <2>1. st[p].state = "debugging" => st[p].finishedAt \in Int
      BY DEF TypeInv, FinishInv
    <2>2. CASE st'[p].state = st[p].state /\ st'[p].finishedAt = st[p].finishedAt
      <3>1. st[p].state = "debugging" => st[p].finishedAt <= now BY DEF ClockInv, Old
      <3>2. st[p].state = "debugging" => st[p].finishedAt <= now' BY <1>1, <1>2, <2>1, <3>1
      <3> QED BY <2>2, <3>2 DEF Old
    <2>3. CASE PodStarts(p) \/ Connect(p) \/ RestartContainer(p) \/ Terminated(p)
      <3>1. st'[p].state # "debugging"
        BY <1>1, <2>3, NilAssumption
        DEF PodStarts, Connect, RestartContainer, Terminated, ZeroStatus, Statuses
      <3> QED BY <3>1 DEF Old
    <2>4. CASE Publish(p)
      <3>1. PICK ext \in BOOLEAN, d \in 0 .. PublishDelay :
               st' = [st EXCEPT ![p].state = "debugging", ![p].finishedAt = now - d,
                                ![p].extend = ext]
        BY <2>4 DEF Publish
      <3>2. st'[p].finishedAt = now - d BY <1>1, <3>1 DEF Statuses
      <3>3. now - d <= now /\ now - d \in Int BY <1>1, ManagerAssumption
      <3> QED BY <1>1, <1>2, <3>2, <3>3 DEF Old
    <2> QED BY <2>2, <2>3, <2>4, StatusChanges
  <1> QED BY <1>3, <1>4, <1>5 DEF ClockInv

\* A step that announces nothing and sends the pass to no new announcement.
LEMMA QuietPost ==
    ASSUME PostInv, [Next]_vars, UNCHANGED <<posts, lastCheckTime>>,
           \/ pc' \notin Passing
           \/ /\ pc \in Passing /\ todo' \subseteq todo /\ UNCHANGED snap
              /\ pc' = "post" => pc = "post" /\ UNCHANGED cur
    PROVE  AnnouncedInv' /\ AheadInv'
  <1>1. TypeInv /\ todo \subseteq Pods /\ posts \in [Pods -> Nat]
    BY DEF PostInv, TypeInv, TypeOK, PassTypeOK, HistTypeOK
  <1>2. ASSUME NEW p \in Pods, Begun(p)
        PROVE  /\ Begun(p)'
               /\ Old(p, lastCheckTime) => Old(p, lastCheckTime)'
               /\ Old(p, snap.lastCheckTime) /\ UNCHANGED snap => Old(p, snap.lastCheckTime)'
    BY <1>1, <1>2, BegunStays DEF Old
  <1>3. ASSUME NEW p \in Pods, posts[p] >= 1 PROVE Begun(p)
    BY <1>3 DEF PostInv, AnnouncedInv
  <1>4. AnnouncedInv'
    BY <1>1, <1>2, <1>3 DEF PostInv, AnnouncedInv
  <1>5. CASE pc' \notin Passing
    <2>1. pc' # "post" BY <1>5 DEF Passing, Visiting
    <2> QED BY <1>4, <1>5, <2>1 DEF AheadInv
  <1>6. CASE /\ pc \in Passing /\ todo' \subseteq todo /\ UNCHANGED snap
             /\ pc' = "post" => pc = "post" /\ UNCHANGED cur
    <2>1. ASSUME NEW p \in todo'
          PROVE  /\ posts[p] >= 1 => Old(p, lastCheckTime)'
                 /\ posts[p] = 2 => Old(p, snap.lastCheckTime)'
      BY <1>1, <1>2, <1>3, <1>6, <2>1 DEF PostInv, AheadInv
    <2>2. ASSUME pc' = "post"
          PROVE  /\ cur \in Pods /\ cur \notin todo' /\ posts[cur] <= 1 /\ Begun(cur)'
                 /\ posts[cur] = 1 => Old(cur, lastCheckTime)'
                 /\ cur' = cur
      <3>1. cur \in Pods BY <1>1, <1>6, <2>2 DEF TypeInv, CurInv, Visiting
      <3> QED BY <1>2, <1>6, <2>2, <3>1 DEF PostInv, AheadInv
    <2>3. (pc = "post" =>
             /\ cur \notin todo /\ posts[cur] <= 1 /\ Begun(cur)
             /\ posts[cur] = 1 => Old(cur, lastCheckTime))'
      <3> SUFFICES ASSUME pc' = "post"
                   PROVE  (/\ cur \notin todo /\ posts[cur] <= 1 /\ Begun(cur)
                           /\ posts[cur] = 1 => Old(cur, lastCheckTime))'
        OBVIOUS
      <3> QED BY <2>2 DEF Old, Begun
    <2>4. (pc \in Passing => \A p \in todo :
             /\ posts[p] >= 1 => Old(p, lastCheckTime)
             /\ posts[p] = 2 => Old(p, snap.lastCheckTime))'
      <3> SUFFICES ASSUME NEW p \in todo'
                   PROVE  /\ posts'[p] >= 1 => Old(p, lastCheckTime)'
                          /\ posts'[p] = 2 => Old(p, snap.lastCheckTime)'
        OBVIOUS
      <3> QED BY <2>1
    <2>5. AheadInv'
      BY <2>3, <2>4 DEF AheadInv
    <2> QED BY <1>4, <2>5
  <1> QED BY <1>5, <1>6

\* Every step keeps the account of the announcements.
LEMMA PostStep == PostInv /\ [Next]_vars => PostInv'
  <1> SUFFICES ASSUME PostInv, [Next]_vars PROVE PostInv'
    OBVIOUS
  <1>1. TypeInv /\ TypeInv' /\ ClockInv /\ ClockInv'
    BY TypeStep, ClockStep DEF PostInv
  <1>2. /\ todo \subseteq Pods /\ posts \in [Pods -> Nat] /\ st \in [Pods -> Statuses]
        /\ lastCheckTime \in Nat /\ now \in Nat /\ snap.lastCheckTime \in Nat
    BY <1>1 DEF TypeInv, TypeOK, EnvTypeOK, ProcTypeOK, PassTypeOK, HistTypeOK, Snaps
  <1> SUFFICES AnnouncedInv' /\ AheadInv'
    BY <1>1 DEF PostInv
  <1>3. ASSUME lastCheckTime' = now, UNCHANGED posts PROVE AnnouncedInv'
    <2> SUFFICES ASSUME NEW p \in Pods
                 PROVE  /\ posts[p] <= 2
                        /\ posts[p] >= 1 => Begun(p)'
                        /\ posts[p] = 2 => Old(p, lastCheckTime)'
      BY <1>3 DEF AnnouncedInv
    <2>1. posts[p] <= 2 /\ (posts[p] >= 1 => Begun(p)) BY DEF PostInv, AnnouncedInv
    <2>2. posts[p] \in Nat BY <1>2
    <2>3. Old(p, now) BY <1>1 DEF ClockInv
    <2>4. CASE posts[p] >= 1
      <3>1. Begun(p)' /\ \A t : Old(p, t) => Old(p, t)' BY <1>1, <2>1, <2>4, BegunStays
      <3>2. Old(p, lastCheckTime)' BY <1>3, <2>3, <3>1 DEF Old
      <3> QED BY <2>1, <3>1, <3>2
    <2> QED BY <2>1, <2>2, <2>4
  <1>4. CASE BeginMaintain
    <2>1. /\ lastCheckTime' = now /\ UNCHANGED <<posts, st>> /\ pc' = "visit"
          /\ todo' \subseteq Pods /\ snap'.lastCheckTime = lastCheckTime
      BY <1>4 DEF BeginMaintain, TakeSnap
    <2>2. ASSUME NEW p \in todo'
          PROVE  /\ posts'[p] >= 1 => Old(p, lastCheckTime)'
                 /\ posts'[p] = 2 => Old(p, snap.lastCheckTime)'
      <3>1. Old(p, now) /\ (posts[p] = 2 => Old(p, lastCheckTime))
        BY <1>1, <2>1, <2>2 DEF ClockInv, PostInv, AnnouncedInv
      <3> QED BY <2>1, <3>1 DEF Old
    <2>3. AheadInv' BY <2>1, <2>2 DEF AheadInv
    <2> QED BY <1>3, <2>1, <2>3
  <1>5. CASE RestartController
    <2>1. lastCheckTime' = now /\ UNCHANGED posts /\ pc' = "idle"
      BY <1>5 DEF RestartController, PassEnds
    <2>2. AheadInv' BY <2>1 DEF AheadInv, Passing, Visiting
    <2> QED BY <1>3, <2>1, <2>2
  <1>6. ASSUME NEW p \in Pods, GetStatus(p) PROVE AnnouncedInv' /\ AheadInv'
    <2>1. /\ UNCHANGED <<posts, lastCheckTime, snap, st, pod>> /\ pc \in Passing
          /\ todo' = todo \ {p} /\ p \in todo
          /\ pod[p].phase \in {"running", "terminating"}
      BY <1>6 DEF GetStatus, envVars, procVars, histVars, Passing
    <2>2. CASE AfterStatus(p, st[p]) # "post"
      <3>1. pc' # "post" BY <1>6, <2>2 DEF GetStatus, Continue, VisitEnds
      <3> QED BY <2>1, <3>1, QuietPost
    <2>3. CASE AfterStatus(p, st[p]) = "post"
      <3>1. pc' = "post" /\ cur' = p
        BY <1>6, <2>3 DEF GetStatus, Continue
      <3>2. st[p].state = "debugging" BY <2>3, AfterStatusType
      <3>3. st[p].finishedAt > snap.lastCheckTime
        BY <2>3 DEF AfterStatus, AfterPost, AfterDebugging, New
      <3>4. st[p].finishedAt \in Int BY <1>1, <3>2 DEF TypeInv, FinishInv
      <3>5. /\ posts[p] >= 1 => Old(p, lastCheckTime)
            /\ posts[p] # 2 /\ posts[p] <= 2
        BY <1>2, <2>1, <3>2, <3>3, <3>4 DEF PostInv, AheadInv, AnnouncedInv, Old
      <3>6. posts[p] <= 1 BY <1>2, <3>5
      <3>7. Begun(p) BY <2>1, <3>2 DEF Begun
      <3>8. AnnouncedInv' BY <2>1 DEF PostInv, AnnouncedInv, Old, Begun
      <3>9. AheadInv'
        BY <1>2, <2>1, <3>1, <3>5, <3>6, <3>7 DEF PostInv, AheadInv, Old, Begun
      <3> QED BY <3>8, <3>9
    <2> QED BY <2>2, <2>3
  <1>7. CASE PostResult
    <2>1. /\ cur \in Pods /\ cur \notin todo /\ posts[cur] <= 1 /\ Begun(cur)
          /\ posts[cur] = 1 => Old(cur, lastCheckTime)
      BY <1>1, <1>7 DEF PostResult, PostInv, AheadInv, TypeInv, CurInv, Visiting
    <2>2. /\ posts' = [posts EXCEPT ![cur] = @ + 1]
          /\ UNCHANGED <<lastCheckTime, snap, st, pod, todo>> /\ pc \in Passing
      BY <1>7 DEF PostResult, procVars, Passing, Visiting
    <2>3. pc' # "post"
      <3>1. AfterPost(cur, status) # "post" BY AfterStatusType
      <3> QED BY <1>7, <3>1 DEF PostResult, Continue, VisitEnds
    <2>4. AnnouncedInv'
      BY <1>2, <2>1, <2>2 DEF PostInv, AnnouncedInv, Old, Begun
    <2>5. AheadInv'
      BY <1>2, <2>1, <2>2, <2>3 DEF PostInv, AheadInv, Old
    <2> QED BY <2>4, <2>5
  <1>8. CASE Manager
    <2>1. ASSUME NEW p \in Pods, SkipPod(p) PROVE AnnouncedInv' /\ AheadInv'
      BY <2>1, QuietPost DEF SkipPod, procVars, Passing
    <2>2. ASSUME DeletePod \/ PutDeletionTime \/ Protect \/ Relabel \/ Unlink
          PROVE  AnnouncedInv' /\ AheadInv'
      <3>1. /\ UNCHANGED <<posts, lastCheckTime, snap, todo>> /\ pc \in Passing
        BY <2>2 DEF DeletePod, PutDeletionTime, Protect, Relabel, Unlink, procVars, Passing,
                    Visiting
      <3>2. AfterDebugging(cur, status) # "post" /\ AfterRelabel(cur) # "post"
        BY AfterStatusType
      <3>3. pc' # "post"
        BY <2>2, <3>2
        DEF DeletePod, PutDeletionTime, Protect, Relabel, Unlink, Continue, VisitEnds
      <3> QED BY <3>1, <3>3, QuietPost
    <2>3. ASSUME \/ FetchRunnerPods \/ FetchRunners \/ PodsVisited \/ EndPass
                 \/ \E r \in Pods : RemoveRunner(r)
          PROVE  AnnouncedInv' /\ AheadInv'
      <3>1. UNCHANGED <<posts, lastCheckTime>> /\ pc' \notin Passing
        BY <2>3 DEF FetchRunnerPods, FetchRunners, PodsVisited, EndPass, RemoveRunner, PassEnds,
                    procVars, histVars, Passing, Visiting
      <3> QED BY <3>1, QuietPost
    <2> QED BY <1>4, <1>6, <1>7, <1>8, <2>1, <2>2, <2>3 DEF Manager
  <1>9. CASE UNCHANGED passVars /\ ~Manager /\ ~RestartController
    <2>1. UNCHANGED <<posts, lastCheckTime>>
      BY <1>9
      DEF Next, Update, PodSteps, ReplicaSet, PodStarts, Register, Connect, TakeJob, EndJob,
          Publish, RestartContainer, Terminated, Agent, AgentExtend, AgentPut, AgentDelete, Tick,
          vars, procVars, histVars
    <2> QED BY <1>9, <2>1, QuietPost DEF passVars
  <1> QED BY <1>5, <1>8, <1>9, OtherSteps

\* A job is announced at most twice, whatever fails, restarts or is configured
\* anew in the middle of a pass.
THEOREM ManagerAtMostTwoPosts == Spec => []AtMostTwoPosts
  <1>1. PostInv => AtMostTwoPosts BY DEF PostInv, AnnouncedInv, AtMostTwoPosts
  <1> QED BY <1>1, PostInit, PostStep, PTL DEF Spec

-----------------------------------------------------------------------------
(* No job is missed.  A job that finished before the clock reading of a    *)
(* pass belongs to a pod that this pass has listed, and the pass meets it: *)
(* the next one takes it for history.                                      *)

\* Every configuration asks for notifications.
AlwaysNotify == \A c \in Configs : c.notify

\* No call has failed, and the controller has not restarted.
Calm == failures = 0 /\ restarts = 0

\* The pod shows the result of a job that it published in time.
Due(p) == pod[p].phase = "running" /\ st[p].state = "debugging" /\ p \notin overtaken

\* What a pod publishes from now on is newer than the last reading of the
\* clock.
AfterInv == lastCheckTime < now \/ now >= MaxTime

\* Until the pods are visited, the list shows every pod that runs.
ShownInv ==
    pc \in {"runners", "maintain"} =>
        \A p \in Pods : pod[p].phase = "running" /\ p \notin overtaken
                          => podList[p].phase = "running"

SnapInv == pc \in Passing => snap.notify /\ snap.lastCheckTime <= lastCheckTime

\* A job that the next pass takes for history was announced, or this pass will
\* announce it.
Awaits(p) ==
    \/ pc \in Passing /\ p \in todo /\ podList[p].phase = "running"
          /\ st[p].finishedAt > snap.lastCheckTime
    \/ pc = "post" /\ cur = p

DueInv ==
    Calm => \A p \in Pods :
        Due(p) /\ st[p].finishedAt <= lastCheckTime => posts[p] >= 1 \/ Awaits(p)

\* The pod of a visit runs or has run; past the notification its job was
\* announced.
MetInv == pc \in Visiting => pod[cur].phase \notin {"none", "pending"}

DealtInv ==
    Calm /\ pc \in Visiting \ {"post"} /\ status.state = "debugging"
         /\ pod[cur].phase = "running" /\ cur \notin overtaken => posts[cur] >= 1

MissInv ==
    /\ TypeInv /\ ClockInv /\ AfterInv /\ ShownInv /\ SnapInv /\ DueInv /\ MetInv /\ DealtInv

\* No pod runs at the start, and the clock is ahead of lastCheckTime.
LEMMA MissInit == Init => MissInv
  <1> SUFFICES ASSUME Init PROVE MissInv
    OBVIOUS
  <1>1. ClockInv BY PostInit DEF PostInv
  <1>2. AfterInv /\ ShownInv /\ SnapInv /\ DueInv /\ MetInv /\ DealtInv
    BY NilAssumption DEF Init, AfterInv, ShownInv, SnapInv, DueInv, MetInv, DealtInv, Due, NoPod,
       Passing, Visiting
  <1> QED BY <1>1, <1>2, TypeInit DEF MissInv

\* Only the head of a pass forgets pods that were overtaken.
LEMMA OvertakenGrows ==
    ASSUME [Next]_vars
    PROVE  BeginMaintain \/ overtaken \subseteq overtaken'
  BY DEF Next, Manager, FetchRunnerPods, FetchRunners, SkipPod, GetStatus, PostResult, DeletePod,
         PutDeletionTime, Protect, Relabel, Unlink, PodsVisited, RemoveRunner, EndPass, histVars,
         Update, RestartController, PodSteps, ReplicaSet, PodStarts, Register, Connect, TakeJob,
         EndJob, Publish, RestartContainer, Terminated, Agent, AgentExtend, AgentPut, AgentDelete,
         Tick, vars

\* What is calm was calm.
LEMMA CalmBefore ==
    ASSUME TypeInv, [Next]_vars, Calm'
    PROVE  Calm
  <1>1. failures \in Nat /\ restarts \in Nat BY DEF TypeInv, TypeOK, HistTypeOK
  <1>2. UNCHANGED failures \/ failures' = failures + 1
    BY DEF Next, Manager, FetchRunnerPods, FetchRunners, BeginMaintain, SkipPod, GetStatus,
         PostResult, DeletePod, PutDeletionTime, Protect, Relabel, Unlink, PodsVisited,
         RemoveRunner, EndPass, histVars, Works, Fails,
         Update, RestartController, PodSteps, ReplicaSet, PodStarts, Register, Connect, TakeJob,
         EndJob, Publish, RestartContainer, Terminated, Agent, AgentExtend, AgentPut, AgentDelete,
         Tick, vars
  <1>3. UNCHANGED restarts \/ restarts' = restarts + 1
    BY DEF Next, Manager, FetchRunnerPods, FetchRunners, BeginMaintain, SkipPod, GetStatus,
         PostResult, DeletePod, PutDeletionTime, Protect, Relabel, Unlink, PodsVisited,
         RemoveRunner, EndPass, histVars, counters,
         Update, RestartController, PodSteps, ReplicaSet, PodStarts, Register, Connect, TakeJob,
         EndJob, Publish, RestartContainer, Terminated, Agent, AgentExtend, AgentPut, AgentDelete,
         Tick, vars
  <1> QED BY <1>1, <1>2, <1>3 DEF Calm

\* A pod whose job is due was due before, or publishes now.
LEMMA DueBefore ==
    ASSUME TypeInv, [Next]_vars, NEW p \in Pods, Due(p)'
    PROVE  \/ Due(p) /\ st'[p].finishedAt = st[p].finishedAt
           \/ Publish(p) /\ st'[p].finishedAt = now
  <1>1. st \in [Pods -> Statuses] /\ now \in Nat BY DEF TypeInv, TypeOK, EnvTypeOK
  <1>2. ~PodStarts(p)
    BY <1>1 DEF Due, PodStarts, Statuses
  <1>3. pod[p].phase = "running" BY <1>2, RanBefore DEF Due
  <1>4. CASE Publish(p)
    <2>1. PICK ext \in BOOLEAN, d \in 0 .. PublishDelay :
             /\ st' = [st EXCEPT ![p].state = "debugging", ![p].finishedAt = now - d,
                                 ![p].extend = ext]
             /\ overtaken' = IF d > 0 THEN overtaken \cup {p} ELSE overtaken
      BY <1>4 DEF Publish
    <2>2. d = 0 BY <2>1, ManagerAssumption DEF Due
    <2>3. st'[p].finishedAt = now - d BY <1>1, <2>1 DEF Statuses
    <2> QED BY <1>1, <1>4, <2>2, <2>3
  <1>5. CASE st'[p].state = st[p].state /\ st'[p].finishedAt = st[p].finishedAt
    <2>1. p \notin overtaken
      <3>1. CASE BeginMaintain BY <1>5, <3>1 DEF BeginMaintain, Due
      <3> QED BY <3>1, OvertakenGrows DEF Due
    <2> QED BY <1>3, <1>5, <2>1 DEF Due
  <1>6. CASE Connect(p) \/ RestartContainer(p) \/ Terminated(p)
    BY <1>1, <1>6, NilAssumption
    DEF Due, Connect, RestartContainer, Terminated, ZeroStatus, Statuses
  <1> QED BY <1>2, <1>4, <1>5, <1>6, StatusChanges

\* Only the head of a pass and a new process read the clock for lastCheckTime.
LEMMA CheckTimeChanges ==
    ASSUME [Next]_vars
    PROVE  BeginMaintain \/ RestartController \/ UNCHANGED lastCheckTime
  BY DEF Next, Manager, FetchRunnerPods, FetchRunners, SkipPod, GetStatus,
         PostResult, DeletePod, PutDeletionTime, Protect, Relabel, Unlink, PodsVisited,
         RemoveRunner, EndPass, procVars, Update, PodSteps, ReplicaSet,
         PodStarts, Register, Connect, TakeJob, EndJob, Publish, RestartContainer, Terminated,
         Agent, AgentExtend, AgentPut, AgentDelete, Tick, vars

\* The clock runs on with every reading of it for lastCheckTime.
LEMMA AfterStep ==
    ASSUME TypeInv, ClockInv, AfterInv, [Next]_vars
    PROVE  AfterInv'
  <1>1. now \in Nat /\ lastCheckTime \in Nat /\ MaxTime \in Nat
    BY ManagerAssumption DEF TypeInv, TypeOK, EnvTypeOK, ProcTypeOK
  <1>2. CASE BeginMaintain \/ RestartController
    BY <1>1, <1>2 DEF BeginMaintain, RestartController, AdvanceClock, AfterInv
  <1>3. CASE UNCHANGED lastCheckTime
    BY <1>1, <1>3, ClockRuns DEF AfterInv
  <1> QED BY <1>2, <1>3, CheckTimeChanges

\* The pods that run stay in the list.
LEMMA ShownStep ==
    ASSUME TypeInv, ShownInv, [Next]_vars
    PROVE  ShownInv'
  <1> SUFFICES ASSUME pc' \in {"runners", "maintain"}, NEW p \in Pods,
                      pod'[p].phase = "running", p \notin overtaken'
               PROVE  podList'[p].phase = "running"
    BY DEF ShownInv
  <1>1. CASE FetchRunnerPods /\ podList' = pod
    BY <1>1 DEF FetchRunnerPods, envVars
  <1>2. CASE pc \in {"runners", "maintain"} /\ UNCHANGED podList
    <2>1. ~BeginMaintain BY DEF BeginMaintain
    <2>2. ~PodStarts(p) BY <1>2 DEF PodStarts
    <2>3. pod[p].phase = "running" /\ p \notin overtaken
      BY <2>1, <2>2, RanBefore, OvertakenGrows
    <2> QED BY <1>2, <2>3 DEF ShownInv
  <1>3. CASE Manager
    <2>1. ASSUME \/ PostResult \/ PutDeletionTime \/ Protect \/ Relabel
                 \/ \E q \in Pods : GetStatus(q)
          PROVE  FALSE
      BY <2>1, AfterStatusType
      DEF PostResult, PutDeletionTime, Protect, Relabel, GetStatus, Continue, VisitEnds
    <2> QED BY <1>1, <1>2, <1>3, <2>1
            DEF Manager, FetchRunnerPods, FetchRunners, BeginMaintain, SkipPod, DeletePod, Unlink,
                PodsVisited, RemoveRunner, EndPass, PassEnds, VisitEnds
  <1>4. CASE RestartController BY <1>4 DEF RestartController, PassEnds
  <1>5. CASE UNCHANGED passVars BY <1>2, <1>5 DEF passVars
  <1> QED BY <1>3, <1>4, <1>5, OtherSteps

\* The visits of a pass go through one list with one snapshot.
LEMMA PassingBefore ==
    ASSUME TypeInv, [Next]_vars, pc' \in Passing
    PROVE  \/ BeginMaintain
           \/ /\ pc \in Passing /\ UNCHANGED <<snap, lastCheckTime>> /\ todo' \subseteq todo
              /\ \A p \in Pods : podList'[p].phase = podList[p].phase
  <1>1. podList \in [Pods -> PodRecords] BY DEF TypeInv, TypeOK, PassTypeOK
  <1>2. pc \in Visiting => cur \in Pods BY DEF TypeInv, CurInv
  <1>3. CASE Relabel
    <2>1. \A p \in Pods : podList'[p].phase = podList[p].phase
      BY <1>1, <1>2, <1>3 DEF Relabel, Visiting, PodRecords
    <2> QED BY <1>3, <2>1 DEF Relabel, procVars, Passing, Visiting
  <1>4. CASE Manager /\ ~Relabel
    BY <1>4 DEF Manager, FetchRunnerPods, FetchRunners, SkipPod, GetStatus, PostResult, DeletePod,
                PutDeletionTime, Protect, Unlink, PodsVisited, RemoveRunner, EndPass, PassEnds,
                procVars, Passing, Visiting
  <1>5. CASE RestartController BY <1>5 DEF RestartController, PassEnds, Passing, Visiting
  <1>6. CASE UNCHANGED passVars /\ ~Manager /\ ~RestartController
    <2>1. UNCHANGED lastCheckTime
      BY <1>6
      DEF Next, Update, PodSteps, ReplicaSet, PodStarts, Register, Connect, TakeJob, EndJob,
          Publish, RestartContainer, Terminated, Agent, AgentExtend, AgentPut, AgentDelete, Tick,
          vars, procVars
    <2> QED BY <1>6, <2>1 DEF passVars
  <1> QED BY <1>3, <1>4, <1>5, <1>6, OtherSteps

\* A visit begins with a status, or goes on with the pod and the status it has.
LEMMA VisitingBefore ==
    ASSUME TypeInv, [Next]_vars, pc' \in Visiting
    PROVE  \/ \E p \in Pods : GetStatus(p) /\ cur' = p /\ status' = st[p]
                                /\ pc' = AfterStatus(p, st[p])
           \/ PostResult /\ UNCHANGED <<cur, status>> /\ pc' = AfterPost(cur, status)
           \/ /\ PutDeletionTime /\ UNCHANGED <<cur, status>>
              /\ pc' = AfterDebugging(cur, status)
           \/ Protect /\ UNCHANGED <<cur, status>> /\ pc' \in {"relabel", "unlink"}
           \/ Relabel /\ UNCHANGED <<cur, status>> /\ pc' = "unlink"
           \/ UNCHANGED passVars
  <1>1. CASE Manager
    <2>1. ASSUME NEW p \in Pods, GetStatus(p)
          PROVE  cur' = p /\ status' = st[p] /\ pc' = AfterStatus(p, st[p])
      BY <2>1 DEF GetStatus, Continue, VisitEnds, Visiting
    <2>2. ASSUME PostResult
          PROVE  UNCHANGED <<cur, status>> /\ pc' = AfterPost(cur, status)
      BY <2>2 DEF PostResult, Continue, VisitEnds, Visiting
    <2>3. ASSUME PutDeletionTime
          PROVE  UNCHANGED <<cur, status>> /\ pc' = AfterDebugging(cur, status)
      BY <2>3 DEF PutDeletionTime, Continue, VisitEnds, Visiting
    <2>4. ASSUME Protect PROVE UNCHANGED <<cur, status>> /\ pc' \in {"relabel", "unlink"}
      BY <2>4, AfterStatusType DEF Protect, Continue, VisitEnds, Visiting
    <2>5. ASSUME Relabel PROVE UNCHANGED <<cur, status>> /\ pc' = "unlink"
      BY <2>5, AfterStatusType DEF Relabel, Continue, VisitEnds, Visiting
    <2> QED BY <1>1, <2>1, <2>2, <2>3, <2>4, <2>5
            DEF Manager, FetchRunnerPods, FetchRunners, BeginMaintain, SkipPod, DeletePod, Unlink,
                PodsVisited, RemoveRunner, EndPass, PassEnds, VisitEnds, Visiting
  <1>2. CASE RestartController BY <1>2 DEF RestartController, PassEnds, Visiting
  <1> QED BY <1>1, <1>2, OtherSteps

\* A pass works with what the configuration was when it took its snapshot.
LEMMA SnapStep ==
    ASSUME AlwaysNotify, TypeInv, ClockInv, SnapInv, [Next]_vars
    PROVE  SnapInv'
  <1> SUFFICES ASSUME pc' \in Passing
               PROVE  snap'.notify /\ snap'.lastCheckTime <= lastCheckTime'
    BY DEF SnapInv
  <1>1. CASE BeginMaintain
    BY <1>1 DEF BeginMaintain, TakeSnap, AlwaysNotify, ClockInv, TypeInv, TypeOK, ProcTypeOK
  <1>2. CASE pc \in Passing /\ UNCHANGED <<snap, lastCheckTime>>
    BY <1>2 DEF SnapInv
  <1> QED BY <1>1, <1>2, PassingBefore

\* The pod of a visit does not become one that has yet to start.
LEMMA MetStep ==
    ASSUME TypeInv, MetInv, [Next]_vars
    PROVE  MetInv'
  <1> SUFFICES ASSUME pc' \in Visiting PROVE pod'[cur'].phase \notin {"none", "pending"}
    BY DEF MetInv
  <1>1. ASSUME NEW p \in Pods, GetStatus(p), cur' = p
        PROVE  pod'[cur'].phase \notin {"none", "pending"}
    BY <1>1 DEF GetStatus, envVars
  <1>2. CASE pc \in Visiting /\ UNCHANGED cur
    BY <1>2, StartedStays DEF MetInv, TypeInv, CurInv
  <1>3. PostResult \/ PutDeletionTime \/ Protect \/ Relabel => pc \in Visiting
    BY DEF PostResult, PutDeletionTime, Protect, Relabel, Visiting
  <1> QED BY <1>1, <1>2, <1>3, VisitingBefore DEF passVars

\* The count of announcements does not go back.
LEMMA PostsGrow ==
    ASSUME TypeInv, [Next]_vars, NEW p \in Pods, posts[p] >= 1
    PROVE  posts'[p] >= 1
  <1>1. posts \in [Pods -> Nat] BY DEF TypeInv, TypeOK, HistTypeOK
  <1>2. CASE PostResult
    <2>1. cur \in Pods BY <1>2 DEF PostResult, TypeInv, CurInv, Visiting
    <2> QED BY <1>1, <1>2, <2>1 DEF PostResult
  <1>3. PostResult \/ UNCHANGED posts
    BY DEF Next, Manager, FetchRunnerPods, FetchRunners, BeginMaintain, SkipPod, GetStatus,
         DeletePod, PutDeletionTime, Protect, Relabel, Unlink, PodsVisited, RemoveRunner, EndPass,
         histVars, Update, RestartController, PodSteps, ReplicaSet, PodStarts, Register, Connect,
         TakeJob, EndJob, Publish, RestartContainer, Terminated, Agent, AgentExtend, AgentPut,
         AgentDelete, Tick, vars
  <1> QED BY <1>2, <1>3

\* A job that awaits its announcement is announced, or goes on waiting.
LEMMA AwaitsStep ==
    ASSUME TypeInv, SnapInv, [Next]_vars, Calm', NEW p \in Pods, Due(p), Awaits(p),
           st'[p].finishedAt = st[p].finishedAt
    PROVE  posts'[p] >= 1 \/ Awaits(p)'
  <1>1. Calm /\ ~RestartController
    BY CalmBefore DEF Calm, RestartController, TypeInv, TypeOK, HistTypeOK
  <1>2. CASE UNCHANGED passVars
    BY <1>2 DEF passVars, Awaits
  <1>3. CASE pc = "post" /\ cur = p
    <2>1. CASE PostResult
      BY <1>3, <2>1 DEF PostResult, TypeInv, TypeOK, HistTypeOK
    <2>2. PostResult \/ ~Manager
      BY <1>3 DEF Manager, FetchRunnerPods, FetchRunners, BeginMaintain, SkipPod, GetStatus,
                  DeletePod, PutDeletionTime, Protect, Relabel, Unlink, PodsVisited, RemoveRunner,
                  EndPass
    <2> QED BY <1>1, <1>2, <2>1, <2>2, OtherSteps
  <1>4. CASE /\ pc \in Passing /\ p \in todo /\ podList[p].phase = "running"
             /\ st[p].finishedAt > snap.lastCheckTime
    <2>1. ASSUME pc' \in Passing, p \in todo' PROVE Awaits(p)'
      <3>1. ~BeginMaintain BY <1>4 DEF BeginMaintain, Passing, Visiting
      <3> QED BY <1>4, <2>1, <3>1, PassingBefore DEF Awaits
    <2>2. ASSUME NEW q \in Pods, SkipPod(q) PROVE Awaits(p)'
      <3>1. q # p
        <4>1. ASSUME q = p PROVE FALSE
          <5>1. Fails BY <1>4, <2>2, <4>1 DEF SkipPod, Due
          <5> QED BY <1>1, <5>1 DEF Fails, Calm
        <4> QED BY <4>1
      <3> QED BY <1>4, <2>1, <2>2, <3>1 DEF SkipPod
    <2>3. ASSUME NEW q \in Pods, GetStatus(q) PROVE Awaits(p)'
      <3>1. CASE q = p
        <4>1. AfterStatus(p, st[p]) = "post"
          BY <1>4, NilAssumption DEF AfterStatus, New, Due, SnapInv
        <4> QED BY <2>3, <3>1, <4>1 DEF GetStatus, Continue, Awaits
      <3>2. CASE q # p
        <4>1. pc' \in Passing
          BY <2>3, AfterStatusType DEF GetStatus, Continue, VisitEnds, Passing, Visiting
        <4> QED BY <1>4, <2>1, <2>3, <3>2, <4>1 DEF GetStatus
      <3> QED BY <3>1, <3>2
    <2>4. ASSUME PostResult \/ DeletePod \/ PutDeletionTime \/ Protect \/ Relabel \/ Unlink
          PROVE  Awaits(p)'
      <3>1. pc' \in Passing
        BY <2>4, AfterStatusType
        DEF PostResult, DeletePod, PutDeletionTime, Protect, Relabel, Unlink, Continue, VisitEnds,
            Passing, Visiting
      <3>2. UNCHANGED todo
        BY <2>4 DEF PostResult, DeletePod, PutDeletionTime, Protect, Relabel, Unlink
      <3> QED BY <1>4, <2>1, <3>1, <3>2
    <2> QED BY <1>1, <1>2, <1>4, <2>2, <2>3, <2>4, OtherSteps
            DEF Manager, FetchRunnerPods, FetchRunners, BeginMaintain, PodsVisited, RemoveRunner,
                EndPass, Passing, Visiting
  <1> QED BY <1>3, <1>4 DEF Awaits

\* A job that becomes history was announced or is being waited for.
LEMMA DueStep ==
    ASSUME MissInv, [Next]_vars
    PROVE  DueInv'
  <1> SUFFICES ASSUME Calm', NEW p \in Pods, Due(p)', st'[p].finishedAt <= lastCheckTime'
               PROVE  posts'[p] >= 1 \/ Awaits(p)'
    BY DEF DueInv
  <1>1. TypeInv /\ ClockInv /\ SnapInv /\ DueInv /\ AfterInv /\ ShownInv /\ Calm
    BY CalmBefore DEF MissInv
  <1>2. /\ now \in Nat /\ lastCheckTime \in Nat /\ MaxTime \in Nat
        /\ cfg.extendDuration \in Nat
    BY <1>1, ManagerAssumption DEF TypeInv, TypeOK, EnvTypeOK, ProcTypeOK
  <1>3. CASE Publish(p) /\ st'[p].finishedAt = now
    BY <1>1, <1>2, <1>3 DEF Publish, procVars, AfterInv
  <1>4. CASE Due(p) /\ st'[p].finishedAt = st[p].finishedAt
    <2>1. st[p].finishedAt \in Int BY <1>1, <1>4 DEF TypeInv, FinishInv, Due
    <2>2. CASE st[p].finishedAt <= lastCheckTime
      BY <1>1, <1>4, <2>2, PostsGrow, AwaitsStep DEF DueInv
    <2>3. CASE BeginMaintain /\ st[p].finishedAt > lastCheckTime
      <3>1. podList[p].phase = "running"
        BY <1>1, <1>4, <2>3 DEF BeginMaintain, ShownInv, Due
      <3>2. /\ p \in todo' /\ podList' = podList /\ pc' = "visit"
            /\ snap'.lastCheckTime = lastCheckTime
        BY <2>3, <3>1 DEF BeginMaintain, TakeSnap, Listed
      <3> QED BY <1>4, <2>3, <3>1, <3>2 DEF Awaits, Passing
    <2>4. ~RestartController
      BY <1>1 DEF Calm, RestartController, TypeInv, TypeOK, HistTypeOK
    <2> QED BY <1>2, <1>4, <2>1, <2>2, <2>3, <2>4, CheckTimeChanges
  <1> QED BY <1>1, <1>3, <1>4, DueBefore

\* A visit gets past the notification with a job that was announced.
LEMMA DealtStep ==
    ASSUME MissInv, [Next]_vars
    PROVE  DealtInv'
  <1> SUFFICES ASSUME Calm', pc' \in Visiting \ {"post"}, status'.state = "debugging",
                      pod'[cur'].phase = "running", cur' \notin overtaken'
               PROVE  posts'[cur'] >= 1
    BY DEF DealtInv
  <1>1. TypeInv /\ SnapInv /\ DueInv /\ MetInv /\ DealtInv /\ Calm
    BY CalmBefore DEF MissInv
  <1>2. lastCheckTime \in Nat /\ snap.lastCheckTime \in Nat /\ posts \in [Pods -> Nat]
    BY <1>1 DEF TypeInv, TypeOK, ProcTypeOK, PassTypeOK, HistTypeOK, Snaps
  <1>3. ASSUME NEW p \in Pods, GetStatus(p), cur' = p, status' = st[p],
               pc' = AfterStatus(p, st[p])
        PROVE  posts'[cur'] >= 1
    <2>1. /\ UNCHANGED <<posts, overtaken, pod>> /\ pc = "visit"
      BY <1>3 DEF GetStatus, envVars, histVars
    <2>2. Due(p) BY <1>3, <2>1 DEF Due
    <2>3. st[p].finishedAt \in Int BY <1>1, <2>2 DEF TypeInv, FinishInv, Due
    <2>4. ~New(st[p])
      BY <1>1, <1>3, <2>1, <2>2, NilAssumption DEF AfterStatus, SnapInv, Passing, Due
    <2>5. st[p].finishedAt <= snap.lastCheckTime BY <1>2, <2>3, <2>4 DEF New
    <2>6. st[p].finishedAt <= lastCheckTime
      BY <1>1, <1>2, <2>1, <2>3, <2>5 DEF SnapInv, Passing
    <2>7. ~Awaits(p) BY <1>2, <2>1, <2>3, <2>5 DEF Awaits
    <2> QED BY <1>1, <1>3, <2>1, <2>2, <2>6, <2>7 DEF DueInv
  <1>4. ASSUME PostResult, UNCHANGED cur PROVE posts'[cur'] >= 1
    <2>1. cur \in Pods BY <1>1, <1>4 DEF PostResult, TypeInv, CurInv, Visiting
    <2> QED BY <1>2, <1>4, <2>1 DEF PostResult
  <1>5. ASSUME pc \in Visiting \ {"post"}, UNCHANGED <<cur, status>>
        PROVE  posts'[cur'] >= 1
    <2>1. cur \in Pods /\ pod[cur].phase \notin {"none", "pending"}
      BY <1>1, <1>5 DEF TypeInv, CurInv, MetInv
    <2>2. ~PodStarts(cur) BY <2>1 DEF PodStarts
    <2>3. pod[cur].phase = "running" BY <1>1, <1>5, <2>1, <2>2, RanBefore
    <2>4. ~BeginMaintain BY <1>5 DEF BeginMaintain, Visiting
    <2>5. cur \notin overtaken BY <1>5, <2>4, OvertakenGrows
    <2>6. posts[cur] >= 1 BY <1>1, <1>5, <2>3, <2>5 DEF DealtInv
    <2> QED BY <1>1, <1>5, <2>1, <2>6, PostsGrow
  <1>6. PutDeletionTime \/ Protect \/ Relabel => pc \in Visiting \ {"post"}
    BY DEF PutDeletionTime, Protect, Relabel, Visiting
  <1> QED BY <1>1, <1>3, <1>4, <1>5, <1>6, VisitingBefore DEF passVars

\* Every step keeps the account of the jobs that are due.
LEMMA MissStep ==
    ASSUME AlwaysNotify, MissInv, [Next]_vars
    PROVE  MissInv'
  <1>1. TypeInv' /\ ClockInv' BY TypeStep, ClockStep DEF MissInv
  <1>2. AfterInv' /\ ShownInv' /\ SnapInv' /\ MetInv'
    BY AfterStep, ShownStep, SnapStep, MetStep DEF MissInv
  <1> QED BY <1>1, <1>2, DueStep, DealtStep DEF MissInv

\* If every configuration asks for notifications, no job of a running pod is
\* passed over: until a call fails or the controller restarts, whatever a pass
\* does with a finished job comes after an announcement of it.
THEOREM ManagerListedJobIsPosted ==
    ASSUME AlwaysNotify
    PROVE  Spec => []ListedJobIsPosted
  <1>1. MissInv /\ [Next]_vars => MissInv' BY MissStep
  <1>2. MissInv => ListedJobIsPosted
    BY DEF MissInv, DealtInv, ListedJobIsPosted, PastPost, Calm, Visiting
  <1> QED BY <1>1, <1>2, MissInit, PTL DEF Spec

=============================================================================
