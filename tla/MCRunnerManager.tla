-------------------------- MODULE MCRunnerManager --------------------------
(***************************************************************************)
(* Instances of RunnerManager for TLC.                                     *)
(***************************************************************************)
EXTENDS RunnerManager, TLC

Config(replicas, max, notify, extend, recreate, deny) ==
    [replicas |-> replicas, maxRunnerPods |-> max, notify |-> notify,
     extendDuration |-> extend, recreateDeadline |-> recreate, denyDisruption |-> deny]

\* One controlled pod and room for one pod outside the ReplicaSet, PDBs on.
CapacityConfig == {Config(1, 2, FALSE, 0, 99, TRUE)}

\* Two controlled pods; the room outside the ReplicaSet shrinks from one to
\* none and grows back, and denyDisruption is turned on and off.
ReconfigureConfigs == {Config(2, 3, FALSE, 0, 99, FALSE), Config(2, 2, FALSE, 0, 99, TRUE)}

\* One pod that is kept for one unit after a failure, recreated when idle once
\* the clock has moved on, and unlinked, with a PDB of its own, when it is in use.
LifetimeConfig == {Config(1, 2, TRUE, 1, 0, TRUE)}

PodSymmetry == Permutations(Pods)

=============================================================================
