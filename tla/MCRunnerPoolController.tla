----------------------- MODULE MCRunnerPoolController -----------------------
(***************************************************************************)
(* Instances of RunnerPoolController for TLC: MCRunnerPoolController.cfg   *)
(* and MCRunnerPoolControllerRunners.cfg.                                  *)
(***************************************************************************)
EXTENDS RunnerPoolController

\* The pool is recreated for another target.
CONSTANTS t1, t2
TwoTargets == [u \in 1 .. MaxPools |-> IF u = 1 THEN t1 ELSE t2]

=============================================================================
