---------------------------- MODULE MCRunnerPod ----------------------------
(***************************************************************************)
(* One pod that may restart for ever, with one tick between the end        *)
(* of the job and its publication, and two deletion times: the zero time   *)
(* the agent sends for "delete immediately", and a later one.              *)
(***************************************************************************)
EXTENDS RunnerPod

MCPutTimes == {0, 2}

=============================================================================
