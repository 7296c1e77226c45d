--------------------------- MODULE MCRunnerListing ---------------------------
(***************************************************************************)
(* Instance of RunnerListing for TLC: MCRunnerListing.cfg.                 *)
(***************************************************************************)
EXTENDS RunnerListing

=============================================================================
