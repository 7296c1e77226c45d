-------------------------- MODULE MCSecretUpdater --------------------------
(***************************************************************************)
(* SecretUpdater with the code's proportion of Lead to Minute, five to     *)
(* one, so that four setbacks in a row are tolerated and five are not; a   *)
(* second of two ticks, so that time stamps lose a fraction; and a life    *)
(* that is cut short to one long sleep and the lead.                       *)
(***************************************************************************)
EXTENDS SecretUpdater

=============================================================================
