---------------------------- MODULE PodLifecycle ----------------------------
(***************************************************************************)
(* What a runner pod promises to the clients of its HTTP API (the manager  *)
(* goroutine of the controller and the Slack agent).                       *)
(*                                                                         *)
(* A pod is an ephemeral environment.  Its first container incarnation     *)
(* that gets as far as doing any work claims the pod; every later          *)
(* incarnation must only ever answer "stale".  A status that says          *)
(* "debugging" is complete: result, finish time and extension flag become  *)
(* visible together with the state and do not change until the container   *)
(* restarts.  The deletion time is a register clients may write whenever   *)
(* the server is up.                                                       *)
(***************************************************************************)
EXTENDS Naturals

CONSTANTS
    Nil,      \* a Go nil pointer or an empty string in the status
    Times     \* the time stamps clients may store as a deletion time

VARIABLES
    status,   \* the Status a GET /status would return
    claim,    \* "free", "mine" (claimed by this incarnation) or "spent"
    now       \* wall clock

lifeVars == <<status, claim, now>>

JobResults == {"success", "failure", "cancelled", "unknown"}
PodStates == {"initializing", "running", "debugging", "stale"}

\* The zero value of the Runner's fields: nothing is known after a restart.
ZeroStatus ==
    [state |-> Nil, result |-> Nil, finishedAt |-> Nil,
     deletionTime |-> Nil, extend |-> Nil]

LifeInit ==
    /\ status = ZeroStatus
    /\ claim = "free"
    /\ now \in Nat

Claim ==
    /\ claim = "free" /\ status.state = Nil
    /\ claim' = "mine"
    /\ UNCHANGED <<status, now>>

Initialize ==
    /\ claim = "mine" /\ status.state = Nil
    /\ status' = [status EXCEPT !.state = "initializing"]
    /\ UNCHANGED <<claim, now>>

StartListening ==
    /\ claim = "mine" /\ status.state = "initializing"
    /\ status' = [status EXCEPT !.state = "running"]
    /\ UNCHANGED <<claim, now>>

Finish ==
    /\ claim = "mine" /\ status.state = "running"
    /\ \E res \in JobResults, ext \in BOOLEAN, at \in 0 .. now :
          status' = [state |-> "debugging", result |-> res, finishedAt |-> at,
                     deletionTime |-> status.deletionTime, extend |-> ext]
    /\ UNCHANGED <<claim, now>>

GoStale ==
    /\ claim = "spent" /\ status.state = Nil
    /\ status' = [status EXCEPT !.state = "stale"]
    /\ UNCHANGED <<claim, now>>

StoreDeletionTime ==
    /\ \E t \in Times : status' = [status EXCEPT !.deletionTime = t]
    /\ UNCHANGED <<claim, now>>

Restart ==
    /\ status' = ZeroStatus
    /\ claim' = IF claim = "mine" THEN "spent" ELSE claim
    /\ UNCHANGED now

LifeTick ==
    /\ now' > now
    /\ UNCHANGED <<status, claim>>

LifeNext ==
    \/ Claim \/ Initialize \/ StartListening \/ Finish \/ GoStale
    \/ StoreDeletionTime \/ Restart \/ LifeTick

LifeSpec == LifeInit /\ [][LifeNext]_lifeVars

=============================================================================
