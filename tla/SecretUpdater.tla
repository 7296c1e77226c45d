--------------------------- MODULE SecretUpdater ---------------------------
(***************************************************************************)
(* The secret updater goroutine of one RunnerPool (updateProcess in        *)
(* controllers/secret_updater.go) and the Secret it keeps filled with a    *)
(* registration token.                                                     *)
(*                                                                         *)
(* The loop waits, reads the Secret through the controller's cache, and    *)
(* when the token is missing or about to expire asks GitHub for a new one  *)
(* and patches the Secret.  Around it: the reconciler that creates the     *)
(* Secret empty, somebody who deletes it, and controllers that die and     *)
(* start again.                                                            *)
(*                                                                         *)
(* Every time is counted from now, in ticks: a token and its expires-at    *)
(* annotation are the time they have left, 0 once that is over.  Two       *)
(* assumptions about time are built in: a round of the loop ends at most   *)
(* Slack ticks after its timer was due, and the cache is behind the API    *)
(* server for at most MaxLag ticks at a stretch.  MaxLag may be longer     *)
(* than the second the loop waits after a patch.                           *)
(***************************************************************************)
EXTENDS Integers

CONSTANTS
    Nil,            \* no token, no annotation
    Invalid,        \* an annotation that time.Parse rejects
    Second,         \* time.Second
    Minute,         \* time.Minute
    Lead,           \* a token is renewed this long before it expires
    Life,           \* GitHub: how long a token is good for
    Slack,          \* the time a round takes at most
    MaxLag,         \* the time the cache is behind at most
    MaxSetbacks,    \* bound: failing calls and restarts in a row
    MaxDeletions    \* bound: deletions of the Secret

ASSUME UpdaterAssumption ==
    /\ Second \in Nat /\ Second > 0
    /\ Minute \in Nat /\ Minute >= Second
    /\ Slack \in Nat /\ Slack > 0
    /\ Lead \in Nat
    /\ MaxLag \in Nat
    /\ Life \in Nat /\ Life >= Lead + 2 * Second + Slack + MaxLag
    /\ MaxSetbacks \in Nat /\ MaxDeletions \in Nat

ASSUME NilAssumption == Nil \notin Int /\ Invalid \notin Int /\ Nil # Invalid

VARIABLES
    secret, cache,  \* the Secret in the API server and in the controller's cache
    pc,             \* what the goroutine does: "wait", "get", "token", "patch"
    waitTime,       \* until its timer is due; negative when overdue
    token,          \* runnerToken
    lag,            \* the ticks since the cache fell behind the Secret
    behind,         \* history: the round read a cache a second or more behind
    own,            \* history: the Secret was patched since Init
    setbacks,       \* history: failing calls and restarts since the last patch
    deletions

envVars == <<secret, cache, lag>>
procVars == <<pc, waitTime, token, behind>>
vars == <<envVars, procVars, own, setbacks, deletions>>

-----------------------------------------------------------------------------

Absent == [there |-> FALSE, expiresAt |-> Nil, token |-> Nil]
Empty == [there |-> TRUE, expiresAt |-> Nil, token |-> Nil]
Broken == [there |-> TRUE, expiresAt |-> Invalid, token |-> Nil]

\* time.RFC3339 has no fractions of a second: the annotation is up to one
\* second (frac) early.
Filled(t, frac) == [there |-> TRUE, expiresAt |-> t - frac, token |-> t]
Fractions == 0 .. Second - 1

Times == Nat \cup {Nil}
Secrets == [there : BOOLEAN, expiresAt : Nat \cup {Nil, Invalid}, token : Times]

\* A controller starts with no Secret, an empty one, one whose annotation is
\* broken, or one that an earlier controller filled at some time.
Init ==
    /\ secret \in {Absent, Empty, Broken} \cup {Filled(t, 0) : t \in 0 .. Life}
    /\ cache = secret /\ lag = 0
    /\ pc = "wait"
    /\ waitTime = Second
    /\ token = Nil /\ behind = FALSE
    /\ own = FALSE /\ setbacks = 0 /\ deletions = 0

Works == UNCHANGED setbacks
Fails == setbacks < MaxSetbacks /\ setbacks' = setbacks + 1

\* continue: the next round starts in t.
Wait(t) == pc' = "wait" /\ waitTime' = t /\ token' = Nil /\ behind' = FALSE

\* The Secret becomes s in the API server; the cache does not show it yet.
Change(s) == secret' = s /\ lag' = IF cache = secret THEN 0 ELSE lag

UpdateTime(s) == s.expiresAt - Lead

\* time.After is strict.
NeedUpdate(s) == s.expiresAt \notin {Nil, Invalid} => UpdateTime(s) < 0

\* The round goes on to updateSecret with what it has read.
GoesOn ==
    /\ pc' = "token"
    /\ behind' = (cache # secret /\ lag >= Second)
    /\ UNCHANGED <<waitTime, token>>

-----------------------------------------------------------------------------
(* Faulty variants of the definitions below, used to check that the        *)
(* properties can fail.                                                    *)

\* The loop sleeps until the token has expired.
GetSecretSleepsTooLong ==
    /\ pc = "get"
    /\ \/ ~cache.there /\ Works /\ Wait(Second)
       \/ Fails /\ Wait(Minute)
       \/ cache.there /\ ~NeedUpdate(cache) /\ Works /\ Wait(cache.expiresAt)
       \/ cache.there /\ NeedUpdate(cache) /\ Works /\ GoesOn
    /\ UNCHANGED <<envVars, own, deletions>>

\* A Secret without the annotation is left alone.
GetSecretAnnotatedOnly ==
    /\ pc = "get"
    /\ \/ ~cache.there /\ Works /\ Wait(Second)
       \/ Fails /\ Wait(Minute)
       \/ cache.there /\ cache.expiresAt = Nil /\ Works /\ Wait(Minute)
       \/ cache.there /\ cache.expiresAt # Nil /\ ~NeedUpdate(cache) /\ Works
             /\ Wait(UpdateTime(cache))
       \/ cache.there /\ cache.expiresAt # Nil /\ NeedUpdate(cache) /\ Works /\ GoesOn
    /\ UNCHANGED <<envVars, own, deletions>>

\* The loop goes on at once after a patch.
PatchSecretNoWait ==
    /\ pc = "patch"
    /\ \/ /\ secret.there
          /\ \E frac \in Fractions : Change(Filled(token, frac))
          /\ own' = TRUE
          /\ \/ setbacks' = 0 /\ Wait(0)
             \/ MaxSetbacks > 0 /\ setbacks' = 1 /\ Wait(Minute)
       \/ ~secret.there /\ Works /\ UNCHANGED <<secret, lag, own>> /\ Wait(Minute)
       \/ Fails /\ UNCHANGED <<secret, lag, own>> /\ Wait(Minute)
    /\ UNCHANGED <<cache, deletions>>

-----------------------------------------------------------------------------
(* The goroutine *)

TimerFires ==
    /\ pc = "wait" /\ waitTime <= 0
    /\ pc' = "get"
    /\ UNCHANGED <<envVars, waitTime, token, behind, own, setbacks, deletions>>

GetSecret ==
    /\ pc = "get"
    /\ \/ ~cache.there /\ Works /\ Wait(Second)
       \/ Fails /\ Wait(Minute)
       \/ cache.there /\ ~NeedUpdate(cache) /\ Works /\ Wait(UpdateTime(cache))
       \/ cache.there /\ NeedUpdate(cache) /\ Works /\ GoesOn
    /\ UNCHANGED <<envVars, own, deletions>>

CreateRegistrationToken ==
    /\ pc = "token"
    /\ \/ Works /\ pc' = "patch" /\ token' = Life /\ UNCHANGED <<waitTime, behind>>
       \/ Fails /\ Wait(Minute)
    /\ UNCHANGED <<envVars, own, deletions>>

\* A merge patch names neither a version nor a UID: it applies to whatever
\* Secret has the name.  The answer may get lost.
PatchSecret ==
    /\ pc = "patch"
    /\ \/ /\ secret.there
          /\ \E frac \in Fractions : Change(Filled(token, frac))
          /\ own' = TRUE
          /\ \/ setbacks' = 0 /\ Wait(Second)
             \/ MaxSetbacks > 0 /\ setbacks' = 1 /\ Wait(Minute)
       \/ ~secret.there /\ Works /\ UNCHANGED <<secret, lag, own>> /\ Wait(Minute)
       \/ Fails /\ UNCHANGED <<secret, lag, own>> /\ Wait(Minute)
    /\ UNCHANGED <<cache, deletions>>

\* The controller dies and a new one starts a new updateProcess.
RestartController ==
    /\ Fails
    /\ Wait(Second)
    /\ UNCHANGED <<envVars, own, deletions>>

-----------------------------------------------------------------------------
(* The Secret and the clock *)

\* reconcileSecret looks at the cache too; creating a Secret that exists fails.
ReconcileSecret ==
    /\ ~cache.there /\ ~secret.there
    /\ Change(Empty)
    /\ UNCHANGED <<cache, procVars, own, setbacks, deletions>>

DeleteSecret ==
    /\ deletions < MaxDeletions
    /\ deletions' = deletions + 1
    /\ secret.there
    /\ Change(Absent)
    /\ UNCHANGED <<cache, procVars, own, setbacks>>

CacheSync ==
    /\ cache # secret
    /\ cache' = secret /\ lag' = 0
    /\ UNCHANGED <<secret, procVars, own, setbacks, deletions>>

\* What is over stays over.
Older(t) == IF t \in {Nil, Invalid, 0} THEN t ELSE t - 1
OlderSecret(s) ==
    [there |-> s.there, expiresAt |-> Older(s.expiresAt), token |-> Older(s.token)]

Tick ==
    /\ waitTime > -Slack
    /\ waitTime' = waitTime - 1
    /\ cache = secret \/ lag < MaxLag
    /\ lag' = IF cache = secret THEN 0 ELSE lag + 1
    /\ secret' = OlderSecret(secret)
    /\ cache' = OlderSecret(cache)
    /\ token' = Older(token)
    /\ UNCHANGED <<pc, behind, own, setbacks, deletions>>

-----------------------------------------------------------------------------

Process == TimerFires \/ GetSecret \/ CreateRegistrationToken \/ PatchSecret

Next ==
    \/ Process \/ RestartController
    \/ ReconcileSecret \/ DeleteSecret \/ CacheSync \/ Tick

Spec == Init /\ [][Next]_vars

\* The goroutine and the reconciler run, calls return, the cache is fed and
\* time passes.
Fairness == WF_vars(Process) /\ WF_vars(ReconcileSecret) /\ WF_vars(CacheSync) /\ WF_vars(Tick)

FairSpec == Spec /\ Fairness

-----------------------------------------------------------------------------
(* Properties *)

\* Every variable keeps its type.
TypeOK ==
    /\ secret \in Secrets /\ cache \in Secrets
    /\ pc \in {"wait", "get", "token", "patch"}
    /\ waitTime \in Int
    /\ token \in Times
    /\ lag \in Nat /\ behind \in BOOLEAN
    /\ own \in BOOLEAN /\ setbacks \in Nat /\ deletions \in Nat

\* The setbacks since the last patch, at the time one of them costs at most,
\* fit into the lead.
Tolerable == setbacks * (Minute + Slack) + Slack < Lead

\* Pods find a token that is still good: as long as the setbacks since the
\* last patch fit into the lead (five minutes against one minute each), the
\* token in the Secret has not expired, whatever was deleted, recreated,
\* answered late or read from a stale cache before.
TokenStaysValid == own /\ secret.token # Nil /\ Tolerable => secret.token > 0

\* A token is replaced only when it is about to expire: no lost answer, deletion
\* or restart makes the loop ask GitHub for token after token.  The second that
\* the loop waits after a patch is what keeps it from reading its own patch too
\* early: a token that is not due is replaced only if the round has read a cache
\* that had been behind for a second or more.
OnlyDueTokensAreReplaced ==
    [][pc = "patch" /\ secret' # secret /\ secret.token # Nil
         => secret.token < Lead + Second \/ behind]_vars

\* A Secret that is empty or gone, deleted in the middle of the loop's long
\* sleep for instance, gets a token in the end.
SecretIsFilled == (secret.token = Nil) ~> (secret.token # Nil /\ secret.token > 0)

=============================================================================
