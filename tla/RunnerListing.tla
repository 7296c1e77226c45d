---------------------------- MODULE RunnerListing ----------------------------
(***************************************************************************)
(* ListRunners (github/client.go) and what a runner manager does with the  *)
(* list: it takes a runner that is not in it for idle, removes the ones    *)
(* without a pod, and removes all of them when it stops.                   *)
(*                                                                         *)
(* GitHub has one list of runners per organization, shared by all pools,   *)
(* and gives it out page by page.  Runners join and leave between pages,   *)
(* which shifts the runners behind them: one can be skipped or be listed   *)
(* twice.  Each page may fail, and then the whole call does.  The filter   *)
(* by label is the client's.                                               *)
(*                                                                         *)
(* A runner has the name of its pod and registers once.  Every pod here is *)
(* past its recreate deadline.  RunnerManager has the rest of a pass, with *)
(* a list that is of one moment.                                           *)
(***************************************************************************)
EXTENDS Naturals, FiniteSets

CONSTANTS
    Runners,        \* runners of the organization
    Own,            \* those with the label of the pool
    PerPage,        \* 100
    MaxFailures     \* bound: failing calls

ASSUME ListingAssumption ==
    /\ IsFiniteSet(Runners) /\ Own \subseteq Runners
    /\ PerPage \in Nat \ {0} /\ MaxFailures \in Nat

VARIABLES
    pos,            \* GitHub: place of a runner in the list, 0 for none
    state,          \* of a runner: "new", "offline", "idle", "busy", "left"
    pod,            \* its pod: "none", "up", "done" with its job, "gone"
    \* the manager
    pc, stopping,
    podList,        \* runners whose pods were listed
    next,           \* runners on the pages fetched so far
    list,           \* what the list says of a runner; "none": not in it
    again,          \* runners that are in the list more than once
    todo,           \* pods or runners the loop has not come to
    \* history of the listing
    start, busyAtStart, gone, came,
    failures

hubVars == <<pos, state, pod>>
histVars == <<start, busyAtStart, gone, came>>
vars == <<hubVars, pc, stopping, podList, next, list, again, todo, histVars, failures>>

-----------------------------------------------------------------------------
(* Values *)

Empty == [r \in Runners |-> "none"]

Registered(r) == pos[r] > 0

Places == 1 .. Cardinality({r \in Runners : Registered(r)}) + 1

Init ==
    /\ pos = [r \in Runners |-> 0]
    /\ state = [r \in Runners |-> "new"]
    /\ pod = [r \in Runners |-> "none"]
    /\ pc = "idle" /\ stopping = FALSE
    /\ podList = {} /\ next = 0 /\ list = Empty /\ again = {} /\ todo = {}
    /\ start = {} /\ busyAtStart = {} /\ gone = {} /\ came = {}
    /\ failures = 0

\* The locals of a pass.
Forgets ==
    /\ podList' = {} /\ next' = 0 /\ list' = Empty /\ again' = {} /\ todo' = {}
    /\ start' = {} /\ busyAtStart' = {} /\ gone' = {} /\ came' = {}

Works == UNCHANGED failures
Fails == failures < MaxFailures /\ failures' = failures + 1

-----------------------------------------------------------------------------
(* GitHub's list *)

\* A runner leaves; those behind it move up.
Leave(r) ==
    /\ pos' = [q \in Runners |-> IF q = r THEN 0
                                 ELSE IF pos[q] > pos[r] THEN pos[q] - 1
                                 ELSE pos[q]]
    /\ gone' = IF pc = "list" THEN gone \cup {r} ELSE gone

\* A runner joins at some place; those behind it move down.
Join(r, i) ==
    /\ pos' = [q \in Runners |-> IF q = r THEN i
                                 ELSE IF pos[q] >= i THEN pos[q] + 1
                                 ELSE pos[q]]
    /\ came' = IF pc = "list" THEN came \cup {r} ELSE came

-----------------------------------------------------------------------------
(* Faulty variants of the definitions below, used to check that the        *)
(* properties can fail.                                                    *)

\* A last page with a single runner is not asked for.
HasNextPageOffByOne == \E r \in Runners : pos[r] > next + PerPage + 1

\* The page number is not carried over to the next request.
TurnPageStuck == UNCHANGED next

\* All runners of the organization are taken for the pool's.
HasLabelsAlways(r) == TRUE

\* deleteAllRunners leaves online runners alone, as deleteOfflineRunners does.
WantedOfflineOnly == {r \in Runners : list'[r] = "offline"}

\* A page that fails ends the list, and what was fetched is returned.
FetchFailsQuietly ==
    /\ pc = "list" /\ Fails
    /\ pc' = IF stopping THEN "remove" ELSE "pods"
    /\ todo' = IF stopping THEN {r \in Runners : list[r] # "none"} ELSE podList
    /\ UNCHANGED <<hubVars, stopping, podList, next, list, again, histVars>>

-----------------------------------------------------------------------------
(* Pods and their runners *)

\* A pod starts and registers its runner.
PodStarts(r) ==
    /\ state[r] = "new"
    /\ \E i \in Places : Join(r, i)
    /\ state' = [state EXCEPT ![r] = "offline"]
    /\ pod' = [pod EXCEPT ![r] = "up"]
    /\ UNCHANGED <<pc, stopping, podList, next, list, again, todo, start, busyAtStart, gone,
                   failures>>

\* The listener connects, and takes a job.
Proceeds(r) ==
    /\ r \in Own /\ pod[r] = "up" /\ Registered(r)
    /\ \/ state[r] = "offline" /\ state' = [state EXCEPT ![r] = "idle"]
       \/ state[r] = "idle" /\ state' = [state EXCEPT ![r] = "busy"]
    /\ UNCHANGED <<pos, pod, pc, stopping, podList, next, list, again, todo, histVars,
                   failures>>

\* An ephemeral runner leaves with its job; its pod is kept or deleted for
\* other reasons than these.
EndJob(r) ==
    /\ state[r] = "busy"
    /\ Leave(r)
    /\ state' = [state EXCEPT ![r] = "left"]
    /\ pod' = [pod EXCEPT ![r] = "done"]
    /\ UNCHANGED <<pc, stopping, podList, next, list, again, todo, start, busyAtStart,
                   came, failures>>

\* A pod goes away; its runner stays in the list.
PodEnds(r) ==
    /\ r \in Own /\ pod[r] = "up"
    /\ pod' = [pod EXCEPT ![r] = "gone"]
    /\ state' = IF Registered(r) THEN [state EXCEPT ![r] = "offline"] ELSE state
    /\ UNCHANGED <<pos, pc, stopping, podList, next, list, again, todo, histVars, failures>>

\* The manager of another pool removes one of its runners.
RemoveForeign(r) ==
    /\ r \notin Own /\ Registered(r)
    /\ Leave(r)
    /\ state' = [state EXCEPT ![r] = "left"]
    /\ UNCHANGED <<pod, pc, stopping, podList, next, list, again, todo, start, busyAtStart,
                   came, failures>>

-----------------------------------------------------------------------------
(* ListRunners *)

BeginListing ==
    /\ pc' = "list"
    /\ next' = 0 /\ list' = Empty /\ again' = {} /\ todo' = {}
    /\ start' = {r \in Runners : Registered(r)}
    /\ busyAtStart' = {r \in Own : state[r] = "busy"}
    /\ gone' = {} /\ came' = {}

\* A page, and whether there is a next one.
Page == {r \in Runners : next < pos[r] /\ pos[r] <= next + PerPage}
HasNextPage == \E r \in Runners : pos[r] > next + PerPage

HasLabels(r) == r \in Own

TurnPage == next' = next + PerPage

\* The call returns to runOnce or to deleteAllRunners.
Returned == IF stopping THEN "remove" ELSE "pods"

\* deleteAllRunners goes through the whole list.
Wanted == {r \in Runners : list'[r] # "none"}

\* The pass ends, or the goroutine; what it knew is forgotten.
GivesUp ==
    /\ pc' = IF stopping THEN "stopped" ELSE "idle"
    /\ Forgets

FetchPage ==
    LET found == {r \in Page : HasLabels(r)}
    IN  /\ pc = "list"
        /\ list' = [r \in Runners |-> IF r \in found /\ list[r] = "none" THEN state[r]
                                      ELSE list[r]]
        /\ again' = again \cup {r \in found : list[r] # "none"}
        /\ TurnPage
        /\ IF HasNextPage THEN UNCHANGED <<pc, todo>>
           ELSE /\ pc' = Returned
                /\ todo' = IF stopping THEN Wanted ELSE podList
        /\ Works
        /\ UNCHANGED <<hubVars, stopping, podList, histVars>>

FetchFails ==
    /\ pc = "list" /\ Fails
    /\ GivesUp
    /\ UNCHANGED <<hubVars, stopping>>

-----------------------------------------------------------------------------
(* The manager *)

\* fetchRunnerPods, then fetchRunners begins.
BeginPass ==
    /\ pc = "idle" /\ ~stopping
    /\ podList' = {r \in Own : pod[r] = "up"}
    /\ BeginListing
    /\ UNCHANGED <<hubVars, stopping, failures>>

\* runnerBusy: the first entry counts, none means idle.
RunnerBusy(r) == list[r] = "busy"

\* maintainRunnerPods for a pod past its recreate deadline.
VisitPod(r) ==
    /\ pc = "pods" /\ r \in todo
    /\ todo' = todo \ {r}
    /\ \/ /\ ~RunnerBusy(r) /\ pod[r] = "up" /\ Works
          /\ pod' = [pod EXCEPT ![r] = "gone"]
          /\ state' = IF Registered(r) THEN [state EXCEPT ![r] = "offline"] ELSE state
       \/ (RunnerBusy(r) \/ pod[r] # "up") /\ Works /\ UNCHANGED <<pod, state>>
       \/ ~RunnerBusy(r) /\ pod[r] = "up" /\ Fails /\ UNCHANGED <<pod, state>>
    /\ UNCHANGED <<pos, pc, stopping, podList, next, list, again, histVars>>

\* deleteOfflineRunners begins.
PodsVisited ==
    /\ pc = "pods" /\ todo = {}
    /\ pc' = "remove"
    /\ todo' = {r \in Runners : list[r] = "offline" /\ r \notin podList}
    /\ UNCHANGED <<hubVars, stopping, podList, next, list, again, histVars, failures>>

\* RemoveRunner for an entry of the list.  A runner that is not there any more,
\* because it has left or was listed twice, is an error like any other.
RemoveRunner(r) ==
    /\ pc = "remove" /\ r \in todo
    /\ \/ /\ Registered(r) /\ Works
          /\ Leave(r)
          /\ state' = [state EXCEPT ![r] = "left"]
          /\ todo' = IF r \in again THEN todo ELSE todo \ {r}
          /\ UNCHANGED <<pc, podList, next, list, again, start, busyAtStart, came>>
       \/ ~Registered(r) /\ Works /\ GivesUp /\ UNCHANGED <<pos, state>>
       \/ Registered(r) /\ Fails /\ GivesUp /\ UNCHANGED <<pos, state>>
    /\ UNCHANGED <<pod, stopping>>

RemovalEnds ==
    /\ pc = "remove" /\ todo = {}
    /\ GivesUp
    /\ UNCHANGED <<hubVars, stopping, failures>>

\* stop: the calls a pass has left to make fail, and deleteAllRunners begins.
Stop ==
    /\ ~stopping
    /\ stopping' = TRUE
    /\ BeginListing
    /\ UNCHANGED <<hubVars, podList, failures>>

-----------------------------------------------------------------------------

Manager ==
    \/ BeginPass \/ FetchPage \/ PodsVisited \/ RemovalEnds
    \/ \E r \in Runners : VisitPod(r) \/ RemoveRunner(r)

Hub ==
    \E r \in Runners : PodStarts(r) \/ Proceeds(r) \/ EndJob(r) \/ PodEnds(r) \/ RemoveForeign(r)

Next == Manager \/ FetchFails \/ Stop \/ Hub

Spec == Init /\ [][Next]_vars

\* The goroutine runs on and its ticker starts pass after pass.
FairSpec == Spec /\ WF_vars(Manager)

-----------------------------------------------------------------------------
(* Properties *)

States == {"new", "offline", "idle", "busy", "left"}

\* Every variable keeps its type.
TypeOK ==
    /\ pos \in [Runners -> Nat]
    /\ state \in [Runners -> States]
    /\ pod \in [Runners -> {"none", "up", "done", "gone"}]
    /\ pc \in {"idle", "list", "pods", "remove", "stopped"} /\ stopping \in BOOLEAN
    /\ podList \subseteq Own /\ todo \subseteq Runners /\ again \subseteq Runners
    /\ next \in Nat
    /\ list \in [Runners -> States \cup {"none"}]
    /\ start \subseteq Runners /\ busyAtStart \subseteq Own
    /\ gone \subseteq Runners /\ came \subseteq Runners
    /\ failures \in Nat

\* The list has been returned and is in use.
Returns == pc \in {"pods", "remove"}

\* Runners of the pool that were there all the time and are not in the list.
Missed == {r \in (Own \cap start) \ gone : list[r] = "none"}

\* However runners join and leave between the pages, at most as many runners
\* are missed as have left meanwhile; none, if none has left.
MissedAtMostGone == Returns => Cardinality(Missed) <= Cardinality(gone)

\* No runner is in the list twice unless one has joined between the pages; a
\* second entry would make the removal of runners stop at an error.
TwiceOnlyIfJoined == again # {} => came # {}

\* The client is given all runners of the organization, but a manager never
\* removes a runner of another pool: such a runner leaves only in a step that
\* is not the manager's.
ForeignRunnersAreKept ==
    [][\A r \in Runners \ Own : Registered(r) /\ pos'[r] = 0 => UNCHANGED <<pc, todo>>]_vars

\* A pod whose runner has been busy since before the listing is deleted with
\* its job only if some runner has left between the pages: an error of a page
\* is never taken for the end of the list.
BusyPodIsKeptByList ==
    [][\A r \in busyAtStart :
          todo' # todo /\ state[r] = "busy" /\ pod[r] = "up" /\ pod'[r] = "gone" => gone # {}]_vars

\* When the process of a pool has removed the runners without an error, those
\* that were there when it began to list them are gone, but for as many as
\* have left between the pages and hidden others.
StopRemovesAll ==
    stopping /\ pc = "remove" /\ todo = {} =>
        Cardinality({r \in Own \cap start : Registered(r)}) <= Cardinality(gone)

\* A listing comes to its end, however runners join and leave: by a last page
\* or by an error, and the goroutine does not fetch pages for ever.
ListingEnds == pc = "list" ~> pc # "list"

=============================================================================
