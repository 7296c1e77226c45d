------------------------- MODULE RunnerListingProofs -------------------------
(***************************************************************************)
(* Proofs about RunnerListing for any number of runners and any page size: *)
(* what a listing may miss or repeat while runners join and leave between  *)
(* its pages, and what the manager does with such a list.                  *)
(***************************************************************************)
EXTENDS RunnerListing, FiniteSetTheorems, TLAPS

-----------------------------------------------------------------------------
(* The inductive invariant *)

\* No two runners have the same place, and the runners in GitHub's list are
\* those that have registered and not left.
HubInv ==
    /\ \A q, r \in Runners : pos[q] = pos[r] /\ pos[q] > 0 => q = r
    /\ \A r \in Runners : pos[r] > 0 <=> state[r] \in {"offline", "idle", "busy"}

\* Runners of the pool that were there all the time, on a page fetched already
\* and yet not listed.  A runner that leaves moves at most one runner over the
\* end of the last page.
Skipped == {r \in (Own \cap start) \ gone : list[r] = "none" /\ pos[r] <= next}

\* A listing under way, or returned: what it holds, and what it lacks.
ListInv ==
    /\ \A r \in Runners : list[r] # "none" => r \in Own
    /\ again \subseteq Own /\ todo \subseteq Own
    /\ pc = "list" => todo = {}
    /\ pc = "pods" => ~stopping
    /\ \A r \in gone : state[r] = "left"
    /\ pc = "list" => \A r \in start \ gone : pos[r] > 0
    /\ pc = "list" => Cardinality(Skipped) <= Cardinality(gone)
    /\ came = {} => /\ again = {}
                    /\ pc = "list" => \A r \in Runners : list[r] # "none" => pos[r] <= next
    /\ \A r \in start : state[r] # "new"
    /\ MissedAtMostGone

\* A runner that was busy at the start does not become busy again.
BusyInv ==
    \A r \in busyAtStart :
        /\ state[r] \in {"busy", "left"} \/ (state[r] = "offline" /\ pod[r] = "gone")
        /\ list[r] \notin {"none", "busy"} => state[r] # "busy"
        /\ r \in start

\* A runner that was there when the removal of all began is on the list of
\* those to remove, or was missed.
RemovalInv ==
    stopping /\ pc = "remove" =>
        \A r \in Own \cap start : pos[r] > 0 => r \in todo \/ r \in Missed

Inv == TypeOK /\ HubInv /\ ListInv /\ BusyInv /\ RemovalInv

-----------------------------------------------------------------------------
(* Lemmas *)

\* Subsets of the runners are finite, and a smaller set has no more members.
LEMMA RunnersFinite ==
    ASSUME NEW S, S \subseteq Runners
    PROVE  /\ IsFiniteSet(S) /\ Cardinality(S) \in Nat
           /\ \A T : T \subseteq S => /\ IsFiniteSet(T) /\ Cardinality(T) \in Nat
                                      /\ Cardinality(T) <= Cardinality(S)
  <1>1. IsFiniteSet(S) BY ListingAssumption, FS_Subset
  <1>2. Cardinality(S) \in Nat BY <1>1, FS_CardinalityType
  <1>3. ASSUME NEW T, T \subseteq S
        PROVE  IsFiniteSet(T) /\ Cardinality(T) \in Nat /\ Cardinality(T) <= Cardinality(S)
    BY <1>1, <1>3, FS_Subset, FS_CardinalityType
  <1> QED BY <1>1, <1>2, <1>3

\* If a set grows by at most one member whenever another one gains a member,
\* it stays no larger.
LEMMA GrowsByOne ==
    ASSUME NEW A, NEW B, NEW C, NEW r, A \subseteq Runners, B \subseteq Runners,
           C \subseteq Runners, r \in Runners, r \notin C, Cardinality(A) <= Cardinality(C),
           \A x, y \in B \ A : x = y
    PROVE  Cardinality(B) <= Cardinality(C \cup {r})
  <1>1. IsFiniteSet(A) /\ IsFiniteSet(B) /\ IsFiniteSet(C) BY RunnersFinite
  <1>2. Cardinality(A) \in Nat /\ Cardinality(B) \in Nat /\ Cardinality(C) \in Nat
    BY RunnersFinite
  <1>3. Cardinality(C \cup {r}) = Cardinality(C) + 1
    BY <1>1, FS_AddElement
  <1>4. CASE B \subseteq A
    <2>1. Cardinality(B) <= Cardinality(A) BY <1>4, RunnersFinite
    <2> QED BY <1>2, <1>3, <2>1
  <1>5. CASE ~(B \subseteq A)
    <2>1. PICK x \in B : x \notin A BY <1>5
    <2>2. B \subseteq A \cup {x} BY <2>1
    <2>3. A \cup {x} \subseteq Runners BY <2>1
    <2>4. Cardinality(B) <= Cardinality(A \cup {x}) BY <2>2, <2>3, RunnersFinite
    <2>5. Cardinality(A \cup {x}) = Cardinality(A) + 1
      BY <1>1, <2>1, FS_AddElement
    <2> QED BY <1>2, <1>3, <2>4, <2>5
  <1> QED BY <1>4, <1>5

\* What a runner that leaves does to the places of the others.
LEMMA LeaveFacts ==
    ASSUME TypeOK, HubInv, NEW r \in Runners, Leave(r), pos[r] > 0
    PROVE  /\ pos' \in [Runners -> Nat] /\ pos'[r] = 0
           /\ \A q \in Runners : q # r => /\ pos'[q] > 0 <=> pos[q] > 0
                                          /\ pos'[q] <= pos[q] /\ pos[q] <= pos'[q] + 1
           /\ \A p, q \in Runners : pos'[p] = pos'[q] /\ pos'[p] > 0 => p = q
           /\ gone' \in SUBSET Runners
  BY DEF TypeOK, HubInv, Leave

\* What a runner that joins does to the places of the others.
LEMMA JoinFacts ==
    ASSUME TypeOK, HubInv, NEW r \in Runners, NEW i \in Nat \ {0}, Join(r, i), pos[r] = 0
    PROVE  /\ pos' \in [Runners -> Nat] /\ pos'[r] > 0
           /\ \A q \in Runners : q # r => (pos'[q] > 0 <=> pos[q] > 0) /\ pos'[q] >= pos[q]
           /\ \A p, q \in Runners : pos'[p] = pos'[q] /\ pos'[p] > 0 => p = q
  BY DEF TypeOK, HubInv, Join

\* The initial states satisfy the invariant.
LEMMA InvInit == Init => Inv
  <1> SUFFICES ASSUME Init PROVE Inv
    OBVIOUS
  <1> USE DEF Init
  <1>1. TypeOK BY ListingAssumption DEF TypeOK, Empty, States
  <1>2. HubInv BY DEF HubInv
  <1>3. ListInv BY DEF ListInv, Empty, MissedAtMostGone, Returns
  <1>4. BusyInv /\ RemovalInv BY DEF BusyInv, RemovalInv
  <1> QED BY <1>1, <1>2, <1>3, <1>4 DEF Inv

-----------------------------------------------------------------------------
(* The steps *)

\* A runner that leaves, by itself or because it is removed.
LEMMA LeaveKeeps ==
    ASSUME Inv, NEW r \in Runners, pos[r] > 0, Leave(r),
           state' = [state EXCEPT ![r] = "left"],
           pod' = pod \/ pod' = [pod EXCEPT ![r] = "done"],
           todo' = todo \/ (pc = "remove" /\ todo' = todo \ {r}),
           failures' \in Nat,
           UNCHANGED <<pc, stopping, podList, next, list, again, start, busyAtStart, came>>
    PROVE  Inv'
  <1>1. TypeOK /\ HubInv /\ ListInv /\ BusyInv /\ RemovalInv BY DEF Inv
  <1>2. /\ pos' \in [Runners -> Nat] /\ pos'[r] = 0
        /\ \A q \in Runners : q # r => /\ pos'[q] > 0 <=> pos[q] > 0
                                       /\ pos'[q] <= pos[q] /\ pos[q] <= pos'[q] + 1
        /\ \A p, q \in Runners : pos'[p] = pos'[q] /\ pos'[p] > 0 => p = q
        /\ gone' \in SUBSET Runners
    BY <1>1, LeaveFacts
  <1>3. \A q \in Runners : q # r => state'[q] = state[q] /\ pod'[q] = pod[q]
    BY <1>1 DEF TypeOK
  <1>4. state'[r] = "left" BY <1>1 DEF TypeOK
  <1>5. TypeOK' BY <1>1, <1>2 DEF TypeOK, States
  <1>6. HubInv' BY <1>1, <1>2, <1>3, <1>4 DEF HubInv
  <1>7. ListInv'
    <2>1. gone' = IF pc = "list" THEN gone \cup {r} ELSE gone BY DEF Leave
    <2>2. r \notin gone BY <1>1 DEF ListInv, HubInv, TypeOK
    <2>3. \A q \in gone' : state'[q] = "left"
      BY <1>1, <1>3, <1>4, <2>1 DEF ListInv, TypeOK
    <2>4. pc = "list" => \A q \in start \ gone' : pos'[q] > 0
      BY <1>1, <1>2, <2>1 DEF ListInv, TypeOK
    <2>5. pc = "list" => Cardinality(Skipped') <= Cardinality(gone')
      <3> SUFFICES ASSUME pc = "list"
                   PROVE  Cardinality(Skipped') <= Cardinality(gone \cup {r})
        BY <2>1
      <3>1. Skipped \subseteq Runners /\ Skipped' \subseteq Runners /\ gone \subseteq Runners
        BY <1>1 DEF Skipped, TypeOK
      <3>2. ASSUME NEW x \in Skipped' \ Skipped PROVE pos[x] = next + 1
        <4>1. x \in Runners /\ x # r /\ x \in (Own \cap start) \ gone /\ list[x] = "none"
              /\ pos'[x] <= next
          BY <1>1, <2>1, <3>2 DEF Skipped, TypeOK
        <4>2. pos[x] > next BY <1>1, <3>2, <4>1 DEF Skipped, TypeOK
        <4> QED BY <1>1, <1>2, <4>1, <4>2 DEF TypeOK
      <3>3. \A x, y \in Skipped' \ Skipped : x = y
        BY <1>1, <3>1, <3>2 DEF HubInv, TypeOK
      <3>4. Cardinality(Skipped) <= Cardinality(gone) BY <1>1 DEF ListInv
      <3> HIDE DEF Skipped
      <3> QED BY <2>2, <3>1, <3>3, <3>4, GrowsByOne
    <2>6. pc = "list" /\ came = {} => \A q \in Runners : list[q] # "none" => pos'[q] <= next
      BY <1>1, <1>2 DEF ListInv, TypeOK
    <2>7. \A q \in start : state'[q] # "new"
      BY <1>1, <1>3, <1>4 DEF ListInv, TypeOK
    <2>8. MissedAtMostGone'
      <3>1. Returns => gone' = gone BY <2>1 DEF Returns
      <3> QED BY <1>1, <3>1 DEF ListInv, MissedAtMostGone, Missed, Returns
    <2>9. pc = "list" => todo' = {} BY <1>1 DEF ListInv
    <2> QED BY <1>1, <2>3, <2>4, <2>5, <2>6, <2>7, <2>8, <2>9 DEF ListInv
  <1>8. BusyInv' BY <1>1, <1>3, <1>4 DEF BusyInv, TypeOK
  <1>9. RemovalInv'
    <2> SUFFICES ASSUME stopping, pc = "remove", NEW q \in Own \cap start, pos'[q] > 0
                 PROVE  q \in todo' \/ q \in Missed'
      BY DEF RemovalInv
    <2>1. q \in Runners /\ q # r BY <1>1, <1>2, ListingAssumption
    <2>2. pos[q] > 0 BY <1>2, <2>1
    <2>3. Missed' = Missed BY DEF Missed, Leave
    <2> QED BY <1>1, <2>1, <2>2, <2>3 DEF RemovalInv
  <1> QED BY <1>5, <1>6, <1>7, <1>8, <1>9 DEF Inv

\* A pod that starts and registers its runner.
LEMMA StartKeeps ==
    ASSUME Inv, NEW r \in Runners, PodStarts(r)
    PROVE  Inv'
  <1>1. TypeOK /\ HubInv /\ ListInv /\ BusyInv /\ RemovalInv BY DEF Inv
  <1>2. state[r] = "new" /\ pos[r] = 0 BY <1>1 DEF PodStarts, HubInv, TypeOK
  <1>3. PICK i \in Places : Join(r, i) BY DEF PodStarts
  <1>4. i \in Nat \ {0}
    <2>1. Cardinality({q \in Runners : Registered(q)}) \in Nat BY RunnersFinite
    <2> QED BY <2>1 DEF Places
  <1>5. /\ pos' \in [Runners -> Nat] /\ pos'[r] > 0
        /\ \A q \in Runners : q # r => (pos'[q] > 0 <=> pos[q] > 0) /\ pos'[q] >= pos[q]
        /\ \A p, q \in Runners : pos'[p] = pos'[q] /\ pos'[p] > 0 => p = q
    BY <1>1, <1>2, <1>3, <1>4, JoinFacts
  <1>6. /\ state' = [state EXCEPT ![r] = "offline"] /\ pod' = [pod EXCEPT ![r] = "up"]
        /\ UNCHANGED <<pc, stopping, podList, next, list, again, todo, start, busyAtStart,
                       gone, failures>>
    BY DEF PodStarts
  <1>7. came' = IF pc = "list" THEN came \cup {r} ELSE came BY <1>3 DEF Join
  <1>8. TypeOK' BY <1>1, <1>5, <1>6, <1>7 DEF TypeOK, States
  <1>9. HubInv' BY <1>1, <1>5, <1>6 DEF HubInv, TypeOK
  <1>10. r \notin gone /\ r \notin start /\ r \notin busyAtStart
    BY <1>1, <1>2 DEF ListInv, BusyInv, TypeOK
  <1>11. ListInv'
    <2>1. pc = "list" => Cardinality(Skipped') <= Cardinality(gone)
      <3> SUFFICES ASSUME pc = "list" PROVE Cardinality(Skipped') <= Cardinality(gone)
        OBVIOUS
      <3>1. Skipped \subseteq Runners /\ gone \subseteq Runners BY <1>1 DEF Skipped, TypeOK
      <3>2. Skipped' \subseteq Skipped
        <4> SUFFICES ASSUME NEW q \in Skipped' PROVE q \in Skipped
          OBVIOUS
        <4>1. q \in Runners /\ q # r /\ q \in (Own \cap start) \ gone /\ list[q] = "none"
              /\ pos'[q] <= next
          BY <1>1, <1>6, <1>10 DEF Skipped, TypeOK
        <4>2. pos[q] <= next BY <1>1, <1>5, <4>1 DEF TypeOK
        <4> QED BY <4>1, <4>2 DEF Skipped
      <3>3. Cardinality(Skipped) <= Cardinality(gone) BY <1>1 DEF ListInv
      <3>4. /\ Cardinality(Skipped) \in Nat /\ Cardinality(Skipped') \in Nat
            /\ Cardinality(Skipped') <= Cardinality(Skipped) /\ Cardinality(gone) \in Nat
        BY <3>1, <3>2, RunnersFinite
      <3> QED BY <3>3, <3>4
    <2>2. MissedAtMostGone' BY <1>1, <1>6 DEF ListInv, MissedAtMostGone, Missed, Returns
    <2>3. \A q \in gone : state'[q] = "left" BY <1>1, <1>6, <1>10 DEF ListInv, TypeOK
    <2>4. \A q \in start : state'[q] # "new" BY <1>1, <1>6 DEF ListInv, TypeOK
    <2>5. pc = "list" => \A q \in start \ gone : pos'[q] > 0
      BY <1>1, <1>5 DEF ListInv, TypeOK
    <2>6. came' = {} => came = {} /\ pc # "list" BY <1>7
    <2> QED BY <1>1, <1>6, <2>1, <2>2, <2>3, <2>4, <2>5, <2>6 DEF ListInv
  <1>12. BusyInv' BY <1>1, <1>6, <1>10 DEF BusyInv, TypeOK
  <1>13. RemovalInv'
    <2>1. \A q \in Own \cap start : pos'[q] > 0 => pos[q] > 0
      BY <1>1, <1>5, <1>10, ListingAssumption DEF TypeOK
    <2> QED BY <1>1, <1>6, <2>1 DEF RemovalInv, Missed
  <1> QED BY <1>8, <1>9, <1>11, <1>12, <1>13 DEF Inv

\* Steps of a pod that leave GitHub's list and the manager's as they are.
LEMMA PodKeeps ==
    ASSUME Inv, NEW r \in Runners,
           \/ state' = state
           \/ /\ pos[r] > 0 /\ state' = [state EXCEPT ![r] = "offline"]
              /\ pod'[r] = "gone"
           \/ /\ state[r] = "offline" /\ pod[r] = "up" /\ state' = [state EXCEPT ![r] = "idle"]
           \/ /\ state[r] = "idle" /\ pod[r] = "up" /\ state' = [state EXCEPT ![r] = "busy"],
           pod' = pod \/ pod' = [pod EXCEPT ![r] = "gone"],
           todo' = todo \/ (pc = "pods" /\ todo' \subseteq todo),
           failures' \in Nat,
           UNCHANGED <<pos, pc, stopping, podList, next, list, again, histVars>>
    PROVE  Inv'
  <1>1. TypeOK /\ HubInv /\ ListInv /\ BusyInv /\ RemovalInv BY DEF Inv
  <1>2. UNCHANGED <<start, busyAtStart, gone, came>> BY DEF histVars
  <1>3. state' \in [Runners -> States] BY <1>1 DEF TypeOK, States
  <1>4. pod' \in [Runners -> {"none", "up", "done", "gone"}] BY <1>1 DEF TypeOK
  <1>5. TypeOK' BY <1>1, <1>2, <1>3, <1>4 DEF TypeOK
  <1>6. \A q \in Runners : /\ q # r => state'[q] = state[q] /\ pod'[q] = pod[q]
                           /\ pos[q] > 0 <=> state'[q] \in {"offline", "idle", "busy"}
                           /\ state[q] = "left" => state'[q] = "left"
                           /\ state[q] # "new" => state'[q] # "new"
    BY <1>1 DEF TypeOK, HubInv
  <1>7. HubInv' BY <1>1, <1>6 DEF HubInv
  <1>8. ListInv'
    <2>1. Skipped' = Skipped BY <1>2 DEF Skipped
    <2>2. MissedAtMostGone' BY <1>1, <1>2 DEF ListInv, MissedAtMostGone, Missed, Returns
    <2>3. (\A q \in gone : state'[q] = "left") /\ (\A q \in start : state'[q] # "new")
      BY <1>1, <1>6 DEF ListInv, TypeOK
    <2>4. todo' \subseteq Own /\ (pc = "list" => todo' = {}) BY <1>1 DEF ListInv
    <2> QED BY <1>1, <1>2, <2>1, <2>2, <2>3, <2>4 DEF ListInv
  <1>9. BusyInv' BY <1>1, <1>2, <1>6 DEF BusyInv, TypeOK
  <1>10. RemovalInv' BY <1>1, <1>2 DEF RemovalInv, Missed
  <1> QED BY <1>5, <1>7, <1>8, <1>9, <1>10 DEF Inv

\* The end of a pass.
LEMMA ForgetKeeps ==
    ASSUME Inv, GivesUp, failures' \in Nat, UNCHANGED <<hubVars, stopping>>
    PROVE  Inv'
  <1> USE DEF GivesUp, Forgets
  <1>1. TypeOK /\ HubInv BY DEF Inv
  <1>2. TypeOK' BY <1>1, ListingAssumption DEF TypeOK, Empty, hubVars
  <1>3. HubInv' BY <1>1 DEF HubInv, hubVars
  <1>4. ListInv' BY DEF ListInv, Empty, MissedAtMostGone, Returns
  <1>5. BusyInv' /\ RemovalInv' BY DEF BusyInv, RemovalInv
  <1> QED BY <1>2, <1>3, <1>4, <1>5 DEF Inv

\* The start of a listing.
LEMMA BeginKeeps ==
    ASSUME Inv, BeginListing, podList' \subseteq Own, stopping' \in BOOLEAN,
           UNCHANGED <<hubVars, failures>>
    PROVE  Inv'
  <1> USE DEF BeginListing
  <1>1. TypeOK /\ HubInv BY DEF Inv
  <1>2. UNCHANGED <<pos, state, pod>> BY DEF hubVars
  <1>3. TypeOK' BY <1>1, <1>2, ListingAssumption DEF TypeOK, Empty
  <1>4. HubInv' BY <1>1, <1>2 DEF HubInv
  <1>5. ListInv'
    <2>1. Skipped' = {}
      BY <1>1, <1>2 DEF Skipped, Registered, TypeOK
    <2>2. Cardinality(Skipped') <= Cardinality(gone') BY <2>1, FS_EmptySet
    <2>3. \A q \in start' : state'[q] # "new" /\ pos'[q] > 0
      BY <1>1, <1>2 DEF HubInv, Registered
    <2> QED BY <2>2, <2>3 DEF ListInv, Empty, MissedAtMostGone, Returns
  <1>6. BusyInv'
    BY <1>1, <1>2, ListingAssumption DEF BusyInv, Empty, HubInv, Registered
  <1>7. RemovalInv' BY DEF RemovalInv
  <1> QED BY <1>3, <1>4, <1>5, <1>6, <1>7 DEF Inv

\* A page.
LEMMA FetchKeeps ==
    ASSUME Inv, FetchPage
    PROVE  Inv'
  <1> DEFINE found == {r \in Page : HasLabels(r)}
  <1>1. TypeOK /\ HubInv /\ ListInv /\ BusyInv /\ PerPage \in Nat
    BY ListingAssumption DEF Inv
  <1>2. /\ pc = "list" /\ next' = next + PerPage
        /\ list' = [r \in Runners |-> IF r \in found /\ list[r] = "none" THEN state[r]
                                      ELSE list[r]]
        /\ again' = again \cup {r \in found : list[r] # "none"}
        /\ UNCHANGED <<pos, state, pod, stopping, podList, start, busyAtStart, gone, came,
                       failures>>
    BY DEF FetchPage, TurnPage, hubVars, histVars, Works
  <1>3. \/ pc' = "list" /\ todo' = todo
        \/ /\ pc' = Returned /\ ~HasNextPage
           /\ todo' = IF stopping THEN Wanted ELSE podList
    BY <1>2 DEF FetchPage
  <1>4. \A r \in Runners : r \in found <=> r \in Own /\ next < pos[r] /\ pos[r] <= next + PerPage
    BY DEF Page, HasLabels
  <1>5. found \subseteq Own BY DEF HasLabels
  <1> HIDE DEF found
  <1>6. list' \in [Runners -> States \cup {"none"}] BY <1>1, <1>2 DEF TypeOK
  <1>7. \A r \in Runners : list'[r] # "none" => r \in Own
    BY <1>1, <1>2, <1>5 DEF ListInv
  <1>8. todo' \subseteq Own /\ again' \subseteq Own
    BY <1>1, <1>2, <1>3, <1>5, <1>7 DEF ListInv, TypeOK, Wanted
  <1>9. TypeOK'
    BY <1>1, <1>2, <1>3, <1>6, <1>8, ListingAssumption DEF TypeOK, Returned
  <1>10. HubInv' BY <1>1, <1>2 DEF HubInv
  <1>11. ASSUME NEW q \in (Own \cap start) \ gone, list'[q] = "none", pos[q] <= next + PerPage
         PROVE  q \in Skipped
    <2>1. q \in Runners BY ListingAssumption
    <2>2. list[q] = "none" /\ q \notin found
      BY <1>1, <1>2, <1>11, <2>1 DEF HubInv, TypeOK, States
    <2>3. pos[q] <= next BY <1>1, <1>4, <1>11, <2>1, <2>2 DEF TypeOK
    <2> QED BY <1>11, <2>2, <2>3 DEF Skipped
  <1>12. ASSUME NEW S, S \subseteq Skipped PROVE Cardinality(S) <= Cardinality(gone)
    <2>1. Skipped \subseteq Runners /\ gone \subseteq Runners BY <1>1 DEF Skipped, TypeOK
    <2>2. Cardinality(Skipped) <= Cardinality(gone) BY <1>1, <1>2 DEF ListInv
    <2>3. /\ Cardinality(S) \in Nat /\ Cardinality(Skipped) \in Nat /\ Cardinality(gone) \in Nat
          /\ Cardinality(S) <= Cardinality(Skipped)
      BY <1>12, <2>1, RunnersFinite
    <2> QED BY <2>2, <2>3
  <1>13. ListInv'
    <2>1. pc' = "list" => Cardinality(Skipped') <= Cardinality(gone')
      <3>1. Skipped' \subseteq Skipped BY <1>2, <1>11 DEF Skipped
      <3> QED BY <1>2, <1>12, <3>1
    <2>2. MissedAtMostGone'
      <3> SUFFICES ASSUME pc' # "list" PROVE Cardinality(Missed') <= Cardinality(gone)
        BY <1>2 DEF MissedAtMostGone, Returns
      <3>1. \A q \in Runners : pos[q] <= next + PerPage
        BY <1>1, <1>3 DEF HasNextPage, TypeOK
      <3>2. Missed' \subseteq Skipped
        BY <1>2, <1>11, <3>1, ListingAssumption DEF Missed
      <3> QED BY <1>12, <3>2
    <2>3. came' = {} => /\ again' = {}
                        /\ \A r \in Runners : list'[r] # "none" => pos'[r] <= next'
      <3> SUFFICES ASSUME came = {}
                   PROVE  /\ again' = {}
                          /\ \A r \in Runners : list'[r] # "none" => pos[r] <= next + PerPage
        BY <1>2
      <3>1. again = {} /\ \A r \in Runners : list[r] # "none" => pos[r] <= next
        BY <1>1, <1>2 DEF ListInv
      <3>2. \A r \in found : list[r] = "none"
        BY <1>1, <1>4, <1>5, <3>1, ListingAssumption DEF TypeOK
      <3>3. again' = {} BY <1>2, <3>1, <3>2
      <3>4. \A r \in Runners : list'[r] # "none" => pos[r] <= next + PerPage
        BY <1>1, <1>2, <1>4, <3>1 DEF TypeOK
      <3> QED BY <3>3, <3>4
    <2>4. (pc' = "list" => todo' = {}) /\ (pc' = "pods" => ~stopping)
      BY <1>1, <1>2, <1>3 DEF ListInv, Returned
    <2> QED BY <1>1, <1>2, <1>7, <1>8, <2>1, <2>2, <2>3, <2>4 DEF ListInv
  <1>14. BusyInv' BY <1>1, <1>2 DEF BusyInv, TypeOK
  <1>15. RemovalInv'
    <2> SUFFICES ASSUME stopping', pc' = "remove", NEW q \in Own \cap start, pos[q] > 0
                 PROVE  q \in todo' \/ q \in Missed'
      BY <1>2 DEF RemovalInv
    <2>1. q \in Runners BY ListingAssumption
    <2>2. todo' = Wanted BY <1>2, <1>3
    <2>3. q \notin gone BY <1>1, <2>1 DEF ListInv, HubInv
    <2> QED BY <1>2, <2>1, <2>2, <2>3 DEF Wanted, Missed
  <1> QED BY <1>9, <1>10, <1>13, <1>14, <1>15 DEF Inv

\* Every step keeps the invariant.
LEMMA InvStep == Inv /\ [Next]_vars => Inv'
  <1> SUFFICES ASSUME Inv, [Next]_vars PROVE Inv'
    OBVIOUS
  <1>1. TypeOK /\ HubInv /\ ListInv /\ failures \in Nat BY DEF Inv, TypeOK
  <1>2. Works \/ Fails => failures' \in Nat BY <1>1 DEF Works, Fails
  <1>3. CASE BeginPass
    BY <1>1, <1>3, BeginKeeps DEF BeginPass, TypeOK
  <1>4. CASE Stop
    BY <1>1, <1>4, BeginKeeps DEF Stop, TypeOK
  <1>5. CASE FetchFails
    BY <1>2, <1>5, ForgetKeeps DEF FetchFails
  <1>6. CASE RemovalEnds
    BY <1>1, <1>6, ForgetKeeps DEF RemovalEnds
  <1>7. CASE PodsVisited
    <2>1. /\ pc = "pods" /\ pc' = "remove" /\ todo' \subseteq Own
          /\ UNCHANGED <<pos, state, pod, stopping, podList, next, list, again, start,
                         busyAtStart, gone, came, failures>>
      BY <1>1, <1>7 DEF PodsVisited, hubVars, histVars, ListInv
    <2>2. ~stopping BY <1>1, <2>1 DEF ListInv
    <2>3. TypeOK' BY <1>1, <2>1, ListingAssumption DEF TypeOK
    <2>4. HubInv' BY <1>1, <2>1 DEF HubInv
    <2>5. MissedAtMostGone' BY <1>1, <2>1 DEF ListInv, MissedAtMostGone, Returns, Missed
    <2>6. ListInv' BY <1>1, <2>1, <2>5 DEF ListInv
    <2>7. BusyInv' BY <2>1 DEF Inv, BusyInv
    <2>8. RemovalInv' BY <2>1, <2>2 DEF RemovalInv
    <2> QED BY <2>3, <2>4, <2>6, <2>7, <2>8 DEF Inv
  <1>8. ASSUME NEW r \in Runners, VisitPod(r) PROVE Inv'
    <2>1. UNCHANGED <<pos, pc, stopping, podList, next, list, again, histVars>>
          /\ pc = "pods" /\ todo' = todo \ {r} /\ (Works \/ Fails)
      BY <1>8 DEF VisitPod
    <2>2. \/ UNCHANGED <<pod, state>>
          \/ /\ pod' = [pod EXCEPT ![r] = "gone"]
             /\ state' = IF Registered(r) THEN [state EXCEPT ![r] = "offline"] ELSE state
      BY <1>8 DEF VisitPod
    <2>3. pod' = [pod EXCEPT ![r] = "gone"] => pod'[r] = "gone" BY <1>1 DEF TypeOK
    <2> QED BY <1>2, <2>1, <2>2, <2>3, PodKeeps DEF Registered
  <1>9. ASSUME NEW r \in Runners, RemoveRunner(r) PROVE Inv'
    <2>1. CASE /\ Registered(r) /\ Works /\ Leave(r)
               /\ state' = [state EXCEPT ![r] = "left"]
               /\ todo' = IF r \in again THEN todo ELSE todo \ {r}
               /\ UNCHANGED <<pc, podList, next, list, again, start, busyAtStart, came>>
      <3>1. pc = "remove" /\ pos[r] > 0 /\ UNCHANGED <<pod, stopping>>
        BY <1>9, <2>1 DEF RemoveRunner, Registered
      <3> QED BY <1>2, <2>1, <3>1, LeaveKeeps
    <2>2. CASE GivesUp /\ (Works \/ Fails) /\ UNCHANGED <<pos, state>>
      BY <1>2, <1>9, <2>2, ForgetKeeps DEF RemoveRunner, hubVars
    <2> QED BY <1>9, <2>1, <2>2 DEF RemoveRunner
  <1>10. ASSUME NEW r \in Runners, Proceeds(r) PROVE Inv'
    BY <1>1, <1>10, PodKeeps DEF Proceeds
  <1>11. ASSUME NEW r \in Runners, PodEnds(r) PROVE Inv'
    <2>1. pod' = [pod EXCEPT ![r] = "gone"] /\ pod'[r] = "gone"
      BY <1>1, <1>11 DEF PodEnds, TypeOK
    <2> QED BY <1>1, <1>11, <2>1, PodKeeps DEF PodEnds, Registered
  <1>12. ASSUME NEW r \in Runners, EndJob(r) PROVE Inv'
    <2>1. pos[r] > 0 BY <1>1, <1>12 DEF EndJob, HubInv
    <2> QED BY <1>1, <1>12, <2>1, LeaveKeeps DEF EndJob
  <1>13. ASSUME NEW r \in Runners, RemoveForeign(r) PROVE Inv'
    BY <1>1, <1>13, LeaveKeeps DEF RemoveForeign, Registered
  <1>14. CASE UNCHANGED vars
    <2>1. UNCHANGED <<pos, state, pod, pc, stopping, podList, next, list, again, todo, start,
                      busyAtStart, gone, came, failures>>
      BY <1>14 DEF vars, hubVars, histVars
    <2>2. TypeOK' /\ HubInv' BY <1>1, <2>1 DEF TypeOK, HubInv
    <2>3. ListInv' BY <1>1, <2>1 DEF ListInv, Skipped, MissedAtMostGone, Missed, Returns
    <2>4. BusyInv' /\ RemovalInv' BY <2>1 DEF Inv, BusyInv, RemovalInv, Missed
    <2> QED BY <2>2, <2>3, <2>4 DEF Inv
  <1> QED
    BY <1>3, <1>4, <1>5, <1>6, <1>7, <1>8, <1>9, <1>10, <1>11, <1>12, <1>13, <1>14,
       StartKeeps, FetchKeeps
    DEF Next, Manager, Hub

-----------------------------------------------------------------------------
(* The theorems *)

\* Every variable keeps its type.
THEOREM ListingTypeCorrect == Spec => []TypeOK
  <1>1. Inv => TypeOK BY DEF Inv
  <1> QED BY <1>1, InvInit, InvStep, PTL DEF Spec

\* For any number of runners and any page size, a listing misses at most as
\* many runners as have left between its pages.
THEOREM ListingMissedAtMostGone == Spec => []MissedAtMostGone
  <1>1. Inv => MissedAtMostGone BY DEF Inv, ListInv
  <1> QED BY <1>1, InvInit, InvStep, PTL DEF Spec

\* No runner is listed twice unless one has joined between the pages.
THEOREM ListingTwiceOnlyIfJoined == Spec => []TwiceOnlyIfJoined
  <1>1. Inv => TwiceOnlyIfJoined BY DEF Inv, ListInv, TwiceOnlyIfJoined
  <1> QED BY <1>1, InvInit, InvStep, PTL DEF Spec

\* A removal of all runners that ends without an error leaves at most as many
\* of those it found as have left between the pages.
THEOREM ListingStopRemovesAll == Spec => []StopRemovesAll
  <1>1. Inv => StopRemovesAll
    <2> SUFFICES ASSUME Inv, stopping, pc = "remove", todo = {}
                 PROVE  Cardinality({r \in Own \cap start : Registered(r)})
                          <= Cardinality(gone)
      BY DEF StopRemovesAll
    <2>1. {r \in Own \cap start : Registered(r)} \subseteq Missed
      BY DEF Inv, RemovalInv, Registered
    <2>2. Missed \subseteq Runners /\ gone \subseteq Runners
      BY ListingAssumption DEF Missed, Inv, TypeOK
    <2>3. Cardinality(Missed) <= Cardinality(gone)
      BY DEF Inv, ListInv, MissedAtMostGone, Returns
    <2>4. /\ Cardinality({r \in Own \cap start : Registered(r)}) \in Nat
          /\ Cardinality({r \in Own \cap start : Registered(r)}) <= Cardinality(Missed)
          /\ Cardinality(Missed) \in Nat /\ Cardinality(gone) \in Nat
      BY <2>1, <2>2, RunnersFinite
    <2> QED BY <2>3, <2>4
  <1> QED BY <1>1, InvInit, InvStep, PTL DEF Spec

\* A manager removes no runner of another pool.
THEOREM ListingForeignRunnersAreKept == Spec => ForeignRunnersAreKept
  <1>1. Inv /\ [Next]_vars =>
           [\A r \in Runners \ Own : Registered(r) /\ pos'[r] = 0 => UNCHANGED <<pc, todo>>]_vars
    <2> SUFFICES ASSUME Inv, Next, NEW r \in Runners \ Own, pos[r] > 0, pos'[r] = 0
                 PROVE  UNCHANGED <<pc, todo>>
      BY DEF Registered
    <2> USE DEF hubVars
    <2>1. pos' # pos BY DEF Inv, TypeOK
    <2>2. CASE Stop \/ FetchFails
      BY <2>1, <2>2 DEF Stop, FetchFails
    <2>3. CASE \E q \in Runners : PodStarts(q) \/ Proceeds(q) \/ EndJob(q) \/ PodEnds(q)
                                  \/ RemoveForeign(q)
      BY <2>3 DEF PodStarts, Proceeds, EndJob, PodEnds, RemoveForeign
    <2>4. CASE BeginPass \/ FetchPage \/ PodsVisited \/ RemovalEnds
               \/ \E q \in Runners : VisitPod(q)
      BY <2>1, <2>4 DEF BeginPass, FetchPage, PodsVisited, RemovalEnds, VisitPod
    <2>5. ASSUME NEW q \in Runners, RemoveRunner(q) PROVE FALSE
      <3>1. Leave(q) /\ pos[q] > 0 /\ q \in Own
        BY <2>1, <2>5 DEF RemoveRunner, Registered, Inv, ListInv
      <3>2. pos'[r] > 0
        BY <3>1, LeaveFacts DEF Inv
      <3> QED BY <3>2
    <2> QED BY <2>2, <2>3, <2>4, <2>5 DEF Next, Manager, Hub
  <1> QED BY <1>1, InvInit, InvStep, PTL DEF Spec, ForeignRunnersAreKept

\* A pod whose runner has been busy since before the listing is deleted only
\* if a runner has left between the pages.
THEOREM ListingBusyPodIsKept == Spec => BusyPodIsKeptByList
  <1>1. Inv /\ [Next]_vars =>
           [\A r \in busyAtStart : todo' # todo /\ state[r] = "busy" /\ pod[r] = "up"
                                     /\ pod'[r] = "gone" => gone # {}]_vars
    <2> SUFFICES ASSUME Inv, Next, NEW r \in busyAtStart, todo' # todo, state[r] = "busy",
                        pod[r] = "up", pod'[r] = "gone", gone = {}
                 PROVE  FALSE
      OBVIOUS
    <2> USE DEF hubVars
    <2>1. TypeOK /\ r \in Runners /\ r \in Own /\ r \in start
      BY ListingAssumption DEF Inv, TypeOK, BusyInv
    <2>2. CASE Stop \/ FetchFails BY <2>2 DEF Stop, FetchFails
    <2>3. CASE \E q \in Runners : PodStarts(q) \/ Proceeds(q) \/ EndJob(q) \/ PodEnds(q)
                                  \/ RemoveForeign(q)
      BY <2>3 DEF PodStarts, Proceeds, EndJob, PodEnds, RemoveForeign
    <2>4. CASE BeginPass \/ FetchPage \/ PodsVisited \/ RemovalEnds
               \/ \E q \in Runners : RemoveRunner(q)
      BY <2>4 DEF BeginPass, FetchPage, PodsVisited, RemovalEnds, RemoveRunner
    <2>5. ASSUME NEW q \in Runners, VisitPod(q) PROVE FALSE
      <3>1. q = r /\ list[r] # "busy" /\ pc = "pods"
        BY <2>1, <2>5 DEF VisitPod, RunnerBusy, TypeOK
      <3>2. Cardinality(Missed) <= 0
        BY <3>1, FS_EmptySet DEF Inv, ListInv, MissedAtMostGone, Returns
      <3>3. Missed = {}
        <4>1. IsFiniteSet(Missed) /\ Cardinality(Missed) \in Nat
          BY <2>1, RunnersFinite DEF Missed, TypeOK
        <4> QED BY <3>2, <4>1, FS_EmptySet
      <3>4. list[r] # "none" BY <2>1, <3>3 DEF Missed
      <3> QED BY <3>1, <3>4 DEF Inv, BusyInv
    <2> QED BY <2>2, <2>3, <2>4, <2>5 DEF Next, Manager, Hub
  <1> QED BY <1>1, InvInit, InvStep, PTL DEF Spec, BusyPodIsKeptByList

=============================================================================
