------------------------ MODULE SecretUpdaterProofs ------------------------
(***************************************************************************)
(* Proofs about SecretUpdater for all durations that satisfy               *)
(* UpdaterAssumption: type correctness, that the token stays valid while   *)
(* the setbacks fit into the lead, and that only due tokens are replaced.  *)
(***************************************************************************)
EXTENDS SecretUpdater, TLAPS

-----------------------------------------------------------------------------
(* The inductive invariant *)

HasToken(s) ==
    /\ s \in Secrets /\ s.there
    /\ s.expiresAt \in Nat /\ s.token \in Nat
    /\ s.expiresAt <= s.token /\ s.token < s.expiresAt + Second

Shape(s) == s \in {Absent, Empty, Broken} \/ HasToken(s)

ShapeInv == Shape(secret) /\ Shape(cache)

\* A round begins when the timer is due and ends within Slack.
TimerInv == waitTime >= -Slack /\ (pc # "wait" => waitTime <= 0)

\* The token in hand is as old as the round at most.
HandInv ==
    IF pc = "patch" THEN token \in Nat /\ token >= Life + waitTime /\ token <= Life
                    ELSE token = Nil

\* The cache shows the Secret as it was some time ago: an earlier token, or the
\* token of a Secret that has been deleted.
OrderInv ==
    /\ lag <= MaxLag
    /\ HasToken(cache) =>
          \/ secret = Absent
          \/ HasToken(secret) /\ cache.expiresAt <= secret.expiresAt

\* A token that the cache does not show was patched in since the cache fell
\* behind: it is young, and the wait that followed is not over before the cache
\* is a second behind.
LagInv ==
    HasToken(secret) /\ cache # secret =>
        /\ secret.expiresAt + lag > Life - Slack - Second
        /\ waitTime + lag >= Second

\* The next token will expire later than the present one.
FreshInv ==
    HasToken(secret) =>
        secret.expiresAt <= Life /\ secret.expiresAt <= Life - Second + waitTime

\* A new token is asked for when the present one is due, or unseen for a second.
DueInv ==
    pc \in {"token", "patch"} /\ HasToken(secret) => secret.expiresAt < Lead \/ behind

\* The timer is due in time for the lead, late by the setbacks at most.
LeadInv ==
    own /\ HasToken(secret) =>
        waitTime <= secret.expiresAt - Lead + setbacks * (Minute + Slack)

Inv ==
    /\ TypeOK /\ ShapeInv /\ TimerInv /\ HandInv
    /\ OrderInv /\ LagInv /\ FreshInv /\ DueInv /\ LeadInv

-----------------------------------------------------------------------------
(* Values *)

\* The Secrets without a token.
LEMMA NoToken ==
    /\ Absent \in Secrets /\ Empty \in Secrets /\ Broken \in Secrets
    /\ ~HasToken(Absent) /\ ~HasToken(Empty) /\ ~HasToken(Broken)
    /\ Absent.token = Nil /\ Empty.token = Nil /\ Broken.token = Nil
    /\ ~Absent.there /\ Empty.there /\ Broken.there
    /\ Absent.expiresAt = Nil /\ Empty.expiresAt = Nil /\ Broken.expiresAt = Invalid
  BY NilAssumption DEF Absent, Empty, Broken, Secrets, Times, HasToken

\* A Secret has the shape of one with a token or no token at all.
LEMMA ShapeToken ==
    ASSUME NEW s, Shape(s)
    PROVE  /\ s \in Secrets
           /\ s.token # Nil <=> HasToken(s)
           /\ s.expiresAt \in Nat <=> HasToken(s)
  BY NoToken, NilAssumption DEF Shape, HasToken

\* A Secret that was just patched.
LEMMA FilledShape ==
    ASSUME NEW t \in Nat, NEW frac \in Fractions, t >= frac
    PROVE  HasToken(Filled(t, frac)) /\ Filled(t, frac).expiresAt = t - frac
  BY UpdaterAssumption DEF Filled, Fractions, HasToken, Secrets, Times

\* Time passes for a token and its annotation together.
LEMMA OlderTime ==
    /\ Older(Nil) = Nil /\ Older(Invalid) = Invalid
    /\ \A t \in Nat : Older(t) \in Nat /\ Older(t) <= t /\ t - 1 <= Older(t)
    /\ \A t \in Nat : t > 0 => Older(t) = t - 1
    /\ Older(0) = 0
  BY NilAssumption DEF Older

LEMMA OlderShape ==
    ASSUME NEW s, Shape(s)
    PROVE  /\ Shape(OlderSecret(s))
           /\ HasToken(OlderSecret(s)) <=> HasToken(s)
           /\ HasToken(s) => /\ OlderSecret(s).expiresAt <= s.expiresAt
                             /\ s.expiresAt - 1 <= OlderSecret(s).expiresAt
           /\ ~HasToken(s) => OlderSecret(s) = s
  <1>1. CASE s \in {Absent, Empty, Broken}
    <2>1. OlderSecret(s) = s
      <3>1. OlderSecret(Absent) = Absent BY OlderTime DEF OlderSecret, Absent
      <3>2. OlderSecret(Empty) = Empty BY OlderTime DEF OlderSecret, Empty
      <3>3. OlderSecret(Broken) = Broken BY OlderTime DEF OlderSecret, Broken
      <3> QED BY <1>1, <3>1, <3>2, <3>3
    <2> QED BY <1>1, <2>1, NoToken
  <1>2. CASE HasToken(s)
    <2>1. /\ OlderSecret(s) \in Secrets
          /\ OlderSecret(s).there = s.there
          /\ OlderSecret(s).expiresAt = Older(s.expiresAt)
          /\ OlderSecret(s).token = Older(s.token)
      BY <1>2, OlderTime DEF OlderSecret, HasToken, Secrets, Times
    <2>2. Older(s.token) < Older(s.expiresAt) + Second /\ Older(s.expiresAt) <= Older(s.token)
      BY <1>2, OlderTime, UpdaterAssumption DEF HasToken
    <2> QED BY <1>2, <2>1, <2>2, OlderTime DEF Shape, HasToken
  <1> QED BY <1>1, <1>2 DEF Shape

\* One more setback leaves room for its cost.
LEMMA OneMore ==
    /\ \A n \in Nat : n * (Minute + Slack) \in Nat
    /\ \A n \in Nat : (n + 1) * (Minute + Slack) = n * (Minute + Slack) + Minute + Slack
    /\ 0 * (Minute + Slack) = 0 /\ 1 * (Minute + Slack) = Minute + Slack
  BY UpdaterAssumption

-----------------------------------------------------------------------------
(* The invariant holds *)

\* Initially.
LEMMA UpdaterInit == Init => Inv
  <1> SUFFICES ASSUME Init PROVE Inv
    OBVIOUS
  <1>1. Shape(secret) /\ (HasToken(secret) => secret.expiresAt <= Life)
    <2>1. CASE secret \in {Absent, Empty, Broken} BY <2>1, NoToken DEF Shape
    <2>2. ASSUME NEW t \in 0 .. Life, secret = Filled(t, 0)
          PROVE  Shape(secret) /\ secret.expiresAt <= Life
      <3>1. t \in Nat /\ t <= Life /\ 0 \in Fractions /\ t >= 0 /\ t - 0 = t
        BY UpdaterAssumption DEF Fractions
      <3> QED BY <2>2, <3>1, FilledShape DEF Shape
    <2> QED BY <2>1, <2>2 DEF Init
  <1>2. secret \in Secrets BY <1>1, ShapeToken
  <1>3. TypeOK
    <2>1. /\ cache = secret /\ lag = 0 /\ pc = "wait" /\ waitTime = Second /\ token = Nil
          /\ behind = FALSE /\ own = FALSE /\ setbacks = 0 /\ deletions = 0
      BY DEF Init
    <2>2. own \in BOOLEAN /\ behind \in BOOLEAN BY <2>1
    <2>3. /\ waitTime \in Int /\ token \in Times
          /\ lag \in Nat /\ setbacks \in Nat /\ deletions \in Nat
      BY <2>1, UpdaterAssumption DEF Times
    <2> QED BY <1>2, <2>1, <2>2, <2>3, Zenon DEF TypeOK
  <1>4. ShapeInv /\ TimerInv /\ HandInv /\ DueInv /\ LeadInv /\ LagInv
    BY <1>1, UpdaterAssumption DEF Init, ShapeInv, TimerInv, HandInv, DueInv, LeadInv, LagInv
  <1>5. OrderInv /\ FreshInv
    BY <1>1, UpdaterAssumption DEF Init, OrderInv, FreshInv, HasToken
  <1> QED BY <1>3, <1>4, <1>5 DEF Inv

\* A round that ends with a setback, or in time for the lead, while the Secret
\* stays as it is.
LEMMA RoundEnds ==
    ASSUME Inv, NEW t \in Nat, Wait(t), UNCHANGED <<envVars, own, deletions>>,
           \/ setbacks' = setbacks + 1 /\ t <= Minute
           \/ UNCHANGED setbacks /\ ~HasToken(secret)
           \/ UNCHANGED setbacks /\ t <= secret.expiresAt - Lead,
           t >= Second \/ waitTime <= 0
    PROVE  Inv'
  <1> USE DEF Inv, envVars
  <1>1. /\ pc' = "wait" /\ waitTime' = t /\ token' = Nil /\ behind' = FALSE
        /\ UNCHANGED <<secret, cache, lag, own, deletions>>
    BY DEF Wait
  <1>2. TypeOK'
    <2>1. behind' \in BOOLEAN BY <1>1
    <2> QED BY <1>1, <2>1 DEF TypeOK, Times
  <1>3. ShapeInv' /\ HandInv' /\ DueInv' /\ OrderInv'
    BY <1>1 DEF ShapeInv, Shape, HasToken, HandInv, DueInv, OrderInv
  <1>4. TimerInv' BY <1>1, UpdaterAssumption DEF TimerInv
  <1>5. LagInv' /\ FreshInv'
    BY <1>1, UpdaterAssumption DEF LagInv, FreshInv, HasToken, TypeOK
  <1>6. LeadInv'
    <2> SUFFICES ASSUME own, HasToken(secret)
                 PROVE  t <= secret.expiresAt - Lead + setbacks' * (Minute + Slack)
      BY <1>1 DEF LeadInv, HasToken
    <2>1. /\ waitTime <= secret.expiresAt - Lead + setbacks * (Minute + Slack)
          /\ waitTime >= -Slack /\ waitTime \in Int
          /\ setbacks \in Nat /\ secret.expiresAt \in Nat
      BY DEF LeadInv, TimerInv, TypeOK, HasToken
    <2>2. /\ setbacks * (Minute + Slack) \in Nat
          /\ (setbacks + 1) * (Minute + Slack) = setbacks * (Minute + Slack) + Minute + Slack
      BY <2>1, OneMore
    <2>3. CASE setbacks' = setbacks + 1 /\ t <= Minute
      BY <2>1, <2>2, <2>3, UpdaterAssumption
    <2>4. CASE UNCHANGED setbacks /\ t <= secret.expiresAt - Lead
      BY <2>1, <2>2, <2>4, UpdaterAssumption
    <2> QED BY <2>3, <2>4
  <1> QED BY <1>2, <1>3, <1>4, <1>5, <1>6

\* What is left of a new token after a round and the rounding of its annotation.
LEMMA PatchTimes ==
    ASSUME NEW t \in Nat, t >= Life - Slack, t <= Life, NEW f \in Nat, f < Second,
           NEW w \in Nat, w >= Second, NEW l \in Nat
    PROVE  /\ (t - f) + l > Life - Slack - Second /\ w + l >= Second
           /\ t - f <= Life /\ t - f <= Life - Second + w
  BY UpdaterAssumption

\* A patch starts a new life of the token, longer than what the cache shows.
LEMMA PatchEnds ==
    ASSUME Inv, pc = "patch", NEW frac \in Fractions, secret.there,
           Change(Filled(token, frac)), own' = TRUE, UNCHANGED <<cache, deletions>>,
           \/ setbacks' = 0 /\ Wait(Second)
           \/ setbacks' = 1 /\ Wait(Minute)
    PROVE  Inv'
  <1> USE DEF Inv
  <1>1. /\ token \in Nat /\ token >= Life - Slack /\ token <= Life /\ token >= Life + waitTime
        /\ frac \in Nat /\ frac < Second /\ waitTime \in Int
    BY UpdaterAssumption DEF HandInv, TimerInv, TypeOK, Fractions
  <1>2. HasToken(secret') /\ secret'.expiresAt = token - frac
    BY <1>1, FilledShape, UpdaterAssumption DEF Change
  <1>3. /\ pc' = "wait" /\ token' = Nil /\ behind' = FALSE
        /\ waitTime' \in Nat /\ waitTime' >= Second /\ setbacks' \in Nat
        /\ waitTime' <= Second + setbacks' * (Minute + Slack)
    BY OneMore, UpdaterAssumption DEF Wait
  <1>4. secret'.expiresAt - Lead >= Second
    BY <1>1, <1>2, UpdaterAssumption
  <1>5. Shape(secret') /\ secret' \in Secrets BY <1>2 DEF Shape, HasToken
  <1>6. lag' \in Nat /\ lag' <= MaxLag
    BY UpdaterAssumption DEF Change, OrderInv, TypeOK
  <1>7. TypeOK'
    <2>1. behind' \in BOOLEAN /\ own' \in BOOLEAN BY <1>3
    <2> QED BY <1>3, <1>5, <1>6, <2>1 DEF TypeOK, Times
  <1>8. ShapeInv' /\ HandInv' /\ DueInv' /\ TimerInv'
    BY <1>3, <1>5, UpdaterAssumption DEF ShapeInv, Shape, HasToken, HandInv, DueInv, TimerInv
  <1>9. OrderInv'
    <2> SUFFICES ASSUME HasToken(cache)
                 PROVE  cache.expiresAt <= secret'.expiresAt
      BY <1>2, <1>6 DEF OrderInv, HasToken
    <2>1. HasToken(secret) /\ cache.expiresAt <= secret.expiresAt
      BY NoToken DEF OrderInv
    <2>2. /\ cache.expiresAt \in Nat /\ secret.expiresAt \in Nat
          /\ secret.expiresAt <= Life - Second + waitTime
      BY <2>1 DEF FreshInv, HasToken
    <2> QED BY <1>1, <1>2, <2>1, <2>2, UpdaterAssumption
  <1>10. LagInv' /\ FreshInv'
    <2>1. waitTime' \in Nat /\ waitTime' >= Second BY <1>3
    <2>2. /\ (token - frac) + lag' > Life - Slack - Second /\ waitTime' + lag' >= Second
          /\ token - frac <= Life /\ token - frac <= Life - Second + waitTime'
      BY <1>1, <1>6, <2>1, PatchTimes
    <2> QED BY <1>2, <2>2 DEF LagInv, FreshInv
  <1>11. LeadInv'
    <2>1. setbacks' * (Minute + Slack) \in Nat /\ secret'.expiresAt \in Nat
      BY <1>2, <1>3, OneMore DEF HasToken
    <2>2. waitTime' <= secret'.expiresAt - Lead + setbacks' * (Minute + Slack)
      <3> DEFINE cost == setbacks' * (Minute + Slack)
      <3> HIDE DEF cost
      <3>1. cost \in Nat /\ waitTime' <= Second + cost BY <1>3, <2>1 DEF cost
      <3>2. waitTime' <= secret'.expiresAt - Lead + cost
        BY <1>3, <1>4, <2>1, <3>1, UpdaterAssumption
      <3> QED BY <3>2 DEF cost
    <2> QED BY <2>2 DEF LeadInv
  <1> QED BY <1>7, <1>8, <1>9, <1>10, <1>11

\* A Secret that loses its token, or is created without one.
LEMMA EmptyChange ==
    ASSUME Inv, NEW s, Change(s), s = Absent \/ (s = Empty /\ ~cache.there),
           UNCHANGED <<cache, procVars, own, setbacks>>, deletions' \in Nat
    PROVE  Inv'
  <1> USE DEF Inv
  <1>1. /\ secret' = s /\ ~HasToken(secret') /\ Shape(secret') /\ secret' \in Secrets
        /\ UNCHANGED <<cache, pc, waitTime, token, behind, own, setbacks>>
    BY NoToken DEF Change, Shape, procVars
  <1>2. lag' \in Nat /\ lag' <= MaxLag
    BY UpdaterAssumption DEF Change, OrderInv, TypeOK
  <1>3. TypeOK'
    <2>1. behind' \in BOOLEAN /\ own' \in BOOLEAN BY <1>1 DEF TypeOK
    <2> QED BY <1>1, <1>2, <2>1 DEF TypeOK
  <1>4. ShapeInv' /\ TimerInv' /\ HandInv'
    BY <1>1 DEF ShapeInv, Shape, HasToken, TimerInv, HandInv
  <1>5. OrderInv'
    <2>1. HasToken(cache) => s = Absent BY DEF HasToken
    <2> QED BY <1>1, <1>2, <2>1 DEF OrderInv, HasToken
  <1>6. LagInv' /\ FreshInv' /\ DueInv' /\ LeadInv'
    BY <1>1 DEF LagInv, FreshInv, DueInv, LeadInv, HasToken
  <1> QED BY <1>3, <1>4, <1>5, <1>6

\* A round reads the Secret.
LEMMA GetSecretStep == Inv /\ GetSecret => Inv'
  <1> SUFFICES ASSUME Inv, GetSecret PROVE Inv'
    OBVIOUS
  <1> USE DEF Inv
  <1>1. /\ pc = "get" /\ waitTime <= 0 /\ waitTime \in Int /\ token = Nil
        /\ UNCHANGED <<envVars, own, deletions>>
    BY DEF GetSecret, TimerInv, HandInv, TypeOK
  <1>2. HasToken(secret) /\ cache # secret =>
          secret.expiresAt \in Nat /\ secret.expiresAt - Lead >= Second /\ lag >= Second
    BY <1>1, UpdaterAssumption DEF LagInv, OrderInv, TypeOK, HasToken
  <1>3. CASE ~cache.there /\ Works /\ Wait(Second)
    <2>1. ~HasToken(secret) \/ Second <= secret.expiresAt - Lead
      BY <1>2, <1>3 DEF HasToken
    <2>2. Second \in Nat BY UpdaterAssumption
    <2> QED BY <1>1, <1>3, <2>1, <2>2, RoundEnds DEF Works
  <1>4. CASE Fails /\ Wait(Minute)
    BY <1>1, <1>4, RoundEnds, UpdaterAssumption DEF Fails
  <1>5. CASE cache.there /\ ~NeedUpdate(cache) /\ Works /\ Wait(UpdateTime(cache))
    <2>1. HasToken(cache) /\ cache.expiresAt - Lead \in Nat
      BY <1>5, ShapeToken, NilAssumption, UpdaterAssumption
      DEF NeedUpdate, UpdateTime, ShapeInv, Secrets
    <2>2. ~HasToken(secret) \/ cache.expiresAt - Lead <= secret.expiresAt - Lead
      BY <2>1, NoToken, UpdaterAssumption DEF OrderInv, HasToken
    <2> QED BY <1>1, <1>5, <2>1, <2>2, RoundEnds DEF Works, UpdateTime
  <1>6. CASE cache.there /\ NeedUpdate(cache) /\ Works /\ GoesOn
    <2>1. HasToken(cache) => cache.expiresAt < Lead
      BY <1>6, NilAssumption, UpdaterAssumption DEF NeedUpdate, UpdateTime, HasToken
    <2>2. behind' \in BOOLEAN BY <1>6 DEF GoesOn
    <2>3. HasToken(secret) => secret.expiresAt < Lead \/ behind'
      <3>1. CASE cache = secret BY <2>1, <3>1
      <3>2. CASE cache # secret BY <1>2, <1>6, <3>2 DEF GoesOn
      <3> QED BY <3>1, <3>2
    <2>4. /\ pc' = "token"
          /\ UNCHANGED <<secret, cache, lag, waitTime, token, own, setbacks, deletions>>
      BY <1>1, <1>6 DEF GoesOn, Works, envVars
    <2>5. TypeOK' BY <2>2, <2>4 DEF TypeOK
    <2>6. ShapeInv' /\ TimerInv' /\ HandInv' /\ DueInv'
      BY <1>1, <2>3, <2>4 DEF ShapeInv, Shape, HasToken, TimerInv, HandInv, DueInv
    <2>7. OrderInv' /\ LagInv' /\ FreshInv' /\ LeadInv'
      BY <2>4 DEF OrderInv, LagInv, FreshInv, LeadInv, HasToken
    <2> QED BY <2>5, <2>6, <2>7
  <1> QED BY <1>3, <1>4, <1>5, <1>6 DEF GetSecret

\* Time passes.
LEMMA TickStep == Inv /\ Tick => Inv'
  <1> SUFFICES ASSUME Inv, Tick PROVE Inv'
    OBVIOUS
  <1> USE DEF Inv
  <1>1. /\ secret' = OlderSecret(secret) /\ cache' = OlderSecret(cache)
        /\ waitTime' = waitTime - 1 /\ token' = Older(token)
        /\ UNCHANGED <<pc, behind, own, setbacks, deletions>>
    BY DEF Tick
  <1>2. /\ Shape(secret') /\ secret' \in Secrets
        /\ HasToken(secret') <=> HasToken(secret)
        /\ HasToken(secret) => /\ secret'.expiresAt <= secret.expiresAt
                               /\ secret.expiresAt - 1 <= secret'.expiresAt
                               /\ secret'.expiresAt = Older(secret.expiresAt)
        /\ ~HasToken(secret) => secret' = secret
    BY <1>1, OlderShape, ShapeToken DEF ShapeInv, OlderSecret
  <1>3. /\ Shape(cache') /\ cache' \in Secrets
        /\ HasToken(cache') <=> HasToken(cache)
        /\ HasToken(cache) => cache'.expiresAt = Older(cache.expiresAt)
    BY <1>1, OlderShape, ShapeToken DEF ShapeInv, OlderSecret
  <1>4. /\ lag' \in Nat /\ lag' <= MaxLag
        /\ cache = secret => cache' = secret'
        /\ cache # secret => lag' = lag + 1
    BY <1>1, UpdaterAssumption DEF Tick, TypeOK
  <1>5. TimerInv' BY <1>1, UpdaterAssumption DEF Tick, TimerInv, TypeOK
  <1>6. HandInv' BY <1>1, OlderTime, UpdaterAssumption DEF HandInv, TypeOK
  <1>7. TypeOK'
    <2>1. behind' \in BOOLEAN /\ own' \in BOOLEAN BY <1>1 DEF TypeOK
    <2> QED BY <1>1, <1>2, <1>3, <1>4, <1>6, <2>1 DEF TypeOK, HandInv, Times
  <1>8. ShapeInv' BY <1>2, <1>3 DEF ShapeInv, Shape, HasToken
  <1>9. OrderInv'
    <2>1. ASSUME HasToken(cache), HasToken(secret), cache.expiresAt <= secret.expiresAt
          PROVE  cache'.expiresAt <= secret'.expiresAt
      BY <1>2, <1>3, <2>1, OlderTime DEF HasToken, Older
    <2>2. secret = Absent => secret' = Absent BY <1>2, NoToken
    <2> QED BY <1>2, <1>3, <1>4, <2>1, <2>2 DEF OrderInv, HasToken
  <1>10. LagInv'
    <2> SUFFICES ASSUME HasToken(secret), cache # secret
                 PROVE  /\ secret'.expiresAt + lag' > Life - Slack - Second
                        /\ waitTime' + lag' >= Second
      BY <1>2, <1>4 DEF LagInv, HasToken
    <2>1. /\ secret.expiresAt + lag > Life - Slack - Second
          /\ waitTime + lag >= Second
          /\ secret.expiresAt \in Nat /\ secret'.expiresAt \in Nat
          /\ lag \in Nat /\ waitTime \in Int
      BY <1>2 DEF LagInv, HasToken, TypeOK
    <2> QED BY <1>1, <1>2, <1>4, <2>1, UpdaterAssumption
  <1>11. FreshInv'
    <2> SUFFICES ASSUME HasToken(secret)
                 PROVE  /\ secret'.expiresAt <= Life
                        /\ secret'.expiresAt <= Life - Second + waitTime'
      BY <1>2 DEF FreshInv
    <2>1. /\ secret.expiresAt <= Life /\ secret.expiresAt <= Life - Second + waitTime
          /\ secret.expiresAt \in Nat /\ waitTime \in Int /\ waitTime > -Slack
      BY DEF FreshInv, HasToken, TypeOK, Tick
    <2> QED BY <1>1, <1>2, <2>1, OlderTime, UpdaterAssumption
  <1>12. DueInv'
    <2>1. HasToken(secret) => secret.expiresAt \in Nat /\ secret'.expiresAt \in Nat
      BY <1>2 DEF HasToken
    <2>2. HasToken(secret) /\ secret.expiresAt < Lead => secret'.expiresAt < Lead
      BY <1>2, <2>1, UpdaterAssumption
    <2> QED BY <1>1, <1>2, <2>2 DEF DueInv
  <1>13. LeadInv'
    <2> SUFFICES ASSUME own, HasToken(secret)
                 PROVE  waitTime - 1 <= secret'.expiresAt - Lead + setbacks * (Minute + Slack)
      BY <1>1, <1>2 DEF LeadInv
    <2>1. /\ waitTime <= secret.expiresAt - Lead + setbacks * (Minute + Slack)
          /\ setbacks * (Minute + Slack) \in Nat
          /\ secret.expiresAt \in Nat /\ secret'.expiresAt \in Nat
          /\ secret.expiresAt - 1 <= secret'.expiresAt /\ waitTime \in Int
      BY <1>2, OneMore DEF LeadInv, TypeOK, HasToken
    <2> QED BY <2>1, UpdaterAssumption
  <1> QED BY <1>5, <1>6, <1>7, <1>8, <1>9, <1>10, <1>11, <1>12, <1>13

\* At every step.
LEMMA UpdaterStep == Inv /\ [Next]_vars => Inv'
  <1> SUFFICES ASSUME Inv, [Next]_vars PROVE Inv'
    OBVIOUS
  <1> USE DEF Inv
  <1>1. CASE TimerFires
    <2>1. /\ pc' = "get" /\ pc = "wait" /\ waitTime <= 0
          /\ UNCHANGED <<secret, cache, lag, waitTime, token, behind, own, setbacks, deletions>>
      BY <1>1 DEF TimerFires, envVars
    <2> QED
      BY <2>1 DEF TypeOK, ShapeInv, Shape, HasToken, TimerInv, HandInv, OrderInv, LagInv,
                  FreshInv, DueInv, LeadInv
  <1>2. CASE GetSecret BY <1>2, GetSecretStep
  <1>3. CASE CreateRegistrationToken
    <2>1. pc = "token" /\ waitTime <= 0 /\ UNCHANGED <<envVars, own, deletions>>
      BY <1>3 DEF CreateRegistrationToken, TimerInv
    <2>2. CASE Works /\ pc' = "patch" /\ token' = Life /\ UNCHANGED <<waitTime, behind>>
      BY <2>1, <2>2, UpdaterAssumption
      DEF Works, TypeOK, Times, ShapeInv, Shape, HasToken, TimerInv, HandInv, OrderInv, LagInv,
          FreshInv, DueInv, LeadInv, envVars
    <2>3. CASE Fails /\ Wait(Minute)
      BY <2>1, <2>3, RoundEnds, UpdaterAssumption DEF Fails
    <2> QED BY <1>3, <2>2, <2>3 DEF CreateRegistrationToken
  <1>4. CASE PatchSecret
    <2>1. pc = "patch" /\ waitTime <= 0 /\ UNCHANGED <<cache, deletions>>
      BY <1>4 DEF PatchSecret, TimerInv
    <2>2. ASSUME secret.there, NEW frac \in Fractions, Change(Filled(token, frac)), own' = TRUE,
                 \/ setbacks' = 0 /\ Wait(Second)
                 \/ MaxSetbacks > 0 /\ setbacks' = 1 /\ Wait(Minute)
          PROVE  Inv'
      BY <2>1, <2>2, PatchEnds
    <2>3. CASE ~secret.there /\ Works /\ UNCHANGED <<secret, lag, own>> /\ Wait(Minute)
      BY <2>1, <2>3, RoundEnds, UpdaterAssumption DEF Works, HasToken, envVars
    <2>4. CASE Fails /\ UNCHANGED <<secret, lag, own>> /\ Wait(Minute)
      BY <2>1, <2>4, RoundEnds, UpdaterAssumption DEF Fails, envVars
    <2> QED BY <1>4, <2>2, <2>3, <2>4 DEF PatchSecret
  <1>5. CASE RestartController
    BY <1>5, RoundEnds, UpdaterAssumption DEF RestartController, Fails
  <1>6. CASE ReconcileSecret
    BY <1>6, EmptyChange DEF ReconcileSecret, TypeOK
  <1>7. CASE DeleteSecret
    BY <1>7, EmptyChange DEF DeleteSecret, TypeOK
  <1>8. CASE CacheSync
    <2>1. /\ cache' = secret /\ lag' = 0
          /\ UNCHANGED <<secret, pc, waitTime, token, behind, own, setbacks, deletions>>
      BY <1>8 DEF CacheSync, procVars
    <2>2. TypeOK' /\ ShapeInv' /\ TimerInv' /\ HandInv' /\ FreshInv' /\ DueInv' /\ LeadInv'
      BY <2>1 DEF TypeOK, ShapeInv, Shape, HasToken, TimerInv, HandInv, FreshInv, DueInv, LeadInv
    <2>3. OrderInv' /\ LagInv'
      BY <2>1, UpdaterAssumption DEF OrderInv, LagInv, HasToken
    <2> QED BY <2>2, <2>3
  <1>9. CASE Tick BY <1>9, TickStep
  <1>10. CASE UNCHANGED vars
    BY <1>10 DEF vars, envVars, procVars, TypeOK, ShapeInv, Shape, HasToken, TimerInv, HandInv,
                 OrderInv, LagInv, FreshInv, DueInv, LeadInv
  <1> QED
    BY <1>1, <1>2, <1>3, <1>4, <1>5, <1>6, <1>7, <1>8, <1>9, <1>10 DEF Next, Process

\* The invariant holds in every reachable state.
THEOREM UpdaterInvariance == Spec => []Inv
  BY UpdaterInit, UpdaterStep, PTL DEF Spec

-----------------------------------------------------------------------------
(* What follows *)

\* Every variable keeps its type.
THEOREM UpdaterTypeCorrect == Spec => []TypeOK
  <1>1. Inv => TypeOK BY DEF Inv
  <1> QED BY <1>1, UpdaterInvariance, PTL

\* The token in the Secret is valid as long as the setbacks fit into the lead.
THEOREM UpdaterTokenStaysValid == Spec => []TokenStaysValid
  <1>1. Inv => TokenStaysValid
    <2> SUFFICES ASSUME Inv, own, secret.token # Nil, Tolerable PROVE secret.token > 0
      BY DEF TokenStaysValid
    <2>1. HasToken(secret) BY ShapeToken DEF Inv, ShapeInv
    <2>2. /\ waitTime <= secret.expiresAt - Lead + setbacks * (Minute + Slack)
          /\ waitTime >= -Slack /\ waitTime \in Int
          /\ setbacks * (Minute + Slack) \in Nat
          /\ secret.expiresAt \in Nat /\ secret.token \in Nat
          /\ secret.expiresAt <= secret.token
      BY <2>1, OneMore DEF Inv, LeadInv, TimerInv, TypeOK, HasToken
    <2>3. setbacks * (Minute + Slack) + Slack < Lead BY DEF Tolerable
    <2> QED BY <2>2, <2>3, UpdaterAssumption
  <1> QED BY <1>1, UpdaterInvariance, PTL

\* A token is replaced only when it is due, or when the cache had not shown it for
\* a second.
THEOREM UpdaterOnlyDueTokensAreReplaced == Spec => OnlyDueTokensAreReplaced
  <1>1. Inv /\ [Next]_vars =>
          [pc = "patch" /\ secret' # secret /\ secret.token # Nil
             => secret.token < Lead + Second \/ behind]_vars
    <2> SUFFICES ASSUME Inv, pc = "patch", secret.token # Nil
                 PROVE  secret.token < Lead + Second \/ behind
      OBVIOUS
    <2>1. HasToken(secret) BY ShapeToken DEF Inv, ShapeInv
    <2>2. secret.expiresAt < Lead \/ behind BY <2>1 DEF Inv, DueInv
    <2> QED BY <2>1, <2>2, UpdaterAssumption DEF HasToken
  <1> QED BY <1>1, UpdaterInvariance, PTL DEF Spec, OnlyDueTokensAreReplaced

=============================================================================
