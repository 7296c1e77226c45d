-------------------------- MODULE SlackAgentProofs --------------------------
(***************************************************************************)
(* Proofs about SlackAgent for any number of pods, agents, clicks and      *)
(* deliveries and any durations: type correctness, the limit of an         *)
(* extension, who may take a stored deletion time back, and that no click  *)
(* is lost unless a process has ended.                                     *)
(***************************************************************************)
EXTENDS SlackAgent, TLAPS

-----------------------------------------------------------------------------
(* The inductive invariant *)

Busy == {"put", "post", "ack"}

\* A handler works for an event that exists; the time it is about to store is
\* within the limit, and not before the time it has read.
HandlerOK(a) ==
    /\ ag[a].pc \in Busy => ag[a].event \in Events /\ events[ag[a].event] \in Clicks
    /\ ag[a].pc \notin Busy => ag[a].event = Nil
    /\ ag[a].pc = "put" =>
          /\ ag[a].tm \in Int /\ ag[a].tm <= now + ExtendLimit
          /\ Kind(a) = "extend" /\ ag[a].base = ZeroTime => ag[a].tm = ZeroTime
          /\ Kind(a) = "extend" /\ ag[a].base \in Int /\ ag[a].base # ZeroTime =>
                ag[a].tm >= ag[a].base \/ ExtendDuration > ExtendLimit

HandlerInv == \A a \in Agents : HandlerOK(a)

\* What waits for an agent are clicks.
InboxInv == \A a \in Agents, e \in Events : inbox[a][e] > 0 => events[e] \in Clicks

\* A visit of the manager that is under way is about a pod that has finished,
\* and it stores a deletion time only if it has read none.
VisitInv ==
    /\ mpc \in {"post", "put", "delete"} => cur \in Pods /\ finishedAt[cur] # Nil
    /\ mpc = "put" => status = Nil

\* No job has finished in the future.
FinishInv == \A p \in Pods : finishedAt[p] # Nil => finishedAt[p] <= now

Inv == TypeOK /\ HandlerInv /\ InboxInv /\ VisitInv /\ FinishInv /\ WithinLimit

\* The initial states satisfy the invariant.
LEMMA InvInit == Init => Inv
  <1> SUFFICES ASSUME Init PROVE Inv
    OBVIOUS
  <1> USE DEF Init
  <1>1. Idle \in Handlers /\ Idle.pc = "idle" /\ Idle.event = Nil
    BY DEF Idle, Handler, Handlers, Times
  <1>2. TypeOK BY <1>1 DEF TypeOK, Times, NoEvents
  <1>3. HandlerInv BY <1>1 DEF HandlerInv, HandlerOK, Busy
  <1>4. VisitInv /\ FinishInv /\ WithinLimit BY DEF VisitInv, FinishInv, WithinLimit
  <1>5. InboxInv BY DEF InboxInv, NoEvents
  <1> QED BY <1>2, <1>3, <1>4, <1>5 DEF Inv

\* A call works or fails: the count of failures stays a number.
LEMMA FailureType ==
    ASSUME failures \in Nat, Works \/ Fails
    PROVE  failures' \in Nat
  BY DEF Works, Fails

\* The types of the handler records that the actions store.
LEMMA HandlerType ==
    /\ Idle \in Handlers /\ Idle.pc = "idle" /\ Idle.event = Nil
    /\ Down \in Handlers /\ Down.pc = "down" /\ Down.event = Nil
    /\ \A pc \in Busy, e \in Events, t \in Times, tm \in Times :
          /\ Handler(pc, e, t, tm) \in Handlers
          /\ Handler(pc, e, t, tm).pc = pc /\ Handler(pc, e, t, tm).event = e
          /\ Handler(pc, e, t, tm).base = t /\ Handler(pc, e, t, tm).tm = tm
  BY DEF Idle, Down, Handler, Handlers, Times, Busy

\* What an extension computes from a stored time, or from now.
LEMMA ExtendedFacts ==
    ASSUME NEW t \in Int, now \in Nat
    PROVE  /\ Extended(t) \in Int
           /\ Extended(t) <= now + ExtendLimit
           /\ t = ZeroTime => Extended(t) = ZeroTime
           /\ t # ZeroTime /\ t <= now + ExtendLimit => Extended(t) >= t
  BY AgentAssumption DEF Extended, ZeroTime

\* The events an agent may be working for are still there, for the same pod
\* and the same button.
EventsKept ==
    \A e \in Events : events[e] \in Clicks =>
        events'[e] \in Clicks /\ events'[e].pod = events[e].pod /\ events'[e].kind = events[e].kind

\* Counting a delivery and noting an acknowledgement change no other field.
LEMMA EventUpdate ==
    ASSUME TypeOK, NEW e \in Events, events[e] \in Clicks,
           \/ events' = [events EXCEPT ![e].deliveries = @ + 1]
           \/ events' = [events EXCEPT ![e].acked = TRUE]
    PROVE  events' \in [Events -> Clicks \cup {Nil}] /\ events'[e] \in Clicks /\ EventsKept
  <1>1. events'[e] \in Clicks /\ events'[e].pod = events[e].pod /\ events'[e].kind = events[e].kind
    <2>1. CASE events' = [events EXCEPT ![e].deliveries = @ + 1]
      <3>1. events'[e] = [events[e] EXCEPT !.deliveries = events[e].deliveries + 1]
        BY <2>1 DEF TypeOK
      <3>2. events[e].deliveries + 1 \in Nat BY DEF Clicks
      <3> QED BY <3>1, <3>2, Zenon DEF Clicks
    <2>2. CASE events' = [events EXCEPT ![e].acked = TRUE]
      <3>1. events'[e] = [events[e] EXCEPT !.acked = TRUE] BY <2>2 DEF TypeOK
      <3> QED BY <3>1, Zenon DEF Clicks
    <2> QED BY <2>1, <2>2
  <1>2. \A d \in Events : d # e => events'[d] = events[d]
    BY DEF TypeOK
  <1>3. events' \in [Events -> Clicks \cup {Nil}]
    BY <1>1 DEF TypeOK
  <1> QED BY <1>1, <1>2, <1>3 DEF EventsKept

Inboxes == [Agents -> [Events -> Nat]]

\* Nothing arrives in a channel.
InboxKept ==
    /\ inbox' \in Inboxes
    /\ \A a \in Agents, e \in Events : inbox'[a][e] > 0 => inbox[a][e] > 0

\* Then what waits are clicks still.
LEMMA InboxInvKept ==
    ASSUME InboxInv, InboxKept, EventsKept
    PROVE  InboxInv'
  BY DEF InboxInv, InboxKept, EventsKept

\* A channel that stays as it is.
LEMMA SameInbox ==
    ASSUME TypeOK, UNCHANGED inbox
    PROVE  InboxKept
  BY DEF TypeOK, InboxKept, Inboxes

\* The channel of a process that ends is gone; that of an agent that takes an
\* event has one less of it.
LEMMA InboxUpdate ==
    ASSUME TypeOK, NEW a \in Agents, NEW e \in Events,
           \/ inbox' = [inbox EXCEPT ![a] = NoEvents]
           \/ inbox[a][e] > 0 /\ inbox' = [inbox EXCEPT ![a][e] = @ - 1]
    PROVE  /\ InboxKept
           /\ inbox' # [inbox EXCEPT ![a] = NoEvents] =>
                 \A b \in Agents, d \in Events : d # e => inbox'[b][d] = inbox[b][d]
  <1>1. inbox \in [Agents -> [Events -> Nat]] BY DEF TypeOK
  <1>2. CASE inbox' = [inbox EXCEPT ![a] = NoEvents]
    BY <1>1, <1>2 DEF InboxKept, Inboxes, NoEvents
  <1>3. CASE inbox[a][e] > 0 /\ inbox' = [inbox EXCEPT ![a][e] = @ - 1]
    <2> DEFINE f == [inbox[a] EXCEPT ![e] = inbox[a][e] - 1]
    <2>1. inbox[a] \in [Events -> Nat] /\ inbox[a][e] - 1 \in Nat BY <1>1, <1>3
    <2>2. f \in [Events -> Nat] /\ \A d \in Events : d # e => f[d] = inbox[a][d]
      BY <2>1
    <2>3. inbox' = [inbox EXCEPT ![a] = f] BY <1>3
    <2> HIDE DEF f
    <2>4. inbox' \in Inboxes BY <1>1, <2>2, <2>3 DEF Inboxes
    <2>5. \A b \in Agents, d \in Events : d # e => inbox'[b][d] = inbox[b][d]
      BY <1>1, <2>2, <2>3
    <2>6. \A b \in Agents : b # a => inbox'[b] = inbox[b] BY <1>1, <2>3
    <2>7. InboxKept BY <1>3, <2>4, <2>5, <2>6 DEF InboxKept
    <2> QED BY <2>5, <2>7
  <1> QED BY <1>2, <1>3

\* A handler that takes no step stays in order while the clock goes on.
LEMMA OthersKept ==
    ASSUME TypeOK, NEW a \in Agents, HandlerOK(a), ag'[a] = ag[a], EventsKept,
           now' \in Nat, now' >= now
    PROVE  HandlerOK(a)'
  <1>1. ag[a].pc \in Busy => /\ ag'[a].event \in Events /\ events'[ag'[a].event] \in Clicks
                            /\ Kind(a)' = Kind(a)
    BY DEF HandlerOK, EventsKept, Kind
  <1>2. now \in Nat /\ ExtendLimit \in Nat
    BY AgentAssumption DEF TypeOK
  <1>3. ag[a].pc = "put" => ag[a].tm <= now' + ExtendLimit
    BY <1>2 DEF HandlerOK
  <1>4. "put" \in Busy BY DEF Busy
  <1> QED BY <1>1, <1>3, <1>4 DEF HandlerOK

\* Deletion times, finish times and the clock stay in step as long as none of
\* the first is stored.
LEMMA TimesKept ==
    ASSUME Inv, now' \in Nat, now' >= now, UNCHANGED <<finishedAt, deletionTime>>
    PROVE  FinishInv' /\ WithinLimit'
  BY AgentAssumption DEF Inv, TypeOK, FinishInv, WithinLimit, Times

\* The steps of an agent, apart from what they do with its own handler.
LEMMA AgentStep ==
    ASSUME Inv, NEW a \in Agents, NEW h \in Handlers, ag' = [ag EXCEPT ![a] = h],
           EventsKept, events' \in [Events -> Clicks \cup {Nil}],
           answered' \subseteq Events, Works \/ Fails, HandlerOK(a)', InboxKept,
           UNCHANGED <<now, podVars, message, passVars>>
    PROVE  Inv'
  <1>1. TypeOK'
    BY FailureType DEF Inv, TypeOK, podVars, passVars, InboxKept, Inboxes
  <1>2. HandlerInv'
    <2> SUFFICES ASSUME NEW b \in Agents PROVE HandlerOK(b)'
      BY DEF HandlerInv
    <2>1. CASE b = a BY <2>1
    <2>2. CASE b # a
      <3>1. ag'[b] = ag[b] BY <2>2 DEF Inv, TypeOK
      <3> QED BY <3>1, OthersKept DEF Inv, HandlerInv, TypeOK
    <2> QED BY <2>1, <2>2
  <1>3. VisitInv' BY DEF Inv, VisitInv, podVars, passVars
  <1>4. FinishInv' /\ WithinLimit' BY TimesKept DEF Inv, TypeOK, podVars
  <1>5. InboxInv' BY InboxInvKept DEF Inv
  <1> QED BY <1>1, <1>2, <1>3, <1>4, <1>5 DEF Inv

\* The steps that leave agents, events and stored times alone.
LEMMA QuietStep ==
    ASSUME Inv, TypeOK', VisitInv', now' >= now,
           UNCHANGED <<finishedAt, deletionTime, events, agVars>>
    PROVE  Inv'
  <1>1. EventsKept BY DEF EventsKept
  <1>2. HandlerInv' BY <1>1, OthersKept DEF Inv, HandlerInv, TypeOK, agVars
  <1>3. FinishInv' /\ WithinLimit' BY TimesKept DEF TypeOK
  <1>4. InboxInv' BY DEF Inv, InboxInv, agVars
  <1> QED BY <1>2, <1>3, <1>4 DEF Inv

-----------------------------------------------------------------------------
(* One lemma per party *)

\* A delivery keeps the events in order and puts the event into the channel.
LEMMA DeliverFacts ==
    ASSUME TypeOK, NEW e \in Events, NEW a \in Agents, Deliver(e, a)
    PROVE  /\ EventsKept /\ events' \in [Events -> Clicks \cup {Nil}] /\ events'[e] \in Clicks
           /\ \A d \in Events : d # e => events'[d] = events[d]
           /\ events'[e].acked = events[e].acked
           /\ inbox' \in Inboxes /\ inbox'[a][e] > 0
           /\ \A b \in Agents, d \in Events : d # e => inbox'[b][d] = inbox[b][d]
  <1>1. events[e] \in Clicks BY DEF Deliver, TypeOK
  <1>2. events' = [events EXCEPT ![e].deliveries = @ + 1]
        /\ inbox' = [inbox EXCEPT ![a][e] = @ + 1]
    BY DEF Deliver
  <1>3. EventsKept /\ events' \in [Events -> Clicks \cup {Nil}] /\ events'[e] \in Clicks
    BY <1>1, <1>2, EventUpdate
  <1>4. events'[e].acked = events[e].acked
    <2>1. events'[e] = [events[e] EXCEPT !.deliveries = events[e].deliveries + 1]
      BY <1>2 DEF TypeOK
    <2> QED BY <1>1, <2>1, Zenon DEF Clicks
  <1>5. \A d \in Events : d # e => events'[d] = events[d] BY <1>2 DEF TypeOK
  <1> DEFINE f == [inbox[a] EXCEPT ![e] = inbox[a][e] + 1]
  <1>6. inbox \in [Agents -> [Events -> Nat]] BY DEF TypeOK
  <1>7. inbox[a] \in [Events -> Nat] /\ inbox[a][e] + 1 \in Nat /\ inbox[a][e] + 1 > 0
    BY <1>6
  <1>8. f \in [Events -> Nat] /\ f[e] > 0 /\ \A d \in Events : d # e => f[d] = inbox[a][d]
    BY <1>7
  <1>9. inbox' = [inbox EXCEPT ![a] = f] BY <1>2
  <1> HIDE DEF f
  <1>10. inbox' \in Inboxes /\ inbox'[a][e] > 0
    BY <1>6, <1>8, <1>9 DEF Inboxes
  <1>11. \A b \in Agents, d \in Events : d # e => inbox'[b][d] = inbox[b][d]
    BY <1>6, <1>8, <1>9
  <1> QED BY <1>3, <1>4, <1>5, <1>10, <1>11

\* Deliveries keep the invariant.
LEMMA DeliverKeeps ==
    ASSUME Inv, NEW e \in Events, NEW a \in Agents, Deliver(e, a)
    PROVE  Inv'
  <1>1. TypeOK BY DEF Inv
  <1>2. /\ EventsKept /\ events' \in [Events -> Clicks \cup {Nil}] /\ events'[e] \in Clicks
        /\ inbox' \in Inboxes
        /\ \A b \in Agents, d \in Events : d # e => inbox'[b][d] = inbox[b][d]
    BY <1>1, DeliverFacts
  <1>3. UNCHANGED <<now, podVars, message, ag, passVars, answered, failures>> BY DEF Deliver
  <1>4. TypeOK' BY <1>1, <1>2, <1>3 DEF TypeOK, podVars, passVars, Inboxes
  <1>5. HandlerInv' BY <1>2, <1>3, OthersKept DEF Inv, HandlerInv, TypeOK
  <1>6. InboxInv' BY <1>2 DEF Inv, InboxInv, EventsKept
  <1>7. VisitInv' BY <1>3 DEF Inv, VisitInv, podVars, passVars
  <1>8. FinishInv' /\ WithinLimit' BY <1>3, TimesKept DEF Inv, TypeOK, podVars
  <1> QED BY <1>4, <1>5, <1>6, <1>7, <1>8 DEF Inv

\* The agents keep the invariant.
LEMMA AgentsKeep ==
    ASSUME Inv, NEW a \in Agents, Agent(a)
    PROVE  Inv'
  <1> USE DEF Busy
  <1>1. TypeOK /\ HandlerOK(a) /\ ag[a] \in Handlers BY DEF Inv, HandlerInv, TypeOK
  <1>2. events' = events => EventsKept /\ events' \in [Events -> Clicks \cup {Nil}]
    BY <1>1 DEF EventsKept, TypeOK
  <1>11. UNCHANGED inbox => InboxKept BY <1>1, SameInbox
  <1>3. ASSUME Exits(a), NEW e \in Events,
               UNCHANGED <<now, podVars, message, events, passVars, answered>>, Works \/ Fails
        PROVE  Inv'
    <2>1. ag' = [ag EXCEPT ![a] = Down] /\ InboxKept
      BY <1>1, <1>3, InboxUpdate DEF Exits
    <2>2. ag'[a] = Down BY <2>1 DEF Inv, TypeOK
    <2>3. HandlerOK(a)' BY <2>2, HandlerType DEF HandlerOK
    <2>4. answered' \subseteq Events BY <1>1, <1>3 DEF TypeOK
    <2> QED BY <1>2, <1>3, <2>1, <2>3, <2>4, AgentStep, HandlerType
  <1>4. ASSUME NEW e \in Events, ExtendPod(e, a) PROVE Inv'
    <2> DEFINE p == events[e].pod
               t == deletionTime[p]
               tm == Extended(IF t = Nil THEN now ELSE t)
    <2>1. Waits(e, a) /\ UNCHANGED <<now, podVars, message, events, passVars, answered>>
      BY <1>4 DEF ExtendPod
    <2>2. EventsKept /\ events' \in [Events -> Clicks \cup {Nil}] /\ events[e] \in Clicks
      BY <1>1, <1>2, <2>1 DEF Waits, Inv, InboxInv
    <2>3. p \in Pods BY <2>2 DEF Clicks
    <2>4. CASE Works /\ Handles(e, a, t, tm)
      <3>1. now \in Nat /\ t \in Times BY <1>1, <2>3 DEF TypeOK
      <3>2. tm \in Int /\ tm <= now + ExtendLimit
        BY <3>1, ExtendedFacts DEF Times
      <3>3. t = ZeroTime => tm = ZeroTime
        BY <3>1, ExtendedFacts, NoNilAssumption DEF ZeroTime
      <3>4. t \in Int /\ t # ZeroTime => tm >= t \/ ExtendDuration > ExtendLimit
        <4> SUFFICES ASSUME t \in Int, t # ZeroTime, ~(ExtendDuration > ExtendLimit)
                     PROVE  tm >= t
          OBVIOUS
        <4>1. t # Nil BY NoNilAssumption
        <4>2. ExtendDuration \in Nat /\ ExtendLimit \in Nat BY AgentAssumption
        <4>3. t <= now + ExtendLimit
          <5>1. CASE t <= now + ExtendLimit BY <5>1
          <5>2. CASE finishedAt[p] # Nil /\ t <= finishedAt[p] + ExtendDuration
            <6>1. finishedAt[p] \in Nat /\ finishedAt[p] <= now
              BY <1>1, <2>3, <5>2 DEF TypeOK, Inv, FinishInv
            <6> QED BY <3>1, <4>2, <5>2, <6>1
          <5> QED BY <2>3, <4>1, <5>1, <5>2 DEF Inv, WithinLimit
        <4> QED BY <3>1, <4>1, <4>3, ExtendedFacts
      <3> HIDE DEF p, t, tm
      <3>5. Handler("put", e, t, tm) \in Handlers /\ ag'[a] = Handler("put", e, t, tm)
        BY <1>1, <2>4, <3>1, <3>2, HandlerType DEF Times, TypeOK, Handles
      <3>6. ag'[a].pc = "put" /\ ag'[a].event = e /\ ag'[a].base = t /\ ag'[a].tm = tm
        <4>1. tm \in Times BY <3>2 DEF Times
        <4> QED BY <3>1, <3>5, <4>1, HandlerType
      <3>7. HandlerOK(a)'
        BY <2>1, <2>2, <3>2, <3>3, <3>4, <3>6 DEF HandlerOK, EventsKept
      <3>8. answered' \subseteq Events BY <1>1, <2>1 DEF TypeOK
      <3>9. InboxKept BY <1>1, <2>1, <2>4, InboxUpdate DEF Handles, Waits
      <3>10. ag' = [ag EXCEPT ![a] = Handler("put", e, t, tm)] BY <2>4 DEF Handles
      <3> QED BY <2>1, <2>2, <2>4, <3>5, <3>7, <3>8, <3>9, <3>10, AgentStep
    <2>5. (Works \/ Fails) /\ (Exits(a) \/ (Works /\ Handles(e, a, t, tm)))
      BY <1>4 DEF ExtendPod
    <2> QED BY <1>3, <2>1, <2>2, <2>4, <2>5
  <1>5. ASSUME NEW e \in Events, DeletePodNow(e, a) PROVE Inv'
    <2>1. Waits(e, a) /\ UNCHANGED <<now, podVars, message, events, passVars, answered>>
      BY <1>5 DEF DeletePodNow
    <2>2. EventsKept /\ events' \in [Events -> Clicks \cup {Nil}] /\ events[e] \in Clicks
      BY <1>1, <1>2, <2>1 DEF Waits, Inv, InboxInv
    <2>3. CASE Works /\ Handles(e, a, Nil, ZeroTime)
      <3>1. ZeroTime \in Times /\ Nil \in Times BY DEF ZeroTime, Times
      <3>2. Handler("put", e, Nil, ZeroTime) \in Handlers
            /\ ag'[a] = Handler("put", e, Nil, ZeroTime)
        BY <1>1, <2>3, <3>1, HandlerType DEF TypeOK, Handles
      <3>3. /\ ag'[a].pc = "put" /\ ag'[a].event = e /\ ag'[a].base = Nil
            /\ ag'[a].tm = ZeroTime
        BY <3>1, <3>2, HandlerType
      <3>4. ZeroTime \in Int /\ ZeroTime <= now + ExtendLimit
        BY <1>1, AgentAssumption DEF ZeroTime, TypeOK
      <3>5. HandlerOK(a)'
        BY <2>1, <2>2, <3>3, <3>4, NoNilAssumption DEF HandlerOK, EventsKept
      <3>6. answered' \subseteq Events BY <1>1, <2>1 DEF TypeOK
      <3>7. InboxKept BY <1>1, <2>1, <2>3, InboxUpdate DEF Handles, Waits
      <3>8. ag' = [ag EXCEPT ![a] = Handler("put", e, Nil, ZeroTime)] BY <2>3 DEF Handles
      <3> QED BY <2>1, <2>2, <2>3, <3>2, <3>5, <3>6, <3>7, <3>8, AgentStep
    <2>4. (Works \/ Fails) /\ (Exits(a) \/ (Works /\ Handles(e, a, Nil, ZeroTime)))
      BY <1>5 DEF DeletePodNow
    <2> QED BY <1>3, <2>1, <2>2, <2>3, <2>4
  <1>6. CASE Put(a)
    <2>1. ag[a].pc = "put" /\ ag[a].event \in Events /\ events[ag[a].event] \in Clicks
      BY <1>1, <1>6 DEF Put, HandlerOK
    <2>2. Target(a) \in Pods BY <2>1 DEF Target, Clicks
    <2>3. ag' = [ag EXCEPT ![a] = Handler("post", ag[a].event, Nil, Nil)]
          /\ UNCHANGED <<now, phase, finishedAt, message, events, inbox, passVars, answered>>
          /\ (Works \/ Fails)
          /\ (UNCHANGED deletionTime
                \/ deletionTime' = [deletionTime EXCEPT ![Target(a)] = ag[a].tm])
      BY <1>6 DEF Put
    <2>4. Nil \in Times /\ ag[a].tm \in Int /\ ag[a].tm <= now + ExtendLimit
      BY <1>1, <2>1 DEF Times, HandlerOK
    <2>5. Handler("post", ag[a].event, Nil, Nil) \in Handlers
          /\ ag'[a] = Handler("post", ag[a].event, Nil, Nil)
      BY <1>1, <2>1, <2>3, <2>4, HandlerType DEF TypeOK
    <2>6. ag'[a].pc = "post" /\ ag'[a].event = ag[a].event
      BY <2>1, <2>4, <2>5, HandlerType
    <2>7. ag' \in [Agents -> Handlers] BY <1>1, <2>3, <2>5 DEF TypeOK
    <2>8. deletionTime' \in [Pods -> Times] BY <1>1, <2>2, <2>3, <2>4 DEF TypeOK, Times
    <2>9. TypeOK' BY <1>1, <2>3, <2>7, <2>8, FailureType DEF TypeOK, passVars
    <2>10. HandlerInv'
      <3> SUFFICES ASSUME NEW b \in Agents PROVE HandlerOK(b)'
        BY DEF HandlerInv
      <3>1. CASE b = a
        BY <2>1, <2>3, <2>6, <3>1 DEF HandlerOK
      <3>2. CASE b # a
        <4>1. ag'[b] = ag[b] BY <1>1, <2>3, <3>2 DEF TypeOK
        <4> QED BY <1>1, <1>2, <2>3, <4>1, OthersKept DEF Inv, HandlerInv, TypeOK
      <3> QED BY <3>1, <3>2
    <2>11. VisitInv' /\ FinishInv' /\ InboxInv'
      BY <2>3 DEF Inv, VisitInv, FinishInv, InboxInv, passVars
    <2>12. WithinLimit'
      BY <1>1, <2>2, <2>3, <2>4 DEF Inv, WithinLimit, TypeOK
    <2> QED BY <2>9, <2>10, <2>11, <2>12 DEF Inv
  <1>7. CASE PostMessage(a)
    <2>1. ag[a].pc = "post" /\ ag[a].event \in Events /\ events[ag[a].event] \in Clicks
      BY <1>1, <1>7 DEF PostMessage, HandlerOK
    <2>2. UNCHANGED <<now, podVars, message, events, passVars>> BY <1>7 DEF PostMessage
    <2>3. CASE /\ Works /\ answered' = answered \cup {ag[a].event}
               /\ ag' = [ag EXCEPT ![a] = Handler("ack", ag[a].event, Nil, Nil)]
               /\ UNCHANGED inbox
      <3>1. Nil \in Times BY DEF Times
      <3>2. Handler("ack", ag[a].event, Nil, Nil) \in Handlers
            /\ ag'[a] = Handler("ack", ag[a].event, Nil, Nil)
        BY <1>1, <2>1, <2>3, <3>1, HandlerType DEF TypeOK
      <3>3. ag'[a].pc = "ack" /\ ag'[a].event = ag[a].event
        BY <2>1, <3>1, <3>2, HandlerType
      <3>4. HandlerOK(a)' BY <2>1, <2>2, <3>3 DEF HandlerOK
      <3>5. answered' \subseteq Events BY <1>1, <2>1, <2>3 DEF TypeOK
      <3> QED BY <1>2, <1>11, <2>2, <2>3, <3>2, <3>4, <3>5, AgentStep
    <2>4. CASE Fails /\ Exits(a) /\ UNCHANGED answered
      BY <1>3, <2>1, <2>2, <2>4
    <2> QED BY <1>7, <2>3, <2>4 DEF PostMessage
  <1>8. ASSUME ag' = [ag EXCEPT ![a] = Idle], Works \/ Fails,
               UNCHANGED <<now, podVars, message, inbox, passVars, answered>>,
               EventsKept, events' \in [Events -> Clicks \cup {Nil}]
        PROVE  Inv'
    <2>1. ag'[a] = Idle BY <1>1, <1>8 DEF TypeOK
    <2>2. HandlerOK(a)' BY <2>1, HandlerType DEF HandlerOK
    <2>3. answered' \subseteq Events BY <1>1, <1>8 DEF TypeOK
    <2> QED BY <1>8, <1>11, <2>2, <2>3, HandlerType, AgentStep
  <1>9. CASE Ack(a)
    <2>1. ag[a].event \in Events /\ events[ag[a].event] \in Clicks
      BY <1>1, <1>9 DEF Ack, HandlerOK
    <2>2. EventsKept /\ events' \in [Events -> Clicks \cup {Nil}]
      <3>1. CASE UNCHANGED events BY <1>2, <3>1
      <3>2. CASE events' = [events EXCEPT ![ag[a].event].acked = TRUE]
        BY <1>1, <2>1, <3>2, EventUpdate
      <3> QED BY <1>9, <3>1, <3>2 DEF Ack
    <2> QED BY <1>8, <1>9, <2>2 DEF Ack
  <1>10. CASE Run(a)
    BY <1>2, <1>8, <1>10 DEF Run, Works
  <1> QED BY <1>4, <1>5, <1>6, <1>7, <1>9, <1>10 DEF Agent

\* Clicks keep the invariant.
LEMMA ClickKeeps ==
    ASSUME Inv, NEW e \in Events, NEW p \in Pods, NEW kind \in {"extend", "delete"},
           Click(e, p, kind)
    PROVE  Inv'
  <1> DEFINE c == [pod |-> p, kind |-> kind, acked |-> FALSE, deliveries |-> 0]
  <1>1. c \in Clicks BY DEF Clicks
  <1>2. events[e] = Nil /\ events' = [events EXCEPT ![e] = c] BY DEF Click
  <1> HIDE DEF c
  <1>3. events' \in [Events -> Clicks \cup {Nil}] BY <1>1, <1>2 DEF Inv, TypeOK
  <1>4. EventsKept BY <1>1, <1>2, NoNilAssumption DEF EventsKept, Inv, TypeOK
  <1>5. UNCHANGED <<now, podVars, message, ag, inbox, passVars, answered, failures>>
    BY DEF Click, agVars
  <1>10. InboxInv' BY <1>4, <1>5 DEF Inv, InboxInv, EventsKept
  <1>6. TypeOK' BY <1>3, <1>5 DEF Inv, TypeOK, podVars, passVars
  <1>7. HandlerInv' BY <1>4, <1>5, OthersKept DEF Inv, HandlerInv, TypeOK
  <1>8. VisitInv' BY <1>5 DEF Inv, VisitInv, podVars, passVars
  <1>9. FinishInv' /\ WithinLimit' BY <1>5, TimesKept DEF Inv, TypeOK, podVars
  <1> QED BY <1>6, <1>7, <1>8, <1>9, <1>10 DEF Inv

\* What a visit goes on with.
LEMMA ContinueFacts ==
    ASSUME NEW p \in Pods, NEW s \in Times, NEW c,
           c = "post" \/ c = AfterPost(p, s), Continue(c, p, s)
    PROVE  /\ mpc' \in {"visit", "post", "put", "delete"}
           /\ cur' \in Pods \cup {Nil} /\ status' \in Times
           /\ mpc' # "visit" => cur' = p
           /\ mpc' = "put" => status' = Nil
  BY DEF Continue, AfterPost, VisitEnds, Times

\* The end of a visit.
LEMMA VisitEndsFacts ==
    ASSUME VisitEnds
    PROVE  mpc' = "visit" /\ cur' = Nil /\ status' \in Times
  BY DEF VisitEnds, Times

\* The manager keeps the invariant.
LEMMA ManagerKeeps ==
    ASSUME Inv, Manager
    PROVE  Inv'
  <1>1. TypeOK /\ VisitInv /\ now \in Nat BY DEF Inv, TypeOK
  <1>2. CASE BeginPass
    <2>1. TypeOK' BY <1>1, <1>2 DEF BeginPass, TypeOK, podVars, agVars
    <2>2. VisitInv' BY <1>2 DEF BeginPass, VisitInv
    <2> QED BY <1>1, <1>2, <2>1, <2>2, QuietStep DEF BeginPass, podVars
  <1>3. ASSUME NEW p \in Pods, SkipPod(p) PROVE Inv'
    <2>1. TypeOK' BY <1>1, <1>3, FailureType DEF SkipPod, TypeOK, podVars, agVars
    <2>2. VisitInv' BY <1>1, <1>3 DEF SkipPod, VisitInv, podVars
    <2> QED BY <1>1, <1>3, <2>1, <2>2, QuietStep DEF SkipPod, podVars
  <1>4. ASSUME NEW p \in Pods, ReadStatus(p) PROVE Inv'
    <2> DEFINE c == IF New(p) THEN "post" ELSE AfterPost(p, deletionTime[p])
    <2>1. deletionTime[p] \in Times BY <1>1 DEF TypeOK
    <2>2. (c = "post" \/ c = AfterPost(p, deletionTime[p])) /\ Continue(c, p, deletionTime[p])
      BY <1>4 DEF ReadStatus
    <2> HIDE DEF c
    <2>3. /\ mpc' \in {"visit", "post", "put", "delete"}
          /\ cur' \in Pods \cup {Nil} /\ status' \in Times
          /\ mpc' # "visit" => cur' = p
          /\ mpc' = "put" => status' = Nil
      BY <2>1, <2>2, ContinueFacts
    <2>4. TypeOK' BY <1>1, <1>4, <2>3 DEF ReadStatus, TypeOK, podVars, agVars
    <2>5. VisitInv' BY <1>4, <2>3 DEF ReadStatus, VisitInv, podVars
    <2> QED BY <1>1, <1>4, <2>4, <2>5, QuietStep DEF ReadStatus, podVars
  <1>5. CASE PostResult
    <2>1. cur \in Pods /\ finishedAt[cur] # Nil /\ status \in Times
      BY <1>1, <1>5 DEF PostResult, VisitInv, TypeOK
    <2>2. Continue(AfterPost(cur, status), cur, status) BY <1>5 DEF PostResult
    <2>3. /\ mpc' \in {"visit", "post", "put", "delete"}
          /\ cur' \in Pods \cup {Nil} /\ status' \in Times
          /\ mpc' # "visit" => cur' = cur
          /\ mpc' = "put" => status' = Nil
      BY <2>1, <2>2, ContinueFacts
    <2>4. Channel(cur) \in Channels \cup {Nil}
      BY <2>1, AgentAssumption DEF Channel, SlackChannel
    <2>5. message' \in [Pods -> Channels \cup {Nil}]
      BY <1>1, <1>5, <2>4 DEF PostResult, TypeOK
    <2>6. TypeOK' BY <1>1, <1>5, <2>3, <2>5, FailureType DEF PostResult, TypeOK, podVars, agVars
    <2>7. VisitInv' BY <1>5, <2>1, <2>3 DEF PostResult, VisitInv, podVars
    <2> QED BY <1>1, <1>5, <2>6, <2>7, QuietStep DEF PostResult, podVars
  <1>6. CASE PutDeletionTime
    <2>1. cur \in Pods /\ finishedAt[cur] \in Nat /\ finishedAt[cur] # Nil
      BY <1>1, <1>6 DEF PutDeletionTime, VisitInv, TypeOK
    <2>2. mpc' = "visit" /\ cur' = Nil /\ status' \in Times
      BY <1>6, VisitEndsFacts DEF PutDeletionTime
    <2>3. finishedAt[cur] + ExtendDuration \in Int BY <2>1, AgentAssumption
    <2>4. UNCHANGED deletionTime
          \/ deletionTime' = [deletionTime EXCEPT ![cur] = finishedAt[cur] + ExtendDuration]
      BY <1>6 DEF PutDeletionTime
    <2>5. deletionTime' \in [Pods -> Times] BY <1>1, <2>1, <2>3, <2>4 DEF TypeOK, Times
    <2>6. UNCHANGED <<now, phase, finishedAt, message, events, agVars, todo, passNow, since, prev,
                      answered>> /\ (Works \/ Fails)
      BY <1>6 DEF PutDeletionTime
    <2>7. TypeOK' BY <1>1, <2>2, <2>5, <2>6, FailureType DEF TypeOK, agVars
    <2>8. VisitInv' /\ FinishInv' /\ InboxInv'
      BY <2>2, <2>6 DEF Inv, VisitInv, FinishInv, InboxInv, agVars
    <2>9. HandlerInv'
      <3>1. EventsKept BY <2>6 DEF EventsKept
      <3> QED BY <1>1, <2>6, <3>1, OthersKept DEF Inv, HandlerInv, TypeOK, agVars
    <2>10. WithinLimit'
      <3> SUFFICES ASSUME NEW p \in Pods, deletionTime'[p] # Nil
                   PROVE  \/ deletionTime'[p] <= now + ExtendLimit
                          \/ /\ finishedAt[p] # Nil
                             /\ deletionTime'[p] <= finishedAt[p] + ExtendDuration
        BY <2>6 DEF WithinLimit
      <3>1. CASE deletionTime'[p] = deletionTime[p] BY <3>1 DEF Inv, WithinLimit
      <3>2. CASE p = cur /\ deletionTime'[p] = finishedAt[cur] + ExtendDuration
        BY <2>1, <2>3, <3>2
      <3> QED BY <1>1, <2>1, <2>4, <3>1, <3>2 DEF TypeOK
    <2> QED BY <2>7, <2>8, <2>9, <2>10 DEF Inv
  <1>7. CASE DeletePod
    <2>1. cur \in Pods BY <1>1, <1>7 DEF DeletePod, VisitInv
    <2>2. mpc' = "visit" /\ cur' = Nil /\ status' \in Times
      BY <1>7, VisitEndsFacts DEF DeletePod
    <2>3. phase' \in [Pods -> {"running", "terminating", "gone"}]
      BY <1>1, <1>7, <2>1 DEF DeletePod, TypeOK
    <2>4. TypeOK' BY <1>1, <1>7, <2>2, <2>3, FailureType DEF DeletePod, TypeOK, agVars
    <2>5. VisitInv' BY <2>2 DEF VisitInv
    <2> QED BY <1>1, <1>7, <2>4, <2>5, QuietStep DEF DeletePod
  <1>8. CASE EndPass
    <2>1. TypeOK' BY <1>1, <1>8 DEF EndPass, TypeOK, podVars, agVars
    <2>2. VisitInv' BY <1>8 DEF EndPass, VisitInv
    <2> QED BY <1>1, <1>8, <2>1, <2>2, QuietStep DEF EndPass, podVars
  <1> QED BY <1>2, <1>3, <1>4, <1>5, <1>6, <1>7, <1>8 DEF Manager

\* Pods and the clock keep the invariant.
LEMMA PodsKeep ==
    ASSUME Inv, Tick \/ \E p \in Pods : Pod(p)
    PROVE  Inv'
  <1>1. TypeOK /\ VisitInv /\ now \in Nat BY DEF Inv, TypeOK
  <1>2. CASE Tick
    <2>1. TypeOK' BY <1>1, <1>2 DEF Tick, TypeOK, podVars, passVars, agVars
    <2>2. VisitInv' BY <1>1, <1>2 DEF Tick, VisitInv, podVars, passVars
    <2> QED BY <1>1, <1>2, <2>1, <2>2, QuietStep DEF Tick, podVars
  <1>3. ASSUME NEW p \in Pods, Terminated(p) PROVE Inv'
    <2>1. TypeOK' BY <1>1, <1>3 DEF Terminated, TypeOK, passVars, agVars
    <2>2. VisitInv' BY <1>1, <1>3 DEF Terminated, VisitInv, passVars
    <2> QED BY <1>1, <1>3, <2>1, <2>2, QuietStep DEF Terminated
  <1>4. ASSUME NEW p \in Pods, Finish(p) PROVE Inv'
    <2>1. TypeOK' BY <1>1, <1>4 DEF Finish, TypeOK, agVars
    <2>2. \A q \in Pods : finishedAt'[q] = finishedAt[q] \/ (q = p /\ finishedAt'[q] = now)
      BY <1>1, <1>4 DEF Finish, TypeOK
    <2>3. now # Nil BY <1>1, NoNilAssumption
    <2>4. VisitInv' BY <1>1, <1>4, <2>2, <2>3 DEF Finish, VisitInv
    <2>5. FinishInv' BY <1>1, <1>4, <2>2 DEF Finish, Inv, FinishInv
    <2>8. InboxInv' BY <1>4 DEF Finish, Inv, InboxInv, agVars
    <2>6. HandlerInv'
      <3>1. EventsKept BY <1>4 DEF EventsKept, Finish
      <3> QED BY <1>1, <1>4, <3>1, OthersKept DEF Inv, HandlerInv, Finish, agVars
    <2>7. WithinLimit'
      <3>1. \A q \in Pods : finishedAt[q] # Nil => finishedAt'[q] = finishedAt[q]
        BY <1>1, <1>4 DEF Finish, TypeOK
      <3> QED BY <1>4, <3>1 DEF Finish, Inv, WithinLimit
    <2> QED BY <2>1, <2>4, <2>5, <2>6, <2>7, <2>8 DEF Inv
  <1> QED BY <1>2, <1>3, <1>4 DEF Pod

\* Every step keeps the invariant.
LEMMA InvStep == Inv /\ [Next]_vars => Inv'
  <1> SUFFICES ASSUME Inv, [Next]_vars PROVE Inv'
    OBVIOUS
  <1>1. ASSUME NEW e \in Events, Slack(e) PROVE Inv'
    BY <1>1, ClickKeeps, DeliverKeeps DEF Slack
  <1>2. ASSUME NEW a \in Agents, Agent(a) PROVE Inv'
    BY <1>2, AgentsKeep
  <1>3. CASE UNCHANGED vars
    <2>1. TypeOK' /\ VisitInv' BY <1>3 DEF Inv, TypeOK, VisitInv, vars, podVars, passVars, agVars
    <2> QED BY <1>3, <2>1, QuietStep DEF vars, podVars, agVars, Inv, TypeOK
  <1> QED BY <1>1, <1>2, <1>3, ManagerKeeps, PodsKeep DEF Next

-----------------------------------------------------------------------------
(* The theorems *)

\* Every variable keeps its type.
THEOREM AgentTypeCorrect == Spec => []TypeOK
  <1>1. Inv => TypeOK BY DEF Inv
  <1> QED BY <1>1, InvInit, InvStep, PTL DEF Spec

\* For any durations, and however often events are delivered and handled side
\* by side, no stored deletion time lies beyond the limit of six hours from
\* now and the extendDuration of the pool.
THEOREM AgentWithinLimit == Spec => []WithinLimit
  <1>1. Inv => WithinLimit BY DEF Inv
  <1> QED BY <1>1, InvInit, InvStep, PTL DEF Spec

\* A step that stores a deletion time is one of an agent or of the manager.
LEMMA WhoStores ==
    ASSUME TypeOK, Next, NEW p \in Pods, deletionTime'[p] # deletionTime[p]
    PROVE  (\E a \in Agents : Put(a)) \/ PutDeletionTime
  <1> USE DEF podVars, passVars
  <1>1. CASE Manager
    BY <1>1 DEF Manager, BeginPass, SkipPod, ReadStatus, PostResult, DeletePod, EndPass
  <1>2. CASE \E e \in Events : Slack(e)
    BY <1>2 DEF Slack, Click, Deliver
  <1>3. CASE \E q \in Pods : Pod(q)
    BY <1>3 DEF Pod, Finish, Terminated
  <1>4. CASE \E a \in Agents : Agent(a)
    BY <1>4 DEF Agent, ExtendPod, DeletePodNow, PostMessage, Ack, Run
  <1>5. CASE Tick BY <1>5 DEF Tick
  <1> QED BY <1>1, <1>2, <1>3, <1>4, <1>5 DEF Next

\* For any number of agents and deliveries, a stored deletion time moves back,
\* or a pod given up for deletion is kept, only by the Delete button, by a
\* party that had read the pod before, or by the limit.
THEOREM AgentUndoneOnlyByRace == Spec => UndoneOnlyByRace
  <1>1. Inv /\ [Next]_vars => [\A p \in Pods : ChangeOK(p)]_vars
    <2> SUFFICES ASSUME Inv, Next, NEW p \in Pods,
                        deletionTime[p] # Nil, deletionTime'[p] # deletionTime[p]
                 PROVE  ChangeOK(p)
      BY DEF vars, ChangeOK
    <2>1. TypeOK /\ VisitInv /\ deletionTime[p] \in Int
      BY DEF Inv, TypeOK, Times
    <2>2. CASE PutDeletionTime
      <3>1. mpc = "put" /\ cur \in Pods /\ status = Nil
        BY <2>1, <2>2 DEF PutDeletionTime, VisitInv
      <3>2. cur = p BY <2>1, <2>2, <3>1 DEF PutDeletionTime, TypeOK
      <3> QED BY <3>1, <3>2 DEF ChangeOK
    <2>3. ASSUME NEW a \in Agents, Put(a) PROVE ChangeOK(p)
      <3>1. ag[a].pc = "put" BY <2>3 DEF Put
      <3>2. HandlerOK(a) /\ ag[a] \in Handlers BY <2>1 DEF Inv, HandlerInv, TypeOK
      <3>3. ag[a].event \in Events /\ events[ag[a].event] \in Clicks
        BY <3>1, <3>2 DEF HandlerOK, Busy
      <3>4. Target(a) \in Pods /\ Kind(a) \in {"extend", "delete"}
        BY <3>3 DEF Target, Kind, Clicks
      <3>5. Target(a) = p /\ deletionTime'[p] = ag[a].tm
        BY <2>1, <2>3, <3>4 DEF Put, TypeOK
      <3>6. ag'[a].pc = "post" BY <2>1, <2>3 DEF Put, TypeOK, Handler
      <3>7. Stores(a, p) BY <3>1, <3>5, <3>6 DEF Stores
      <3>8. CASE Kind(a) = "delete" BY <3>7, <3>8 DEF ChangeOK
      <3>9. CASE ag[a].base # deletionTime[p] BY <3>7, <3>9 DEF ChangeOK
      <3>10. CASE Kind(a) = "extend" /\ ag[a].base = deletionTime[p]
        <4>1. deletionTime[p] # ZeroTime BY <3>1, <3>2, <3>5, <3>10 DEF HandlerOK
        <4>2. ag[a].tm >= deletionTime[p] \/ ExtendDuration > ExtendLimit
          BY <2>1, <3>1, <3>2, <3>10, <4>1 DEF HandlerOK
        <4> QED BY <3>5, <4>1, <4>2 DEF ChangeOK
      <3> QED BY <3>4, <3>8, <3>9, <3>10
    <2> QED BY <2>1, <2>2, <2>3, WhoStores
  <1> QED BY <1>1, InvInit, InvStep, PTL DEF Spec, UndoneOnlyByRace

-----------------------------------------------------------------------------
(* Deliveries *)

\* An event that was delivered and is not answered is held by some agent, as
\* long as no process had a reason to end.
EventOK(e) ==
    events[e] # Nil =>
        /\ events[e].acked => e \in answered
        /\ events[e].deliveries > 0 /\ e \notin answered /\ failures = 0 /\ ~PodIsGone =>
              Held(e)

DeliveryInv ==
    /\ \A e \in Events : EventOK(e)
    /\ \A a \in Agents : ag[a].pc = "ack" => ag[a].event \in answered

\* The initial states are in order.
LEMMA DeliveryInit == Init => DeliveryInv
  BY DEF Init, DeliveryInv, EventOK, Idle, Handler

\* An event stays in order if nothing is acknowledged, and held by some agent
\* or answered, unless a process has ended.
LEMMA EventKept ==
    ASSUME NEW e \in Events, EventOK(e), answered \subseteq answered',
           events'[e] # Nil =>
              /\ events[e] # Nil
              /\ events'[e].acked => events[e].acked \/ e \in answered'
              /\ events'[e].deliveries > 0 => events[e].deliveries > 0 \/ Held(e)',
           failures' = 0 /\ ~PodIsGone' =>
              failures = 0 /\ ~PodIsGone /\ (Held(e) => Held(e)' \/ e \in answered')
    PROVE  EventOK(e)'
  BY DEF EventOK

\* What has failed or is gone stays so.
LEMMA TroubleStays ==
    ASSUME TypeOK, EventsKept, Works \/ Fails,
           \A p \in Pods : phase[p] = "gone" => phase'[p] = "gone"
    PROVE  /\ failures' = 0 => failures = 0
           /\ PodIsGone => PodIsGone'
  <1>1. failures' = 0 => failures = 0 BY DEF TypeOK, Works, Fails
  <1>2. ASSUME PodIsGone PROVE PodIsGone'
    <2>1. PICK d \in Events : events[d] # Nil /\ phase[events[d].pod] = "gone"
      BY <1>2 DEF PodIsGone
    <2>2. events[d] \in Clicks /\ events[d].pod \in Pods BY <2>1 DEF TypeOK, Clicks
    <2>3. events'[d] # Nil /\ events'[d].pod = events[d].pod
      BY <2>2, NoNilAssumption DEF EventsKept
    <2> QED BY <2>1, <2>2, <2>3 DEF PodIsGone
  <1> QED BY <1>1, <1>2

\* Agents keep deliveries in order.
LEMMA AgentDelivery ==
    ASSUME Inv, DeliveryInv, NEW a \in Agents, Agent(a)
    PROVE  DeliveryInv'
  <1> USE DEF Busy
  <1>1. TypeOK /\ HandlerOK(a) /\ ag[a] \in Handlers /\ failures \in Nat
    BY DEF Inv, HandlerInv, TypeOK
  <1>2. \A d \in Events : d # Nil BY NoNilAssumption DEF Events
  <1>3. UNCHANGED events => EventsKept BY <1>1 DEF EventsKept
  <1>4. ASSUME Exits(a), UNCHANGED <<phase, events, answered>>, Works \/ Fails,
               Fails \/ PodIsGone
        PROVE  DeliveryInv'
    <2>1. failures' # 0 \/ PodIsGone'
      BY <1>1, <1>3, <1>4, TroubleStays DEF Fails
    <2>2. \A e \in Events : EventOK(e)'
      BY <1>4, <2>1, EventKept DEF DeliveryInv
    <2>3. ag' = [ag EXCEPT ![a] = Down] BY <1>4 DEF Exits
    <2>4. \A b \in Agents : ag'[b].pc = "ack" => ag'[b].event \in answered'
      BY <1>1, <1>4, <2>3, HandlerType DEF DeliveryInv, TypeOK
    <2> QED BY <2>2, <2>4 DEF DeliveryInv
  <1>5. ASSUME NEW h, ag' = [ag EXCEPT ![a] = h],
               h.pc = "ack" => h.event \in answered',
               UNCHANGED phase, Works \/ Fails, answered \subseteq answered', EventsKept,
               \A d \in Events : events'[d] # Nil =>
                  /\ events[d] # Nil
                  /\ events'[d].acked => events[d].acked \/ d \in answered'
                  /\ events'[d].deliveries = events[d].deliveries,
               \A d \in Events : ag[a].event = d => h.event = d \/ d \in answered',
               \A b \in Agents, d \in Events :
                  inbox'[b][d] = inbox[b][d] \/ (b = a /\ h.event = d)
        PROVE  DeliveryInv'
    <2>1. \A b \in Agents : ag'[b] = IF b = a THEN h ELSE ag[b] BY <1>1, <1>5 DEF TypeOK
    <2>2. \A d \in Events : Held(d) => Held(d)' \/ d \in answered'
      <3> SUFFICES ASSUME NEW d \in Events, NEW b \in Agents,
                          ag[b].event = d \/ inbox[b][d] > 0, d \notin answered'
                   PROVE  \E c \in Agents : ag'[c].event = d \/ inbox'[c][d] > 0
        BY DEF Held
      <3>1. CASE ag[b].event = d BY <1>5, <2>1, <3>1
      <3>2. CASE inbox[b][d] > 0
        <4>1. CASE inbox'[b][d] = inbox[b][d] BY <3>2, <4>1
        <4>2. CASE b = a /\ h.event = d BY <2>1, <4>2
        <4> QED BY <1>5, <4>1, <4>2
      <3> QED BY <3>1, <3>2
    <2>3. (failures' = 0 => failures = 0) /\ (PodIsGone => PodIsGone')
      BY <1>1, <1>5, TroubleStays
    <2>4. \A e \in Events : EventOK(e)'
      <3> SUFFICES ASSUME NEW e \in Events PROVE EventOK(e)'
        OBVIOUS
      <3>1. EventOK(e) BY DEF DeliveryInv
      <3>2. events'[e] # Nil =>
              /\ events[e] # Nil
              /\ events'[e].acked => events[e].acked \/ e \in answered'
              /\ events'[e].deliveries > 0 => events[e].deliveries > 0 \/ Held(e)'
        BY <1>5
      <3>3. failures' = 0 /\ ~PodIsGone' =>
              failures = 0 /\ ~PodIsGone /\ (Held(e) => Held(e)' \/ e \in answered')
        BY <2>2, <2>3
      <3> QED BY <1>5, <3>1, <3>2, <3>3, EventKept
    <2>5. \A b \in Agents : ag'[b].pc = "ack" => ag'[b].event \in answered'
      BY <1>5, <2>1 DEF DeliveryInv
    <2> QED BY <2>4, <2>5 DEF DeliveryInv
  <1>6. ASSUME NEW e \in Events, NEW base \in Times, NEW tm \in Times,
               Waits(e, a), UNCHANGED <<phase, events, answered>>, Works,
               Handles(e, a, base, tm)
        PROVE  DeliveryInv'
    <2> DEFINE h == Handler("put", e, base, tm)
    <2>1. h.pc = "put" /\ h.event = e BY HandlerType
    <2>2. ag' = [ag EXCEPT ![a] = h] BY <1>6 DEF Handles
    <2> HIDE DEF h
    <2>3. ag[a].event = Nil BY <1>1, <1>6 DEF Waits, HandlerOK
    <2>4. \A b \in Agents, d \in Events :
             inbox'[b][d] = inbox[b][d] \/ (b = a /\ d = e)
      BY <1>1, <1>6 DEF Handles, TypeOK
    <2> QED BY <1>2, <1>3, <1>5, <1>6, <2>1, <2>2, <2>3, <2>4
  <1>7. ASSUME NEW e \in Events, ExtendPod(e, a) PROVE DeliveryInv'
    <2> DEFINE p == events[e].pod
               t == deletionTime[p]
               tm == Extended(IF t = Nil THEN now ELSE t)
    <2>1. Waits(e, a) /\ UNCHANGED <<phase, events, answered>> BY <1>7 DEF ExtendPod, podVars
    <2>2. events[e] \in Clicks BY <2>1 DEF Waits, Inv, InboxInv
    <2>3. t \in Times /\ tm \in Times
      <3>1. t \in Times BY <1>1, <2>2 DEF TypeOK, Clicks
      <3> QED BY <1>1, <3>1, ExtendedFacts DEF Times, TypeOK
    <2>4. ~Reachable(p) => PodIsGone BY <2>2, NoNilAssumption DEF PodIsGone, Reachable
    <2>5. \/ Works /\ Handles(e, a, t, tm)
          \/ (Works \/ Fails) /\ (Fails \/ ~Reachable(p)) /\ Exits(a)
      BY <1>7 DEF ExtendPod
    <2> QED BY <1>4, <1>6, <2>1, <2>3, <2>4, <2>5
  <1>8. ASSUME NEW e \in Events, DeletePodNow(e, a) PROVE DeliveryInv'
    <2>1. Waits(e, a) /\ UNCHANGED <<phase, events, answered>>
      BY <1>8 DEF DeletePodNow, podVars
    <2>2. events[e] \in Clicks BY <2>1 DEF Waits, Inv, InboxInv
    <2>3. Nil \in Times /\ ZeroTime \in Times BY DEF Times, ZeroTime
    <2>4. ~Reachable(events[e].pod) => PodIsGone
      BY <2>2, NoNilAssumption DEF PodIsGone, Reachable
    <2>5. \/ Works /\ Handles(e, a, Nil, ZeroTime)
          \/ (Works \/ Fails) /\ (Fails \/ ~Reachable(events[e].pod)) /\ Exits(a)
      BY <1>8 DEF DeletePodNow
    <2> QED BY <1>4, <1>6, <2>1, <2>3, <2>4, <2>5
  <1>9. CASE Put(a)
    <2> DEFINE h == Handler("post", ag[a].event, Nil, Nil)
    <2>1. h.pc = "post" /\ h.event = ag[a].event BY DEF Handler
    <2>2. ag' = [ag EXCEPT ![a] = h] /\ UNCHANGED <<phase, events, inbox, answered>>
          /\ (Works \/ Fails)
      BY <1>9 DEF Put
    <2> HIDE DEF h
    <2> QED BY <1>3, <1>5, <2>1, <2>2
  <1>10. CASE PostMessage(a)
    <2>1. UNCHANGED <<phase, events>> BY <1>10 DEF PostMessage, podVars
    <2>2. CASE /\ Works /\ answered' = answered \cup {ag[a].event}
               /\ ag' = [ag EXCEPT ![a] = Handler("ack", ag[a].event, Nil, Nil)]
               /\ UNCHANGED inbox
      <3> DEFINE h == Handler("ack", ag[a].event, Nil, Nil)
      <3>1. h.event = ag[a].event BY DEF Handler
      <3>2. ag' = [ag EXCEPT ![a] = h] BY <2>2
      <3> HIDE DEF h
      <3> QED BY <1>3, <1>5, <2>1, <2>2, <3>1, <3>2
    <2>3. CASE Fails /\ Exits(a) /\ UNCHANGED answered
      BY <1>4, <2>1, <2>3
    <2> QED BY <1>10, <2>2, <2>3 DEF PostMessage
  <1>11. CASE Ack(a)
    <2>1. PICK e \in Events : e = ag[a].event /\ e \in answered /\ events[e] \in Clicks
      BY <1>1, <1>11 DEF Ack, HandlerOK, DeliveryInv
    <2>2. ag' = [ag EXCEPT ![a] = Idle] /\ UNCHANGED <<phase, inbox, answered>>
          /\ (Works \/ Fails)
      BY <1>11 DEF Ack, podVars
    <2>3. UNCHANGED events \/ events' = [events EXCEPT ![e].acked = TRUE]
      BY <1>11, <2>1 DEF Ack
    <2>4. EventsKept
      BY <1>1, <1>3, <2>1, <2>3, EventUpdate
    <2>5. \A d \in Events : d # e => events'[d] = events[d] BY <1>1, <2>3 DEF TypeOK
    <2>6. events[e] # Nil /\ events'[e].deliveries = events[e].deliveries
      <3>1. events[e] # Nil BY <2>1, NoNilAssumption
      <3>2. CASE events' = [events EXCEPT ![e].acked = TRUE]
        <4>1. events'[e] = [events[e] EXCEPT !.acked = TRUE] BY <1>1, <3>2 DEF TypeOK
        <4> QED BY <2>1, <3>1, <4>1, Zenon DEF Clicks
      <3> QED BY <2>3, <3>1, <3>2
    <2>7. \A d \in Events : events'[d] # Nil =>
             /\ events[d] # Nil
             /\ events'[d].acked => events[d].acked \/ d \in answered'
             /\ events'[d].deliveries = events[d].deliveries
      BY <2>1, <2>2, <2>5, <2>6
    <2> DEFINE h == Idle
    <2>8. ag' = [ag EXCEPT ![a] = h] /\ h.pc # "ack" BY <2>2, HandlerType
    <2> HIDE DEF h
    <2> QED BY <1>5, <2>1, <2>2, <2>4, <2>7, <2>8
  <1>12. CASE Run(a)
    <2>1. ag' = [ag EXCEPT ![a] = Idle] /\ UNCHANGED <<phase, events, inbox, answered, failures>>
          /\ ag[a].event = Nil
      BY <1>1, <1>12 DEF Run, podVars, HandlerOK
    <2> DEFINE h == Idle
    <2>2. ag' = [ag EXCEPT ![a] = h] /\ h.pc # "ack" /\ Works
      BY <2>1, HandlerType DEF Works
    <2> HIDE DEF h
    <2> QED BY <1>2, <1>3, <1>5, <2>1, <2>2
  <1> QED BY <1>7, <1>8, <1>9, <1>10, <1>11, <1>12 DEF Agent

\* Clicks and deliveries keep deliveries in order.
LEMMA SlackDelivery ==
    ASSUME Inv, DeliveryInv, NEW e \in Events, Slack(e)
    PROVE  DeliveryInv'
  <1>1. TypeOK BY DEF Inv
  <1>2. ASSUME NEW p \in Pods, NEW kind \in {"extend", "delete"}, Click(e, p, kind)
        PROVE  DeliveryInv'
    <2>1. UNCHANGED <<phase, ag, inbox, answered, failures>> /\ events[e] = Nil
          /\ events' = [events EXCEPT ![e] = [pod |-> p, kind |-> kind, acked |-> FALSE,
                                              deliveries |-> 0]]
      BY <1>2 DEF Click, podVars, agVars
    <2>2. \A d \in Events : d # e => events'[d] = events[d] BY <1>1, <2>1 DEF TypeOK
    <2>3. events'[e].acked = FALSE /\ events'[e].deliveries = 0
      BY <1>1, <2>1 DEF TypeOK
    <2>4. PodIsGone => PodIsGone'
      BY <2>1, <2>2 DEF PodIsGone
    <2>5. \A d \in Events : Held(d)' = Held(d) BY <2>1 DEF Held
    <2>6. EventOK(e)' BY <2>3 DEF EventOK
    <2>7. ASSUME NEW d \in Events, d # e PROVE EventOK(d)'
      BY <2>1, <2>2, <2>4, <2>5, <2>7 DEF EventOK, DeliveryInv
    <2> QED BY <2>1, <2>6, <2>7 DEF DeliveryInv
  <1>3. ASSUME NEW a \in Agents, Deliver(e, a) PROVE DeliveryInv'
    <2>1. UNCHANGED <<phase, ag, answered, failures>> /\ events[e] # Nil
      BY <1>3 DEF Deliver, podVars
    <2>2. /\ EventsKept
          /\ \A d \in Events : d # e => events'[d] = events[d]
          /\ events'[e].acked = events[e].acked
          /\ inbox'[a][e] > 0
          /\ \A b \in Agents, d \in Events : d # e => inbox'[b][d] = inbox[b][d]
      BY <1>1, <1>3, DeliverFacts
    <2>3. PodIsGone => PodIsGone' BY <1>1, <2>1, <2>2, TroubleStays DEF Works
    <2>4. Held(e)' BY <2>2 DEF Held
    <2>5. \A d \in Events : Held(d) => Held(d)'
      <3>1. ASSUME NEW d \in Events, d # e, Held(d) PROVE Held(d)'
        BY <2>1, <2>2, <3>1 DEF Held
      <3> QED BY <2>4, <3>1
    <2>6. EventOK(e)' BY <2>1, <2>2, <2>4 DEF EventOK, DeliveryInv
    <2>7. ASSUME NEW d \in Events, d # e PROVE EventOK(d)'
      BY <2>1, <2>2, <2>3, <2>5, <2>7 DEF EventOK, DeliveryInv
    <2> QED BY <2>1, <2>6, <2>7 DEF DeliveryInv
  <1> QED BY <1>2, <1>3 DEF Slack

\* Every step keeps deliveries in order.
LEMMA DeliveryStep == Inv /\ DeliveryInv /\ [Next]_vars => DeliveryInv'
  <1> SUFFICES ASSUME Inv, DeliveryInv, [Next]_vars PROVE DeliveryInv'
    OBVIOUS
  <1>1. TypeOK /\ failures \in Nat BY DEF Inv, TypeOK
  <1>2. ASSUME UNCHANGED <<events, agVars, answered>>, Works \/ Fails,
               \A p \in Pods : phase[p] = "gone" => phase'[p] = "gone"
        PROVE  DeliveryInv'
    <2>1. EventsKept BY <1>2 DEF EventsKept
    <2>2. (failures' = 0 => failures = 0) /\ (PodIsGone => PodIsGone')
      BY <1>1, <1>2, <2>1, TroubleStays
    <2>3. \A e \in Events : Held(e)' = Held(e) BY <1>2 DEF Held, agVars
    <2>4. ASSUME NEW e \in Events PROVE EventOK(e)'
      BY <1>2, <2>2, <2>3 DEF EventOK, DeliveryInv
    <2> QED BY <1>2, <2>4 DEF DeliveryInv, agVars
  <1>3. CASE Manager
    <2> USE DEF podVars, passVars
    <2>1. UNCHANGED <<events, agVars, answered>> /\ (Works \/ Fails)
      BY <1>3 DEF Manager, BeginPass, SkipPod, ReadStatus, PostResult, PutDeletionTime,
                  DeletePod, EndPass, Works
    <2>2. phase' = phase \/ (DeletePod /\ cur \in Pods)
      BY <1>3 DEF Manager, BeginPass, SkipPod, ReadStatus, PostResult, PutDeletionTime,
                  DeletePod, EndPass, Inv, VisitInv
    <2>3. \A p \in Pods : phase[p] = "gone" => phase'[p] = "gone"
      BY <1>1, <2>2 DEF DeletePod, TypeOK
    <2> QED BY <1>2, <2>1, <2>3
  <1>4. ASSUME NEW p \in Pods, Pod(p) PROVE DeliveryInv'
    <2>1. UNCHANGED <<events, agVars, answered>> /\ Works
      BY <1>4 DEF Pod, Finish, Terminated, Works
    <2>2. \A q \in Pods : phase[q] = "gone" => phase'[q] = "gone"
      BY <1>1, <1>4 DEF Pod, Finish, Terminated, TypeOK
    <2> QED BY <1>2, <2>1, <2>2
  <1>5. CASE Tick \/ UNCHANGED vars
    BY <1>2, <1>5 DEF Tick, vars, podVars, Works
  <1>6. ASSUME NEW e \in Events, Slack(e) PROVE DeliveryInv'
    BY <1>6, SlackDelivery
  <1>7. ASSUME NEW a \in Agents, Agent(a) PROVE DeliveryInv'
    BY <1>7, AgentDelivery
  <1> QED BY <1>3, <1>4, <1>5, <1>6, <1>7 DEF Next

\* For any number of agents, clicks and deliveries, no click is lost without a
\* trace: it is answered before Slack forgets it, unless a call has failed or a
\* clicked pod is gone, which end a process and what its channel holds.
THEOREM AgentNoClickIsLost == Spec => []NoClickIsLost
  <1>1. Inv /\ DeliveryInv => NoClickIsLost
    <2> SUFFICES ASSUME Inv, DeliveryInv, NEW e \in Events, events[e] # Nil
                 PROVE  /\ events[e].acked => e \in answered
                        /\ /\ events[e].deliveries = MaxDeliveries
                           /\ MaxDeliveries > 0 /\ ~Held(e)
                           => e \in answered \/ failures > 0 \/ PodIsGone
      BY DEF NoClickIsLost
    <2>1. EventOK(e) /\ failures \in Nat BY DEF DeliveryInv, Inv, TypeOK
    <2> QED BY <2>1 DEF EventOK
  <1> QED BY <1>1, InvInit, InvStep, DeliveryInit, DeliveryStep, PTL DEF Spec

=============================================================================
