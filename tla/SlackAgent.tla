----------------------------- MODULE SlackAgent -----------------------------
(***************************************************************************)
(* The replicas of the Slack agent (agent/socket.go, server.go, client.go) *)
(* between Slack, the runner pods and the runner manager.                  *)
(*                                                                         *)
(* The manager posts the result of a failed job through an agent, with an  *)
(* Extend and a Delete button.  A click is an event that Slack delivers to *)
(* some agent, and again if it is not acknowledged, possibly to another    *)
(* agent while the first one is still at work.  What is delivered waits in *)
(* the agent's memory, in the channel of its Slack client, and is lost     *)
(* with the process.  An agent handles one event at a time: it gets the    *)
(* pod and reads its status (Extend only), stores a deletion time in the   *)
(* pod, answers in the channel and acknowledges.  Any error but that of    *)
(* the PUT ends the process, which is then restarted.  A process that dies *)
(* between two calls looks like one whose last call has failed, or whose   *)
(* acknowledgement was lost.                                               *)
(*                                                                         *)
(* Every pod here runs a job that fails in a pool with notification and    *)
(* extendDuration.  The manager's pass is reduced to what it does with a   *)
(* debugging pod; RunnerManager has the rest.  Left out: texts and colours *)
(* of messages, events that are not clicks on these buttons, and the       *)
(* development mode of the agent.                                          *)
(***************************************************************************)
EXTENDS Integers

CONSTANTS
    Pods, Agents,
    Channels,           \* Slack channels
    Nil,                \* nil pointer, empty string
    PodChannel,         \* channel a job has chosen, by pod
    PoolChannel,        \* channel of the RunnerPool
    DefaultChannel,     \* channel of the agent
    ExtendDuration,     \* RunnerPool: how long a failed pod is kept
    ExtendBy,           \* extendDurationHours
    ExtendLimit,        \* extendLimitHours
    MaxDeliveries,      \* how often Slack delivers an event
    MaxClicks,          \* bound: buttons pressed
    LastFinish,         \* bound: no job ends after this time
    MaxTime,            \* bound: the clock stops here
    MaxFailures         \* bound: failing calls

ASSUME AgentAssumption ==
    /\ PodChannel \in [Pods -> Channels \cup {Nil}]
    /\ PoolChannel \in Channels \cup {Nil} /\ DefaultChannel \in Channels \cup {Nil}
    /\ ExtendDuration \in Nat \ {0} /\ ExtendBy \in Nat /\ ExtendLimit \in Nat
    /\ MaxDeliveries \in Nat /\ MaxClicks \in Nat /\ MaxFailures \in Nat
    /\ LastFinish \in Nat /\ MaxTime \in Nat

VARIABLES
    now,
    \* the pods
    phase, finishedAt, deletionTime,
    \* Slack
    message,            \* channel of the message with the buttons, by pod
    events,             \* the clicks
    \* the agents
    ag,
    inbox,              \* smClient.Events: how often each event waits there
    \* the pass of the manager
    mpc, todo, passNow, cur,
    status,             \* deletion time read from the pod cur
    since,              \* pods that finished after this pass took its time ...
    prev,               \* ... and after the previous one and before this one
    \* history
    answered,           \* events answered in the channel
    failures

podVars == <<phase, finishedAt, deletionTime>>
agVars == <<ag, inbox>>
passVars == <<mpc, todo, passNow, cur, status, since, prev>>
vars == <<now, podVars, message, events, agVars, passVars, answered, failures>>

-----------------------------------------------------------------------------
(* Values *)

\* time.Time{}, the year 1: adding hours to it leads nowhere near the present.
ZeroTime == -1

Times == Int \cup {Nil}

\* The clicks, in their order.
Events == 1 .. MaxClicks

Clicks == [pod : Pods, kind : {"extend", "delete"}, acked : BOOLEAN, deliveries : Nat]

\* Nil is none of these.
ASSUME NoNilAssumption ==
    Nil \notin Int /\ Nil \notin Channels /\ Nil \notin Pods /\ Nil \notin Clicks

\* The event loop of an agent and the locals of the handler that it runs.
Handlers == [pc : {"down", "idle", "put", "post", "ack"},
             event : Events \cup {Nil}, base : Times, tm : Times]

Handler(pc, event, base, tm) ==
    [pc |-> pc, event |-> event, base |-> base, tm |-> tm]

Idle == Handler("idle", Nil, Nil, Nil)

\* A channel that is empty.
NoEvents == [e \in Events |-> 0]

\* The pod and the button an agent is working for.
Target(a) == events[ag[a].event].pod
Kind(a) == events[ag[a].event].kind

Reachable(p) == phase[p] # "gone"

Init ==
    /\ now = 0
    /\ phase = [p \in Pods |-> "running"]
    /\ finishedAt = [p \in Pods |-> Nil]
    /\ deletionTime = [p \in Pods |-> Nil]
    /\ message = [p \in Pods |-> Nil]
    /\ events = [e \in Events |-> Nil]
    /\ ag = [a \in Agents |-> Idle]
    /\ inbox = [a \in Agents |-> NoEvents]
    /\ mpc = "idle" /\ todo = {} /\ passNow = 0 /\ cur = Nil /\ status = Nil
    /\ since = {} /\ prev = {}
    /\ answered = {}
    /\ failures = 0

Works == UNCHANGED failures
Fails == failures < MaxFailures /\ failures' = failures + 1

-----------------------------------------------------------------------------
(* Faulty variants of the definitions below.  Each one breaks a property   *)
(* of this module; they are used to check that the properties can fail.    *)

\* The limit is forgotten.
ExtendedUnlimited(t) == IF t = ZeroTime THEN ZeroTime ELSE t + ExtendBy

\* The extension starts at the click, whatever is stored.
ExtendedFromNow(t) == now + ExtendBy

\* An answer that cannot be posted is not an error.
PostMessageUnchecked(a) ==
    /\ ag[a].pc = "post"
    /\ \/ Works /\ answered' = answered \cup {ag[a].event}
       \/ Fails /\ UNCHANGED answered
    /\ ag' = [ag EXCEPT ![a] = Handler("ack", ag[a].event, Nil, Nil)]
    /\ UNCHANGED <<now, podVars, message, events, inbox, passVars>>

-----------------------------------------------------------------------------
(* Slack *)

Click(e, p, kind) ==
    /\ events[e] = Nil /\ message[p] # Nil
    /\ \A d \in Events : d < e => events[d] # Nil
    /\ events' = [events EXCEPT ![e] = [pod |-> p, kind |-> kind, acked |-> FALSE,
                                        deliveries |-> 0]]
    /\ UNCHANGED <<now, podVars, message, agVars, passVars, answered, failures>>

\* Slack delivers an event, perhaps not for the first time, to an agent that is
\* connected.  The Slack client puts it into the channel.
Deliver(e, a) ==
    /\ events[e] # Nil /\ ~events[e].acked /\ events[e].deliveries < MaxDeliveries
    /\ ag[a].pc # "down"
    /\ events' = [events EXCEPT ![e].deliveries = @ + 1]
    /\ inbox' = [inbox EXCEPT ![a][e] = @ + 1]
    /\ UNCHANGED <<now, podVars, message, ag, passVars, answered, failures>>

-----------------------------------------------------------------------------
(* The handlers of an agent *)

\* extendPod: the time read from the pod plus the extension, at most the
\* limit from now.
Extended(t) ==
    LET tm == IF t = ZeroTime THEN ZeroTime ELSE t + ExtendBy
        limit == now + ExtendLimit
    IN  IF tm > limit THEN limit ELSE tm

Down == Handler("down", Nil, Nil, Nil)

\* The event loop returns an error and the process ends.  Neither the event in
\* hand nor those in the channel have been acknowledged.
Exits(a) ==
    /\ ag' = [ag EXCEPT ![a] = Down]
    /\ inbox' = [inbox EXCEPT ![a] = NoEvents]

\* The event loop has an event to take.  Events arrive in any order, so that
\* the channel keeps none.
Waits(e, a) == ag[a].pc = "idle" /\ inbox[a][e] > 0

\* The handler goes on to the PUT of tm.
Handles(e, a, base, tm) ==
    /\ ag' = [ag EXCEPT ![a] = Handler("put", e, base, tm)]
    /\ inbox' = [inbox EXCEPT ![a][e] = @ - 1]

\* extendPod up to the PUT: the pod is looked up and asked for its status.  A
\* pod that is gone is an error like any other.  A pod without a deletion time
\* is extended from now.
ExtendPod(e, a) ==
    /\ Waits(e, a) /\ events[e].kind = "extend"
    /\ LET p == events[e].pod
           t == deletionTime[p]
       IN  \/ /\ Reachable(p) /\ Works
              /\ Handles(e, a, t, Extended(IF t = Nil THEN now ELSE t))
           \/ ~Reachable(p) /\ Works /\ Exits(a)
           \/ Reachable(p) /\ Fails /\ Exits(a)
    /\ UNCHANGED <<now, podVars, message, events, passVars, answered>>

\* deletePod up to the PUT.
DeletePodNow(e, a) ==
    /\ Waits(e, a) /\ events[e].kind = "delete"
    /\ LET p == events[e].pod
       IN  \/ /\ Reachable(p) /\ Works
              /\ Handles(e, a, Nil, ZeroTime)
           \/ ~Reachable(p) /\ Works /\ Exits(a)
           \/ Reachable(p) /\ Fails /\ Exits(a)
    /\ UNCHANGED <<now, podVars, message, events, passVars, answered>>

\* putDeletionTime: a failing PUT only changes the answer.
Put(a) ==
    /\ ag[a].pc = "put"
    /\ \/ /\ Reachable(Target(a)) /\ Works
          /\ deletionTime' = [deletionTime EXCEPT ![Target(a)] = ag[a].tm]
       \/ ~Reachable(Target(a)) /\ Works /\ UNCHANGED deletionTime
       \/ Reachable(Target(a)) /\ Fails /\ UNCHANGED deletionTime
    /\ ag' = [ag EXCEPT ![a] = Handler("post", ag[a].event, Nil, Nil)]
    /\ UNCHANGED <<now, phase, finishedAt, message, events, inbox, passVars, answered>>

\* The answer goes to the channel of the message.
PostMessage(a) ==
    /\ ag[a].pc = "post"
    /\ \/ /\ Works
          /\ answered' = answered \cup {ag[a].event}
          /\ ag' = [ag EXCEPT ![a] = Handler("ack", ag[a].event, Nil, Nil)]
          /\ UNCHANGED inbox
       \/ Fails /\ Exits(a) /\ UNCHANGED answered
    /\ UNCHANGED <<now, podVars, message, events, passVars>>

\* The acknowledgement is queued for the connection and may be lost with it.
Ack(a) ==
    /\ ag[a].pc = "ack"
    /\ \/ Works /\ events' = [events EXCEPT ![ag[a].event].acked = TRUE]
       \/ Fails /\ UNCHANGED events
    /\ ag' = [ag EXCEPT ![a] = Idle]
    /\ UNCHANGED <<now, podVars, message, inbox, passVars, answered>>

\* The kubelet restarts the container, NewServer and Run start the event loop.
Run(a) ==
    /\ ag[a].pc = "down"
    /\ ag' = [ag EXCEPT ![a] = Idle]
    /\ UNCHANGED <<now, podVars, message, events, inbox, passVars, answered, failures>>

-----------------------------------------------------------------------------
(* The manager *)

\* The channel of a job, else that of the pool.
SlackChannel(p) == IF PodChannel[p] # Nil THEN PodChannel[p] ELSE PoolChannel

\* ServeHTTP: a request without a channel goes to the agent's own.
Channel(p) == IF SlackChannel(p) # Nil THEN SlackChannel(p) ELSE DefaultChannel

\* ServeHTTP: without any channel the request is refused.
Serves(p) == Channel(p) # Nil /\ \E a \in Agents : ag[a].pc # "down"

\* finishedAt is after lastCheckTime, the time of the previous pass.
New(p) == p \in since \cup prev

NeedDelete(p, s) ==
    IF s # Nil THEN passNow > s ELSE passNow > finishedAt[p] + ExtendDuration

AfterPost(p, s) ==
    IF NeedDelete(p, s) THEN "delete"
    ELSE IF s = Nil /\ New(p) THEN "put"
    ELSE "visit"

VisitEnds == mpc' = "visit" /\ cur' = Nil /\ status' = Nil

Continue(pc, p, s) ==
    IF pc = "visit" THEN VisitEnds ELSE mpc' = pc /\ cur' = p /\ status' = s

BeginPass ==
    /\ mpc = "idle"
    /\ mpc' = "visit"
    /\ todo' = {p \in Pods : Reachable(p)}
    /\ passNow' = now
    /\ prev' = since /\ since' = {}
    /\ UNCHANGED <<now, podVars, message, events, agVars, cur, status, answered, failures>>

\* A pod that does not answer is skipped; one that is still working is of no
\* interest here.
SkipPod(p) ==
    /\ mpc = "visit" /\ p \in todo
    /\ \/ (~Reachable(p) \/ finishedAt[p] = Nil) /\ Works
       \/ Reachable(p) /\ finishedAt[p] # Nil /\ Fails
    /\ todo' = todo \ {p}
    /\ UNCHANGED <<now, podVars, message, events, agVars, mpc, passNow, cur, status, since, prev,
                   answered>>

ReadStatus(p) ==
    /\ mpc = "visit" /\ p \in todo
    /\ Reachable(p) /\ finishedAt[p] # Nil
    /\ todo' = todo \ {p}
    /\ Continue(IF New(p) THEN "post" ELSE AfterPost(p, deletionTime[p]), p, deletionTime[p])
    /\ UNCHANGED <<now, podVars, message, events, agVars, passNow, since, prev, answered, failures>>

\* An agent that is up posts the message with its buttons.  A failure is only
\* logged.
PostResult ==
    /\ mpc = "post"
    /\ \/ Serves(cur) /\ Works /\ message' = [message EXCEPT ![cur] = Channel(cur)]
       \/ ~Serves(cur) /\ Works /\ UNCHANGED message
       \/ Serves(cur) /\ Fails /\ UNCHANGED message
    /\ Continue(AfterPost(cur, status), cur, status)
    /\ UNCHANGED <<now, podVars, events, agVars, todo, passNow, since, prev, answered>>

PutDeletionTime ==
    /\ mpc = "put"
    /\ \/ /\ Reachable(cur) /\ Works
          /\ deletionTime' = [deletionTime EXCEPT ![cur] = finishedAt[cur] + ExtendDuration]
       \/ ~Reachable(cur) /\ Works /\ UNCHANGED deletionTime
       \/ Reachable(cur) /\ Fails /\ UNCHANGED deletionTime
    /\ VisitEnds
    /\ UNCHANGED <<now, phase, finishedAt, message, events, agVars, todo, passNow, since, prev,
                   answered>>

DeletePod ==
    /\ mpc = "delete"
    /\ \/ /\ Works
          /\ phase' = IF phase[cur] = "running" THEN [phase EXCEPT ![cur] = "terminating"]
                      ELSE phase
       \/ Fails /\ UNCHANGED phase
    /\ VisitEnds
    /\ UNCHANGED <<now, finishedAt, deletionTime, message, events, agVars, todo, passNow, since,
                   prev, answered>>

EndPass ==
    /\ mpc = "visit" /\ todo = {}
    /\ mpc' = "idle" /\ passNow' = 0 /\ prev' = {}
    /\ UNCHANGED <<now, podVars, message, events, agVars, todo, cur, status, since, answered,
                   failures>>

-----------------------------------------------------------------------------
(* The pods and the clock *)

\* The job fails.
Finish(p) ==
    /\ phase[p] = "running" /\ finishedAt[p] = Nil /\ now <= LastFinish
    /\ finishedAt' = [finishedAt EXCEPT ![p] = now]
    /\ since' = since \cup {p}
    /\ UNCHANGED <<now, phase, deletionTime, message, events, agVars, mpc, todo, passNow, cur,
                   status, prev, answered, failures>>

\* A deleted pod answers until its grace period is over.
Terminated(p) ==
    /\ phase[p] = "terminating"
    /\ phase' = [phase EXCEPT ![p] = "gone"]
    /\ UNCHANGED <<now, finishedAt, deletionTime, message, events, agVars, passVars, answered,
                   failures>>

Tick ==
    /\ now < MaxTime
    /\ now' = now + 1
    /\ UNCHANGED <<podVars, message, events, agVars, passVars, answered, failures>>

-----------------------------------------------------------------------------

Agent(a) ==
    \/ \E e \in Events : ExtendPod(e, a) \/ DeletePodNow(e, a)
    \/ Put(a) \/ PostMessage(a) \/ Ack(a) \/ Run(a)

Slack(e) ==
    \/ \E p \in Pods, kind \in {"extend", "delete"} : Click(e, p, kind)
    \/ \E a \in Agents : Deliver(e, a)

Manager ==
    \/ BeginPass
    \/ \E p \in Pods : SkipPod(p) \/ ReadStatus(p)
    \/ PostResult \/ PutDeletionTime \/ DeletePod \/ EndPass

Pod(p) == Finish(p) \/ Terminated(p)

Next ==
    \/ \E a \in Agents : Agent(a)
    \/ \E e \in Events : Slack(e)
    \/ Manager
    \/ \E p \in Pods : Pod(p)
    \/ Tick

Spec == Init /\ [][Next]_vars

-----------------------------------------------------------------------------
(* Properties *)

\* Every variable keeps its type.
TypeOK ==
    /\ now \in Nat
    /\ phase \in [Pods -> {"running", "terminating", "gone"}]
    /\ finishedAt \in [Pods -> Nat \cup {Nil}]
    /\ deletionTime \in [Pods -> Times]
    /\ message \in [Pods -> Channels \cup {Nil}]
    /\ events \in [Events -> Clicks \cup {Nil}]
    /\ ag \in [Agents -> Handlers]
    /\ inbox \in [Agents -> [Events -> Nat]]
    /\ mpc \in {"idle", "visit", "post", "put", "delete"}
    /\ todo \subseteq Pods /\ passNow \in Nat /\ cur \in Pods \cup {Nil} /\ status \in Times
    /\ since \subseteq Pods /\ prev \subseteq Pods
    /\ answered \subseteq Events
    /\ failures \in Nat

\* docs/user-manual.md: 'Extension is limited to "6 hours from now".'  However
\* often an event is delivered, and whatever agents and manager store, no pod
\* is kept beyond the limit or the duration its pool gives it.
WithinLimit ==
    \A p \in Pods : deletionTime[p] # Nil =>
        \/ deletionTime[p] <= now + ExtendLimit
        \/ finishedAt[p] # Nil /\ deletionTime[p] <= finishedAt[p] + ExtendDuration

\* An agent stores the deletion time of pod p in this step.
Stores(a, p) == ag[a].pc = "put" /\ ag'[a].pc = "post" /\ Target(a) = p

\* The ways in which the deletion time of pod p may change in a step.
ChangeOK(p) ==
    LET old == deletionTime[p]
        new == deletionTime'[p]
    IN  old # Nil /\ new # old =>
           \/ old # ZeroTime /\ new >= old
           \/ old # ZeroTime /\ ExtendDuration > ExtendLimit
           \/ \E a \in Agents : Stores(a, p) /\ (Kind(a) = "delete" \/ ag[a].base # old)
           \/ mpc = "put" /\ cur = p /\ status = Nil

\* A deletion time that has been stored is taken back, and a pod that was
\* given up for deletion is kept after all, only by the Delete button, by a
\* handler or a visit of the manager that had read the pod before that time
\* was stored, or by the limit where the pool's own duration exceeds it.
UndoneOnlyByRace == [][\A p \in Pods : ChangeOK(p)]_vars

\* An agent has the event in its hands or in its channel.
Held(e) == \E a \in Agents : ag[a].event = e \/ inbox[a][e] > 0

\* An agent may have met a pod that is gone, which ends its process.
PodIsGone == \E d \in Events : events[d] # Nil /\ phase[events[d].pod] = "gone"

\* No click is swallowed: Slack is told to forget an event only after it was
\* answered in the channel, and when Slack has given up on one that no agent
\* holds, it was answered too, unless a call has failed or a clicked pod is gone.
\* Nothing more can be said then: the process that ends takes along every event
\* in its channel, all deliveries of this one possibly.
NoClickIsLost ==
    \A e \in Events : events[e] # Nil =>
        /\ events[e].acked => e \in answered
        /\ events[e].deliveries = MaxDeliveries /\ MaxDeliveries > 0 /\ ~Held(e) =>
              e \in answered \/ failures > 0 \/ PodIsGone

\* docs/design.md: "The Runner manager periodically checks if there are `Pod`s
\* past a deletion time and if any, it deletes `Pod`s."
OnlyPastDeletionTime ==
    [][\A p \in Pods : phase[p] = "running" /\ phase'[p] = "terminating" =>
          deletionTime[p] = Nil \/ now > deletionTime[p]]_vars

=============================================================================
