---------------------------- MODULE MqttTransport ----------------------------
(***************************************************************************)
(* LegacyMqttTransport: commands queue per device, a pump starts a bounded *)
(* number of device lanes, a publication lock orders everything that is    *)
(* published, and answers, timeouts, disconnections and shutdown race to   *)
(* settle what is on the wire.                                             *)
(*                                                                         *)
(* Everything runs in one event loop.  An action is what runs between two  *)
(* awaits.  API calls may come at any time; events of the network and of   *)
(* timers find no continuation pending (Quiet).  The pump is a loop that   *)
(* nothing interrupts: while `pumping' nothing but a round of it happens.  *)
(* A call carries one command, as DeviceOperationService makes them.       *)
(***************************************************************************)
EXTENDS Naturals, Sequences, FiniteSets, SequencesExt

CONSTANTS
    Devices,
    Ops,            \* calls of executeCommands; each is made once
    Command,        \* the device and the priority of each
    MaxLanes,       \* maxConcurrentDeviceLanes
    MaxGeneration   \* bound: connection generations

Priorities == {"interactive", "background"}

ASSUME TransportConstants ==
    /\ Command \in [Ops -> [device : Devices, priority : Priorities]]
    /\ MaxLanes \in Nat \ {0}
    /\ MaxGeneration \in Nat
    /\ {"connect", "discovery"} \cap Devices = {}

VARIABLES
    life,           \* new, started or stopped
    online,         \* the client is connected to the broker
    ready,
    gen,            \* connectionGeneration
    connect,        \* handleConnected of this generation
    discovery,      \* requestDiscovery; discoveryPublishing unless "none"
    queue,          \* deviceQueues
    runnable,       \* runnableInteractiveDeviceIds, runnableBackgroundDeviceIds
    lane,           \* the lane of each device
    locks,          \* tickets of withPublicationLock, the holder first
    held,           \* the first ticket has been granted
    pumping,        \* pumpDeviceQueues is running
    requests,       \* requestSequence
    outcome,        \* what each caller was told
    \* history
    accepted,       \* calls queued, in order
    sent,           \* requests handed to the client
    answeredBy      \* whose request the answer of a call belongs to

scheduling == <<queue, runnable, pumping>>
publication == <<locks, held>>
history == <<accepted, sent, answeredBy>>
vars == <<life, online, ready, gen, connect, discovery, scheduling, lane,
          publication, requests, outcome, history>>

DeviceOf(op) == Command[op].device
PriorityOf(op) == Command[op].priority

-----------------------------------------------------------------------------
(* Parts. *)

NoLane == [pc |-> "none"]
LaneSteps == {"lock", "publishing", "waiting", "settled"}
Lane == [pc : LaneSteps, op : Ops, gen : Nat, req : Nat,
         told : {"none", "answered", "unknown", "unsent"}]

Active(d) == lane[d].pc # "none"
OnWire(d) == lane[d].pc \in {"publishing", "waiting"}
LaneCount == Cardinality({d \in Devices : Active(d)})

Parties == Devices \cup {"connect", "discovery"}
Ticket(who) == [who |-> who, gen |-> gen]
Holds(who) == held /\ Head(locks).who = who

\* The finally clause of withPublicationLock.
ReleasedBy(who) ==
    IF Holds(who) THEN locks' = Tail(locks) /\ held' = FALSE
    ELSE UNCHANGED publication

\* No continuation of a settled promise is left to run.
Quiet == /\ ~pumping
         /\ locks = <<>> \/ held
         /\ \A d \in Devices : lane[d].pc # "settled"
         /\ connect # "over" /\ discovery # "over"

\* isCurrentConnection.
Current(g) == life = "started" /\ g = gen

\* removeArrayValue.
Removed(s, d) ==
    IF Contains(s, d) THEN RemoveAt(s, CHOOSE i \in DOMAIN s : s[i] = d) ELSE s

\* scheduleRunnableDevice, for a device without a lane whose queue is q: it is
\* in the rotation of the call at its head, and keeps its place there.
Scheduled(d, q) ==
    [p \in Priorities |->
        IF PriorityOf(Head(q)) # p THEN Removed(runnable[p], d)
        ELSE IF Contains(runnable[p], d) THEN runnable[p]
             ELSE Append(runnable[p], d)]

Init ==
    /\ life = "new"
    /\ online = FALSE /\ ready = FALSE
    /\ gen = 0
    /\ connect = "none" /\ discovery = "none"
    /\ queue = [d \in Devices |-> <<>>]
    /\ runnable = [p \in Priorities |-> <<>>]
    /\ lane = [d \in Devices |-> NoLane]
    /\ locks = <<>> /\ held = FALSE
    /\ pumping = FALSE
    /\ requests = 0
    /\ outcome = [op \in Ops |-> "none"]
    /\ accepted = <<>>
    /\ sent = {}
    /\ answeredBy = [op \in Ops |-> {}]

-----------------------------------------------------------------------------
(* Queues and the pump. *)

Enqueued(q, op) == Append(q, op)

\* executeCommands and enqueueDeviceOperation.
Execute(op) ==
    /\ ~pumping
    /\ outcome[op] = "none" /\ ~Contains(accepted, op)
    /\ IF life = "started" /\ ready
       THEN LET d == DeviceOf(op)
                q == Enqueued(queue[d], op)
            IN  /\ accepted' = Append(accepted, op)
                /\ queue' = [queue EXCEPT ![d] = q]
                /\ runnable' = IF Active(d) THEN runnable ELSE Scheduled(d, q)
                /\ pumping' = TRUE
                /\ UNCHANGED outcome
       ELSE /\ outcome' = [outcome EXCEPT ![op] = "unsent"]
            /\ UNCHANGED <<scheduling, accepted>>
    /\ UNCHANGED <<life, online, ready, gen, connect, discovery, lane,
                   publication, requests, sent, answeredBy>>

MayStart == /\ life = "started" /\ ready /\ discovery = "none"
            /\ LaneCount < MaxLanes

Waiting == {p \in Priorities : runnable[p] # <<>>}

\* takeNextRunnableDevice.
NextPriority == IF "interactive" \in Waiting THEN "interactive"
                ELSE "background"

\* nextRequestId: unique for the life of the process.
NextRequest == requests + 1

\* The synchronous part of executeQueuedDeviceOperation and executeBatch.
StartLane(d) ==
    /\ queue' = [queue EXCEPT ![d] = Tail(queue[d])]
    /\ lane' = [lane EXCEPT ![d] = [pc |-> "lock", op |-> Head(queue[d]),
                    gen |-> gen, req |-> NextRequest, told |-> "none"]]
    /\ requests' = requests + 1
    /\ locks' = Append(locks, Ticket(d))

PumpRound ==
    /\ pumping
    /\ MayStart /\ Waiting # {}
    /\ LET d == Head(runnable[NextPriority])
       IN  /\ runnable' = [runnable EXCEPT ![NextPriority] = Tail(@)]
           /\ IF Active(d) \/ queue[d] = <<>>
              THEN UNCHANGED <<queue, lane, requests, locks>>
              ELSE StartLane(d)
    /\ UNCHANGED <<life, online, ready, gen, connect, discovery, pumping, held,
                   outcome, history>>

PumpEnds ==
    /\ pumping
    /\ ~MayStart \/ Waiting = {}
    /\ pumping' = FALSE
    /\ UNCHANGED <<life, online, ready, gen, connect, discovery, queue, runnable,
                   lane, publication, requests, outcome, history>>

Rescheduled(d) == IF queue[d] = <<>> THEN runnable
                  ELSE Scheduled(d, queue[d])

\* The lane's promise settles: the caller is told, and the finally clauses of
\* the lock, of the batch and of the lane run.
FinishLane(d) ==
    /\ ~pumping
    /\ lane[d].pc = "settled"
    /\ outcome' = [outcome EXCEPT ![lane[d].op] = lane[d].told]
    /\ lane' = [lane EXCEPT ![d] = NoLane]
    /\ ReleasedBy(d)
    /\ runnable' = Rescheduled(d)
    /\ pumping' = TRUE
    /\ UNCHANGED <<life, online, ready, gen, connect, discovery, queue, requests,
                   history>>

-----------------------------------------------------------------------------
(* The publication lock. *)

Granted(who) == /\ ~pumping
                /\ locks # <<>> /\ ~held
                /\ Head(locks).who = who

\* The generation of the first ticket has not been cancelled.
Valid == Current(Head(locks).gen)

\* The command is published, or turned away when its connection is gone.
GrantLane(d) ==
    /\ Granted(d) /\ lane[d].pc = "lock"
    /\ IF Valid /\ ready
       THEN /\ held' = TRUE
            /\ lane' = [lane EXCEPT ![d].pc = "publishing"]
            /\ sent' = sent \cup {[device |-> d, op |-> lane[d].op,
                                   req |-> lane[d].req]}
            /\ UNCHANGED locks
       ELSE /\ locks' = Tail(locks)
            /\ lane' = [lane EXCEPT ![d].pc = "settled", ![d].told = "unsent"]
            /\ UNCHANGED <<held, sent>>
    /\ UNCHANGED <<life, online, ready, gen, connect, discovery, scheduling,
                   requests, outcome, accepted, answeredBy>>

\* The discovery of a new connection.
GrantConnect ==
    /\ Granted("connect") /\ connect = "lock"
    /\ IF Valid THEN connect' = "publishing" /\ held' = TRUE /\ UNCHANGED locks
       ELSE connect' = "none" /\ locks' = Tail(locks) /\ UNCHANGED held
    /\ UNCHANGED <<life, online, ready, gen, discovery, scheduling, lane,
                   requests, outcome, history>>

GrantDiscovery ==
    /\ Granted("discovery") /\ discovery = "lock"
    /\ IF Valid /\ ready
       THEN /\ discovery' = "publishing" /\ held' = TRUE
            /\ UNCHANGED locks
       ELSE /\ discovery' = "over" /\ locks' = Tail(locks)
            /\ UNCHANGED held
    /\ UNCHANGED <<life, online, ready, gen, connect, scheduling, lane,
                   requests, outcome, history>>

-----------------------------------------------------------------------------
(* Answers and timers. *)

Settle(d, told) == lane' = [lane EXCEPT ![d].pc = "settled", ![d].told = told]

\* The client has written the command: the timer is armed and the lock goes on.
LanePublished(d) ==
    /\ Quiet
    /\ lane[d].pc = "publishing"
    /\ lane' = [lane EXCEPT ![d].pc = "waiting"]
    /\ ReleasedBy(d)
    /\ UNCHANGED <<life, online, ready, gen, connect, discovery, scheduling,
                   requests, outcome, history>>

LanePublishFails(d) ==
    /\ Quiet
    /\ lane[d].pc = "publishing"
    /\ Settle(d, "unknown")
    /\ UNCHANGED <<life, online, ready, gen, connect, discovery, scheduling,
                   publication, requests, outcome, history>>

\* handleResponse.  A device may answer a request late, twice, or before the
\* client reports it written; an answer that matches no active request is
\* ignored.
Respond(m, d) ==
    /\ Quiet /\ online
    /\ OnWire(d)
    /\ lane[d].req = m.req /\ DeviceOf(lane[d].op) = m.device
    /\ Settle(d, "answered")
    /\ answeredBy' = [answeredBy EXCEPT ![lane[d].op] = @ \cup {m.op}]
    /\ UNCHANGED <<life, online, ready, gen, connect, discovery, scheduling,
                   publication, requests, outcome, accepted, sent>>

Timeout(d) ==
    /\ Quiet
    /\ lane[d].pc = "waiting"
    /\ Settle(d, "unknown")
    /\ UNCHANGED <<life, online, ready, gen, connect, discovery, scheduling,
                   publication, requests, outcome, history>>

-----------------------------------------------------------------------------
(* Connections and discovery. *)

MutantRotated == [d \in Devices |-> IF OnWire(d)
                                    THEN [lane[d] EXCEPT !.pc = "settled",
                                                         !.told = "unsent"]
                                    ELSE lane[d]]

\* rotatePublicationGeneration: what is on the wire has no known outcome.
Rotated == [d \in Devices |-> IF OnWire(d)
                              THEN [lane[d] EXCEPT !.pc = "settled",
                                                   !.told = "unknown"]
                              ELSE lane[d]]

\* Holders of the old generation lose the lock; tickets that wait for it are
\* cancelled when their turn comes.
Rotate ==
    /\ gen < MaxGeneration
    /\ gen' = gen + 1
    /\ lane' = Rotated
    /\ discovery' = IF discovery = "publishing" THEN "over" ELSE discovery

MutantRejectQueued ==
    /\ queue' = [d \in Devices |-> <<>>]
    /\ runnable' = [p \in Priorities |-> <<>>]
    /\ UNCHANGED outcome

\* rejectQueued.
RejectQueued ==
    /\ outcome' = [op \in Ops |-> IF Contains(queue[DeviceOf(op)], op)
                                  THEN "unsent" ELSE outcome[op]]
    /\ queue' = [d \in Devices |-> <<>>]
    /\ runnable' = [p \in Priorities |-> <<>>]

\* What becomes of handleConnected when its connection is gone.
Abandoned == CASE connect = "subscribing" -> "none"
               [] connect = "publishing" -> "over"
               [] OTHER -> connect

Start ==
    /\ life = "new" /\ ~pumping
    /\ life' = "started"
    /\ ready' = FALSE
    /\ Rotate
    /\ UNCHANGED <<online, connect, scheduling, publication, requests, outcome,
                   history>>

Stop ==
    /\ life = "started" /\ ~pumping
    /\ life' = "stopped"
    /\ online' = FALSE /\ ready' = FALSE
    /\ Rotate
    /\ RejectQueued
    /\ connect' = Abandoned
    /\ UNCHANGED <<pumping, publication, requests, history>>

\* One that replaces a connection that was ready rejects what is queued.
Connected ==
    /\ life = "started" /\ (online => ready) /\ Quiet
    /\ online' = TRUE /\ ready' = FALSE
    /\ Rotate
    /\ IF ready THEN RejectQueued ELSE UNCHANGED <<queue, runnable, outcome>>
    /\ connect' = "subscribing"
    /\ UNCHANGED <<life, pumping, publication, requests, history>>

Disconnected ==
    /\ life = "started" /\ online /\ Quiet
    /\ online' = FALSE /\ ready' = FALSE
    /\ Rotate
    /\ RejectQueued
    /\ connect' = Abandoned
    /\ UNCHANGED <<life, pumping, publication, requests, history>>

Subscribed ==
    /\ connect = "subscribing" /\ Quiet
    /\ connect' = "lock"
    /\ locks' = Append(locks, Ticket("connect"))
    /\ UNCHANGED <<life, online, ready, gen, discovery, scheduling, lane, held,
                   requests, outcome, history>>

\* A rejected subscription, or a discovery that could not be published: the
\* connection stays, and the transport is not ready until the next one.
ConnectFails ==
    /\ connect \in {"subscribing", "publishing"} /\ Quiet
    /\ connect' = "none"
    /\ ready' = FALSE
    /\ ReleasedBy("connect")
    /\ UNCHANGED <<life, online, gen, discovery, scheduling, lane, requests,
                   outcome, history>>

BecomesReady ==
    /\ connect = "publishing" /\ Quiet
    /\ connect' = "none"
    /\ ready' = TRUE
    /\ ReleasedBy("connect")
    /\ pumping' = TRUE
    /\ UNCHANGED <<life, online, gen, discovery, queue, runnable, lane, requests,
                   outcome, history>>

ConnectOver ==
    /\ connect = "over" /\ ~pumping
    /\ connect' = "none"
    /\ ReleasedBy("connect")
    /\ UNCHANGED <<life, online, ready, gen, discovery, scheduling, lane,
                   requests, outcome, history>>

HasQueuedOperations == \E d \in Devices : queue[d] # <<>>

\* Nothing is published, on the wire or queued.
Idle == /\ discovery = "none" /\ locks = <<>>
        /\ LaneCount = 0
        /\ ~HasQueuedOperations

RequestDiscovery ==
    /\ life = "started" /\ ready /\ ~pumping
    /\ Idle
    /\ discovery' = "lock"
    /\ locks' = Append(locks, Ticket("discovery"))
    /\ UNCHANGED <<life, online, ready, gen, connect, scheduling, lane, held,
                   requests, outcome, history>>

MutantEndDiscovery ==
    /\ ~pumping
    /\ \/ discovery = "over"
       \/ discovery = "publishing" /\ Quiet
    /\ discovery' = "none"
    /\ ReleasedBy("discovery")
    /\ UNCHANGED <<life, online, ready, gen, connect, scheduling, lane,
                   requests, outcome, history>>

\* Published, failed or cancelled.
EndDiscovery ==
    /\ ~pumping
    /\ \/ discovery = "over"
       \/ discovery = "publishing" /\ Quiet
    /\ discovery' = "none"
    /\ ReleasedBy("discovery")
    /\ pumping' = TRUE
    /\ UNCHANGED <<life, online, ready, gen, connect, queue, runnable, lane,
                   requests, outcome, history>>

-----------------------------------------------------------------------------

Publication(d) == LanePublished(d) \/ LanePublishFails(d)

Next ==
    \/ \E op \in Ops : Execute(op)
    \/ PumpRound \/ PumpEnds
    \/ \E d \in Devices : \/ FinishLane(d) \/ GrantLane(d)
                          \/ LanePublished(d) \/ LanePublishFails(d)
                          \/ Timeout(d)
                          \/ \E m \in sent : Respond(m, d)
    \/ GrantConnect \/ GrantDiscovery
    \/ Start \/ Stop \/ Connected \/ Disconnected
    \/ Subscribed \/ ConnectFails \/ BecomesReady \/ ConnectOver
    \/ RequestDiscovery \/ EndDiscovery

Spec == Init /\ [][Next]_vars

\* Continuations of settled promises run, the client settles what it was asked
\* to publish, and an armed timer fires.
Fairness ==
    /\ WF_vars(PumpRound) /\ WF_vars(PumpEnds)
    /\ \A d \in Devices : /\ WF_vars(FinishLane(d)) /\ WF_vars(GrantLane(d))
                          /\ WF_vars(Publication(d)) /\ WF_vars(Timeout(d))
    /\ WF_vars(GrantConnect) /\ WF_vars(ConnectOver)
    /\ WF_vars(ConnectFails \/ BecomesReady)
    /\ WF_vars(GrantDiscovery) /\ WF_vars(EndDiscovery)

FairSpec == Spec /\ Fairness

-----------------------------------------------------------------------------
(* Correctness. *)

Message == [device : Devices, op : Ops, req : Nat]

TypeOK ==
    /\ life \in {"new", "started", "stopped"}
    /\ online \in BOOLEAN /\ ready \in BOOLEAN
    /\ gen \in 0 .. MaxGeneration
    /\ connect \in {"none", "subscribing", "lock", "publishing", "over"}
    /\ discovery \in {"none", "lock", "publishing", "over"}
    /\ queue \in [Devices -> Seq(Ops)]
    /\ runnable \in [Priorities -> Seq(Devices)]
    /\ lane \in [Devices -> Lane \cup {NoLane}]
    /\ locks \in Seq([who : Parties, gen : Nat])
    /\ held \in BOOLEAN /\ (held => locks # <<>>)
    /\ pumping \in BOOLEAN
    /\ requests \in Nat
    /\ outcome \in [Ops -> {"none", "answered", "unknown", "unsent"}]
    /\ accepted \in Seq(Ops)
    /\ sent \subseteq Message
    /\ answeredBy \in [Ops -> SUBSET Ops]

\* A device that has work and no lane is in exactly one rotation, once, and
\* when the transport is ready and not discovering, no work waits beside a free
\* lane once the pump has run: every way a lane, a connection or a discovery
\* ends wakes the pump (scheduleRunnableDevice, pumpDeviceQueues).
Places(d, p) == {i \in DOMAIN runnable[p] : runnable[p][i] = d}
Queued(d, p) == ~Active(d) /\ queue[d] # <<>> /\ PriorityOf(Head(queue[d])) = p

NoWorkIsForgotten ==
    /\ \A d \in Devices, p \in Priorities :
         Cardinality(Places(d, p)) = IF Queued(d, p) THEN 1 ELSE 0
    /\ ready /\ discovery = "none" /\ ~pumping =>
         LaneCount = MaxLanes \/ \A d \in Devices : Active(d) \/ queue[d] = <<>>

\* docs/architecture.md: "Delayed, misrouted, or out-of-order responses
\* therefore cannot settle a newer operation", across reconnections too.
AnswersAreOwn ==
    \A op \in Ops : answeredBy[op] \subseteq {op}

\* Every accepted command gets an outcome, whatever answers, times out or
\* disconnects.
EveryCommandSettles ==
    \A op \in Ops : Contains(accepted, op) ~> outcome[op] # "none"

Contract == INSTANCE CommandTransport WITH
    wire <- [op \in Ops |-> Cardinality({m \in sent : m.op = op})]

\* The transport keeps the promises device operations rely on.
KeepsContract == Contract!TransportSpec
=============================================================================
