------------------------- MODULE MqttTransportProofs -------------------------
(***************************************************************************)
(* Proofs about MqttTransport, for any number of devices, lanes, calls and *)
(* connections: its type invariant, that an answer settles only its own    *)
(* request, that the transport implements CommandTransport, and that no    *)
(* work is left beside a free lane.                                        *)
(***************************************************************************)
EXTENDS MqttTransport, SequenceTheorems, FiniteSetTheorems, TLAPS

-----------------------------------------------------------------------------
(* Types. *)

\* A rotation without one of its places is a rotation.
LEMMA RemovedIsTyped ==
  ASSUME NEW s \in Seq(Devices), NEW d
  PROVE  Removed(s, d) \in Seq(Devices)
<1>1. CASE ~Contains(s, d)
  BY <1>1 DEF Removed
<1>2. CASE Contains(s, d)
  <2> DEFINE k == CHOOSE i \in DOMAIN s : s[i] = d
  <2>1. k \in 1 .. Len(s)
    BY <1>2 DEF Contains
  <2> HIDE DEF k
  <2>2. SubSeq(s, 1, k - 1) \in Seq(Devices)
    BY <2>1, SubSeqProperties
  <2>3. SubSeq(s, k + 1, Len(s)) \in Seq(Devices)
    BY <2>1, SubSeqProperties
  <2>4. RemoveAt(s, k) \in Seq(Devices)
    BY <2>2, <2>3, ConcatProperties DEF RemoveAt
  <2> QED
    BY <2>4, <1>2 DEF Removed, k
<1> QED
  BY <1>1, <1>2

\* scheduleRunnableDevice keeps rotations of devices.
LEMMA ScheduledIsTyped ==
  ASSUME TypeOK, NEW d \in Devices, NEW q
  PROVE  Scheduled(d, q) \in [Priorities -> Seq(Devices)]
<1>1. \A p \in Priorities : runnable[p] \in Seq(Devices)
  BY DEF TypeOK
<1>2. \A p \in Priorities : /\ Removed(runnable[p], d) \in Seq(Devices)
                            /\ Append(runnable[p], d) \in Seq(Devices)
  BY <1>1, RemovedIsTyped
<1> QED
  BY <1>1, <1>2 DEF Scheduled

\* The end of withPublicationLock.
LEMMA ReleasedIsTyped ==
  ASSUME TypeOK, NEW who, ReleasedBy(who)
  PROVE  /\ locks' \in Seq([who : Parties, gen : Nat])
         /\ held' \in BOOLEAN /\ (held' => locks' # <<>>)
<1>1. CASE Holds(who)
  <2>1. locks # <<>> /\ locks \in Seq([who : Parties, gen : Nat])
    BY <1>1 DEF Holds, TypeOK
  <2>2. Tail(locks) \in Seq([who : Parties, gen : Nat])
    BY <2>1, HeadTailProperties
  <2> QED
    BY <1>1, <2>2 DEF ReleasedBy
<1>2. CASE ~Holds(who)
  BY <1>2 DEF ReleasedBy, TypeOK, publication
<1> QED
  BY <1>1, <1>2

\* A lane that runs has the fields of one.
LEMMA LaneIsTyped ==
  ASSUME TypeOK, NEW d \in Devices, Active(d)
  PROVE  /\ lane[d] \in Lane
         /\ lane[d].op \in Ops /\ lane[d].req \in Nat
  BY DEF TypeOK, Active, NoLane, Lane

\* A lane settles by an answer, a timer or the client.
LEMMA SettleIsTyped ==
  ASSUME TypeOK, NEW d \in Devices, Active(d),
         NEW told \in {"answered", "unknown", "unsent"}, Settle(d, told)
  PROVE  lane' \in [Devices -> Lane \cup {NoLane}]
<1> DEFINE new == [lane[d] EXCEPT !.pc = "settled", !.told = told]
<1>1. lane \in [Devices -> Lane \cup {NoLane}] /\ lane[d] \in Lane
  BY LaneIsTyped DEF TypeOK
<1>2. new \in Lane
  BY <1>1 DEF Lane, LaneSteps
<1>3. lane' = [lane EXCEPT ![d] = new]
  BY <1>1 DEF Settle, Lane
<1> HIDE DEF new
<1>4. QED
  BY <1>1, <1>2, <1>3

\* A new generation settles what is on the wire.
LEMMA RotateIsTyped ==
  ASSUME TypeOK, Rotate
  PROVE  /\ gen' \in 0 .. MaxGeneration
         /\ lane' \in [Devices -> Lane \cup {NoLane}]
         /\ discovery' \in {"none", "lock", "publishing", "over"}
<1>1. gen' \in 0 .. MaxGeneration
  BY TransportConstants DEF Rotate, TypeOK
<1>2. \A d \in Devices : OnWire(d) => Active(d)
  BY DEF OnWire, Active
<1>3. ASSUME NEW d \in Devices PROVE Rotated[d] \in Lane \cup {NoLane}
  <2>1. CASE OnWire(d)
    <3>1. lane[d] \in Lane
      BY <1>2, <2>1, LaneIsTyped
    <3>2. [lane[d] EXCEPT !.pc = "settled", !.told = "unknown"] \in Lane
      BY <3>1 DEF Lane, LaneSteps
    <3> QED
      BY <2>1, <3>2 DEF Rotated
  <2>2. CASE ~OnWire(d)
    BY <2>2 DEF Rotated, TypeOK
  <2> QED
    BY <2>1, <2>2
<1>4. lane' \in [Devices -> Lane \cup {NoLane}]
  BY <1>3 DEF Rotate, Rotated
<1> QED
  BY <1>1, <1>4 DEF Rotate, TypeOK

\* A disconnection or a stop turns away what is queued.
LEMMA RejectIsTyped ==
  ASSUME TypeOK, RejectQueued
  PROVE  /\ outcome' \in [Ops -> {"none", "answered", "unknown", "unsent"}]
         /\ queue' \in [Devices -> Seq(Ops)]
         /\ runnable' \in [Priorities -> Seq(Devices)]
  BY EmptySeq DEF TypeOK, RejectQueued

\* A call is queued or turned away.
LEMMA ExecuteKeepsTypes ==
  ASSUME TypeOK, NEW op \in Ops, Execute(op)
  PROVE  TypeOK'
<1>1. DeviceOf(op) \in Devices
  BY TransportConstants DEF DeviceOf
<1>2. CASE life = "started" /\ ready
  <2> DEFINE d == DeviceOf(op)
             q == Enqueued(queue[d], op)
  <2>1. q \in Seq(Ops)
    BY <1>1 DEF Enqueued, TypeOK
  <2>2. Scheduled(d, q) \in [Priorities -> Seq(Devices)]
    BY <1>1, ScheduledIsTyped
  <2>3. /\ accepted' = Append(accepted, op)
        /\ queue' = [queue EXCEPT ![d] = q]
        /\ runnable' = runnable \/ runnable' = Scheduled(d, q)
        /\ pumping' = TRUE /\ outcome' = outcome
    BY <1>2 DEF Execute
  <2>4. accepted' \in Seq(Ops)
    BY <2>3, AppendProperties DEF TypeOK
  <2> HIDE DEF q, d
  <2>5. queue' \in [Devices -> Seq(Ops)] /\ runnable' \in [Priorities -> Seq(Devices)]
    BY <2>1, <2>2, <2>3 DEF TypeOK
  <2> QED
    BY <2>3, <2>4, <2>5 DEF Execute, publication, TypeOK
<1>3. CASE ~(life = "started" /\ ready)
  BY <1>3 DEF Execute, scheduling, publication, TypeOK
<1> QED
  BY <1>2, <1>3

\* A round of the pump.
LEMMA PumpKeepsTypes ==
  ASSUME TypeOK, PumpRound
  PROVE  TypeOK'
<1>1. NextPriority \in Priorities /\ runnable[NextPriority] # <<>>
  BY DEF PumpRound, NextPriority, Waiting, Priorities
<1> DEFINE d == Head(runnable[NextPriority])
<1>2. /\ runnable[NextPriority] \in Seq(Devices)
      /\ runnable' = [runnable EXCEPT ![NextPriority] = Tail(runnable[NextPriority])]
      /\ IF Active(d) \/ queue[d] = <<>>
         THEN UNCHANGED <<queue, lane, requests, locks>>
         ELSE StartLane(d)
  BY <1>1 DEF PumpRound, TypeOK
<1>3. d \in Devices /\ Tail(runnable[NextPriority]) \in Seq(Devices)
  BY <1>1, <1>2, HeadTailProperties
<1> HIDE DEF d
<1>4. runnable' \in [Priorities -> Seq(Devices)]
  BY <1>1, <1>2, <1>3 DEF TypeOK
<1>5. CASE Active(d) \/ queue[d] = <<>>
  BY <1>2, <1>4, <1>5 DEF PumpRound, history, TypeOK
<1>6. CASE ~(Active(d) \/ queue[d] = <<>>)
  <2>1. StartLane(d)
    BY <1>2, <1>6
  <2>2. Head(queue[d]) \in Ops /\ Tail(queue[d]) \in Seq(Ops)
    BY <1>3, <1>6, HeadTailProperties DEF TypeOK
  <2>3. Ticket(d) \in [who : Parties, gen : Nat] /\ gen \in Nat
    BY <1>3, TransportConstants DEF Ticket, Parties, TypeOK
  <2>4. lane' \in [Devices -> Lane \cup {NoLane}] /\ requests' \in Nat
    BY <1>3, <2>1, <2>2, <2>3 DEF StartLane, Lane, LaneSteps, NextRequest, TypeOK
  <2>5. queue' \in [Devices -> Seq(Ops)]
    BY <1>3, <2>1, <2>2 DEF StartLane, TypeOK
  <2>6. locks' \in Seq([who : Parties, gen : Nat]) /\ locks' # <<>>
    BY <2>1, <2>3, AppendProperties DEF StartLane, TypeOK
  <2> QED
    BY <1>4, <2>4, <2>5, <2>6 DEF PumpRound, history, TypeOK
<1> QED
  BY <1>5, <1>6

\* The first ticket of a lane is granted.
LEMMA GrantKeepsTypes ==
  ASSUME TypeOK, NEW d \in Devices, GrantLane(d)
  PROVE  TypeOK'
<1>1. Active(d) /\ lane[d] \in Lane
  BY LaneIsTyped DEF Active, GrantLane
<1>2. locks # <<>> /\ Tail(locks) \in Seq([who : Parties, gen : Nat])
  BY HeadTailProperties DEF GrantLane, Granted, TypeOK
<1>3. CASE Valid /\ ready
  <2>1. [device |-> d, op |-> lane[d].op, req |-> lane[d].req] \in Message
    BY <1>1 DEF Lane, Message
  <2>2. sent' \subseteq Message
    BY <1>3, <2>1 DEF GrantLane, TypeOK
  <2>3. lane' \in [Devices -> Lane \cup {NoLane}]
    <3>1. lane' = [lane EXCEPT ![d].pc = "publishing"]
      BY <1>3 DEF GrantLane
    <3>2. [lane[d] EXCEPT !.pc = "publishing"] \in Lane
      BY <1>1 DEF Lane, LaneSteps
    <3> QED
      BY <3>1, <3>2 DEF TypeOK
  <2> QED
    BY <1>2, <1>3, <2>2, <2>3 DEF GrantLane, TypeOK, scheduling
<1>4. CASE ~(Valid /\ ready)
  <2>1. lane' \in [Devices -> Lane \cup {NoLane}]
    BY <1>1, <1>4, SettleIsTyped DEF GrantLane, Settle
  <2>2. held' = FALSE
    BY <1>4 DEF GrantLane, Granted, TypeOK
  <2> QED
    BY <1>2, <1>4, <2>1, <2>2 DEF GrantLane, TypeOK, scheduling
<1> QED
  BY <1>3, <1>4

\* Another ticket waits for the lock.
LEMMA QueuedTicketIsTyped ==
  ASSUME NEW T, NEW s \in Seq(T), NEW t \in T
  PROVE  Append(s, t) \in Seq(T) /\ Append(s, t) # <<>>
  BY AppendProperties

\* Every action keeps the types.
LEMMA TypeStep ==
  ASSUME TypeOK, [Next]_vars
  PROVE  TypeOK'
<1>1. ASSUME NEW op \in Ops, Execute(op)
      PROVE  TypeOK'
  BY <1>1, ExecuteKeepsTypes
<1>2. CASE PumpRound
  BY <1>2, PumpKeepsTypes
<1>3. CASE PumpEnds
  BY <1>3 DEF PumpEnds, publication, history, TypeOK
<1>4. ASSUME NEW d \in Devices, FinishLane(d)
      PROVE  TypeOK'
  <2>1. lane[d] \in Lane /\ lane[d].op \in Ops
    BY <1>4, LaneIsTyped DEF FinishLane, Active
  <2>2. Rescheduled(d) \in [Priorities -> Seq(Devices)]
    BY <1>4, ScheduledIsTyped DEF Rescheduled, TypeOK
  <2>3. /\ locks' \in Seq([who : Parties, gen : Nat])
        /\ held' \in BOOLEAN /\ (held' => locks' # <<>>)
    BY <1>4, ReleasedIsTyped DEF FinishLane
  <2>4. lane[d].told \in {"none", "answered", "unknown", "unsent"}
    BY <2>1 DEF Lane
  <2> QED
    BY <1>4, <2>1, <2>2, <2>3, <2>4 DEF FinishLane, history, TypeOK
<1>5. ASSUME NEW d \in Devices, GrantLane(d)
      PROVE  TypeOK'
  BY <1>5, GrantKeepsTypes
<1>6. ASSUME NEW d \in Devices, LanePublished(d)
      PROVE  TypeOK'
  <2>1. lane[d] \in Lane
    BY <1>6, LaneIsTyped DEF LanePublished, Active
  <2>2. lane' \in [Devices -> Lane \cup {NoLane}]
    BY <1>6, <2>1 DEF LanePublished, Lane, LaneSteps, TypeOK
  <2>3. /\ locks' \in Seq([who : Parties, gen : Nat])
        /\ held' \in BOOLEAN /\ (held' => locks' # <<>>)
    BY <1>6, ReleasedIsTyped DEF LanePublished
  <2> QED
    BY <1>6, <2>2, <2>3 DEF LanePublished, scheduling, history, TypeOK
<1>7. ASSUME NEW d \in Devices, LanePublishFails(d)
      PROVE  TypeOK'
  <2>1. lane' \in [Devices -> Lane \cup {NoLane}]
    BY <1>7, SettleIsTyped DEF LanePublishFails, Active
  <2> QED
    BY <1>7, <2>1 DEF LanePublishFails, scheduling, publication, history, TypeOK
<1>8. ASSUME NEW d \in Devices, Timeout(d)
      PROVE  TypeOK'
  <2>1. lane' \in [Devices -> Lane \cup {NoLane}]
    BY <1>8, SettleIsTyped DEF Timeout, Active
  <2> QED
    BY <1>8, <2>1 DEF Timeout, scheduling, publication, history, TypeOK
<1>9. ASSUME NEW d \in Devices, NEW m \in sent, Respond(m, d)
      PROVE  TypeOK'
  <2>1. Active(d)
    BY <1>9 DEF Respond, OnWire, Active
  <2>2. lane' \in [Devices -> Lane \cup {NoLane}] /\ lane[d].op \in Ops
    BY <1>9, <2>1, SettleIsTyped, LaneIsTyped DEF Respond
  <2>3. m.op \in Ops
    BY DEF TypeOK, Message
  <2>4. answeredBy' \in [Ops -> SUBSET Ops]
    BY <1>9, <2>2, <2>3 DEF Respond, TypeOK
  <2> QED
    BY <1>9, <2>2, <2>4 DEF Respond, scheduling, publication, TypeOK
<1>10. CASE GrantConnect \/ GrantDiscovery
  <2>1. locks # <<>> /\ Tail(locks) \in Seq([who : Parties, gen : Nat])
    BY <1>10, HeadTailProperties DEF GrantConnect, GrantDiscovery, Granted, TypeOK
  <2>2. ~held
    BY <1>10 DEF GrantConnect, GrantDiscovery, Granted
  <2>3. CASE GrantConnect
    BY <2>1, <2>2, <2>3 DEF GrantConnect, scheduling, history, TypeOK
  <2>4. CASE GrantDiscovery
    BY <2>1, <2>2, <2>4 DEF GrantDiscovery, scheduling, history, TypeOK
  <2> QED
    BY <1>10, <2>3, <2>4
<1>11. CASE Start
  BY <1>11, RotateIsTyped DEF Start, scheduling, publication, history, TypeOK
<1>12. CASE Stop
  BY <1>12, RotateIsTyped, RejectIsTyped
     DEF Stop, Abandoned, publication, history, TypeOK
<1>13. CASE Connected
  <2>1. CASE ready
    BY <1>13, <2>1, RotateIsTyped, RejectIsTyped DEF Connected, publication, history, TypeOK
  <2>2. CASE ~ready
    BY <1>13, <2>2, RotateIsTyped DEF Connected, publication, history, TypeOK
  <2> QED
    BY <2>1, <2>2
<1>14. CASE Disconnected
  BY <1>14, RotateIsTyped, RejectIsTyped
     DEF Disconnected, Abandoned, publication, history, TypeOK
<1>15. CASE Subscribed \/ RequestDiscovery
  <2>1. /\ Ticket("connect") \in [who : Parties, gen : Nat]
        /\ Ticket("discovery") \in [who : Parties, gen : Nat]
    BY TransportConstants DEF Ticket, Parties, TypeOK
  <2>2. \/ locks' = Append(locks, Ticket("connect"))
        \/ locks' = Append(locks, Ticket("discovery"))
    BY <1>15 DEF Subscribed, RequestDiscovery
  <2>3. locks' \in Seq([who : Parties, gen : Nat]) /\ locks' # <<>>
    <3> DEFINE T == [who : Parties, gen : Nat]
    <3>1. locks \in Seq(T)
      BY DEF TypeOK
    <3>2. Ticket("connect") \in T /\ Ticket("discovery") \in T
      BY <2>1
    <3> HIDE DEF T
    <3>3. locks' \in Seq(T) /\ locks' # <<>>
      BY <2>2, <3>1, <3>2, QueuedTicketIsTyped
    <3> QED
      BY <3>3 DEF T
  <2> QED
    BY <1>15, <2>3 DEF Subscribed, RequestDiscovery, scheduling, history, TypeOK
<1>16. CASE ConnectFails \/ BecomesReady \/ ConnectOver \/ EndDiscovery
  <2>1. /\ locks' \in Seq([who : Parties, gen : Nat])
        /\ held' \in BOOLEAN /\ (held' => locks' # <<>>)
    BY <1>16, ReleasedIsTyped DEF ConnectFails, BecomesReady, ConnectOver, EndDiscovery
  <2>2. CASE ConnectFails
    BY <2>1, <2>2 DEF ConnectFails, scheduling, history, TypeOK
  <2>3. CASE BecomesReady
    BY <2>1, <2>3 DEF BecomesReady, history, TypeOK
  <2>4. CASE ConnectOver
    BY <2>1, <2>4 DEF ConnectOver, scheduling, history, TypeOK
  <2>5. CASE EndDiscovery
    BY <2>1, <2>5 DEF EndDiscovery, history, TypeOK
  <2> QED
    BY <1>16, <2>2, <2>3, <2>4, <2>5
<1>17. CASE UNCHANGED vars
  BY <1>17 DEF vars, scheduling, publication, history, TypeOK
<1> QED
  BY <1>1, <1>2, <1>3, <1>4, <1>5, <1>6, <1>7, <1>8, <1>9, <1>10, <1>11, <1>12,
     <1>13, <1>14, <1>15, <1>16, <1>17 DEF Next

\* The transport starts with typed variables.
LEMMA TransportTypesInit ==
  ASSUME Init
  PROVE  TypeOK
<1>1. gen \in 0 .. MaxGeneration /\ requests \in Nat
  BY TransportConstants DEF Init
<1>2. /\ queue \in [Devices -> Seq(Ops)] /\ accepted \in Seq(Ops)
      /\ runnable \in [Priorities -> Seq(Devices)]
      /\ locks \in Seq([who : Parties, gen : Nat])
  BY EmptySeq DEF Init
<1> QED
  BY <1>1, <1>2 DEF Init, TypeOK

\* The variables of LegacyMqttTransport keep their types.
THEOREM TransportTypes == Spec => []TypeOK
<1>1. Init => TypeOK
  BY TransportTypesInit
<1>2. TypeOK /\ [Next]_vars => TypeOK'
  BY TypeStep
<1> QED
  BY <1>1, <1>2, PTL DEF Spec

-----------------------------------------------------------------------------
(* Requests. *)

\* Request numbers are never used twice: what is on the wire and what a lane
\* holds under one number is one command.
RequestsDiffer ==
    /\ \A m \in sent : m.req <= requests
    /\ \A d \in Devices : Active(d) => lane[d].req <= requests
    /\ \A d, e \in Devices :
         Active(d) /\ Active(e) /\ lane[d].req = lane[e].req => d = e
    /\ \A m \in sent, d \in Devices :
         Active(d) /\ lane[d].req = m.req => lane[d].op = m.op

\* The request of a lane does not change while the lane lives.
SameRequest(d) == /\ Active(d)
                  /\ lane'[d].req = lane[d].req
                  /\ lane'[d].op = lane[d].op

\* What a step of a lane leaves alone.
LEMMA EditedLane ==
  ASSUME TypeOK, NEW d \in Devices, Active(d), NEW step, NEW told,
         \/ lane' = [lane EXCEPT ![d].pc = step]
         \/ lane' = [lane EXCEPT ![d].pc = step, ![d].told = told]
  PROVE  /\ \A e \in Devices : e # d => lane'[e] = lane[e]
         /\ lane'[d].pc = step
         /\ lane'[d].op = lane[d].op /\ lane'[d].req = lane[d].req
         /\ lane'[d].told \in {lane[d].told, told}
<1>1. lane \in [Devices -> Lane \cup {NoLane}] /\ lane[d] \in Lane
  BY LaneIsTyped DEF TypeOK
<1>2. CASE lane' = [lane EXCEPT ![d].pc = step]
  BY <1>1, <1>2 DEF Lane
<1>3. CASE lane' = [lane EXCEPT ![d].pc = step, ![d].told = told]
  BY <1>1, <1>3 DEF Lane
<1> QED
  BY <1>2, <1>3

\* A step that starts no lane and publishes nothing.
LEMMA RequestsByFrame ==
  ASSUME RequestsDiffer, requests' = requests, sent' = sent,
         \A d \in Devices : Active(d)' => SameRequest(d)
  PROVE  RequestsDiffer'
  BY DEF RequestsDiffer, SameRequest

\* What settles or is published stays the same request.
LEMMA RotateKeepsRequests ==
  ASSUME TypeOK, Rotate
  PROVE  \A d \in Devices : Active(d)' => SameRequest(d)
<1>1. \A d \in Devices : lane'[d] = IF OnWire(d)
                                    THEN [lane[d] EXCEPT !.pc = "settled",
                                                         !.told = "unknown"]
                                    ELSE lane[d]
  BY DEF Rotate, Rotated
<1>2. ASSUME NEW d \in Devices, Active(d)'
      PROVE  SameRequest(d)
  <2>1. Active(d)
    BY <1>1, <1>2 DEF Active, OnWire
  <2>2. lane[d] \in Lane
    BY <2>1, LaneIsTyped
  <2> QED
    BY <1>1, <2>1, <2>2 DEF SameRequest, Lane
<1> QED
  BY <1>2

\* Every action keeps request numbers different.
LEMMA RequestsStep ==
  ASSUME TypeOK, RequestsDiffer, [Next]_vars
  PROVE  RequestsDiffer'
<1>1. ASSUME UNCHANGED <<lane, requests, sent>>
      PROVE  RequestsDiffer'
  BY <1>1 DEF RequestsDiffer, Active
<1>2. ASSUME NEW op \in Ops, Execute(op)
      PROVE  RequestsDiffer'
  BY <1>1, <1>2 DEF Execute
<1>3. CASE PumpRound
  <2> DEFINE d == Head(runnable[NextPriority])
  <2>1. CASE UNCHANGED <<queue, lane, requests, locks>>
    BY <1>1, <1>3, <2>1 DEF PumpRound, history
  <2>2. CASE ~Active(d) /\ StartLane(d)
    <3>1. /\ lane' = [lane EXCEPT ![d] = [pc |-> "lock", op |-> Head(queue[d]),
                          gen |-> gen, req |-> requests + 1, told |-> "none"]]
          /\ requests' = requests + 1 /\ sent' = sent
      BY <1>3, <2>2 DEF PumpRound, StartLane, NextRequest, history
    <3> HIDE DEF d
    <3>2. /\ requests \in Nat
          /\ \A m \in sent : m.req \in Nat /\ m.req # requests + 1 /\ m.req <= requests + 1
      BY DEF TypeOK, Message, RequestsDiffer
    <3>3. \A e \in Devices : Active(e) =>
            /\ e # d /\ lane'[e] = lane[e]
            /\ lane[e].req \in Nat
            /\ lane[e].req # requests + 1 /\ lane[e].req <= requests + 1
      BY <2>2, <3>1, <3>2, LaneIsTyped DEF TypeOK, RequestsDiffer
    <3>4. \A e \in Devices : Active(e)' /\ e # d => Active(e) /\ lane'[e] = lane[e]
      BY <3>1 DEF Active, TypeOK
    <3>5. d \in Devices => lane'[d].req = requests + 1
      BY <3>1 DEF TypeOK
    <3> QED
      BY <3>1, <3>2, <3>3, <3>4, <3>5 DEF RequestsDiffer
  <2> QED
    BY <1>3, <2>1, <2>2 DEF PumpRound
<1>4. CASE PumpEnds
  BY <1>1, <1>4 DEF PumpEnds, history
<1>5. ASSUME NEW d \in Devices, FinishLane(d)
      PROVE  RequestsDiffer'
  <2>1. \A e \in Devices : Active(e)' => SameRequest(e)
    BY <1>5 DEF FinishLane, Active, NoLane, SameRequest, TypeOK
  <2> QED
    BY <1>5, <2>1, RequestsByFrame DEF FinishLane, history
<1>6. ASSUME NEW d \in Devices, GrantLane(d)
      PROVE  RequestsDiffer'
  <2>1. Active(d) /\ lane[d] \in Lane
    BY <1>6, LaneIsTyped DEF GrantLane, Active
  <2>2. requests' = requests
    BY <1>6 DEF GrantLane
  <2>3. \A e \in Devices : Active(e)' => SameRequest(e)
    <3>1. \E step : \/ lane' = [lane EXCEPT ![d].pc = step]
                    \/ lane' = [lane EXCEPT ![d].pc = step, ![d].told = "unsent"]
      BY <1>6 DEF GrantLane
    <3> QED
      BY <2>1, <3>1, EditedLane DEF Active, SameRequest
  <2>4. CASE sent' = sent
    BY <2>2, <2>3, <2>4, RequestsByFrame
  <2>5. CASE sent' = sent \cup {[device |-> d, op |-> lane[d].op, req |-> lane[d].req]}
    BY <2>1, <2>2, <2>3, <2>5 DEF RequestsDiffer, SameRequest
  <2> QED
    BY <1>6, <2>4, <2>5 DEF GrantLane
<1>7. ASSUME NEW d \in Devices,
             \/ LanePublished(d) \/ LanePublishFails(d) \/ Timeout(d)
             \/ \E m \in sent : Respond(m, d)
      PROVE  RequestsDiffer'
  <2>1. Active(d) /\ lane[d] \in Lane
    BY <1>7, LaneIsTyped
       DEF LanePublished, LanePublishFails, Timeout, Respond, OnWire, Active
  <2>2. /\ requests' = requests /\ sent' = sent
        /\ \/ lane' = [lane EXCEPT ![d].pc = "waiting"]
           \/ \E told \in {"answered", "unknown"} : Settle(d, told)
    BY <1>7 DEF LanePublished, LanePublishFails, Timeout, Respond, history
  <2>3. \A e \in Devices : Active(e)' => SameRequest(e)
    <3>1. CASE lane' = [lane EXCEPT ![d].pc = "waiting"]
      BY <2>1, <3>1, EditedLane DEF Active, SameRequest
    <3>2. ASSUME NEW told \in {"answered", "unknown"}, Settle(d, told)
          PROVE  \A e \in Devices : Active(e)' => SameRequest(e)
      <4>1. lane' = [lane EXCEPT ![d].pc = "settled", ![d].told = told]
        BY <3>2 DEF Settle
      <4> QED
        BY <2>1, <4>1, EditedLane DEF Active, SameRequest
    <3> QED
      BY <2>2, <3>1, <3>2
  <2> QED
    BY <2>2, <2>3, RequestsByFrame
<1>8. CASE Start \/ Stop \/ Connected \/ Disconnected
  <2>1. Rotate /\ requests' = requests /\ sent' = sent
    BY <1>8 DEF Start, Stop, Connected, Disconnected, history
  <2> QED
    BY <2>1, RotateKeepsRequests, RequestsByFrame
<1>9. CASE \/ GrantConnect \/ GrantDiscovery \/ Subscribed \/ ConnectFails
           \/ BecomesReady \/ ConnectOver \/ RequestDiscovery \/ EndDiscovery
           \/ UNCHANGED vars
  BY <1>1, <1>9 DEF GrantConnect, GrantDiscovery, Subscribed, ConnectFails,
       BecomesReady, ConnectOver, RequestDiscovery, EndDiscovery, history, vars
<1> QED
  BY <1>2, <1>3, <1>4, <1>5, <1>6, <1>7, <1>8, <1>9 DEF Next

\* An answer settles only the command it answers (handleResponse), however
\* late it comes and however many connections later.
THEOREM AnswersSettleOwn == Spec => []AnswersAreOwn
<1> DEFINE I == TypeOK /\ RequestsDiffer /\ AnswersAreOwn
<1>1. Init => I
  <2> SUFFICES ASSUME Init PROVE I
    OBVIOUS
  <2>1. \A d \in Devices : ~Active(d)
    BY DEF Init, Active, NoLane
  <2> QED
    BY <2>1, TransportTypesInit DEF Init, RequestsDiffer, AnswersAreOwn
<1>2. I /\ [Next]_vars => I'
  <2> SUFFICES ASSUME I, [Next]_vars PROVE I'
    OBVIOUS
  <2>1. TypeOK' /\ RequestsDiffer'
    BY TypeStep, RequestsStep
  <2>2. ASSUME NEW d \in Devices, NEW m \in sent, Respond(m, d)
        PROVE  AnswersAreOwn'
    <3>1. Active(d)
      BY <2>2 DEF Respond, OnWire, Active
    <3>2. lane[d].op = m.op
      BY <2>2, <3>1 DEF Respond, RequestsDiffer
    <3> QED
      BY <2>2, <3>2 DEF Respond, AnswersAreOwn, TypeOK
  <2>3. ASSUME answeredBy' = answeredBy
        PROVE  AnswersAreOwn'
    BY <2>3 DEF AnswersAreOwn
  <2>4. answeredBy' = answeredBy \/ \E d \in Devices, m \in sent : Respond(m, d)
    BY DEF Next, vars, history, Execute, PumpRound, PumpEnds, FinishLane, GrantLane,
       LanePublished, LanePublishFails, Timeout, GrantConnect, GrantDiscovery,
       Start, Stop, Connected, Disconnected, Subscribed, ConnectFails,
       BecomesReady, ConnectOver, RequestDiscovery, EndDiscovery
  <2> QED
    BY <2>1, <2>2, <2>3, <2>4
<1> QED
  BY <1>1, <1>2, PTL DEF Spec

-----------------------------------------------------------------------------
(* The contract. *)

Sent(op) == {m \in sent : m.op = op}

\* Accepted, and neither published nor settled.
Fresh(op) == Contains(accepted, op) /\ outcome[op] = "none" /\ Sent(op) = {}

Once(op) == \E m \in sent : Sent(op) = {m}

\* A queued command is fresh, is in one place, and is not the one of the lane.
QueueHolds(d, i) ==
    /\ Fresh(queue[d][i])
    /\ DeviceOf(queue[d][i]) = d
    /\ Active(d) => lane[d].op # queue[d][i]
    /\ \A j \in 1 .. Len(queue[d]) : queue[d][i] = queue[d][j] => i = j

QueuesHold == \A d \in Devices : \A i \in 1 .. Len(queue[d]) : QueueHolds(d, i)

\* A lane holds a command without an outcome, which was published once or, while
\* it waits for the lock or after it was turned away, not at all.
LaneHolds(d) ==
    /\ DeviceOf(lane[d].op) = d
    /\ Contains(accepted, lane[d].op)
    /\ outcome[lane[d].op] = "none"
    /\ lane[d].pc = "settled" <=> lane[d].told # "none"
    /\ IF lane[d].pc = "lock" \/ lane[d].told = "unsent"
       THEN Sent(lane[d].op) = {} ELSE Once(lane[d].op)

LanesHold == \A d \in Devices : Active(d) => LaneHolds(d)

\* What was published has an outcome or a lane that will tell it.
Accounted(op) ==
    /\ Contains(accepted, op)
    /\ outcome[op] = "none" => Active(DeviceOf(op)) /\ lane[DeviceOf(op)].op = op

SentHold == \A m \in sent : Accounted(m.op)

Placed == QueuesHold /\ LanesHold /\ SentHold

\* A member of a longer sequence is a member of the old one, or the new one.
LEMMA ContainsAppend ==
  ASSUME NEW s \in Seq(Ops), NEW op \in Ops, NEW x
  PROVE  Contains(Append(s, op), x) <=> Contains(s, x) \/ x = op
  BY AppendProperties DEF Contains

\* A command with a lane still on the wire is settled, or waits on.
Progressed(d) ==
    /\ OnWire(d)
    /\ lane'[d].op = lane[d].op
    /\ \/ lane'[d].pc = "waiting" /\ lane'[d].told = lane[d].told
       \/ lane'[d].pc = "settled" /\ lane'[d].told \in {"answered", "unknown"}

\* Steps of lanes on the wire, alone or with all queues turned away.
LEMMA PlacedByProgress ==
  ASSUME TypeOK, Placed, sent' = sent, accepted' = accepted,
         \A d \in Devices : lane'[d] = lane[d] \/ Progressed(d),
         UNCHANGED <<queue, outcome>> \/ RejectQueued
  PROVE  Placed'
<1>1. \A d \in Devices : Active(d)' <=> Active(d)
  BY DEF Progressed, Active, OnWire
<1>2. \A d \in Devices : Active(d) => lane'[d].op = lane[d].op
  BY DEF Progressed
<1>3. \A d \in Devices : Active(d) => outcome'[lane[d].op] = outcome[lane[d].op]
  <2>1. ASSUME NEW d \in Devices, Active(d), RejectQueued
        PROVE  outcome'[lane[d].op] = outcome[lane[d].op]
    <3>1. lane[d].op \in Ops /\ DeviceOf(lane[d].op) = d
      BY <2>1, LaneIsTyped DEF Placed, LanesHold, LaneHolds
    <3>2. ~Contains(queue[d], lane[d].op)
      BY <2>1 DEF Placed, QueuesHold, QueueHolds, Contains
    <3> QED
      BY <2>1, <3>1, <3>2 DEF RejectQueued
  <2> QED
    BY <2>1
<1>4. ASSUME NEW d \in Devices, Active(d)'
      PROVE  LaneHolds(d)'
  <2>1. Active(d) /\ LaneHolds(d) /\ lane'[d].op = lane[d].op
        /\ outcome'[lane[d].op] = outcome[lane[d].op]
    BY <1>1, <1>2, <1>3, <1>4 DEF Placed, LanesHold
  <2>2. lane'[d] = lane[d] \/ Progressed(d)
    OBVIOUS
  <2>3. lane'[d].pc = "settled" <=> lane'[d].told # "none"
    BY <2>1, <2>2 DEF Progressed, OnWire, LaneHolds
  <2>4. (lane'[d].pc = "lock" \/ lane'[d].told = "unsent")
          <=> (lane[d].pc = "lock" \/ lane[d].told = "unsent")
    BY <2>1, <2>2 DEF Progressed, OnWire, LaneHolds
  <2> QED
    BY <2>1, <2>3, <2>4 DEF LaneHolds, DeviceOf, Contains, Sent, Once
<1>5. QueuesHold'
  <2>1. CASE UNCHANGED <<queue, outcome>>
    BY <1>1, <1>2, <2>1
       DEF Placed, QueuesHold, QueueHolds, Fresh, DeviceOf, Contains, Sent
  <2>2. CASE RejectQueued
    BY <2>2, EmptySeq DEF QueuesHold, RejectQueued
  <2> QED
    BY <2>1, <2>2
<1>6. ASSUME NEW m \in sent
      PROVE  Accounted(m.op)'
  <2>1. m.op \in Ops /\ DeviceOf(m.op) \in Devices
    BY TransportConstants DEF TypeOK, Message, DeviceOf
  <2>2. outcome'[m.op] = "none" => outcome[m.op] = "none"
    BY <2>1 DEF RejectQueued
  <2>3. Accounted(m.op)
    BY DEF Placed, SentHold
  <2> QED
    BY <1>1, <1>2, <2>1, <2>2, <2>3 DEF Accounted, Contains, DeviceOf
<1> QED
  BY <1>4, <1>5, <1>6 DEF Placed, LanesHold, SentHold

\* A new call is appended to its queue: it is in no lane, queue or message yet.
LEMMA ExecuteKeepsPlaced ==
  ASSUME TypeOK, Placed, NEW op \in Ops, Execute(op), life = "started" /\ ready
  PROVE  Placed'
<1> DEFINE d == DeviceOf(op)
<1>1. /\ accepted' = Append(accepted, op)
      /\ queue' = [queue EXCEPT ![d] = Append(queue[d], op)]
      /\ lane' = lane /\ sent' = sent /\ outcome' = outcome
      /\ outcome[op] = "none" /\ ~Contains(accepted, op)
  BY DEF Execute, Enqueued
<1>2. d \in Devices /\ queue \in [Devices -> Seq(Ops)]
  BY TransportConstants DEF DeviceOf, TypeOK
<1>3. \A o : Contains(accepted', o) <=> Contains(accepted, o) \/ o = op
  BY <1>1, ContainsAppend DEF TypeOK
<1>4. /\ queue'[d] = Append(queue[d], op)
      /\ Len(queue'[d]) = Len(queue[d]) + 1
      /\ queue'[d][Len(queue[d]) + 1] = op
      /\ \A i \in 1 .. Len(queue[d]) : queue'[d][i] = queue[d][i]
  BY <1>1, <1>2, AppendProperties
<1>5. \A e \in Devices \ {d} : queue'[e] = queue[e]
  BY <1>1, <1>2
<1>6. Sent(op) = {}
  BY <1>1 DEF Sent, Placed, SentHold, Accounted
<1>7. \A e \in Devices : Active(e) => lane[e].op # op
  BY <1>1 DEF Placed, LanesHold, LaneHolds
<1>8. \A e \in Devices : \A i \in 1 .. Len(queue[e]) : queue[e][i] # op
  BY <1>1 DEF Placed, QueuesHold, QueueHolds, Fresh
<1>9. Len(queue[d]) \in Nat
  BY <1>2
<1> HIDE DEF d
<1>10. QueuesHold'
  <2> SUFFICES ASSUME NEW e \in Devices, NEW i \in 1 .. Len(queue'[e])
               PROVE  QueueHolds(e, i)'
    BY DEF QueuesHold
  <2>1. CASE e # d
    <3>1. QueueHolds(e, i) /\ queue'[e] = queue[e]
      BY <1>5, <2>1 DEF Placed, QueuesHold
    <3> QED
      BY <1>1, <1>3, <3>1 DEF QueueHolds, Fresh, Sent, Active, DeviceOf
  <2>2. CASE e = d /\ i \in 1 .. Len(queue[d])
    <3>1. QueueHolds(e, i) /\ queue'[e][i] = queue[e][i] /\ queue[e][i] # op
      BY <1>2, <1>4, <1>8, <2>2 DEF Placed, QueuesHold
    <3>2. \A j \in 1 .. Len(queue'[e]) : queue'[e][i] = queue'[e][j] => i = j
      BY <1>4, <1>9, <2>2, <3>1 DEF QueueHolds
    <3> QED
      BY <1>1, <1>3, <3>1, <3>2 DEF QueueHolds, Fresh, Sent, Active, DeviceOf
  <2>3. CASE e = d /\ i = Len(queue[d]) + 1
    <3>1. queue'[e][i] = op /\ DeviceOf(op) = e
      BY <1>4, <2>3 DEF d
    <3>2. \A j \in 1 .. Len(queue'[e]) : queue'[e][i] = queue'[e][j] => i = j
      BY <1>2, <1>4, <1>8, <1>9, <2>3, <3>1
    <3> QED
      BY <1>1, <1>3, <1>6, <1>7, <3>1, <3>2
         DEF QueueHolds, Fresh, Sent, Active, DeviceOf
  <2> QED
    BY <1>4, <1>9, <2>1, <2>2, <2>3
<1>11. LanesHold'
  BY <1>1, <1>3 DEF Placed, LanesHold, LaneHolds, Active, DeviceOf, Sent, Once
<1>12. SentHold'
  BY <1>1, <1>3 DEF Placed, SentHold, Accounted, Active, DeviceOf
<1> QED
  BY <1>10, <1>11, <1>12 DEF Placed

\* The head of a queue moves to the lane of its device.
LEMMA StartKeepsPlaced ==
  ASSUME TypeOK, Placed, NEW d \in Devices, ~Active(d), queue[d] # <<>>,
         StartLane(d), UNCHANGED <<outcome, accepted, sent>>
  PROVE  Placed'
<1>1. /\ queue' = [queue EXCEPT ![d] = Tail(queue[d])]
      /\ lane' = [lane EXCEPT ![d] = [pc |-> "lock", op |-> Head(queue[d]),
                      gen |-> gen, req |-> NextRequest, told |-> "none"]]
  BY DEF StartLane
<1>2. queue \in [Devices -> Seq(Ops)] /\ lane \in [Devices -> Lane \cup {NoLane}]
  BY DEF TypeOK
<1>3. /\ Len(queue[d]) \in Nat \ {0} /\ queue[d][1] = Head(queue[d])
      /\ queue'[d] = Tail(queue[d]) /\ Len(queue'[d]) = Len(queue[d]) - 1
      /\ \A i \in 1 .. Len(queue'[d]) : queue'[d][i] = queue[d][i + 1]
  BY <1>1, <1>2, HeadTailProperties, EmptySeq
<1>4. /\ lane'[d].op = queue[d][1] /\ lane'[d].pc = "lock" /\ lane'[d].told = "none"
      /\ \A e \in Devices \ {d} : lane'[e] = lane[e] /\ queue'[e] = queue[e]
  BY <1>1, <1>2, <1>3
<1>5. QueueHolds(d, 1)
  BY <1>3 DEF Placed, QueuesHold
<1>9. \A i \in 1 .. Len(queue'[d]) :
        i + 1 \in 1 .. Len(queue[d]) /\ queue'[d][i] = queue[d][i + 1]
  BY <1>3
<1>6. QueuesHold'
  <2> SUFFICES ASSUME NEW e \in Devices, NEW i \in 1 .. Len(queue'[e])
               PROVE  QueueHolds(e, i)'
    BY DEF QueuesHold
  <2>1. CASE e # d
    <3>1. QueueHolds(e, i) /\ queue'[e] = queue[e] /\ lane'[e] = lane[e]
      BY <1>4, <2>1 DEF Placed, QueuesHold
    <3> QED
      BY <3>1 DEF QueueHolds, Fresh, Sent, Active, DeviceOf
  <2>2. CASE e = d
    <3>1. i + 1 \in 1 .. Len(queue[d]) /\ queue'[d][i] = queue[d][i + 1]
      BY <1>9, <2>2
    <3>2. QueueHolds(d, i + 1)
      BY <3>1 DEF Placed, QueuesHold
    <3>3. lane'[d].op # queue'[d][i]
      BY <1>3, <1>4, <1>5, <3>1 DEF QueueHolds
    <3>4. \A j \in 1 .. Len(queue'[d]) : queue'[d][i] = queue'[d][j] => i = j
      <4> SUFFICES ASSUME NEW j \in 1 .. Len(queue'[d]), queue'[d][i] = queue'[d][j]
                   PROVE  i = j
        OBVIOUS
      <4>1. j + 1 \in 1 .. Len(queue[d]) /\ queue[d][i + 1] = queue[d][j + 1]
        BY <1>9, <3>1
      <4>2. i + 1 = j + 1
        BY <3>2, <4>1 DEF QueueHolds
      <4> QED
        BY <1>3, <2>2, <4>2
    <3> QED
      BY <2>2, <3>1, <3>2, <3>3, <3>4 DEF QueueHolds, Fresh, Sent, DeviceOf
  <2> QED
    BY <2>1, <2>2
<1>7. LanesHold'
  <2> SUFFICES ASSUME NEW e \in Devices, Active(e)'
               PROVE  LaneHolds(e)'
    BY DEF LanesHold
  <2>1. CASE e # d
    <3>1. LaneHolds(e) /\ lane'[e] = lane[e]
      BY <1>4, <2>1 DEF Placed, LanesHold, Active
    <3> QED
      BY <3>1 DEF LaneHolds, Sent, Once, DeviceOf
  <2>2. CASE e = d
    BY <1>4, <1>5, <2>2 DEF LaneHolds, QueueHolds, Fresh, Sent, DeviceOf
  <2> QED
    BY <2>1, <2>2
<1>8. ASSUME NEW m \in sent
      PROVE  Accounted(m.op)'
  <2>1. Accounted(m.op) /\ DeviceOf(m.op) \in Devices
    BY TransportConstants DEF Placed, SentHold, TypeOK, Message, DeviceOf
  <2> QED
    BY <1>4, <2>1 DEF Accounted, Active, DeviceOf
<1> QED
  BY <1>6, <1>7, <1>8 DEF Placed, SentHold

\* A command is published, or turned away, when its ticket is granted.
LEMMA GrantKeepsPlaced ==
  ASSUME TypeOK, Placed, NEW d \in Devices, GrantLane(d)
  PROVE  Placed'
<1>1. Active(d) /\ lane[d] \in Lane /\ lane[d].pc = "lock" /\ LaneHolds(d)
  BY LaneIsTyped DEF GrantLane, Active, Placed, LanesHold
<1>2. UNCHANGED <<queue, outcome, accepted>>
  BY DEF GrantLane, scheduling
<1>3. /\ \A e \in Devices \ {d} : lane'[e] = lane[e]
      /\ lane'[d].op = lane[d].op
      /\ Active(d)'
      /\ \/ /\ lane'[d].pc = "publishing" /\ lane'[d].told = lane[d].told
            /\ sent' = sent \cup {[device |-> d, op |-> lane[d].op,
                                   req |-> lane[d].req]}
         \/ /\ lane'[d].pc = "settled" /\ lane'[d].told = "unsent"
            /\ sent' = sent
  <2>1. CASE Valid /\ ready
    <3>1. lane' = [lane EXCEPT ![d].pc = "publishing"]
      BY <2>1 DEF GrantLane
    <3>2. lane'[d] = [lane[d] EXCEPT !.pc = "publishing"]
      BY <3>1 DEF TypeOK
    <3>3. lane'[d].told = lane[d].told
      BY <1>1, <3>2 DEF Lane
    <3>4. /\ \A e \in Devices \ {d} : lane'[e] = lane[e]
          /\ lane'[d].op = lane[d].op /\ lane'[d].pc = "publishing"
      BY <1>1, <3>1, EditedLane
    <3>5. sent' = sent \cup {[device |-> d, op |-> lane[d].op,
                              req |-> lane[d].req]}
      BY <2>1 DEF GrantLane
    <3> QED
      BY <3>3, <3>4, <3>5 DEF Active
  <2>2. CASE ~(Valid /\ ready)
    <3>1. lane' = [lane EXCEPT ![d].pc = "settled", ![d].told = "unsent"]
      BY <2>2 DEF GrantLane
    <3>2. lane'[d] = [lane[d] EXCEPT !.pc = "settled", !.told = "unsent"]
      BY <3>1 DEF TypeOK
    <3>3. lane'[d].told = "unsent"
      BY <1>1, <3>2 DEF Lane
    <3>4. /\ \A e \in Devices \ {d} : lane'[e] = lane[e]
          /\ lane'[d].op = lane[d].op /\ lane'[d].pc = "settled"
      BY <1>1, <3>1, EditedLane
    <3>5. sent' = sent
      BY <2>2 DEF GrantLane
    <3> QED
      BY <3>3, <3>4, <3>5 DEF Active
  <2> QED
    BY <2>1, <2>2
<1>4. Sent(lane[d].op) = {} /\ lane[d].told = "none"
  BY <1>1 DEF LaneHolds
<1>5. /\ \A o : o # lane[d].op => Sent(o)' = Sent(o)
      /\ IF lane'[d].pc = "settled" THEN Sent(lane[d].op)' = {}
         ELSE Sent(lane[d].op)' = {[device |-> d, op |-> lane[d].op,
                                    req |-> lane[d].req]}
  BY <1>3, <1>4 DEF Sent
<1>6. QueuesHold'
  <2> SUFFICES ASSUME NEW e \in Devices, NEW i \in 1 .. Len(queue'[e])
               PROVE  QueueHolds(e, i)'
    BY DEF QueuesHold
  <2>1. QueueHolds(e, i) /\ queue' = queue
    BY <1>2 DEF Placed, QueuesHold
  <2>2. queue[e][i] # lane[d].op
    BY <1>1, <2>1 DEF QueueHolds, LaneHolds
  <2>3. Sent(queue[e][i])' = {}
    BY <1>5, <2>1, <2>2 DEF QueueHolds, Fresh, Sent
  <2>4. Active(e)' => lane'[e].op # queue[e][i]
    BY <1>1, <1>3, <2>1, <2>2 DEF QueueHolds, Active
  <2> QED
    BY <1>2, <2>1, <2>3, <2>4 DEF QueueHolds, Fresh, Sent, DeviceOf
<1>7. LanesHold'
  <2> SUFFICES ASSUME NEW e \in Devices, Active(e)'
               PROVE  LaneHolds(e)'
    BY DEF LanesHold
  <2>1. CASE e # d
    <3>1. LaneHolds(e) /\ lane'[e] = lane[e]
      BY <1>3, <2>1 DEF Placed, LanesHold, Active
    <3>2. lane[e].op # lane[d].op
      BY <1>1, <2>1, <3>1 DEF LaneHolds
    <3>3. {m \in sent' : m.op = lane[e].op} = {m \in sent : m.op = lane[e].op}
      BY <1>3, <3>2
    <3> QED
      BY <1>2, <1>3, <3>1, <3>3 DEF LaneHolds, Sent, Once, DeviceOf
  <2>2. CASE e = d /\ lane'[d].pc = "settled"
    BY <1>1, <1>2, <1>3, <1>4, <2>2 DEF LaneHolds, Sent, DeviceOf
  <2>3. CASE e = d /\ lane'[d].pc # "settled"
    <3> DEFINE m == [device |-> d, op |-> lane[d].op, req |-> lane[d].req]
    <3>1. sent' = sent \cup {m} /\ m.op = lane[d].op
      BY <1>3, <2>3
    <3> HIDE DEF m
    <3>2. Once(lane[d].op)'
      <4>1. {x \in sent' : x.op = lane[d].op} = {m}
        BY <1>4, <3>1 DEF Sent
      <4> QED
        BY <1>3, <3>1, <4>1 DEF Once, Sent
    <3> QED
      BY <1>1, <1>2, <1>3, <1>4, <2>3, <3>2 DEF LaneHolds, Once, Sent, DeviceOf
  <2> QED
    BY <2>1, <2>2, <2>3
<1>8. ASSUME NEW m \in sent'
      PROVE  Accounted(m.op)'
  <2>1. CASE m.op = lane[d].op
    BY <1>1, <1>2, <1>3, <2>1 DEF LaneHolds, Accounted, DeviceOf
  <2>2. CASE m.op # lane[d].op
    <3>1. m \in sent
      BY <1>3, <2>2
    <3>2. Accounted(m.op) /\ DeviceOf(m.op) \in Devices
      BY <3>1, TransportConstants DEF Placed, SentHold, TypeOK, Message, DeviceOf
    <3> QED
      BY <1>2, <1>3, <3>2 DEF Accounted, Active, DeviceOf
  <2> QED
    BY <2>1, <2>2
<1> QED
  BY <1>6, <1>7, <1>8 DEF Placed, SentHold

\* The caller is told, and the lane is free.
LEMMA FinishKeepsPlaced ==
  ASSUME TypeOK, Placed, NEW d \in Devices, FinishLane(d)
  PROVE  Placed'
<1>1. Active(d) /\ lane[d] \in Lane /\ LaneHolds(d) /\ lane[d].told # "none"
  BY LaneIsTyped DEF FinishLane, Active, Placed, LanesHold, LaneHolds
<1>2. /\ UNCHANGED <<queue, accepted, sent>>
      /\ lane' = [lane EXCEPT ![d] = NoLane]
      /\ outcome' = [outcome EXCEPT ![lane[d].op] = lane[d].told]
  BY DEF FinishLane, history
<1>3. /\ ~Active(d)'
      /\ \A e \in Devices \ {d} : lane'[e] = lane[e]
  BY <1>2 DEF TypeOK, Active, NoLane
<1>4. /\ \A o \in Ops : o # lane[d].op => outcome'[o] = outcome[o]
      /\ outcome'[lane[d].op] # "none"
  BY <1>1, <1>2 DEF TypeOK, Lane
<1>5. QueuesHold'
  <2> SUFFICES ASSUME NEW e \in Devices, NEW i \in 1 .. Len(queue'[e])
               PROVE  QueueHolds(e, i)'
    BY DEF QueuesHold
  <2>1. QueueHolds(e, i) /\ queue[e][i] \in Ops
    BY <1>2 DEF Placed, QueuesHold, TypeOK
  <2>2. queue[e][i] # lane[d].op
    BY <1>1, <2>1 DEF QueueHolds, LaneHolds
  <2> QED
    BY <1>2, <1>3, <1>4, <2>1, <2>2 DEF QueueHolds, Fresh, Sent, Active, DeviceOf
<1>6. ASSUME NEW e \in Devices, Active(e)'
      PROVE  LaneHolds(e)'
  <2>1. e # d /\ lane'[e] = lane[e]
    BY <1>3, <1>6
  <2>2. LaneHolds(e) /\ lane[e].op \in Ops
    BY <1>6, <2>1, LaneIsTyped DEF Placed, LanesHold, Active
  <2>3. outcome'[lane[e].op] = outcome[lane[e].op]
    BY <1>1, <1>4, <2>1, <2>2 DEF LaneHolds
  <2> QED
    BY <1>2, <2>1, <2>2, <2>3 DEF LaneHolds, Sent, Once, DeviceOf
<1>7. ASSUME NEW m \in sent
      PROVE  Accounted(m.op)'
  <2>1. Accounted(m.op) /\ m.op \in Ops /\ DeviceOf(m.op) \in Devices
    BY TransportConstants DEF Placed, SentHold, TypeOK, Message, DeviceOf
  <2>2. CASE m.op = lane[d].op
    BY <1>2, <1>4, <2>1, <2>2 DEF Accounted
  <2>3. CASE m.op # lane[d].op
    BY <1>2, <1>3, <1>4, <2>1, <2>3 DEF Accounted, Active, DeviceOf
  <2> QED
    BY <2>2, <2>3
<1> QED
  BY <1>2, <1>5, <1>6, <1>7 DEF Placed, LanesHold, SentHold

\* Steps that leave queues, lanes, messages and outcomes alone.
LEMMA PlacedByFrame ==
  ASSUME Placed, UNCHANGED <<queue, lane, outcome, accepted, sent>>
  PROVE  Placed'
  BY DEF Placed, QueuesHold, LanesHold, SentHold, QueueHolds, LaneHolds, Accounted,
         Fresh, Once, Sent, Active, DeviceOf

\* A call that is turned away at once has never been accepted.
LEMMA RefusalKeepsPlaced ==
  ASSUME TypeOK, Placed, NEW op \in Ops, Execute(op), ~(life = "started" /\ ready)
  PROVE  Placed'
<1>1. /\ UNCHANGED <<queue, lane, accepted, sent>>
      /\ outcome' = [outcome EXCEPT ![op] = "unsent"]
      /\ ~Contains(accepted, op)
  BY DEF Execute, scheduling
<1>2. \A o \in Ops : Contains(accepted, o) => outcome'[o] = outcome[o]
  BY <1>1 DEF TypeOK
<1>3. /\ \A d \in Devices : \A i \in 1 .. Len(queue[d]) : queue[d][i] \in Ops
      /\ \A d \in Devices : Active(d) => lane[d].op \in Ops
      /\ \A m \in sent : m.op \in Ops
  BY LaneIsTyped DEF TypeOK, Message
<1>4. QueuesHold'
  BY <1>1, <1>2, <1>3 DEF Placed, QueuesHold, QueueHolds, Fresh, Sent, Active, DeviceOf
<1>5. LanesHold'
  BY <1>1, <1>2, <1>3 DEF Placed, LanesHold, LaneHolds, Sent, Once, Active, DeviceOf
<1>6. SentHold'
  BY <1>1, <1>2, <1>3 DEF Placed, SentHold, Accounted, Active, DeviceOf
<1> QED
  BY <1>4, <1>5, <1>6 DEF Placed

\* What happens on the wire to one lane.
WireStep(d) == \/ LanePublished(d) \/ LanePublishFails(d) \/ Timeout(d)
               \/ \E m \in sent : Respond(m, d)

\* A step on the wire moves one lane on.
LEMMA WireStepProgresses ==
  ASSUME TypeOK, NEW d \in Devices, WireStep(d)
  PROVE  /\ \A e \in Devices : lane'[e] = lane[e] \/ Progressed(e)
         /\ UNCHANGED <<queue, outcome, accepted, sent>>
<1>1. Active(d) /\ OnWire(d) /\ lane[d] \in Lane
  BY LaneIsTyped
     DEF WireStep, LanePublished, LanePublishFails, Timeout, Respond, OnWire, Active
<1>2. /\ UNCHANGED <<queue, outcome, accepted, sent>>
      /\ \/ lane' = [lane EXCEPT ![d].pc = "waiting"]
         \/ \E told \in {"answered", "unknown"} : Settle(d, told)
  BY DEF WireStep, LanePublished, LanePublishFails, Timeout, Respond, history, scheduling
<1>3. CASE lane' = [lane EXCEPT ![d].pc = "waiting"]
  <2>1. lane'[d] = [lane[d] EXCEPT !.pc = "waiting"]
    BY <1>3 DEF TypeOK
  <2>2. lane'[d].told = lane[d].told
    BY <1>1, <2>1 DEF Lane
  <2> QED
    BY <1>1, <1>2, <1>3, <2>2, EditedLane DEF Progressed
<1>4. ASSUME NEW told \in {"answered", "unknown"}, Settle(d, told)
      PROVE  \A e \in Devices : lane'[e] = lane[e] \/ Progressed(e)
  <2>1. lane' = [lane EXCEPT ![d].pc = "settled", ![d].told = told]
    BY <1>4 DEF Settle
  <2>2. lane'[d] = [lane[d] EXCEPT !.pc = "settled", !.told = told]
    BY <2>1 DEF TypeOK
  <2>3. lane'[d].told = told
    BY <1>1, <2>2 DEF Lane
  <2>4. /\ \A e \in Devices \ {d} : lane'[e] = lane[e]
        /\ lane'[d].op = lane[d].op /\ lane'[d].pc = "settled"
    BY <1>1, <2>1, EditedLane
  <2> QED
    BY <1>1, <2>3, <2>4 DEF Progressed
<1> QED
  BY <1>2, <1>3, <1>4

\* A rotation settles the lanes on the wire.
LEMMA RotateProgresses ==
  ASSUME TypeOK, Rotate
  PROVE  \A d \in Devices : lane'[d] = lane[d] \/ Progressed(d)
<1> SUFFICES ASSUME NEW d \in Devices, OnWire(d)
             PROVE  Progressed(d)
  BY DEF Rotate, Rotated
<1>1. lane[d] \in Lane
  BY LaneIsTyped DEF OnWire, Active
<1>2. lane'[d] = [lane[d] EXCEPT !.pc = "settled", !.told = "unknown"]
  BY DEF Rotate, Rotated
<1> QED
  BY <1>1, <1>2 DEF Progressed, Lane

\* The steps that concern neither a command nor its caller.
Aside ==
    \/ PumpEnds \/ GrantConnect \/ GrantDiscovery \/ Subscribed \/ ConnectFails
    \/ BecomesReady \/ ConnectOver \/ RequestDiscovery \/ EndDiscovery
    \/ UNCHANGED vars

\* They change nothing the contract speaks of.
LEMMA AsideIsFrame ==
  ASSUME Aside
  PROVE  UNCHANGED <<queue, lane, outcome, accepted, sent>>
  BY DEF Aside, PumpEnds, GrantConnect, GrantDiscovery, Subscribed, ConnectFails,
         BecomesReady, ConnectOver, RequestDiscovery, EndDiscovery, history,
         scheduling, vars

\* Another generation begins, and what is queued stays or is rejected.
Resumes == Start \/ (Connected /\ ~ready)
Rejects == Stop \/ Disconnected \/ (Connected /\ ready)

\* The steps of Next, as the proofs below take them apart.
LEMMA NextCases ==
  ASSUME [Next]_vars
  PROVE  \/ \E op \in Ops : Execute(op)
         \/ PumpRound
         \/ \E d \in Devices : FinishLane(d) \/ GrantLane(d) \/ WireStep(d)
         \/ Resumes \/ Rejects \/ Aside
  BY DEF Next, Aside, WireStep, Resumes, Rejects

\* A round of the pump starts a lane for an idle device, or none.
LEMMA PumpRoundStarts ==
  ASSUME TypeOK, PumpRound
  PROVE  /\ UNCHANGED <<outcome, accepted, sent>>
         /\ \/ UNCHANGED <<queue, lane>>
            \/ \E d \in Devices : ~Active(d) /\ queue[d] # <<>> /\ StartLane(d)
<1>1. NextPriority \in Priorities /\ runnable[NextPriority] # <<>>
  BY DEF PumpRound, NextPriority, Waiting, Priorities
<1>2. Head(runnable[NextPriority]) \in Devices
  BY <1>1, HeadTailProperties DEF TypeOK
<1> QED
  BY <1>2 DEF PumpRound, history

\* Every action keeps every command in its place.
LEMMA PlacedStep ==
  ASSUME TypeOK, Placed, [Next]_vars
  PROVE  Placed'
<1>1. ASSUME NEW op \in Ops, Execute(op)
      PROVE  Placed'
  BY <1>1, ExecuteKeepsPlaced, RefusalKeepsPlaced
<1>2. CASE PumpRound
  BY <1>2, PumpRoundStarts, StartKeepsPlaced, PlacedByFrame
<1>3. ASSUME NEW d \in Devices, FinishLane(d) \/ GrantLane(d) \/ WireStep(d)
      PROVE  Placed'
  BY <1>3, FinishKeepsPlaced, GrantKeepsPlaced, WireStepProgresses, PlacedByProgress
<1>4. CASE Resumes
  <2>1. Rotate /\ UNCHANGED <<queue, outcome, accepted, sent>>
    BY <1>4 DEF Resumes, Start, Connected, scheduling, history
  <2> QED
    BY <2>1, RotateProgresses, PlacedByProgress
<1>5. CASE Rejects
  <2>1. Rotate /\ RejectQueued /\ UNCHANGED <<accepted, sent>>
    BY <1>5 DEF Rejects, Stop, Disconnected, Connected, history
  <2> QED
    BY <2>1, RotateProgresses, PlacedByProgress
<1>6. CASE Aside
  BY <1>6, AsideIsFrame, PlacedByFrame
<1> QED
  BY <1>1, <1>2, <1>3, <1>4, <1>5, <1>6, NextCases

-----------------------------------------------------------------------------
(* The transport implements the contract. *)

Wire == [op \in Ops |-> Cardinality({m \in sent : m.op = op})]

\* How often a command was handed to the client.
LEMMA WireCounts ==
  /\ \A op : Sent(op) = {} => Cardinality({m \in sent : m.op = op}) = 0
  /\ \A op : Once(op) => Cardinality({m \in sent : m.op = op}) = 1
  BY FS_EmptySet, FS_Singleton DEF Sent, Once

\* Nothing is published, and some callers are told so.
LEMMA RefuseStep ==
  ASSUME NEW ops \in SUBSET Ops, sent' = sent,
         \A op \in ops : outcome[op] = "none" /\ Sent(op) = {},
         outcome' = [op \in Ops |-> IF op \in ops THEN "unsent" ELSE outcome[op]]
  PROVE  Contract!TransportNext
<1>1. \A op \in ops : Wire[op] = 0
  BY WireCounts DEF Wire
<1>2. Wire' = Wire
  BY DEF Wire
<1>3. Contract!Refuse(ops)
  BY <1>1, <1>2 DEF Contract!Refuse, Wire
<1> QED
  BY <1>3 DEF Contract!TransportNext

\* One command is published, the first time, when nothing else of its device
\* is outstanding.
LEMMA SendStep ==
  ASSUME NEW op \in Ops, NEW m, m.op = op, sent' = sent \cup {m},
         outcome' = outcome, outcome[op] = "none", Sent(op) = {},
         \A other \in Ops : DeviceOf(other) = DeviceOf(op) =>
            outcome[other] # "none" \/ Sent(other) = {}
  PROVE  Contract!TransportNext
<1>1. /\ {x \in sent' : x.op = op} = {m}
      /\ \A o \in Ops : o # op => {x \in sent' : x.op = o} = {x \in sent : x.op = o}
  BY DEF Sent
<1>2. Cardinality({x \in sent' : x.op = op}) = 1
  BY <1>1, FS_Singleton
<1>3. Wire' = [Wire EXCEPT ![op] = 1]
  <2>1. \A o \in Ops : Wire'[o] = IF o = op THEN 1 ELSE Wire[o]
    BY <1>1, <1>2 DEF Wire
  <2> QED
    BY <2>1 DEF Wire
<1>4. Wire[op] = 0
  BY WireCounts DEF Wire
<1>5. \A other \in Ops : DeviceOf(other) = DeviceOf(op) =>
         ~(Wire[other] > 0 /\ outcome[other] = "none")
  BY WireCounts DEF Wire
<1>6. Contract!Send(op)
  BY <1>3, <1>4, <1>5 DEF Contract!Send, Contract!Outstanding, Wire
<1> QED
  BY <1>6 DEF Contract!TransportNext

\* A ticket is granted: a lane is the only place of what its device has
\* outstanding, so nothing is when the lane still waits for the lock.
LEMMA GrantImplements ==
  ASSUME TypeOK, Placed, NEW d \in Devices, GrantLane(d)
  PROVE  Contract!TransportNext \/ UNCHANGED Contract!transportVars
<1> SUFFICES ASSUME NEW op, op = lane[d].op,
                    NEW m, m = [device |-> d, op |-> op, req |-> lane[d].req]
             PROVE  Contract!TransportNext \/ UNCHANGED Contract!transportVars
  OBVIOUS
<1>1. Active(d) /\ op \in Ops /\ LaneHolds(d) /\ lane[d].pc = "lock"
  BY LaneIsTyped DEF GrantLane, Active, Placed, LanesHold
<1>2. DeviceOf(op) = d /\ outcome[op] = "none" /\ Sent(op) = {}
  BY <1>1 DEF LaneHolds
<1>3. outcome' = outcome /\ (sent' = sent \/ sent' = sent \cup {m})
  BY DEF GrantLane
<1>4. CASE sent' = sent
  BY <1>3, <1>4 DEF Contract!transportVars
<1>5. CASE sent' = sent \cup {m}
  <2>1. m.op = op
    OBVIOUS
  <2>2. ASSUME NEW other \in Ops, DeviceOf(other) = d, outcome[other] = "none"
        PROVE  Sent(other) = {}
    <3>1. \A x \in Sent(other) : x \in sent /\ x.op = other
      BY DEF Sent
    <3>2. Sent(other) # {} => lane[d].op = other
      BY <2>2, <3>1 DEF Placed, SentHold, Accounted
    <3> QED
      BY <1>2, <3>2
  <2> QED
    BY <1>1, <1>2, <1>3, <1>5, <2>1, <2>2, SendStep
<1> QED
  BY <1>3, <1>4, <1>5

\* The caller is told: what its lane held was published once, or never.
LEMMA FinishImplements ==
  ASSUME TypeOK, Placed, NEW d \in Devices, FinishLane(d)
  PROVE  Contract!TransportNext
<1> SUFFICES ASSUME NEW op, op = lane[d].op, NEW told, told = lane[d].told
             PROVE  Contract!TransportNext
  OBVIOUS
<1>1. /\ Active(d) /\ op \in Ops /\ LaneHolds(d) /\ told # "none"
      /\ told \in {"none", "answered", "unknown", "unsent"}
  BY LaneIsTyped DEF FinishLane, Active, Placed, LanesHold, LaneHolds, Lane
<1>2. /\ sent' = sent /\ outcome' = [outcome EXCEPT ![op] = told]
      /\ outcome[op] = "none"
  BY <1>1 DEF FinishLane, history, LaneHolds
<1>3. CASE told = "unsent"
  <2>1. outcome' = [o \in Ops |-> IF o \in {op} THEN "unsent" ELSE outcome[o]]
    BY <1>1, <1>2, <1>3 DEF TypeOK
  <2>2. Sent(op) = {}
    BY <1>1, <1>3 DEF LaneHolds
  <2>3. {op} \in SUBSET Ops /\ \A o \in {op} : outcome[o] = "none" /\ Sent(o) = {}
    BY <1>1, <1>2, <2>2
  <2> QED
    BY <1>2, <2>1, <2>3, RefuseStep
<1>4. CASE told \in {"answered", "unknown"}
  <2>1. Once(op)
    BY <1>1, <1>4 DEF LaneHolds, FinishLane
  <2>2. Wire[op] = 1 /\ Wire' = Wire
    BY <1>1, <1>2, <2>1, WireCounts DEF Wire
  <2>3. Contract!Outstanding(op)
    BY <1>2, <2>2 DEF Contract!Outstanding, Wire
  <2>4. \E t \in {"answered", "unknown"} : outcome' = [outcome EXCEPT ![op] = t]
    BY <1>2, <1>4
  <2>5. Contract!Report(op)
    BY <2>2, <2>3, <2>4 DEF Contract!Report, Wire
  <2> QED
    BY <1>1, <2>5 DEF Contract!TransportNext
<1> QED
  BY <1>1, <1>3, <1>4

\* A lost connection or a stop: everything queued is told "unsent", truthfully.
LEMMA RejectImplements ==
  ASSUME TypeOK, Placed, RejectQueued, sent' = sent
  PROVE  Contract!TransportNext
<1> SUFFICES ASSUME NEW ops, ops = {op \in Ops : Contains(queue[DeviceOf(op)], op)}
             PROVE  Contract!TransportNext
  OBVIOUS
<1>1. ASSUME NEW op \in ops
      PROVE  outcome[op] = "none" /\ Sent(op) = {}
  <2>1. DeviceOf(op) \in Devices
    BY TransportConstants DEF DeviceOf
  <2>2. PICK i \in 1 .. Len(queue[DeviceOf(op)]) : queue[DeviceOf(op)][i] = op
    BY <1>1 DEF Contains
  <2>3. QueueHolds(DeviceOf(op), i)
    BY <2>1, <2>2 DEF Placed, QueuesHold
  <2> QED
    BY <2>2, <2>3 DEF QueueHolds, Fresh
<1>2. outcome' = [op \in Ops |-> IF op \in ops THEN "unsent" ELSE outcome[op]]
  BY DEF RejectQueued
<1> QED
  BY <1>1, <1>2, RefuseStep

\* A call that finds no connection is told so, and was never published.
LEMMA RefusalImplements ==
  ASSUME TypeOK, Placed, NEW op \in Ops, Execute(op), ~(life = "started" /\ ready)
  PROVE  Contract!TransportNext
<1>1. /\ outcome' = [outcome EXCEPT ![op] = "unsent"] /\ sent' = sent
      /\ outcome[op] = "none" /\ ~Contains(accepted, op)
  BY DEF Execute
<1>2. Sent(op) = {}
  BY <1>1 DEF Sent, Placed, SentHold, Accounted
<1>3. outcome' = [o \in Ops |-> IF o \in {op} THEN "unsent" ELSE outcome[o]]
  BY <1>1 DEF TypeOK
<1> QED
  BY <1>1, <1>2, <1>3, RefuseStep

\* LegacyMqttTransport keeps the promises that device operations rely on: one
\* outstanding command per device, none published twice, and none reported
\* unsent that was published, for any number of devices, lanes and connections.
THEOREM TransportKeepsContract == Spec => KeepsContract
<1> DEFINE I == TypeOK /\ Placed
<1>1. Init => I /\ Contract!TransportInit
  <2> SUFFICES ASSUME Init PROVE I /\ Contract!TransportInit
    OBVIOUS
  <2>1. \A d \in Devices : ~Active(d) /\ Len(queue[d]) = 0
    BY EmptySeq DEF Init, Active, NoLane
  <2>2. Placed
    BY <2>1 DEF Init, Placed, QueuesHold, LanesHold, SentHold
  <2>3. \A op : {m \in sent : m.op = op} = {}
    BY DEF Init
  <2>4. Contract!TransportInit
    BY <2>3, FS_EmptySet DEF Init, Contract!TransportInit
  <2> QED
    BY <2>2, <2>4, TransportTypesInit
<1>2. I /\ [Next]_vars => I'
  BY TypeStep, PlacedStep
<1>3. I /\ [Next]_vars => [Contract!TransportNext]_(Contract!transportVars)
  <2> SUFFICES ASSUME TypeOK, Placed, [Next]_vars
               PROVE  Contract!TransportNext \/ UNCHANGED Contract!transportVars
    OBVIOUS
  <2>1. UNCHANGED <<sent, outcome>> => UNCHANGED Contract!transportVars
    BY DEF Contract!transportVars
  <2>2. ASSUME NEW op \in Ops, Execute(op)
        PROVE  Contract!TransportNext \/ UNCHANGED Contract!transportVars
    <3>1. life = "started" /\ ready => UNCHANGED <<sent, outcome>>
      BY <2>2 DEF Execute
    <3> QED
      BY <2>1, <2>2, <3>1, RefusalImplements
  <2>3. CASE PumpRound
    BY <2>1, <2>3, PumpRoundStarts
  <2>4. ASSUME NEW d \in Devices, FinishLane(d) \/ GrantLane(d) \/ WireStep(d)
        PROVE  Contract!TransportNext \/ UNCHANGED Contract!transportVars
    BY <2>1, <2>4, FinishImplements, GrantImplements, WireStepProgresses
  <2>5. CASE Resumes
    BY <2>1, <2>5 DEF Resumes, Start, Connected, history
  <2>6. CASE Rejects
    BY <2>6, RejectImplements DEF Rejects, Stop, Disconnected, Connected, history
  <2>7. CASE Aside
    BY <2>1, <2>7, AsideIsFrame
  <2> QED
    BY <2>2, <2>3, <2>4, <2>5, <2>6, <2>7, NextCases
<1> QED
  BY <1>1, <1>2, <1>3, PTL DEF Spec, KeepsContract, Contract!TransportSpec
-----------------------------------------------------------------------------
(* No work is forgotten. *)

\* A rotation names a device once, and names those that have work of its
\* priority and no lane.
NoRepeat(s) == \A i, j \in 1 .. Len(s) : s[i] = s[j] => i = j

InRotation ==
    \A p \in Priorities :
        /\ NoRepeat(runnable[p])
        /\ \A d \in Devices : Contains(runnable[p], d) <=> Queued(d, p)

Busy == {d \in Devices : Active(d)}
LanesBounded == IsFiniteSet(Busy) /\ LaneCount <= MaxLanes

\* What the pump leaves when it has run.
Pumped ==
    ready /\ discovery = "none" /\ ~pumping =>
        LaneCount = MaxLanes \/ \A d \in Devices : Active(d) \/ queue[d] = <<>>

\* A connection that is being made, or is made, belongs to a transport that runs.
ConnectedWhileStarted ==
    ready \/ connect \in {"subscribing", "publishing"} => life = "started"

NoneForgotten == InRotation /\ LanesBounded /\ Pumped /\ ConnectedWhileStarted

LanesStay == \A d \in Devices : Active(d)' <=> Active(d)

\* The place behind a removed element, counted from that element on.
LEMMA ShiftedIndex ==
  ASSUME NEW n \in Nat, NEW k \in 1 .. n, NEW i \in 1 .. n - 1, i >= k
  PROVE  i - (k - 1) \in 1 .. n - k /\ k + (i - (k - 1)) = i + 1
OBVIOUS

\* A rotation without one of its devices.
LEMMA RemovedFromRotation ==
  ASSUME NEW s \in Seq(Devices), NoRepeat(s), NEW d
  PROVE  /\ NoRepeat(Removed(s, d))
         /\ \A e : Contains(Removed(s, d), e) <=> Contains(s, e) /\ e # d
<1>1. CASE ~Contains(s, d)
  BY <1>1 DEF Removed
<1>2. CASE Contains(s, d)
  <2> DEFINE k == CHOOSE i \in DOMAIN s : s[i] = d
             front == SubSeq(s, 1, k - 1)
             back == SubSeq(s, k + 1, Len(s))
             r == front \o back
  <2>1. k \in 1 .. Len(s) /\ s[k] = d
    BY <1>2 DEF Contains
  <2>2. Removed(s, d) = r
    BY <1>2 DEF Removed, RemoveAt
  <2> HIDE DEF k
  <2>3. Len(s) \in Nat /\ k \in Int /\ \A i \in 1 .. Len(s) : s[i] \in Devices
    BY <2>1, LenProperties
  <2>4. /\ front \in Seq(Devices) /\ Len(front) = k - 1
        /\ \A i \in 1 .. k - 1 : front[i] = s[i]
    <3>1. \A i \in 1 .. k - 1 : s[i] \in Devices
      BY <2>1, <2>3
    <3>2. /\ front \in Seq(Devices) /\ Len(front) = IF 1 <= k - 1 THEN k - 1 - 1 + 1 ELSE 0
          /\ \A i \in 1 .. k - 1 - 1 + 1 : front[i] = s[1 + i - 1]
      BY <2>3, <3>1, SubSeqProperties
    <3>3. QED
      BY <2>1, <2>3, <3>2
  <2>5. /\ back \in Seq(Devices) /\ Len(back) = Len(s) - k
        /\ \A i \in 1 .. Len(s) - k : back[i] = s[k + i]
    <3>1. \A i \in k + 1 .. Len(s) : s[i] \in Devices
      BY <2>1, <2>3
    <3>2. /\ back \in Seq(Devices)
          /\ Len(back) = IF k + 1 <= Len(s) THEN Len(s) - (k + 1) + 1 ELSE 0
          /\ \A i \in 1 .. Len(s) - (k + 1) + 1 : back[i] = s[k + 1 + i - 1]
      BY <2>3, <3>1, SubSeqProperties
    <3>3. QED
      BY <2>1, <2>3, <3>2
  <2> HIDE DEF front, back
  <2>6. /\ Len(r) = Len(s) - 1
        /\ \A i \in 1 .. Len(s) - 1 : r[i] = IF i < k THEN s[i] ELSE s[i + 1]
    <3>1. /\ Len(r) = Len(front) + Len(back)
          /\ \A i \in 1 .. Len(front) + Len(back) :
                r[i] = IF i <= Len(front) THEN front[i] ELSE back[i - Len(front)]
      BY <2>4, <2>5, ConcatProperties
    <3>2. Len(r) = Len(s) - 1
      BY <2>1, <2>3, <2>4, <2>5, <3>1
    <3>3. ASSUME NEW i \in 1 .. Len(s) - 1 PROVE r[i] = IF i < k THEN s[i] ELSE s[i + 1]
      <4>1. r[i] = IF i <= k - 1 THEN front[i] ELSE back[i - (k - 1)]
        BY <2>1, <2>3, <2>4, <2>5, <3>1
      <4>2. CASE i < k
        BY <2>3, <2>4, <4>1, <4>2
      <4>3. CASE i >= k
        <5>1. i - (k - 1) \in 1 .. Len(s) - k /\ k + (i - (k - 1)) = i + 1
          BY <2>1, <2>3, <4>3, ShiftedIndex
        <5>2. back[i - (k - 1)] = s[i + 1]
          BY <2>5, <5>1
        <5>3. QED
          BY <2>3, <4>1, <4>3, <5>2
      <4>4. i < k \/ i >= k
        BY <2>3
      <4>5. QED
        BY <4>2, <4>3, <4>4, Zenon
    <3>4. QED
      BY <3>2, <3>3
  <2> HIDE DEF r
  <2>7. NoRepeat(r)
    BY <2>1, <2>3, <2>6 DEF NoRepeat
  <2>8. ASSUME NEW e, Contains(r, e) PROVE Contains(s, e) /\ e # d
    <3>1. PICK i \in 1 .. Len(s) - 1 : r[i] = e
      BY <2>6, <2>8 DEF Contains
    <3>2. PICK j \in 1 .. Len(s) : s[j] = e /\ j # k
      BY <2>1, <2>3, <2>6, <3>1
    <3>3. QED
      BY <2>1, <3>2 DEF Contains, NoRepeat
  <2>9. ASSUME NEW e, Contains(s, e), e # d PROVE Contains(r, e)
    <3>1. PICK j \in 1 .. Len(s) : s[j] = e
      BY <2>9 DEF Contains
    <3>2. j # k
      BY <2>1, <2>9, <3>1
    <3>3. PICK i \in 1 .. Len(s) - 1 : i = IF j < k THEN j ELSE j - 1
      BY <2>1, <2>3, <3>2
    <3>4. r[i] = e
      BY <2>1, <2>3, <2>6, <3>1, <3>2, <3>3
    <3>5. QED
      BY <2>6, <3>4 DEF Contains
  <2>10. QED
    BY <2>2, <2>7, <2>8, <2>9
<1>3. QED
  BY <1>1, <1>2

\* A rotation with one more device.
LEMMA AppendedToRotation ==
  ASSUME NEW s \in Seq(Devices), NoRepeat(s), NEW d \in Devices, ~Contains(s, d)
  PROVE  /\ NoRepeat(Append(s, d))
         /\ \A e : Contains(Append(s, d), e) <=> Contains(s, e) \/ e = d
<1>1. /\ Len(s) \in Nat /\ Len(Append(s, d)) = Len(s) + 1
      /\ \A i \in 1 .. Len(s) : Append(s, d)[i] = s[i]
      /\ Append(s, d)[Len(s) + 1] = d
  BY AppendProperties, LenProperties
<1>2. \A i \in 1 .. Len(s) : s[i] # d
  BY DEF Contains
<1>3. NoRepeat(Append(s, d))
  BY <1>1, <1>2 DEF NoRepeat
<1>4. \A e : Contains(Append(s, d), e) <=> Contains(s, e) \/ e = d
  BY <1>1 DEF Contains
<1>5. QED
  BY <1>3, <1>4

\* A rotation whose first device is taken.
LEMMA TailOfRotation ==
  ASSUME NEW s \in Seq(Devices), NoRepeat(s), s # <<>>
  PROVE  /\ NoRepeat(Tail(s)) /\ Contains(s, Head(s))
         /\ \A e : Contains(Tail(s), e) <=> Contains(s, e) /\ e # Head(s)
<1>1. /\ Len(s) \in Nat \ {0} /\ Len(Tail(s)) = Len(s) - 1
      /\ \A i \in 1 .. Len(s) - 1 : Tail(s)[i] = s[i + 1]
      /\ Head(s) = s[1]
  BY EmptySeq, HeadTailProperties
<1>2. NoRepeat(Tail(s))
  BY <1>1 DEF NoRepeat
<1>3. Contains(s, Head(s))
  BY <1>1 DEF Contains
<1>4. ASSUME NEW e, Contains(Tail(s), e) PROVE Contains(s, e) /\ e # Head(s)
  <2>1. PICK i \in 1 .. Len(s) - 1 : s[i + 1] = e
    BY <1>1, <1>4 DEF Contains
  <2>2. i + 1 \in 1 .. Len(s) /\ i + 1 # 1 /\ 1 \in 1 .. Len(s)
    BY <1>1
  <2>3. QED
    BY <1>1, <2>1, <2>2 DEF Contains, NoRepeat
<1>5. ASSUME NEW e, Contains(s, e), e # Head(s) PROVE Contains(Tail(s), e)
  <2>1. PICK j \in 1 .. Len(s) : s[j] = e
    BY <1>5 DEF Contains
  <2>2. j - 1 \in 1 .. Len(s) - 1 /\ (j - 1) + 1 = j
    BY <1>1, <1>5, <2>1
  <2>3. Tail(s)[j - 1] = e
    BY <1>1, <2>1, <2>2
  <2>4. QED
    BY <1>1, <2>2, <2>3 DEF Contains
<1>6. QED
  BY <1>2, <1>3, <1>4, <1>5

\* scheduleRunnableDevice: into the rotation of the call at the head, out of
\* the other one.
LEMMA ScheduledRotates ==
  ASSUME TypeOK, InRotation, NEW d \in Devices, NEW q
  PROVE  \A p \in Priorities :
            /\ NoRepeat(Scheduled(d, q)[p])
            /\ \A e \in Devices : Contains(Scheduled(d, q)[p], e) <=>
                  IF e = d THEN PriorityOf(Head(q)) = p ELSE Contains(runnable[p], e)
<1> SUFFICES ASSUME NEW p \in Priorities
             PROVE  /\ NoRepeat(Scheduled(d, q)[p])
                    /\ \A e \in Devices : Contains(Scheduled(d, q)[p], e) <=>
                          IF e = d THEN PriorityOf(Head(q)) = p ELSE Contains(runnable[p], e)
  OBVIOUS
<1>1. runnable[p] \in Seq(Devices) /\ NoRepeat(runnable[p])
  BY DEF TypeOK, InRotation
<1>2. CASE PriorityOf(Head(q)) # p
  <2>1. Scheduled(d, q)[p] = Removed(runnable[p], d)
    BY <1>2 DEF Scheduled
  <2>2. QED
    BY <1>1, <1>2, <2>1, RemovedFromRotation
<1>3. CASE PriorityOf(Head(q)) = p /\ Contains(runnable[p], d)
  <2>1. Scheduled(d, q)[p] = runnable[p]
    BY <1>3 DEF Scheduled
  <2>2. QED
    BY <1>1, <1>3, <2>1
<1>4. CASE PriorityOf(Head(q)) = p /\ ~Contains(runnable[p], d)
  <2>1. Scheduled(d, q)[p] = Append(runnable[p], d)
    BY <1>4 DEF Scheduled
  <2>2. QED
    BY <1>1, <1>4, <2>1, AppendedToRotation
<1>5. QED
  BY <1>2, <1>3, <1>4

\* The lanes that run stay, and no others start.
LEMMA SameLanes ==
  ASSUME LanesStay, LanesBounded
  PROVE  LanesBounded' /\ LaneCount' = LaneCount
<1>1. Busy' = Busy
  BY DEF LanesStay, Busy
<1>2. QED
  BY <1>1 DEF LanesBounded, LaneCount, Busy

\* A step that leaves lanes, queues and rotations.
LEMMA RotationByFrame ==
  ASSUME InRotation, LanesStay, UNCHANGED <<queue, runnable>>
  PROVE  InRotation'
<1>1. \A d \in Devices, p \in Priorities : Queued(d, p)' <=> Queued(d, p)
  BY DEF LanesStay, Queued
<1>2. QED
  BY <1>1 DEF InRotation, NoRepeat, Contains

\* After rejectQueued nothing waits.
LEMMA RotationEmptied ==
  ASSUME RejectQueued
  PROVE  InRotation'
<1>1. \A p \in Priorities : runnable'[p] = <<>>
  BY DEF RejectQueued
<1>2. \A d \in Devices : queue'[d] = <<>>
  BY DEF RejectQueued
<1>3. Len(<<>>) = 0
  BY EmptySeq
<1>4. \A p \in Priorities : NoRepeat(runnable'[p]) /\ \A d \in Devices : ~Contains(runnable'[p], d)
  BY <1>1, <1>3 DEF NoRepeat, Contains
<1>5. QED
  BY <1>2, <1>4 DEF InRotation, Queued, NoRepeat, Contains

\* Who keeps a lane.
LEMMA LanesStayed ==
  ASSUME TypeOK,
         \/ lane' = lane
         \/ \E d \in Devices : GrantLane(d) \/ WireStep(d)
         \/ Rotate
  PROVE  LanesStay
<1>1. CASE lane' = lane
  BY <1>1 DEF LanesStay, Active
<1>2. ASSUME NEW d \in Devices, GrantLane(d) PROVE LanesStay
  <2>1. lane[d].pc = "lock" /\ Active(d)
    BY <1>2 DEF GrantLane, Active
  <2>2. lane[d] \in Lane
    BY <2>1, LaneIsTyped
  <2>3. lane'[d].pc \in {"publishing", "settled"}
    BY <1>2, <2>2 DEF GrantLane, TypeOK, Lane
  <2>4. \A e \in Devices : e # d => lane'[e] = lane[e]
    BY <1>2 DEF GrantLane, TypeOK
  <2>5. QED
    BY <2>1, <2>3, <2>4 DEF LanesStay, Active
<1>3. ASSUME \A d \in Devices : lane'[d] = lane[d] \/ Progressed(d) PROVE LanesStay
  BY <1>3 DEF LanesStay, Progressed, Active, OnWire
<1>4. QED
  BY <1>1, <1>2, <1>3, WireStepProgresses, RotateProgresses

\* A new call finds its device in the rotation, or puts it there.
LEMMA ExecuteForgetsNone ==
  ASSUME TypeOK, NoneForgotten, NEW op \in Ops, Execute(op)
  PROVE  NoneForgotten'
<1>1. LanesStay
  BY LanesStayed DEF Execute
<1>2. LanesBounded'
  BY <1>1, SameLanes DEF NoneForgotten
<1>3. ConnectedWhileStarted'
  BY DEF Execute, NoneForgotten, ConnectedWhileStarted
<1>4. CASE life = "started" /\ ready
  <2> DEFINE d == DeviceOf(op)
             q == Enqueued(queue[d], op)
  <2>1. d \in Devices /\ queue[d] \in Seq(Ops)
    BY TransportConstants DEF DeviceOf, TypeOK
  <2>2. /\ queue' = [queue EXCEPT ![d] = q]
        /\ runnable' = IF Active(d) THEN runnable ELSE Scheduled(d, q)
        /\ pumping' = TRUE
    BY <1>4 DEF Execute
  <2>3. q # <<>>
    BY <2>1, AppendProperties DEF Enqueued
  <2> HIDE DEF d, q
  <2>4. /\ \A e \in Devices : e # d => queue'[e] = queue[e]
        /\ queue'[d] = q
    BY <2>1, <2>2 DEF TypeOK
  <2>5. \A e \in Devices, p \in Priorities :
          Queued(e, p)' <=> IF e = d THEN ~Active(d) /\ PriorityOf(Head(q)) = p ELSE Queued(e, p)
    BY <1>1, <2>3, <2>4 DEF LanesStay, Queued, PriorityOf
  <2>6. CASE Active(d)
    <3>1. \A e \in Devices, p \in Priorities : Queued(e, p)' <=> Queued(e, p)
      BY <2>5, <2>6 DEF Queued
    <3>2. runnable' = runnable
      BY <2>2, <2>6
    <3>3. InRotation'
      BY <3>1, <3>2 DEF InRotation, NoneForgotten, NoRepeat, Contains
    <3>4. QED
      BY <1>2, <1>3, <2>2, <3>3 DEF NoneForgotten, Pumped
  <2>7. CASE ~Active(d)
    <3>1. runnable' = Scheduled(d, q)
      BY <2>2, <2>7
    <3>2. \A p \in Priorities :
            /\ NoRepeat(runnable'[p])
            /\ \A e \in Devices : Contains(runnable'[p], e) <=>
                  IF e = d THEN PriorityOf(Head(q)) = p ELSE Contains(runnable[p], e)
      BY <2>1, <3>1, ScheduledRotates DEF NoneForgotten
    <3>3. \A p \in Priorities, e \in Devices : Contains(runnable'[p], e) <=> Queued(e, p)'
      BY <2>5, <2>7, <3>2 DEF NoneForgotten, InRotation
    <3>4. InRotation'
      BY <3>2, <3>3 DEF InRotation, NoRepeat, Contains
    <3>5. QED
      BY <1>2, <1>3, <2>2, <3>4 DEF NoneForgotten, Pumped
  <2>8. QED
    BY <2>6, <2>7
<1>5. CASE ~(life = "started" /\ ready)
  <2>1. UNCHANGED <<queue, runnable, pumping, ready, discovery>>
    BY <1>5 DEF Execute, scheduling
  <2>2. InRotation'
    BY <1>1, <2>1, RotationByFrame DEF NoneForgotten
  <2>3. Pumped'
    BY <1>1, <2>1, SameLanes DEF NoneForgotten, Pumped, LanesStay
  <2>4. QED
    BY <1>2, <1>3, <2>2, <2>3 DEF NoneForgotten
<1>6. QED
  BY <1>4, <1>5

\* The device whose turn it is gets a lane, and leaves the rotation.
LEMMA PumpRoundForgetsNone ==
  ASSUME TypeOK, NoneForgotten, PumpRound
  PROVE  NoneForgotten'
<1> DEFINE n == NextPriority
           d == Head(runnable[n])
<1>1. n \in Priorities /\ runnable[n] # <<>> /\ runnable[n] \in Seq(Devices)
  BY DEF PumpRound, NextPriority, Waiting, Priorities, TypeOK
<1>2. d \in Devices
  BY <1>1, HeadTailProperties
<1>3. /\ runnable' = [runnable EXCEPT ![n] = Tail(runnable[n])]
      /\ LaneCount < MaxLanes
      /\ Active(d) \/ queue[d] = <<>> \/ StartLane(d)
      /\ UNCHANGED <<life, ready, discovery, connect, pumping>> /\ pumping
  BY DEF PumpRound, MayStart
<1> HIDE DEF n, d
<1>4. NoRepeat(runnable[n]) /\ Contains(runnable[n], d)
  BY <1>1, TailOfRotation DEF NoneForgotten, InRotation, d
<1>5. Queued(d, n)
  BY <1>1, <1>2, <1>4 DEF NoneForgotten, InRotation
<1>6. ~Active(d) /\ StartLane(d)
  BY <1>3, <1>5 DEF Queued
<1>7. /\ \A e \in Devices : e # d => lane'[e] = lane[e] /\ queue'[e] = queue[e]
      /\ lane'[d].pc = "lock"
  BY <1>2, <1>6 DEF StartLane, TypeOK
<1>8. \A e \in Devices : Active(e)' <=> Active(e) \/ e = d
  BY <1>7 DEF Active
<1>9. LanesBounded'
  <2>1. Busy' = Busy \cup {d} /\ d \notin Busy
    BY <1>2, <1>6, <1>8 DEF Busy
  <2>2. IsFiniteSet(Busy) /\ Cardinality(Busy) = LaneCount /\ LaneCount \in Nat
    BY FS_CardinalityType DEF NoneForgotten, LanesBounded, Busy, LaneCount
  <2>3. IsFiniteSet(Busy') /\ Cardinality(Busy') = LaneCount + 1
    BY <2>1, <2>2, FS_AddElement
  <2>4. LaneCount' = LaneCount + 1
    BY <2>3 DEF LaneCount, Busy
  <2>5. QED
    BY <1>3, <2>2, <2>3, <2>4, TransportConstants DEF LanesBounded
<1>10. InRotation'
  <2>1. \A e \in Devices, p \in Priorities : Queued(e, p)' <=> Queued(e, p) /\ e # d
    BY <1>7, <1>8 DEF Queued
  <2>2. \A p \in Priorities : p # n => runnable'[p] = runnable[p]
    BY <1>3 DEF TypeOK
  <2>3. \A p \in Priorities : p # n => ~Queued(d, p)
    BY <1>5 DEF Queued
  <2>4. runnable'[n] = Tail(runnable[n])
    BY <1>1, <1>3 DEF TypeOK
  <2>5. /\ NoRepeat(runnable'[n])
        /\ \A e : Contains(runnable'[n], e) <=> Contains(runnable[n], e) /\ e # d
    BY <1>1, <1>4, <2>4, TailOfRotation DEF d
  <2>6. ASSUME NEW p \in Priorities
        PROVE  NoRepeat(runnable'[p]) /\ \A e \in Devices : Contains(runnable'[p], e) <=> Queued(e, p)'
    <3>1. CASE p = n
      BY <1>1, <2>1, <2>5, <3>1 DEF NoneForgotten, InRotation
    <3>2. CASE p # n
      BY <2>1, <2>2, <2>3, <3>2 DEF NoneForgotten, InRotation
    <3>3. QED
      BY <3>1, <3>2
  <2>7. QED
    BY <2>6 DEF InRotation, NoRepeat, Contains
<1>11. QED
  BY <1>3, <1>9, <1>10 DEF NoneForgotten, Pumped, ConnectedWhileStarted

\* A lane that ends gives its device back to a rotation, if it has more to do.
LEMMA FinishForgetsNone ==
  ASSUME TypeOK, NoneForgotten, NEW d \in Devices, FinishLane(d)
  PROVE  NoneForgotten'
<1>1. /\ Active(d) /\ queue' = queue /\ runnable' = Rescheduled(d) /\ pumping' = TRUE
      /\ UNCHANGED <<life, ready, connect>>
      /\ lane' = [lane EXCEPT ![d] = NoLane]
  BY DEF FinishLane, Active
<1>2. \A e \in Devices : Active(e)' <=> Active(e) /\ e # d
  BY <1>1 DEF Active, NoLane, TypeOK
<1>3. LanesBounded'
  <2>1. Busy' = Busy \ {d} /\ d \in Busy
    BY <1>1, <1>2 DEF Busy
  <2>2. IsFiniteSet(Busy) /\ Cardinality(Busy) = LaneCount /\ LaneCount \in Nat
    BY FS_CardinalityType DEF NoneForgotten, LanesBounded, Busy, LaneCount
  <2>3. IsFiniteSet(Busy') /\ Cardinality(Busy') = LaneCount - 1
    BY <2>1, <2>2, FS_RemoveElement
  <2>4. LaneCount' = LaneCount - 1
    BY <2>3 DEF LaneCount, Busy
  <2>5. LaneCount <= MaxLanes /\ MaxLanes \in Nat
    BY TransportConstants DEF NoneForgotten, LanesBounded
  <2>6. QED
    BY <2>2, <2>3, <2>4, <2>5 DEF LanesBounded
<1>4. \A p \in Priorities : ~Queued(d, p)
  BY <1>1 DEF Queued
<1>5. \A e \in Devices, p \in Priorities :
        Queued(e, p)' <=> IF e = d THEN queue[d] # <<>> /\ PriorityOf(Head(queue[d])) = p
                          ELSE Queued(e, p)
  BY <1>1, <1>2 DEF Queued, PriorityOf
<1>6. CASE queue[d] = <<>>
  <2>1. runnable' = runnable
    BY <1>1, <1>6 DEF Rescheduled
  <2>2. \A e \in Devices, p \in Priorities : Queued(e, p)' <=> Queued(e, p)
    BY <1>4, <1>5, <1>6
  <2>3. InRotation'
    BY <2>1, <2>2 DEF InRotation, NoneForgotten, NoRepeat, Contains
  <2>4. QED
    BY <1>1, <1>3, <2>3 DEF NoneForgotten, Pumped, ConnectedWhileStarted
<1>7. CASE queue[d] # <<>>
  <2>1. runnable' = Scheduled(d, queue[d])
    BY <1>1, <1>7 DEF Rescheduled
  <2>2. \A p \in Priorities :
          /\ NoRepeat(runnable'[p])
          /\ \A e \in Devices : Contains(runnable'[p], e) <=>
                IF e = d THEN PriorityOf(Head(queue[d])) = p ELSE Contains(runnable[p], e)
    BY <2>1, ScheduledRotates DEF NoneForgotten
  <2>3. \A p \in Priorities, e \in Devices : Contains(runnable'[p], e) <=> Queued(e, p)'
    BY <1>5, <1>7, <2>2 DEF NoneForgotten, InRotation
  <2>4. InRotation'
    BY <2>2, <2>3 DEF InRotation, NoRepeat, Contains
  <2>5. QED
    BY <1>1, <1>3, <2>4 DEF NoneForgotten, Pumped, ConnectedWhileStarted
<1>8. QED
  BY <1>6, <1>7

\* The pump ends when every lane is taken or nothing waits.
LEMMA PumpEndForgetsNone ==
  ASSUME TypeOK, NoneForgotten, PumpEnds
  PROVE  Pumped'
<1> SUFFICES ASSUME ready', discovery' = "none", LaneCount' # MaxLanes, NEW d \in Devices,
                    ~Active(d)'
             PROVE  queue'[d] = <<>>
  BY DEF Pumped
<1>1. UNCHANGED <<life, ready, discovery, queue, runnable, lane>>
  BY DEF PumpEnds
<1>2. LaneCount' = LaneCount /\ (Active(d)' <=> Active(d))
  BY <1>1 DEF LaneCount, Active
<1>3. LaneCount < MaxLanes
  <2>1. LaneCount \in Nat /\ LaneCount <= MaxLanes /\ MaxLanes \in Nat
    BY TransportConstants, FS_CardinalityType DEF NoneForgotten, LanesBounded, Busy, LaneCount
  <2>2. QED
    BY <1>2, <2>1
<1>4. MayStart
  BY <1>1, <1>3 DEF MayStart, NoneForgotten, ConnectedWhileStarted
<1>5. Waiting = {}
  BY <1>4 DEF PumpEnds
<1>6. SUFFICES ASSUME queue[d] # <<>> PROVE FALSE
  BY <1>1
<1>7. PriorityOf(Head(queue[d])) \in Priorities
  <2>1. Head(queue[d]) \in Ops
    BY <1>6, HeadTailProperties DEF TypeOK
  <2>2. QED
    BY <2>1, TransportConstants DEF PriorityOf
<1>8. Queued(d, PriorityOf(Head(queue[d])))
  BY <1>2, <1>6 DEF Queued
<1>9. Contains(runnable[PriorityOf(Head(queue[d]))], d)
  BY <1>7, <1>8 DEF NoneForgotten, InRotation
<1>10. runnable[PriorityOf(Head(queue[d]))] = <<>>
  BY <1>5, <1>7 DEF Waiting
<1>11. QED
  BY <1>9, <1>10, EmptySeq DEF Contains

\* The steps that are not about calls find the pump at rest or wake it.
LEMMA AsideForgetsNone ==
  ASSUME TypeOK, NoneForgotten, Aside
  PROVE  NoneForgotten'
<1>1. LanesStay /\ queue' = queue
  BY AsideIsFrame, LanesStayed
<1>2. runnable' = runnable
  BY DEF Aside, PumpEnds, GrantConnect, GrantDiscovery, Subscribed, ConnectFails,
         BecomesReady, ConnectOver, RequestDiscovery, EndDiscovery, scheduling, vars
<1>3. InRotation' /\ LanesBounded' /\ LaneCount' = LaneCount
  BY <1>1, <1>2, RotationByFrame, SameLanes DEF NoneForgotten
<1>4. ASSUME UNCHANGED <<ready, discovery, pumping>> PROVE Pumped'
  BY <1>1, <1>3, <1>4 DEF NoneForgotten, Pumped, LanesStay
<1>5. Pumped'
  <2>1. CASE PumpEnds
    BY <2>1, PumpEndForgetsNone
  <2>2. CASE GrantConnect \/ Subscribed \/ ConnectOver \/ UNCHANGED vars
    BY <1>4, <2>2 DEF GrantConnect, Subscribed, ConnectOver, scheduling, vars
  <2>3. CASE GrantDiscovery \/ RequestDiscovery
    BY <2>3 DEF GrantDiscovery, RequestDiscovery, Pumped
  <2>4. CASE ConnectFails \/ BecomesReady \/ EndDiscovery
    BY <2>4 DEF ConnectFails, BecomesReady, EndDiscovery, Pumped
  <2>5. QED
    BY <2>1, <2>2, <2>3, <2>4 DEF Aside
<1>6. ConnectedWhileStarted'
  <2>0. ConnectedWhileStarted
    BY DEF NoneForgotten
  <2>1. CASE GrantConnect
    BY <2>0, <2>1 DEF GrantConnect, Valid, Current, ConnectedWhileStarted
  <2>2. CASE Subscribed \/ ConnectFails \/ ConnectOver
    BY <2>0, <2>2 DEF Subscribed, ConnectFails, ConnectOver, ConnectedWhileStarted
  <2>3. CASE BecomesReady
    BY <2>0, <2>3 DEF BecomesReady, ConnectedWhileStarted
  <2>4. CASE PumpEnds \/ GrantDiscovery \/ RequestDiscovery \/ EndDiscovery \/ UNCHANGED vars
    BY <2>0, <2>4 DEF PumpEnds, GrantDiscovery, RequestDiscovery, EndDiscovery,
                      ConnectedWhileStarted, vars
  <2>5. QED
    BY <2>1, <2>2, <2>3, <2>4 DEF Aside
<1>7. QED
  BY <1>3, <1>5, <1>6 DEF NoneForgotten

\* Every step keeps the rotations and wakes the pump where it must.
LEMMA NoneForgottenStep ==
  ASSUME TypeOK, NoneForgotten, [Next]_vars
  PROVE  NoneForgotten'
<1>1. ASSUME NEW d \in Devices, GrantLane(d) \/ WireStep(d) PROVE NoneForgotten'
  <2>1. LanesStay
    BY <1>1, LanesStayed
  <2>2. UNCHANGED <<queue, runnable, pumping, ready, discovery, connect, life>>
    BY <1>1 DEF GrantLane, WireStep, LanePublished, LanePublishFails, Timeout, Respond, scheduling
  <2>3. InRotation' /\ LanesBounded' /\ LaneCount' = LaneCount
    BY <2>1, <2>2, RotationByFrame, SameLanes DEF NoneForgotten
  <2>4. QED
    BY <2>1, <2>2, <2>3 DEF NoneForgotten, Pumped, ConnectedWhileStarted, LanesStay
<1>2. CASE Resumes
  <2>1. Rotate /\ UNCHANGED <<queue, runnable>> /\ ready' = FALSE /\ life' = "started"
    BY <1>2 DEF Resumes, Start, Connected, scheduling
  <2>2. LanesStay
    BY <2>1, LanesStayed
  <2>3. QED
    BY <2>1, <2>2, RotationByFrame, SameLanes
       DEF NoneForgotten, Pumped, ConnectedWhileStarted
<1>3. CASE Rejects
  <2>1. /\ Rotate /\ RejectQueued /\ ready' = FALSE
        /\ connect' = Abandoned \/ life' = "started"
    BY <1>3 DEF Rejects, Stop, Disconnected, Connected
  <2>2. LanesStay
    BY <2>1, LanesStayed
  <2>3. connect' \notin {"subscribing", "publishing"} \/ life' = "started"
    BY <2>1 DEF Abandoned
  <2>4. QED
    BY <2>1, <2>2, <2>3, RotationEmptied, SameLanes
       DEF NoneForgotten, Pumped, ConnectedWhileStarted
<1>4. QED
  BY <1>1, <1>2, <1>3, NextCases, ExecuteForgetsNone, PumpRoundForgetsNone,
     FinishForgetsNone, AsideForgetsNone

\* Each device that waits is in its rotation once.
LEMMA RotationCounts ==
  ASSUME TypeOK, InRotation, NEW d \in Devices, NEW p \in Priorities
  PROVE  Cardinality(Places(d, p)) = IF Queued(d, p) THEN 1 ELSE 0
<1>1. runnable[p] \in Seq(Devices) /\ DOMAIN runnable[p] = 1 .. Len(runnable[p])
  BY LenProperties DEF TypeOK
<1>2. CASE Queued(d, p)
  <2>1. PICK i \in 1 .. Len(runnable[p]) : runnable[p][i] = d
    BY <1>2 DEF InRotation, Contains
  <2>2. Places(d, p) = {i}
    BY <1>1, <2>1 DEF Places, InRotation, NoRepeat
  <2>3. Cardinality({i}) = 1
    BY FS_Singleton
  <2>4. QED
    BY <1>2, <2>2, <2>3
<1>3. CASE ~Queued(d, p)
  <2>1. Places(d, p) = {}
    BY <1>1, <1>3 DEF Places, InRotation, Contains
  <2>2. QED
    BY <1>3, <2>1, FS_EmptySet
<1>4. QED
  BY <1>2, <1>3

(* Whatever connects, disconnects, answers or times out: a device that has *)
(* work and no lane is once in the rotation of its next command, and a     *)
(* transport that is ready leaves no work beside a free lane.              *)
THEOREM TransportForgetsNoWork == Spec => []NoWorkIsForgotten
<1>1. Init => NoneForgotten
  <2>1. SUFFICES ASSUME Init PROVE NoneForgotten
    OBVIOUS
  <2>2. Busy = {}
    BY <2>1 DEF Init, Busy, Active, NoLane
  <2>3. LanesBounded
    BY <2>2, FS_EmptySet, TransportConstants DEF LanesBounded, LaneCount, Busy
  <2>4. InRotation
    BY <2>1, EmptySeq DEF Init, InRotation, Queued, NoRepeat, Contains
  <2>5. QED
    BY <2>1, <2>3, <2>4 DEF NoneForgotten, Pumped, ConnectedWhileStarted, Init
<1>2. TypeOK /\ NoneForgotten /\ [Next]_vars => NoneForgotten'
  BY NoneForgottenStep
<1>3. TypeOK /\ NoneForgotten => NoWorkIsForgotten
  BY RotationCounts DEF NoneForgotten, NoWorkIsForgotten, Pumped
<1>4. QED
  BY <1>1, <1>2, <1>3, TransportTypes, PTL DEF Spec
=============================================================================
