--------------------------- MODULE StateEventStream ---------------------------
(***************************************************************************)
(* The controller's side of state synchronisation: committed revisions in  *)
(* the outbox of state.db, the pass that mirrors them to events.db and     *)
(* then broadcasts them, and the server-sent-events connection of one      *)
(* browser, with its replay, its buffer and its bounded queue.             *)
(*                                                                         *)
(* A revision stands for its event.  StateCoordinator adds the browser and *)
(* composes both.                                                          *)
(***************************************************************************)
EXTENDS Integers, Sequences

CONSTANTS
    MaxQueuedFrames,    \* frames that wait for a blocked socket
    MaxReplay,          \* maxReplayEvents
    Retained,           \* retainRevisionCount
    HighWater,          \* frames a socket takes before write answers false
    MaxRevision         \* bound: committed revisions

ASSUME StreamConstants ==
    /\ {MaxQueuedFrames, MaxReplay, Retained, HighWater} \subseteq Nat \ {0}
    /\ MaxRevision \in Nat

VARIABLES
    up,         \* the process listens
    epoch,      \* which database: restoring a backup starts another
    revision,   \* the last committed revision
    mirrored,   \* outbox rows with published_at_ms, all up to this one
    pruned,     \* outbox rows deleted, all up to this one
    pass,       \* runMirrorOutbox
    conn,       \* the connection of the browser, as the hub sees it
    told        \* history: the last revision broadcast by this process

outbox == <<epoch, revision, mirrored, pruned>>
serverVars == <<up, outbox, pass, conn, told>>

Revisions == 0 .. MaxRevision

Larger(m, n) == IF m > n THEN m ELSE n
Smaller(m, n) == IF m < n THEN m ELSE n

\* What a handler leaves of c that is called with every revision of a set, in
\* their order.
InOrder(handler(_, _), c, revs) ==
    LET after[r \in Revisions] ==
            IF r = 0 THEN c
            ELSE IF r \in revs THEN handler(after[r - 1], r)
            ELSE after[r - 1]
    IN  after[MaxRevision]

-----------------------------------------------------------------------------
(* A connection.  Its handlers run without interruption, so each is a      *)
(* function from the connection before to the connection after.            *)

FrameKinds == {"open", "event", "ready", "heartbeat", "resync"}
Frame(kind, r) == [kind |-> kind, revision |-> r]

\* StateEventStreamConnection, with the response's headers under way.
Opened(after) ==
    [phase |-> "reading", requested |-> after, current |-> after, known |-> after,
     at |-> 0, first |-> 0, buffer |-> {}, queue |-> <<>>, blocked |-> FALSE,
     wire |-> <<Frame("open", 0)>>]

NoConn == [Opened(0) EXCEPT !.phase = "none", !.wire = <<>>]

Replaying(c) == c.phase \in {"reading", "read"}
Ended(c) == c.phase \in {"none", "ended"}

\* #write: the socket takes every frame, and says when it has enough.
Write(c, f) == [c EXCEPT !.wire = Append(@, f),
                         !.blocked = Len(c.wire) + 1 >= HighWater]

\* #forceResync: what waits is dropped, and the connection closes.
ForceResync(c, r) ==
    IF Ended(c) THEN c
    ELSE [NoConn EXCEPT !.phase = "ended", !.wire = Append(c.wire, Frame("resync", r))]

\* #enqueue.
Enqueue(c, f) ==
    IF Ended(c) THEN c
    ELSE IF ~c.blocked /\ c.queue = <<>> THEN Write(c, f)
    ELSE IF Len(c.queue) >= MaxQueuedFrames THEN ForceResync(c, c.known)
    ELSE [c EXCEPT !.queue = Append(@, f)]

\* #acceptSequentialEvent.
AcceptSequential(c, r) ==
    IF Ended(c) \/ r <= c.current THEN c
    ELSE IF r # c.current + 1 THEN ForceResync(c, c.known)
    ELSE Enqueue([c EXCEPT !.current = r], Frame("event", r))

\* acceptCommitted: live events wait until the replay is done.
AcceptCommitted(c, r) ==
    IF Ended(c) THEN c
    ELSE LET k == [c EXCEPT !.known = Larger(@, r)]
         IN  IF Replaying(c) THEN [k EXCEPT !.buffer = @ \cup {r}]
             ELSE AcceptSequential(k, r)

\* The reasons of finishReplay to give up.
Unreplayable(c) ==
    \/ c.requested > c.at
    \/ c.requested < Larger(0, c.first - 1)
    \/ c.at - c.requested > MaxReplay

\* finishReplay: the replayed rows, then what was committed meanwhile, then
\* stream-ready.
FinishReplay(c) ==
    LET k == [c EXCEPT !.known = Larger(@, c.at)]
        replayed == InOrder(AcceptSequential, k, c.requested + 1 .. c.at)
        live == InOrder(AcceptSequential,
                        [replayed EXCEPT !.phase = "live", !.buffer = {},
                                         !.at = 0, !.first = 0, !.requested = 0],
                        c.buffer)
    IN  IF Unreplayable(c) THEN ForceResync(k, c.at)
        ELSE IF Ended(replayed) THEN replayed
        ELSE Enqueue(live, Frame("ready", live.current))

\* drain: writes until the socket, which had sent everything, is full again.
Drained(c) ==
    LET n == Smaller(Len(c.queue), HighWater) IN
    [c EXCEPT !.wire = SubSeq(c.queue, 1, n),
              !.queue = SubSeq(@, n + 1, Len(@)),
              !.blocked = n = HighWater]

-----------------------------------------------------------------------------
(* The outbox. *)

NoPass == [pc |-> "idle", from |-> 0, to |-> 0]

ServerInit ==
    /\ up = TRUE
    /\ epoch = 0
    /\ revision = 0 /\ mirrored = 0 /\ pruned = 0
    /\ pass = NoPass
    /\ conn = NoConn
    /\ told = 0

\* commitStateChange: the change, its revision and its outbox row at once.
Commit ==
    /\ up
    /\ revision < MaxRevision
    /\ revision' = revision + 1
    /\ UNCHANGED <<up, epoch, mirrored, pruned, pass, conn, told>>

\* What prunePublishedStateOutbox may delete: old enough, and mirrored.
Prunable == Smaller(revision - Retained, mirrored)

\* A pass takes the rows that are pending when it starts; one that would find
\* nothing to do changes nothing.
BeginPass ==
    /\ up /\ pass.pc = "idle"
    /\ mirrored < revision \/ pruned < Prunable
    /\ pass' = [pc |-> "mirror", from |-> mirrored, to |-> revision]
    /\ UNCHANGED <<up, outbox, conn, told>>

\* A row is in events.db, and marked.
MirrorRow ==
    /\ pass.pc = "mirror" /\ mirrored < pass.to
    /\ mirrored' = mirrored + 1
    /\ UNCHANGED <<up, epoch, revision, pruned, pass, conn, told>>

\* events.db refuses a row: the pass ends, and the rows it had marked are
\* never broadcast.
MirrorFails ==
    /\ pass.pc = "mirror" /\ mirrored < pass.to
    /\ pass' = NoPass
    /\ UNCHANGED <<up, outbox, conn, told>>

\* publishCommitted for every row of the pass.
Broadcast ==
    /\ pass.pc = "mirror" /\ mirrored = pass.to
    /\ conn' = InOrder(AcceptCommitted, conn, pass.from + 1 .. pass.to)
    /\ told' = IF pass.from < pass.to THEN pass.to ELSE told
    /\ pass' = [NoPass EXCEPT !.pc = "prune"]
    /\ UNCHANGED <<up, outbox>>

Prune ==
    /\ pass.pc = "prune"
    /\ pruned' = Larger(pruned, Prunable)
    /\ pass' = NoPass
    /\ UNCHANGED <<up, epoch, revision, mirrored, conn, told>>

-----------------------------------------------------------------------------
(* The hub. *)

\* readReplayWindow: the window as one transaction sees it.
ReadReplay ==
    /\ conn.phase = "reading"
    /\ conn' = [conn EXCEPT !.phase = "read", !.at = revision,
                            !.first = IF revision = 0 THEN 0 ELSE pruned + 1]
    /\ UNCHANGED <<up, outbox, pass, told>>

OpenReplay ==
    /\ conn.phase = "read"
    /\ conn' = FinishReplay(conn)
    /\ UNCHANGED <<up, outbox, pass, told>>

\* The socket's drain event.
Drain ==
    /\ conn.phase = "live" /\ conn.blocked /\ conn.wire = <<>>
    /\ conn' = Drained(conn)
    /\ UNCHANGED <<up, outbox, pass, told>>

\* Every fifteen seconds.  Bound: while another frame waits, none is sent.
Heartbeat ==
    /\ conn.phase = "live" /\ conn.wire = <<>> /\ conn.queue = <<>>
    /\ ~conn.blocked
    /\ conn' = Enqueue(conn, Frame("heartbeat", conn.known))
    /\ UNCHANGED <<up, outbox, pass, told>>

ServerNext ==
    \/ Commit
    \/ BeginPass \/ MirrorRow \/ Broadcast \/ Prune
    \/ ReadReplay \/ OpenReplay
    \/ Drain \/ Heartbeat

ServerFairness ==
    /\ WF_serverVars(BeginPass) /\ WF_serverVars(MirrorRow)
    /\ WF_serverVars(Broadcast) /\ WF_serverVars(Prune)
    /\ WF_serverVars(ReadReplay) /\ WF_serverVars(OpenReplay)
    /\ WF_serverVars(Drain) /\ WF_serverVars(Heartbeat)

-----------------------------------------------------------------------------

Connection ==
    [phase : {"none", "reading", "read", "live", "ended"}, requested : Revisions,
     current : Revisions, known : Revisions, at : Revisions, first : Revisions,
     buffer : SUBSET Revisions, queue : Seq([kind : FrameKinds, revision : Revisions]),
     blocked : BOOLEAN, wire : Seq([kind : FrameKinds, revision : Revisions])]

ServerTypeOK ==
    /\ up \in BOOLEAN
    /\ epoch \in Nat
    /\ revision \in Revisions
    /\ mirrored \in 0 .. revision /\ pruned \in 0 .. mirrored
    /\ pass \in [pc : {"idle", "mirror", "prune"}, from : Revisions, to : Revisions]
    /\ conn \in Connection
    /\ Len(conn.queue) <= MaxQueuedFrames
    /\ told \in Revisions
=============================================================================
