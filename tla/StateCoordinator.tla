--------------------------- MODULE StateCoordinator ---------------------------
(***************************************************************************)
(* The browser's side of state synchronisation, composed with the          *)
(* controller's: ControllerStateCoordinator fetches a snapshot, follows    *)
(* the events after it and asks for another whenever it cannot tell what   *)
(* it missed.  Between the two: lost connections, an event stream that     *)
(* reconnects by itself, restarts, and a database restored from a backup.  *)
(***************************************************************************)
EXTENDS StateEventStream

CONSTANTS
    Disturbances,       \* what may go wrong, of the kinds below
    MaxDisturbances     \* bound: how often

DisturbanceKinds ==
    {"mirror", "drop", "crash", "restore", "fetch", "silence", "user"}

ASSUME CoordinatorConstants ==
    /\ Disturbances \subseteq DisturbanceKinds
    /\ MaxDisturbances \in Nat

VARIABLES
    ui,             \* ControllerStateCoordinator and its EventSource
    disturbed       \* how often something went wrong

vars == <<serverVars, ui, disturbed>>

Snapshot(e, r) == [epoch |-> e, revision |-> r]
NoSnapshot == [epoch |-> -1, revision |-> -1]

Statuses == {"loading", "connected", "reconnecting", "stale", "error"}

-----------------------------------------------------------------------------
(* The methods of the coordinator.  None of them awaits anything, so each  *)
(* is a function from the coordinator before to the coordinator after.     *)

\* #closeStream.
Closed(u) == [u EXCEPT !.stream = "none", !.ready = FALSE, !.timer = FALSE]

\* #requestSnapshot.
Request(u) ==
    IF u.fetch # "idle" THEN u
    ELSE [u EXCEPT !.fetch = "asked",
                   !.status = IF u.snap = NoSnapshot THEN "loading"
                              ELSE IF u.reconnect THEN "reconnecting"
                              ELSE IF u.ready THEN "connected" ELSE @]

\* #openStream: an EventSource that asks for what follows the snapshot.
OpenStream(u) == [Closed(u) EXCEPT !.stream = "connecting", !.cursor = u.rev]

\* #resynchronize: only the controller's own word lowers the revision wanted.
Resynchronize(u, r, authoritative) ==
    Request([Closed(u) EXCEPT
        !.required = IF authoritative THEN r ELSE Larger(u.rev, r),
        !.reconnect = TRUE, !.status = "reconnecting", !.stale = TRUE])

Lags(u) == u.snap = NoSnapshot \/ u.snap.revision < u.rev

\* #handleCommittedEvent.
HandleCommitted(u, r) ==
    IF r <= u.rev THEN u
    ELSE IF r # u.rev + 1 THEN Resynchronize(u, r, FALSE)
    ELSE LET v == [u EXCEPT !.required = r, !.rev = r]
             w == [v EXCEPT !.stale = Lags(v)]
         IN  IF w.ready THEN Request(w) ELSE w

MutantHandleReady(u) == [u EXCEPT !.ready = TRUE, !.status = "connected"]

HandleReady(u) ==
    LET v == [u EXCEPT !.ready = TRUE, !.status = "connected"]
    IN  IF v.stale THEN Request(v) ELSE v

MutantHandleHeartbeat(u) ==
    IF u.ready /\ u.status # "error"
    THEN [u EXCEPT !.status = "connected", !.stale = FALSE]
    ELSE u

HandleHeartbeat(u) ==
    IF u.ready /\ u.status # "error"
    THEN [u EXCEPT !.status = "connected", !.stale = Lags(u)]
    ELSE u

HandleOpen(u) ==
    IF u.status = "error" THEN u ELSE [u EXCEPT !.status = "reconnecting"]

\* #handleMessage and the open handler, after #touchStream has armed the
\* watchdog.  The EventSource itself keeps the id of the last event.
Handle(u, f) ==
    LET t == [u EXCEPT !.timer = TRUE,
                       !.cursor = IF f.kind = "event" THEN f.revision ELSE @]
    IN  CASE f.kind = "open" -> HandleOpen(t)
          [] f.kind = "event" -> HandleCommitted(t, f.revision)
          [] f.kind = "resync" -> Resynchronize(t, f.revision, TRUE)
          [] f.kind \in {"ready", "heartbeat"} /\ f.revision > t.rev ->
                Resynchronize(t, f.revision, FALSE)
          [] f.kind = "ready" /\ f.revision <= t.rev -> HandleReady(t)
          [] OTHER -> HandleHeartbeat(t)

\* The error handler; the EventSource connects again by itself.
HandleError(u) ==
    LET v == [u EXCEPT !.ready = FALSE, !.timer = TRUE, !.stream = "connecting"]
    IN  IF v.status = "error" THEN v
        ELSE [v EXCEPT !.status = "reconnecting", !.stale = TRUE]

MutantAccepted(u) ==
    LET v == [u EXCEPT !.fetch = "idle", !.answer = NoSnapshot, !.reconnect = FALSE,
                       !.required = u.answer.revision, !.rev = u.answer.revision,
                       !.snap = u.answer, !.stale = FALSE,
                       !.status = IF u.reconnect THEN "reconnecting" ELSE @]
    IN  IF u.reconnect THEN OpenStream(v) ELSE v

\* The snapshot of #requestSnapshot has come: one that is too old is asked for
\* again.
Accepted(u) ==
    LET idle == [u EXCEPT !.fetch = "idle", !.answer = NoSnapshot]
        v == [idle EXCEPT !.reconnect = FALSE, !.required = u.answer.revision,
                          !.rev = u.answer.revision, !.snap = u.answer,
                          !.stale = FALSE,
                          !.status = IF u.reconnect THEN "reconnecting" ELSE @]
    IN  IF u.answer.revision < u.required THEN Request(idle)
        ELSE IF u.reconnect THEN OpenStream(v) ELSE v

Failed(u) ==
    [u EXCEPT !.fetch = "idle", !.answer = NoSnapshot, !.status = "error",
              !.stale = TRUE]

AtLeastShown(u) == [u EXCEPT !.required = Larger(@, u.rev)]

\* refresh.
Refreshed(u) == Request(AtLeastShown(u))

\* retry.
Retried(u) ==
    Request([AtLeastShown(Closed(u)) EXCEPT
        !.reconnect = TRUE, !.stale = TRUE,
        !.status = IF u.snap = NoSnapshot THEN "loading" ELSE "reconnecting"])

-----------------------------------------------------------------------------
(* The coordinator's steps. *)

\* start.
UiInit ==
    Request([status |-> "loading", snap |-> NoSnapshot, rev |-> 0, stale |-> TRUE,
             ready |-> FALSE, fetch |-> "idle", answer |-> NoSnapshot, required |-> 0,
             reconnect |-> TRUE, stream |-> "none", cursor |-> 0, timer |-> FALSE])

Init ==
    /\ ServerInit
    /\ ui = UiInit
    /\ disturbed = 0

Disturb(kind) ==
    /\ kind \in Disturbances
    /\ disturbed < MaxDisturbances
    /\ disturbed' = disturbed + 1

Undisturbed == UNCHANGED disturbed

\* The hub sees a stream that the browser closes.
Follow(u, c) ==
    /\ ui' = u
    /\ conn' = IF u.stream = "open" THEN c ELSE NoConn
    /\ UNCHANGED <<up, outbox, pass, told>>

\* GET /api/snapshot, in one transaction.
FetchRead ==
    /\ up /\ ui.fetch = "asked"
    /\ Follow([ui EXCEPT !.fetch = "answered", !.answer = Snapshot(epoch, revision)],
              conn)
    /\ Undisturbed

FetchAnswered ==
    /\ ui.fetch = "answered"
    /\ Follow(Accepted(ui), conn)
    /\ Undisturbed

\* The request fails: nobody listens, or on its way.
FetchRefused ==
    /\ ui.fetch = "refused" \/ (ui.fetch = "asked" /\ ~up)
    /\ Follow(Failed(ui), conn)
    /\ Undisturbed

FetchFails ==
    /\ ui.fetch = "asked" /\ up
    /\ Disturb("fetch")
    /\ Follow(Failed(ui), conn)

StreamOpens ==
    /\ up /\ ui.stream = "connecting"
    /\ Follow([ui EXCEPT !.stream = "open"], Opened(ui.cursor))
    /\ Undisturbed

StreamRefused ==
    /\ ~up /\ ui.stream = "connecting"
    /\ Follow(HandleError(ui), conn)
    /\ Undisturbed

Deliver ==
    /\ ui.stream = "open" /\ conn.wire # <<>>
    /\ Follow(Handle(ui, Head(conn.wire)), [conn EXCEPT !.wire = Tail(@)])
    /\ Undisturbed

\* The end of the response, or of the connection, reaches the browser.
StreamEnds ==
    /\ ui.stream = "open"
    /\ Ended(conn) /\ conn.wire = <<>>
    /\ Follow(HandleError(ui), conn)
    /\ Undisturbed

\* The watchdog: no frame came for heartbeatTimeoutMs.
HeartbeatTimeout ==
    /\ ui.timer /\ ui.stream # "none"
    /\ Disturb("silence")
    /\ Follow([ui EXCEPT !.timer = FALSE,
                         !.status = IF @ = "error" THEN @ ELSE "stale",
                         !.stale = @ \/ ui.status # "error"], conn)

\* Somebody presses a button, or a dialog has done its work.
Refresh == Disturb("user") /\ Follow(Refreshed(ui), conn)

\* Somebody presses a button, or the window goes on or off line.
Retry == Disturb("user") /\ Follow(Retried(ui), conn)

-----------------------------------------------------------------------------
(* What else goes wrong. *)

RowFails == MirrorFails /\ Disturb("mirror") /\ UNCHANGED ui

Drop ==
    /\ ~Ended(conn)
    /\ Disturb("drop")
    /\ conn' = NoConn
    /\ UNCHANGED <<up, outbox, pass, told, ui>>

Crash ==
    /\ up
    /\ Disturb("crash")
    /\ up' = FALSE
    /\ conn' = NoConn
    /\ pass' = NoPass
    /\ told' = 0
    /\ ui' = [ui EXCEPT !.fetch = IF @ = "idle" THEN @ ELSE "refused",
                        !.answer = NoSnapshot]
    /\ UNCHANGED outbox

\* A backup of both databases takes the place of the lost ones.  Bound: by
\* then the page has noticed that nobody listens.
Restore ==
    /\ ~up /\ ui.stale
    /\ Disturb("restore")
    /\ epoch' = epoch + 1
    /\ \E r \in 0 .. revision - 1 :
        /\ revision' = r
        /\ mirrored' = Smaller(mirrored, r)
        /\ pruned' = Smaller(pruned, Larger(0, r - Retained))
    /\ UNCHANGED <<up, pass, conn, told, ui>>

\* The first pass, before the process listens, succeeds or fails at a row.
Restart ==
    /\ ~up
    /\ up' = TRUE
    /\ \E m \in mirrored .. revision :
        /\ mirrored' = m
        /\ pruned' = IF m = revision THEN Larger(pruned, revision - Retained)
                     ELSE pruned
    /\ UNCHANGED <<epoch, revision, pass, conn, told, ui, disturbed>>

Server == ServerNext /\ UNCHANGED <<ui, disturbed>>

Next ==
    \/ Server
    \/ FetchRead \/ FetchAnswered \/ FetchRefused \/ FetchFails
    \/ StreamOpens \/ StreamRefused \/ Deliver \/ StreamEnds
    \/ HeartbeatTimeout \/ Refresh \/ Retry
    \/ RowFails \/ Drop \/ Crash \/ Restore \/ Restart

Spec == Init /\ [][Next]_vars

\* Requests are answered, frames arrive, passes run and the service manager
\* starts the process again; nobody has to change anything, and nothing has to
\* go wrong.
FairSpec ==
    /\ Spec
    /\ ServerFairness
    /\ WF_vars(FetchRead) /\ WF_vars(FetchAnswered) /\ WF_vars(FetchRefused)
    /\ WF_vars(StreamOpens) /\ WF_vars(Deliver) /\ WF_vars(StreamEnds)
    /\ WF_vars(Restart)

-----------------------------------------------------------------------------

Ui ==
    [status : Statuses,
     snap : [epoch : 0 .. MaxDisturbances, revision : Revisions] \cup {NoSnapshot},
     rev : Revisions, stale : BOOLEAN, ready : BOOLEAN,
     fetch : {"idle", "asked", "answered", "refused"},
     answer : [epoch : 0 .. MaxDisturbances, revision : Revisions] \cup {NoSnapshot},
     required : Revisions, reconnect : BOOLEAN,
     stream : {"none", "connecting", "open"}, cursor : Revisions, timer : BOOLEAN]

TypeOK ==
    /\ ServerTypeOK
    /\ ui \in Ui
    /\ disturbed \in 0 .. MaxDisturbances
    /\ ui.fetch = "answered" <=> ui.answer # NoSnapshot

\* "Read the snapshot, replay, refetch": a page that says connected and fresh
\* has a snapshot with every revision the hub has broadcast, unless the news is
\* still on its way, in the socket or in the queue.
FreshHasEveryBroadcast ==
    (ui.status = "connected" /\ ~ui.stale /\ conn.phase = "live"
        /\ conn.wire = <<>> /\ conn.queue = <<>>)
        => ui.snap.revision >= told

\* A page never shows an older revision than it has shown, unless the database
\* was restored: a snapshot that was read before an event that has arrived is
\* refused when it comes after it.
ShownNeverGoesBack ==
    [][ui'.rev < ui.rev \/ ui'.snap.revision < ui.snap.revision => epoch > 0]_vars

\* What the page shows is what the controller has.
Current ==
    /\ ui.status = "connected" /\ ~ui.stale
    /\ ui.snap = Snapshot(epoch, revision)

\* Whatever was lost, cut or restarted, the page catches up with the database,
\* or says that it failed and offers to retry; or it insists on a revision that
\* a restored database does not have (see RollbackAccepted).
EventuallyCurrent ==
    []<>(Current \/ ui.status = "error" \/ (epoch > 0 /\ ui.required > revision))

\* controller-state-coordinator.test.ts:330, "accepts an authoritative revision
\* rollback after a database restore".
RollbackAccepted ==
    epoch > 0 ~> (ui.status = "error" \/ ui.snap.epoch = epoch)
=============================================================================
