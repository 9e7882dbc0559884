--------------------------- MODULE StorageRecovery ---------------------------
(***************************************************************************)
(* The two databases and what becomes of a committed change: the outbox of *)
(* state.db, mirrored to events.db and pruned; the retention that moves    *)
(* events to archive files; the audit of one notification; the backup,     *)
(* which copies events.db and then state.db while all of this goes on; and *)
(* its restoration during an outage.                                       *)
(*                                                                         *)
(* A database is a record, a transaction one action.  SQLite's online      *)
(* backup yields one consistent copy, so copying a database is one action. *)
(* The retention class of the changes is one that is archived.             *)
(***************************************************************************)
EXTENDS Naturals, FiniteSetsExt

CONSTANTS
    Retained,       \* retainRevisionCount: published rows the outbox keeps
    MaxRevisions,   \* bound: committed changes
    MaxBackups,     \* bound: backups begun
    MaxFailures     \* bound: crashes and archive files that cannot be written

ASSUME StorageConstants ==
    /\ {Retained, MaxRevisions} \subseteq Nat \ {0}
    /\ {MaxBackups, MaxFailures} \subseteq Nat

VARIABLES
    state,      \* state.db: the revision, the outbox, the notification
    events,     \* events.db: mirrored events, the audit
    mirror,     \* the row whose event is in, and not yet marked: 0 or a row
    retention,  \* runEventRetention: its step and its selection
    backup,     \* createControllerBackup: its step, boundary and first copy
    backups,    \* the verified backups
    archived,   \* changes that some verified archive file holds
    restored,   \* 0, or one more than the boundary of the backup in use
    begun,      \* backups begun
    failures    \* those that happened

storageVars == <<state, events, mirror, retention, backup, backups, archived,
                 restored, begun, failures>>

Revisions == 1 .. MaxRevisions
MaxOf(S) == IF S = {} THEN 0 ELSE Max(S)

NoEvents == [rows |-> {}, audited |-> FALSE]
NoRetention == [step |-> "idle", rows |-> {}]
NoBackup == [step |-> "idle", start |-> 0, copy |-> NoEvents]

StorageInit ==
    /\ state = [revision |-> 0, outbox |-> [r \in Revisions |-> "none"],
                delivery |-> "none"]
    /\ events = NoEvents
    /\ mirror = 0
    /\ retention = NoRetention /\ backup = NoBackup
    /\ backups = {} /\ archived = {} /\ restored = 0 /\ begun = 0 /\ failures = 0

-----------------------------------------------------------------------------
(* The outbox.                                                             *)

Rows(status) == {r \in Revisions : state.outbox[r] = status}
WithRows(S, status) == [r \in Revisions |-> IF r \in S THEN status ELSE state.outbox[r]]

\* commitStateChange.
CommitChange ==
    /\ state.revision < MaxRevisions
    /\ state' = [state EXCEPT !.revision = @ + 1, !.outbox[state.revision + 1] = "pending"]
    /\ UNCHANGED <<events, mirror, retention, backup, backups, archived, restored, begun, failures>>

\* An event that a pass before a crash has inserted is no obstacle.
Mirrorable == Rows("pending")

\* ensureEventMirror, of the first row that is not published.
MirrorEvent ==
    /\ mirror = 0
    /\ \E r \in Mirrorable :
           /\ \A s \in Mirrorable : r <= s
           /\ mirror' = r
           /\ events' = [events EXCEPT !.rows = @ \cup {r}]
    /\ UNCHANGED <<state, retention, backup, backups, archived, restored, begun, failures>>

MarkPublished ==
    /\ mirror # 0
    /\ state' = [state EXCEPT !.outbox = WithRows({mirror}, "published")]
    /\ mirror' = 0
    /\ UNCHANGED <<events, retention, backup, backups, archived, restored, begun, failures>>

\* A row that is not published keeps every later row.
Prunable == {r \in Rows("published") :
                r + Retained <= state.revision /\ \A p \in Rows("pending") : r < p}

\* prunePublishedStateOutbox, after a mirror pass.
PruneOutbox ==
    /\ mirror = 0 /\ Prunable # {}
    /\ state' = [state EXCEPT !.outbox = WithRows(Prunable, "none")]
    /\ UNCHANGED <<events, mirror, retention, backup, backups, archived, restored, begun, failures>>

-----------------------------------------------------------------------------
(* The retention of events.                                                *)

\* Candidates are taken oldest first, by age or by budget.
Oldest(n) == {r \in events.rows : Cardinality({s \in events.rows : s < r}) < n}

SelectCandidates ==
    /\ retention.step = "idle"
    /\ \E n \in 1 .. Cardinality(events.rows) :
           retention' = [step |-> "reserved", rows |-> Oldest(n)]
    /\ UNCHANGED <<state, events, mirror, backup, backups, archived, restored, begun, failures>>

\* createEventArchive: the file is written atomically, read again and
\* verified; one that a run before a crash has completed is verified again.
WriteArchive ==
    /\ retention.step = "reserved"
    /\ archived' = archived \cup retention.rows
    /\ retention' = [retention EXCEPT !.step = "complete"]
    /\ UNCHANGED <<state, events, mirror, backup, backups, restored, begun, failures>>

ArchiveFails ==
    /\ retention.step = "reserved" /\ failures < MaxFailures
    /\ failures' = failures + 1
    /\ retention' = NoRetention
    /\ UNCHANGED <<state, events, mirror, backup, backups, archived, restored, begun>>

\* assertArchiveComplete, in the transaction that deletes.
MayDelete == retention.step = "complete"

DeleteCandidates ==
    /\ MayDelete
    /\ events' = [events EXCEPT !.rows = @ \ retention.rows]
    /\ retention' = NoRetention
    /\ UNCHANGED <<state, mirror, backup, backups, archived, restored, begun, failures>>

-----------------------------------------------------------------------------
(* The audit of a notification.                                            *)

DeliveryEnds ==
    /\ state.delivery = "none"
    /\ state' = [state EXCEPT !.delivery = "terminal"]
    /\ UNCHANGED <<events, mirror, retention, backup, backups, archived, restored, begun, failures>>

\* recordTerminalOutcome; an outcome that is there is left alone.
RecordTerminalOutcome ==
    /\ state.delivery = "terminal" /\ ~events.audited
    /\ events' = [events EXCEPT !.audited = TRUE]
    /\ UNCHANGED <<state, mirror, retention, backup, backups, archived, restored, begun, failures>>

\* The checkpoint; only a delivery that has one may be pruned.
MarkOutcomeRecorded ==
    /\ state.delivery = "terminal" /\ events.audited
    /\ state' = [state EXCEPT !.delivery = "recorded"]
    /\ UNCHANGED <<events, mirror, retention, backup, backups, archived, restored, begun, failures>>

-----------------------------------------------------------------------------
(* Backup and restoration.                                                 *)

BeginBackup ==
    /\ backup.step = "idle" /\ begun < MaxBackups
    /\ begun' = begun + 1
    /\ backup' = [backup EXCEPT !.step = "begun", !.start = state.revision]
    /\ UNCHANGED <<state, events, mirror, retention, backups, archived, restored, failures>>

CopyEvents ==
    /\ backup.step = "begun"
    /\ backup' = [backup EXCEPT !.step = "copied", !.copy = events]
    /\ UNCHANGED <<state, events, mirror, retention, backups, archived, restored, begun, failures>>

MutantCovered == TRUE

\* assertCaptureBoundaryCoverage: the outbox still has every row from the
\* revision at which the first copy began.
Covered ==
    \A r \in Revisions :
        backup.start <= r /\ r <= state.revision => state.outbox[r] # "none"

\* The rows prepareCoherentBackupPair has mirrored again.
Reset == (Rows("pending") \cup Rows("published")) \ backup.copy.rows

\* The copy of state.db; a pair that does not agree is removed.
CopyState ==
    /\ backup.step = "copied"
    /\ IF Covered /\ MaxOf(backup.copy.rows) <= state.revision
       THEN backups' = backups \cup
                {[start |-> backup.start, events |-> backup.copy,
                  state |-> [state EXCEPT !.outbox = WithRows(Reset, "pending")]]}
       ELSE UNCHANGED backups
    /\ backup' = NoBackup
    /\ UNCHANGED <<state, events, mirror, retention, archived, restored, begun, failures>>

\* What was in memory, and an unfinished backup directory, are gone.
Stop ==
    /\ mirror' = 0
    /\ retention' = NoRetention
    /\ backup' = NoBackup

Outage ==
    /\ failures < MaxFailures
    /\ failures' = failures + 1
    /\ Stop
    /\ UNCHANGED <<state, events, backups, archived, restored, begun>>

\* restoreControllerBackup, in an outage; the revisions after the backup's are
\* given again, so what the archives hold of them is another history's.
Restore ==
    /\ restored = 0
    /\ \E b \in backups :
           /\ state' = b.state /\ events' = b.events
           /\ archived' = archived \cap 1 .. b.state.revision
           /\ restored' = b.start + 1
    /\ backups' = {}
    /\ Stop
    /\ UNCHANGED <<begun, failures>>

-----------------------------------------------------------------------------
Mirror == MirrorEvent \/ MarkPublished
Retention == SelectCandidates \/ WriteArchive \/ ArchiveFails \/ DeleteCandidates
Audit == RecordTerminalOutcome \/ MarkOutcomeRecorded
Backup == BeginBackup \/ CopyEvents \/ CopyState

StorageNext ==
    \/ CommitChange \/ Mirror \/ PruneOutbox \/ Retention \/ DeliveryEnds \/ Audit
    \/ Backup \/ Outage \/ Restore

StorageSpec == StorageInit /\ [][StorageNext]_storageVars

-----------------------------------------------------------------------------
Databases ==
    [state : [revision : 0 .. MaxRevisions, delivery : {"none", "terminal", "recorded"},
              outbox : [Revisions -> {"none", "pending", "published"}]],
     events : [rows : SUBSET Revisions, audited : BOOLEAN]]

StorageTypeOK ==
    /\ [state |-> state, events |-> events] \in Databases
    /\ mirror \in 0 .. MaxRevisions
    /\ retention \in [step : {"idle", "reserved", "complete"}, rows : SUBSET Revisions]
    /\ backup \in [step : {"idle", "begun", "copied"}, start : 0 .. MaxRevisions,
                   copy : [rows : SUBSET Revisions, audited : BOOLEAN]]
    /\ \A b \in backups : [state |-> b.state, events |-> b.events] \in Databases
    /\ archived \subseteq Revisions /\ restored \in 0 .. MaxRevisions + 1
    /\ begun \in 0 .. MaxBackups /\ failures \in 0 .. MaxFailures

Kept(r) == r \in events.rows \/ state.outbox[r] = "pending" \/ r \in archived

(* "A class requiring archive is never deleted unless each exact selection *)
(* has been written and re-read", and "contiguous outbox coverage across   *)
(* the copy gap": from the revision at which the backup in use began on,   *)
(* every change is mirrored, archived or still to be mirrored.             *)
NoChangeForgotten == \A r \in 1 .. state.revision : Kept(r) \/ r + 1 < restored

=============================================================================
