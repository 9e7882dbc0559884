------------------------- MODULE DeviceDiagnostics -------------------------
(***************************************************************************)
(* The one diagnostic a device keeps (firmware/esp32/ESP32Code/            *)
(* ESP32Code.ino): how it is recorded and resolved, how it is written to   *)
(* flash at most once an hour, and how it is announced to the controller   *)
(* until an announcement is published.                                     *)
(*                                                                         *)
(* An announcement is one step: that publishWithRetry takes further        *)
(* commands between two attempts is left out.  The sequence number is left *)
(* out too; it only makes two diagnostics with the same code differ.       *)
(***************************************************************************)
EXTENDS Integers

CONSTANTS
    MaxEvents,  \* bound on what goes wrong and is put right
    MaxDrops,   \* bound on lost connections and failed writes
    MaxReboots  \* bound on power losses

ASSUME DiagnosticsAssumption == {MaxEvents, MaxDrops, MaxReboots} \subseteq Nat

VARIABLES
    diagnostic, \* lastError
    saved,      \* lastErrorPersistenceDirty, -Failed, -PersistedThisBoot, and
                \* whether an hour has passed since the last attempt
    document,       \* last-error.json and last-error.next
    queued,     \* diagnosticAnnouncementPending
    online,     \* client.connected()
    heard,      \* the diagnostic of the last announcement the controller had
    reformatted, \* spiffsReformattedThisBoot
    events, drops, reboots

diagnosticVars == <<diagnostic, saved, document, queued, online, heard, reformatted,
                    events, drops, reboots>>

\* A faulty output, a network that fails, an announcement or a response that
\* was not published, a formatted or a corrupt file system.
Codes == {"pin", "network", "publish", "reformatted", "storage"}
Severity(code) == IF code = "pin" THEN "error" ELSE "warning"

\* Codes that an announcement which is published proves to be over.
Transient == {"network", "publish"}

NoDiagnostic == [code |-> "none", active |-> FALSE]
Diagnostics == [code : Codes, active : BOOLEAN] \cup {NoDiagnostic}
NoFile == [code |-> "no file", active |-> FALSE]
Scrap == [code |-> "scrap", active |-> FALSE]

DiagnosticsTypeOK ==
    /\ diagnostic \in Diagnostics /\ heard \in Diagnostics
    /\ saved \in [dirty : BOOLEAN, failed : BOOLEAN, once : BOOLEAN, hour : BOOLEAN]
    /\ document \in [current : Diagnostics \cup {NoFile, Scrap},
                 next : Diagnostics \cup {NoFile, Scrap}]
    /\ queued \in BOOLEAN /\ online \in BOOLEAN /\ reformatted \in BOOLEAN

----------------------------------------------------------------------------
(* Recording.                                                              *)

\* recordLastError: a warning does not displace an error that goes on, and the
\* same diagnostic again is none.
Recorded(d, code) ==
    IF d.active /\ Severity(d.code) = "error" /\ Severity(code) = "warning"
    THEN d ELSE [code |-> code, active |-> TRUE]

Cleared(d) == [d EXCEPT !.active = FALSE]

WriteDue(s) == s.dirty /\ IF s.failed THEN s.hour ELSE ~s.once \/ s.hour

\* persistLastError: staged, put in the place of the old file, which is removed
\* before; each of the three may be as far as it gets.
DocumentAfter(d) ==
    {[document EXCEPT !.next = NoFile], [current |-> NoFile, next |-> d]}
        \cup IF document.current = NoFile THEN {[document EXCEPT !.next = Scrap]} ELSE {}

\* serviceLastErrorPersistence.  A write that succeeds after one that failed is
\* announced too.
Serviced(d, s, announce) ==
    \/ /\ ~WriteDue(s)
       /\ saved' = s /\ queued' = announce /\ UNCHANGED <<document, drops>>
    \/ /\ WriteDue(s)
       /\ document' = [current |-> d, next |-> NoFile]
       /\ saved' = [dirty |-> FALSE, failed |-> FALSE, once |-> TRUE, hour |-> FALSE]
       /\ queued' = (announce \/ s.failed) /\ UNCHANGED drops
    \/ /\ WriteDue(s) /\ drops < MaxDrops /\ drops' = drops + 1
       /\ document' \in DocumentAfter(d)
       /\ saved' = [s EXCEPT !.failed = TRUE, !.hour = FALSE] /\ queued' = announce

\* queueLastErrorTransition, if the diagnostic changed.
ChangeTo(d) ==
    /\ diagnostic' = d
    /\ IF d = diagnostic
       THEN UNCHANGED <<saved, document, queued, drops>>
       ELSE Serviced(d, [saved EXCEPT !.dirty = TRUE], TRUE)

----------------------------------------------------------------------------
(* Steps.                                                                  *)

\* An output fails or the network does, and later works again.
SomethingFails ==
    \E code \in {"pin", "network", "publish"} :
      /\ events < MaxEvents /\ events' = events + 1
      /\ ChangeTo(Recorded(diagnostic, code))
      /\ UNCHANGED <<online, heard, reformatted, reboots>>

OutputRecovers ==
    /\ diagnostic = [code |-> "pin", active |-> TRUE]
    /\ events < MaxEvents /\ events' = events + 1
    /\ ChangeTo(Cleared(diagnostic))
    /\ UNCHANGED <<online, heard, reformatted, reboots>>

HourGoesBy ==
    /\ saved.dirty /\ Serviced(diagnostic, [saved EXCEPT !.hour = TRUE], queued)
    /\ UNCHANGED <<diagnostic, online, heard, reformatted, events, reboots>>

LoseConnection ==
    /\ online /\ drops < MaxDrops /\ drops' = drops + 1 /\ online' = FALSE
    /\ UNCHANGED <<diagnostic, saved, document, queued, heard, reformatted, events, reboots>>

MutantEnded(d) == Serviced(d, [saved EXCEPT !.dirty = TRUE], FALSE)

\* The end of a diagnostic is announced in its turn.
Ended(d) == Serviced(d, [saved EXCEPT !.dirty = TRUE], TRUE)

\* finishPublishedAnnouncement: nothing is pending any more, and then what the
\* announcement proves to be over is resolved, which is announced again.
Published ==
    /\ heard' = diagnostic
    /\ LET over == \/ diagnostic.active /\ diagnostic.code \in Transient
                   \/ reformatted /\ diagnostic = [code |-> "reformatted", active |-> TRUE]
       IN IF over
          THEN /\ diagnostic' = Cleared(diagnostic)
               /\ reformatted' = (reformatted /\ diagnostic.code # "reformatted")
               /\ Ended(Cleared(diagnostic))
          ELSE /\ queued' = FALSE
               /\ UNCHANGED <<diagnostic, saved, document, reformatted, drops>>

\* serviceDiagnosticAnnouncement.
AnnounceQueued ==
    /\ online /\ queued /\ Published
    /\ UNCHANGED <<online, events, reboots>>

\* The same for outputs that changed, and announcePresence when asked to.
AnnounceAnyway ==
    /\ online /\ ~queued /\ Published
    /\ UNCHANGED <<online, events, reboots>>

\* An announcement that is not published is a diagnostic itself.
AnnouncementFails ==
    /\ online /\ events < MaxEvents /\ events' = events + 1
    /\ ChangeTo(Recorded(diagnostic, "publish")) /\ online' \in BOOLEAN
    /\ UNCHANGED <<heard, reformatted, reboots>>

\* A connection counts from its announcement on; without it it is dropped.
ConnectAndAnnounce ==
    /\ ~online /\ online' = TRUE /\ Published
    /\ UNCHANGED <<events, reboots>>

\* loadLastError: a staged document is used when the published one is gone.
LoadedFrom(files) ==
    CASE files.current # NoFile -> files.current
      [] OTHER -> files.next

\* Power fails, and the device starts again; a document cut short is a
\* diagnostic of its own, and so is a formatted file system.
Reboot ==
    /\ reboots < MaxReboots /\ reboots' = reboots + 1
    /\ \E format \in BOOLEAN :
         LET found == IF format THEN NoFile ELSE LoadedFrom(document)
             code == IF format THEN "reformatted" ELSE "storage"
             left == IF found = NoFile THEN [current |-> NoFile, next |-> NoFile]
                     ELSE [current |-> found,
                           next |-> IF document.current = NoFile THEN NoFile ELSE document.next]
             fresh == [dirty |-> FALSE, failed |-> FALSE, once |-> FALSE, hour |-> FALSE]
         IN /\ reformatted' = format
            /\ IF format \/ found = Scrap
               THEN /\ diagnostic' = [code |-> code, active |-> TRUE]
                    /\ document' = [current |-> diagnostic', next |-> NoFile]
                    /\ saved' = [fresh EXCEPT !.once = TRUE] /\ queued' = TRUE
               ELSE /\ diagnostic' = IF found = NoFile THEN NoDiagnostic ELSE found
                    /\ document' = left /\ saved' = fresh /\ queued' = FALSE
    /\ online' = FALSE
    /\ UNCHANGED <<heard, events, drops>>

----------------------------------------------------------------------------
DiagnosticsInit ==
    /\ diagnostic = NoDiagnostic /\ heard = NoDiagnostic
    /\ saved = [dirty |-> FALSE, failed |-> FALSE, once |-> FALSE, hour |-> FALSE]
    /\ document = [current |-> NoFile, next |-> NoFile]
    /\ queued = FALSE /\ online = FALSE /\ reformatted = FALSE
    /\ events = 0 /\ drops = 0 /\ reboots = 0

DiagnosticsNext ==
    \/ SomethingFails \/ OutputRecovers \/ HourGoesBy \/ LoseConnection
    \/ AnnounceQueued \/ AnnounceAnyway \/ AnnouncementFails
    \/ ConnectAndAnnounce \/ Reboot

\* loop() runs: it reconnects, and it announces what is pending.
DiagnosticsSpec ==
    /\ DiagnosticsInit /\ [][DiagnosticsNext]_diagnosticVars
    /\ WF_diagnosticVars(ConnectAndAnnounce) /\ WF_diagnosticVars(AnnounceQueued)

\* Once nothing fails any more the controller has heard what the device's
\* diagnostic has come to, its end included, whatever was announced or saved,
\* cut short or lost before.
DiagnosticHeard == <>[](heard = diagnostic)
=============================================================================
