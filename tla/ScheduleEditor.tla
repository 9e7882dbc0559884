--------------------------- MODULE ScheduleEditor ---------------------------
(***************************************************************************)
(* The schedule editor of a page: one draft per channel, kept through the   *)
(* snapshots that arrive while the user works, and saved in one request     *)
(* (combined-schedule-state.ts, CombinedScheduleEditor.tsx), against the    *)
(* controller that takes such requests from this page and from others       *)
(* (replaceControlAreaScheduleConfiguration).                               *)
(*                                                                         *)
(* A schedule is a member of Contents with the number of times it was       *)
(* replaced (graphRevision).  Points and the multiplier of the area are left *)
(* out.                                                                     *)
(***************************************************************************)
EXTENDS OperatorConcurrency

CONSTANTS
    EditedChannels, Contents,
    MaxSaves        \* a bound on the saves of the page

ASSUME MaxSavesAssumption == MaxSaves \in Nat
ASSUME EditedAssumption == EditedChannels # {} /\ Contents # {}

VARIABLES
    stored,     \* channel -> what the controller has: points, graph, the
                \* revision that put it there, and whether this page did
    live,       \* the revision of the page's snapshot
    draft,      \* channel -> the page's draft
    selected,   \* the channel whose points and conflict are shown
    save,       \* the request in flight
    refreshing, \* a save was answered and the page has yet to read again
    accepted,   \* the revision of the last conflict the user accepted
    saves

editorVars == <<revision, floor, stored, live, draft, selected, save,
                refreshing, accepted, saves>>

Idle == [status |-> "idle"]

IsDirty(d) == d.points # d.baseline
DirtyChannels == {c \in EditedChannels : IsDirty(draft[c])}

EditorTypeOK ==
    /\ revision \in 0..MaxRevision /\ floor \in 0..revision
    /\ {live, accepted} \subseteq 0..revision
    /\ selected \in EditedChannels /\ saves \in 0..MaxSaves
    /\ refreshing \in BOOLEAN
    /\ save.status \in {"idle", "sent", "taken", "refused", "lost"}
    /\ \A c \in EditedChannels :
         /\ {stored[c].points, draft[c].points, draft[c].baseline} \subseteq Contents
         /\ stored[c].graph \in Nat /\ draft[c].graph \in Nat
         /\ stored[c].at \in 0..revision /\ stored[c].own \in BOOLEAN
         /\ {draft[c].pinned, draft[c].conflict} \subseteq 0..revision \cup {NoRevision}

\* createCombinedScheduleDraft
FreshDraft(source) ==
    [graph |-> source.graph, baseline |-> source.points, points |-> source.points,
     pinned |-> NoRevision, conflict |-> NoRevision]

EditorInit ==
    /\ revision = 0 /\ floor = 0
    /\ LET first == CHOOSE x \in Contents : TRUE IN
         stored = [c \in EditedChannels |->
                      [points |-> first, graph |-> 0, at |-> 0, own |-> FALSE]]
    /\ live = 0 /\ accepted = 0 /\ saves = 0
    /\ draft = [c \in EditedChannels |-> FreshDraft(stored[c])]
    /\ selected = CHOOSE c \in EditedChannels : TRUE
    /\ save = Idle
    /\ refreshing = FALSE

Controller == <<revision, floor, stored>>

----------------------------------------------------------------------------
(* The controller.                                                          *)

\* The schedules of written that differ are replaced, all in one revision.
Replaced(written, own) ==
    [c \in EditedChannels |->
        IF c \in DOMAIN written /\ written[c] # stored[c].points
        THEN [points |-> written[c], graph |-> stored[c].graph + 1,
              at |-> revision', own |-> own]
        ELSE stored[c]]

Changes(written) == \E c \in DOMAIN written : written[c] # stored[c].points

\* Another page, or a request of no page, replaces one schedule.
SomebodyElseSaves(c, x) ==
    /\ x # stored[c].points
    /\ OperatorCommit(revision)
    /\ stored' = Replaced([d \in {c} |-> x], FALSE)
    /\ UNCHANGED <<live, draft, selected, save, refreshing, accepted, saves>>

BackgroundChange ==
    /\ BackgroundCommit
    /\ UNCHANGED <<stored, live, draft, selected, save, refreshing, accepted, saves>>

\* The page's request: replaced, nothing to change, or refused.
TakeSave ==
    /\ save.status = "sent"
    /\ Changes(save.written)
    /\ OperatorCommit(save.token)
    /\ stored' = Replaced(save.written, TRUE)
    /\ save' = [save EXCEPT !.status = "taken", !.revision = revision']
    /\ UNCHANGED <<live, draft, selected, refreshing, accepted, saves>>

TakeUnchangedSave ==
    /\ save.status = "sent"
    /\ Accepts(save.token)
    /\ ~Changes(save.written)
    /\ save' = [save EXCEPT !.status = "taken", !.revision = revision]
    /\ UNCHANGED <<Controller, live, draft, selected, refreshing, accepted, saves>>

RefuseSave ==
    /\ save.status = "sent"
    /\ ~Accepts(save.token)
    /\ save' = [save EXCEPT !.status = "refused", !.revision = revision]
    /\ UNCHANGED <<Controller, live, draft, selected, refreshing, accepted, saves>>

\* The request or its answer does not arrive.
LoseSave ==
    /\ save.status \in {"sent", "taken", "refused"}
    /\ save' = [save EXCEPT !.status = "lost"]
    /\ UNCHANGED <<Controller, live, draft, selected, refreshing, accepted, saves>>

----------------------------------------------------------------------------
(* The page.                                                                *)

\* synchronizeCombinedScheduleState, for one draft: an unchanged schedule
\* moves the draft to the new revision, a changed one replaces a clean draft
\* and is a conflict for a dirty one, unless it is what the draft was made of.
Synchronized(d, source, current) ==
    IF d.graph = source.graph
    THEN IF IsDirty(d) THEN [d EXCEPT !.pinned = current] ELSE d
    ELSE IF ~IsDirty(d) \/ source.points = d.points
    THEN FreshDraft(source)
    ELSE IF source.points = d.baseline
    THEN [d EXCEPT !.graph = source.graph, !.conflict = NoRevision]
    ELSE [d EXCEPT !.conflict = current]

Snapshot ==
    /\ live' = revision
    /\ draft' = [c \in EditedChannels |-> Synchronized(draft[c], stored[c], revision)]
    /\ refreshing' = FALSE
    /\ UNCHANGED <<Controller, selected, save, accepted, saves>>

SelectChannel(c) ==
    /\ c # selected
    /\ selected' = c
    /\ UNCHANGED <<Controller, live, draft, save, refreshing, accepted, saves>>

\* editDraft: the first change pins the page's revision.
EditDraft(x) ==
    /\ x # draft[selected].points
    /\ draft' = [draft EXCEPT ![selected].points = x,
                              ![selected].pinned = IF @ = NoRevision THEN live ELSE @]
    /\ UNCHANGED <<Controller, live, selected, save, refreshing, accepted, saves>>

\* restoreDraftPoints, an undo or a redo: the points of one channel change, and
\* every draft is pinned, the clean ones too.
RestorePoints(c, x) ==
    /\ x # draft[c].points
    /\ draft' = [d \in EditedChannels |->
                  [draft[d] EXCEPT !.points = IF d = c THEN x ELSE @,
                                   !.pinned = IF @ = NoRevision THEN live ELSE @]]
    /\ UNCHANGED <<Controller, live, selected, save, refreshing, accepted, saves>>

\* discardAll, which the editor offers to its page: every draft is what it was
\* made of, and in no conflict any more.
DiscardAll ==
    /\ draft' = [c \in EditedChannels |->
                  [draft[c] EXCEPT !.points = draft[c].baseline, !.pinned = NoRevision,
                                   !.conflict = NoRevision]]
    /\ UNCHANGED <<Controller, live, selected, save, refreshing, accepted, saves>>

\* saveAll: every dirty draft, with the oldest revision any was made on, and
\* only while none is in conflict.
SaveAll ==
    LET tokens == {live} \cup ({draft[c].pinned : c \in DirtyChannels} \ {NoRevision}) IN
    /\ save = Idle
    /\ saves < MaxSaves
    /\ DirtyChannels # {}
    /\ \A c \in DirtyChannels : draft[c].conflict = NoRevision
    /\ save' = [status |-> "sent", revision |-> 0,
                token |-> CHOOSE t \in tokens : \A u \in tokens : t <= u,
                written |-> [c \in DirtyChannels |-> draft[c].points],
                based |-> [c \in DirtyChannels |-> draft[c].graph]]
    /\ saves' = saves + 1
    /\ UNCHANGED <<Controller, live, draft, selected, refreshing, accepted>>

MutantSaved(d, points, at) ==
    [d EXCEPT !.baseline = points, !.points = points, !.pinned = NoRevision,
              !.conflict = NoRevision]

\* The saved action: what was sent is the new baseline, and what was changed
\* since stays a draft, of the save's revision.
Saved(d, points, at) ==
    [d EXCEPT !.baseline = points, !.conflict = NoRevision,
              !.pinned = IF d.points # points THEN at ELSE NoRevision]

ReceiveSaved ==
    /\ save.status = "taken"
    /\ draft' = [c \in EditedChannels |-> IF c \in DOMAIN save.written
                                    THEN Saved(draft[c], save.written[c], save.revision)
                                    ELSE draft[c]]
    /\ save' = Idle
    /\ refreshing' = TRUE
    /\ UNCHANGED <<Controller, live, selected, accepted, saves>>

\* The revision_conflict action, for every draft sent; one of them is shown.
ReceiveConflict ==
    /\ save.status = "refused"
    /\ draft' = [c \in EditedChannels |-> IF c \in DOMAIN save.written
                                    THEN [draft[c] EXCEPT !.conflict = save.revision]
                                    ELSE draft[c]]
    /\ selected' \in DOMAIN save.written
    /\ save' = Idle
    /\ refreshing' = TRUE
    /\ UNCHANGED <<Controller, live, accepted, saves>>

ReceiveNothing ==
    /\ save.status = "lost"
    /\ save' = Idle
    /\ refreshing' = TRUE
    /\ UNCHANGED <<Controller, live, draft, selected, accepted, saves>>

\* The user keeps the draft that is shown, once the page has read the
\* revision of the conflict: every dirty draft is then of this revision.
AcceptConflict ==
    /\ draft[selected].conflict # NoRevision
    /\ draft[selected].conflict <= live
    /\ DirtyChannels # {}
    /\ draft' = [c \in EditedChannels |-> IF IsDirty(draft[c])
                                    THEN [draft[c] EXCEPT !.pinned = live,
                                                          !.conflict = NoRevision]
                                    ELSE draft[c]]
    /\ accepted' = live
    /\ UNCHANGED <<Controller, live, selected, save, refreshing, saves>>

----------------------------------------------------------------------------

EditorNext ==
    \/ \E c \in EditedChannels, x \in Contents : SomebodyElseSaves(c, x)
    \/ BackgroundChange
    \/ TakeSave \/ TakeUnchangedSave \/ RefuseSave \/ LoseSave
    \/ Snapshot \/ AcceptConflict \/ DiscardAll \/ SaveAll
    \/ \E c \in EditedChannels : SelectChannel(c)
    \/ \E x \in Contents : EditDraft(x) \/ \E c \in EditedChannels : RestorePoints(c, x)
    \/ ReceiveSaved \/ ReceiveConflict \/ ReceiveNothing

EditorSafety == EditorInit /\ [][EditorNext]_editorVars

----------------------------------------------------------------------------
(* Properties.                                                              *)

\* What a save of the page would replace unseen: a schedule somebody else has
\* put there, of which the draft was not made, and no conflict with which the
\* user has accepted.
Unseen(c) ==
    /\ c \in DOMAIN save.written
    /\ stored[c].points # save.written[c]
    /\ ~stored[c].own
    /\ stored[c].graph # save.based[c]
    /\ stored[c].at > accepted

\* A draft is never submitted over somebody else's schedule without the user
\* having accepted the conflict (docs/remaining-work-plan.md).
NoSilentOverwrite == [][TakeSave => \A c \in EditedChannels : ~Unseen(c)]_editorVars

\* What the user has drawn is only changed by the user: whatever arrives, the
\* points of a dirty draft stay, until they are what the controller has.
DraftsSurvive ==
    [][\A c \in EditedChannels :
         (IsDirty(draft[c]) /\ draft'[c].points # draft[c].points) =>
             DiscardAll \/ \E x \in Contents : EditDraft(x) \/ RestorePoints(c, x)]_editorVars
=============================================================================
