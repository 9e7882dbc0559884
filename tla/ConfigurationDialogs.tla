------------------------ MODULE ConfigurationDialogs ------------------------
(***************************************************************************)
(* The two dialogs that hand in a whole collection at once, the areas or   *)
(* the channels of an area (AreaManagementDialog.tsx,                       *)
(* ChannelManagementDialog.tsx).                                            *)
(*                                                                         *)
(* A dialog copies the rows of its page when it opens and keeps the copy    *)
(* while the page goes on to newer snapshots; the revision it hands in is   *)
(* the page's when the user first touched the draft (useDraftRevision).     *)
(***************************************************************************)
EXTENDS Configuration

CONSTANT Pages

VARIABLE page       \* page -> its revision and its open dialog

\* A page at some revision with no dialog open.
Closed(live) == [live |-> live, form |-> "none", draft |-> {}, added |-> {},
                 shown |-> {}, pinned |-> NoRevision]

DialogTypeOK ==
    \A p \in Pages :
        /\ page[p].live \in 0..revision
        /\ page[p].form \in {"none", "areas"} \cup Areas
        /\ page[p].draft \cup page[p].added \cup page[p].shown \subseteq Areas \cup Channels
        /\ page[p].pinned \in 0..revision \cup {NoRevision}

DialogInit == page = [p \in Pages |-> Closed(0)]

\* The page takes a newer snapshot; an open dialog keeps its copy.
Refresh(p) ==
    /\ page[p].live < revision
    /\ page' = [page EXCEPT ![p].live = revision]
    /\ UNCHANGED configVars

\* A dialog opens with a copy of the rows of the page's snapshot.  To open
\* from an old snapshot is to have opened it while the snapshot was new.
Open(p, form, rows) ==
    /\ page[p].form = "none"
    /\ page[p].live = revision
    /\ page' = [page EXCEPT ![p] = [@ EXCEPT !.form = form, !.draft = rows,
                                             !.shown = rows]]
    /\ UNCHANGED configVars

OpenAreaManager(p) == Open(p, "areas", Existing(Areas))
OpenChannelManager(p, a) == Exists(a) /\ Open(p, a, ChannelsOf(a))

\* The first edit pins the page's revision.
Pinned(d) == IF d.pinned = NoRevision THEN d.live ELSE d.pinned

RemoveRow(p, x) ==
    /\ x \in page[p].draft \cup page[p].added
    /\ page' = [page EXCEPT ![p] = [page[p] EXCEPT !.draft = @ \ {x}, !.added = @ \ {x},
                                                   !.pinned = Pinned(page[p])]]
    /\ UNCHANGED configVars

AddRow(p, x) ==
    /\ page[p].form # "none"
    /\ x \in IF page[p].form = "areas" THEN Areas ELSE Channels \ page[p].shown
    /\ x \notin page[p].draft \cup page[p].added
    /\ page' = [page EXCEPT ![p] = [page[p] EXCEPT !.added = @ \cup {x},
                                                   !.pinned = Pinned(page[p])]]
    /\ UNCHANGED configVars

\* Save is offered when the draft differs from the page's rows.
Dirty(p, rows) ==
    \/ page[p].pinned # NoRevision
    \/ page[p].live = revision /\ page[p].draft # rows

\* The dialogs hand in their draft and close; a refused save leaves them open.
SaveAreas(p) ==
    /\ page[p].form = "areas"
    /\ Dirty(p, Existing(Areas))
    /\ ReplaceControlAreas(page[p].draft, page[p].added, Pinned(page[p]))
    /\ page' = [page EXCEPT ![p] = Closed(@.live)]

SaveChannels(p) ==
    /\ page[p].form \in Areas
    /\ Dirty(p, ChannelsOf(page[p].form))
    /\ ReplaceControlAreaChannels(page[p].form,
                                  page[p].draft \cup page[p].added,
                                  Pinned(page[p]))
    /\ page' = [page EXCEPT ![p] = Closed(@.live)]

CloseDialog(p) ==
    /\ page[p].form # "none"
    /\ page' = [page EXCEPT ![p] = Closed(@.live)]
    /\ UNCHANGED configVars

DialogStep(p) ==
    \/ OpenAreaManager(p) \/ CloseDialog(p)
    \/ \E a \in Areas : OpenChannelManager(p, a)
    \/ \E x \in Areas \cup Channels : RemoveRow(p, x) \/ AddRow(p, x)
    \/ SaveAreas(p) \/ SaveChannels(p)

EditWithoutDialog(token) ==
    /\ \/ EditArea(token) \/ EditChannel(token) \/ EditDevice(token)
       \/ (\E r \in Profiles : EditProfile(token, r))
       \/ EditElsewhere(token)
    /\ UNCHANGED page

DialogNext ==
    \/ \E p \in Pages : DialogStep(p) \/ Refresh(p)
    \/ \E token \in 0..revision : EditWithoutDialog(token)
    \/ ControllerCommits /\ UNCHANGED page

dialogVars == <<configVars, page>>

DialogSafety == ConfigInit /\ DialogInit /\ [][DialogNext]_dialogVars

SaveDialog(p) == SaveAreas(p) \/ SaveChannels(p)
Removed(x) == Exists(x) /\ born'[x] # born[x]

(* An operator's edit in between refuses the draft (docs/architecture.md): *)
(* a dialog that is saved removes only rows it showed, and what belongs to  *)
(* them.                                                                   *)
DialogRemovesWhatItShowed ==
    [][\A p \in Pages : SaveDialog(p) =>
         \A x \in Rows : Removed(x) =>
            \/ x \in page[p].shown
            \/ x \in Channels /\ kind[x] \in page[p].shown]_dialogVars
=============================================================================
