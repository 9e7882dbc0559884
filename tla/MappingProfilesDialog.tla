------------------------ MODULE MappingProfilesDialog -----------------------
(***************************************************************************)
(* The dialog that edits one mapping profile at a time                      *)
(* (MappingProfilesDialog.tsx) beside the two that replace a collection.    *)
(*                                                                         *)
(* Unlike those it stays open when it has saved, follows the snapshots of   *)
(* its page, and after a refused save goes by the newest revision it has    *)
(* heard of.  A save is on its way until its answer is received; the        *)
(* controller takes it or refuses it when it is sent.  A deletion has its   *)
(* answer at once.                       *)
(***************************************************************************)
EXTENDS ConfigurationDialogs

VARIABLE editor     \* page -> its open profile, draft and what it remembers

profileVars == <<dialogVars, editor>>

Higher(a, b) == IF a < b THEN b ELSE a

\* What a profile is: the channels it maps, the hardware it is for.
ContentOf(r) == [to |-> mapping[r], on |-> hardware[r]]
Blank == [to |-> {}, on |-> CHOOSE h \in Hardware : TRUE]

NoAnswer == [kind |-> "none", revision |-> NoRevision, draft |-> Blank]
NothingSaved == [revision |-> NoRevision, draft |-> Blank]

\* No profile open; what the page's saves were accepted as is remembered.
Shut(accepted) ==
    [profile |-> NoProfile, new |-> FALSE, original |-> Blank, draft |-> Blank,
     touched |-> FALSE, pinned |-> NoRevision, conflict |-> NoRevision,
     denied |-> 0, saved |-> NothingSaved, answer |-> NoAnswer, accepted |-> accepted]

\* An editor of what a page shows, or of a draft of its own.
Editing(r, new, content, accepted) ==
    [Shut(accepted) EXCEPT !.profile = r, !.new = new, !.original = content,
                           !.draft = content]

ProfileInit ==
    /\ ConfigInit /\ DialogInit
    /\ editor = [p \in Pages |-> Shut(0)]

Busy(p) == editor[p].answer.kind # "none"

\* Until the page has the revision of the last save, the draft is compared
\* with what was saved.
ProfileDirty(p) ==
    LET e == editor[p] IN
    e.draft # (IF page[p].live < e.saved.revision THEN e.saved.draft ELSE e.original)

\* What a save or a deletion hands in: the pinned revision or, once a save was
\* refused, whatever the page has heard of since.
SaveToken(p) ==
    LET e == editor[p]
        drafted == IF e.pinned = NoRevision THEN page[p].live ELSE e.pinned
    IN  Higher(e.accepted, IF e.conflict = NoRevision THEN drafted
                           ELSE Higher(e.conflict, page[p].live))

DeleteToken(p) == Higher(editor[p].denied, Higher(page[p].live, editor[p].accepted))

----------------------------------------------------------------------------

\* A profile of the snapshot is opened.
SelectProfile(p, r) ==
    /\ page[p].form = "none" /\ editor[p].profile = NoProfile
    /\ page[p].live = revision /\ Exists(r)
    /\ editor' = [editor EXCEPT ![p] = Editing(r, FALSE, ContentOf(r), @.accepted)]
    /\ UNCHANGED dialogVars

\* A profile that is nowhere yet, empty or the copy of another.
StartNewProfile(p, r) ==
    /\ page[p].form = "none" /\ editor[p].profile = NoProfile
    /\ page[p].live = revision /\ ~Exists(r)
    /\ \A q \in Pages : editor[q].profile # r
    /\ \E content \in {Blank} \cup {ContentOf(other) : other \in Existing(Profiles)} :
         editor' = [editor EXCEPT ![p] = Editing(r, TRUE, content, @.accepted)]
    /\ UNCHANGED dialogVars

\* The first change pins the revision, coming back to the original frees it.
ApplyDraft(p, content) ==
    LET e == editor[p]
        touched == content # e.original
    IN
    /\ e.profile # NoProfile /\ content # e.draft
    /\ content.to \subseteq Existing(Channels) \cup e.draft.to
    /\ editor' = [editor EXCEPT ![p] =
                    [e EXCEPT !.draft = content, !.touched = touched,
                              !.pinned = IF ~touched THEN NoRevision
                                         ELSE IF @ = NoRevision THEN page[p].live
                                         ELSE @]]
    /\ UNCHANGED dialogVars

ResetDraft(p) ==
    /\ editor[p].profile # NoProfile /\ ProfileDirty(p) /\ ~Busy(p)
    /\ editor' = [editor EXCEPT ![p] =
                    [@ EXCEPT !.conflict = NoRevision, !.pinned = NoRevision,
                              !.draft = editor[p].original,
                              !.touched = FALSE]]
    /\ UNCHANGED dialogVars

Answered(p, sort, at) ==
    editor' = [editor EXCEPT ![p].answer =
                 [kind |-> sort, revision |-> at, draft |-> editor[p].draft]]

SaveTaken(p) ==
    LET e == editor[p] IN
    /\ ReplaceMappingProfile(SaveToken(p), e.profile, e.draft.to, e.draft.on)
    /\ Answered(p, "saved", revision')

\* What is stored already is accepted without a revision of its own.
SaveUnchanged(p) ==
    LET e == editor[p] IN
    /\ Accepts(SaveToken(p)) /\ Exists(e.profile) /\ e.draft = ContentOf(e.profile)
    /\ Answered(p, "saved", revision)
    /\ UNCHANGED configVars

SaveRefused(p) ==
    /\ ~Accepts(SaveToken(p))
    /\ Answered(p, "refused", revision)
    /\ UNCHANGED configVars

\* A save that the relations refuse leaves everything as it is.
SaveProfile(p) ==
    /\ editor[p].profile # NoProfile /\ ~Busy(p)
    /\ editor[p].new \/ ProfileDirty(p)
    /\ SaveTaken(p) \/ SaveUnchanged(p) \/ SaveRefused(p)
    /\ UNCHANGED page

\* The answer frees the pin and clears the conflict, or raises one; a new
\* profile is an ordinary one from then on, and its editor another.
ReceiveAnswer(p) ==
    LET e == editor[p]
        accepted == Higher(e.accepted, e.answer.revision)
    IN
    /\ Busy(p)
    /\ editor' = [editor EXCEPT ![p] =
         IF e.answer.kind = "refused"
         THEN [e EXCEPT !.conflict = e.answer.revision, !.answer = NoAnswer]
         ELSE IF e.new THEN Shut(accepted)
         ELSE [e EXCEPT !.saved = [revision |-> e.answer.revision,
                                   draft |-> e.answer.draft],
                        !.conflict = NoRevision, !.pinned = NoRevision,
                        !.accepted = accepted, !.answer = NoAnswer]]
    /\ UNCHANGED dialogVars

\* The confirmed deletion goes by what the page shows, not by the draft.
DeleteProfile(p) ==
    LET e == editor[p] IN
    /\ e.profile # NoProfile /\ ~e.new /\ ~Busy(p)
    /\ DeleteMappingProfile(DeleteToken(p), e.profile)
    /\ editor' = [editor EXCEPT ![p] = Shut(revision')]
    /\ UNCHANGED page

\* Once refused, it goes by the newest revision too.
RefuseDelete(p) ==
    LET e == editor[p] IN
    /\ e.profile # NoProfile /\ ~e.new /\ ~Busy(p)
    /\ ~Accepts(DeleteToken(p))
    /\ editor' = [editor EXCEPT ![p].denied = revision]
    /\ UNCHANGED dialogVars

\* Closing, with or without the unsaved changes; the answer to a save that is
\* under way is still heard.
CloseEditor(p) ==
    LET e == editor[p] IN
    /\ e.profile # NoProfile
    /\ editor' = [editor EXCEPT ![p] = Shut(
           IF e.answer.kind = "saved" THEN Higher(e.accepted, e.answer.revision)
           ELSE e.accepted)]
    /\ UNCHANGED dialogVars

\* A newer snapshot: the editor of a profile that is gone goes with its draft;
\* one that changed is taken over unless the draft has changes of its own.
FollowSnapshot(e) ==
    IF e.profile = NoProfile \/ e.new THEN e
    ELSE IF ~Exists(e.profile)
    THEN Shut(IF e.answer.kind = "saved" THEN Higher(e.accepted, e.answer.revision)
              ELSE e.accepted)
    ELSE LET original == ContentOf(e.profile)
             preserve == e.touched /\ e.draft # original
         IN  IF original = e.original THEN e
             ELSE [e EXCEPT !.original = original, !.touched = preserve,
                            !.draft = IF preserve THEN @ ELSE original,
                            !.pinned = IF preserve THEN @ ELSE NoRevision]

ProfileSnapshot(p) ==
    /\ Refresh(p)
    /\ editor' = [editor EXCEPT ![p] = FollowSnapshot(@)]

----------------------------------------------------------------------------

EditorStep(p) ==
    \/ \E r \in Profiles : SelectProfile(p, r) \/ StartNewProfile(p, r)
    \/ \E to \in SUBSET Channels, on \in Hardware :
         ApplyDraft(p, [to |-> to, on |-> on])
    \/ ResetDraft(p) \/ SaveProfile(p) \/ ReceiveAnswer(p)
    \/ DeleteProfile(p) \/ RefuseDelete(p) \/ CloseEditor(p)

\* No two profiles are given the same name by chance.
Drafted(r) == \E p \in Pages : editor[p].new /\ editor[p].profile = r

ConfiguredNext ==
    \/ \E p \in Pages : ProfileSnapshot(p) \/ EditorStep(p)
    \/ \E p \in Pages :
         editor[p].profile = NoProfile /\ DialogStep(p) /\ UNCHANGED editor
    \/ \E token \in 0..revision :
         /\ EditWithoutDialog(token)
         /\ \A r \in Profiles : Drafted(r) => born'[r] = born[r]
         /\ UNCHANGED editor
    \/ ControllerCommits /\ UNCHANGED <<page, editor>>

ConfigSafety == ProfileInit /\ [][ConfiguredNext]_profileVars

ProfileTypeOK ==
    \A p \in Pages :
        /\ editor[p].profile \in Profiles \cup {NoProfile}
        /\ editor[p].pinned \in 0..page[p].live \cup {NoRevision}
        /\ editor[p].conflict \in 0..revision \cup {NoRevision}
        /\ editor[p].accepted \in 0..revision

----------------------------------------------------------------------------
(* Saving a dialog removes no row that was written after the revision it    *)
(* hands in, by whomever: for the collections, after the user began to      *)
(* edit; for a profile, after that or the last refusal the page heard of.   *)
NoLossBeyondToken ==
    [][\A p \in Pages, x \in Rows : Removed(x) =>
         /\ SaveDialog(p) => born[x] <= Pinned(page[p])
         /\ SaveProfile(p) => born[x] <= SaveToken(p)
         /\ DeleteProfile(p) => born[x] <= DeleteToken(p)]_profileVars
=============================================================================
