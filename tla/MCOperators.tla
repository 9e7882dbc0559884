---------------------------- MODULE MCOperators -----------------------------
(***************************************************************************)
(* Model checking what operators ask for: the configuration and its        *)
(* dialogs, the schedule editor, and manual overrides.  The configuration  *)
(* and the editor take turns with the revision and its floor, which each   *)
(* of them shares with whoever else commits; as in MCDelivery one of the   *)
(* machines moves.  The dialogs that replace a collection and the one that *)
(* edits a profile are open in different behaviours (on a page one of them *)
(* covers the other): the first while the devices stay as they are, the    *)
(* second while the areas, the schedules and the overrides do, and no      *)
(* channel is created.  The editor has one commit less than they have.     *)
(***************************************************************************)
EXTENDS MappingProfilesDialog, ScheduleEditor, ManualOverrides

VARIABLE part       \* the machine that moves

configured == <<tables, page, editor>>
edited == <<stored, live, draft, selected, save, refreshing, accepted, saves>>
vars == <<part, revision, floor, configured, edited, overrideVars>>

Init ==
    /\ ProfileInit /\ EditorInit /\ OverrideInit
    /\ part \in {"collections", "profiles", "schedules", "overrides"}

Next ==
    /\ UNCHANGED part
    /\ \/ /\ part = "collections" /\ ConfiguredNext
          /\ UNCHANGED <<assigned, reported, editor, edited, overrideVars>>
       \/ /\ part = "profiles" /\ ConfiguredNext
          /\ \A p \in Pages : page'[p].form = "none"
          /\ \A c \in Channels : Exists(c)' => Exists(c)
          /\ UNCHANGED <<throttles, kind, heavy, overridden, edited, overrideVars>>
       \/ /\ part = "schedules" /\ EditorNext /\ revision' < MaxRevision
          /\ UNCHANGED <<configured, overrideVars>>
       \/ /\ part = "overrides" /\ OverrideNext
          /\ UNCHANGED <<revision, floor, configured, edited>>

\* The fairness of OverrideSpec; operators are under no obligation.
Spec ==
    /\ Init /\ [][Next]_vars
    /\ WF_overrideVars(part = "overrides" /\ AttemptStep)
    /\ WF_overrideVars(part = "overrides" /\ DueStep)
    /\ WF_overrideVars(part = "overrides" /\ StartUp)
    /\ WF_overrideVars(part = "overrides" /\ Tick)
=============================================================================
