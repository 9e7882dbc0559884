--------------------------- MODULE Configuration ---------------------------
(***************************************************************************)
(* The configuration as the controller stores it: control areas with their *)
(* throttles and channels, the profiles that map channels to the pins of a  *)
(* piece of hardware, and the devices that a profile is assigned to         *)
(* (controller-configuration-repository.ts).                                *)
(*                                                                         *)
(* Names, colours, orders and pins are left out; a schedule is heavy or     *)
(* not, which is what the capacity of a profile depends on; outputs, which  *)
(* no page can create, and alert rules, which AlertLifecycle has, are left  *)
(* out.                                                                    *)
(***************************************************************************)
EXTENDS OperatorConcurrency, FiniteSets

CONSTANTS
    Areas, Channels, Profiles, Devices,
    Hardware,       \* the hardware profiles that a board can report
    Capacity        \* how many heavy schedules fit the firmware's 4095 bytes

ASSUME CapacityAssumption == Capacity \in Nat

\* What is stored is of one sort, and what stands for nothing is none of it.
ASSUME SortsAssumption ==
    /\ Areas # {} /\ Channels # {} /\ Hardware # {}
    /\ Areas \cap Channels = {} /\ Areas \cap Profiles = {} /\ Channels \cap Profiles = {}
    /\ {"none", "areas"} \cap Areas = {}
    /\ "unmapped" \notin Profiles /\ "unreported" \notin Hardware

VARIABLES
    born,       \* area, channel or profile -> the revision that wrote its row
    throttles,  \* the areas that have a row of throttles
    kind,       \* channel -> the area it belongs to
    heavy,      \* the channels whose schedule is heavy
    mapping,    \* profile -> the channels it maps to pins
    hardware,   \* profile -> the hardware it is for
    assigned,   \* device -> its profile
    reported,   \* device -> the hardware it announced
    overridden  \* the channels with a row of overrides

tables == <<born, throttles, kind, heavy, mapping, hardware, assigned, reported,
            overridden>>
configVars == <<revision, floor, tables>>

NoProfile == "unmapped"
Unreported == "unreported"

Rows == Areas \cup Channels \cup Profiles
Exists(x) == born[x] # NoRevision
Existing(S) == {x \in S : Exists(x)}
ChannelsOf(a) == {c \in Existing(Channels) : kind[c] = a}

ConfigTypeOK ==
    /\ revision \in 0..MaxRevision
    /\ floor \in 0..revision
    /\ born \in [Rows -> 0..MaxRevision \cup {NoRevision}]
    /\ throttles \subseteq Areas
    /\ kind \in [Channels -> Areas]
    /\ heavy \subseteq Channels
    /\ mapping \in [Profiles -> SUBSET Channels]
    /\ hardware \in [Profiles -> Hardware]
    /\ assigned \in [Devices -> Profiles \cup {NoProfile}]
    /\ reported \in [Devices -> Hardware \cup {Unreported}]
    /\ overridden \subseteq Channels

\* One area with one channel, no profile, and devices with old firmware.
ConfigInit ==
    /\ revision = 0 /\ floor = 0
    /\ LET a == CHOOSE a \in Areas : TRUE
           c == CHOOSE c \in Channels : TRUE
       IN /\ born = [x \in Rows |-> IF x \in {a, c} THEN 0 ELSE NoRevision]
          /\ throttles = {a}
          /\ kind = [x \in Channels |-> a]
    /\ heavy = {} /\ overridden = {}
    /\ mapping = [r \in Profiles |-> {}]
    /\ hardware = [r \in Profiles |-> CHOOSE h \in Hardware : TRUE]
    /\ assigned = [d \in Devices |-> NoProfile]
    /\ reported = [d \in Devices |-> Unreported]

----------------------------------------------------------------------------
(* What the repository's mutations share.                                   *)

MutantDeletable(c) == c \notin overridden

\* A row the database would leave others pointing at is not deleted: a
\* channel that a profile maps or that has an override.
Deletable(c) ==
    /\ \A r \in Profiles : c \notin mapping[r]
    /\ c \notin overridden

\* The preflight of a schedule edit, over every profile.
Fits(mapped, weighty) ==
    \A r \in Profiles : Cardinality(mapped[r] \cap weighty) <= Capacity

\* Neither an area nor a multiplier goes by that type yet.
Available(a) == ~Exists(a) /\ a \notin throttles

\* The rows after deleting some and writing others; a row that is written
\* again counts as the new one.
Reborn(deleted, written) ==
    [x \in Rows |-> IF x \in written THEN revision'
                    ELSE IF x \in deleted THEN NoRevision ELSE born[x]]

Commit(token, deleted, written) ==
    /\ OperatorCommit(token)
    /\ born' = Reborn(deleted, written)

----------------------------------------------------------------------------
(* Areas and channels.                                                      *)

CreateControlArea(token, a) ==
    /\ Available(a)
    /\ Commit(token, {}, {a})
    /\ throttles' = throttles \cup {a}
    /\ UNCHANGED <<kind, heavy, mapping, hardware, assigned, reported, overridden>>

DeleteControlArea(token, a) ==
    /\ Exists(a)
    /\ \A c \in ChannelsOf(a) : Deletable(c)
    /\ Commit(token, {a} \cup ChannelsOf(a), {})
    /\ throttles' = throttles \ {a}
    /\ heavy' = heavy \ ChannelsOf(a)
    /\ UNCHANGED <<kind, mapping, hardware, assigned, reported, overridden>>

\* What a replacement of the collection leaves out, and all it owns.
Dropped(retained) == Existing(Areas) \ retained
OwnedBy(gone) == UNION {ChannelsOf(a) : a \in gone}

\* Whether the new collection can be had from the rows as they are.
AreasReplaceable(retained, new) ==
    LET gone == Dropped(retained) IN
    /\ \A a \in retained : Exists(a)
    /\ retained \cap new = {}
    /\ gone \cup new # {}
    /\ \A c \in OwnedBy(gone) : Deletable(c)
    /\ \A a \in new : a \in throttles => a \in gone

\* The areas not retained go, with their throttle, channels and schedules.
ReplaceControlAreas(retained, new, token) ==
    LET gone == Dropped(retained) IN
    /\ AreasReplaceable(retained, new)
    /\ Commit(token, gone \cup OwnedBy(gone), new)
    /\ throttles' = (throttles \ gone) \cup new
    /\ heavy' = heavy \ OwnedBy(gone)
    /\ UNCHANGED <<kind, mapping, hardware, assigned, reported, overridden>>

CreateChannel(token, c, a) ==
    /\ ~Exists(c)
    /\ a \in throttles
    /\ Commit(token, {}, {c})
    /\ kind' = [kind EXCEPT ![c] = a]
    /\ UNCHANGED <<throttles, heavy, mapping, hardware, assigned, reported, overridden>>

DeleteChannel(token, c) ==
    /\ Exists(c)
    /\ Deletable(c)
    /\ Commit(token, {c}, {})
    /\ heavy' = heavy \ {c}
    /\ UNCHANGED <<throttles, kind, mapping, hardware, assigned, reported, overridden>>

\* A listed channel that the area has not is created, whether it is new or was
\* deleted meanwhile.
ChannelsReplaceable(a, listed) ==
    LET new == listed \ ChannelsOf(a) IN
    /\ Exists(a)
    /\ new # {} => a \in throttles
    /\ \A c \in new : ~Exists(c)
    /\ \A c \in ChannelsOf(a) \ listed : Deletable(c)
    /\ listed # ChannelsOf(a)

\* Whatever channel of the area the list leaves out is deleted.
ReplaceControlAreaChannels(a, listed, token) ==
    LET gone == ChannelsOf(a) \ listed
        new == listed \ ChannelsOf(a)
    IN
    /\ ChannelsReplaceable(a, listed)
    /\ Commit(token, gone, new)
    /\ kind' = [c \in Channels |-> IF c \in new THEN a ELSE kind[c]]
    /\ heavy' = heavy \ gone
    /\ UNCHANGED <<throttles, mapping, hardware, assigned, reported, overridden>>

\* A schedule is replaced only if every profile still fits.
ReplaceSchedule(token, c) ==
    LET edited == (heavy \cup {c}) \ (heavy \cap {c}) IN
    /\ Exists(c)
    /\ Fits(mapping, edited)
    /\ OperatorCommit(token)
    /\ heavy' = edited
    /\ UNCHANGED <<born, throttles, kind, mapping, hardware, assigned, reported,
                   overridden>>

\* A new name, colour or percentage of what exists: a revision, and none of
\* what this module keeps of the row.
RenameControlArea(token, a) == Exists(a) /\ OperatorCommit(token) /\ UNCHANGED tables
UpdateChannel(token, c) == Exists(c) /\ OperatorCommit(token) /\ UNCHANGED tables
UpdateThrottle(token, a) == a \in throttles /\ OperatorCommit(token) /\ UNCHANGED tables

----------------------------------------------------------------------------
(* Profiles and devices.                                                    *)

\* The boards that are known not to be what the profile would be for.
Mismatched(r, board) ==
    {d \in Devices : assigned[d] = r /\ reported[d] \notin {Unreported, board}}

\* The targets have to exist; whether their schedules fit is not asked.
ReplaceMappingProfile(token, r, targets, board) ==
    /\ \A c \in targets : Exists(c)
    /\ Mismatched(r, board) = {}
    /\ ~Exists(r) \/ targets # mapping[r] \/ board # hardware[r]
    /\ Commit(token, {}, {r})
    /\ mapping' = [mapping EXCEPT ![r] = targets]
    /\ hardware' = [hardware EXCEPT ![r] = board]
    /\ UNCHANGED <<throttles, kind, heavy, assigned, reported, overridden>>

\* The devices of a deleted profile are unmapped first.
DeleteMappingProfile(token, r) ==
    /\ Exists(r)
    /\ Commit(token, {r}, {})
    /\ mapping' = [mapping EXCEPT ![r] = {}]
    /\ assigned' = [d \in Devices |-> IF assigned[d] = r THEN NoProfile ELSE assigned[d]]
    /\ UNCHANGED <<throttles, kind, heavy, hardware, reported, overridden>>

\* The edit of a device names its profile, in the transaction that creates
\* the operation: whether the device takes the edit comes later.
AssignProfile(token, d, r) ==
    /\ r # NoProfile => Exists(r) /\ reported[d] \in {Unreported, hardware[r]}
    /\ OperatorCommit(token)
    /\ assigned' = [assigned EXCEPT ![d] = r]
    /\ UNCHANGED <<born, throttles, kind, heavy, mapping, hardware, reported, overridden>>

MutantKept(d, board) == assigned[d]

\* An announcement unmaps a device whose board the profile is not for.
Kept(d, board) ==
    IF assigned[d] # NoProfile /\ hardware[assigned[d]] # board
    THEN NoProfile ELSE assigned[d]

Announce(d, board) ==
    /\ reported[d] # board
    /\ BackgroundCommit
    /\ reported' = [reported EXCEPT ![d] = board]
    /\ assigned' = [assigned EXCEPT ![d] = Kept(d, board)]
    /\ UNCHANGED <<born, throttles, kind, heavy, mapping, hardware, overridden>>

----------------------------------------------------------------------------
(* The rest of what commits.                                                *)

\* An override of a channel that some profile maps leaves a row for good.
OverrideChannel(c) ==
    /\ Exists(c) /\ c \notin overridden
    /\ \E r \in Profiles : c \in mapping[r]
    /\ BackgroundCommit
    /\ overridden' = overridden \cup {c}
    /\ UNCHANGED <<born, throttles, kind, heavy, mapping, hardware, assigned, reported>>

\* A device included or excluded, an alert rule.
EditElsewhere(token) == OperatorCommit(token) /\ UNCHANGED tables
CommitElsewhere == BackgroundCommit /\ UNCHANGED tables

EditArea(token) ==
    \E a \in Areas : CreateControlArea(token, a) \/ DeleteControlArea(token, a)
                     \/ RenameControlArea(token, a) \/ UpdateThrottle(token, a)

EditChannel(token) ==
    \E c \in Channels : DeleteChannel(token, c) \/ ReplaceSchedule(token, c)
                        \/ UpdateChannel(token, c)
                        \/ \E a \in Areas : CreateChannel(token, c, a)

EditProfile(token, r) ==
    \/ \E targets \in SUBSET Channels, board \in Hardware :
         ReplaceMappingProfile(token, r, targets, board)
    \/ DeleteMappingProfile(token, r)

EditDevice(token) ==
    \E d \in Devices, r \in Profiles \cup {NoProfile} : AssignProfile(token, d, r)

ControllerCommits ==
    \/ \E c \in Channels : OverrideChannel(c)
    \/ \E d \in Devices, board \in Hardware : Announce(d, board)
    \/ CommitElsewhere

----------------------------------------------------------------------------
(* Whatever is edited from however many pages, no row is left pointing at   *)
(* one that is gone or is of another kind: an area has its throttle, a      *)
(* channel its area, what a profile maps or an override was of is still a   *)
(* channel, and a device is driven through a profile that exists and is for *)
(* the board it says it is.                                                 *)
NothingDangles ==
    /\ throttles = Existing(Areas)
    /\ \A c \in Existing(Channels) : kind[c] \in Existing(Areas)
    /\ \A r \in Profiles : mapping[r] \subseteq Existing(Channels)
    /\ overridden \subseteq Existing(Channels)
    /\ \A d \in Devices : assigned[d] # NoProfile =>
         /\ assigned[d] \in Existing(Profiles)
         /\ reported[d] \in {Unreported, hardware[assigned[d]]}
=============================================================================
