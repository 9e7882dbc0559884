------------------------- MODULE ConfigurationProofs -------------------------
(***************************************************************************)
(* What holds of the configuration, of the dialogs that edit it and of the *)
(* drafts of the schedule editor, for any set of areas, channels,          *)
(* profiles, devices, pages and contents, and any number of commits.       *)
(***************************************************************************)
EXTENDS MappingProfilesDialog, ScheduleEditor, TLAPS

-----------------------------------------------------------------------------
(* The tables. *)

\* A row was written by the last operator's commit at the latest.
BornBelowFloor == \A x \in Rows : born[x] <= floor

\* What every mutation of the configuration preserves.
TablesInv == ConfigTypeOK /\ NothingDangles /\ BornBelowFloor

\* The first rows are in order.
LEMMA TablesInit == ConfigInit => TablesInv
<1> SUFFICES ASSUME ConfigInit PROVE TablesInv
  OBVIOUS
<1> DEFINE a == CHOOSE x \in Areas : TRUE
           c == CHOOSE x \in Channels : TRUE
           h == CHOOSE x \in Hardware : TRUE
<1>1. a \in Areas /\ c \in Channels /\ h \in Hardware /\ a \notin Channels /\ c \notin Areas
  BY SortsAssumption
<1>2. /\ revision = 0 /\ floor = 0 /\ throttles = {a} /\ heavy = {} /\ overridden = {}
      /\ born = [x \in Rows |-> IF x \in {a, c} THEN 0 ELSE NoRevision]
      /\ kind = [x \in Channels |-> a]
      /\ mapping = [r \in Profiles |-> {}] /\ hardware = [r \in Profiles |-> h]
      /\ assigned = [d \in Devices |-> NoProfile] /\ reported = [d \in Devices |-> Unreported]
  BY DEF ConfigInit
<1> HIDE DEF a, c, h
<1>3. ConfigTypeOK
  BY <1>1, <1>2, MaxRevisionAssumption DEF ConfigTypeOK, NoRevision
<1>4. Existing(Areas) = {a} /\ Existing(Channels) = {c}
  BY <1>1, <1>2 DEF Existing, Exists, Rows, NoRevision
<1>5. NothingDangles
  BY <1>1, <1>2, <1>4 DEF NothingDangles
<1>6. BornBelowFloor
  BY <1>2 DEF BornBelowFloor, NoRevision
<1>7. QED
  BY <1>3, <1>5, <1>6 DEF TablesInv

\* A commit takes the next revision.
LEMMA CommitAdvances ==
  ASSUME TablesInv, \/ \E token \in Int : OperatorCommit(token)
                    \/ BackgroundCommit
  PROVE  /\ revision' \in 0..MaxRevision /\ floor' \in 0..revision'
         /\ floor <= floor' /\ revision < revision'
  BY MaxRevisionAssumption DEF TablesInv, ConfigTypeOK, OperatorCommit, BackgroundCommit

\* An operator's commit that deletes and writes rows.
LEMMA CommitWrites ==
  ASSUME TablesInv, NEW token \in Int, NEW deleted, NEW written,
         Commit(token, deleted, written)
  PROVE  /\ revision' \in 0..MaxRevision /\ floor' \in 0..revision'
         /\ born' \in [Rows -> 0..MaxRevision \cup {NoRevision}]
         /\ BornBelowFloor'
         /\ \A x \in Rows : Exists(x)' <=> x \in written \/ (x \notin deleted /\ Exists(x))
<1>1. /\ revision' \in 0..MaxRevision /\ floor' \in 0..revision' /\ floor <= floor'
      /\ floor' = revision'
  BY CommitAdvances DEF Commit, OperatorCommit
<1>2. born' = [x \in Rows |-> IF x \in written THEN revision'
                              ELSE IF x \in deleted THEN NoRevision ELSE born[x]]
  BY DEF Commit, Reborn
<1>3. \A x \in Rows : born[x] \in 0..MaxRevision \cup {NoRevision} /\ born[x] <= floor
  BY DEF TablesInv, ConfigTypeOK, BornBelowFloor
<1>4. floor \in Int
  BY DEF TablesInv, ConfigTypeOK
<1>5. born' \in [Rows -> 0..MaxRevision \cup {NoRevision}]
  BY <1>1, <1>2, <1>3
<1>6. BornBelowFloor'
  BY <1>1, <1>2, <1>3, <1>4 DEF BornBelowFloor, NoRevision
<1>7. \A x \in Rows : Exists(x)' <=> x \in written \/ (x \notin deleted /\ Exists(x))
  BY <1>1, <1>2 DEF Exists, NoRevision
<1>8. QED
  BY <1>1, <1>5, <1>6, <1>7

\* A commit that leaves the rows alone.
LEMMA TablesStay ==
  ASSUME TablesInv, UNCHANGED tables,
         \/ \E token \in Int : OperatorCommit(token)
         \/ BackgroundCommit
         \/ UNCHANGED <<revision, floor>>
  PROVE  TablesInv'
<1>1. /\ revision' \in 0..MaxRevision /\ floor' \in 0..revision' /\ floor <= floor'
  BY CommitAdvances DEF TablesInv, ConfigTypeOK
<1>2. ConfigTypeOK'
  BY <1>1 DEF TablesInv, ConfigTypeOK, tables
<1>3. NothingDangles'
  BY DEF TablesInv, NothingDangles, Existing, Exists, tables
<1>4. floor \in Int /\ \A x \in Rows : born[x] \in Int
  BY DEF TablesInv, ConfigTypeOK, NoRevision
<1>5. BornBelowFloor'
  BY <1>1, <1>4 DEF TablesInv, BornBelowFloor, tables
<1>6. QED
  BY <1>2, <1>3, <1>5 DEF TablesInv

-----------------------------------------------------------------------------
(* Areas and channels. *)

\* The rest of TablesInv is a matter of what the rows' names stand for.
LEMMA CreateControlAreaKeeps ==
  ASSUME TablesInv, NEW token \in Int, NEW a \in Areas, CreateControlArea(token, a)
  PROVE  TablesInv'
<1>1. Commit(token, {}, {a})
  BY DEF CreateControlArea
<1>2. /\ revision' \in 0..MaxRevision /\ floor' \in 0..revision'
      /\ born' \in [Rows -> 0..MaxRevision \cup {NoRevision}] /\ BornBelowFloor'
      /\ \A x \in Rows : Exists(x)' <=> x = a \/ Exists(x)
  BY <1>1, CommitWrites
<1>3. Existing(Areas)' = Existing(Areas) \cup {a} /\ Existing(Channels)' = Existing(Channels)
  BY <1>2, SortsAssumption DEF Existing, Rows
<1>4. Existing(Profiles)' = Existing(Profiles)
  BY <1>2, SortsAssumption DEF Existing, Rows
<1>5. QED
  BY <1>2, <1>3, <1>4 DEF TablesInv, ConfigTypeOK, NothingDangles, CreateControlArea

\* An area goes with its channels, their schedules and their entries.
LEMMA DeleteControlAreaKeeps ==
  ASSUME TablesInv, NEW token \in Int, NEW a \in Areas, DeleteControlArea(token, a)
  PROVE  TablesInv'
<1> DEFINE gone == {a} \cup ChannelsOf(a)
<1>1. Commit(token, gone, {})
  BY DEF DeleteControlArea
<1>2. /\ revision' \in 0..MaxRevision /\ floor' \in 0..revision'
      /\ born' \in [Rows -> 0..MaxRevision \cup {NoRevision}] /\ BornBelowFloor'
      /\ \A x \in Rows : Exists(x)' <=> x \notin gone /\ Exists(x)
  BY <1>1, CommitWrites
<1>3. ChannelsOf(a) \subseteq Channels
  BY DEF ChannelsOf, Existing
<1>4. /\ Existing(Areas)' = Existing(Areas) \ {a}
      /\ Existing(Channels)' = Existing(Channels) \ ChannelsOf(a)
      /\ Existing(Profiles)' = Existing(Profiles)
  BY <1>2, <1>3, SortsAssumption DEF Existing, Rows
<1>5. \A c \in ChannelsOf(a) : (\A r \in Profiles : c \notin mapping[r]) /\ c \notin overridden
  BY DEF DeleteControlArea, Deletable
<1>6. ConfigTypeOK'
  BY <1>2 DEF TablesInv, ConfigTypeOK, DeleteControlArea
<1>7. \A c \in Existing(Channels)' : kind'[c] \in Existing(Areas)'
  BY <1>4 DEF TablesInv, NothingDangles, DeleteControlArea, ChannelsOf
<1>8. NothingDangles'
  BY <1>4, <1>5, <1>7 DEF TablesInv, NothingDangles, DeleteControlArea
<1>9. QED
  BY <1>2, <1>6, <1>8 DEF TablesInv

\* The areas that are left out go with the channels they own, which nothing
\* refers to.
LEMMA ReplaceControlAreasKeeps ==
  ASSUME TablesInv, NEW token \in Int, NEW retained, NEW new \in SUBSET Areas,
         ReplaceControlAreas(retained, new, token)
  PROVE  TablesInv'
<1> DEFINE gone == Dropped(retained)
           owned == OwnedBy(gone)
<1>1. Commit(token, gone \cup owned, new)
  BY DEF ReplaceControlAreas
<1>2. /\ revision' \in 0..MaxRevision /\ floor' \in 0..revision'
      /\ born' \in [Rows -> 0..MaxRevision \cup {NoRevision}] /\ BornBelowFloor'
      /\ \A x \in Rows : Exists(x)' <=> x \in new \/ (x \notin gone \cup owned /\ Exists(x))
  BY <1>1, CommitWrites
<1>3. gone \subseteq Areas /\ owned \subseteq Channels
  BY DEF Dropped, OwnedBy, ChannelsOf, Existing
<1>4. /\ Existing(Areas)' = (Existing(Areas) \ gone) \cup new
      /\ Existing(Channels)' = Existing(Channels) \ owned
      /\ Existing(Profiles)' = Existing(Profiles)
  BY <1>2, <1>3, SortsAssumption DEF Existing, Rows
<1>5. \A c \in owned : (\A r \in Profiles : c \notin mapping[r]) /\ c \notin overridden
  BY DEF ReplaceControlAreas, AreasReplaceable, Deletable
<1>6. ConfigTypeOK'
  BY <1>2, <1>3 DEF TablesInv, ConfigTypeOK, ReplaceControlAreas
<1>7. throttles' = Existing(Areas)'
  BY <1>4 DEF TablesInv, NothingDangles, ReplaceControlAreas
<1>8. \A c \in Existing(Channels)' : kind'[c] \in Existing(Areas)'
  <2> SUFFICES ASSUME NEW c \in Existing(Channels), c \notin owned
               PROVE  kind[c] \in Existing(Areas) \ gone
    BY <1>4 DEF ReplaceControlAreas
  <2>1. kind[c] \in Existing(Areas)
    BY DEF TablesInv, NothingDangles
  <2>2. kind[c] \notin gone
    BY <1>3 DEF OwnedBy, ChannelsOf
  <2>3. QED
    BY <2>1, <2>2
<1>9. NothingDangles'
  BY <1>4, <1>5, <1>7, <1>8 DEF TablesInv, NothingDangles, ReplaceControlAreas
<1>10. QED
  BY <1>2, <1>6, <1>9 DEF TablesInv

\* A channel is created in an area that has its throttle, so that exists.
LEMMA CreateChannelKeeps ==
  ASSUME TablesInv, NEW token \in Int, NEW c \in Channels, NEW a \in Areas,
         CreateChannel(token, c, a)
  PROVE  TablesInv'
<1>1. Commit(token, {}, {c})
  BY DEF CreateChannel
<1>2. /\ revision' \in 0..MaxRevision /\ floor' \in 0..revision'
      /\ born' \in [Rows -> 0..MaxRevision \cup {NoRevision}] /\ BornBelowFloor'
      /\ \A x \in Rows : Exists(x)' <=> x = c \/ Exists(x)
  BY <1>1, CommitWrites
<1>3. /\ Existing(Areas)' = Existing(Areas)
      /\ Existing(Channels)' = Existing(Channels) \cup {c}
      /\ Existing(Profiles)' = Existing(Profiles)
  BY <1>2, SortsAssumption DEF Existing, Rows
<1>4. ConfigTypeOK' /\ \A x \in Channels : kind'[x] = IF x = c THEN a ELSE kind[x]
  BY <1>2 DEF TablesInv, ConfigTypeOK, CreateChannel
<1>5. \A x \in Existing(Channels)' : kind'[x] \in Existing(Areas)'
  BY <1>3, <1>4 DEF TablesInv, NothingDangles, CreateChannel, Existing
<1>6. NothingDangles'
  BY <1>3, <1>5 DEF TablesInv, NothingDangles, CreateChannel
<1>7. QED
  BY <1>2, <1>4, <1>6 DEF TablesInv

\* A channel goes with its schedule and the entries that name it.
LEMMA DeleteChannelKeeps ==
  ASSUME TablesInv, NEW token \in Int, NEW c \in Channels, DeleteChannel(token, c)
  PROVE  TablesInv'
<1>1. Commit(token, {c}, {})
  BY DEF DeleteChannel
<1>2. /\ revision' \in 0..MaxRevision /\ floor' \in 0..revision'
      /\ born' \in [Rows -> 0..MaxRevision \cup {NoRevision}] /\ BornBelowFloor'
      /\ \A x \in Rows : Exists(x)' <=> x # c /\ Exists(x)
  BY <1>1, CommitWrites
<1>3. /\ Existing(Areas)' = Existing(Areas)
      /\ Existing(Channels)' = Existing(Channels) \ {c}
      /\ Existing(Profiles)' = Existing(Profiles)
  BY <1>2, SortsAssumption DEF Existing, Rows
<1>4. ConfigTypeOK'
  BY <1>2 DEF TablesInv, ConfigTypeOK, DeleteChannel
<1>5. NothingDangles'
  BY <1>3 DEF TablesInv, NothingDangles, DeleteChannel, Deletable
<1>6. QED
  BY <1>2, <1>4, <1>5 DEF TablesInv

\* The channels a page does not hand in are deleted like any other.
LEMMA ReplaceControlAreaChannelsKeeps ==
  ASSUME TablesInv, NEW token \in Int, NEW a \in Areas, NEW listed \in SUBSET Channels,
         ReplaceControlAreaChannels(a, listed, token)
  PROVE  TablesInv'
<1> DEFINE gone == ChannelsOf(a) \ listed
           new == listed \ ChannelsOf(a)
<1>1. Commit(token, gone, new)
  BY DEF ReplaceControlAreaChannels
<1>2. /\ revision' \in 0..MaxRevision /\ floor' \in 0..revision'
      /\ born' \in [Rows -> 0..MaxRevision \cup {NoRevision}] /\ BornBelowFloor'
      /\ \A x \in Rows : Exists(x)' <=> x \in new \/ (x \notin gone /\ Exists(x))
  BY <1>1, CommitWrites
<1>3. gone \subseteq Channels /\ new \subseteq Channels /\ gone \cap new = {}
  BY DEF ChannelsOf, Existing
<1>4. /\ Existing(Areas)' = Existing(Areas)
      /\ Existing(Channels)' = (Existing(Channels) \ gone) \cup new
      /\ Existing(Profiles)' = Existing(Profiles)
  BY <1>2, <1>3, SortsAssumption DEF Existing, Rows
<1>5. ConfigTypeOK' /\ \A x \in Channels : kind'[x] = IF x \in new THEN a ELSE kind[x]
  BY <1>2 DEF TablesInv, ConfigTypeOK, ReplaceControlAreaChannels
<1>6. a \in Existing(Areas) /\ \A c \in gone : Deletable(c)
  BY DEF ReplaceControlAreaChannels, ChannelsReplaceable, Existing
<1>7. \A x \in Existing(Channels)' : kind'[x] \in Existing(Areas)'
  BY <1>3, <1>4, <1>5, <1>6 DEF TablesInv, NothingDangles, Existing
<1>8. NothingDangles'
  BY <1>4, <1>6, <1>7 DEF TablesInv, NothingDangles, ReplaceControlAreaChannels, Deletable
<1>9. QED
  BY <1>2, <1>5, <1>8 DEF TablesInv

\* A schedule is replaced only for a channel that is there.
LEMMA ReplaceScheduleKeeps ==
  ASSUME TablesInv, NEW token \in Int, NEW c \in Channels, ReplaceSchedule(token, c)
  PROVE  TablesInv'
<1>1. /\ revision' \in 0..MaxRevision /\ floor' \in 0..revision' /\ floor <= floor'
  BY CommitAdvances DEF ReplaceSchedule
<1>2. /\ UNCHANGED <<born, throttles, kind, mapping, hardware, assigned, reported, overridden>>
      /\ heavy' \subseteq Channels
  BY DEF ReplaceSchedule, TablesInv, ConfigTypeOK
<1>3. ConfigTypeOK'
  BY <1>1, <1>2 DEF TablesInv, ConfigTypeOK
<1>4. NothingDangles'
  BY <1>2 DEF TablesInv, NothingDangles, Existing, Exists
<1>5. floor \in Int /\ \A x \in Rows : born[x] \in Int
  BY DEF TablesInv, ConfigTypeOK, NoRevision
<1>6. BornBelowFloor'
  BY <1>1, <1>2, <1>5 DEF TablesInv, BornBelowFloor
<1>7. QED
  BY <1>3, <1>4, <1>6 DEF TablesInv

-----------------------------------------------------------------------------
(* Profiles and devices. *)

\* A profile is changed only while no device it drives is known to be another
\* board.
LEMMA ReplaceMappingProfileKeeps ==
  ASSUME TablesInv, NEW token \in Int, NEW r \in Profiles,
         NEW targets \in SUBSET Channels, NEW board \in Hardware,
         ReplaceMappingProfile(token, r, targets, board)
  PROVE  TablesInv'
<1>1. Commit(token, {}, {r})
  BY DEF ReplaceMappingProfile
<1>2. /\ revision' \in 0..MaxRevision /\ floor' \in 0..revision'
      /\ born' \in [Rows -> 0..MaxRevision \cup {NoRevision}] /\ BornBelowFloor'
      /\ \A x \in Rows : Exists(x)' <=> x = r \/ Exists(x)
  BY <1>1, CommitWrites
<1>3. /\ Existing(Areas)' = Existing(Areas)
      /\ Existing(Channels)' = Existing(Channels)
      /\ Existing(Profiles)' = Existing(Profiles) \cup {r}
  BY <1>2, SortsAssumption DEF Existing, Rows
<1>4. /\ ConfigTypeOK'
      /\ \A q \in Profiles : /\ mapping'[q] = IF q = r THEN targets ELSE mapping[q]
                             /\ hardware'[q] = IF q = r THEN board ELSE hardware[q]
  BY <1>2 DEF TablesInv, ConfigTypeOK, ReplaceMappingProfile
<1>5. targets \subseteq Existing(Channels)
  BY DEF ReplaceMappingProfile, Existing
<1>6. \A d \in Devices : assigned'[d] # NoProfile =>
          /\ assigned'[d] \in Existing(Profiles)'
          /\ reported'[d] \in {Unreported, hardware'[assigned'[d]]}
  <2> SUFFICES ASSUME NEW d \in Devices, assigned[d] # NoProfile
               PROVE  /\ assigned[d] \in Existing(Profiles) \cup {r}
                      /\ reported[d] \in {Unreported, hardware'[assigned[d]]}
    BY <1>3 DEF ReplaceMappingProfile
  <2>1. /\ assigned[d] \in Existing(Profiles) /\ assigned[d] \in Profiles
        /\ reported[d] \in {Unreported, hardware[assigned[d]]}
    BY DEF TablesInv, NothingDangles, Existing
  <2>2. assigned[d] = r => reported[d] \in {Unreported, board}
    BY DEF ReplaceMappingProfile, Mismatched
  <2>3. QED
    BY <1>4, <2>1, <2>2
<1>7. NothingDangles'
  BY <1>3, <1>4, <1>5, <1>6 DEF TablesInv, NothingDangles, ReplaceMappingProfile
<1>8. QED
  BY <1>2, <1>4, <1>7 DEF TablesInv

\* A device whose profile is deleted has none.
LEMMA DeleteMappingProfileKeeps ==
  ASSUME TablesInv, NEW token \in Int, NEW r \in Profiles, DeleteMappingProfile(token, r)
  PROVE  TablesInv'
<1>1. Commit(token, {r}, {})
  BY DEF DeleteMappingProfile
<1>2. /\ revision' \in 0..MaxRevision /\ floor' \in 0..revision'
      /\ born' \in [Rows -> 0..MaxRevision \cup {NoRevision}] /\ BornBelowFloor'
      /\ \A x \in Rows : Exists(x)' <=> x # r /\ Exists(x)
  BY <1>1, CommitWrites
<1>3. /\ Existing(Areas)' = Existing(Areas)
      /\ Existing(Channels)' = Existing(Channels)
      /\ Existing(Profiles)' = Existing(Profiles) \ {r}
  BY <1>2, SortsAssumption DEF Existing, Rows
<1>4. /\ ConfigTypeOK'
      /\ \A q \in Profiles : mapping'[q] = IF q = r THEN {} ELSE mapping[q]
      /\ \A d \in Devices : assigned'[d] = IF assigned[d] = r THEN NoProfile ELSE assigned[d]
  BY <1>2 DEF TablesInv, ConfigTypeOK, DeleteMappingProfile
<1>5. \A d \in Devices : assigned'[d] # NoProfile =>
          /\ assigned'[d] \in Existing(Profiles)'
          /\ reported'[d] \in {Unreported, hardware'[assigned'[d]]}
  BY <1>3, <1>4 DEF TablesInv, NothingDangles, DeleteMappingProfile
<1>6. NothingDangles'
  BY <1>3, <1>4, <1>5 DEF TablesInv, NothingDangles, DeleteMappingProfile
<1>7. QED
  BY <1>2, <1>4, <1>6 DEF TablesInv

\* A device is given a profile that exists, or none.
LEMMA AssignProfileKeeps ==
  ASSUME TablesInv, NEW token \in Int, NEW d \in Devices, NEW r \in Profiles \cup {NoProfile},
         AssignProfile(token, d, r)
  PROVE  TablesInv'
<1>1. /\ revision' \in 0..MaxRevision /\ floor' \in 0..revision' /\ floor <= floor'
  BY CommitAdvances DEF AssignProfile
<1>2. UNCHANGED <<born, throttles, kind, heavy, mapping, hardware, reported, overridden>>
  BY DEF AssignProfile
<1>3. ConfigTypeOK' /\ \A e \in Devices : assigned'[e] = IF e = d THEN r ELSE assigned[e]
  BY <1>1, <1>2 DEF TablesInv, ConfigTypeOK, AssignProfile
<1>4. r # NoProfile => r \in Existing(Profiles) /\ reported[d] \in {Unreported, hardware[r]}
  BY DEF AssignProfile, Existing
<1>5. NothingDangles'
  BY <1>2, <1>3, <1>4 DEF TablesInv, NothingDangles, Existing, Exists
<1>6. floor \in Int /\ \A x \in Rows : born[x] \in Int
  BY DEF TablesInv, ConfigTypeOK, NoRevision
<1>7. BornBelowFloor'
  BY <1>1, <1>2, <1>6 DEF TablesInv, BornBelowFloor
<1>8. QED
  BY <1>3, <1>5, <1>7 DEF TablesInv

\* A device that announces other hardware loses a profile that is not for it.
LEMMA AnnounceKeeps ==
  ASSUME TablesInv, NEW d \in Devices, NEW board \in Hardware, Announce(d, board)
  PROVE  TablesInv'
<1>1. /\ revision' \in 0..MaxRevision /\ floor' \in 0..revision' /\ floor <= floor'
  BY CommitAdvances DEF Announce
<1>2. UNCHANGED <<born, throttles, kind, heavy, mapping, hardware, overridden>>
  BY DEF Announce
<1>3. Kept(d, board) \in {assigned[d], NoProfile}
  BY DEF Kept
<1>4. /\ ConfigTypeOK'
      /\ \A e \in Devices : /\ assigned'[e] = IF e = d THEN Kept(d, board) ELSE assigned[e]
                            /\ reported'[e] = IF e = d THEN board ELSE reported[e]
  BY <1>1, <1>2, <1>3 DEF TablesInv, ConfigTypeOK, Announce
<1>5. Kept(d, board) # NoProfile => Kept(d, board) = assigned[d] /\ hardware[assigned[d]] = board
  BY DEF Kept
<1>6. NothingDangles'
  BY <1>2, <1>4, <1>5 DEF TablesInv, NothingDangles, Existing, Exists
<1>7. floor \in Int /\ \A x \in Rows : born[x] \in Int
  BY DEF TablesInv, ConfigTypeOK, NoRevision
<1>8. BornBelowFloor'
  BY <1>1, <1>2, <1>7 DEF TablesInv, BornBelowFloor
<1>9. QED
  BY <1>4, <1>6, <1>8 DEF TablesInv

\* An override is of a channel that is there.
LEMMA OverrideChannelKeeps ==
  ASSUME TablesInv, NEW c \in Channels, OverrideChannel(c)
  PROVE  TablesInv'
<1>1. /\ revision' \in 0..MaxRevision /\ floor' \in 0..revision' /\ floor <= floor'
  BY CommitAdvances DEF OverrideChannel
<1>2. /\ UNCHANGED <<born, throttles, kind, heavy, mapping, hardware, assigned, reported>>
      /\ overridden' = overridden \cup {c} /\ c \in Existing(Channels)
  BY DEF OverrideChannel, Existing
<1>3. ConfigTypeOK'
  BY <1>1, <1>2 DEF TablesInv, ConfigTypeOK
<1>4. NothingDangles'
  BY <1>2 DEF TablesInv, NothingDangles, Existing, Exists
<1>5. floor \in Int /\ \A x \in Rows : born[x] \in Int
  BY DEF TablesInv, ConfigTypeOK, NoRevision
<1>6. BornBelowFloor'
  BY <1>1, <1>2, <1>5 DEF TablesInv, BornBelowFloor
<1>7. QED
  BY <1>3, <1>4, <1>6 DEF TablesInv

-----------------------------------------------------------------------------
(* All that commits without a dialog. *)

\* The edits that need no dialog keep the tables whole.
LEMMA EditKeeps ==
  ASSUME TablesInv, NEW token \in Int, EditWithoutDialog(token)
  PROVE  TablesInv'
<1>1. CASE EditArea(token)
  <2> PICK a \in Areas : CreateControlArea(token, a) \/ DeleteControlArea(token, a)
                         \/ RenameControlArea(token, a) \/ UpdateThrottle(token, a)
    BY <1>1 DEF EditArea
  <2>1. CASE CreateControlArea(token, a)
    BY <2>1, CreateControlAreaKeeps
  <2>2. CASE DeleteControlArea(token, a)
    BY <2>2, DeleteControlAreaKeeps
  <2>3. CASE RenameControlArea(token, a)
    BY <2>3, TablesStay DEF RenameControlArea
  <2>4. CASE UpdateThrottle(token, a)
    BY <2>4, TablesStay DEF UpdateThrottle
  <2>5. QED
    BY <2>1, <2>2, <2>3, <2>4
<1>2. CASE EditChannel(token)
  <2> PICK c \in Channels : DeleteChannel(token, c) \/ ReplaceSchedule(token, c)
                            \/ UpdateChannel(token, c)
                            \/ \E a \in Areas : CreateChannel(token, c, a)
    BY <1>2 DEF EditChannel
  <2>1. CASE DeleteChannel(token, c)
    BY <2>1, DeleteChannelKeeps
  <2>2. CASE ReplaceSchedule(token, c)
    BY <2>2, ReplaceScheduleKeeps
  <2>3. CASE UpdateChannel(token, c)
    BY <2>3, TablesStay DEF UpdateChannel
  <2>4. CASE \E a \in Areas : CreateChannel(token, c, a)
    BY <2>4, CreateChannelKeeps
  <2>5. QED
    BY <2>1, <2>2, <2>3, <2>4
<1>3. CASE EditDevice(token)
  BY <1>3, AssignProfileKeeps DEF EditDevice
<1>4. CASE \E r \in Profiles : EditProfile(token, r)
  <2> PICK r \in Profiles : EditProfile(token, r)
    BY <1>4
  <2>1. CASE \E targets \in SUBSET Channels, board \in Hardware :
                 ReplaceMappingProfile(token, r, targets, board)
    BY <2>1, ReplaceMappingProfileKeeps
  <2>2. CASE DeleteMappingProfile(token, r)
    BY <2>2, DeleteMappingProfileKeeps
  <2>3. QED
    BY <2>1, <2>2 DEF EditProfile
<1>5. CASE EditElsewhere(token)
  BY <1>5, TablesStay DEF EditElsewhere
<1>6. QED
  BY <1>1, <1>2, <1>3, <1>4, <1>5 DEF EditWithoutDialog

\* So does what the controller commits by itself.
LEMMA ControllerKeeps ==
  ASSUME TablesInv, ControllerCommits
  PROVE  TablesInv'
<1>1. CASE \E c \in Channels : OverrideChannel(c)
  BY <1>1, OverrideChannelKeeps
<1>2. CASE \E d \in Devices, board \in Hardware : Announce(d, board)
  BY <1>2, AnnounceKeeps
<1>3. CASE CommitElsewhere
  BY <1>3, TablesStay DEF CommitElsewhere
<1>4. QED
  BY <1>1, <1>2, <1>3 DEF ControllerCommits

-----------------------------------------------------------------------------
(* The pages. *)

Content == [to : SUBSET Channels, on : Hardware]

\* A dialog hands in rows of the sort it was opened for.
PageOK(d) ==
    /\ d \in [live : Int, form : {"none", "areas"} \cup Areas,
              draft : SUBSET (Areas \cup Channels), added : SUBSET (Areas \cup Channels),
              shown : SUBSET (Areas \cup Channels), pinned : Int]
    /\ d.form = "none" => d.added = {}
    /\ d.form = "areas" => d.added \subseteq Areas
    /\ d.form \in Areas => d.draft \cup d.added \subseteq Channels

EditorRecord ==
    [profile : Profiles \cup {NoProfile}, new : BOOLEAN, original : Content,
     draft : Content, touched : BOOLEAN, pinned : Int, conflict : Int, denied : Int,
     saved : [revision : Int, draft : Content],
     answer : [kind : {"none", "saved", "refused"}, revision : Int, draft : Content],
     accepted : Int]

PagesInv ==
    /\ page \in [Pages -> {d \in [live : Int, form : {"none", "areas"} \cup Areas,
                                  draft : SUBSET (Areas \cup Channels),
                                  added : SUBSET (Areas \cup Channels),
                                  shown : SUBSET (Areas \cup Channels), pinned : Int] : PageOK(d)}]
    /\ editor \in [Pages -> EditorRecord]

Inv == TablesInv /\ PagesInv

\* One page's dialog changes.
LEMMA PageChanges ==
  ASSUME PagesInv, NEW p \in Pages, NEW d, PageOK(d), page' = [page EXCEPT ![p] = d],
         UNCHANGED editor
  PROVE  PagesInv'
  BY DEF PagesInv, PageOK

\* One page's editor changes.
LEMMA EditorChanges ==
  ASSUME PagesInv, NEW p \in Pages, NEW e \in EditorRecord,
         editor' = [editor EXCEPT ![p] = e], UNCHANGED page
  PROVE  PagesInv'
  BY DEF PagesInv

\* What a page and its editor hold, one page at a time.
LEMMA PagesTyped ==
  ASSUME PagesInv, NEW p \in Pages
  PROVE  PageOK(page[p]) /\ editor[p] \in EditorRecord
  BY DEF PagesInv

\* A closed dialog holds nothing to hand in.
LEMMA ClosedIsOK ==
  ASSUME NEW read \in Int
  PROVE  PageOK(Closed(read))
  BY SortsAssumption DEF PageOK, Closed, NoRevision

\* The content of a new profile is one.
LEMMA BlankIsContent == Blank \in Content
<1>1. (CHOOSE h \in Hardware : TRUE) \in Hardware
  BY SortsAssumption
<1>2. QED
  BY <1>1 DEF Blank, Content

\* A closed editor is an editor.
LEMMA ShutIsTyped ==
  ASSUME NEW seen \in Int
  PROVE  Shut(seen) \in EditorRecord
  BY BlankIsContent DEF Shut, EditorRecord, NoRevision, NothingSaved, NoAnswer

\* So is one that was just opened.
LEMMA EditingIsTyped ==
  ASSUME NEW r \in Profiles, NEW new \in BOOLEAN, NEW content \in Content, NEW seen \in Int
  PROVE  Editing(r, new, content, seen) \in EditorRecord
<1>1. Shut(seen) \in EditorRecord
  BY ShutIsTyped
<1>2. QED
  BY <1>1 DEF Editing, EditorRecord

\* The content of a stored profile is one.
LEMMA ContentOfIsContent ==
  ASSUME TablesInv, NEW r \in Profiles
  PROVE  ContentOf(r) \in Content
  BY DEF TablesInv, ConfigTypeOK, ContentOf, Content

\* Whatever a page sends as its token is a revision.
LEMMA TokensAreTyped ==
  ASSUME PagesInv, NEW p \in Pages
  PROVE  Pinned(page[p]) \in Int /\ SaveToken(p) \in Int /\ DeleteToken(p) \in Int
<1>1. page[p].live \in Int /\ page[p].pinned \in Int
  BY PagesTyped DEF PageOK
<1>2. /\ editor[p].accepted \in Int /\ editor[p].conflict \in Int /\ editor[p].pinned \in Int
      /\ editor[p].denied \in Int
  BY PagesTyped DEF EditorRecord
<1>3. QED
  BY <1>1, <1>2 DEF Pinned, SaveToken, DeleteToken, Higher

\* The tables stay when nothing is committed.
LEMMA NothingCommitted == TablesInv /\ UNCHANGED configVars => TablesInv'
  BY TablesStay DEF configVars

-----------------------------------------------------------------------------
(* The dialogs that hand in a collection. *)

\* The dialogs that replace a collection, step by step.
LEMMA DialogKeeps ==
  ASSUME Inv, NEW p \in Pages, DialogStep(p), UNCHANGED editor
  PROVE  Inv'
<1> USE DEF Inv
<1>0. PageOK(page[p]) /\ page[p].live \in Int /\ Pinned(page[p]) \in Int
  BY PagesTyped, TokensAreTyped DEF PageOK
<1>1. CASE OpenAreaManager(p)
  <2> DEFINE d == [page[p] EXCEPT !.form = "areas", !.draft = Existing(Areas),
                                  !.shown = Existing(Areas)]
  <2>1. page' = [page EXCEPT ![p] = d] /\ page[p].form = "none" /\ UNCHANGED configVars
    BY <1>1 DEF OpenAreaManager, Open
  <2>2. Existing(Areas) \in SUBSET (Areas \cup Channels)
    BY DEF Existing
  <2>3. PageOK(d)
    BY <1>0, <2>1, <2>2, SortsAssumption DEF PageOK
  <2>4. QED
    BY <2>1, <2>3, PageChanges, NothingCommitted
<1>2. CASE \E a \in Areas : OpenChannelManager(p, a)
  <2> PICK a \in Areas : OpenChannelManager(p, a)
    BY <1>2
  <2> DEFINE d == [page[p] EXCEPT !.form = a, !.draft = ChannelsOf(a), !.shown = ChannelsOf(a)]
  <2>1. page' = [page EXCEPT ![p] = d] /\ page[p].form = "none" /\ UNCHANGED configVars
    BY DEF OpenChannelManager, Open
  <2>2. ChannelsOf(a) \in SUBSET Channels
    BY DEF ChannelsOf, Existing
  <2>3. PageOK(d)
    BY <1>0, <2>1, <2>2, SortsAssumption DEF PageOK
  <2>4. QED
    BY <2>1, <2>3, PageChanges, NothingCommitted
<1>3. CASE CloseDialog(p)
  BY <1>0, <1>3, ClosedIsOK, PageChanges, NothingCommitted DEF CloseDialog
<1>4. CASE \E x \in Areas \cup Channels : RemoveRow(p, x)
  <2> PICK x \in Areas \cup Channels : RemoveRow(p, x)
    BY <1>4
  <2> DEFINE d == [page[p] EXCEPT !.draft = @ \ {x}, !.added = @ \ {x},
                                  !.pinned = Pinned(page[p])]
  <2>1. page' = [page EXCEPT ![p] = d] /\ UNCHANGED configVars
    BY DEF RemoveRow
  <2>2. PageOK(d)
    BY <1>0 DEF PageOK
  <2>3. QED
    BY <2>1, <2>2, PageChanges, NothingCommitted
<1>5. CASE \E x \in Areas \cup Channels : AddRow(p, x)
  <2> PICK x \in Areas \cup Channels : AddRow(p, x)
    BY <1>5
  <2> DEFINE d == [page[p] EXCEPT !.added = @ \cup {x}, !.pinned = Pinned(page[p])]
  <2>1. page' = [page EXCEPT ![p] = d] /\ UNCHANGED configVars
    BY DEF AddRow
  <2>2. /\ page[p].form # "none"
        /\ page[p].form = "areas" => x \in Areas
        /\ page[p].form # "areas" => x \in Channels
    BY DEF AddRow
  <2>3. PageOK(d)
    BY <1>0, <2>2, SortsAssumption DEF PageOK
  <2>4. QED
    BY <2>1, <2>3, PageChanges, NothingCommitted
<1>6. CASE SaveAreas(p)
  <2>1. page[p].added \in SUBSET Areas
    BY <1>0, <1>6 DEF SaveAreas, PageOK
  <2>2. TablesInv'
    BY <1>0, <1>6, <2>1, ReplaceControlAreasKeeps DEF SaveAreas
  <2>3. QED
    BY <1>0, <1>6, <2>2, ClosedIsOK, PageChanges DEF SaveAreas
<1>7. CASE SaveChannels(p)
  <2>1. page[p].form \in Areas /\ page[p].draft \cup page[p].added \in SUBSET Channels
    BY <1>0, <1>7 DEF SaveChannels, PageOK
  <2>2. TablesInv'
    BY <1>0, <1>7, <2>1, ReplaceControlAreaChannelsKeeps DEF SaveChannels
  <2>3. QED
    BY <1>0, <1>7, <2>2, ClosedIsOK, PageChanges DEF SaveChannels
<1>8. QED
  BY <1>1, <1>2, <1>3, <1>4, <1>5, <1>6, <1>7 DEF DialogStep

-----------------------------------------------------------------------------
(* The dialog that edits a profile. *)

\* An editor that follows a snapshot is an editor.
LEMMA FollowingIsTyped ==
  ASSUME TablesInv, NEW e \in EditorRecord
  PROVE  FollowSnapshot(e) \in EditorRecord
<1> DEFINE seen == IF e.answer.kind = "saved" THEN Higher(e.accepted, e.answer.revision)
                   ELSE e.accepted
<1>1. e.accepted \in Int /\ e.answer.revision \in Int
  BY DEF EditorRecord
<1>2. Shut(seen) \in EditorRecord
  BY <1>1, ShutIsTyped DEF Higher
<1>3. CASE e.profile = NoProfile \/ e.new
  BY <1>3 DEF FollowSnapshot
<1>4. CASE ~(e.profile = NoProfile \/ e.new) /\ ~Exists(e.profile)
  BY <1>2, <1>4 DEF FollowSnapshot
<1>5. CASE ~(e.profile = NoProfile \/ e.new) /\ Exists(e.profile)
  <2>1. e.profile \in Profiles
    BY <1>5 DEF EditorRecord
  <2>2. ContentOf(e.profile) \in Content
    BY <2>1, ContentOfIsContent
  <2> DEFINE original == ContentOf(e.profile)
             preserve == e.touched /\ e.draft # original
             f == [e EXCEPT !.original = original, !.touched = preserve,
                            !.draft = IF preserve THEN e.draft ELSE original,
                            !.pinned = IF preserve THEN e.pinned ELSE NoRevision]
  <2>3. FollowSnapshot(e) \in {e, f}
    BY <1>5 DEF FollowSnapshot
  <2>4. preserve \in BOOLEAN /\ e.draft \in Content /\ e.pinned \in Int /\ NoRevision \in Int
    BY DEF EditorRecord, NoRevision
  <2>5. original \in Content
    BY <2>2
  <2> HIDE DEF original, preserve
  <2>6. f \in EditorRecord
    BY <2>4, <2>5 DEF EditorRecord
  <2>7. QED
    BY <2>3, <2>6
<1>6. QED
  BY <1>3, <1>4, <1>5

\* The answer to a save is noted for the page.
LEMMA AnsweredIsTyped ==
  ASSUME PagesInv, NEW p \in Pages, NEW sort \in {"saved", "refused"}, NEW at \in Int,
         Answered(p, sort, at), UNCHANGED page
  PROVE  PagesInv'
<1> DEFINE e == [editor[p] EXCEPT !.answer = [kind |-> sort, revision |-> at,
                                             draft |-> editor[p].draft]]
<1>1. e \in EditorRecord
  BY PagesTyped DEF EditorRecord
<1>2. editor' = [editor EXCEPT ![p] = e]
  BY DEF Answered
<1>3. QED
  BY <1>1, <1>2, EditorChanges

\* A save of the profile editor is taken or refused.
LEMMA SaveProfileKeeps ==
  ASSUME Inv, NEW p \in Pages, SaveProfile(p)
  PROVE  Inv'
<1> USE DEF Inv
<1>1. UNCHANGED page /\ editor[p] \in EditorRecord /\ editor[p].profile \in Profiles
      /\ SaveToken(p) \in Int /\ revision \in Int
  BY PagesTyped, TokensAreTyped DEF SaveProfile, EditorRecord, TablesInv, ConfigTypeOK
<1>2. CASE SaveTaken(p)
  <2>1. editor[p].draft.to \in SUBSET Channels /\ editor[p].draft.on \in Hardware
    BY <1>1 DEF EditorRecord, Content
  <2>2. TablesInv'
    BY <1>1, <1>2, <2>1, ReplaceMappingProfileKeeps DEF SaveTaken
  <2>3. QED
    BY <1>1, <1>2, <2>2, AnsweredIsTyped DEF SaveTaken, TablesInv, ConfigTypeOK
<1>3. CASE SaveUnchanged(p)
  BY <1>1, <1>3, NothingCommitted, AnsweredIsTyped DEF SaveUnchanged
<1>4. CASE SaveRefused(p)
  BY <1>1, <1>4, NothingCommitted, AnsweredIsTyped DEF SaveRefused
<1>5. QED
  BY <1>2, <1>3, <1>4 DEF SaveProfile

\* Its answer changes the editor alone.
LEMMA ReceiveAnswerKeeps ==
  ASSUME Inv, NEW p \in Pages, ReceiveAnswer(p)
  PROVE  Inv'
<1> USE DEF Inv
<1> DEFINE e == editor[p]
           seen == Higher(e.accepted, e.answer.revision)
           refused == [e EXCEPT !.conflict = e.answer.revision, !.answer = NoAnswer]
           saved == [e EXCEPT !.saved = [revision |-> e.answer.revision, draft |-> e.answer.draft],
                              !.conflict = NoRevision, !.pinned = NoRevision,
                              !.accepted = seen, !.answer = NoAnswer]
<1>1. e \in EditorRecord
  BY PagesTyped
<1>2. seen \in Int /\ e.answer.revision \in Int /\ e.answer.draft \in Content
  BY <1>1 DEF EditorRecord, Higher
<1>3. NoAnswer \in [kind : {"none", "saved", "refused"}, revision : Int, draft : Content]
      /\ NoRevision \in Int
  BY BlankIsContent DEF NoAnswer, NoRevision
<1>4. refused \in EditorRecord
  BY <1>1, <1>2, <1>3 DEF EditorRecord
<1>5. saved \in EditorRecord
  <2> HIDE DEF seen
  <2>1. QED
    BY <1>1, <1>2, <1>3 DEF EditorRecord
<1>6. Shut(seen) \in EditorRecord
  BY <1>2, ShutIsTyped
<1>7. PICK f \in EditorRecord : editor' = [editor EXCEPT ![p] = f]
  BY <1>4, <1>5, <1>6 DEF ReceiveAnswer
<1>8. PagesInv'
  BY <1>7, EditorChanges DEF ReceiveAnswer, dialogVars
<1>9. TablesInv'
  BY NothingCommitted DEF ReceiveAnswer, dialogVars
<1>10. QED
  BY <1>8, <1>9

\* So does an edit of its draft.
LEMMA ApplyDraftKeeps ==
  ASSUME Inv, NEW p \in Pages, NEW content \in Content, ApplyDraft(p, content)
  PROVE  Inv'
<1> USE DEF Inv
<1> DEFINE e == editor[p]
           touched == content # e.original
           pin == IF ~touched THEN NoRevision
                  ELSE IF e.pinned = NoRevision THEN page[p].live ELSE e.pinned
           f == [e EXCEPT !.draft = content, !.touched = touched, !.pinned = pin]
<1>1. e \in EditorRecord /\ page[p].live \in Int
  BY PagesTyped DEF PageOK
<1>2. pin \in Int
  BY <1>1 DEF EditorRecord, NoRevision
<1>3. editor' = [editor EXCEPT ![p] = f] /\ UNCHANGED dialogVars
  BY DEF ApplyDraft
<1> HIDE DEF pin
<1>4. f \in EditorRecord
  BY <1>1, <1>2 DEF EditorRecord
<1>5. QED
  BY <1>3, <1>4, EditorChanges, NothingCommitted DEF dialogVars

\* The profile editor, step by step.
LEMMA EditorStepKeeps ==
  ASSUME Inv, NEW p \in Pages, EditorStep(p)
  PROVE  Inv'
<1> USE DEF Inv
<1>0. /\ editor[p] \in EditorRecord /\ editor[p].accepted \in Int
      /\ editor[p].answer.revision \in Int /\ revision \in Int /\ NoRevision \in Int
      /\ DeleteToken(p) \in Int
  BY PagesTyped, TokensAreTyped DEF EditorRecord, TablesInv, ConfigTypeOK, NoRevision
<1>1. CASE \E r \in Profiles : SelectProfile(p, r)
  BY <1>0, <1>1, ContentOfIsContent, EditingIsTyped, EditorChanges, NothingCommitted
  DEF SelectProfile, dialogVars
<1>2. CASE \E r \in Profiles : StartNewProfile(p, r)
  <2> PICK r \in Profiles : StartNewProfile(p, r)
    BY <1>2
  <2>1. PICK content \in {Blank} \cup {ContentOf(other) : other \in Existing(Profiles)} :
            editor' = [editor EXCEPT ![p] = Editing(r, TRUE, content, editor[p].accepted)]
    BY DEF StartNewProfile
  <2>2. content \in Content
    BY <2>1, BlankIsContent, ContentOfIsContent DEF Existing
  <2>3. QED
    BY <1>0, <2>1, <2>2, EditingIsTyped, EditorChanges, NothingCommitted
    DEF StartNewProfile, dialogVars
<1>3. CASE \E to \in SUBSET Channels, on \in Hardware : ApplyDraft(p, [to |-> to, on |-> on])
  BY <1>3, ApplyDraftKeeps DEF Content
<1>4. CASE ResetDraft(p)
  <2> DEFINE e == [editor[p] EXCEPT !.conflict = NoRevision, !.pinned = NoRevision,
                                    !.draft = editor[p].original, !.touched = FALSE]
  <2>1. editor' = [editor EXCEPT ![p] = e] /\ UNCHANGED dialogVars
    BY <1>4 DEF ResetDraft
  <2>2. e \in EditorRecord
    BY <1>0 DEF EditorRecord
  <2>3. QED
    BY <2>1, <2>2, EditorChanges, NothingCommitted DEF dialogVars
<1>5. CASE SaveProfile(p)
  BY <1>5, SaveProfileKeeps
<1>6. CASE ReceiveAnswer(p)
  BY <1>6, ReceiveAnswerKeeps
<1>7. CASE DeleteProfile(p)
  <2>1. editor[p].profile \in Profiles
    BY <1>0, <1>7 DEF DeleteProfile, EditorRecord
  <2>2. TablesInv'
    BY <1>0, <1>7, <2>1, DeleteMappingProfileKeeps DEF DeleteProfile
  <2>3. revision' \in Int
    BY <2>2 DEF TablesInv, ConfigTypeOK
  <2>4. QED
    BY <1>7, <2>2, <2>3, ShutIsTyped, EditorChanges DEF DeleteProfile
<1>8. CASE RefuseDelete(p)
  <2> DEFINE e == [editor[p] EXCEPT !.denied = revision]
  <2>1. editor' = [editor EXCEPT ![p] = e] /\ UNCHANGED dialogVars
    BY <1>8 DEF RefuseDelete
  <2>2. e \in EditorRecord
    BY <1>0 DEF EditorRecord
  <2>3. QED
    BY <2>1, <2>2, EditorChanges, NothingCommitted DEF dialogVars
<1>9. CASE CloseEditor(p)
  <2> DEFINE seen == IF editor[p].answer.kind = "saved"
                     THEN Higher(editor[p].accepted, editor[p].answer.revision)
                     ELSE editor[p].accepted
  <2>1. seen \in Int
    BY <1>0 DEF Higher
  <2>2. editor' = [editor EXCEPT ![p] = Shut(seen)] /\ UNCHANGED dialogVars
    BY <1>9 DEF CloseEditor
  <2>3. QED
    BY <2>1, <2>2, ShutIsTyped, EditorChanges, NothingCommitted DEF dialogVars
<1>10. QED
  BY <1>1, <1>2, <1>3, <1>4, <1>5, <1>6, <1>7, <1>8, <1>9 DEF EditorStep

-----------------------------------------------------------------------------
(* All of it. *)

\* A page that takes a snapshot, with its dialog and its editor.
LEMMA SnapshotKeeps ==
  ASSUME Inv, NEW p \in Pages, ProfileSnapshot(p)
  PROVE  Inv'
<1> USE DEF Inv
<1> DEFINE d == [page[p] EXCEPT !.live = revision]
           e == FollowSnapshot(editor[p])
<1>1. page' = [page EXCEPT ![p] = d] /\ editor' = [editor EXCEPT ![p] = e]
      /\ UNCHANGED configVars
  BY DEF ProfileSnapshot, Refresh
<1>2. PageOK(d)
  BY PagesTyped DEF PageOK, TablesInv, ConfigTypeOK
<1>3. e \in EditorRecord
  BY PagesTyped, FollowingIsTyped
<1>4. PagesInv'
  BY <1>1, <1>2, <1>3 DEF PagesInv, PageOK
<1>5. QED
  BY <1>1, <1>4, NothingCommitted

\* The invariant holds of an empty configuration with no dialog open.
LEMMA InvInit == ProfileInit => Inv
<1> SUFFICES ASSUME ProfileInit PROVE Inv
  OBVIOUS
<1>1. TablesInv
  BY TablesInit DEF ProfileInit
<1>2. page = [p \in Pages |-> Closed(0)] /\ PageOK(Closed(0))
  BY ClosedIsOK DEF ProfileInit, DialogInit
<1>3. editor = [p \in Pages |-> Shut(0)] /\ Shut(0) \in EditorRecord
  BY ShutIsTyped DEF ProfileInit
<1>4. PagesInv
  BY <1>2, <1>3 DEF PagesInv, PageOK
<1>5. QED
  BY <1>1, <1>4 DEF Inv

\* Every commit and every step of a page keeps it.
LEMMA InvNext == Inv /\ [ConfiguredNext]_profileVars => Inv'
<1> SUFFICES ASSUME Inv, [ConfiguredNext]_profileVars PROVE Inv'
  OBVIOUS
<1>1. ASSUME NEW p \in Pages, ProfileSnapshot(p) PROVE Inv'
  BY <1>1, SnapshotKeeps
<1>2. ASSUME NEW p \in Pages, EditorStep(p) PROVE Inv'
  BY <1>2, EditorStepKeeps
<1>3. ASSUME NEW p \in Pages, DialogStep(p), UNCHANGED editor PROVE Inv'
  BY <1>3, DialogKeeps
<1>4. ASSUME NEW token \in 0..revision, EditWithoutDialog(token), UNCHANGED editor PROVE Inv'
  <2>1. token \in Int
    BY DEF Inv, TablesInv, ConfigTypeOK
  <2>2. UNCHANGED <<page, editor>>
    BY <1>4 DEF EditWithoutDialog
  <2>3. QED
    BY <1>4, <2>1, <2>2, EditKeeps DEF Inv, PagesInv
<1>5. ASSUME ControllerCommits, UNCHANGED <<page, editor>> PROVE Inv'
  BY <1>5, ControllerKeeps DEF Inv, PagesInv
<1>6. ASSUME UNCHANGED profileVars PROVE Inv'
  <2>1. UNCHANGED configVars /\ UNCHANGED <<page, editor>>
    BY <1>6 DEF profileVars, dialogVars
  <2>2. QED
    BY <2>1, NothingCommitted DEF Inv, PagesInv
<1>7. QED
  BY <1>1, <1>2, <1>3, <1>4, <1>5, <1>6 DEF ConfiguredNext

\* Hence it holds always.
LEMMA InvHolds == ConfigSafety => []Inv
  BY InvInit, InvNext, PTL DEF ConfigSafety

(* The tables keep their types.                                            *)
THEOREM ConfigurationTyped == ConfigSafety => []ConfigTypeOK
<1>1. Inv => ConfigTypeOK
  BY DEF Inv, TablesInv
<1>2. QED
  BY <1>1, InvHolds, PTL

(* No row is left pointing at one that is gone or is of another kind, from *)
(* however many pages and dialogs the configuration is edited              *)
(* (controller-configuration-repository.ts).                               *)
THEOREM ConfigurationHolds == ConfigSafety => []NothingDangles
<1>1. Inv => NothingDangles
  BY DEF Inv, TablesInv
<1>2. QED
  BY <1>1, InvHolds, PTL

(* A dialog that is saved removes no row written after the revision it     *)
(* hands in: the guard of a commit (acquireOperatorConcurrencyFloor) and   *)
(* the floor every operator's commit moves see to it.                      *)
THEOREM SavesLoseNothing == ConfigSafety => NoLossBeyondToken
<1> DEFINE Safe == \A p \in Pages, x \in Rows : Removed(x) =>
               /\ SaveDialog(p) => born[x] <= Pinned(page[p])
               /\ SaveProfile(p) => born[x] <= SaveToken(p)
               /\ DeleteProfile(p) => born[x] <= DeleteToken(p)
<1>1. ASSUME Inv, NEW p \in Pages, NEW x \in Rows, Removed(x)
      PROVE  /\ SaveDialog(p) => born[x] <= Pinned(page[p])
             /\ SaveProfile(p) => born[x] <= SaveToken(p)
             /\ DeleteProfile(p) => born[x] <= DeleteToken(p)
  <2>1. born[x] <= floor /\ born[x] \in Int /\ floor \in Int
    BY <1>1 DEF Inv, TablesInv, ConfigTypeOK, BornBelowFloor, NoRevision
  <2>2. Pinned(page[p]) \in Int /\ SaveToken(p) \in Int /\ DeleteToken(p) \in Int
    BY <1>1, TokensAreTyped DEF Inv
  <2>3. SaveDialog(p) => floor <= Pinned(page[p])
    BY DEF SaveDialog, SaveAreas, SaveChannels, ReplaceControlAreas,
           ReplaceControlAreaChannels, Commit, OperatorCommit, Accepts
  <2>4. SaveProfile(p) => floor <= SaveToken(p)
    <3>1. CASE SaveTaken(p) \/ SaveUnchanged(p)
      BY <3>1 DEF SaveTaken, SaveUnchanged, ReplaceMappingProfile, Commit, OperatorCommit, Accepts
    <3>2. CASE SaveRefused(p)
      BY <1>1, <3>2 DEF SaveRefused, configVars, tables, Removed
    <3>3. QED
      BY <3>1, <3>2 DEF SaveProfile
  <2>5. DeleteProfile(p) => floor <= DeleteToken(p)
    BY DEF DeleteProfile, DeleteMappingProfile, Commit, OperatorCommit, Accepts
  <2>6. QED
    BY <2>1, <2>2, <2>3, <2>4, <2>5
<1>2. Inv => [Safe]_profileVars
  BY <1>1
<1>3. QED
  BY <1>2, InvHolds, PTL DEF NoLossBeyondToken
-----------------------------------------------------------------------------
(* The drafts of the schedule editor. *)

Marks == 0..revision \cup {NoRevision}

DraftRows == [graph: Nat, baseline: Contents, points: Contents, pinned: Marks, conflict: Marks]

StoredRows == [points: Contents, graph: Nat, at: 0..revision, own: BOOLEAN]

\* A request of the page: schedules for some of the channels.
Requested ==
    /\ save \in [status: {"sent", "taken", "refused", "lost"}, revision: 0..revision,
                 token: {save.token}, written: {save.written}, based: {save.based}]
    /\ DOMAIN save.written \subseteq EditedChannels
    /\ save.written \in [DOMAIN save.written -> Contents]

\* The editor's types, of every record as a whole.
EditorInv ==
    /\ revision \in 0..MaxRevision /\ floor \in 0..revision
    /\ live \in 0..revision /\ accepted \in 0..revision
    /\ selected \in EditedChannels /\ saves \in 0..MaxSaves
    /\ refreshing \in BOOLEAN
    /\ save = Idle \/ Requested
    /\ stored \in [EditedChannels -> StoredRows]
    /\ draft \in [EditedChannels -> DraftRows]

\* The types by record are the types of EditorTypeOK.
LEMMA EditorInvTypes == EditorInv => EditorTypeOK
<1> SUFFICES ASSUME EditorInv PROVE EditorTypeOK
  OBVIOUS
<1>1. save.status \in {"idle", "sent", "taken", "refused", "lost"}
  BY DEF EditorInv, Requested, Idle
<1>2. ASSUME NEW c \in EditedChannels
      PROVE  /\ {stored[c].points, draft[c].points, draft[c].baseline} \subseteq Contents
             /\ stored[c].graph \in Nat /\ draft[c].graph \in Nat
             /\ stored[c].at \in 0..revision /\ stored[c].own \in BOOLEAN
             /\ {draft[c].pinned, draft[c].conflict} \subseteq 0..revision \cup {NoRevision}
  <2>1. stored[c] \in StoredRows /\ draft[c] \in DraftRows
    BY DEF EditorInv
  <2>2. QED
    BY <2>1 DEF StoredRows, DraftRows, Marks
<1>3. QED
  BY <1>1, <1>2 DEF EditorInv, EditorTypeOK

\* A draft made of what the controller has.
LEMMA FreshIsTyped ==
  ASSUME NEW source \in StoredRows
  PROVE  FreshDraft(source) \in DraftRows
  BY DEF StoredRows, DraftRows, FreshDraft, Marks

\* The editor opens in order.
LEMMA EditorInvInit == EditorInit => EditorInv
<1> SUFFICES ASSUME EditorInit PROVE EditorInv
  OBVIOUS
<1> DEFINE first == CHOOSE x \in Contents : TRUE
<1>1. first \in Contents /\ selected \in EditedChannels
  BY EditedAssumption DEF EditorInit
<1>2. stored = [c \in EditedChannels |-> [points |-> first, graph |-> 0, at |-> 0, own |-> FALSE]]
  BY DEF EditorInit
<1> HIDE DEF first
<1>3. revision = 0
  BY DEF EditorInit
<1>4. stored \in [EditedChannels -> StoredRows]
  BY <1>1, <1>2, <1>3 DEF StoredRows
<1>5. \A c \in EditedChannels : FreshDraft(stored[c]) \in DraftRows
  BY <1>4, FreshIsTyped
<1>6. draft \in [EditedChannels -> DraftRows]
  BY <1>5 DEF EditorInit
<1>7. /\ revision \in 0..MaxRevision /\ floor \in 0..revision /\ live \in 0..revision
      /\ accepted \in 0..revision /\ saves \in 0..MaxSaves
  BY MaxRevisionAssumption, MaxSavesAssumption DEF EditorInit
<1>8. refreshing \in BOOLEAN /\ save = Idle
  BY DEF EditorInit
<1>9. QED
  BY <1>1, <1>4, <1>6, <1>7, <1>8 DEF EditorInv

\* A later revision takes the marks and the rows of an earlier one.
LEMMA LaterRevision ==
  ASSUME EditorInv, revision' \in Nat, revision <= revision'
  PROVE  /\ 0..revision \subseteq 0..revision'
         /\ Marks \subseteq Marks'
         /\ DraftRows \subseteq DraftRows'
         /\ StoredRows \subseteq StoredRows'
<1>1. 0..revision \subseteq 0..revision'
  BY DEF EditorInv
<1>2. Marks \subseteq Marks'
  BY <1>1 DEF Marks
<1>3. DraftRows \subseteq DraftRows'
  BY <1>2 DEF DraftRows
<1>4. StoredRows \subseteq StoredRows'
  BY <1>1 DEF StoredRows
<1>5. QED
  BY <1>1, <1>2, <1>3, <1>4

\* What the controller commits is in order, whoever asked.
LEMMA ReplacedIsTyped ==
  ASSUME EditorInv, revision' \in Nat, revision <= revision',
         NEW S \in SUBSET EditedChannels, NEW written \in [S -> Contents], NEW own \in BOOLEAN
  PROVE  Replaced(written, own) \in [EditedChannels -> StoredRows']
<1>1. ASSUME NEW c \in EditedChannels
      PROVE  /\ stored[c] \in StoredRows'
             /\ c \in S => [points |-> written[c], graph |-> stored[c].graph + 1,
                            at |-> revision', own |-> own] \in StoredRows'
  <2>1. stored[c] \in StoredRows
    BY DEF EditorInv
  <2>2. stored[c] \in StoredRows'
    BY <2>1, LaterRevision
  <2>3. stored[c].graph + 1 \in Nat
    BY <2>1 DEF StoredRows
  <2>4. ASSUME c \in S PROVE written[c] \in Contents
    BY <2>4
  <2>5. revision' \in 0..revision'
    OBVIOUS
  <2>6. QED
    BY <2>2, <2>3, <2>4, <2>5 DEF StoredRows
<1>2. DOMAIN written = S
  OBVIOUS
<1>3. QED
  BY <1>1, <1>2 DEF Replaced

\* A commit of the controller moves revision on, and the page stays in order.
LEMMA CommitKeepsEditor ==
  ASSUME EditorInv, \/ \E token : OperatorCommit(token)
                    \/ BackgroundCommit
  PROVE  /\ revision' \in 0..MaxRevision /\ floor' \in 0..revision'
         /\ revision <= revision'
<1>1. revision \in 0..MaxRevision /\ floor \in 0..revision
  BY DEF EditorInv
<1>2. QED
  BY <1>1, MaxRevisionAssumption DEF OperatorCommit, BackgroundCommit

\* A commit leaves the page's side in order.
LEMMA PageSurvivesCommit ==
  ASSUME EditorInv, revision' \in 0..MaxRevision, floor' \in 0..revision',
         revision <= revision', stored' \in [EditedChannels -> StoredRows'],
         UNCHANGED <<live, draft, selected, refreshing, accepted, saves>>,
         save' = Idle \/ Requested'
  PROVE  EditorInv'
<1>1. 0..revision \subseteq 0..revision' /\ DraftRows \subseteq DraftRows'
  BY LaterRevision
<1>2. draft' \in [EditedChannels -> DraftRows']
  BY <1>1 DEF EditorInv
<1>3. live' \in 0..revision' /\ accepted' \in 0..revision'
  BY <1>1 DEF EditorInv
<1>4. QED
  BY <1>2, <1>3 DEF EditorInv

\* A request is one still when only its status and its answer move.
LEMMA RequestMoves ==
  ASSUME EditorInv, save # Idle, revision' \in 0..MaxRevision, revision <= revision',
         NEW s \in {"sent", "taken", "refused", "lost"}, NEW r \in 0..revision',
         save' = [save EXCEPT !.status = s, !.revision = r]
  PROVE  Requested'
<1>1. Requested
  BY DEF EditorInv
<1>2. /\ save'.token = save.token /\ save'.written = save.written /\ save'.based = save.based
      /\ save' \in [status: {"sent", "taken", "refused", "lost"}, revision: 0..revision',
                    token: {save.token}, written: {save.written}, based: {save.based}]
  BY <1>1 DEF Requested
<1>3. QED
  BY <1>1, <1>2 DEF Requested

\* The controller's steps and what happens to a request keep the editor in order.
LEMMA ControllerKeepsEditor ==
  ASSUME EditorInv,
         \/ \E c \in EditedChannels, x \in Contents : SomebodyElseSaves(c, x)
         \/ BackgroundChange
         \/ TakeSave \/ TakeUnchangedSave \/ RefuseSave \/ LoseSave
  PROVE  EditorInv'
<1>0. /\ revision \in 0..MaxRevision /\ floor \in 0..revision
      /\ stored \in [EditedChannels -> StoredRows]
      /\ save = Idle \/ Requested
  BY DEF EditorInv
<1>1. ASSUME NEW c \in EditedChannels, NEW x \in Contents, SomebodyElseSaves(c, x)
      PROVE  EditorInv'
  <2>1. /\ revision' \in 0..MaxRevision /\ floor' \in 0..revision' /\ revision <= revision'
    BY <1>1, CommitKeepsEditor DEF SomebodyElseSaves
  <2>2. stored' = Replaced([d \in {c} |-> x], FALSE)
        /\ UNCHANGED <<live, draft, selected, save, refreshing, accepted, saves>>
    BY <1>1 DEF SomebodyElseSaves
  <2>3. [d \in {c} |-> x] \in [{c} -> Contents] /\ {c} \in SUBSET EditedChannels
    OBVIOUS
  <2>4. revision' \in Nat
    BY <2>1, MaxRevisionAssumption
  <2>5. stored' \in [EditedChannels -> StoredRows']
    BY <2>1, <2>2, <2>3, <2>4, ReplacedIsTyped
  <2>6. 0..revision \subseteq 0..revision'
    BY <2>1, <2>4, LaterRevision
  <2>7. save' = Idle \/ Requested'
    BY <1>0, <2>2, <2>6 DEF Requested
  <2>8. QED
    BY <2>1, <2>2, <2>5, <2>7, PageSurvivesCommit
<1>2. CASE BackgroundChange
  <2>1. /\ revision' \in 0..MaxRevision /\ floor' \in 0..revision' /\ revision <= revision'
    BY <1>2, CommitKeepsEditor DEF BackgroundChange
  <2>2. UNCHANGED <<stored, live, draft, selected, save, refreshing, accepted, saves>>
    BY <1>2 DEF BackgroundChange
  <2>3. revision' \in Nat
    BY <2>1, MaxRevisionAssumption
  <2>4. 0..revision \subseteq 0..revision' /\ StoredRows \subseteq StoredRows'
    BY <2>1, <2>3, LaterRevision
  <2>5. stored' \in [EditedChannels -> StoredRows']
    BY <1>0, <2>2, <2>4
  <2>6. save' = Idle \/ Requested'
    BY <1>0, <2>2, <2>4 DEF Requested
  <2>7. QED
    BY <2>1, <2>2, <2>5, <2>6, PageSurvivesCommit
<1>3. CASE TakeSave
  <2>0. save # Idle /\ Requested
    BY <1>0, <1>3 DEF TakeSave, Idle
  <2>1. /\ revision' \in 0..MaxRevision /\ floor' \in 0..revision' /\ revision <= revision'
    BY <1>3, CommitKeepsEditor DEF TakeSave
  <2>2. /\ stored' = Replaced(save.written, TRUE)
        /\ save' = [save EXCEPT !.status = "taken", !.revision = revision']
        /\ UNCHANGED <<live, draft, selected, refreshing, accepted, saves>>
    BY <1>3 DEF TakeSave
  <2>3. revision' \in Nat /\ revision' \in 0..revision'
    BY <2>1, MaxRevisionAssumption
  <2>4. save.written \in [DOMAIN save.written -> Contents]
        /\ DOMAIN save.written \in SUBSET EditedChannels
    BY <2>0 DEF Requested
  <2>5. stored' \in [EditedChannels -> StoredRows']
    BY <2>1, <2>2, <2>3, <2>4, ReplacedIsTyped
  <2>6. Requested'
    BY <2>0, <2>1, <2>2, <2>3, RequestMoves
  <2>7. QED
    BY <2>1, <2>2, <2>5, <2>6, PageSurvivesCommit
<1>4. ASSUME Controller' = Controller, save # Idle,
             UNCHANGED <<live, draft, selected, refreshing, accepted, saves>>,
             NEW s \in {"sent", "taken", "refused", "lost"}, NEW r \in 0..revision,
             save' = [save EXCEPT !.status = s, !.revision = r]
      PROVE  EditorInv'
  <2>1. revision' = revision /\ floor' = floor /\ stored' = stored
    BY <1>4 DEF Controller
  <2>2. StoredRows \subseteq StoredRows'
    BY <2>1 DEF StoredRows
  <2>3. /\ revision' \in 0..MaxRevision /\ revision <= revision'
        /\ floor' \in 0..revision' /\ r \in 0..revision'
    BY <1>0, <1>4, <2>1
  <2>4. Requested'
    BY <1>4, <2>3, RequestMoves
  <2>5. stored' \in [EditedChannels -> StoredRows']
    BY <1>0, <2>1, <2>2
  <2>6. QED
    BY <1>4, <2>3, <2>4, <2>5, PageSurvivesCommit
<1>5. CASE TakeUnchangedSave \/ RefuseSave
  <2>1. PICK s \in {"taken", "refused"} : save' = [save EXCEPT !.status = s, !.revision = revision]
    BY <1>5 DEF TakeUnchangedSave, RefuseSave
  <2>2. Controller' = Controller /\ UNCHANGED <<live, draft, selected, refreshing, accepted, saves>>
        /\ save # Idle
    BY <1>5 DEF TakeUnchangedSave, RefuseSave, Idle
  <2>3. revision \in 0..revision
    BY <1>0
  <2>4. QED
    BY <1>4, <2>1, <2>2, <2>3
<1>6. CASE LoseSave
  <2>1. Controller' = Controller /\ UNCHANGED <<live, draft, selected, refreshing, accepted, saves>>
        /\ save # Idle /\ save' = [save EXCEPT !.status = "lost"]
    BY <1>6 DEF LoseSave, Idle
  <2>2. Requested
    BY <1>0, <2>1
  <2>3. save.revision \in 0..revision
        /\ save' = [save EXCEPT !.status = "lost", !.revision = save.revision]
    BY <2>1, <2>2 DEF Requested
  <2>4. QED
    BY <1>4, <2>1, <2>3
<1>7. QED
  BY <1>1, <1>2, <1>3, <1>5, <1>6

\* Where the page alone moves, the editor is in order when its drafts are.
LEMMA PageStepKeepsEditor ==
  ASSUME EditorInv, Controller' = Controller, live' \in 0..revision, accepted' \in 0..revision,
         selected' \in EditedChannels, saves' \in 0..MaxSaves, refreshing' \in BOOLEAN,
         draft' \in [EditedChannels -> DraftRows],
         save' = Idle \/ save' = save \/ Requested'
  PROVE  EditorInv'
<1>1. revision' = revision /\ floor' = floor /\ stored' = stored
  BY DEF Controller
<1>2. DraftRows' = DraftRows /\ StoredRows' = StoredRows
  BY <1>1 DEF DraftRows, StoredRows, Marks
<1>3. save' = Idle \/ Requested'
  BY <1>1 DEF EditorInv, Requested
<1>4. QED
  BY <1>1, <1>2, <1>3 DEF EditorInv

\* A draft after a snapshot, and after its save, is a draft.
LEMMA SynchronizedIsTyped ==
  ASSUME NEW d \in DraftRows, NEW source \in StoredRows, NEW current \in Marks
  PROVE  Synchronized(d, source, current) \in DraftRows
<1>1. FreshDraft(source) \in DraftRows
  BY FreshIsTyped
<1>2. source.graph \in Nat /\ NoRevision \in Marks
  BY DEF StoredRows, Marks
<1>3. /\ [d EXCEPT !.pinned = current] \in DraftRows
      /\ [d EXCEPT !.graph = source.graph, !.conflict = NoRevision] \in DraftRows
      /\ [d EXCEPT !.conflict = current] \in DraftRows
  BY <1>2 DEF DraftRows
<1>4. QED
  BY <1>1, <1>3 DEF Synchronized

\* The steps of the page keep the editor in order.
LEMMA PageKeepsEditor ==
  ASSUME EditorInv,
         \/ Snapshot \/ AcceptConflict \/ DiscardAll \/ SaveAll
         \/ \E c \in EditedChannels : SelectChannel(c)
         \/ \E x \in Contents : EditDraft(x) \/ \E c \in EditedChannels : RestorePoints(c, x)
         \/ ReceiveSaved \/ ReceiveConflict \/ ReceiveNothing
  PROVE  EditorInv'
<1>0. /\ revision \in 0..MaxRevision /\ live \in 0..revision /\ accepted \in 0..revision
      /\ selected \in EditedChannels /\ saves \in 0..MaxSaves /\ refreshing \in BOOLEAN
      /\ save = Idle \/ Requested
      /\ draft \in [EditedChannels -> DraftRows]
      /\ stored \in [EditedChannels -> StoredRows]
  BY DEF EditorInv
<1>1. revision \in Marks /\ live \in Marks /\ NoRevision \in Marks /\ revision \in 0..revision
  BY <1>0, MaxRevisionAssumption DEF Marks
<1>2. CASE Snapshot
  <2>1. \A c \in EditedChannels : Synchronized(draft[c], stored[c], revision) \in DraftRows
    BY <1>0, <1>1, SynchronizedIsTyped
  <2>2. draft' \in [EditedChannels -> DraftRows]
    BY <1>2, <2>1 DEF Snapshot
  <2>3. /\ Controller' = Controller /\ live' = revision /\ refreshing' = FALSE
        /\ UNCHANGED <<selected, save, accepted, saves>>
    BY <1>2 DEF Snapshot
  <2>4. QED
    BY <1>0, <1>1, <2>2, <2>3, PageStepKeepsEditor
<1>3. CASE AcceptConflict
  <2>1. \A c \in EditedChannels :
           [draft[c] EXCEPT !.pinned = live, !.conflict = NoRevision] \in DraftRows
    BY <1>0, <1>1 DEF DraftRows
  <2>2. draft' \in [EditedChannels -> DraftRows]
    BY <1>0, <1>3, <2>1 DEF AcceptConflict
  <2>3. /\ Controller' = Controller /\ accepted' = live
        /\ UNCHANGED <<live, selected, save, refreshing, saves>>
    BY <1>3 DEF AcceptConflict
  <2>4. QED
    BY <1>0, <2>2, <2>3, PageStepKeepsEditor
<1>4. CASE SaveAll
  <2>1. /\ save'.written = [c \in DirtyChannels |-> draft[c].points]
        /\ save' \in [status: {"sent", "taken", "refused", "lost"}, revision: {0},
                      token: {save'.token}, written: {save'.written}, based: {save'.based}]
    BY <1>4 DEF SaveAll
  <2>2. \A c \in DirtyChannels : c \in EditedChannels /\ draft[c].points \in Contents
    BY <1>0 DEF DirtyChannels, DraftRows
  <2>3. save'.written \in [DirtyChannels -> Contents] /\ DirtyChannels \subseteq EditedChannels
    BY <2>1, <2>2
  <2>4. /\ Controller' = Controller /\ saves' = saves + 1 /\ saves < MaxSaves
        /\ UNCHANGED <<live, draft, selected, refreshing, accepted>>
    BY <1>4 DEF SaveAll
  <2>5. revision' = revision
    BY <2>4 DEF Controller
  <2>6. 0 \in 0..revision'
    BY <1>0, <2>5, MaxRevisionAssumption
  <2>7. Requested'
    BY <2>1, <2>3, <2>6 DEF Requested
  <2>8. saves' \in 0..MaxSaves
    BY <1>0, <2>4, MaxSavesAssumption
  <2>9. QED
    BY <1>0, <2>4, <2>7, <2>8, PageStepKeepsEditor
<1>5. ASSUME NEW c \in EditedChannels, SelectChannel(c)
      PROVE  EditorInv'
  <2>1. /\ Controller' = Controller /\ selected' = c
        /\ UNCHANGED <<live, draft, save, refreshing, accepted, saves>>
    BY <1>5 DEF SelectChannel
  <2>2. QED
    BY <1>0, <2>1, PageStepKeepsEditor
<1>6. ASSUME NEW x \in Contents, EditDraft(x)
      PROVE  EditorInv'
  <2>1. draft[selected] \in DraftRows
    BY <1>0
  <2>2. [draft[selected] EXCEPT !.points = x,
                                !.pinned = IF @ = NoRevision THEN live ELSE @] \in DraftRows
    BY <1>1, <2>1 DEF DraftRows
  <2>3. draft' = [draft EXCEPT ![selected] =
                    [draft[selected] EXCEPT !.points = x,
                                            !.pinned = IF @ = NoRevision THEN live ELSE @]]
    BY <1>0, <1>6, <2>1 DEF EditDraft, DraftRows
  <2>4. draft' \in [EditedChannels -> DraftRows]
    BY <1>0, <2>2, <2>3
  <2>5. Controller' = Controller /\ UNCHANGED <<live, selected, save, refreshing, accepted, saves>>
    BY <1>6 DEF EditDraft
  <2>6. QED
    BY <1>0, <2>4, <2>5, PageStepKeepsEditor
<1>7. ASSUME NEW c \in EditedChannels, NEW x \in Contents, RestorePoints(c, x)
      PROVE  EditorInv'
  <2>1. \A d \in EditedChannels :
           [draft[d] EXCEPT !.points = IF d = c THEN x ELSE @,
                            !.pinned = IF @ = NoRevision THEN live ELSE @] \in DraftRows
    BY <1>0, <1>1 DEF DraftRows
  <2>2. draft' \in [EditedChannels -> DraftRows]
    BY <1>7, <2>1 DEF RestorePoints
  <2>3. Controller' = Controller /\ UNCHANGED <<live, selected, save, refreshing, accepted, saves>>
    BY <1>7 DEF RestorePoints
  <2>4. QED
    BY <1>0, <2>2, <2>3, PageStepKeepsEditor
<1>8. CASE ReceiveSaved
  <2>0. Requested
    BY <1>0, <1>8 DEF ReceiveSaved, Idle
  <2>1. save.revision \in Marks /\ \A c \in DOMAIN save.written : save.written[c] \in Contents
    BY <2>0 DEF Requested, Marks
  <2>2. ASSUME NEW c \in EditedChannels, c \in DOMAIN save.written
        PROVE  Saved(draft[c], save.written[c], save.revision) \in DraftRows
    BY <1>0, <1>1, <2>1, <2>2 DEF Saved, DraftRows
  <2>3. draft' \in [EditedChannels -> DraftRows]
    BY <1>0, <1>8, <2>2 DEF ReceiveSaved
  <2>4. /\ Controller' = Controller /\ save' = Idle /\ refreshing' = TRUE
        /\ UNCHANGED <<live, selected, accepted, saves>>
    BY <1>8 DEF ReceiveSaved
  <2>5. QED
    BY <1>0, <2>3, <2>4, PageStepKeepsEditor
<1>9. CASE ReceiveConflict
  <2>0. Requested
    BY <1>0, <1>9 DEF ReceiveConflict, Idle
  <2>1. save.revision \in Marks /\ DOMAIN save.written \subseteq EditedChannels
    BY <2>0 DEF Requested, Marks
  <2>2. \A c \in EditedChannels : [draft[c] EXCEPT !.conflict = save.revision] \in DraftRows
    BY <1>0, <2>1 DEF DraftRows
  <2>3. draft' \in [EditedChannels -> DraftRows]
    BY <1>0, <1>9, <2>2 DEF ReceiveConflict
  <2>4. /\ Controller' = Controller /\ save' = Idle /\ refreshing' = TRUE
        /\ selected' \in EditedChannels /\ UNCHANGED <<live, accepted, saves>>
    BY <1>9, <2>1 DEF ReceiveConflict
  <2>5. QED
    BY <1>0, <2>3, <2>4, PageStepKeepsEditor
<1>10. CASE ReceiveNothing
  <2>1. /\ Controller' = Controller /\ save' = Idle /\ refreshing' = TRUE
        /\ UNCHANGED <<live, draft, selected, accepted, saves>>
    BY <1>10 DEF ReceiveNothing
  <2>2. QED
    BY <1>0, <2>1, PageStepKeepsEditor
<1>11. CASE DiscardAll
  <2>1. \A c \in EditedChannels :
            [draft[c] EXCEPT !.points = draft[c].baseline, !.pinned = NoRevision,
                             !.conflict = NoRevision] \in DraftRows
    BY <1>0, <1>1 DEF DraftRows
  <2>2. draft' \in [EditedChannels -> DraftRows]
    BY <1>11, <2>1 DEF DiscardAll
  <2>3. /\ Controller' = Controller
        /\ UNCHANGED <<live, selected, save, refreshing, accepted, saves>>
    BY <1>11 DEF DiscardAll
  <2>4. QED
    BY <1>0, <2>2, <2>3, PageStepKeepsEditor
<1>12. QED
  BY <1>2, <1>3, <1>4, <1>5, <1>6, <1>7, <1>8, <1>9, <1>10, <1>11

\* The editor is in order in every reachable state.
LEMMA EditorInvHolds == EditorSafety => []EditorInv
<1>1. EditorInv /\ UNCHANGED editorVars => EditorInv'
  BY DEF editorVars, EditorInv, Requested, DraftRows, StoredRows, Marks
<1>2. EditorInv /\ EditorNext => EditorInv'
  BY ControllerKeepsEditor, PageKeepsEditor DEF EditorNext
<1>3. QED
  BY <1>1, <1>2, EditorInvInit, PTL DEF EditorSafety

\* Type correctness of the schedule editor and of the saves it sends
\* (combined-schedule-state.ts, CombinedScheduleEditor.tsx).
THEOREM EditorTyped == EditorSafety => []EditorTypeOK
  BY EditorInvHolds, EditorInvTypes, PTL

\* A snapshot leaves the points of a dirty draft.
LEMMA SynchronizedKeepsPoints ==
  ASSUME NEW d \in DraftRows, NEW source \in StoredRows, NEW current, IsDirty(d)
  PROVE  Synchronized(d, source, current).points = d.points
  BY DEF Synchronized, FreshDraft, DraftRows, IsDirty

\* What the user has drawn is changed by the user alone: snapshots, answers to
\* saves, conflicts and what others commit leave the points of a dirty draft
\* (synchronizeCombinedScheduleState and the reducer of the editor).
THEOREM DrawnPointsSurvive == EditorSafety => DraftsSurvive
<1> DEFINE Theirs == \A c \in EditedChannels :
                       (IsDirty(draft[c]) /\ draft'[c].points # draft[c].points) =>
                           DiscardAll \/ \E x \in Contents : EditDraft(x) \/ RestorePoints(c, x)
<1>1. ASSUME EditorInv, EditorNext, NEW c \in EditedChannels, IsDirty(draft[c]),
             draft'[c].points # draft[c].points
      PROVE  DiscardAll \/ \E x \in Contents : EditDraft(x) \/ RestorePoints(c, x)
  <2>0. /\ draft[c] \in DraftRows /\ draft \in [EditedChannels -> DraftRows]
        /\ stored[c] \in StoredRows
    BY <1>1 DEF EditorInv
  <2>1. draft' # draft
    BY <1>1
  <2>2. ~Snapshot
    BY <1>1, <2>0, SynchronizedKeepsPoints DEF Snapshot
  <2>3. ~AcceptConflict
    BY <1>1, <2>0 DEF AcceptConflict, DraftRows
  <2>4. ~ReceiveSaved
    BY <1>1, <2>0 DEF ReceiveSaved, Saved, DraftRows
  <2>5. ~ReceiveConflict
    BY <1>1, <2>0 DEF ReceiveConflict, DraftRows
  <2>6. ASSUME NEW d \in EditedChannels, NEW x \in Contents, RestorePoints(d, x)
        PROVE  d = c
    BY <1>1, <2>0, <2>6 DEF RestorePoints, DraftRows
  <2>7. ~(\E d \in EditedChannels, x \in Contents : SomebodyElseSaves(d, x))
        /\ ~BackgroundChange /\ ~TakeSave /\ ~TakeUnchangedSave /\ ~RefuseSave /\ ~LoseSave
    BY <2>1 DEF SomebodyElseSaves, BackgroundChange, TakeSave, TakeUnchangedSave,
                RefuseSave, LoseSave
  <2>8. ~SaveAll /\ ~ReceiveNothing /\ ~(\E d \in EditedChannels : SelectChannel(d))
    BY <2>1 DEF SaveAll, ReceiveNothing, SelectChannel
  <2>9. DiscardAll \/ \E x \in Contents : EditDraft(x) \/ \E d \in EditedChannels : RestorePoints(d, x)
    BY <1>1, <2>2, <2>3, <2>4, <2>5, <2>7, <2>8 DEF EditorNext
  <2>10. QED
    BY <2>6, <2>9
<1>2. EditorInv /\ [EditorNext]_editorVars => [Theirs]_editorVars
  BY <1>1
<1>3. QED
  BY <1>2, EditorInvHolds, PTL DEF EditorSafety, DraftsSurvive
=============================================================================
