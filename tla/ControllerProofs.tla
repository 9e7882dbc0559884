-------------------------- MODULE ControllerProofs --------------------------
(***************************************************************************)
(* What holds of the two machines that MCController checks, for any bounds: *)
(* first the event stream with the page that follows it (StateCoordinator), *)
(* then the start and the stop of the process (RuntimeLifecycle).           *)
(***************************************************************************)
EXTENDS StateCoordinator, RuntimeLifecycle, SequenceTheorems,
        WellFoundedInduction, TLAPS

-----------------------------------------------------------------------------
(* Loops.                                                                  *)

Below == {p \in Nat \X Nat : p[1] < p[2]}

\* The order of the natural numbers is well-founded.
LEMMA BelowIsWellFounded == IsWellFoundedOn(Below, Nat)
<1>1. Below = OpToRel(<, Nat)
  BY DEF Below, OpToRel
<1>2. QED
  BY <1>1, NatLessThanWellFounded

\* Induction up to a bound: a set of the numbers up to n that has 0, and the
\* number after each of its own, has all of them.
LEMMA UpToTheBound ==
  ASSUME NEW n \in Nat, NEW S \in SUBSET (0 .. n), 0 \in S,
         \A i \in S : i < n => i + 1 \in S
  PROVE  S = 0 .. n
<1> DEFINE T == (0 .. n) \ S
<1>1. CASE T = {}
  BY <1>1
<1>2. CASE T # {}
  <2>1. T \in SUBSET Nat
    OBVIOUS
  <2>2. PICK i \in T : \A j \in T : <<j, i>> \notin Below
    BY <1>2, <2>1, BelowIsWellFounded, WFMin
  <2>3. i \in 0 .. n /\ i # 0 /\ i \notin S
    OBVIOUS
  <2>4. i - 1 \in Nat /\ i \in Nat /\ i - 1 < i /\ i - 1 \in 0 .. n /\ i - 1 < n /\ (i - 1) + 1 = i
    BY <2>3
  <2>5. <<i - 1, i>> \in Below
    BY <2>4 DEF Below
  <2>6. i - 1 \in S
    BY <2>2, <2>4, <2>5
  <2>7. QED
    BY <2>3, <2>4, <2>6
<1>3. QED
  BY <1>1, <1>2

\* What a loop of n rounds is: g has what each of them leaves.
Rounds(n, c, step, g) ==
    /\ g = [r \in 0 .. n |-> g[r]]
    /\ g[0] = c
    /\ \A r \in 1 .. n : g[r] = step[<<r, g[r - 1]>>]

\* A loop of n rounds runs, and keeps what every round keeps.
LEMMA LoopRuns ==
  ASSUME NEW n \in Nat, NEW J, NEW c \in J[0], NEW step,
         \A r \in 1 .. n : \A d \in J[r - 1] : step[<<r, d>>] \in J[r]
  PROVE  \E g : Rounds(n, c, step, g) /\ \A r \in 0 .. n : g[r] \in J[r]
<1> DEFINE Runs(m) == \E g : Rounds(m, c, step, g) /\ \A r \in 0 .. m : g[r] \in J[r]
           S == {m \in 0 .. n : Runs(m)}
<1>1. 0 \in S
  <2> DEFINE g == [r \in 0 .. 0 |-> c]
  <2>1. Rounds(0, c, step, g) /\ \A r \in 0 .. 0 : g[r] \in J[r]
    BY DEF Rounds
  <2> HIDE DEF g
  <2>2. Runs(0)
    BY <2>1
  <2>3. QED
    BY <2>2
<1>2. ASSUME NEW m \in S, m < n PROVE m + 1 \in S
  <2>1. PICK g : Rounds(m, c, step, g) /\ \A r \in 0 .. m : g[r] \in J[r]
    OBVIOUS
  <2>2. m \in Nat /\ m + 1 \in 0 .. n /\ m + 1 \in 1 .. n /\ (m + 1) - 1 = m /\ m + 1 # 0
    BY <1>2
  <2> DEFINE h == [r \in 0 .. m + 1 |-> IF r = m + 1 THEN step[<<m + 1, g[m]>>] ELSE g[r]]
  <2>3. \A r \in 0 .. m : h[r] = g[r]
    BY <2>2
  <2>4. h[m + 1] = step[<<m + 1, g[m]>>]
    BY <2>2
  <2>5. h = [r \in 0 .. m + 1 |-> h[r]]
    OBVIOUS
  <2> HIDE DEF h
  <2>6. ASSUME NEW r \in 1 .. m + 1 PROVE h[r] = step[<<r, h[r - 1]>>]
    <3>1. r - 1 \in 0 .. m /\ (r # m + 1 => r \in 1 .. m /\ r \in 0 .. m)
      BY <2>2
    <3>2. CASE r = m + 1
      BY <2>2, <2>3, <2>4, <3>1, <3>2
    <3>3. CASE r # m + 1
      BY <2>1, <2>3, <3>1, <3>3 DEF Rounds
    <3>4. QED
      BY <3>2, <3>3
  <2>7. h[0] = c
    BY <2>1, <2>2, <2>3 DEF Rounds
  <2>8. Rounds(m + 1, c, step, h)
    BY <2>5, <2>6, <2>7 DEF Rounds
  <2>9. ASSUME NEW r \in 0 .. m + 1 PROVE h[r] \in J[r]
    <3>1. r # m + 1 => r \in 0 .. m
      BY <2>2
    <3>2. g[m] \in J[m]
      BY <2>1, <2>2
    <3>3. step[<<m + 1, g[m]>>] \in J[m + 1]
      BY <2>2, <3>2
    <3>4. QED
      BY <2>1, <2>3, <2>4, <3>1, <3>3
  <2>10. Runs(m + 1)
    BY <2>8, <2>9
  <2>11. QED
    BY <2>2, <2>10
<1>3. S = 0 .. n
  <2>1. S \in SUBSET (0 .. n)
    OBVIOUS
  <2> HIDE DEF S
  <2>2. QED
    BY <1>1, <1>2, <2>1, UpToTheBound
<1>4. n \in S
  <2>1. n \in 0 .. n
    OBVIOUS
  <2> HIDE DEF S
  <2>2. QED
    BY <1>3, <2>1
<1>5. QED
  BY <1>4

\* What every call of acceptSequentialEvent keeps, round by round, holds of what the
\* loop over the revisions leaves.
LEMMA SequentialInOrder ==
  ASSUME NEW J, NEW c \in J[0], NEW revs,
         \A r \in 1 .. MaxRevision : \A d \in J[r - 1] :
            (IF r \in revs THEN AcceptSequential(d, r) ELSE d) \in J[r]
  PROVE  InOrder(AcceptSequential, c, revs) \in J[MaxRevision]
<1> DEFINE C == UNION {J[r] : r \in Revisions}
           step == [p \in (1 .. MaxRevision) \X C |->
                       IF p[1] \in revs THEN AcceptSequential(p[2], p[1]) ELSE p[2]]
           Body(g) == [r \in Revisions |-> IF r = 0 THEN c
                                           ELSE IF r \in revs THEN AcceptSequential(g[r - 1], r)
                                           ELSE g[r - 1]]
           after == CHOOSE g : g = Body(g)
           S == {r \in 0 .. MaxRevision : after[r] \in J[r]}
<1>1. MaxRevision \in Nat /\ Revisions = 0 .. MaxRevision
  BY StreamConstants DEF Revisions
<1>2. ASSUME NEW r \in 1 .. MaxRevision, NEW d \in J[r - 1]
      PROVE  /\ step[<<r, d>>] = IF r \in revs THEN AcceptSequential(d, r) ELSE d
             /\ step[<<r, d>>] \in J[r]
  <2>1. r - 1 \in Revisions
    BY <1>1
  <2>2. d \in C
    BY <2>1
  <2>3. step[<<r, d>>] = IF r \in revs THEN AcceptSequential(d, r) ELSE d
    BY <2>2
  <2>4. QED
    BY <2>3
<1> HIDE DEF step, C
<1>3. \A r \in 1 .. MaxRevision : \A d \in J[r - 1] : step[<<r, d>>] \in J[r]
  BY <1>2
<1>4. PICK g : Rounds(MaxRevision, c, step, g) /\ \A r \in 0 .. MaxRevision : g[r] \in J[r]
  BY <1>1, <1>3, LoopRuns
<1>5. g = Body(g)
  <2>1. ASSUME NEW r \in 1 .. MaxRevision
        PROVE  g[r] = IF r \in revs THEN AcceptSequential(g[r - 1], r) ELSE g[r - 1]
    <3>1. r - 1 \in 0 .. MaxRevision
      BY <1>1
    <3>2. g[r] = step[<<r, g[r - 1]>>] /\ g[r - 1] \in J[r - 1]
      BY <1>4, <3>1 DEF Rounds
    <3>3. QED
      BY <1>2, <3>2
  <2>2. QED
    BY <1>1, <1>4, <2>1 DEF Rounds
<1>6. after = Body(after)
  BY <1>5
<1>7. InOrder(AcceptSequential, c, revs) = after[MaxRevision]
  BY DEF InOrder
<1> HIDE DEF after
<1>8. 0 \in S
  BY <1>1, <1>6
<1>9. ASSUME NEW r \in S, r < MaxRevision PROVE r + 1 \in S
  <2>1. r + 1 \in 1 .. MaxRevision /\ r + 1 \in 0 .. MaxRevision /\ (r + 1) - 1 = r /\ r + 1 # 0
    BY <1>1, <1>9
  <2>2. after[r + 1] = IF r + 1 \in revs THEN AcceptSequential(after[r], r + 1) ELSE after[r]
    BY <1>1, <1>6, <2>1
  <2>3. after[r] \in J[(r + 1) - 1]
    BY <2>1
  <2>4. (IF r + 1 \in revs THEN AcceptSequential(after[r], r + 1) ELSE after[r]) \in J[r + 1]
    BY <2>1, <2>3
  <2>5. QED
    BY <2>1, <2>2, <2>4
<1>10. S = 0 .. MaxRevision
  <2>1. S \in SUBSET (0 .. MaxRevision)
    OBVIOUS
  <2> HIDE DEF S
  <2>2. QED
    BY <1>1, <1>8, <1>9, <2>1, UpToTheBound
<1>11. MaxRevision \in S
  BY <1>1, <1>10
<1>12. QED
  BY <1>7, <1>11

\* What every call of acceptCommitted keeps, round by round, holds of what the
\* loop over the revisions leaves.
LEMMA CommittedInOrder ==
  ASSUME NEW J, NEW c \in J[0], NEW revs,
         \A r \in 1 .. MaxRevision : \A d \in J[r - 1] :
            (IF r \in revs THEN AcceptCommitted(d, r) ELSE d) \in J[r]
  PROVE  InOrder(AcceptCommitted, c, revs) \in J[MaxRevision]
<1> DEFINE C == UNION {J[r] : r \in Revisions}
           step == [p \in (1 .. MaxRevision) \X C |->
                       IF p[1] \in revs THEN AcceptCommitted(p[2], p[1]) ELSE p[2]]
           Body(g) == [r \in Revisions |-> IF r = 0 THEN c
                                           ELSE IF r \in revs THEN AcceptCommitted(g[r - 1], r)
                                           ELSE g[r - 1]]
           after == CHOOSE g : g = Body(g)
           S == {r \in 0 .. MaxRevision : after[r] \in J[r]}
<1>1. MaxRevision \in Nat /\ Revisions = 0 .. MaxRevision
  BY StreamConstants DEF Revisions
<1>2. ASSUME NEW r \in 1 .. MaxRevision, NEW d \in J[r - 1]
      PROVE  /\ step[<<r, d>>] = IF r \in revs THEN AcceptCommitted(d, r) ELSE d
             /\ step[<<r, d>>] \in J[r]
  <2>1. r - 1 \in Revisions
    BY <1>1
  <2>2. d \in C
    BY <2>1
  <2>3. step[<<r, d>>] = IF r \in revs THEN AcceptCommitted(d, r) ELSE d
    BY <2>2
  <2>4. QED
    BY <2>3
<1> HIDE DEF step, C
<1>3. \A r \in 1 .. MaxRevision : \A d \in J[r - 1] : step[<<r, d>>] \in J[r]
  BY <1>2
<1>4. PICK g : Rounds(MaxRevision, c, step, g) /\ \A r \in 0 .. MaxRevision : g[r] \in J[r]
  BY <1>1, <1>3, LoopRuns
<1>5. g = Body(g)
  <2>1. ASSUME NEW r \in 1 .. MaxRevision
        PROVE  g[r] = IF r \in revs THEN AcceptCommitted(g[r - 1], r) ELSE g[r - 1]
    <3>1. r - 1 \in 0 .. MaxRevision
      BY <1>1
    <3>2. g[r] = step[<<r, g[r - 1]>>] /\ g[r - 1] \in J[r - 1]
      BY <1>4, <3>1 DEF Rounds
    <3>3. QED
      BY <1>2, <3>2
  <2>2. QED
    BY <1>1, <1>4, <2>1 DEF Rounds
<1>6. after = Body(after)
  BY <1>5
<1>7. InOrder(AcceptCommitted, c, revs) = after[MaxRevision]
  BY DEF InOrder
<1> HIDE DEF after
<1>8. 0 \in S
  BY <1>1, <1>6
<1>9. ASSUME NEW r \in S, r < MaxRevision PROVE r + 1 \in S
  <2>1. r + 1 \in 1 .. MaxRevision /\ r + 1 \in 0 .. MaxRevision /\ (r + 1) - 1 = r /\ r + 1 # 0
    BY <1>1, <1>9
  <2>2. after[r + 1] = IF r + 1 \in revs THEN AcceptCommitted(after[r], r + 1) ELSE after[r]
    BY <1>1, <1>6, <2>1
  <2>3. after[r] \in J[(r + 1) - 1]
    BY <2>1
  <2>4. (IF r + 1 \in revs THEN AcceptCommitted(after[r], r + 1) ELSE after[r]) \in J[r + 1]
    BY <2>1, <2>3
  <2>5. QED
    BY <2>1, <2>2, <2>4
<1>10. S = 0 .. MaxRevision
  <2>1. S \in SUBSET (0 .. MaxRevision)
    OBVIOUS
  <2> HIDE DEF S
  <2>2. QED
    BY <1>1, <1>8, <1>9, <2>1, UpToTheBound
<1>11. MaxRevision \in S
  BY <1>1, <1>10
<1>12. QED
  BY <1>7, <1>11

-----------------------------------------------------------------------------
(* The inductive invariant.                                                *)

\* What the browser has still to receive of a connection.
Pending(c) == c.wire \o c.queue

Events(s) == {s[i].revision : i \in {j \in DOMAIN s : s[j].kind = "event"}}
Resyncs(s) == {s[i].revision : i \in {j \in DOMAIN s : s[j].kind = "resync"}}

InTurn(s) ==
    \A i, j \in DOMAIN s :
        i < j /\ s[i].kind = "event" /\ s[j].kind = "event" => s[i].revision < s[j].revision

\* A connection whose frames continue what the page u has, when the database
\* number e has the revisions up to top: the events come in order, after the one
\* the page saw last, and up to the one the hub accepted last.
Streaming(c, u, e, top) ==
    /\ c \in Connection
    /\ Len(c.queue) <= MaxQueuedFrames
    /\ InTurn(Pending(c))
    /\ \A r \in Events(Pending(c)) : r > u.cursor /\ (e = 0 => r <= top)
    /\ \A r \in Resyncs(Pending(c)) :
          e = 0 => r >= u.cursor /\ \A x \in Events(Pending(c)) : x <= r
    /\ Ended(c) => c.queue = <<>>
    /\ ~Ended(c) =>
          /\ \A r \in Events(Pending(c)) : r <= c.current
          /\ Resyncs(Pending(c)) = {}
          /\ u.cursor <= c.current /\ c.current <= c.known
          /\ u.rev >= c.current \/ c.current \in Events(Pending(c))
          /\ e = 0 => c.known <= top

\* Until its replay a connection has sent nothing but the response's headers.
Awaiting(c, e, top) ==
    Replaying(c) =>
        /\ c.queue = <<>> /\ c.current = c.requested
        /\ \A i \in DOMAIN c.wire : c.wire[i].kind = "open"
        /\ \A r \in c.buffer : r <= c.known
        /\ e = 0 /\ c.phase = "read" => c.requested <= c.at /\ c.at <= top

\* A revision that was broadcast is in the replay, in the buffer or accepted.
Heard(c, t) ==
    /\ c.phase = "read" => t <= c.at \/ t \in c.buffer
    /\ c.phase = "live" => t <= c.current

\* The page: what it shows is not ahead of the database, whatever comes.
Shown(u, e, top) ==
    /\ u \in Ui
    /\ u.fetch = "answered" <=> u.answer # NoSnapshot
    /\ u.snap.revision <= u.rev
    /\ e = 0 => u.rev <= top /\ (u.fetch = "answered" => u.answer.revision <= top)

\* What it has asked for and what it insists on: an answer that is older than what
\* it shows is refused, and an event stream says what the page must insist on.
Page(u, e, top) ==
    /\ Shown(u, e, top)
    /\ ~u.stale => u.snap # NoSnapshot /\ u.snap.revision = u.rev
    /\ e = 0 /\ u.fetch = "answered" => u.rev <= u.answer.revision \/ u.rev <= u.required
    /\ u.stream # "none" =>
          /\ ~u.reconnect /\ u.required >= u.rev /\ u.cursor <= u.rev
          /\ e = 0 /\ u.fetch = "answered" => u.rev <= u.answer.revision \/ u.rev <= u.cursor

\* The outbox and the pass.
ServerOrder ==
    /\ pass.from <= pass.to /\ pass.to <= revision
    /\ told <= revision
    /\ ~up => pass = NoPass /\ told = 0 /\ conn = NoConn
    /\ pruned <= Larger(0, revision - Retained)
    /\ epoch <= disturbed

IInv ==
    /\ ServerTypeOK
    /\ disturbed \in 0 .. MaxDisturbances
    /\ ServerOrder
    /\ Streaming(conn, ui, epoch, revision)
    /\ Awaiting(conn, epoch, revision)
    /\ Heard(conn, told)
    /\ Page(ui, epoch, revision)
    /\ ui.stream # "open" => conn = NoConn

-----------------------------------------------------------------------------
(* Frames.                                                                 *)

FrameRecords == [kind : FrameKinds, revision : Revisions]

\* Appending a frame to a sequence of frames.
LEMMA AppendedFrame ==
  ASSUME NEW s \in Seq(FrameRecords), NEW f \in FrameRecords
  PROVE  /\ Append(s, f) \in Seq(FrameRecords)
         /\ Events(Append(s, f)) = Events(s) \cup (IF f.kind = "event" THEN {f.revision} ELSE {})
         /\ Resyncs(Append(s, f)) = Resyncs(s) \cup (IF f.kind = "resync" THEN {f.revision} ELSE {})
         /\ InTurn(s) /\ (f.kind = "event" => \A r \in Events(s) : r < f.revision)
               => InTurn(Append(s, f))
<1> DEFINE t == Append(s, f)
           n == Len(s)
<1>1. /\ n \in Nat /\ DOMAIN s = 1 .. n /\ DOMAIN t = 1 .. (n + 1)
      /\ \A i \in 1 .. n : t[i] = s[i]
      /\ t[n + 1] = f
      /\ t \in Seq(FrameRecords)
  OBVIOUS
<1>2. \A i \in 1 .. (n + 1) : i \in 1 .. n \/ i = n + 1
  BY <1>1
<1>3. 1 .. n \subseteq 1 .. (n + 1) /\ n + 1 \in 1 .. (n + 1)
  BY <1>1
<1> HIDE DEF t, n
<1>4. Events(t) = Events(s) \cup (IF f.kind = "event" THEN {f.revision} ELSE {})
  BY <1>1, <1>2, <1>3 DEF Events
<1>5. Resyncs(t) = Resyncs(s) \cup (IF f.kind = "resync" THEN {f.revision} ELSE {})
  BY <1>1, <1>2, <1>3 DEF Resyncs
<1>6. ASSUME InTurn(s), f.kind = "event" => \A r \in Events(s) : r < f.revision
      PROVE  InTurn(t)
  <2> SUFFICES ASSUME NEW i \in 1 .. (n + 1), NEW j \in 1 .. (n + 1), i < j,
                      t[i].kind = "event", t[j].kind = "event"
               PROVE  t[i].revision < t[j].revision
    BY <1>1 DEF InTurn
  <2>1. i \in 1 .. n /\ t[i] = s[i]
    BY <1>1
  <2>2. CASE j \in 1 .. n
    BY <1>1, <1>6, <2>1, <2>2 DEF InTurn
  <2>3. CASE j = n + 1
    <3>1. t[j] = f
      BY <1>1, <2>3
    <3>2. s[i].revision \in Events(s)
      BY <1>1, <2>1 DEF Events
    <3>3. QED
      BY <1>6, <2>1, <3>1, <3>2
  <2>4. QED
    BY <1>2, <2>2, <2>3
<1>7. QED
  BY <1>1, <1>4, <1>5, <1>6 DEF t

\* The first frames of a sequence of frames.
LEMMA FramesBefore ==
  ASSUME NEW s \in Seq(FrameRecords), NEW q \in Seq(FrameRecords)
  PROVE  /\ s \o q \in Seq(FrameRecords)
         /\ Events(s) \subseteq Events(s \o q)
         /\ Resyncs(s) \subseteq Resyncs(s \o q)
         /\ InTurn(s \o q) => InTurn(s)
<1>1. /\ Len(s) \in Nat /\ Len(q) \in Nat
      /\ DOMAIN s = 1 .. Len(s) /\ DOMAIN (s \o q) = 1 .. (Len(s) + Len(q))
      /\ \A i \in 1 .. Len(s) : (s \o q)[i] = s[i]
      /\ s \o q \in Seq(FrameRecords)
  OBVIOUS
<1>2. 1 .. Len(s) \subseteq 1 .. (Len(s) + Len(q))
  BY <1>1
<1> DEFINE t == s \o q
<1> HIDE DEF t
<1>3. Events(s) \subseteq Events(t)
  BY <1>1, <1>2 DEF Events, t
<1>4. Resyncs(s) \subseteq Resyncs(t)
  BY <1>1, <1>2 DEF Resyncs, t
<1>5. InTurn(t) => InTurn(s)
  BY <1>1, <1>2 DEF InTurn, t
<1>6. QED
  BY <1>1, <1>3, <1>4, <1>5 DEF t

\* The frame at the head of a sequence of frames, and those behind it.
LEMMA FramesBehind ==
  ASSUME NEW s \in Seq(FrameRecords), s # <<>>
  PROVE  /\ Head(s) \in FrameRecords /\ Tail(s) \in Seq(FrameRecords)
         /\ Events(s) = Events(Tail(s))
                          \cup (IF Head(s).kind = "event" THEN {Head(s).revision} ELSE {})
         /\ Resyncs(s) = Resyncs(Tail(s))
                          \cup (IF Head(s).kind = "resync" THEN {Head(s).revision} ELSE {})
         /\ InTurn(s) => /\ InTurn(Tail(s))
                         /\ Head(s).kind = "event" =>
                               \A r \in Events(Tail(s)) : r > Head(s).revision
<1> DEFINE n == Len(s)
           t == Tail(s)
           f == Head(s)
<1>1. /\ n \in Nat /\ n # 0 /\ DOMAIN s = 1 .. n /\ DOMAIN t = 1 .. (n - 1)
      /\ \A i \in 1 .. (n - 1) : t[i] = s[i + 1]
      /\ f = s[1]
      /\ f \in FrameRecords /\ t \in Seq(FrameRecords)
      /\ \A i \in 1 .. n : s[i] \in FrameRecords
  OBVIOUS
<1>2. \A i \in 1 .. n : i = 1 \/ (i - 1 \in 1 .. (n - 1) /\ t[i - 1] = s[i])
  BY <1>1
<1>3. 1 \in 1 .. n /\ \A i \in 1 .. (n - 1) : i + 1 \in 1 .. n /\ 1 < i + 1
  BY <1>1
<1> HIDE DEF t, n, f
<1>4. Events(s) = Events(t) \cup (IF f.kind = "event" THEN {f.revision} ELSE {})
  <2>1. ASSUME NEW r \in Events(s) PROVE r \in Events(t) \/ (f.kind = "event" /\ r = f.revision)
    <3>1. PICK i \in 1 .. n : s[i].kind = "event" /\ r = s[i].revision
      BY <1>1 DEF Events
    <3>2. CASE i = 1
      BY <1>1, <3>1, <3>2
    <3>3. CASE i - 1 \in 1 .. (n - 1) /\ t[i - 1] = s[i]
      BY <1>1, <3>1, <3>3 DEF Events
    <3>4. QED
      BY <1>2, <3>2, <3>3
  <2>2. Events(t) \subseteq Events(s)
    BY <1>1, <1>3 DEF Events
  <2>3. f.kind = "event" => f.revision \in Events(s)
    BY <1>1, <1>3 DEF Events
  <2>4. QED
    BY <2>1, <2>2, <2>3
<1>5. Resyncs(s) = Resyncs(t) \cup (IF f.kind = "resync" THEN {f.revision} ELSE {})
  <2>1. ASSUME NEW r \in Resyncs(s) PROVE r \in Resyncs(t) \/ (f.kind = "resync" /\ r = f.revision)
    <3>1. PICK i \in 1 .. n : s[i].kind = "resync" /\ r = s[i].revision
      BY <1>1 DEF Resyncs
    <3>2. CASE i = 1
      BY <1>1, <3>1, <3>2
    <3>3. CASE i - 1 \in 1 .. (n - 1) /\ t[i - 1] = s[i]
      BY <1>1, <3>1, <3>3 DEF Resyncs
    <3>4. QED
      BY <1>2, <3>2, <3>3
  <2>2. Resyncs(t) \subseteq Resyncs(s)
    BY <1>1, <1>3 DEF Resyncs
  <2>3. f.kind = "resync" => f.revision \in Resyncs(s)
    BY <1>1, <1>3 DEF Resyncs
  <2>4. QED
    BY <2>1, <2>2, <2>3
<1>6. ASSUME InTurn(s) PROVE InTurn(t)
  <2>1. \A i, j \in 1 .. (n - 1) : i < j => i + 1 < j + 1
    BY <1>1
  <2>2. QED
    BY <1>1, <1>3, <1>6, <2>1 DEF InTurn
<1>7. ASSUME InTurn(s), f.kind = "event", NEW r \in Events(t) PROVE r > f.revision
  <2>1. PICK i \in 1 .. (n - 1) : t[i].kind = "event" /\ r = t[i].revision
    BY <1>1 DEF Events
  <2>2. s[1].revision < s[i + 1].revision
    BY <1>1, <1>3, <1>7, <2>1 DEF InTurn
  <2>3. s[1].revision \in Int /\ s[i + 1].revision \in Int
    BY <1>1, <1>3, StreamConstants DEF FrameRecords, Revisions
  <2>4. QED
    BY <1>1, <2>1, <2>2, <2>3
<1>8. QED
  BY <1>1, <1>4, <1>5, <1>6, <1>7 DEF t, f

\* Taking the first frame of what is under way.
LEMMA FirstUnderWay ==
  ASSUME NEW s \in Seq(FrameRecords), NEW q \in Seq(FrameRecords), s # <<>>
  PROVE  s \o q # <<>> /\ Head(s \o q) = Head(s) /\ Tail(s \o q) = Tail(s) \o q
<1>1. s \o q # <<>> /\ Head(s \o q) = Head(s)
  OBVIOUS
<1>2. Len(Tail(s \o q)) = Len(Tail(s) \o q)
  OBVIOUS
<1>3. \A i \in 1 .. Len(Tail(s) \o q) : Tail(s \o q)[i] = (Tail(s) \o q)[i]
  OBVIOUS
<1>4. Tail(s \o q) \in Seq(FrameRecords) /\ Tail(s) \o q \in Seq(FrameRecords)
  OBVIOUS
<1>5. QED
  BY <1>1, <1>2, <1>3, <1>4, SeqEqual

\* Appending to what waits, or to what is under way when nothing waits.
LEMMA AppendedBehind ==
  ASSUME NEW s \in Seq(FrameRecords), NEW q \in Seq(FrameRecords), NEW f \in FrameRecords
  PROVE  /\ s \o Append(q, f) = Append(s \o q, f)
         /\ s \o <<>> = s
<1>1. Len(s \o Append(q, f)) = Len(Append(s \o q, f))
  OBVIOUS
<1>2. \A i \in 1 .. Len(Append(s \o q, f)) : (s \o Append(q, f))[i] = Append(s \o q, f)[i]
  OBVIOUS
<1>3. s \o Append(q, f) \in Seq(FrameRecords) /\ Append(s \o q, f) \in Seq(FrameRecords)
  OBVIOUS
<1>4. s \o Append(q, f) = Append(s \o q, f)
  BY <1>1, <1>2, <1>3, SeqEqual
<1>5. s \o <<>> = s
  BY ConcatEmptySeq
<1>6. QED
  BY <1>4, <1>5

\* Cutting what waits in two loses none of it.
LEMMA CutInTwo ==
  ASSUME NEW q \in Seq(FrameRecords), NEW n \in 0 .. Len(q)
  PROVE  /\ SubSeq(q, 1, n) \in Seq(FrameRecords)
         /\ SubSeq(q, n + 1, Len(q)) \in Seq(FrameRecords)
         /\ Len(SubSeq(q, n + 1, Len(q))) = Len(q) - n
         /\ SubSeq(q, 1, n) \o SubSeq(q, n + 1, Len(q)) = q
<1> DEFINE a == SubSeq(q, 1, n)
           b == SubSeq(q, n + 1, Len(q))
<1>1. Len(q) \in Nat /\ n \in Nat /\ n <= Len(q)
  OBVIOUS
<1>2. a \in Seq(FrameRecords) /\ Len(a) = n /\ \A i \in 1 .. n : a[i] = q[i]
  BY <1>1
<1>3. b \in Seq(FrameRecords) /\ Len(b) = Len(q) - n /\ \A i \in 1 .. (Len(q) - n) : b[i] = q[n + i]
  BY <1>1
<1> HIDE DEF a, b
<1>4. a \o b \in Seq(FrameRecords) /\ Len(a \o b) = Len(q)
  BY <1>1, <1>2, <1>3
<1>5. ASSUME NEW i \in 1 .. Len(q) PROVE (a \o b)[i] = q[i]
  <2>1. CASE i <= n
    BY <1>1, <1>2, <1>3, <2>1
  <2>2. CASE i > n
    <3>1. i - n \in 1 .. (Len(q) - n) /\ n + (i - n) = i
      BY <1>1, <2>2
    <3>2. (a \o b)[i] = b[i - n]
      BY <1>1, <1>2, <1>3, <2>2
    <3>3. QED
      BY <1>3, <3>1, <3>2
  <2>3. i <= n \/ i > n
    BY <1>1
  <2>4. QED
    BY <2>1, <2>2, <2>3
<1>6. a \o b = q
  BY <1>4, <1>5, SeqEqual
<1>7. QED
  BY <1>2, <1>3, <1>6 DEF a, b

-----------------------------------------------------------------------------
(* One connection.                                                         *)

\* The revisions are numbers, and the first of them is there.
LEMMA RevisionFacts ==
  /\ MaxRevision \in Nat /\ MaxQueuedFrames \in Nat \ {0} /\ HighWater \in Nat \ {0}
  /\ MaxReplay \in Nat \ {0} /\ Retained \in Nat \ {0}
  /\ Revisions = 0 .. MaxRevision /\ 0 \in Revisions
  /\ \A r \in Revisions : r \in Int /\ r >= 0 /\ r <= MaxRevision
BY StreamConstants DEF Revisions

\* What the fields of a connection are.
LEMMA ConnectionFields ==
  ASSUME NEW c \in Connection
  PROVE  /\ c.phase \in {"none", "reading", "read", "live", "ended"}
         /\ c.requested \in Revisions /\ c.current \in Revisions /\ c.known \in Revisions
         /\ c.at \in Revisions /\ c.first \in Revisions
         /\ \A r \in c.buffer : r \in Revisions
         /\ c.queue \in Seq(FrameRecords) /\ Len(c.queue) \in Nat
         /\ c.wire \in Seq(FrameRecords) /\ Len(c.wire) \in Nat
         /\ c.blocked \in BOOLEAN
         /\ Pending(c) \in Seq(FrameRecords)
         /\ \A r \in Events(Pending(c)) : r \in Revisions
         /\ \A r \in Resyncs(Pending(c)) : r \in Revisions
<1>1. /\ c.phase \in {"none", "reading", "read", "live", "ended"}
      /\ c.requested \in Revisions /\ c.current \in Revisions /\ c.known \in Revisions
      /\ c.at \in Revisions /\ c.first \in Revisions
      /\ c.buffer \in SUBSET Revisions
      /\ c.queue \in Seq(FrameRecords) /\ c.wire \in Seq(FrameRecords)
      /\ c.blocked \in BOOLEAN
  BY DEF Connection, FrameRecords
<1>2. Len(c.queue) \in Nat /\ Len(c.wire) \in Nat
  BY <1>1
<1>3. Pending(c) \in Seq(FrameRecords)
  BY <1>1, FramesBefore DEF Pending
<1>4. \A i \in DOMAIN Pending(c) : Pending(c)[i] \in FrameRecords
  BY <1>3
<1>5. \A i \in DOMAIN Pending(c) : Pending(c)[i].revision \in Revisions
  BY <1>4 DEF FrameRecords
<1>6. QED
  BY <1>1, <1>2, <1>3, <1>5 DEF Events, Resyncs

\* A frame of one of the kinds.
LEMMA FrameFacts ==
  ASSUME NEW k \in FrameKinds, NEW r \in Revisions
  PROVE  Frame(k, r) \in FrameRecords /\ Frame(k, r).kind = k /\ Frame(k, r).revision = r
BY DEF Frame, FrameRecords

\* No connection, and one that has only been opened.
LEMMA EmptyConnections ==
  ASSUME NEW after \in Revisions
  PROVE  /\ NoConn \in Connection /\ Ended(NoConn) /\ ~Replaying(NoConn)
         /\ NoConn.queue = <<>> /\ NoConn.wire = <<>> /\ NoConn.phase = "none"
         /\ Events(Pending(NoConn)) = {} /\ Resyncs(Pending(NoConn)) = {}
         /\ InTurn(Pending(NoConn))
         /\ Opened(after) \in Connection /\ ~Ended(Opened(after)) /\ Replaying(Opened(after))
         /\ Opened(after).queue = <<>> /\ Opened(after).phase = "reading"
         /\ \A i \in DOMAIN Opened(after).wire : Opened(after).wire[i].kind = "open"
         /\ Events(Pending(Opened(after))) = {} /\ Resyncs(Pending(Opened(after))) = {}
         /\ InTurn(Pending(Opened(after)))
         /\ Opened(after).current = after /\ Opened(after).known = after
         /\ Opened(after).requested = after /\ Opened(after).buffer = {}
<1> DEFINE f == Frame("open", 0)
<1>1. f \in FrameRecords /\ f.kind = "open"
  BY FrameFacts, RevisionFacts DEF FrameKinds
<1>2. <<>> \in Seq(FrameRecords) /\ {} \in SUBSET Revisions
  OBVIOUS
<1> HIDE DEF f
<1>3. <<f>> \in Seq(FrameRecords) /\ <<f>> \o <<>> = <<f>> /\ DOMAIN <<f>> = {1} /\ <<f>>[1] = f
  BY <1>1
<1>4. ASSUME NEW r \in Revisions
      PROVE  /\ Opened(r) = [phase |-> "reading", requested |-> r, current |-> r,
                             known |-> r, at |-> 0, first |-> 0, buffer |-> {},
                             queue |-> <<>>, blocked |-> FALSE, wire |-> <<f>>]
             /\ Opened(r) \in Connection
  <2>1. Opened(r) = [phase |-> "reading", requested |-> r, current |-> r,
                     known |-> r, at |-> 0, first |-> 0, buffer |-> {},
                     queue |-> <<>>, blocked |-> FALSE, wire |-> <<f>>]
    BY DEF Opened, f
  <2>2. QED
    BY <1>2, <1>3, <2>1, RevisionFacts DEF Connection, FrameRecords
<1>5. Opened(0) \in Connection /\ Opened(0).queue = <<>>
  BY <1>4, RevisionFacts
<1>6. NoConn = [Opened(0) EXCEPT !.phase = "none", !.wire = <<>>]
  BY DEF NoConn
<1>7. /\ NoConn \in Connection
      /\ NoConn.queue = <<>> /\ NoConn.wire = <<>> /\ NoConn.phase = "none"
  BY <1>2, <1>5, <1>6 DEF Connection, FrameRecords
<1>8. Pending(NoConn) = <<>> /\ Pending(Opened(after)) = <<f>>
  <2>1. <<>> \o <<>> = <<>>
    OBVIOUS
  <2>2. Opened(after).wire = <<f>> /\ Opened(after).queue = <<>>
    BY <1>4
  <2>3. QED
    BY <1>3, <1>7, <2>1, <2>2 DEF Pending
<1>9. /\ Events(<<>>) = {} /\ Resyncs(<<>>) = {} /\ InTurn(<<>>)
      /\ Events(<<f>>) = {} /\ Resyncs(<<f>>) = {} /\ InTurn(<<f>>)
  BY <1>1, <1>3 DEF Events, Resyncs, InTurn
<1>10. Ended(NoConn) /\ ~Replaying(NoConn)
  BY <1>7 DEF Ended, Replaying
<1>11. /\ ~Ended(Opened(after)) /\ Replaying(Opened(after))
       /\ Opened(after).queue = <<>> /\ Opened(after).phase = "reading"
       /\ Opened(after).wire = <<f>>
       /\ Opened(after).current = after /\ Opened(after).known = after
       /\ Opened(after).requested = after /\ Opened(after).buffer = {}
  BY <1>4 DEF Ended, Replaying
<1>12. \A i \in DOMAIN Opened(after).wire : Opened(after).wire[i].kind = "open"
  BY <1>1, <1>3, <1>11
<1>13. QED
  BY <1>4, <1>7, <1>8, <1>9, <1>10, <1>11, <1>12

\* #forceResync keeps the events that are in the socket, and says resync last.
LEMMA ResyncForced ==
  ASSUME NEW c \in Connection, ~Ended(c), NEW r \in Revisions,
         NEW d, d = ForceResync(c, r)
  PROVE  /\ d \in Connection /\ d.phase = "ended" /\ d.queue = <<>>
         /\ Events(Pending(d)) \subseteq Events(Pending(c))
         /\ Resyncs(Pending(d)) \subseteq Resyncs(Pending(c)) \cup {r}
         /\ InTurn(Pending(c)) => InTurn(Pending(d))
<1> DEFINE f == Frame("resync", r)
           w == Append(c.wire, f)
<1>1. f \in FrameRecords /\ f.kind = "resync" /\ f.revision = r
  BY FrameFacts DEF FrameKinds
<1>2. c.wire \in Seq(FrameRecords) /\ c.queue \in Seq(FrameRecords)
  BY ConnectionFields
<1>3. d = [NoConn EXCEPT !.phase = "ended", !.wire = w]
  BY DEF ForceResync
<1> HIDE DEF f
<1>4. /\ w \in Seq(FrameRecords) /\ Events(w) = Events(c.wire)
      /\ Resyncs(w) = Resyncs(c.wire) \cup {r}
      /\ InTurn(c.wire) => InTurn(w)
  BY <1>1, <1>2, AppendedFrame
<1> HIDE DEF w
<1>5. NoConn \in Connection /\ NoConn.queue = <<>>
  BY EmptyConnections, RevisionFacts
<1>6. d \in Connection /\ d.phase = "ended" /\ d.queue = <<>> /\ d.wire = w
  BY <1>3, <1>4, <1>5 DEF Connection, FrameRecords
<1>7. Pending(d) = w
  BY <1>4, <1>6, AppendedBehind, ConcatEmptySeq DEF Pending
<1>8. /\ Events(c.wire) \subseteq Events(Pending(c))
      /\ Resyncs(c.wire) \subseteq Resyncs(Pending(c))
      /\ InTurn(Pending(c)) => InTurn(c.wire)
  BY <1>2, FramesBefore DEF Pending
<1>9. QED
  BY <1>4, <1>6, <1>7, <1>8

\* #enqueue: the frame is the last of what is under way, or the queue is full.
LEMMA EnqueueCases ==
  ASSUME NEW c \in Connection, ~Ended(c), NEW f \in FrameRecords,
         Len(c.queue) <= MaxQueuedFrames,
         NEW d, d = Enqueue(c, f)
  PROVE  \/ d = ForceResync(c, c.known)
         \/ /\ d \in Connection /\ Len(d.queue) <= MaxQueuedFrames
            /\ Pending(d) = Append(Pending(c), f)
            /\ d.phase = c.phase /\ d.current = c.current /\ d.known = c.known
<1>1. /\ c.wire \in Seq(FrameRecords) /\ c.queue \in Seq(FrameRecords)
      /\ Len(c.queue) \in Nat
  BY ConnectionFields
<1> DEFINE w == Append(c.wire, f)
           q == Append(c.queue, f)
           full == Len(c.wire) + 1 >= HighWater
<1>2. w \in Seq(FrameRecords) /\ q \in Seq(FrameRecords) /\ Len(q) = Len(c.queue) + 1
  BY <1>1
<1>3. full \in BOOLEAN
  OBVIOUS
<1> HIDE DEF full
<1>4. CASE ~c.blocked /\ c.queue = <<>>
  <2>1. d = [c EXCEPT !.wire = w, !.blocked = full]
    BY <1>4 DEF Enqueue, Write, full
  <2> HIDE DEF w, q
  <2>2. d \in Connection
    BY <1>2, <1>3, <2>1 DEF Connection, FrameRecords
  <2>3. /\ d.queue = c.queue /\ d.wire = w /\ d.phase = c.phase /\ d.current = c.current
        /\ d.known = c.known
    BY <2>1 DEF Connection
  <2>4. Pending(d) = w /\ Pending(c) = c.wire
    BY <1>1, <1>2, <1>4, <2>3, ConcatEmptySeq DEF Pending
  <2>5. Pending(d) = Append(Pending(c), f)
    BY <2>4 DEF w
  <2>6. QED
    BY <2>2, <2>3, <2>5
<1>5. CASE ~(~c.blocked /\ c.queue = <<>>) /\ Len(c.queue) >= MaxQueuedFrames
  BY <1>5 DEF Enqueue
<1>6. CASE ~(~c.blocked /\ c.queue = <<>>) /\ ~(Len(c.queue) >= MaxQueuedFrames)
  <2>1. d = [c EXCEPT !.queue = q]
    BY <1>6 DEF Enqueue
  <2>2. Len(q) <= MaxQueuedFrames
    BY <1>1, <1>2, <1>6, RevisionFacts
  <2>3. c.wire \o q = Append(c.wire \o c.queue, f)
    BY <1>1, AppendedBehind
  <2> HIDE DEF w, q
  <2>4. d \in Connection
    BY <1>2, <2>1 DEF Connection, FrameRecords
  <2>5. /\ d.queue = q /\ d.wire = c.wire /\ d.phase = c.phase /\ d.current = c.current
        /\ d.known = c.known
    BY <2>1 DEF Connection
  <2>6. QED
    BY <2>2, <2>3, <2>4, <2>5 DEF Pending
<1>7. QED
  BY <1>4, <1>5, <1>6

-----------------------------------------------------------------------------
(* What a connection does for a page.                                      *)

\* Comparing revisions.
LEMMA LargerAndSmaller ==
  ASSUME NEW m \in Int, NEW n \in Int
  PROVE  /\ Larger(m, n) \in {m, n} /\ Larger(m, n) >= m /\ Larger(m, n) >= n
         /\ Smaller(m, n) \in {m, n} /\ Smaller(m, n) <= m /\ Smaller(m, n) <= n
BY DEF Larger, Smaller

\* A connection cut off with the resync that names what the hub knows of.
LEMMA ResyncStreams ==
  ASSUME NEW u, NEW e \in Nat, NEW top \in Revisions,
         u.cursor \in Revisions, u.rev \in Revisions,
         NEW c, Streaming(c, u, e, top), ~Ended(c), NEW r \in Revisions,
         e = 0 => r >= u.cursor /\ \A x \in Events(Pending(c)) : x <= r,
         NEW d, d = ForceResync(c, r)
  PROVE  Streaming(d, u, e, top) /\ d.phase = "ended" /\ Ended(d)
<1>1. /\ c \in Connection /\ InTurn(Pending(c)) /\ Resyncs(Pending(c)) = {}
      /\ \A x \in Events(Pending(c)) : x > u.cursor /\ (e = 0 => x <= top)
  BY DEF Streaming
<1>2. /\ d \in Connection /\ d.phase = "ended" /\ d.queue = <<>>
      /\ Events(Pending(d)) \subseteq Events(Pending(c))
      /\ Resyncs(Pending(d)) \subseteq Resyncs(Pending(c)) \cup {r}
      /\ InTurn(Pending(c)) => InTurn(Pending(d))
  BY <1>1, ResyncForced
<1>3. Len(d.queue) <= MaxQueuedFrames
  <2>1. Len(<<>>) = 0
    OBVIOUS
  <2>2. QED
    BY <1>2, <2>1, RevisionFacts
<1>4. Ended(d)
  BY <1>2 DEF Ended
<1>5. \A x \in Resyncs(Pending(d)) : x = r
  BY <1>1, <1>2
<1>6. \A x \in Events(Pending(d)) : x > u.cursor /\ (e = 0 => x <= top)
  BY <1>1, <1>2
<1>7. \A x \in Resyncs(Pending(d)) :
         e = 0 => x >= u.cursor /\ \A y \in Events(Pending(d)) : y <= x
  BY <1>2, <1>5
<1>8. QED
  BY <1>1, <1>2, <1>3, <1>4, <1>6, <1>7 DEF Streaming

\* A connection that has nothing left to send but what it had cannot do better
\* than to say what it knows.
LEMMA KnownIsEnough ==
  ASSUME NEW u, NEW e \in Nat, NEW top \in Revisions,
         u.cursor \in Revisions, u.rev \in Revisions,
         NEW c, Streaming(c, u, e, top), ~Ended(c),
         NEW d, d = ForceResync(c, c.known)
  PROVE  Streaming(d, u, e, top) /\ Ended(d) /\ d.phase = "ended"
<1>1. /\ c \in Connection /\ u.cursor <= c.current /\ c.current <= c.known
      /\ \A x \in Events(Pending(c)) : x <= c.current
  BY DEF Streaming
<1>2. /\ c.current \in Int /\ c.known \in Revisions /\ c.known \in Int /\ u.cursor \in Int
      /\ \A x \in Events(Pending(c)) : x \in Int
  BY <1>1, ConnectionFields, RevisionFacts
<1>3. c.known >= u.cursor /\ \A x \in Events(Pending(c)) : x <= c.known
  BY <1>1, <1>2
<1>4. QED
  BY <1>2, <1>3, ResyncStreams

\* A frame that is neither an event nor a resync.
LEMMA OtherFrameStreams ==
  ASSUME NEW u, NEW e \in Nat, NEW top \in Revisions,
         u.cursor \in Revisions, u.rev \in Revisions,
         NEW c, Streaming(c, u, e, top),
         NEW f \in FrameRecords, f.kind # "event", f.kind # "resync",
         NEW d, d = Enqueue(c, f)
  PROVE  /\ Streaming(d, u, e, top)
         /\ ~Ended(d) => d.phase = c.phase /\ d.current = c.current
         /\ d.phase \in {c.phase, "ended"}
<1>1. f \in FrameRecords /\ f.kind # "event" /\ f.kind # "resync"
  OBVIOUS
<1>2. CASE Ended(c)
  <2>1. d = c
    BY <1>2 DEF Enqueue
  <2>2. QED
    BY <2>1
<1>3. CASE ~Ended(c)
  <2>1. c \in Connection /\ Len(c.queue) <= MaxQueuedFrames
    BY DEF Streaming
  <2>2. \/ d = ForceResync(c, c.known)
        \/ /\ d \in Connection /\ Len(d.queue) <= MaxQueuedFrames
           /\ Pending(d) = Append(Pending(c), f)
           /\ d.phase = c.phase /\ d.current = c.current /\ d.known = c.known
    BY <1>1, <1>3, <2>1, EnqueueCases
  <2>3. CASE d = ForceResync(c, c.known)
    BY <1>3, <2>3, KnownIsEnough
  <2>4. CASE /\ d \in Connection /\ Len(d.queue) <= MaxQueuedFrames
             /\ Pending(d) = Append(Pending(c), f)
             /\ d.phase = c.phase /\ d.current = c.current /\ d.known = c.known
    <3>1. Pending(c) \in Seq(FrameRecords)
      BY <2>1, ConnectionFields
    <3>2. /\ Events(Pending(d)) = Events(Pending(c))
          /\ Resyncs(Pending(d)) = Resyncs(Pending(c))
          /\ InTurn(Pending(c)) => InTurn(Pending(d))
      BY <1>1, <2>4, <3>1, AppendedFrame
    <3>3. ~Ended(d)
      BY <1>3, <2>4 DEF Ended
    <3>4. Streaming(d, u, e, top)
      BY <1>3, <2>4, <3>2, <3>3 DEF Streaming
    <3>5. QED
      BY <2>4, <3>4
  <2>5. QED
    BY <2>2, <2>3, <2>4
<1>4. QED
  BY <1>2, <1>3

\* #acceptSequentialEvent: a revision that the hub knows of is under way, or has
\* been, unless the connection has ended.
LEMMA AcceptSequentialStreams ==
  ASSUME NEW u, NEW e \in Nat, NEW top \in Revisions,
         u.cursor \in Revisions, u.rev \in Revisions,
         NEW c, Streaming(c, u, e, top), NEW r \in Revisions, r <= c.known,
         NEW d, d = AcceptSequential(c, r)
  PROVE  /\ Streaming(d, u, e, top)
         /\ d.phase \in {c.phase, "ended"}
         /\ ~Ended(d) => /\ ~Ended(c) /\ d.phase = c.phase /\ d.known = c.known
                         /\ d.current >= c.current /\ d.current >= r
<1>1. c \in Connection /\ c.current \in Int /\ c.known \in Int /\ r \in Int /\ u.cursor \in Int
  BY ConnectionFields, RevisionFacts DEF Streaming
<1>2. CASE Ended(c)
  <2>1. d = c
    BY <1>2 DEF AcceptSequential
  <2>2. QED
    BY <1>2, <2>1
<1>3. CASE ~Ended(c) /\ r <= c.current
  <2>1. d = c
    BY <1>3 DEF AcceptSequential
  <2>2. QED
    BY <1>1, <1>3, <2>1
<1>4. CASE ~Ended(c) /\ ~(r <= c.current) /\ r # c.current + 1
  <2>1. d = ForceResync(c, c.known)
    BY <1>4 DEF AcceptSequential
  <2>2. QED
    BY <1>4, <2>1, KnownIsEnough
<1>5. CASE ~Ended(c) /\ ~(r <= c.current) /\ r = c.current + 1
  <2> DEFINE k == [c EXCEPT !.current = r]
             f == Frame("event", r)
  <2>1. d = Enqueue(k, f)
    BY <1>5 DEF AcceptSequential
  <2>2. f \in FrameRecords /\ f.kind = "event" /\ f.revision = r
    BY FrameFacts DEF FrameKinds
  <2>3. /\ k \in Connection /\ k.current = r /\ k.phase = c.phase /\ k.known = c.known
        /\ k.queue = c.queue /\ k.wire = c.wire
    BY <1>1 DEF Connection
  <2> HIDE DEF k, f
  <2>4. ~Ended(k) /\ Pending(k) = Pending(c) /\ Len(k.queue) <= MaxQueuedFrames
    BY <1>5, <2>3 DEF Ended, Pending, Streaming
  <2>5. /\ InTurn(Pending(c)) /\ Resyncs(Pending(c)) = {}
        /\ \A x \in Events(Pending(c)) : x > u.cursor /\ (e = 0 => x <= top) /\ x <= c.current
        /\ u.cursor <= c.current /\ (e = 0 => c.known <= top)
    BY <1>5 DEF Streaming
  <2>6. /\ \A x \in Events(Pending(c)) : x \in Int
        /\ Pending(c) \in Seq(FrameRecords) /\ top \in Int
    BY <1>1, ConnectionFields, RevisionFacts
  <2>7. \A x \in Events(Pending(c)) : x < r
    BY <1>1, <1>5, <2>5, <2>6
  <2>8. r > u.cursor /\ (e = 0 => r <= top)
    BY <1>1, <1>5, <2>5, <2>6
  <2>9. \/ d = ForceResync(k, k.known)
        \/ /\ d \in Connection /\ Len(d.queue) <= MaxQueuedFrames
           /\ Pending(d) = Append(Pending(k), f)
           /\ d.phase = k.phase /\ d.current = k.current /\ d.known = k.known
    BY <2>1, <2>2, <2>3, <2>4, EnqueueCases
  <2>10. CASE d = ForceResync(k, k.known)
    <3>1. d = ForceResync(c, c.known)
      BY <1>5, <2>3, <2>4, <2>10 DEF ForceResync
    <3>2. QED
      BY <1>5, <3>1, KnownIsEnough
  <2>11. CASE /\ d \in Connection /\ Len(d.queue) <= MaxQueuedFrames
              /\ Pending(d) = Append(Pending(k), f)
              /\ d.phase = k.phase /\ d.current = k.current /\ d.known = k.known
    <3>1. /\ Events(Pending(d)) = Events(Pending(c)) \cup {r}
          /\ Resyncs(Pending(d)) = {}
          /\ InTurn(Pending(d))
      BY <2>2, <2>4, <2>5, <2>6, <2>7, <2>11, AppendedFrame
    <3>2. ~Ended(d) /\ d.current = r /\ d.known = c.known /\ d.phase = c.phase
      BY <2>3, <2>4, <2>11 DEF Ended
    <3>3. \A x \in Events(Pending(d)) : x > u.cursor /\ (e = 0 => x <= top) /\ x <= r
      BY <1>1, <2>5, <2>6, <2>7, <2>8, <3>1
    <3>4. u.cursor <= r /\ r <= d.known /\ r \in Events(Pending(d)) /\ (e = 0 => d.known <= top)
      BY <1>1, <2>5, <2>8, <3>1, <3>2
    <3>5. Streaming(d, u, e, top)
      BY <2>11, <3>1, <3>2, <3>3, <3>4 DEF Streaming
    <3>6. QED
      BY <1>1, <1>5, <3>2, <3>5
  <2>12. QED
    BY <2>9, <2>10, <2>11
<1>6. QED
  BY <1>2, <1>3, <1>4, <1>5

-----------------------------------------------------------------------------
(* The loops of the hub.                                                   *)

\* A connection that has ended accepts nothing.
LEMMA EndedAcceptsNothing ==
  ASSUME NEW c, NEW r, Ended(c)
  PROVE  AcceptSequential(c, r) = c /\ AcceptCommitted(c, r) = c
BY DEF AcceptSequential, AcceptCommitted

\* What the loop over the replay has sent after the revisions up to r.
Replayed(c, u, e, top) ==
    [r \in Revisions |->
        {d \in Connection :
            /\ Streaming(d, u, e, top)
            /\ Ended(d) => d.phase = "ended"
            /\ ~Ended(d) => /\ d.phase = "read" /\ d.known = Larger(c.known, c.at)
                            /\ d.current >= c.requested
                            /\ d.current >= r \/ d.current >= c.at}]

\* The replayed rows: the connection has accepted all of them, or has ended.
LEMMA ReplayLoop ==
  ASSUME NEW u, NEW e \in Nat, NEW top \in Revisions,
         u.cursor \in Revisions, u.rev \in Revisions,
         NEW c, Streaming(c, u, e, top), Awaiting(c, e, top), c.phase = "read",
         NEW k, k = [c EXCEPT !.known = Larger(@, c.at)],
         c.requested <= c.at,
         NEW d, d = InOrder(AcceptSequential, k, c.requested + 1 .. c.at)
  PROVE  /\ Streaming(d, u, e, top)
         /\ Ended(d) => d.phase = "ended"
         /\ ~Ended(d) => d.phase = "read" /\ d.known = Larger(c.known, c.at) /\ d.current >= c.at
<1>1. /\ c \in Connection /\ Replaying(c) /\ ~Ended(c)
      /\ c.current = c.requested
      /\ e = 0 => c.at <= top
  BY DEF Streaming, Awaiting, Replaying, Ended
<1>2. /\ c.current \in Revisions /\ c.known \in Revisions /\ c.at \in Revisions
      /\ c.requested \in Revisions /\ u.cursor \in Int /\ top \in Int
      /\ \A r \in Revisions : r \in Int /\ 0 <= r /\ r <= MaxRevision
      /\ MaxRevision \in Revisions /\ 0 \in Revisions /\ MaxRevision \in Nat
      /\ Revisions = 0 .. MaxRevision
  BY <1>1, ConnectionFields, RevisionFacts
<1> DEFINE n == Larger(c.known, c.at)
           J == Replayed(c, u, e, top)
           revs == c.requested + 1 .. c.at
<1>3. n \in Revisions /\ n >= c.known /\ n >= c.at /\ (n = c.known \/ n = c.at)
  BY <1>2, LargerAndSmaller
<1> HIDE DEF n
<1>4. /\ k \in Connection /\ k.phase = "read" /\ k.known = n /\ k.current = c.requested
      /\ k.queue = c.queue /\ k.wire = c.wire
  BY <1>1, <1>3 DEF Connection, n
<1>5. ~Ended(k) /\ Pending(k) = Pending(c)
  BY <1>4 DEF Ended, Pending
<1>6. Streaming(k, u, e, top)
  <2>1. c.current <= c.known /\ u.cursor <= c.current /\ (e = 0 => c.known <= top)
    BY <1>1 DEF Streaming
  <2>2. k.current <= k.known /\ (e = 0 => k.known <= top) /\ k.current = c.current
    BY <1>1, <1>2, <1>3, <1>4, <2>1
  <2>3. QED
    BY <1>1, <1>4, <1>5, <2>1, <2>2 DEF Streaming
<1>7. \A r \in Revisions : J[r] = {x \in Connection :
            /\ Streaming(x, u, e, top)
            /\ Ended(x) => x.phase = "ended"
            /\ ~Ended(x) => /\ x.phase = "read" /\ x.known = n
                            /\ x.current >= c.requested
                            /\ x.current >= r \/ x.current >= c.at}
  BY DEF Replayed, n
<1> HIDE DEF J
<1>8. k \in J[0]
  <2>1. k.current >= c.requested /\ k.current >= 0
    BY <1>2, <1>4
  <2>2. QED
    BY <1>2, <1>4, <1>5, <1>6, <1>7, <2>1
<1>9. ASSUME NEW r \in 1 .. MaxRevision, NEW x \in J[r - 1]
      PROVE  (IF r \in revs THEN AcceptSequential(x, r) ELSE x) \in J[r]
  <2>1. r \in Revisions /\ r - 1 \in Revisions /\ r \in Int /\ r - 1 \in Int
    BY <1>2
  <2>2. /\ x \in Connection /\ Streaming(x, u, e, top)
        /\ Ended(x) => x.phase = "ended"
        /\ ~Ended(x) => /\ x.phase = "read" /\ x.known = n
                        /\ x.current >= c.requested
                        /\ x.current >= r - 1 \/ x.current >= c.at
    BY <1>7, <2>1
  <2>3. x.current \in Int /\ x.known \in Int
    BY <2>2, ConnectionFields, RevisionFacts
  <2>4. CASE Ended(x)
    <3>1. AcceptSequential(x, r) = x
      BY <2>4, EndedAcceptsNothing
    <3>2. QED
      BY <1>7, <2>1, <2>2, <2>4, <3>1
  <2>5. CASE ~Ended(x) /\ r \in revs
    <3>1. r <= x.known
      BY <1>2, <1>3, <2>1, <2>2, <2>5
    <3> DEFINE y == AcceptSequential(x, r)
    <3>2. /\ Streaming(y, u, e, top)
          /\ y.phase \in {x.phase, "ended"}
          /\ ~Ended(y) => /\ y.phase = x.phase /\ y.known = x.known
                          /\ y.current >= x.current /\ y.current >= r
      BY <2>1, <2>2, <3>1, AcceptSequentialStreams
    <3> HIDE DEF y
    <3>3. y \in Connection
      BY <3>2 DEF Streaming
    <3>4. y.current \in Int
      BY <3>3, ConnectionFields, RevisionFacts
    <3>5. Ended(y) => y.phase = "ended"
      BY <2>2, <2>5, <3>2 DEF Ended
    <3>6. ~Ended(y) => y.current >= c.requested
      BY <1>2, <2>2, <2>3, <2>5, <3>2, <3>4
    <3>7. y \in J[r]
      BY <1>7, <2>1, <2>2, <2>5, <3>2, <3>3, <3>5, <3>6
    <3>8. QED
      BY <2>5, <3>7 DEF y
  <2>6. CASE ~Ended(x) /\ r \notin revs
    <3>1. r <= c.requested \/ r > c.at
      BY <1>2, <2>1, <2>6
    <3>2. x.current >= r \/ x.current >= c.at
      BY <1>2, <2>1, <2>2, <2>3, <2>6, <3>1
    <3>3. QED
      BY <1>7, <2>1, <2>2, <2>6, <3>2
  <2>7. QED
    BY <2>4, <2>5, <2>6
<1>10. d \in J[MaxRevision]
  <2> HIDE DEF revs
  <2>1. InOrder(AcceptSequential, k, revs) \in J[MaxRevision]
    BY <1>8, <1>9, SequentialInOrder
  <2>2. QED
    BY <2>1 DEF revs
<1>11. /\ d \in Connection /\ Streaming(d, u, e, top)
       /\ Ended(d) => d.phase = "ended"
       /\ ~Ended(d) => /\ d.phase = "read" /\ d.known = n
                       /\ d.current >= MaxRevision \/ d.current >= c.at
  BY <1>2, <1>7, <1>10
<1>12. d.current \in Int
  BY <1>11, ConnectionFields, RevisionFacts
<1>13. ~Ended(d) => d.current >= c.at
  BY <1>2, <1>11, <1>12
<1>14. QED
  BY <1>11, <1>13 DEF n

\* What the loop over the buffer has sent after the revisions up to r.
Unbuffered(c, revs, u, e, top) ==
    [r \in Revisions |->
        {d \in Connection :
            /\ Streaming(d, u, e, top)
            /\ ~Ended(d) => /\ d.phase = c.phase /\ d.known = c.known
                            /\ d.current >= c.current
                            /\ \A x \in revs : x <= r => d.current >= x
            /\ d.phase \in {c.phase, "ended"}}]

\* Revisions that the hub knows of: the connection has accepted all of them, or
\* has ended.
LEMMA SequentialLoop ==
  ASSUME NEW u, NEW e \in Nat, NEW top \in Revisions,
         u.cursor \in Revisions, u.rev \in Revisions,
         NEW c, Streaming(c, u, e, top), ~Ended(c),
         NEW revs \in SUBSET Revisions, \A x \in revs : x <= c.known,
         NEW d, d = InOrder(AcceptSequential, c, revs)
  PROVE  /\ Streaming(d, u, e, top)
         /\ d.phase \in {c.phase, "ended"}
         /\ ~Ended(d) => /\ d.phase = c.phase /\ d.current >= c.current
                         /\ \A x \in revs : d.current >= x
<1> DEFINE J == Unbuffered(c, revs, u, e, top)
<1>1. /\ c \in Connection /\ c.current \in Revisions /\ c.known \in Revisions
      /\ \A r \in Revisions : r \in Int /\ 0 <= r /\ r <= MaxRevision
      /\ MaxRevision \in Revisions /\ 0 \in Revisions /\ MaxRevision \in Nat
      /\ Revisions = 0 .. MaxRevision
  BY ConnectionFields, RevisionFacts DEF Streaming
<1>2. \A r \in Revisions : J[r] = {y \in Connection :
            /\ Streaming(y, u, e, top)
            /\ ~Ended(y) => /\ y.phase = c.phase /\ y.known = c.known
                            /\ y.current >= c.current
                            /\ \A x \in revs : x <= r => y.current >= x
            /\ y.phase \in {c.phase, "ended"}}
  BY DEF Unbuffered
<1> HIDE DEF J
<1>3. c \in J[0]
  <2>1. \A x \in revs : x <= 0 => c.current >= x
    BY <1>1
  <2>2. QED
    BY <1>1, <1>2, <2>1
<1>4. ASSUME NEW r \in 1 .. MaxRevision, NEW x \in J[r - 1]
      PROVE  (IF r \in revs THEN AcceptSequential(x, r) ELSE x) \in J[r]
  <2>1. r \in Revisions /\ r - 1 \in Revisions /\ r \in Int /\ r - 1 \in Int
    BY <1>1
  <2>2. /\ x \in Connection /\ Streaming(x, u, e, top)
        /\ ~Ended(x) => /\ x.phase = c.phase /\ x.known = c.known
                        /\ x.current >= c.current
                        /\ \A z \in revs : z <= r - 1 => x.current >= z
        /\ x.phase \in {c.phase, "ended"}
    BY <1>2, <2>1
  <2>3. x.current \in Int /\ x.known \in Int /\ (~Ended(x) => x.current <= x.known)
    BY <2>2, ConnectionFields, RevisionFacts DEF Streaming
  <2>4. \A z \in revs : z \in Int /\ (z <= r => z <= r - 1 \/ z = r)
    BY <1>1, <2>1
  <2>5. CASE Ended(x)
    <3>1. AcceptSequential(x, r) = x
      BY <2>5, EndedAcceptsNothing
    <3>2. QED
      BY <1>2, <2>1, <2>2, <2>5, <3>1
  <2>6. CASE ~Ended(x) /\ r \in revs
    <3>1. r <= x.known
      BY <1>1, <2>1, <2>2, <2>3, <2>6
    <3> DEFINE y == AcceptSequential(x, r)
    <3>2. /\ Streaming(y, u, e, top)
          /\ y.phase \in {x.phase, "ended"}
          /\ ~Ended(y) => /\ y.phase = x.phase /\ y.known = x.known
                          /\ y.current >= x.current /\ y.current >= r
      BY <2>1, <2>2, <3>1, AcceptSequentialStreams
    <3> HIDE DEF y
    <3>3. y \in Connection
      BY <3>2 DEF Streaming
    <3>4. y.current \in Int
      BY <3>3, ConnectionFields, RevisionFacts
    <3>5. ~Ended(y) => y.current >= c.current
      BY <1>1, <2>2, <2>3, <2>6, <3>2, <3>4
    <3>6. ~Ended(y) => \A z \in revs : z <= r => y.current >= z
      BY <2>2, <2>3, <2>4, <2>6, <3>2, <3>4
    <3>7. y \in J[r]
      BY <1>2, <2>1, <2>2, <2>6, <3>2, <3>3, <3>5, <3>6
    <3>8. QED
      BY <2>6, <3>7 DEF y
  <2>7. CASE ~Ended(x) /\ r \notin revs
    <3>1. \A z \in revs : z <= r => x.current >= z
      BY <2>2, <2>4, <2>7
    <3>2. QED
      BY <1>2, <2>1, <2>2, <2>7, <3>1
  <2>8. QED
    BY <2>5, <2>6, <2>7
<1>5. d \in J[MaxRevision]
  BY <1>3, <1>4, SequentialInOrder
<1>6. \A x \in revs : x <= MaxRevision
  BY <1>1
<1>7. QED
  BY <1>1, <1>2, <1>5, <1>6

-----------------------------------------------------------------------------
(* The handlers of the hub.                                                *)

\* A connection that has learnt of a revision.
Knowing(c, r) == [c EXCEPT !.known = Larger(@, r)]

\* It is the same connection.
LEMMA LearntOf ==
  ASSUME NEW u, NEW e \in Nat, NEW top \in Revisions,
         u.cursor \in Revisions, u.rev \in Revisions,
         NEW c, Streaming(c, u, e, top), ~Ended(c),
         NEW r \in Revisions, e = 0 => r <= top,
         NEW k, k = Knowing(c, r)
  PROVE  /\ Streaming(k, u, e, top) /\ ~Ended(k) /\ r <= k.known /\ c.known <= k.known
         /\ Pending(k) = Pending(c) /\ k.phase = c.phase /\ k.current = c.current
         /\ k.queue = c.queue /\ k.wire = c.wire /\ k.requested = c.requested
         /\ k.at = c.at /\ k.first = c.first /\ k.buffer = c.buffer /\ k.blocked = c.blocked
         /\ k.known \in Revisions /\ k \in Connection
<1>1. /\ c \in Connection /\ c.known \in Revisions /\ c.known \in Int /\ r \in Int
      /\ top \in Int /\ c.current \in Int
  BY ConnectionFields, RevisionFacts DEF Streaming
<1> DEFINE n == Larger(c.known, r)
<1>2. n \in Revisions /\ n >= c.known /\ n >= r /\ (n = c.known \/ n = r) /\ n \in Int
  BY <1>1, LargerAndSmaller
<1>3. k = [c EXCEPT !.known = n]
  BY DEF Knowing
<1> HIDE DEF n
<1>4. /\ k \in Connection /\ k.known = n /\ k.phase = c.phase /\ k.current = c.current
      /\ k.queue = c.queue /\ k.wire = c.wire /\ k.requested = c.requested
      /\ k.at = c.at /\ k.first = c.first /\ k.buffer = c.buffer /\ k.blocked = c.blocked
  BY <1>1, <1>2, <1>3 DEF Connection
<1>5. ~Ended(k) /\ Pending(k) = Pending(c)
  BY <1>4 DEF Ended, Pending
<1>6. c.current <= c.known /\ u.cursor <= c.current /\ (e = 0 => c.known <= top)
  BY DEF Streaming
<1>7. k.current <= k.known /\ (e = 0 => k.known <= top)
  BY <1>1, <1>2, <1>4, <1>6
<1>8. Streaming(k, u, e, top)
  BY <1>4, <1>5, <1>6, <1>7 DEF Streaming
<1>9. QED
  BY <1>1, <1>2, <1>4, <1>5, <1>8

\* acceptCommitted: what was heard of stays so, and the new revision is too.
LEMMA AcceptCommittedKeeps ==
  ASSUME NEW u, NEW e \in Nat, NEW top \in Revisions,
         u.cursor \in Revisions, u.rev \in Revisions,
         NEW c, Streaming(c, u, e, top), Awaiting(c, e, top),
         NEW r \in Revisions, r <= top,
         NEW d, d = AcceptCommitted(c, r)
  PROVE  /\ Streaming(d, u, e, top) /\ Awaiting(d, e, top)
         /\ Heard(d, r) /\ \A z \in Revisions : Heard(c, z) => Heard(d, z)
         /\ Ended(c) => d = c
<1>1. /\ c \in Connection /\ c.current \in Int /\ c.known \in Int
      /\ \A z \in Revisions : z \in Int
      /\ c.phase \in {"none", "reading", "read", "live", "ended"}
      /\ \A z \in c.buffer : z \in Revisions
  BY ConnectionFields, RevisionFacts DEF Streaming
<1>2. CASE Ended(c)
  <2>1. d = c
    BY <1>2, EndedAcceptsNothing
  <2>2. \A z : Heard(c, z)
    BY <1>2 DEF Heard, Ended
  <2>3. QED
    BY <2>1, <2>2
<1>3. CASE ~Ended(c)
  <2>0. PICK k : k = Knowing(c, r)
    OBVIOUS
  <2>1. /\ Streaming(k, u, e, top) /\ ~Ended(k) /\ r <= k.known /\ c.known <= k.known
        /\ Pending(k) = Pending(c) /\ k.phase = c.phase /\ k.current = c.current
        /\ k.queue = c.queue /\ k.wire = c.wire /\ k.requested = c.requested
        /\ k.at = c.at /\ k.buffer = c.buffer
        /\ k.known \in Revisions /\ k \in Connection
    BY <1>3, <2>0, LearntOf
  <2>2. d = IF Replaying(c) THEN [k EXCEPT !.buffer = @ \cup {r}] ELSE AcceptSequential(k, r)
    BY <1>3, <2>0 DEF AcceptCommitted, Knowing
  <2>3. CASE Replaying(c)
    <3>1. d = [k EXCEPT !.buffer = @ \cup {r}]
      BY <2>2, <2>3
    <3>2. k.buffer \cup {r} \in SUBSET Revisions
      BY <1>1, <2>1
    <3>3. /\ d \in Connection /\ d.buffer = c.buffer \cup {r} /\ d.phase = c.phase
          /\ d.current = c.current /\ d.requested = c.requested /\ d.at = c.at
          /\ d.queue = c.queue /\ d.wire = c.wire /\ d.known = k.known
      BY <2>1, <3>1, <3>2 DEF Connection
    <3>4. ~Ended(d) /\ Pending(d) = Pending(k) /\ Replaying(d)
      BY <1>3, <2>1, <2>3, <3>3 DEF Ended, Pending, Replaying
    <3>5. Streaming(d, u, e, top)
      BY <2>1, <3>3, <3>4 DEF Streaming
    <3>6. \A z \in d.buffer : z <= d.known
      <4>1. \A z \in c.buffer : z <= c.known
        BY <2>3 DEF Awaiting
      <4>2. k.known \in Int
        BY <1>1, <2>1
      <4>3. QED
        BY <1>1, <2>1, <3>3, <4>1, <4>2
    <3>7. Awaiting(d, e, top)
      BY <2>3, <3>3, <3>6 DEF Awaiting
    <3>8. Heard(d, r) /\ \A z \in Revisions : Heard(c, z) => Heard(d, z)
      BY <2>3, <3>3 DEF Heard, Replaying
    <3>9. QED
      BY <1>3, <3>5, <3>7, <3>8
  <2>4. CASE ~Replaying(c)
    <3>1. d = AcceptSequential(k, r)
      BY <2>2, <2>4
    <3>2. /\ Streaming(d, u, e, top)
          /\ d.phase \in {k.phase, "ended"}
          /\ ~Ended(d) => d.phase = k.phase /\ d.current >= k.current /\ d.current >= r
      BY <2>1, <3>1, AcceptSequentialStreams
    <3>3. c.phase = "live"
      BY <1>1, <1>3, <2>4 DEF Ended, Replaying
    <3>4. Awaiting(d, e, top)
      BY <2>1, <3>2, <3>3 DEF Awaiting, Replaying
    <3>5. d.phase = "live" => d.current >= c.current /\ d.current >= r
      BY <2>1, <3>2 DEF Ended
    <3>6. d.current \in Int
      BY <3>2, ConnectionFields, RevisionFacts DEF Streaming
    <3>7. d.phase # "read"
      BY <2>1, <3>2, <3>3
    <3>8. Heard(d, r) /\ \A z \in Revisions : Heard(c, z) => Heard(d, z)
      BY <1>1, <3>3, <3>5, <3>6, <3>7 DEF Heard
    <3>9. QED
      BY <1>3, <3>2, <3>4, <3>8
  <2>5. QED
    BY <2>3, <2>4
<1>4. QED
  BY <1>2, <1>3

\* What publishCommitted has told a connection after the revisions up to r.
Informed(c, t, revs, u, e, top) ==
    [r \in Revisions |->
        {d \in Connection :
            /\ Streaming(d, u, e, top) /\ Awaiting(d, e, top)
            /\ Heard(d, t) /\ \A z \in revs : z <= r => Heard(d, z)
            /\ Ended(c) => d = c}]

\* One call of publishCommitted more.
LEMMA InformedKept ==
  ASSUME NEW u, NEW e \in Nat, NEW top \in Revisions,
         u.cursor \in Revisions, u.rev \in Revisions,
         NEW c, NEW t \in Revisions,
         NEW revs, revs \subseteq Revisions, \A z \in revs : z <= top,
         NEW r \in 1 .. MaxRevision,
         NEW x \in Informed(c, t, revs, u, e, top)[r - 1]
  PROVE  (IF r \in revs THEN AcceptCommitted(x, r) ELSE x)
            \in Informed(c, t, revs, u, e, top)[r]
<1>1. r \in Revisions /\ r - 1 \in Revisions /\ r \in Int /\ r - 1 \in Int
  BY RevisionFacts, StreamConstants DEF Revisions
<1>2. /\ x \in Connection /\ Streaming(x, u, e, top) /\ Awaiting(x, e, top)
      /\ Heard(x, t) /\ \A z \in revs : z <= r - 1 => Heard(x, z)
      /\ Ended(c) => x = c
  BY <1>1 DEF Informed
<1>3. \A z \in revs : z \in Revisions /\ (z <= r => z <= r - 1 \/ z = r)
  BY <1>1, RevisionFacts
<1>4. CASE r \in revs
  <2>1. r <= top
    BY <1>4
  <2> PICK y : y = AcceptCommitted(x, r)
    OBVIOUS
  <2>2. /\ Streaming(y, u, e, top) /\ Awaiting(y, e, top)
        /\ Heard(y, r) /\ \A z \in Revisions : Heard(x, z) => Heard(y, z)
        /\ Ended(x) => y = x
    BY <1>1, <1>2, <2>1, AcceptCommittedKeeps
  <2>3. y \in Connection
    BY <2>2 DEF Streaming
  <2>4. \A z \in revs : z <= r => Heard(y, z)
    BY <1>2, <1>3, <2>2
  <2>5. y \in Informed(c, t, revs, u, e, top)[r]
    BY <1>1, <1>2, <2>2, <2>3, <2>4 DEF Informed
  <2>6. QED
    BY <1>4, <2>5
<1>5. CASE r \notin revs
  <2>1. \A z \in revs : z <= r => Heard(x, z)
    BY <1>2, <1>3, <1>5
  <2>2. QED
    BY <1>1, <1>2, <1>5, <2>1 DEF Informed
<1>6. QED
  BY <1>4, <1>5

\* publishCommitted for the rows of a pass.
LEMMA BroadcastLoop ==
  ASSUME NEW u, NEW e \in Nat, NEW top \in Revisions,
         u.cursor \in Revisions, u.rev \in Revisions,
         NEW c, Streaming(c, u, e, top), Awaiting(c, e, top),
         NEW t \in Revisions, Heard(c, t),
         NEW from \in Revisions, NEW to \in Revisions, to <= top,
         NEW d, d = InOrder(AcceptCommitted, c, from + 1 .. to)
  PROVE  /\ Streaming(d, u, e, top) /\ Awaiting(d, e, top)
         /\ Heard(d, IF from < to THEN to ELSE t)
         /\ Ended(c) => d = c
<1> DEFINE revs == from + 1 .. to
           J == Informed(c, t, revs, u, e, top)
<1>1. /\ c \in Connection
      /\ \A r \in Revisions : r \in Int /\ 0 <= r /\ r <= MaxRevision
      /\ MaxRevision \in Revisions /\ 0 \in Revisions /\ MaxRevision \in Nat
      /\ Revisions = 0 .. MaxRevision
  BY ConnectionFields, RevisionFacts DEF Streaming
<1>2. \A r \in revs : r \in Revisions /\ r > 0 /\ r <= to /\ r \in Int /\ r <= top
  BY <1>1
<1>3. from < to => to \in revs
  BY <1>1
<1> HIDE DEF revs
<1>4. \A r \in Revisions : J[r] = {x \in Connection :
            /\ Streaming(x, u, e, top) /\ Awaiting(x, e, top)
            /\ Heard(x, t) /\ \A z \in revs : z <= r => Heard(x, z)
            /\ Ended(c) => x = c}
  BY DEF Informed
<1> HIDE DEF J
<1>5. c \in J[0]
  <2>1. \A z \in revs : ~(z <= 0)
    BY <1>2
  <2>2. QED
    BY <1>1, <1>4, <2>1
<1>6. \A r \in 1 .. MaxRevision : \A x \in J[r - 1] :
         (IF r \in revs THEN AcceptCommitted(x, r) ELSE x) \in J[r]
  <2>1. revs \subseteq Revisions /\ \A r \in revs : r <= top
    BY <1>2
  <2>2. QED
    BY <2>1, InformedKept DEF J
<1>7. d \in J[MaxRevision]
  <2>1. InOrder(AcceptCommitted, c, revs) \in J[MaxRevision]
    BY <1>5, <1>6, CommittedInOrder
  <2>2. QED
    BY <2>1 DEF revs
<1>8. /\ Streaming(d, u, e, top) /\ Awaiting(d, e, top)
      /\ Heard(d, t) /\ \A z \in revs : Heard(d, z)
      /\ Ended(c) => d = c
  BY <1>1, <1>2, <1>4, <1>7
<1>9. QED
  BY <1>3, <1>8

\* The stream-ready frame.
LEMMA ReadyStreams ==
  ASSUME NEW u, NEW e \in Nat, NEW top \in Revisions,
         u.cursor \in Revisions, u.rev \in Revisions,
         NEW c, Streaming(c, u, e, top),
         NEW d, d = Enqueue(c, Frame("ready", c.current))
  PROVE  /\ Streaming(d, u, e, top)
         /\ ~Ended(d) => d.phase = c.phase /\ d.current = c.current
         /\ d.phase \in {c.phase, "ended"}
<1>1. c.current \in Revisions
  BY ConnectionFields DEF Streaming
<1> DEFINE f == Frame("ready", c.current)
<1>2. f \in FrameRecords /\ f.kind # "event" /\ f.kind # "resync"
  BY <1>1, FrameFacts DEF FrameKinds
<1>3. d = Enqueue(c, f)
  OBVIOUS
<1> HIDE DEF f
<1>4. QED
  BY <1>2, <1>3, OtherFrameStreams

\* finishReplay: nothing that was broadcast is missing from what it sends, or the
\* page is told to start again.
LEMMA FinishReplayKeeps ==
  ASSUME NEW u, NEW e \in Nat, NEW top \in Revisions,
         u.cursor \in Revisions, u.rev \in Revisions,
         NEW c, Streaming(c, u, e, top), Awaiting(c, e, top), c.phase = "read",
         NEW t \in Revisions, Heard(c, t),
         NEW d, d = FinishReplay(c)
  PROVE  Streaming(d, u, e, top) /\ Awaiting(d, e, top) /\ Heard(d, t)
<1>1. /\ c \in Connection /\ ~Ended(c) /\ Replaying(c)
      /\ c.at \in Revisions /\ c.at \in Int /\ c.known \in Int /\ c.requested \in Int
      /\ c.current \in Int /\ u.cursor \in Int /\ top \in Int /\ t \in Int
      /\ \A z \in c.buffer : z \in Revisions /\ z \in Int
  BY ConnectionFields, RevisionFacts DEF Streaming, Ended, Replaying
<1>2. /\ c.current = c.requested /\ c.queue = <<>>
      /\ \A i \in DOMAIN c.wire : c.wire[i].kind = "open"
      /\ \A z \in c.buffer : z <= c.known
      /\ e = 0 => c.requested <= c.at /\ c.at <= top
  BY <1>1 DEF Awaiting
<1>3. PICK k : k = Knowing(c, c.at)
  OBVIOUS
<1>4. /\ Streaming(k, u, e, top) /\ ~Ended(k) /\ c.at <= k.known /\ c.known <= k.known
      /\ Pending(k) = Pending(c) /\ k.phase = c.phase
  BY <1>1, <1>2, <1>3, LearntOf
<1>5. PICK replayed : replayed = InOrder(AcceptSequential, k, c.requested + 1 .. c.at)
  OBVIOUS
<1>6. PICK live0 : live0 = [replayed EXCEPT !.phase = "live", !.buffer = {},
                                            !.at = 0, !.first = 0, !.requested = 0]
  OBVIOUS
<1>7. PICK live : live = InOrder(AcceptSequential, live0, c.buffer)
  OBVIOUS
<1>8. d = IF Unreplayable(c) THEN ForceResync(k, c.at)
          ELSE IF Ended(replayed) THEN replayed
          ELSE Enqueue(live, Frame("ready", live.current))
  BY <1>3, <1>5, <1>6, <1>7 DEF FinishReplay, Knowing
<1>9. CASE Unreplayable(c)
  <2>1. d = ForceResync(k, c.at)
    BY <1>8, <1>9
  <2>2. Events(Pending(k)) = {}
    <3>1. Pending(k) = c.wire
      BY <1>1, <1>2, <1>4, ConnectionFields, ConcatEmptySeq DEF Pending
    <3>2. QED
      BY <1>2, <3>1 DEF Events
  <2>3. u.cursor <= c.current
    BY <1>1 DEF Streaming
  <2>4. e = 0 => c.at >= u.cursor
    BY <1>1, <1>2, <2>3
  <2>5. Streaming(d, u, e, top) /\ d.phase = "ended"
    BY <1>1, <1>4, <2>1, <2>2, <2>4, ResyncStreams
  <2>6. Awaiting(d, e, top) /\ Heard(d, t)
    BY <2>5 DEF Awaiting, Heard, Replaying
  <2>7. QED
    BY <2>5, <2>6
<1>10. CASE ~Unreplayable(c)
  <2>1. c.requested <= c.at
    BY <1>1, <1>10 DEF Unreplayable
  <2>2. /\ Streaming(replayed, u, e, top)
        /\ Ended(replayed) => replayed.phase = "ended"
        /\ ~Ended(replayed) => /\ replayed.phase = "read"
                               /\ replayed.known = Larger(c.known, c.at)
                               /\ replayed.current >= c.at
    BY <1>3, <1>5, <2>1, ReplayLoop DEF Knowing
  <2>3. CASE Ended(replayed)
    <3>1. d = replayed
      BY <1>8, <1>10, <2>3
    <3>2. Awaiting(d, e, top) /\ Heard(d, t)
      BY <2>2, <2>3, <3>1 DEF Awaiting, Heard, Replaying
    <3>3. QED
      BY <2>2, <3>1, <3>2
  <2>4. CASE ~Ended(replayed)
    <3>1. replayed \in Connection /\ replayed.current \in Int
      BY <2>2, ConnectionFields, RevisionFacts DEF Streaming
    <3>2. /\ live0 \in Connection /\ live0.phase = "live" /\ live0.known = replayed.known
          /\ live0.current = replayed.current /\ live0.queue = replayed.queue
          /\ live0.wire = replayed.wire
      <4>1. {} \in SUBSET Revisions /\ 0 \in Revisions
        BY RevisionFacts
      <4>2. QED
        BY <1>6, <3>1, <4>1 DEF Connection
    <3>3. ~Ended(live0) /\ Pending(live0) = Pending(replayed)
      BY <3>2 DEF Ended, Pending
    <3>4. Streaming(live0, u, e, top)
      BY <2>2, <2>4, <3>2, <3>3 DEF Streaming
    <3>5. \A z \in c.buffer : z <= live0.known
      <4>1. live0.known >= c.known /\ live0.known \in Int
        BY <1>1, <2>2, <2>4, <3>2, LargerAndSmaller, ConnectionFields, RevisionFacts
      <4>2. QED
        BY <1>1, <1>2, <4>1
    <3>6. c.buffer \in SUBSET Revisions
      BY <1>1
    <3>7. /\ Streaming(live, u, e, top)
          /\ live.phase \in {live0.phase, "ended"}
          /\ ~Ended(live) => /\ live.phase = live0.phase /\ live.current >= live0.current
                             /\ \A z \in c.buffer : live.current >= z
      BY <1>7, <3>3, <3>4, <3>5, <3>6, SequentialLoop
    <3>8. live.current \in Revisions /\ live.current \in Int
      BY <3>7, ConnectionFields, RevisionFacts DEF Streaming
    <3>9. d = Enqueue(live, Frame("ready", live.current))
      BY <1>8, <1>10, <2>4
    <3>10. /\ Streaming(d, u, e, top)
           /\ ~Ended(d) => d.phase = live.phase /\ d.current = live.current
           /\ d.phase \in {live.phase, "ended"}
      BY <3>7, <3>9, ReadyStreams
    <3>11. t <= c.at \/ t \in c.buffer
      BY DEF Heard
    <3>12. ~Ended(live) => t <= live.current
      BY <1>1, <2>2, <2>4, <3>1, <3>2, <3>7, <3>8, <3>11
    <3>13. d.phase \in {"live", "ended"} /\ (d.phase = "live" => t <= d.current)
      <4>1. d.phase \in {"live", "ended"}
        BY <3>2, <3>7, <3>10
      <4>2. d.phase = "live" => live.phase = "live"
        BY <3>2, <3>7, <3>10
      <4>3. QED
        BY <3>10, <3>12, <4>1, <4>2 DEF Ended
    <3>14. Awaiting(d, e, top) /\ Heard(d, t)
      BY <3>13 DEF Awaiting, Heard, Replaying
    <3>15. QED
      BY <3>10, <3>14
  <2>5. QED
    BY <2>3, <2>4
<1>11. QED
  BY <1>9, <1>10

\* drain: nothing that waited is lost.
LEMMA DrainStreams ==
  ASSUME NEW u, NEW e \in Nat, NEW top \in Revisions,
         u.cursor \in Revisions, u.rev \in Revisions,
         NEW c, Streaming(c, u, e, top), c.phase = "live", c.wire = <<>>,
         NEW d, d = Drained(c)
  PROVE  Streaming(d, u, e, top) /\ d.phase = "live" /\ d.current = c.current
<1>1. /\ c \in Connection /\ ~Ended(c) /\ c.queue \in Seq(FrameRecords) /\ Len(c.queue) \in Nat
      /\ Len(c.queue) <= MaxQueuedFrames
  BY ConnectionFields DEF Streaming, Ended
<1>2. PICK n : n = Smaller(Len(c.queue), HighWater)
  OBVIOUS
<1>3. n \in 0 .. Len(c.queue)
  BY <1>1, <1>2, LargerAndSmaller, RevisionFacts
<1> DEFINE w == SubSeq(c.queue, 1, n)
           q == SubSeq(c.queue, n + 1, Len(c.queue))
           full == n = HighWater
<1>4. /\ w \in Seq(FrameRecords) /\ q \in Seq(FrameRecords)
      /\ Len(q) = Len(c.queue) - n /\ w \o q = c.queue
  BY <1>1, <1>3, CutInTwo
<1>5. full \in BOOLEAN
  OBVIOUS
<1>6. d = [c EXCEPT !.wire = w, !.queue = q, !.blocked = full]
  BY <1>2 DEF Drained
<1> HIDE DEF w, q, full
<1>7. /\ d \in Connection /\ d.wire = w /\ d.queue = q /\ d.phase = c.phase
      /\ d.current = c.current /\ d.known = c.known
  BY <1>1, <1>4, <1>5, <1>6 DEF Connection, FrameRecords
<1>8. Pending(d) = Pending(c) /\ ~Ended(d)
  <2>1. <<>> \o c.queue = c.queue
    BY <1>1, ConcatEmptySeq
  <2>2. QED
    BY <1>4, <1>7, <2>1 DEF Pending, Ended
<1>9. Len(d.queue) <= MaxQueuedFrames
  BY <1>1, <1>3, <1>4, <1>7, RevisionFacts
<1>10. Streaming(d, u, e, top)
  BY <1>1, <1>7, <1>8, <1>9 DEF Streaming
<1>11. QED
  BY <1>7, <1>10

-----------------------------------------------------------------------------
(* The methods of the page.                                                *)

\* What the fields of the page are.
LEMMA UiFields ==
  ASSUME NEW u \in Ui
  PROVE  /\ u.status \in Statuses /\ u.fetch \in {"idle", "asked", "answered", "refused"}
         /\ u.stream \in {"none", "connecting", "open"}
         /\ u.stale \in BOOLEAN /\ u.ready \in BOOLEAN /\ u.reconnect \in BOOLEAN
         /\ u.timer \in BOOLEAN
         /\ u.rev \in Revisions /\ u.required \in Revisions /\ u.cursor \in Revisions
         /\ u.rev \in Int /\ u.required \in Int /\ u.cursor \in Int
         /\ u.snap.revision \in Int /\ u.answer.revision \in Int
         /\ u.answer # NoSnapshot => u.answer.revision \in Revisions
<1>1. NoSnapshot.revision \in Int
  BY DEF NoSnapshot
<1>2. \A x \in [epoch : 0 .. MaxDisturbances, revision : Revisions] :
        x.revision \in Revisions /\ x.revision \in Int
  BY RevisionFacts
<1>3. /\ u.snap \in [epoch : 0 .. MaxDisturbances, revision : Revisions] \cup {NoSnapshot}
      /\ u.answer \in [epoch : 0 .. MaxDisturbances, revision : Revisions] \cup {NoSnapshot}
  BY DEF Ui
<1>4. /\ u.snap.revision \in Int /\ u.answer.revision \in Int
      /\ u.answer # NoSnapshot => u.answer.revision \in Revisions
  BY <1>1, <1>2, <1>3
<1>5. /\ u.status \in Statuses /\ u.fetch \in {"idle", "asked", "answered", "refused"}
      /\ u.stream \in {"none", "connecting", "open"}
      /\ u.stale \in BOOLEAN /\ u.ready \in BOOLEAN /\ u.reconnect \in BOOLEAN
      /\ u.timer \in BOOLEAN
      /\ u.rev \in Revisions /\ u.required \in Revisions /\ u.cursor \in Revisions
  BY DEF Ui
<1>6. QED
  BY <1>4, <1>5, RevisionFacts

\* The page v is the page u but for what it has asked for and says of itself.
SamePage(u, v) ==
    /\ v.rev = u.rev /\ v.snap = u.snap /\ v.required = u.required
    /\ v.reconnect = u.reconnect /\ v.stream = u.stream /\ v.cursor = u.cursor
    /\ v.answer = u.answer
    /\ v.fetch = "answered" <=> u.fetch = "answered"
    /\ ~v.stale => ~u.stale \/ (u.snap # NoSnapshot /\ u.snap.revision = u.rev)

\* Such a page is as good.
LEMMA SamePageKeeps ==
  ASSUME NEW e, NEW top, NEW u, NEW v \in Ui, SamePage(u, v), Page(u, e, top)
  PROVE  Page(v, e, top)
<1>1. Shown(v, e, top)
  BY DEF SamePage, Page, Shown
<1>2. QED
  BY <1>1 DEF SamePage, Page

\* #requestSnapshot, on a page that has no answer when it has asked for none.
LEMMA RequestKeeps ==
  ASSUME NEW u \in Ui, u.fetch = "answered" <=> u.answer # NoSnapshot,
         NEW v, v = Request(u)
  PROVE  v \in Ui /\ SamePage(u, v) /\ (u.fetch # "idle" => v = u) /\ v.fetch # "idle"
<1>1. CASE u.fetch # "idle"
  <2>1. v = u
    BY <1>1 DEF Request
  <2>2. QED
    BY <1>1, <2>1 DEF SamePage
<1>2. CASE u.fetch = "idle"
  <2> DEFINE s == IF u.snap = NoSnapshot THEN "loading"
                  ELSE IF u.reconnect THEN "reconnecting"
                  ELSE IF u.ready THEN "connected" ELSE u.status
  <2>1. s \in Statuses
    BY DEF Ui, Statuses
  <2>2. v = [u EXCEPT !.fetch = "asked", !.status = s]
    BY <1>2 DEF Request
  <2> HIDE DEF s
  <2>3. v \in Ui
    BY <2>1, <2>2 DEF Ui
  <2>4. SamePage(u, v) /\ v.fetch # "idle"
    BY <1>2, <2>2 DEF SamePage, Ui
  <2>5. QED
    BY <1>2, <2>3, <2>4
<1>3. QED
  BY <1>1, <1>2

\* #resynchronize, with the revision that the page will insist on.
Restarted(u, q) ==
    Request([Closed(u) EXCEPT !.required = q, !.reconnect = TRUE,
                              !.status = "reconnecting", !.stale = TRUE])

\* What the page insists on, or the answer under way, is not behind what it shows.
Enough(u, q, e) ==
    e = 0 /\ u.fetch = "answered" => u.rev <= u.answer.revision \/ u.rev <= q

\* The page stays, and insists on what made it start again; it may be less than
\* what the page shows when the answer under way is not.
LEMMA RestartKeeps ==
  ASSUME NEW e \in Nat, NEW top \in Revisions, NEW u, Shown(u, e, top),
         NEW q \in Revisions,
         Enough(u, q, e),
         NEW v, v = Restarted(u, q)
  PROVE  /\ Page(v, e, top) /\ v.stream = "none"
         /\ v.rev = u.rev /\ v.snap = u.snap
<1>1. u \in Ui /\ u.rev \in Revisions /\ u.rev \in Int /\ q \in Int
  BY UiFields, RevisionFacts DEF Shown
<1> DEFINE w == [u EXCEPT !.stream = "none", !.ready = FALSE, !.timer = FALSE,
                          !.required = q, !.reconnect = TRUE,
                          !.status = "reconnecting", !.stale = TRUE]
<1>3. w \in Ui
  BY <1>1 DEF Ui, Statuses
<1>4. /\ w.rev = u.rev /\ w.snap = u.snap /\ w.stale = TRUE /\ w.required = q
      /\ w.stream = "none" /\ w.fetch = u.fetch /\ w.answer = u.answer
  BY <1>1 DEF Ui
<1>5. v = Request(w)
  BY DEF Restarted, Closed
<1> HIDE DEF w
<1>6. Page(w, e, top)
  <2>1. Shown(w, e, top)
    BY <1>3, <1>4 DEF Shown
  <2>2. e = 0 /\ w.fetch = "answered" => w.rev <= w.answer.revision \/ w.rev <= w.required
    BY <1>1, <1>4 DEF Enough
  <2>3. QED
    BY <1>4, <2>1, <2>2 DEF Page
<1>7. v \in Ui /\ SamePage(w, v)
  BY <1>3, <1>4, <1>5, RequestKeeps DEF Shown
<1>8. Page(v, e, top)
  BY <1>6, <1>7, SamePageKeeps
<1>9. QED
  BY <1>4, <1>7, <1>8 DEF SamePage

\* #resynchronize insists on at least what the page shows, or on what the controller
\* says.
LEMMA ResynchronizeRestarts ==
  ASSUME NEW u \in Ui, NEW r \in Revisions
  PROVE  /\ Resynchronize(u, r, FALSE) = Restarted(u, Larger(u.rev, r))
         /\ Resynchronize(u, r, TRUE) = Restarted(u, r)
         /\ Larger(u.rev, r) \in Revisions /\ Larger(u.rev, r) >= u.rev
<1>1. u.rev \in Revisions /\ u.rev \in Int /\ r \in Int
  BY UiFields, RevisionFacts
<1>2. Closed(u).rev = u.rev
  BY DEF Closed, Ui
<1>3. QED
  BY <1>1, <1>2, LargerAndSmaller DEF Resynchronize, Restarted

\* Starting again for a revision that the page is behind.
LEMMA RestartForMore ==
  ASSUME NEW e \in Nat, NEW top \in Revisions, NEW u, Shown(u, e, top),
         NEW r \in Revisions, NEW v, v = Restarted(u, Larger(u.rev, r))
  PROVE  /\ Page(v, e, top) /\ v.stream = "none"
         /\ v.rev = u.rev /\ v.snap = u.snap
<1> DEFINE q == Larger(u.rev, r)
<1>1. u \in Ui
  BY DEF Shown
<1>2. q \in Revisions /\ q >= u.rev
  BY <1>1, ResynchronizeRestarts
<1>3. v = Restarted(u, q)
  OBVIOUS
<1> HIDE DEF q
<1>4. Enough(u, q, e)
  BY <1>2 DEF Enough
<1>5. QED
  BY <1>2, <1>3, <1>4, RestartKeeps

\* The page that has received a frame: the watchdog is armed, and the EventSource
\* has the id of the last event.
Touched(u, r) == [u EXCEPT !.timer = TRUE, !.cursor = r]

\* #handleCommittedEvent, on the page that has received the event: the page shows it
\* or starts again.
LEMMA HandleCommittedKeeps ==
  ASSUME NEW e \in Nat, NEW top \in Revisions, NEW u, Page(u, e, top), u.stream = "open",
         NEW r \in Revisions, r > u.cursor, e = 0 => r <= top,
         NEW t, t = Touched(u, r),
         NEW v, v = HandleCommitted(t, r)
  PROVE  /\ Page(v, e, top) /\ v.rev >= u.rev /\ v.snap = u.snap
         /\ v.stream # "none" => v.stream = "open" /\ v.cursor = r /\ v.rev >= r
<1>1. /\ Shown(u, e, top) /\ u \in Ui
      /\ u.rev \in Revisions /\ u.rev \in Int /\ r \in Int /\ u.cursor \in Int
      /\ u.required \in Int /\ u.snap.revision \in Int /\ u.answer.revision \in Int
      /\ top \in Int
  BY UiFields, RevisionFacts DEF Page, Shown
<1>2. t \in Ui
  BY <1>1 DEF Ui, Touched
<1>3. /\ t.rev = u.rev /\ t.snap = u.snap /\ t.stale = u.stale /\ t.required = u.required
      /\ t.reconnect = u.reconnect /\ t.stream = u.stream /\ t.cursor = r
      /\ t.ready = u.ready /\ t.answer = u.answer /\ t.fetch = u.fetch
  BY <1>1 DEF Ui, Touched
<1>4. Shown(t, e, top)
  BY <1>1, <1>2, <1>3 DEF Shown
<1>5. CASE r <= t.rev
  <2>1. v = t
    BY <1>5 DEF HandleCommitted
  <2>2. e = 0 /\ t.fetch = "answered" => t.rev <= t.answer.revision \/ t.rev <= t.cursor
    BY <1>1, <1>3 DEF Page
  <2>3. Page(t, e, top)
    BY <1>3, <1>4, <1>5, <2>2 DEF Page
  <2>4. v.rev >= u.rev /\ v.rev >= r /\ v.snap = u.snap /\ v.stream = "open" /\ v.cursor = r
    <3>1. v.rev = u.rev
      BY <1>3, <2>1
    <3>2. QED
      BY <1>1, <1>3, <1>5, <2>1, <3>1
  <2>5. QED
    BY <2>1, <2>3, <2>4
<1>6. CASE ~(r <= t.rev) /\ r # t.rev + 1
  <2>1. v = Restarted(t, Larger(t.rev, r))
    BY <1>2, <1>6, ResynchronizeRestarts DEF HandleCommitted
  <2>2. Page(v, e, top) /\ v.stream = "none" /\ v.rev = t.rev /\ v.snap = t.snap
    BY <1>4, <2>1, RestartForMore
  <2>3. QED
    BY <1>1, <1>3, <2>2
<1>7. CASE ~(r <= t.rev) /\ r = t.rev + 1
  <2> DEFINE v0 == [t EXCEPT !.required = r, !.rev = r]
             l == Lags(v0)
             w == [v0 EXCEPT !.stale = l]
  <2>1. v = IF w.ready THEN Request(w) ELSE w
    BY <1>7 DEF HandleCommitted
  <2>2. l \in BOOLEAN
    BY DEF Lags
  <2>3. l = TRUE
    <3>1. v0.snap = t.snap /\ v0.rev = r
      BY <1>2 DEF Ui
    <3>2. t.snap.revision < r
      BY <1>1, <1>3, <1>7 DEF Shown
    <3>3. QED
      BY <3>1, <3>2 DEF Lags
  <2> HIDE DEF l
  <2>4. v0 \in Ui
    BY <1>2 DEF Ui
  <2>5. w \in Ui
    BY <2>2, <2>4 DEF Ui
  <2>6. /\ w.rev = r /\ w.snap = u.snap /\ w.stale = TRUE /\ w.required = r
        /\ w.reconnect = u.reconnect /\ w.stream = u.stream /\ w.cursor = r
        /\ w.answer = u.answer /\ w.fetch = u.fetch
    BY <1>2, <1>3, <2>3 DEF Ui
  <2> HIDE DEF w, v0
  <2>7. Page(w, e, top)
    <3>1. w.snap.revision <= w.rev /\ (e = 0 => w.rev <= top)
      BY <1>1, <1>3, <1>7, <2>6 DEF Shown
    <3>2. Shown(w, e, top)
      BY <1>1, <2>5, <2>6, <3>1 DEF Shown
    <3>3. w.rev <= w.required /\ w.required >= w.rev /\ w.cursor <= w.rev /\ w.rev <= w.cursor
      BY <1>1, <2>6
    <3>4. QED
      BY <2>6, <3>2, <3>3 DEF Page
  <2>8. v \in Ui /\ SamePage(w, v)
    <3>1. CASE w.ready
      BY <2>1, <2>5, <2>7, <3>1, RequestKeeps DEF Page, Shown
    <3>2. CASE ~w.ready
      BY <2>1, <2>5, <3>2 DEF SamePage
    <3>3. QED
      BY <3>1, <3>2
  <2>9. Page(v, e, top)
    BY <2>7, <2>8, SamePageKeeps
  <2>10. QED
    BY <1>1, <1>3, <1>7, <2>6, <2>8, <2>9 DEF SamePage
<1>8. QED
  BY <1>5, <1>6, <1>7

\* #handleReady, #handleHeartbeat and the open handler: the page says what it knows.
LEMMA QuietFramesKeep ==
  ASSUME NEW e \in Nat, NEW top \in Revisions, NEW u, Page(u, e, top),
         NEW v, v = HandleReady(u) \/ v = HandleHeartbeat(u) \/ v = HandleOpen(u)
  PROVE  v \in Ui /\ SamePage(u, v) /\ Page(v, e, top)
<1>1. /\ u \in Ui /\ u.snap.revision <= u.rev /\ u.rev \in Int /\ u.snap.revision \in Int
      /\ u.fetch = "answered" <=> u.answer # NoSnapshot
  BY UiFields DEF Page, Shown
<1>2. v \in Ui /\ SamePage(u, v)
  <2>1. CASE v = HandleReady(u)
    <3> DEFINE w == [u EXCEPT !.ready = TRUE, !.status = "connected"]
    <3>1. w \in Ui
      BY <1>1 DEF Ui, Statuses
    <3>2. /\ SamePage(u, w) /\ w.fetch = u.fetch /\ w.answer = u.answer
          /\ w.stale = u.stale
      BY <1>1 DEF SamePage, Ui
    <3>3. v = IF w.stale THEN Request(w) ELSE w
      BY <2>1 DEF HandleReady
    <3> HIDE DEF w
    <3>4. CASE w.stale
      <4>1. PICK x : x = Request(w)
        OBVIOUS
      <4>2. x \in Ui /\ SamePage(w, x)
        BY <1>1, <3>1, <3>2, <4>1, RequestKeeps
      <4>3. SamePage(u, x)
        BY <3>2, <4>2 DEF SamePage
      <4>4. v = x
        BY <3>3, <3>4, <4>1
      <4>5. QED
        BY <4>2, <4>3, <4>4
    <3>5. CASE ~w.stale
      BY <3>1, <3>2, <3>3, <3>5
    <3>6. QED
      BY <3>4, <3>5
  <2>2. CASE v = HandleHeartbeat(u)
    <3> DEFINE l == Lags(u)
    <3>1. l \in BOOLEAN
      BY DEF Lags
    <3>2. l = FALSE => u.snap # NoSnapshot /\ u.snap.revision = u.rev
      BY <1>1 DEF Lags
    <3> HIDE DEF l
    <3>3. CASE u.ready /\ u.status # "error"
      <4>1. v = [u EXCEPT !.status = "connected", !.stale = l]
        BY <2>2, <3>3 DEF HandleHeartbeat, l
      <4>2. v \in Ui
        BY <1>1, <3>1, <4>1 DEF Ui, Statuses
      <4>3. v.stale = l
        BY <1>1, <4>1 DEF Ui
      <4>4. SamePage(u, v)
        BY <1>1, <3>1, <3>2, <4>1, <4>3 DEF Ui, SamePage
      <4>5. QED
        BY <4>2, <4>4
    <3>4. CASE ~(u.ready /\ u.status # "error")
      <4>1. v = u
        BY <2>2, <3>4 DEF HandleHeartbeat
      <4>2. QED
        BY <1>1, <4>1 DEF SamePage
    <3>5. QED
      BY <3>3, <3>4
  <2>3. CASE v = HandleOpen(u)
    <3>1. CASE u.status = "error"
      <4>1. v = u
        BY <2>3, <3>1 DEF HandleOpen
      <4>2. QED
        BY <1>1, <4>1 DEF SamePage
    <3>2. CASE u.status # "error"
      <4>1. v = [u EXCEPT !.status = "reconnecting"]
        BY <2>3, <3>2 DEF HandleOpen
      <4>2. v \in Ui
        BY <1>1, <4>1 DEF Ui, Statuses
      <4>3. SamePage(u, v)
        BY <1>1, <4>1 DEF Ui, SamePage
      <4>4. QED
        BY <4>2, <4>3
    <3>3. QED
      BY <3>1, <3>2
  <2>4. QED
    BY <2>1, <2>2, <2>3
<1>3. QED
  BY <1>2, SamePageKeeps

\* #handleMessage: what the page shows does not go back, and an event that it has
\* received is shown, or the page has closed its stream.
LEMMA HandleKeeps ==
  ASSUME NEW e \in Nat, NEW top \in Revisions, NEW u, Page(u, e, top), u.stream = "open",
         NEW f \in FrameRecords,
         f.kind = "event" => f.revision > u.cursor /\ (e = 0 => f.revision <= top),
         f.kind = "resync" => (e = 0 => f.revision >= u.cursor),
         NEW v, v = Handle(u, f)
  PROVE  /\ Page(v, e, top) /\ v.rev >= u.rev /\ v.snap = u.snap
         /\ v.stream # "none" =>
               /\ v.stream = "open" /\ f.kind # "resync"
               /\ v.cursor = IF f.kind = "event" THEN f.revision ELSE u.cursor
               /\ f.kind = "event" => v.rev >= f.revision
<1>1. /\ u \in Ui /\ u.rev \in Int /\ u.cursor \in Revisions /\ u.cursor \in Int
      /\ u.answer.revision \in Int
      /\ f.revision \in Revisions /\ f.revision \in Int
  BY UiFields, RevisionFacts DEF Page, Shown, FrameRecords
<1>2. f.kind \in {"open", "event", "ready", "heartbeat", "resync"}
  BY DEF FrameRecords, FrameKinds
<1>3. CASE f.kind = "event"
  <2>1. PICK t : t = Touched(u, f.revision)
    OBVIOUS
  <2>2. v = HandleCommitted(t, f.revision)
    BY <1>3, <2>1 DEF Handle, Touched
  <2>3. /\ Page(v, e, top) /\ v.rev >= u.rev /\ v.snap = u.snap
        /\ v.stream # "none" => v.stream = "open" /\ v.cursor = f.revision /\ v.rev >= f.revision
    BY <1>1, <1>3, <2>1, <2>2, HandleCommittedKeeps
  <2>4. QED
    BY <1>3, <2>3
<1>4. CASE f.kind # "event"
  <2>1. PICK t : t = Touched(u, u.cursor)
    OBVIOUS
  <2>2. t \in Ui
    BY <1>1, <2>1 DEF Touched, Ui
  <2>3. /\ t.rev = u.rev /\ t.snap = u.snap /\ t.stale = u.stale /\ t.required = u.required
        /\ t.reconnect = u.reconnect /\ t.stream = u.stream /\ t.cursor = u.cursor
        /\ t.answer = u.answer /\ t.fetch = u.fetch
    BY <1>1, <2>1 DEF Touched, Ui
  <2>4. SamePage(u, t)
    BY <2>3 DEF SamePage
  <2>5. Page(t, e, top) /\ Shown(t, e, top)
    <3>1. Page(t, e, top)
      BY <2>2, <2>4, SamePageKeeps
    <3>2. QED
      BY <3>1 DEF Page
  <2>6. CASE f.kind = "resync"
    <3>1. v = Resynchronize(t, f.revision, TRUE)
      BY <1>4, <2>1, <2>6 DEF Handle, Touched
    <3>2. v = Restarted(t, f.revision)
      BY <1>1, <2>2, <3>1, ResynchronizeRestarts
    <3>3. Enough(t, f.revision, e)
      <4>1. e = 0 /\ u.fetch = "answered" => u.rev <= u.answer.revision \/ u.rev <= u.cursor
        BY DEF Page
      <4>2. QED
        BY <1>1, <2>3, <2>6, <4>1 DEF Enough
    <3>4. Page(v, e, top) /\ v.stream = "none" /\ v.rev = t.rev /\ v.snap = t.snap
      BY <1>1, <2>5, <3>2, <3>3, RestartKeeps
    <3>5. QED
      BY <1>1, <2>3, <3>4
  <2>7. CASE f.kind \in {"ready", "heartbeat"} /\ f.revision > t.rev
    <3>1. v = Restarted(t, Larger(t.rev, f.revision))
      <4>1. v = Resynchronize(t, f.revision, FALSE)
        <5>1. f.revision > t.rev /\ ~(f.revision <= t.rev)
          BY <1>1, <2>3, <2>7
        <5>2. CASE f.kind = "ready"
          BY <1>4, <2>1, <5>1, <5>2 DEF Handle, Touched
        <5>3. CASE f.kind = "heartbeat"
          BY <1>4, <2>1, <5>1, <5>3 DEF Handle, Touched
        <5>4. QED
          BY <2>7, <5>2, <5>3
      <4>2. QED
        BY <1>1, <2>2, <4>1, ResynchronizeRestarts
    <3>2. Page(v, e, top) /\ v.stream = "none" /\ v.rev = t.rev /\ v.snap = t.snap
      BY <1>1, <2>5, <3>1, RestartForMore
    <3>3. QED
      BY <1>1, <2>3, <3>2
  <2>8. CASE f.kind = "open" \/ (f.kind \in {"ready", "heartbeat"} /\ ~(f.revision > t.rev))
    <3>1. v = HandleReady(t) \/ v = HandleHeartbeat(t) \/ v = HandleOpen(t)
      <4>1. t.rev \in Int
        BY <1>1, <2>3
      <4>2. CASE f.kind = "open"
        BY <1>4, <2>1, <4>2 DEF Handle, Touched
      <4>3. CASE f.kind = "ready" /\ f.revision <= t.rev
        BY <1>4, <2>1, <4>3 DEF Handle, Touched
      <4>4. CASE f.kind = "heartbeat" /\ ~(f.revision > t.rev)
        BY <1>4, <2>1, <4>4 DEF Handle, Touched
      <4>5. QED
        BY <1>1, <2>8, <4>1, <4>2, <4>3, <4>4
    <3>2. v \in Ui /\ SamePage(t, v) /\ Page(v, e, top)
      BY <2>5, <3>1, QuietFramesKeep
    <3>3. v.rev = u.rev /\ v.snap = u.snap /\ v.stream = "open" /\ v.cursor = u.cursor
      BY <2>3, <3>2 DEF SamePage
    <3>4. f.kind # "resync"
      BY <2>8
    <3>5. QED
      BY <1>1, <1>4, <3>2, <3>3, <3>4
  <2>9. QED
    BY <1>2, <1>4, <2>6, <2>7, <2>8
<1>5. QED
  BY <1>3, <1>4

\* The error handler of the EventSource.
LEMMA HandleErrorKeeps ==
  ASSUME NEW e \in Nat, NEW top \in Revisions, NEW u, Page(u, e, top), u.stream # "none",
         NEW v, v = HandleError(u)
  PROVE  Page(v, e, top) /\ v.stream = "connecting" /\ v.rev = u.rev /\ v.snap = u.snap
<1>1. u \in Ui /\ Shown(u, e, top)
  BY DEF Page, Shown
<1> DEFINE w == [u EXCEPT !.ready = FALSE, !.timer = TRUE, !.stream = "connecting"]
<1>2. w \in Ui
  BY <1>1 DEF Ui
<1>3. /\ w.rev = u.rev /\ w.snap = u.snap /\ w.stale = u.stale /\ w.required = u.required
      /\ w.reconnect = u.reconnect /\ w.cursor = u.cursor
      /\ w.answer = u.answer /\ w.fetch = u.fetch /\ w.stream = "connecting"
  BY <1>1 DEF Ui
<1>4. v = IF w.status = "error" THEN w
          ELSE [w EXCEPT !.status = "reconnecting", !.stale = TRUE]
  BY DEF HandleError
<1> HIDE DEF w
<1>5. Shown(w, e, top)
  BY <1>1, <1>2, <1>3 DEF Shown
<1>6. Page(w, e, top)
  BY <1>3, <1>5 DEF Page
<1>7. CASE w.status = "error"
  BY <1>3, <1>4, <1>6, <1>7
<1>8. CASE w.status # "error"
  <2>1. v = [w EXCEPT !.status = "reconnecting", !.stale = TRUE]
    BY <1>4, <1>8
  <2>2. v \in Ui
    BY <1>2, <2>1 DEF Ui, Statuses
  <2>3. SamePage(w, v)
    BY <1>2, <2>1 DEF Ui, SamePage
  <2>4. Page(v, e, top)
    BY <1>6, <2>2, <2>3, SamePageKeeps
  <2>5. QED
    BY <1>3, <2>3, <2>4 DEF SamePage
<1>9. QED
  BY <1>7, <1>8

\* The answer of #requestSnapshot: it is refused when it is older than what the page
\* insists on, so what the page shows goes back only after a restore.
LEMMA AcceptedKeeps ==
  ASSUME NEW e \in Nat, NEW top \in Revisions, NEW u, Page(u, e, top),
         u.fetch = "answered",
         NEW v, v = Accepted(u)
  PROVE  /\ Page(v, e, top)
         /\ e = 0 => v.rev >= u.rev /\ v.snap.revision >= u.snap.revision
         /\ v.stream = "open" => u.stream = "open" /\ v.cursor = u.cursor /\ v.rev >= u.rev
<1>1. /\ u \in Ui /\ Shown(u, e, top) /\ u.answer # NoSnapshot
      /\ u.rev \in Int /\ u.required \in Int /\ u.cursor \in Revisions /\ u.cursor \in Int
      /\ u.answer.revision \in Revisions /\ u.answer.revision \in Int
      /\ u.snap.revision \in Int /\ u.rev \in Revisions
  BY UiFields DEF Page, Shown
<1>2. u.answer \in [epoch : 0 .. MaxDisturbances, revision : Revisions]
  BY <1>1 DEF Ui
<1> DEFINE idle == [u EXCEPT !.fetch = "idle", !.answer = NoSnapshot]
<1>3. CASE u.answer.revision < u.required
  <2>1. idle \in Ui
    BY <1>1 DEF Ui
  <2>2. /\ idle.rev = u.rev /\ idle.snap = u.snap /\ idle.stale = u.stale
        /\ idle.required = u.required
        /\ idle.reconnect = u.reconnect /\ idle.cursor = u.cursor
        /\ idle.answer = NoSnapshot /\ idle.fetch = "idle" /\ idle.stream = u.stream
    BY <1>1 DEF Ui
  <2>3. v = Request(idle)
    BY <1>3 DEF Accepted
  <2> HIDE DEF idle
  <2>4. Page(idle, e, top)
    <3>1. Shown(idle, e, top)
      BY <1>1, <2>1, <2>2 DEF Shown
    <3>2. QED
      BY <2>2, <3>1 DEF Page
  <2>5. v \in Ui /\ SamePage(idle, v)
    BY <2>1, <2>2, <2>3, RequestKeeps
  <2>6. Page(v, e, top)
    BY <2>4, <2>5, SamePageKeeps
  <2>7. v.rev = u.rev /\ v.snap = u.snap /\ v.stream = u.stream /\ v.cursor = u.cursor
    BY <2>2, <2>5 DEF SamePage
  <2>8. QED
    BY <1>1, <2>6, <2>7
<1>4. CASE ~(u.answer.revision < u.required)
  <2> DEFINE a == u.answer
             s == IF u.reconnect THEN "reconnecting" ELSE u.status
             w == [idle EXCEPT !.reconnect = FALSE, !.required = a.revision,
                               !.rev = a.revision, !.snap = a,
                               !.stale = FALSE, !.status = s]
  <2>1. s \in Statuses
    BY <1>1 DEF Ui, Statuses
  <2>2. v = IF u.reconnect THEN OpenStream(w) ELSE w
    <3>1. idle.status = u.status
      BY <1>1 DEF Ui
    <3>2. QED
      BY <1>4, <3>1 DEF Accepted
  <2> HIDE DEF s
  <2>3. idle \in Ui
    BY <1>1 DEF Ui
  <2>4. w \in Ui
    BY <1>1, <1>2, <2>1, <2>3 DEF Ui
  <2>5. /\ w.rev = a.revision /\ w.snap = a /\ w.stale = FALSE
        /\ w.required = a.revision /\ w.reconnect = FALSE /\ w.fetch = "idle"
        /\ w.answer = NoSnapshot /\ w.stream = u.stream /\ w.cursor = u.cursor
    BY <1>1, <2>3 DEF Ui
  <2> HIDE DEF w, idle
  <2>6. e = 0 => a.revision >= u.rev /\ a.revision >= u.snap.revision /\ a.revision <= top
    <3>1. e = 0 => u.rev <= u.answer.revision \/ u.rev <= u.required
      BY DEF Page
    <3>2. u.snap.revision <= u.rev /\ (e = 0 => u.answer.revision <= top)
      BY DEF Page, Shown
    <3>3. QED
      BY <1>1, <1>4, <3>1, <3>2
  <2>7. Shown(w, e, top)
    BY <1>1, <2>4, <2>5, <2>6 DEF Shown
  <2>8. u.stream # "none" => ~u.reconnect /\ u.required >= u.rev /\ u.cursor <= u.rev
    BY DEF Page
  <2>9. CASE u.reconnect
    <3> DEFINE c == Closed(w)
               n == w.rev
               x == [c EXCEPT !.stream = "connecting", !.cursor = n]
    <3>1. v = x
      BY <2>2, <2>9 DEF OpenStream
    <3>2. c \in Ui /\ n \in Revisions /\ n \in Int
      BY <1>1, <2>4, <2>5 DEF Ui, Closed
    <3>3. /\ c.rev = w.rev /\ c.snap = w.snap /\ c.stale = w.stale /\ c.required = w.required
          /\ c.reconnect = w.reconnect /\ c.fetch = w.fetch /\ c.answer = w.answer
      BY <2>4 DEF Ui, Closed
    <3> HIDE DEF c, n
    <3>4. x \in Ui
      BY <3>2 DEF Ui
    <3>5. /\ x.rev = w.rev /\ x.snap = w.snap /\ x.stale = w.stale /\ x.required = w.required
          /\ x.reconnect = w.reconnect /\ x.fetch = w.fetch /\ x.answer = w.answer
          /\ x.stream = "connecting" /\ x.cursor = n
      BY <3>2, <3>3 DEF Ui
    <3> HIDE DEF x
    <3>6. Shown(x, e, top)
      BY <2>7, <3>4, <3>5 DEF Shown
    <3>7. Page(x, e, top)
      <4>1. x.required >= x.rev /\ x.cursor <= x.rev
        BY <1>1, <2>5, <3>2, <3>5 DEF n
      <4>2. QED
        BY <1>1, <2>5, <3>5, <3>6, <4>1 DEF Page
    <3>8. QED
      BY <2>5, <2>6, <3>1, <3>5, <3>7
  <2>10. CASE ~u.reconnect
    <3>1. v = w
      BY <2>2, <2>10
    <3>2. u.stream # "none" => a.revision >= u.rev /\ u.cursor <= a.revision
      BY <1>1, <1>4, <2>8
    <3>3. Page(w, e, top)
      <4>1. w.required >= w.rev
        BY <1>1, <2>5
      <4>2. QED
        BY <1>1, <2>5, <2>7, <3>2, <4>1 DEF Page
    <3>4. QED
      BY <2>5, <2>6, <3>1, <3>2, <3>3
  <2>11. QED
    BY <2>9, <2>10
<1>5. QED
  BY <1>3, <1>4

\* A request that fails.
LEMMA FailedKeeps ==
  ASSUME NEW e \in Nat, NEW top \in Revisions, NEW u, Page(u, e, top),
         NEW v, v = Failed(u)
  PROVE  /\ Page(v, e, top) /\ v.rev = u.rev /\ v.snap = u.snap /\ v.stream = u.stream
         /\ v.cursor = u.cursor
<1>1. u \in Ui /\ Shown(u, e, top)
  BY DEF Page, Shown
<1>2. v \in Ui
  BY <1>1 DEF Failed, Ui, Statuses
<1>3. /\ v.rev = u.rev /\ v.snap = u.snap /\ v.stale = TRUE /\ v.required = u.required
      /\ v.reconnect = u.reconnect /\ v.cursor = u.cursor
      /\ v.answer = NoSnapshot /\ v.fetch = "idle" /\ v.stream = u.stream
  BY <1>1 DEF Failed, Ui
<1>4. Shown(v, e, top)
  BY <1>1, <1>2, <1>3 DEF Shown
<1>5. Page(v, e, top)
  BY <1>3, <1>4 DEF Page
<1>6. QED
  BY <1>3, <1>5

\* refresh and retry: the page asks for at least what it shows.
LEMMA ButtonsKeep ==
  ASSUME NEW e \in Nat, NEW top \in Revisions, NEW u, Page(u, e, top),
         NEW v, v = Refreshed(u) \/ v = Retried(u)
  PROVE  /\ Page(v, e, top) /\ v.rev = u.rev /\ v.snap = u.snap
         /\ v.stream # "none" => v.stream = u.stream /\ v.cursor = u.cursor
<1>1. /\ u \in Ui /\ Shown(u, e, top)
      /\ u.rev \in Revisions /\ u.required \in Revisions /\ u.rev \in Int /\ u.required \in Int
  BY UiFields DEF Page, Shown
<1> DEFINE n == Larger(u.required, u.rev)
<1>2. n \in Revisions /\ n \in Int /\ n >= u.rev /\ n >= u.required
  BY <1>1, LargerAndSmaller
<1>3. CASE v = Refreshed(u)
  <2> DEFINE w == [u EXCEPT !.required = n]
  <2>1. w = AtLeastShown(u)
    BY DEF AtLeastShown
  <2>2. v = Request(w)
    BY <1>3, <2>1 DEF Refreshed
  <2> HIDE DEF n
  <2>3. w \in Ui
    BY <1>1, <1>2 DEF Ui
  <2>4. /\ w.rev = u.rev /\ w.snap = u.snap /\ w.stale = u.stale /\ w.required = n
        /\ w.reconnect = u.reconnect /\ w.stream = u.stream /\ w.cursor = u.cursor
        /\ w.answer = u.answer /\ w.fetch = u.fetch
    BY <1>1 DEF Ui
  <2> HIDE DEF w
  <2>5. Shown(w, e, top)
    BY <1>1, <2>3, <2>4 DEF Shown
  <2>6. Page(w, e, top)
    BY <1>1, <1>2, <2>4, <2>5 DEF Page
  <2>7. v \in Ui /\ SamePage(w, v)
    BY <2>2, <2>3, <2>5, RequestKeeps DEF Shown
  <2>8. Page(v, e, top)
    BY <2>6, <2>7, SamePageKeeps
  <2>9. QED
    BY <2>4, <2>7, <2>8 DEF SamePage
<1>4. CASE v = Retried(u)
  <2> DEFINE s == IF u.snap = NoSnapshot THEN "loading" ELSE "reconnecting"
             w == [u EXCEPT !.stream = "none", !.ready = FALSE, !.timer = FALSE,
                            !.required = n, !.reconnect = TRUE, !.stale = TRUE, !.status = s]
  <2>1. v = Request(w)
    <3>1. Closed(u).required = u.required /\ Closed(u).rev = u.rev
      BY <1>1 DEF Ui, Closed
    <3>2. AtLeastShown(Closed(u)) = [Closed(u) EXCEPT !.required = n]
      BY <3>1 DEF AtLeastShown
    <3>3. v = Request([AtLeastShown(Closed(u)) EXCEPT
                         !.reconnect = TRUE, !.stale = TRUE, !.status = s])
      BY <1>4 DEF Retried
    <3> HIDE DEF n, s
    <3>4. [AtLeastShown(Closed(u)) EXCEPT
             !.reconnect = TRUE, !.stale = TRUE, !.status = s] = w
      BY <1>1, <3>2 DEF Closed, Ui
    <3>5. QED
      BY <3>3, <3>4
  <2>2. s \in Statuses
    BY DEF Statuses
  <2> HIDE DEF n, s
  <2>3. w \in Ui
    BY <1>1, <1>2, <2>2 DEF Ui
  <2>4. /\ w.rev = u.rev /\ w.snap = u.snap /\ w.stale = TRUE /\ w.required = n
        /\ w.stream = "none" /\ w.answer = u.answer /\ w.fetch = u.fetch
    BY <1>1 DEF Ui
  <2> HIDE DEF w
  <2>5. Shown(w, e, top)
    BY <1>1, <2>3, <2>4 DEF Shown
  <2>6. Page(w, e, top)
    BY <1>1, <1>2, <2>4, <2>5 DEF Page
  <2>7. v \in Ui /\ SamePage(w, v)
    BY <2>1, <2>3, <2>5, RequestKeeps DEF Shown
  <2>8. Page(v, e, top)
    BY <2>6, <2>7, SamePageKeeps
  <2>9. QED
    BY <2>4, <2>7, <2>8 DEF SamePage
<1>5. QED
  BY <1>3, <1>4

-----------------------------------------------------------------------------
(* What stays true of a connection and of a page when the rest moves.      *)

\* Without a connection nothing is promised.
LEMMA NoConnKeeps ==
  ASSUME NEW u, NEW e, NEW top, NEW t
  PROVE  /\ Streaming(NoConn, u, e, top) /\ Awaiting(NoConn, e, top) /\ Heard(NoConn, t)
         /\ NoConn \in Connection /\ Len(NoConn.queue) <= MaxQueuedFrames
<1>1. /\ NoConn \in Connection /\ Ended(NoConn) /\ ~Replaying(NoConn)
      /\ NoConn.queue = <<>> /\ NoConn.phase = "none"
      /\ Events(Pending(NoConn)) = {} /\ Resyncs(Pending(NoConn)) = {}
      /\ InTurn(Pending(NoConn))
  BY EmptyConnections, RevisionFacts
<1>2. Len(<<>>) = 0
  OBVIOUS
<1>3. Len(NoConn.queue) <= MaxQueuedFrames
  BY <1>1, <1>2, RevisionFacts
<1>4. Streaming(NoConn, u, e, top)
  BY <1>1, <1>3 DEF Streaming
<1>5. Awaiting(NoConn, e, top) /\ Heard(NoConn, t)
  BY <1>1 DEF Awaiting, Heard
<1>6. QED
  BY <1>1, <1>3, <1>4, <1>5

\* A connection serves the page that shows more, and the database that has more.
LEMMA MoreKeeps ==
  ASSUME NEW e \in Nat, NEW top \in Revisions, NEW more \in Revisions, more >= top,
         NEW c, NEW u \in Ui, Streaming(c, u, e, top), Awaiting(c, e, top),
         NEW v \in Ui, v.cursor = u.cursor, v.rev >= u.rev
  PROVE  Streaming(c, v, e, more) /\ Awaiting(c, e, more)
<1>1. /\ c \in Connection /\ c.current \in Int /\ c.known \in Int /\ c.at \in Int
      /\ top \in Int /\ more \in Int /\ u.rev \in Int /\ v.rev \in Int
      /\ \A r \in Events(Pending(c)) : r \in Int
  BY ConnectionFields, RevisionFacts, UiFields DEF Streaming
<1>2. \A r \in Events(Pending(c)) : r > v.cursor /\ (e = 0 => r <= more)
  BY <1>1 DEF Streaming
<1>3. ~Ended(c) => /\ u.rev >= c.current => v.rev >= c.current
                   /\ e = 0 => c.known <= more
  BY <1>1 DEF Streaming
<1>4. Streaming(c, v, e, more)
  BY <1>2, <1>3 DEF Streaming
<1>5. Replaying(c) /\ e = 0 /\ c.phase = "read" => c.at <= more
  BY <1>1 DEF Awaiting
<1>6. Awaiting(c, e, more)
  BY <1>5 DEF Awaiting
<1>7. QED
  BY <1>4, <1>6

\* So does a page.
LEMMA PageKeeps ==
  ASSUME NEW e \in Nat, NEW top \in Revisions, NEW more \in Revisions, more >= top,
         NEW u, Page(u, e, top)
  PROVE  Page(u, e, more)
<1>1. u \in Ui /\ u.rev \in Int /\ u.answer.revision \in Int /\ top \in Int /\ more \in Int
  BY RevisionFacts, UiFields DEF Page, Shown
<1>2. Shown(u, e, more)
  BY <1>1 DEF Page, Shown
<1>3. QED
  BY <1>2 DEF Page

\* After a restore a page promises less.
LEMMA RestoredPage ==
  ASSUME NEW e \in Nat, NEW d \in Nat, d # 0, NEW top, NEW r, NEW u, Page(u, e, top)
  PROVE  Page(u, d, r)
<1>1. Shown(u, d, r)
  BY DEF Page, Shown
<1>2. QED
  BY <1>1 DEF Page

\* What the invariant says of the types.
LEMMA StateFacts ==
  ASSUME IInv
  PROVE  /\ up \in BOOLEAN /\ epoch \in Nat /\ epoch \in Int /\ revision \in Revisions
         /\ revision \in Int /\ revision >= 0 /\ revision <= MaxRevision
         /\ mirrored \in Int /\ 0 <= mirrored /\ mirrored <= revision
         /\ pruned \in Int /\ 0 <= pruned /\ pruned <= mirrored
         /\ pass.from \in Revisions /\ pass.to \in Revisions
         /\ pass.from \in Int /\ pass.to \in Int
         /\ pass.from <= pass.to /\ pass.to <= revision
         /\ told \in Revisions /\ told \in Int /\ told <= revision
         /\ disturbed \in Nat /\ disturbed <= MaxDisturbances /\ MaxDisturbances \in Nat
         /\ epoch <= disturbed
         /\ ui \in Ui /\ ui.cursor \in Revisions /\ ui.rev \in Revisions
         /\ MaxRevision \in Nat /\ Revisions = 0 .. MaxRevision
<1>1. /\ up \in BOOLEAN /\ epoch \in Nat /\ revision \in Revisions
      /\ mirrored \in 0 .. revision /\ pruned \in 0 .. mirrored
      /\ pass \in [pc : {"idle", "mirror", "prune"}, from : Revisions, to : Revisions]
      /\ told \in Revisions /\ disturbed \in 0 .. MaxDisturbances
      /\ Page(ui, epoch, revision) /\ ServerOrder
  BY DEF IInv, ServerTypeOK
<1>2. MaxDisturbances \in Nat
  BY CoordinatorConstants
<1>3. ui \in Ui
  BY <1>1 DEF Page, Shown
<1>4. pass.from \in Revisions /\ pass.to \in Revisions
  BY <1>1
<1>5. ui.cursor \in Revisions /\ ui.rev \in Revisions
  BY <1>3, UiFields
<1>6. pass.from <= pass.to /\ pass.to <= revision /\ told <= revision /\ epoch <= disturbed
  BY <1>1 DEF ServerOrder
<1>7. QED
  BY <1>1, <1>2, <1>3, <1>4, <1>5, <1>6, RevisionFacts

\* The part of the invariant that a step of the page does not touch.
LEMMA ServerStays ==
  ASSUME IInv, UNCHANGED <<up, outbox, pass, told>>, Streaming(conn', ui', epoch', revision'),
         ~up => conn' = NoConn, disturbed' \in 0 .. MaxDisturbances, disturbed' >= disturbed
  PROVE  /\ ServerTypeOK' /\ disturbed' \in 0 .. MaxDisturbances /\ ServerOrder'
<1>1. conn' \in Connection /\ Len(conn'.queue) <= MaxQueuedFrames
  BY DEF Streaming
<1>2. /\ up' = up /\ epoch' = epoch /\ revision' = revision /\ mirrored' = mirrored
      /\ pruned' = pruned /\ pass' = pass /\ told' = told
  BY DEF outbox
<1>3. ServerTypeOK'
  BY <1>1, <1>2 DEF ServerTypeOK, IInv
<1>4. ServerOrder'
  <2>1. epoch' <= disturbed'
    BY <1>2, StateFacts
  <2>2. QED
    BY <1>2, <2>1 DEF ServerOrder, IInv
<1>5. QED
  BY <1>3, <1>4

\* A step of the page that leaves its stream as it is, or closes it.
LEMMA PageMoves ==
  ASSUME IInv, NEW v, Page(v, epoch, revision),
         v.stream = "open" => ui.stream = "open" /\ v.cursor = ui.cursor /\ v.rev >= ui.rev,
         Follow(v, conn),
         disturbed' \in 0 .. MaxDisturbances, disturbed' >= disturbed
  PROVE  IInv'
<1>1. /\ ui' = v /\ epoch' = epoch /\ revision' = revision /\ told' = told /\ up' = up
      /\ conn' = IF v.stream = "open" THEN conn ELSE NoConn
      /\ UNCHANGED <<up, outbox, pass, told>>
  BY DEF Follow, outbox
<1>2. /\ Streaming(conn, ui, epoch, revision) /\ Awaiting(conn, epoch, revision)
      /\ Heard(conn, told)
  BY DEF IInv
<1>3. v \in Ui
  BY DEF Page, Shown
<1>4. /\ Streaming(conn', v, epoch, revision) /\ Awaiting(conn', epoch, revision)
      /\ Heard(conn', told)
  <2>1. CASE v.stream = "open"
    <3>1. conn' = conn
      BY <1>1, <2>1
    <3>2. revision >= revision
      BY StateFacts
    <3>3. Streaming(conn, v, epoch, revision) /\ Awaiting(conn, epoch, revision)
      BY <1>2, <1>3, <2>1, <3>2, StateFacts, MoreKeeps
    <3>4. QED
      BY <1>2, <3>1, <3>3
  <2>2. CASE v.stream # "open"
    BY <1>1, <2>2, NoConnKeeps
  <2>3. QED
    BY <2>1, <2>2
<1>5. ~up => conn' = NoConn
  BY <1>1 DEF IInv, ServerOrder
<1>6. ServerTypeOK' /\ disturbed' \in 0 .. MaxDisturbances /\ ServerOrder'
  BY <1>1, <1>4, <1>5, ServerStays
<1>7. ui'.stream # "open" => conn' = NoConn
  BY <1>1
<1>8. /\ Streaming(conn', ui', epoch', revision') /\ Awaiting(conn', epoch', revision')
      /\ Heard(conn', told') /\ Page(ui', epoch', revision')
  BY <1>1, <1>4
<1>9. QED
  BY <1>6, <1>7, <1>8 DEF IInv

-----------------------------------------------------------------------------
(* The steps.                                                              *)

\* What goes wrong is counted.
LEMMA Counted ==
  ASSUME IInv, Undisturbed \/ \E kind : Disturb(kind)
  PROVE  disturbed' \in 0 .. MaxDisturbances /\ disturbed' >= disturbed
<1>1. disturbed \in Nat /\ disturbed <= MaxDisturbances /\ MaxDisturbances \in Nat
  BY StateFacts
<1>2. CASE Undisturbed
  BY <1>1, <1>2 DEF Undisturbed
<1>3. CASE \E kind : Disturb(kind)
  BY <1>1, <1>3 DEF Disturb
<1>4. QED
  BY <1>2, <1>3

\* The steps that the page takes on its own.
LEMMA PageSteps ==
  ASSUME IInv,
         FetchRead \/ FetchAnswered \/ FetchRefused \/ FetchFails
         \/ StreamRefused \/ StreamEnds \/ HeartbeatTimeout \/ Refresh \/ Retry
  PROVE  IInv'
<1>1. /\ Page(ui, epoch, revision) /\ ui \in Ui /\ epoch \in Nat /\ revision \in Revisions
      /\ epoch <= MaxDisturbances /\ epoch \in Int
      /\ ui.rev >= ui.rev
  <2>1. ui.rev \in Int
    BY StateFacts, UiFields
  <2>2. epoch <= MaxDisturbances
    BY StateFacts
  <2>3. QED
    BY <2>1, <2>2, StateFacts DEF IInv
<1>2. CASE FetchRead
  <2> DEFINE a == Snapshot(epoch, revision)
             v == [ui EXCEPT !.fetch = "answered", !.answer = a]
  <2>1. Follow(v, conn) /\ Undisturbed
    BY <1>2 DEF FetchRead
  <2>2. /\ a \in [epoch : 0 .. MaxDisturbances, revision : Revisions]
        /\ a.revision = revision /\ a # NoSnapshot
    <3>1. a = [epoch |-> epoch, revision |-> revision]
      BY DEF Snapshot
    <3>2. NoSnapshot.revision = -1
      BY DEF NoSnapshot
    <3>3. a.revision = revision /\ epoch \in 0 .. MaxDisturbances
      BY <1>1, <3>1, CoordinatorConstants
    <3>4. a # NoSnapshot
      BY <1>1, <3>2, <3>3, RevisionFacts
    <3>5. QED
      BY <1>1, <3>1, <3>3, <3>4
  <2> HIDE DEF a
  <2>3. v \in Ui
    BY <1>1, <2>2 DEF Ui
  <2>4. /\ v.rev = ui.rev /\ v.snap = ui.snap /\ v.stale = ui.stale /\ v.required = ui.required
        /\ v.reconnect = ui.reconnect /\ v.cursor = ui.cursor
        /\ v.answer = a /\ v.fetch = "answered" /\ v.stream = ui.stream
    BY <1>1 DEF Ui
  <2> HIDE DEF v
  <2>5. Page(v, epoch, revision)
    <3>1. revision <= revision
      BY <1>1, RevisionFacts
    <3>2. Shown(v, epoch, revision)
      BY <1>1, <2>2, <2>3, <2>4, <3>1 DEF Page, Shown
    <3>3. epoch = 0 => v.rev <= v.answer.revision
      BY <1>1, <2>2, <2>4 DEF Page, Shown
    <3>4. QED
      BY <1>1, <2>4, <3>2, <3>3 DEF Page
  <2>6. QED
    BY <1>1, <2>1, <2>4, <2>5, Counted, PageMoves
<1>3. CASE FetchAnswered
  <2>1. PICK v : v = Accepted(ui)
    OBVIOUS
  <2>2. Follow(v, conn) /\ Undisturbed /\ ui.fetch = "answered"
    BY <1>3, <2>1 DEF FetchAnswered
  <2>3. /\ Page(v, epoch, revision)
        /\ v.stream = "open" => ui.stream = "open" /\ v.cursor = ui.cursor /\ v.rev >= ui.rev
    BY <1>1, <2>1, <2>2, AcceptedKeeps
  <2>4. QED
    BY <2>2, <2>3, Counted, PageMoves
<1>4. CASE FetchRefused \/ FetchFails
  <2>1. PICK v : v = Failed(ui)
    OBVIOUS
  <2>2. Follow(v, conn) /\ (Undisturbed \/ \E kind : Disturb(kind))
    BY <1>4, <2>1 DEF FetchRefused, FetchFails
  <2>3. /\ Page(v, epoch, revision) /\ v.rev = ui.rev /\ v.stream = ui.stream
        /\ v.cursor = ui.cursor
    BY <1>1, <2>1, FailedKeeps
  <2>4. QED
    BY <1>1, <2>2, <2>3, Counted, PageMoves
<1>5. CASE StreamRefused \/ StreamEnds
  <2>1. PICK v : v = HandleError(ui)
    OBVIOUS
  <2>2. Follow(v, conn) /\ Undisturbed /\ ui.stream # "none"
    BY <1>5, <2>1 DEF StreamRefused, StreamEnds
  <2>3. Page(v, epoch, revision) /\ v.stream = "connecting"
    BY <1>1, <2>1, <2>2, HandleErrorKeeps
  <2>4. QED
    BY <2>2, <2>3, Counted, PageMoves
<1>6. CASE HeartbeatTimeout
  <2> DEFINE s == IF ui.status = "error" THEN ui.status ELSE "stale"
             l == ui.stale \/ ui.status # "error"
             v == [ui EXCEPT !.timer = FALSE, !.status = s, !.stale = l]
  <2>1. Follow(v, conn) /\ Disturb("silence")
    BY <1>6 DEF HeartbeatTimeout
  <2>2. s \in Statuses /\ l \in BOOLEAN /\ (~l => ~ui.stale)
    BY <1>1 DEF Ui, Statuses
  <2> HIDE DEF s, l
  <2>3. v \in Ui
    BY <1>1, <2>2 DEF Ui
  <2>4. SamePage(ui, v)
    BY <1>1, <2>2 DEF Ui, SamePage
  <2> HIDE DEF v
  <2>5. Page(v, epoch, revision)
    BY <1>1, <2>3, <2>4, SamePageKeeps
  <2>6. QED
    BY <1>1, <2>1, <2>4, <2>5, Counted, PageMoves DEF SamePage
<1>7. CASE Refresh \/ Retry
  <2>1. PICK v : (v = Refreshed(ui) \/ v = Retried(ui)) /\ Follow(v, conn)
    BY <1>7 DEF Refresh, Retry
  <2>2. Disturb("user")
    BY <1>7 DEF Refresh, Retry
  <2>3. /\ Page(v, epoch, revision) /\ v.rev = ui.rev
        /\ v.stream # "none" => v.stream = ui.stream /\ v.cursor = ui.cursor
    BY <1>1, <2>1, ButtonsKeep
  <2>4. QED
    BY <1>1, <2>1, <2>2, <2>3, Counted, PageMoves
<1>8. QED
  BY <1>2, <1>3, <1>4, <1>5, <1>6, <1>7

\* The EventSource connects: the hub opens a connection after the page's cursor.
LEMMA StreamOpensKeeps ==
  ASSUME IInv, StreamOpens
  PROVE  IInv'
<1>1. /\ Page(ui, epoch, revision) /\ ui \in Ui /\ epoch \in Nat /\ revision \in Revisions
      /\ ui.cursor \in Revisions /\ ui.cursor \in Int /\ ui.rev \in Int /\ revision \in Int
  BY StateFacts, UiFields DEF IInv
<1> DEFINE v == [ui EXCEPT !.stream = "open"]
<1>2. /\ up /\ ui.stream = "connecting" /\ Follow(v, Opened(ui.cursor)) /\ Undisturbed
  BY DEF StreamOpens
<1>3. v \in Ui
  BY <1>1 DEF Ui
<1>4. /\ v.rev = ui.rev /\ v.snap = ui.snap /\ v.stale = ui.stale /\ v.required = ui.required
      /\ v.reconnect = ui.reconnect /\ v.cursor = ui.cursor
      /\ v.answer = ui.answer /\ v.fetch = ui.fetch /\ v.stream = "open"
  BY <1>1 DEF Ui
<1> HIDE DEF v
<1>5. Page(v, epoch, revision)
  <2>1. Shown(v, epoch, revision)
    BY <1>1, <1>3, <1>4 DEF Page, Shown
  <2>2. QED
    BY <1>1, <1>2, <1>4, <2>1 DEF Page
<1>6. /\ ui' = v /\ epoch' = epoch /\ revision' = revision /\ told' = told /\ up' = up
      /\ conn' = Opened(ui.cursor)
      /\ UNCHANGED <<up, outbox, pass, told>>
  BY <1>2, <1>4 DEF Follow, outbox
<1>7. PICK c : c = Opened(ui.cursor)
  OBVIOUS
<1>8. /\ c \in Connection /\ ~Ended(c) /\ Replaying(c)
      /\ c.queue = <<>> /\ c.phase = "reading"
      /\ \A i \in DOMAIN c.wire : c.wire[i].kind = "open"
      /\ Events(Pending(c)) = {} /\ Resyncs(Pending(c)) = {} /\ InTurn(Pending(c))
      /\ c.current = ui.cursor /\ c.known = ui.cursor
      /\ c.requested = ui.cursor /\ c.buffer = {}
  BY <1>1, <1>7, EmptyConnections
<1>9. ui.cursor <= ui.rev /\ (epoch = 0 => ui.rev <= revision)
  BY <1>1, <1>2 DEF Page, Shown
<1>10. Streaming(c, v, epoch, revision)
  <2>1. Len(<<>>) = 0
    OBVIOUS
  <2>2. Len(c.queue) <= MaxQueuedFrames
    BY <1>8, <2>1, RevisionFacts
  <2>3. /\ v.cursor <= c.current /\ c.current <= c.known /\ v.rev >= c.current
        /\ epoch = 0 => c.known <= revision
    BY <1>1, <1>4, <1>8, <1>9
  <2>4. QED
    BY <1>8, <2>2, <2>3 DEF Streaming
<1>11. Awaiting(c, epoch, revision) /\ Heard(c, told)
  BY <1>8 DEF Awaiting, Heard
<1>12. ServerTypeOK' /\ disturbed' \in 0 .. MaxDisturbances /\ ServerOrder'
  <2>1. Streaming(conn', ui', epoch', revision')
    BY <1>6, <1>7, <1>10
  <2>2. QED
    BY <1>2, <1>6, <2>1, Counted, ServerStays
<1>13. /\ Streaming(conn', ui', epoch', revision') /\ Awaiting(conn', epoch', revision')
       /\ Heard(conn', told') /\ Page(ui', epoch', revision') /\ ui'.stream = "open"
  BY <1>4, <1>5, <1>6, <1>7, <1>10, <1>11
<1>14. QED
  BY <1>12, <1>13 DEF IInv

\* A frame arrives: what is behind it continues what the page has then.
LEMMA DeliverKeeps ==
  ASSUME IInv, Deliver
  PROVE  IInv' /\ ui'.rev >= ui.rev /\ ui'.snap = ui.snap
<1>1. /\ Page(ui, epoch, revision) /\ ui \in Ui /\ epoch \in Nat /\ revision \in Revisions
      /\ ui.cursor \in Revisions /\ ui.cursor \in Int /\ ui.rev \in Int /\ revision \in Int
      /\ Streaming(conn, ui, epoch, revision) /\ Awaiting(conn, epoch, revision)
      /\ Heard(conn, told)
  BY StateFacts, UiFields DEF IInv
<1>2. PICK f : f = Head(conn.wire)
  OBVIOUS
<1>3. PICK v : v = Handle(ui, f)
  OBVIOUS
<1> DEFINE w == Tail(conn.wire)
           c == [conn EXCEPT !.wire = w]
<1>4. /\ ui.stream = "open" /\ conn.wire # <<>> /\ Follow(v, c) /\ Undisturbed
  BY <1>2, <1>3 DEF Deliver
<1>5. /\ conn \in Connection /\ conn.wire \in Seq(FrameRecords)
      /\ conn.queue \in Seq(FrameRecords) /\ Pending(conn) \in Seq(FrameRecords)
      /\ conn.current \in Int
  BY <1>1, ConnectionFields, RevisionFacts DEF Streaming
<1>6. /\ w \in Seq(FrameRecords)
      /\ Pending(conn) # <<>> /\ f = Head(Pending(conn))
      /\ Tail(Pending(conn)) = w \o conn.queue
  <2>1. PICK s \in Seq(FrameRecords) : s = conn.wire
    BY <1>5
  <2>2. PICK q \in Seq(FrameRecords) : q = conn.queue
    BY <1>5
  <2>3. s # <<>>
    BY <1>4, <2>1
  <2>4. s \o q # <<>> /\ Head(s \o q) = Head(s) /\ Tail(s \o q) = Tail(s) \o q
    BY <2>3, FirstUnderWay
  <2>5. Tail(s) \in Seq(FrameRecords)
    BY <2>3
  <2>6. Pending(conn) = s \o q /\ f = Head(s) /\ w = Tail(s)
    BY <1>2, <2>1, <2>2 DEF Pending
  <2>7. QED
    BY <2>2, <2>4, <2>5, <2>6
<1> DEFINE rest == Tail(Pending(conn))
<1>7. /\ f \in FrameRecords
      /\ Events(Pending(conn)) = Events(rest) \cup (IF f.kind = "event" THEN {f.revision} ELSE {})
      /\ Resyncs(Pending(conn)) =
            Resyncs(rest) \cup (IF f.kind = "resync" THEN {f.revision} ELSE {})
      /\ InTurn(rest)
      /\ f.kind = "event" => \A r \in Events(rest) : r > f.revision
  BY <1>1, <1>5, <1>6, FramesBehind DEF Streaming
<1>8. \A i \in DOMAIN w : w[i] = conn.wire[i + 1] /\ i + 1 \in DOMAIN conn.wire
  BY <1>4, <1>5
<1> HIDE DEF w, rest
<1>9. /\ c \in Connection /\ c.wire = w /\ c.queue = conn.queue /\ c.phase = conn.phase
      /\ c.current = conn.current /\ c.known = conn.known /\ c.requested = conn.requested
      /\ c.at = conn.at /\ c.buffer = conn.buffer
  BY <1>5, <1>6 DEF Connection, FrameRecords
<1> HIDE DEF c
<1>10. /\ Pending(c) = rest
       /\ Ended(c) <=> Ended(conn)
       /\ Replaying(c) <=> Replaying(conn)
  BY <1>6, <1>9 DEF Pending, rest, Ended, Replaying
<1>11. /\ f.kind = "event" => f.revision > ui.cursor /\ (epoch = 0 => f.revision <= revision)
       /\ f.kind = "resync" => (epoch = 0 => f.revision >= ui.cursor)
  BY <1>1, <1>7 DEF Streaming
<1>12. /\ Page(v, epoch, revision) /\ v.rev >= ui.rev /\ v.snap = ui.snap
       /\ v.stream # "none" =>
             /\ v.stream = "open" /\ f.kind # "resync"
             /\ v.cursor = IF f.kind = "event" THEN f.revision ELSE ui.cursor
             /\ f.kind = "event" => v.rev >= f.revision
  BY <1>1, <1>3, <1>4, <1>7, <1>11, HandleKeeps
<1>13. /\ ui' = v /\ epoch' = epoch /\ revision' = revision /\ told' = told /\ up' = up
       /\ conn' = IF v.stream = "open" THEN c ELSE NoConn
       /\ UNCHANGED <<up, outbox, pass, told>>
  BY <1>4 DEF Follow, outbox
<1>14. v.rev \in Int /\ f.revision \in Int
  BY <1>7, <1>12, UiFields, RevisionFacts DEF Page, Shown, FrameRecords
<1>15. v.stream = "open" => Streaming(c, v, epoch, revision)
  <2> SUFFICES ASSUME v.stream = "open"
               PROVE  Streaming(c, v, epoch, revision)
    OBVIOUS
  <2>1. /\ f.kind # "resync"
        /\ v.cursor = IF f.kind = "event" THEN f.revision ELSE ui.cursor
        /\ f.kind = "event" => v.rev >= f.revision
    BY <1>12
  <2>2. Events(rest) \subseteq Events(Pending(conn)) /\ Resyncs(rest) = Resyncs(Pending(conn))
    BY <1>7, <2>1
  <2>3. f.kind = "event" => f.revision \in Events(Pending(conn))
    BY <1>7
  <2>4. \A r \in Events(rest) : r > v.cursor /\ (epoch = 0 => r <= revision)
    BY <1>1, <1>7, <2>1, <2>2 DEF Streaming
  <2>5. \A r \in Resyncs(rest) :
           epoch = 0 => r >= v.cursor /\ \A x \in Events(rest) : x <= r
    <3>1. \A r \in Resyncs(Pending(conn)) :
             epoch = 0 => r >= ui.cursor /\ \A x \in Events(Pending(conn)) : x <= r
      BY <1>1 DEF Streaming
    <3>2. ASSUME NEW r \in Resyncs(rest), epoch = 0 PROVE r >= v.cursor
      <4>1. r >= ui.cursor /\ \A x \in Events(Pending(conn)) : x <= r
        BY <2>2, <3>1, <3>2
      <4>2. r \in Int
        BY <1>5, <2>2, ConnectionFields, RevisionFacts
      <4>3. f.kind = "event" => f.revision <= r
        BY <2>3, <4>1
      <4>4. QED
        BY <1>14, <2>1, <4>1, <4>2, <4>3
    <3>3. QED
      BY <2>2, <3>1, <3>2
  <2>6. ~Ended(c) =>
          /\ \A r \in Events(rest) : r <= c.current
          /\ Resyncs(rest) = {}
          /\ v.cursor <= c.current /\ c.current <= c.known
          /\ v.rev >= c.current \/ c.current \in Events(rest)
          /\ epoch = 0 => c.known <= revision
    <3> SUFFICES ASSUME ~Ended(conn)
                 PROVE  /\ \A r \in Events(rest) : r <= conn.current
                        /\ Resyncs(rest) = {}
                        /\ v.cursor <= conn.current /\ conn.current <= conn.known
                        /\ v.rev >= conn.current \/ conn.current \in Events(rest)
                        /\ epoch = 0 => conn.known <= revision
      BY <1>9, <1>10
    <3>1. /\ \A r \in Events(Pending(conn)) : r <= conn.current
          /\ Resyncs(Pending(conn)) = {}
          /\ ui.cursor <= conn.current /\ conn.current <= conn.known
          /\ ui.rev >= conn.current \/ conn.current \in Events(Pending(conn))
          /\ epoch = 0 => conn.known <= revision
      BY <1>1 DEF Streaming
    <3>2. v.cursor <= conn.current
      BY <2>1, <2>3, <3>1
    <3>3. v.rev >= conn.current \/ conn.current \in Events(rest)
      <4>1. CASE ui.rev >= conn.current
        BY <1>1, <1>5, <1>12, <1>14, <4>1
      <4>2. CASE conn.current \in Events(Pending(conn))
        BY <1>7, <2>1, <4>2
      <4>3. QED
        BY <3>1, <4>1, <4>2
    <3>4. QED
      BY <2>2, <3>1, <3>2, <3>3
  <2>7. c.queue = conn.queue /\ Len(c.queue) <= MaxQueuedFrames /\ (Ended(c) => c.queue = <<>>)
    BY <1>1, <1>9, <1>10 DEF Streaming
  <2>8. QED
    BY <1>7, <1>9, <1>10, <2>4, <2>5, <2>6, <2>7 DEF Streaming
<1>16. Awaiting(c, epoch, revision) /\ Heard(c, told)
  <2>1. Replaying(conn) => \A i \in DOMAIN w : w[i].kind = "open"
    BY <1>1, <1>8 DEF Awaiting
  <2>2. Awaiting(c, epoch, revision)
    BY <1>1, <1>9, <1>10, <2>1 DEF Awaiting
  <2>3. Heard(c, told)
    BY <1>1, <1>9 DEF Heard
  <2>4. QED
    BY <2>2, <2>3
<1>17. /\ Streaming(conn', ui', epoch', revision') /\ Awaiting(conn', epoch', revision')
       /\ Heard(conn', told') /\ Page(ui', epoch', revision')
       /\ ui'.stream # "open" => conn' = NoConn
  <2>1. CASE v.stream = "open"
    BY <1>12, <1>13, <1>15, <1>16, <2>1
  <2>2. CASE v.stream # "open"
    BY <1>12, <1>13, <2>2, NoConnKeeps
  <2>3. QED
    BY <2>1, <2>2
<1>18. up
  <2>1. ~up => conn = NoConn
    BY DEF IInv, ServerOrder
  <2>2. NoConn.wire = <<>>
    BY EmptyConnections, RevisionFacts
  <2>3. QED
    BY <1>4, <2>1, <2>2
<1>19. ServerTypeOK' /\ disturbed' \in 0 .. MaxDisturbances /\ ServerOrder'
  BY <1>4, <1>13, <1>17, <1>18, Counted, ServerStays
<1>20. IInv'
  BY <1>17, <1>19 DEF IInv
<1>21. QED
  BY <1>12, <1>13, <1>20

\* The invariant after a step of the controller that leaves the page alone.
LEMMA ControllerMoves ==
  ASSUME IInv, ui' = ui, epoch' = epoch, up' = up, revision' \in Revisions,
         revision' >= revision,
         mirrored' \in 0 .. revision', pruned' \in 0 .. mirrored',
         pass' \in [pc : {"idle", "mirror", "prune"}, from : Revisions, to : Revisions],
         pass'.from <= pass'.to, pass'.to <= revision',
         pruned' <= Larger(0, revision' - Retained),
         Streaming(conn', ui, epoch, revision), Awaiting(conn', epoch, revision),
         told' \in Revisions, told' <= revision', Heard(conn', told'),
         up \/ (pass' = NoPass /\ told' = 0), conn = NoConn => conn' = NoConn,
         disturbed' \in 0 .. MaxDisturbances, disturbed' >= disturbed
  PROVE  IInv'
<1>1. conn' \in Connection /\ Len(conn'.queue) <= MaxQueuedFrames
  BY DEF Streaming
<1>2. up \in BOOLEAN /\ epoch \in Nat
  BY StateFacts
<1>3. ServerTypeOK'
  BY <1>1, <1>2 DEF ServerTypeOK
<1>4. ServerOrder'
  <2>1. epoch' <= disturbed'
    <3>1. epoch \in Int /\ disturbed \in Int /\ disturbed' \in Int /\ epoch <= disturbed
      BY StateFacts
    <3>2. QED
      BY <3>1
  <2>2. ~up' => conn' = NoConn
    BY DEF IInv, ServerOrder
  <2>3. ~up' => pass' = NoPass /\ told' = 0
    OBVIOUS
  <2>4. QED
    BY <2>1, <2>2, <2>3 DEF ServerOrder
<1>5. Streaming(conn', ui', epoch', revision') /\ Awaiting(conn', epoch', revision')
  <2>1. ui \in Ui /\ ui.rev >= ui.rev /\ revision \in Revisions /\ epoch \in Nat
    BY StateFacts, UiFields
  <2>2. Streaming(conn', ui, epoch, revision') /\ Awaiting(conn', epoch, revision')
    BY <2>1, MoreKeeps
  <2>3. QED
    BY <2>2
<1>6. Page(ui', epoch', revision')
  <2>1. Page(ui, epoch, revision')
    BY StateFacts, PageKeeps DEF IInv
  <2>2. QED
    BY <2>1
<1>7. ui'.stream # "open" => conn' = NoConn
  BY DEF IInv
<1>8. QED
  BY <1>3, <1>4, <1>5, <1>6, <1>7 DEF IInv

\* The outbox: commits, passes and the rows that events.db refuses.
LEMMA OutboxSteps ==
  ASSUME IInv,
         \/ (Commit \/ BeginPass \/ MirrorRow \/ Prune) /\ UNCHANGED <<ui, disturbed>>
         \/ RowFails
  PROVE  IInv'
<1>1. /\ up \in BOOLEAN /\ epoch \in Nat /\ revision \in Revisions /\ revision \in Int
      /\ mirrored \in Int /\ 0 <= mirrored /\ mirrored <= revision
      /\ pruned \in Int /\ 0 <= pruned /\ pruned <= mirrored
      /\ pass.from \in Int /\ pass.to \in Int
      /\ pass.from <= pass.to /\ pass.to <= revision
      /\ told \in Int /\ told <= revision /\ told \in Revisions
      /\ MaxRevision \in Nat /\ Revisions = 0 .. MaxRevision
      /\ Retained \in Nat
  BY StateFacts, RevisionFacts
<1>2. /\ Streaming(conn, ui, epoch, revision) /\ Awaiting(conn, epoch, revision)
      /\ Heard(conn, told) /\ pruned <= Larger(0, revision - Retained)
      /\ ~up => pass = NoPass /\ told = 0
      /\ pass \in [pc : {"idle", "mirror", "prune"}, from : Revisions, to : Revisions]
  BY DEF IInv, ServerOrder, ServerTypeOK
<1>3. disturbed' \in 0 .. MaxDisturbances /\ disturbed' >= disturbed /\ ui' = ui
  BY Counted DEF RowFails, Undisturbed
<1>4. /\ NoPass \in [pc : {"idle", "mirror", "prune"}, from : Revisions, to : Revisions]
      /\ NoPass.from = 0 /\ NoPass.to = 0 /\ NoPass.pc = "idle"
  BY RevisionFacts DEF NoPass
<1>5. CASE Commit
  <2>1. /\ up /\ revision < MaxRevision /\ revision' = revision + 1
        /\ UNCHANGED <<up, epoch, mirrored, pruned, pass, conn, told>>
    BY <1>5 DEF Commit
  <2>2. /\ revision' \in Revisions /\ revision' >= revision /\ mirrored' \in 0 .. revision'
        /\ pruned' \in 0 .. mirrored' /\ pass'.to <= revision' /\ told' <= revision'
    BY <1>1, <2>1
  <2>3. pruned' <= Larger(0, revision' - Retained)
    BY <1>1, <1>2, <2>1 DEF Larger
  <2>4. QED
    BY <1>1, <1>2, <1>3, <2>1, <2>2, <2>3, ControllerMoves
<1>6. CASE BeginPass
  <2>1. /\ up /\ pass' = [pc |-> "mirror", from |-> mirrored, to |-> revision]
        /\ UNCHANGED <<up, epoch, revision, mirrored, pruned, conn, told>>
    BY <1>6 DEF BeginPass, outbox
  <2>2. /\ pass' \in [pc : {"idle", "mirror", "prune"}, from : Revisions, to : Revisions]
        /\ pass'.from <= pass'.to /\ pass'.to <= revision'
    BY <1>1, <2>1
  <2>3. mirrored' \in 0 .. revision' /\ pruned' \in 0 .. mirrored' /\ revision' >= revision
    BY <1>1, <2>1
  <2>4. QED
    BY <1>1, <1>2, <1>3, <2>1, <2>2, <2>3, ControllerMoves
<1>7. CASE MirrorRow
  <2>1. /\ mirrored < pass.to /\ mirrored' = mirrored + 1
        /\ UNCHANGED <<up, epoch, revision, pruned, pass, conn, told>>
    BY <1>7 DEF MirrorRow
  <2>2. mirrored' \in 0 .. revision' /\ pruned' \in 0 .. mirrored' /\ revision' >= revision
    BY <1>1, <2>1
  <2>3. QED
    BY <1>1, <1>2, <1>3, <2>1, <2>2, ControllerMoves
<1>8. CASE Prune
  <2>1. /\ pruned' = Larger(pruned, Prunable) /\ pass' = NoPass
        /\ UNCHANGED <<up, epoch, revision, mirrored, conn, told>>
    BY <1>8 DEF Prune
  <2>2. Prunable \in Int /\ Prunable <= mirrored /\ Prunable <= revision - Retained
    BY <1>1, LargerAndSmaller DEF Prunable, Smaller
  <2>3. pruned' \in 0 .. mirrored' /\ pruned' <= Larger(0, revision' - Retained)
    BY <1>1, <1>2, <2>1, <2>2 DEF Larger
  <2>4. mirrored' \in 0 .. revision' /\ revision' >= revision
    BY <1>1, <2>1
  <2>5. pass'.from <= pass'.to /\ pass'.to <= revision'
    BY <1>1, <1>4, <2>1
  <2>6. QED
    BY <1>1, <1>2, <1>3, <1>4, <2>1, <2>3, <2>4, <2>5, ControllerMoves
<1>9. CASE RowFails
  <2>1. /\ pass' = NoPass
        /\ UNCHANGED <<up, epoch, revision, mirrored, pruned, conn, told>>
    BY <1>9 DEF RowFails, MirrorFails, outbox
  <2>2. mirrored' \in 0 .. revision' /\ pruned' \in 0 .. mirrored' /\ revision' >= revision
    BY <1>1, <2>1
  <2>3. pass'.from <= pass'.to /\ pass'.to <= revision'
    BY <1>1, <1>4, <2>1
  <2>4. QED
    BY <1>1, <1>2, <1>3, <1>4, <2>1, <2>2, <2>3, ControllerMoves
<1>10. QED
  BY <1>5, <1>6, <1>7, <1>8, <1>9

\* The hub.
LEMMA HubSteps ==
  ASSUME IInv, Broadcast \/ ReadReplay \/ OpenReplay \/ Drain \/ Heartbeat,
         UNCHANGED <<ui, disturbed>>
  PROVE  IInv'
<1>1. /\ up \in BOOLEAN /\ epoch \in Nat /\ revision \in Revisions /\ revision \in Int
      /\ mirrored \in Int /\ 0 <= mirrored /\ mirrored <= revision
      /\ pruned \in Int /\ 0 <= pruned /\ pruned <= mirrored
      /\ pass.from \in Revisions /\ pass.to \in Revisions
      /\ pass.from \in Int /\ pass.to \in Int
      /\ pass.from <= pass.to /\ pass.to <= revision
      /\ told \in Int /\ told <= revision /\ told \in Revisions
      /\ MaxRevision \in Nat /\ Revisions = 0 .. MaxRevision
      /\ Retained \in Nat \ {0}
      /\ ui \in Ui /\ ui.cursor \in Revisions /\ ui.rev \in Revisions
  BY StateFacts, RevisionFacts
<1>2. /\ Streaming(conn, ui, epoch, revision) /\ Awaiting(conn, epoch, revision)
      /\ Heard(conn, told) /\ pruned <= Larger(0, revision - Retained)
      /\ ~up => pass = NoPass /\ told = 0 /\ conn = NoConn
      /\ pass \in [pc : {"idle", "mirror", "prune"}, from : Revisions, to : Revisions]
      /\ conn \in Connection
  BY DEF IInv, ServerOrder, ServerTypeOK
<1>3. disturbed' \in 0 .. MaxDisturbances /\ disturbed' >= disturbed /\ ui' = ui
  BY Counted DEF Undisturbed
<1>4. mirrored \in 0 .. revision /\ pruned \in 0 .. mirrored /\ revision >= revision
  BY <1>1
<1>5. NoConn.phase = "none"
  BY EmptyConnections, RevisionFacts
<1>6. CASE Broadcast
  <2>1. /\ pass.pc = "mirror"
        /\ conn' = InOrder(AcceptCommitted, conn, pass.from + 1 .. pass.to)
        /\ told' = IF pass.from < pass.to THEN pass.to ELSE told
        /\ pass' = [NoPass EXCEPT !.pc = "prune"]
        /\ UNCHANGED <<up, epoch, revision, mirrored, pruned>>
    BY <1>6 DEF Broadcast, outbox
  <2>2. PICK d : d = InOrder(AcceptCommitted, conn, pass.from + 1 .. pass.to)
    OBVIOUS
  <2>3. /\ Streaming(d, ui, epoch, revision) /\ Awaiting(d, epoch, revision)
        /\ Heard(d, IF pass.from < pass.to THEN pass.to ELSE told)
        /\ Ended(conn) => d = conn
    BY <1>1, <1>2, <2>2, BroadcastLoop
  <2>4. conn = NoConn => d = NoConn
    BY <1>5, <2>3 DEF Ended
  <2>5. up
    BY <1>2, <2>1 DEF NoPass
  <2>6. /\ pass' \in [pc : {"idle", "mirror", "prune"}, from : Revisions, to : Revisions]
        /\ pass'.from = 0 /\ pass'.to = 0
    BY <2>1, RevisionFacts DEF NoPass
  <2>7. told' \in Revisions /\ told' <= revision
    BY <1>1, <2>1
  <2>8. /\ conn' = d /\ up' = up /\ epoch' = epoch /\ revision' = revision
        /\ mirrored' = mirrored /\ pruned' = pruned
    BY <2>1, <2>2
  <2>9. Heard(conn', told')
    BY <2>1, <2>3, <2>8
  <2>10. pass'.from <= pass'.to /\ pass'.to <= revision
    BY <1>1, <2>6
  <2> HIDE <2>1, <2>2
  <2>11. QED
    BY <1>1, <1>2, <1>3, <1>4, <2>3, <2>4, <2>5, <2>6, <2>7, <2>8, <2>9, <2>10, ControllerMoves
<1>7. CASE ReadReplay \/ OpenReplay \/ Drain \/ Heartbeat
  <2>1. PICK d : conn' = d /\ UNCHANGED <<up, epoch, revision, mirrored, pruned, pass, told>>
    BY <1>7 DEF ReadReplay, OpenReplay, Drain, Heartbeat, outbox
  <2>2. conn.phase # "none"
    BY <1>7 DEF ReadReplay, OpenReplay, Drain, Heartbeat
  <2>3. /\ Streaming(d, ui, epoch, revision) /\ Awaiting(d, epoch, revision)
        /\ Heard(d, told)
    <3>1. CASE ReadReplay
      <4> DEFINE first == IF revision = 0 THEN 0 ELSE pruned + 1
      <4>1. first \in Revisions
        BY <1>1, <1>2 DEF Larger
      <4>2. /\ conn.phase = "reading"
            /\ d = [conn EXCEPT !.phase = "read", !.at = revision, !.first = first]
        BY <2>1, <3>1 DEF ReadReplay
      <4> HIDE DEF first
      <4>3. /\ d \in Connection /\ d.phase = "read" /\ d.at = revision
            /\ d.current = conn.current /\ d.known = conn.known
            /\ d.requested = conn.requested /\ d.buffer = conn.buffer
            /\ d.queue = conn.queue /\ d.wire = conn.wire
        BY <1>1, <1>2, <4>1, <4>2 DEF Connection
      <4>4. ~Ended(d) /\ ~Ended(conn) /\ Replaying(conn) /\ Pending(d) = Pending(conn)
        BY <4>2, <4>3 DEF Ended, Replaying, Pending
      <4>5. Streaming(d, ui, epoch, revision)
        BY <1>2, <4>3, <4>4 DEF Streaming
      <4>6. epoch = 0 => d.requested <= d.at /\ d.at <= revision
        <5>1. /\ conn.current = conn.requested /\ conn.current <= conn.known
              /\ epoch = 0 => conn.known <= revision
          BY <1>2, <4>4 DEF Awaiting, Streaming
        <5>2. conn.current \in Int /\ conn.known \in Int
          BY <1>2, ConnectionFields, RevisionFacts
        <5>3. QED
          BY <1>1, <4>3, <5>1, <5>2
      <4>7. Awaiting(d, epoch, revision)
        BY <1>2, <4>3, <4>4, <4>6 DEF Awaiting
      <4>8. Heard(d, told)
        BY <1>1, <4>3 DEF Heard
      <4>9. QED
        BY <4>5, <4>7, <4>8
    <3>2. CASE OpenReplay
      <4>1. conn.phase = "read" /\ d = FinishReplay(conn)
        BY <2>1, <3>2 DEF OpenReplay
      <4>2. QED
        BY <1>1, <1>2, <4>1, FinishReplayKeeps
    <3>3. CASE Drain
      <4>1. conn.phase = "live" /\ conn.wire = <<>> /\ d = Drained(conn)
        BY <2>1, <3>3 DEF Drain
      <4>2. Streaming(d, ui, epoch, revision) /\ d.phase = "live" /\ d.current = conn.current
        BY <1>1, <1>2, <4>1, DrainStreams
      <4>3. QED
        BY <1>2, <4>1, <4>2 DEF Awaiting, Heard, Replaying
    <3>4. CASE Heartbeat
      <4> DEFINE f == Frame("heartbeat", conn.known)
      <4>1. conn.phase = "live" /\ d = Enqueue(conn, f)
        BY <2>1, <3>4 DEF Heartbeat
      <4>2. f \in FrameRecords /\ f.kind # "event" /\ f.kind # "resync"
        <5>1. conn.known \in Revisions
          BY <1>2, ConnectionFields
        <5>2. QED
          BY <5>1, FrameFacts DEF FrameKinds
      <4> HIDE DEF f
      <4>3. /\ Streaming(d, ui, epoch, revision)
            /\ ~Ended(d) => d.phase = conn.phase /\ d.current = conn.current
            /\ d.phase \in {conn.phase, "ended"}
        BY <1>1, <1>2, <4>1, <4>2, OtherFrameStreams
      <4>4. d.phase \in {"live", "ended"} /\ (d.phase = "live" => d.current = conn.current)
        BY <4>1, <4>3 DEF Ended
      <4>5. QED
        BY <1>2, <4>1, <4>3, <4>4 DEF Awaiting, Heard, Replaying
    <3>5. QED
      BY <1>7, <3>1, <3>2, <3>3, <3>4
  <2>4. conn # NoConn
    BY <1>5, <2>2
  <2>5. up
    BY <1>2, <2>4
  <2>6. QED
    BY <1>1, <1>2, <1>3, <1>4, <2>1, <2>3, <2>4, <2>5, ControllerMoves
<1>8. QED
  BY <1>6, <1>7

\* What goes wrong, and the process that starts again.
LEMMA MishapSteps ==
  ASSUME IInv, Drop \/ Crash \/ Restore \/ Restart
  PROVE  IInv'
<1>1. /\ up \in BOOLEAN /\ epoch \in Nat /\ epoch \in Int /\ revision \in Revisions
      /\ revision \in Int /\ revision >= 0 /\ revision <= MaxRevision
      /\ mirrored \in Int /\ 0 <= mirrored /\ mirrored <= revision
      /\ pruned \in Int /\ 0 <= pruned /\ pruned <= mirrored
      /\ pass.from \in Int /\ pass.to \in Int
      /\ pass.from <= pass.to /\ pass.to <= revision
      /\ told \in Int /\ told <= revision /\ told \in Revisions
      /\ disturbed \in Nat /\ disturbed <= MaxDisturbances /\ MaxDisturbances \in Nat
      /\ epoch <= disturbed
      /\ MaxRevision \in Nat /\ Revisions = 0 .. MaxRevision
      /\ Retained \in Nat \ {0} /\ Retained \in Int
      /\ ui \in Ui
  BY StateFacts, RevisionFacts
<1>2. /\ Streaming(conn, ui, epoch, revision) /\ Awaiting(conn, epoch, revision)
      /\ Heard(conn, told) /\ pruned <= Larger(0, revision - Retained)
      /\ ~up => pass = NoPass /\ told = 0 /\ conn = NoConn
      /\ pass \in [pc : {"idle", "mirror", "prune"}, from : Revisions, to : Revisions]
      /\ Page(ui, epoch, revision)
      /\ ui.stream # "open" => conn = NoConn
  BY DEF IInv, ServerOrder, ServerTypeOK
<1>3. /\ NoPass \in [pc : {"idle", "mirror", "prune"}, from : Revisions, to : Revisions]
      /\ NoPass.from = 0 /\ NoPass.to = 0 /\ NoPass.pc = "idle"
  BY RevisionFacts DEF NoPass
<1>4. mirrored \in 0 .. revision /\ pruned \in 0 .. mirrored /\ revision >= revision
      /\ 0 \in Revisions
  BY <1>1
<1>5. CASE Drop
  <2>1. /\ conn' = NoConn /\ UNCHANGED <<up, epoch, revision, mirrored, pruned, pass, told, ui>>
        /\ Disturb("drop")
    BY <1>5 DEF Drop, outbox
  <2>2. disturbed' \in 0 .. MaxDisturbances /\ disturbed' >= disturbed
    BY <2>1, Counted
  <2>3. /\ Streaming(conn', ui, epoch, revision) /\ Awaiting(conn', epoch, revision)
        /\ Heard(conn', told')
    BY <2>1, NoConnKeeps
  <2>4. up \/ (pass' = NoPass /\ told' = 0)
    BY <1>2, <2>1
  <2>5. QED
    BY <1>1, <1>2, <1>4, <2>1, <2>2, <2>3, <2>4, ControllerMoves
<1>6. CASE Crash
  <2> DEFINE fetch == IF ui.fetch = "idle" THEN ui.fetch ELSE "refused"
             v == [ui EXCEPT !.fetch = fetch, !.answer = NoSnapshot]
  <2>1. /\ up' = FALSE /\ conn' = NoConn /\ pass' = NoPass /\ told' = 0 /\ ui' = v
        /\ UNCHANGED <<epoch, revision, mirrored, pruned>> /\ Disturb("crash")
    BY <1>6 DEF Crash, outbox
  <2>2. disturbed' \in 0 .. MaxDisturbances /\ disturbed' >= disturbed
    BY <2>1, Counted
  <2>3. fetch \in {"idle", "refused"}
    OBVIOUS
  <2> HIDE DEF fetch
  <2>4. v \in Ui
    BY <1>1, <2>3 DEF Ui
  <2>5. /\ v.rev = ui.rev /\ v.snap = ui.snap /\ v.stale = ui.stale /\ v.required = ui.required
        /\ v.reconnect = ui.reconnect /\ v.cursor = ui.cursor /\ v.stream = ui.stream
        /\ v.answer = NoSnapshot /\ v.fetch = fetch
    BY <1>1 DEF Ui
  <2> HIDE DEF v
  <2>6. Page(v, epoch, revision)
    <3>1. Shown(v, epoch, revision)
      BY <1>2, <2>3, <2>4, <2>5 DEF Page, Shown
    <3>2. QED
      BY <1>2, <2>3, <2>5, <3>1 DEF Page
  <2>7. /\ Streaming(conn', ui', epoch', revision') /\ Awaiting(conn', epoch', revision')
        /\ Heard(conn', told') /\ conn' \in Connection /\ Len(conn'.queue) <= MaxQueuedFrames
    BY <2>1, NoConnKeeps
  <2>8. ServerTypeOK'
    BY <1>1, <1>3, <1>4, <2>1, <2>7 DEF ServerTypeOK
  <2>9. ServerOrder'
    <3>1. epoch' <= disturbed'
      BY <1>1, <2>1, <2>2
    <3>2. pass'.from <= pass'.to /\ pass'.to <= revision' /\ told' <= revision'
      BY <1>1, <1>3, <2>1
    <3>3. QED
      BY <1>2, <2>1, <3>1, <3>2 DEF ServerOrder
  <2>10. Page(ui', epoch', revision')
    BY <2>1, <2>6
  <2>11. QED
    BY <2>1, <2>2, <2>7, <2>8, <2>9, <2>10 DEF IInv
<1>7. CASE Restore
  <2>1. PICK r \in 0 .. revision - 1 :
           /\ revision' = r
           /\ mirrored' = Smaller(mirrored, r)
           /\ pruned' = Smaller(pruned, Larger(0, r - Retained))
    BY <1>7 DEF Restore
  <2>2. /\ ~up /\ epoch' = epoch + 1 /\ UNCHANGED <<up, pass, conn, told, ui>>
        /\ disturbed < MaxDisturbances /\ disturbed' = disturbed + 1
    BY <1>7 DEF Restore, Disturb
  <2>3. r \in Int /\ 0 <= r /\ r <= revision - 1
    BY <1>1, <2>1
  <2>4. /\ revision' \in Revisions /\ mirrored' \in 0 .. revision' /\ pruned' \in 0 .. mirrored'
        /\ pruned' <= Larger(0, revision' - Retained)
    <3>1. revision' \in Revisions /\ mirrored' \in 0 .. revision'
      BY <1>1, <2>1, <2>3 DEF Smaller
    <3>2. PICK n : n = Larger(0, r - Retained)
      OBVIOUS
    <3>3. n \in Int /\ 0 <= n /\ n <= r
      BY <1>1, <2>3, <3>2 DEF Larger
    <3>4. pruned' = Smaller(pruned, n) /\ mirrored' = Smaller(mirrored, r)
      BY <2>1, <3>2
    <3>5. pruned' \in 0 .. mirrored' /\ pruned' <= n
      BY <1>1, <2>3, <3>3, <3>4 DEF Smaller
    <3>6. QED
      BY <2>1, <3>1, <3>2, <3>5
  <2>5. conn' = NoConn /\ pass' = NoPass /\ told' = 0 /\ ui' = ui /\ up' = up
    BY <1>2, <2>2
  <2>6. /\ Streaming(conn', ui', epoch', revision') /\ Awaiting(conn', epoch', revision')
        /\ Heard(conn', told') /\ conn' \in Connection /\ Len(conn'.queue) <= MaxQueuedFrames
    BY <2>5, NoConnKeeps
  <2>7. epoch' \in Nat /\ epoch' # 0 /\ epoch' <= disturbed' /\ disturbed' \in 0 .. MaxDisturbances
    BY <1>1, <2>2
  <2>8. ServerTypeOK'
    BY <1>1, <1>3, <1>4, <2>4, <2>5, <2>6, <2>7 DEF ServerTypeOK
  <2>9. ServerOrder'
    <3>1. pass'.from <= pass'.to /\ pass'.to <= revision' /\ told' <= revision'
      BY <1>3, <2>1, <2>3, <2>5
    <3>2. QED
      BY <2>4, <2>5, <2>7, <3>1 DEF ServerOrder
  <2>10. Page(ui', epoch', revision')
    <3>1. Page(ui, epoch', revision')
      BY <1>1, <1>2, <2>7, RestoredPage
    <3>2. QED
      BY <2>5, <3>1
  <2>11. QED
    BY <2>5, <2>6, <2>7, <2>8, <2>9, <2>10 DEF IInv
<1>8. CASE Restart
  <2>1. PICK m \in mirrored .. revision :
           /\ mirrored' = m
           /\ pruned' = IF m = revision THEN Larger(pruned, revision - Retained) ELSE pruned
    BY <1>8 DEF Restart
  <2>2. /\ ~up /\ up' = TRUE /\ UNCHANGED <<epoch, revision, pass, conn, told, ui, disturbed>>
    BY <1>8 DEF Restart
  <2>3. m \in Int /\ mirrored <= m /\ m <= revision
    BY <1>1, <2>1
  <2>4. /\ mirrored' \in 0 .. revision' /\ pruned' \in 0 .. mirrored'
        /\ pruned' <= Larger(0, revision' - Retained)
    BY <1>1, <1>2, <2>1, <2>2, <2>3 DEF Larger
  <2>5. conn' = NoConn /\ pass' = NoPass /\ told' = 0 /\ ui' = ui /\ up' = TRUE
    BY <1>2, <2>2
  <2>6. /\ Streaming(conn', ui', epoch', revision') /\ Awaiting(conn', epoch', revision')
        /\ Heard(conn', told') /\ conn' \in Connection /\ Len(conn'.queue) <= MaxQueuedFrames
    BY <2>5, NoConnKeeps
  <2>7. ServerTypeOK'
    BY <1>1, <1>3, <1>4, <2>2, <2>4, <2>5, <2>6 DEF ServerTypeOK
  <2>8. ServerOrder'
    <3>1. pass'.from <= pass'.to /\ pass'.to <= revision' /\ told' <= revision'
      BY <1>1, <1>3, <2>2, <2>5
    <3>2. epoch' <= disturbed'
      BY <1>1, <2>2
    <3>3. QED
      BY <2>4, <2>5, <3>1, <3>2 DEF ServerOrder
  <2>9. disturbed' \in 0 .. MaxDisturbances
    BY <1>1, <2>2
  <2>10. Page(ui', epoch', revision')
    BY <1>2, <2>2
  <2>11. QED
    BY <2>5, <2>6, <2>7, <2>8, <2>9, <2>10 DEF IInv
<1>9. QED
  BY <1>5, <1>6, <1>7, <1>8

\* The page as it starts has asked for a snapshot.
LEMMA UiStarts ==
  /\ Page(UiInit, 0, 0) /\ UiInit.stream = "none"
<1> DEFINE u == [status |-> "loading", snap |-> NoSnapshot, rev |-> 0, stale |-> TRUE,
                 ready |-> FALSE, fetch |-> "idle", answer |-> NoSnapshot, required |-> 0,
                 reconnect |-> TRUE, stream |-> "none", cursor |-> 0, timer |-> FALSE]
<1>1. UiInit = Request(u)
  BY DEF UiInit
<1>2. u \in Ui
  BY RevisionFacts DEF Ui, Statuses
<1>3. NoSnapshot.revision = -1
  BY DEF NoSnapshot
<1>4. /\ u.rev = 0 /\ u.snap = NoSnapshot /\ u.stale = TRUE /\ u.fetch = "idle"
      /\ u.answer = NoSnapshot /\ u.stream = "none"
  OBVIOUS
<1> HIDE DEF u
<1>5. Shown(u, 0, 0)
  BY <1>2, <1>3, <1>4 DEF Shown
<1>6. Page(u, 0, 0)
  BY <1>4, <1>5 DEF Page
<1>7. PICK v : v = Request(u)
  OBVIOUS
<1>8. v \in Ui /\ SamePage(u, v)
  BY <1>2, <1>4, <1>7, RequestKeeps
<1>9. Page(v, 0, 0) /\ v.stream = "none"
  BY <1>4, <1>6, <1>8, SamePageKeeps DEF SamePage
<1>10. QED
  BY <1>1, <1>7, <1>9

-----------------------------------------------------------------------------
(* The theorems.                                                           *)

\* The invariant holds at the start.
LEMMA IInvInitially == Init => IInv
<1> SUFFICES ASSUME Init PROVE IInv
  OBVIOUS
<1>1. /\ up = TRUE /\ epoch = 0 /\ revision = 0 /\ mirrored = 0 /\ pruned = 0
      /\ pass = NoPass /\ conn = NoConn /\ told = 0 /\ ui = UiInit /\ disturbed = 0
  BY DEF Init, ServerInit
<1>2. /\ MaxDisturbances \in Nat /\ Retained \in Nat /\ 0 \in Revisions
  BY CoordinatorConstants, RevisionFacts
<1>3. /\ NoPass \in [pc : {"idle", "mirror", "prune"}, from : Revisions, to : Revisions]
      /\ NoPass.from = 0 /\ NoPass.to = 0
  BY <1>2 DEF NoPass
<1>4. /\ Streaming(conn, ui, epoch, revision) /\ Awaiting(conn, epoch, revision)
      /\ Heard(conn, told) /\ conn \in Connection /\ Len(conn.queue) <= MaxQueuedFrames
  BY <1>1, NoConnKeeps
<1>5. ServerTypeOK
  BY <1>1, <1>2, <1>3, <1>4 DEF ServerTypeOK
<1>6. ServerOrder
  BY <1>1, <1>2, <1>3, LargerAndSmaller DEF ServerOrder
<1>7. Page(ui, epoch, revision) /\ disturbed \in 0 .. MaxDisturbances
  BY <1>1, <1>2, UiStarts
<1>8. QED
  BY <1>1, <1>4, <1>5, <1>6, <1>7 DEF IInv

\* Every step keeps the invariant.
LEMMA IInvKept == IInv /\ [Next]_vars => IInv'
<1> SUFFICES ASSUME IInv, [Next]_vars PROVE IInv'
  OBVIOUS
<1>1. CASE Server
  <2>1. UNCHANGED <<ui, disturbed>>
    BY <1>1 DEF Server
  <2>2. CASE Commit \/ BeginPass \/ MirrorRow \/ Prune
    BY <2>1, <2>2, OutboxSteps
  <2>3. CASE Broadcast \/ ReadReplay \/ OpenReplay \/ Drain \/ Heartbeat
    BY <2>1, <2>3, HubSteps
  <2>4. QED
    BY <1>1, <2>2, <2>3 DEF Server, ServerNext
<1>2. CASE FetchRead \/ FetchAnswered \/ FetchRefused \/ FetchFails
           \/ StreamRefused \/ StreamEnds \/ HeartbeatTimeout \/ Refresh \/ Retry
  BY <1>2, PageSteps
<1>3. CASE StreamOpens
  BY <1>3, StreamOpensKeeps
<1>4. CASE Deliver
  BY <1>4, DeliverKeeps
<1>5. CASE RowFails
  BY <1>5, OutboxSteps
<1>6. CASE Drop \/ Crash \/ Restore \/ Restart
  BY <1>6, MishapSteps
<1>7. CASE UNCHANGED vars
  <2>1. /\ up' = up /\ epoch' = epoch /\ revision' = revision /\ mirrored' = mirrored
        /\ pruned' = pruned /\ pass' = pass /\ conn' = conn /\ told' = told
        /\ ui' = ui /\ disturbed' = disturbed
    BY <1>7 DEF vars, serverVars, outbox
  <2>2. ServerTypeOK' /\ ServerOrder'
    BY <2>1 DEF IInv, ServerTypeOK, ServerOrder
  <2>3. QED
    BY <2>1, <2>2 DEF IInv
<1>8. QED
  BY <1>1, <1>2, <1>3, <1>4, <1>5, <1>6, <1>7 DEF Next

\* The inductive invariant of the event stream and its page.
THEOREM CoordinatorInvariant == Spec => []IInv
<1>1. QED
  BY IInvInitially, IInvKept, PTL DEF Spec

\* The page, the connection, the pass and the outbox have their types, queues of at
\* most MaxQueuedFrames frames included.
THEOREM CoordinatorTypeOK == Spec => []TypeOK
<1>1. IInv => TypeOK
  <2> SUFFICES ASSUME IInv PROVE TypeOK
    OBVIOUS
  <2>1. ServerTypeOK /\ disturbed \in 0 .. MaxDisturbances /\ Shown(ui, epoch, revision)
    BY DEF IInv, Page
  <2>2. QED
    BY <2>1 DEF TypeOK, Shown
<1>2. QED
  BY <1>1, CoordinatorInvariant, PTL

\* FreshHasEveryBroadcast: a page that says connected and fresh, with nothing in
\* its socket or queue, shows every revision that the hub has broadcast.
THEOREM FreshPageMissesNothing == Spec => []FreshHasEveryBroadcast
<1>1. IInv => FreshHasEveryBroadcast
  <2> SUFFICES ASSUME IInv, ~ui.stale, conn.phase = "live", conn.wire = <<>>,
                      conn.queue = <<>>
               PROVE  ui.snap.revision >= told
    BY DEF FreshHasEveryBroadcast
  <2>1. /\ Streaming(conn, ui, epoch, revision) /\ Heard(conn, told)
        /\ Page(ui, epoch, revision)
    BY DEF IInv
  <2>2. Events(Pending(conn)) = {}
    <3>1. Pending(conn) = <<>>
      <4>1. <<>> \o <<>> = <<>>
        OBVIOUS
      <4>2. QED
        BY <4>1 DEF Pending
    <3>2. QED
      BY <3>1 DEF Events
  <2>3. ui.rev >= conn.current
    BY <2>1, <2>2 DEF Streaming, Ended
  <2>4. told <= conn.current
    BY <2>1 DEF Heard
  <2>5. ui.snap.revision = ui.rev
    BY <2>1 DEF Page
  <2>6. ui.rev \in Int /\ conn.current \in Int /\ told \in Int
    BY <2>1, StateFacts, ConnectionFields, RevisionFacts, UiFields DEF Streaming
  <2>7. QED
    BY <2>3, <2>4, <2>5, <2>6
<1>2. QED
  BY <1>1, CoordinatorInvariant, PTL

\* One step and what the page shows: it goes back only after a restore.
LEMMA ShownKept ==
  ASSUME IInv, Next
  PROVE  ui'.rev < ui.rev \/ ui'.snap.revision < ui.snap.revision => epoch > 0
<1>1. /\ Page(ui, epoch, revision) /\ ui \in Ui /\ epoch \in Nat /\ revision \in Revisions
      /\ ui.rev \in Int /\ ui.snap.revision \in Int
  BY StateFacts, UiFields DEF IInv
<1>2. CASE UNCHANGED ui
  BY <1>1, <1>2
<1>3. CASE ui'.rev = ui.rev /\ ui'.snap = ui.snap
  BY <1>1, <1>3
<1>4. CASE Server \/ RowFails \/ Drop \/ Restore \/ Restart
  <2>1. UNCHANGED ui
    BY <1>4 DEF Server, RowFails, Drop, Restore, Restart
  <2>2. QED
    BY <1>2, <2>1
<1>5. CASE Crash
  <2>1. ui'.rev = ui.rev /\ ui'.snap = ui.snap
    BY <1>1, <1>5 DEF Crash, Ui
  <2>2. QED
    BY <1>3, <2>1
<1>6. CASE FetchRead \/ StreamOpens \/ HeartbeatTimeout
  <2>1. ui'.rev = ui.rev /\ ui'.snap = ui.snap
    BY <1>1, <1>6 DEF FetchRead, StreamOpens, HeartbeatTimeout, Follow, Ui
  <2>2. QED
    BY <1>3, <2>1
<1>7. CASE FetchAnswered
  <2>1. ui' = Accepted(ui) /\ ui.fetch = "answered"
    BY <1>7 DEF FetchAnswered, Follow
  <2>2. /\ Page(ui', epoch, revision)
        /\ epoch = 0 => ui'.rev >= ui.rev /\ ui'.snap.revision >= ui.snap.revision
    BY <1>1, <2>1, AcceptedKeeps
  <2>3. ui'.rev \in Int /\ ui'.snap.revision \in Int
    BY <2>2, UiFields DEF Page, Shown
  <2>4. QED
    BY <1>1, <2>2, <2>3
<1>8. CASE FetchRefused \/ FetchFails
  <2>1. ui' = Failed(ui)
    BY <1>8 DEF FetchRefused, FetchFails, Follow
  <2>2. QED
    BY <1>1, <1>3, <2>1, FailedKeeps
<1>9. CASE StreamRefused \/ StreamEnds
  <2>1. ui' = HandleError(ui) /\ ui.stream # "none"
    BY <1>9 DEF StreamRefused, StreamEnds, Follow
  <2>2. QED
    BY <1>1, <1>3, <2>1, HandleErrorKeeps
<1>10. CASE Refresh \/ Retry
  <2>1. ui' = Refreshed(ui) \/ ui' = Retried(ui)
    BY <1>10 DEF Refresh, Retry, Follow
  <2>2. QED
    BY <1>1, <1>3, <2>1, ButtonsKeep
<1>11. CASE Deliver
  <2>1. IInv' /\ ui'.rev >= ui.rev /\ ui'.snap = ui.snap
    BY <1>11, DeliverKeeps
  <2>2. Page(ui', epoch', revision')
    BY <2>1 DEF IInv
  <2>3. ui'.rev \in Int
    BY <2>2, UiFields DEF Page, Shown
  <2>4. QED
    BY <1>1, <2>1, <2>3
<1>12. QED
  BY <1>4, <1>5, <1>6, <1>7, <1>8, <1>9, <1>10, <1>11 DEF Next

\* ShownNeverGoesBack: what a page shows goes back only after a restore, whatever
\* the order in which answers and events come.
THEOREM PageNeverGoesBack == Spec => ShownNeverGoesBack
<1>1. IInv /\ [Next]_vars
        => [ui'.rev < ui.rev \/ ui'.snap.revision < ui.snap.revision => epoch > 0]_vars
  BY ShownKept
<1>2. QED
  BY <1>1, CoordinatorInvariant, PTL DEF Spec, ShownNeverGoesBack

-----------------------------------------------------------------------------
(* The process: any number of callbacks under way, of connections, of       *)
(* failures.                                                                *)


\* There are five services to start, and six stages of a stop.
LEMMA Lengths == Len(Services) = 5 /\ Len(Stages) = 6
  BY DEF Services, Stages

\* The bounds are numbers.
LEMMA Bounds == MaxTasks \in Nat /\ MaxGeneration \in Nat /\ MaxMishaps \in Nat
  BY LifecycleConstants

-----------------------------------------------------------------------------
(* Types. *)

\* A callback that begins is a callback.
LEMMA BeginIsTyped ==
  ASSUME LifecycleTypeOK, NEW kind \in TaskKinds, NEW at \in TaskPoints,
         NEW of \in 0..MaxGeneration, Begin(kind, at, of)
  PROVE  task' \in [TaskSlots -> Task \cup {NoTask}]
<1>1. [kind |-> kind, at |-> at, generation |-> of] \in Task
  BY DEF Task
<1>2. QED
  BY <1>1 DEF Begin, LifecycleTypeOK

\* Only an empty slot is at no point.
LEMMA AtAPoint ==
  ASSUME LifecycleTypeOK, NEW i \in TaskSlots, task[i].at \in TaskPoints
  PROVE  task[i] \in Task
<1>1. task[i] \in Task \cup {NoTask} /\ NoTask.at = "none" /\ "none" \notin TaskPoints
  BY DEF LifecycleTypeOK, NoTask, TaskPoints
<1>2. QED
  BY <1>1

\* A callback that is at some point stays one until it ends.
LEMMA OnwardIsTyped ==
  ASSUME LifecycleTypeOK, NEW i \in TaskSlots, NEW point \in TaskPoints,
         task[i].at \in TaskPoints, Goto(i, point) \/ Finish(i)
  PROVE  task' \in [TaskSlots -> Task \cup {NoTask}]
<1>1. task[i] \in Task
  BY AtAPoint
<1>2. [task[i] EXCEPT !.at = point] \in Task
  BY <1>1 DEF Task
<1>3. task \in [TaskSlots -> Task \cup {NoTask}]
  BY DEF LifecycleTypeOK
<1>4. task' \in {[task EXCEPT ![i] = [task[i] EXCEPT !.at = point]], [task EXCEPT ![i] = NoTask]}
  BY DEF Goto, Finish
<1>5. QED
  BY <1>2, <1>3, <1>4

\* The initial states are typed.
LEMMA TypedInit == LifecycleInit => LifecycleTypeOK
<1> SUFFICES ASSUME LifecycleInit PROVE LifecycleTypeOK
  OBVIOUS
<1>1. generation \in 0..MaxGeneration /\ mishaps \in 0..MaxMishaps /\ stage \in 1..Len(Stages)
      /\ beganAt \in 0..Len(Stages) /\ launched \in 0..Len(Services)
  BY Bounds, Lengths DEF LifecycleInit
<1>2. QED
  BY <1>1 DEF LifecycleInit, LifecycleTypeOK

\* Every step keeps the types.
LEMMA TypedNext == LifecycleTypeOK /\ [LifecycleNext]_lifecycleVars => LifecycleTypeOK'
<1> SUFFICES ASSUME LifecycleTypeOK, [LifecycleNext]_lifecycleVars PROVE LifecycleTypeOK'
  OBVIOUS
<1> USE Bounds, Lengths
<1>0. Mishap => mishaps' \in 0..MaxMishaps
  BY DEF Mishap, LifecycleTypeOK
<1>1. CASE TransportStep
  <2>0. Connect \/ LoseConnection => generation' \in 0..MaxGeneration
    BY DEF Connect, LoseConnection, TransportEvent, LifecycleTypeOK
  <2>1. CASE Connect
    BY <2>0, <2>1 DEF Connect, TransportEvent, LifecycleTypeOK, processVars
  <2>2. CASE BecomeReady
    <3>1. generation' \in 0..MaxGeneration
      BY <2>2 DEF BecomeReady, TransportEvent, LifecycleTypeOK
    <3>2. task' \in [TaskSlots -> Task \cup {NoTask}]
      BY <2>2, <3>1, BeginIsTyped DEF BecomeReady, LifecycleTypeOK, TaskKinds, TaskPoints
    <3>3. QED
      BY <2>2, <3>1, <3>2 DEF BecomeReady, TransportEvent, LifecycleTypeOK, processVars
  <2>3. CASE LoseConnection
    BY <2>0, <2>3 DEF LoseConnection, TransportEvent, LifecycleTypeOK, processVars
  <2>4. CASE ReceiveAnnouncement
    <3>1. task' \in [TaskSlots -> Task \cup {NoTask}]
      BY <2>4, BeginIsTyped DEF ReceiveAnnouncement, TaskKinds, TaskPoints
    <3>2. QED
      BY <2>4, <3>1 DEF ReceiveAnnouncement, LifecycleTypeOK, processVars
  <2>5. QED
    BY <1>1, <2>1, <2>2, <2>3, <2>4 DEF TransportStep
<1>2. CASE SweepTick
  <2>1. task' \in [TaskSlots -> Task \cup {NoTask}]
    BY <1>2, BeginIsTyped DEF SweepTick, TaskKinds, TaskPoints
  <2>2. QED
    BY <1>2, <2>1 DEF SweepTick, LifecycleTypeOK, processVars
<1>3. ASSUME NEW i \in TaskSlots, TaskStep(i) PROVE LifecycleTypeOK'
  <2>1. CASE HandleAnnouncement(i)
    <3>1. task' \in [TaskSlots -> Task \cup {NoTask}]
      BY <2>1, OnwardIsTyped DEF HandleAnnouncement, TaskPoints
    <3>2. QED
      BY <2>1, <3>1 DEF HandleAnnouncement, LifecycleTypeOK, processVars
  <2>2. CASE CheckEligibility(i)
    <3>1. task' \in [TaskSlots -> Task \cup {NoTask}]
      BY <2>2, OnwardIsTyped DEF CheckEligibility, TaskPoints
    <3>2. QED
      BY <2>2, <3>1 DEF CheckEligibility, LifecycleTypeOK, processVars
  <2>3. CASE EnsureSchedulingStarted(i)
    BY <2>3 DEF EnsureSchedulingStarted, LifecycleTypeOK, processVars
  <2>4. CASE SchedulingStarted(i)
    <3>1. task' \in [TaskSlots -> Task \cup {NoTask}]
      BY <2>4, OnwardIsTyped DEF SchedulingStarted, TaskPoints
    <3>2. QED
      BY <2>4, <3>1 DEF SchedulingStarted, LifecycleTypeOK, processVars
  <2>5. CASE ReconcileSchedules(i)
    <3>1. task' \in [TaskSlots -> Task \cup {NoTask}]
      BY <2>5, OnwardIsTyped DEF ReconcileSchedules, TaskPoints
    <3>2. task[i] \in Task
      BY <2>5, AtAPoint DEF ReconcileSchedules, TaskPoints
    <3>3. passed' \subseteq 0..MaxGeneration
      BY <2>5, <3>2 DEF ReconcileSchedules, LifecycleTypeOK, Task
    <3>4. QED
      BY <2>5, <3>1, <3>3 DEF ReconcileSchedules, LifecycleTypeOK, processVars
  <2>6. CASE FailReconciliation(i)
    <3>1. task' \in [TaskSlots -> Task \cup {NoTask}]
      BY <2>6, OnwardIsTyped DEF FailReconciliation, TaskPoints
    <3>2. QED
      BY <1>0, <2>6, <3>1 DEF FailReconciliation, LifecycleTypeOK, processVars
  <2>7. QED
    BY <1>3, <2>1, <2>2, <2>3, <2>4, <2>5, <2>6 DEF TaskStep
<1>4. CASE StartScheduling
  BY <1>4 DEF StartScheduling, LifecycleTypeOK, processVars, Scheduled
<1>5. CASE FailScheduling
  BY <1>0, <1>5 DEF FailScheduling, LifecycleTypeOK, processVars, Scheduled
<1>6. ASSUME NEW s \in Scheduled, ServiceDies(s) PROVE LifecycleTypeOK'
  BY <1>0, <1>6 DEF ServiceDies, LifecycleTypeOK, processVars
<1>7. CASE StartService \/ FailStart \/ RequestShutdown \/ BeginMirror
  <2>1. StartService => launched' \in 0..Len(Services)
    BY DEF StartService, LifecycleTypeOK
  <2>2. QED
    BY <1>0, <1>7, <2>1 DEF StartService, FailStart, RequestShutdown, BeginMirror,
                            LifecycleTypeOK, runtimeVars
<1>8. CASE EndMirror
  <2>1. "trigger" \in TaskKinds /\ "starting" \in TaskPoints /\ 0 \in 0..MaxGeneration
    BY DEF TaskKinds, TaskPoints
  <2>2. Begin("trigger", "starting", 0) => task' \in [TaskSlots -> Task \cup {NoTask}]
    BY <2>1, BeginIsTyped
  <2>3. task' \in [TaskSlots -> Task \cup {NoTask}]
    BY <1>8, <2>2 DEF EndMirror, LifecycleTypeOK
  <2>4. QED
    BY <1>8, <2>3 DEF EndMirror, LifecycleTypeOK
<1>9. CASE Teardown
  <2>1. CASE BeginTeardown \/ BeginStop \/ CloseDatabases
    <3>1. BeginStop => stage' \in 1..Len(Stages)
      BY DEF BeginStop
    <3>2. QED
      BY <2>1, <3>1 DEF BeginTeardown, BeginStop, CloseDatabases, LifecycleTypeOK, runtimeVars
  <2>2. CASE StopScheduling
    BY <2>2 DEF StopScheduling, Advance, LifecycleTypeOK
  <2>3. CASE DrainCommands
    BY <2>3 DEF DrainCommands, Advance, LifecycleTypeOK, runtimeVars
  <2>4. CASE StopTransport
    BY <2>4 DEF StopTransport, Advance, LifecycleTypeOK
  <2>5. CASE DrainTasks \/ StopService
    <3>1. launched' \in 0..Len(Services) /\ stage' \in 1..Len(Stages)
      BY <2>5 DEF DrainTasks, StopService, LifecycleTypeOK
    <3>2. QED
      BY <2>5, <3>1 DEF DrainTasks, StopService, LifecycleTypeOK, runtimeVars
  <2>6. QED
    BY <1>9, <2>1, <2>2, <2>3, <2>4, <2>5 DEF Teardown
<1>10. CASE UNCHANGED lifecycleVars
  BY <1>10 DEF lifecycleVars, LifecycleTypeOK
<1>11. QED
  BY <1>1, <1>2, <1>3, <1>4, <1>5, <1>6, <1>7, <1>8, <1>9, <1>10 DEF LifecycleNext

(* Every variable of the process and of its runtime keeps to its domain, for *)
(* any number of callbacks, connections and failures.                       *)
THEOREM LifecycleTyped == LifecycleSpec => []LifecycleTypeOK
  BY TypedInit, TypedNext, PTL DEF LifecycleSpec

-----------------------------------------------------------------------------
(* Commands. *)

\* Commands may be sent only on the strength of this connection's own pass.
PassedForThisConnection == reconciled => generation \in passed

\* Every step keeps: commands go by the pass of this connection.
LEMMA PassedNext ==
  LifecycleTypeOK /\ PassedForThisConnection /\ [LifecycleNext]_lifecycleVars
     => PassedForThisConnection'
<1> SUFFICES ASSUME LifecycleTypeOK, PassedForThisConnection, [LifecycleNext]_lifecycleVars
             PROVE  PassedForThisConnection'
  OBVIOUS
<1>0. ASSUME reconciled' = FALSE \/ (reconciled' = reconciled /\ generation' = generation
                                     /\ passed' = passed)
      PROVE  PassedForThisConnection'
  <2>1. CASE reconciled' = FALSE
    BY <2>1, Zenon DEF PassedForThisConnection
  <2>2. CASE reconciled' = reconciled /\ generation' = generation /\ passed' = passed
    <3>1. reconciled => generation \in passed
      BY DEF PassedForThisConnection
    <3>2. SUFFICES ASSUME reconciled' PROVE generation' \in passed'
      BY DEF PassedForThisConnection
    <3>3. reconciled
      BY <2>2, <3>2
    <3>4. QED
      BY <2>2, <3>1, <3>3
  <2>3. QED
    BY <1>0, <2>1, <2>2
<1>1. CASE TransportStep
  BY <1>0, <1>1 DEF TransportStep, Connect, BecomeReady, LoseConnection, ReceiveAnnouncement,
                    TransportEvent
<1>2. ASSUME NEW i \in TaskSlots, TaskStep(i) PROVE PassedForThisConnection'
  <2>1. CASE ReconcileSchedules(i)
    BY <2>1 DEF ReconcileSchedules, StillConnected, PassedForThisConnection
  <2>2. CASE FailReconciliation(i)
    BY <1>0, <2>2 DEF FailReconciliation
  <2>3. QED
    BY <1>0, <1>2, <2>1, <2>2 DEF TaskStep, HandleAnnouncement, CheckEligibility,
                                  EnsureSchedulingStarted, SchedulingStarted
<1>3. CASE SweepTick \/ StartScheduling \/ FailScheduling
  BY <1>0, <1>3 DEF SweepTick, StartScheduling, FailScheduling
<1>4. ASSUME NEW s \in Scheduled, ServiceDies(s) PROVE PassedForThisConnection'
  BY <1>0, <1>4 DEF ServiceDies
<1>5. CASE StartService \/ FailStart \/ RequestShutdown \/ BeginMirror \/ EndMirror
  BY <1>0, <1>5 DEF StartService, FailStart, RequestShutdown, BeginMirror, EndMirror, runtimeVars
<1>6. CASE Teardown
  BY <1>0, <1>6 DEF Teardown, BeginTeardown, BeginStop, StopScheduling, DrainCommands,
                    StopTransport, DrainTasks, StopService, CloseDatabases, runtimeVars
<1>7. CASE UNCHANGED lifecycleVars
  BY <1>0, <1>7 DEF lifecycleVars
<1>8. QED
  BY <1>1, <1>2, <1>3, <1>4, <1>5, <1>6, <1>7 DEF LifecycleNext

(* A controller that says it is ready has had a startup pass go well for the *)
(* very connection it has now, however many callbacks of earlier connections *)
(* are still to end.                                                        *)
THEOREM ReadyMeansReconciled == LifecycleSpec => []ReadyIsReconciled
<1>1. LifecycleInit => PassedForThisConnection
  BY DEF LifecycleInit, PassedForThisConnection
<1>2. PassedForThisConnection => ReadyIsReconciled
  BY DEF PassedForThisConnection, ReadyIsReconciled, IsReady
<1>3. QED
  BY <1>1, <1>2, PassedNext, LifecycleTyped, PTL DEF LifecycleSpec

-----------------------------------------------------------------------------
(* The shutdown. *)

\* What each stage of the stop leaves behind it, and what the start of the
\* scheduling services has done when it is over.
StopsInOrder ==
  /\ stage > 1 => process \in {"stopping", "closed"}
  /\ stage > 4 => link = "off"
  /\ stage = 6 => \A i \in TaskSlots : Vacant(i)
  /\ process = "closed" => stage = 6 /\ launched = 0 /\ ~mirroring

SchedulingEnds ==
  /\ scheduling = "none" => \A s \in Scheduled : scheduled[s] = "off"
  /\ scheduling # "none" => beganAt > 0
  /\ stage > 2 /\ beganAt < 2 =>
        /\ scheduling \in {"none", "done", "failed"}
        /\ \A s \in Scheduled : scheduled[s] # "on"

\* Every step keeps what the stages of the stop have left behind.
LEMMA StopsInOrderNext ==
  LifecycleTypeOK /\ StopsInOrder /\ [LifecycleNext]_lifecycleVars => StopsInOrder'
<1> SUFFICES ASSUME LifecycleTypeOK, StopsInOrder, [LifecycleNext]_lifecycleVars
             PROVE  StopsInOrder'
  OBVIOUS
<1> USE DEF StopsInOrder
<1>0. stage \in Nat /\ stage <= 6 /\ \A i \in TaskSlots : Vacant(i) => task[i].at = "none"
  BY Lengths DEF LifecycleTypeOK, Vacant, NoTask
<1>1. CASE TransportStep
  BY <1>0, <1>1 DEF TransportStep, Connect, BecomeReady, LoseConnection, ReceiveAnnouncement,
              TransportEvent, processVars, RuntimeStarted, Stopping, Begin, Vacant
<1>2. CASE SweepTick
  BY <1>0, <1>2 DEF SweepTick, Stopping, processVars
<1>3. ASSUME NEW i \in TaskSlots, TaskStep(i) PROVE StopsInOrder'
  <2>1. stage # 6
    BY <1>0, <1>3 DEF TaskStep, HandleAnnouncement, CheckEligibility, EnsureSchedulingStarted,
                      SchedulingStarted, ReconcileSchedules, FailReconciliation
  <2>2. UNCHANGED <<processVars, link>>
    BY <1>3 DEF TaskStep, HandleAnnouncement, CheckEligibility, EnsureSchedulingStarted,
                SchedulingStarted, ReconcileSchedules, FailReconciliation
  <2>3. QED
    BY <2>1, <2>2 DEF processVars
<1>4. CASE StartScheduling \/ FailScheduling
  BY <1>4 DEF StartScheduling, FailScheduling, processVars, Vacant
<1>5. ASSUME NEW s \in Scheduled, ServiceDies(s) PROVE StopsInOrder'
  BY <1>5 DEF ServiceDies, processVars, Vacant
<1>6. CASE StartService \/ FailStart \/ RequestShutdown \/ BeginMirror
  BY <1>6 DEF StartService, FailStart, RequestShutdown, BeginMirror, runtimeVars, Vacant
<1>7. CASE EndMirror
  BY <1>0, <1>7 DEF EndMirror, Stopping, Vacant
<1>8. CASE Teardown
  <2>1. CASE BeginTeardown \/ CloseDatabases
    BY <1>0, <2>1 DEF BeginTeardown, CloseDatabases, runtimeVars, Vacant
  <2>2. CASE BeginStop \/ StopScheduling \/ DrainCommands
    BY <1>0, <2>2 DEF BeginStop, StopScheduling, DrainCommands, Advance, runtimeVars
  <2>3. CASE StopTransport
    BY <1>0, <2>3 DEF StopTransport, Advance
  <2>4. CASE DrainTasks
    BY <1>0, <2>4 DEF DrainTasks, NoCallbackLeft, runtimeVars, Vacant
  <2>5. CASE StopService
    BY <1>0, <2>5, Lengths DEF StopService, runtimeVars, Vacant, LifecycleTypeOK
  <2>6. QED
    BY <1>8, <2>1, <2>2, <2>3, <2>4, <2>5 DEF Teardown
<1>9. CASE UNCHANGED lifecycleVars
  BY <1>9 DEF lifecycleVars, Vacant
<1>10. QED
  BY <1>1, <1>2, <1>3, <1>4, <1>5, <1>6, <1>7, <1>8, <1>9 DEF LifecycleNext

\* Every step keeps what the start of the services has left behind.
LEMMA SchedulingEndsNext ==
  LifecycleTypeOK /\ SchedulingEnds /\ [LifecycleNext]_lifecycleVars => SchedulingEnds'
<1> SUFFICES ASSUME LifecycleTypeOK, SchedulingEnds, [LifecycleNext]_lifecycleVars
             PROVE  SchedulingEnds'
  OBVIOUS
<1> USE DEF SchedulingEnds
<1>0. stage \in Nat /\ stage > 0 /\ beganAt \in Nat
      /\ scheduled \in [Scheduled -> {"off", "on", "dead", "stopped"}]
  BY Lengths DEF LifecycleTypeOK
<1>1. CASE TransportStep \/ SweepTick
  BY <1>1 DEF TransportStep, Connect, BecomeReady, LoseConnection, ReceiveAnnouncement,
              SweepTick, processVars
<1>2. ASSUME NEW i \in TaskSlots, TaskStep(i) PROVE SchedulingEnds'
  <2>1. CASE EnsureSchedulingStarted(i)
    BY <1>0, <2>1 DEF EnsureSchedulingStarted, processVars
  <2>2. QED
    BY <1>2, <2>1 DEF TaskStep, HandleAnnouncement, CheckEligibility, SchedulingStarted,
                      ReconcileSchedules, FailReconciliation, processVars
<1>3. CASE StartScheduling \/ FailScheduling
  BY <1>0, <1>3 DEF StartScheduling, FailScheduling, processVars
<1>4. ASSUME NEW s \in Scheduled, ServiceDies(s) PROVE SchedulingEnds'
  BY <1>0, <1>4 DEF ServiceDies, processVars
<1>5. CASE StartService \/ FailStart \/ RequestShutdown \/ BeginMirror \/ EndMirror
  BY <1>5 DEF StartService, FailStart, RequestShutdown, BeginMirror, EndMirror, runtimeVars
<1>6. CASE Teardown
  <2>1. CASE BeginTeardown \/ DrainTasks \/ StopService \/ CloseDatabases
    BY <2>1 DEF BeginTeardown, DrainTasks, StopService, CloseDatabases, runtimeVars
  <2>2. CASE BeginStop
    BY <1>0, <2>2 DEF BeginStop
  <2>3. CASE StopScheduling
    BY <1>0, <2>3 DEF StopScheduling, Settled, Advance
  <2>4. CASE DrainCommands
    BY <1>0, <2>4 DEF DrainCommands, Advance, runtimeVars
  <2>5. CASE StopTransport
    BY <1>0, <2>5 DEF StopTransport, Advance
  <2>6. QED
    BY <1>6, <2>1, <2>2, <2>3, <2>4, <2>5 DEF Teardown
<1>7. CASE UNCHANGED lifecycleVars
  BY <1>7 DEF lifecycleVars
<1>8. QED
  BY <1>1, <1>2, <1>3, <1>4, <1>5, <1>6, <1>7 DEF LifecycleNext

(* When the databases are closed, whatever failed on the way and whoever was *)
(* still running when the shutdown was asked for, no callback, connection,  *)
(* service or mirror pass is left that would use them.                      *)
THEOREM ClosesQuietly == LifecycleSpec => []ClosedIsQuiet
<1>1. LifecycleInit => StopsInOrder /\ SchedulingEnds
  BY DEF LifecycleInit, StopsInOrder, SchedulingEnds
<1>2. LifecycleTypeOK /\ StopsInOrder /\ SchedulingEnds => ClosedIsQuiet
  BY Lengths DEF LifecycleTypeOK, StopsInOrder, SchedulingEnds, ClosedIsQuiet
<1>3. QED
  BY <1>1, <1>2, StopsInOrderNext, SchedulingEndsNext, LifecycleTyped, PTL DEF LifecycleSpec

=============================================================================
