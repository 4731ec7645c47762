------------------------- MODULE RelationRecoveryProofs -------------------------
(***************************************************************************)
(* Theorems about RelationRecovery for any frames, goals and limits.       *)
(*                                                                         *)
(* Whatever a cycle of update does, it ends in one of four ways: it goes   *)
(* on with the attempt, fails, retries the goal, or completes it.  Lemma   *)
(* PursueEnds establishes that once, with what is known of the attempt in  *)
(* each case; the invariants are then shown to survive the four ways.      *)
(***************************************************************************)
EXTENDS RelationRecovery, TLAPS, WellFoundedInduction, SequenceTheorems

USE ConstantsAssumption

Track == [phase : {"open", "track", "verify"}, waypoint : Nat, cycles : Nat,
          verify : Nat, open : Nat, stable : Nat, locked : BOOLEAN,
          had : BOOLEAN, confirm : Nat, run : Nat, best : Nat]

\* What the counters of an attempt say of the evidence seen in it.
Evident(t) == /\ t \in Track
              /\ t.had => t.best >= 1
              /\ t.confirm <= t.run
              /\ t.run <= t.best

Probe == [phase : {"none", "probe", "return"}, path : Seq(Nat), back : Seq(Nat),
          cycles : Nat, returns : Nat, motion : Nat, decision : Decisions,
          candidate : Decisions, count : Nat]

TrackOK(t) == /\ Evident(t)
              /\ t.waypoint \in 1 .. Waypoints
              /\ t.cycles <= MaxWaypoint
              /\ t.verify <= MaxVerify

\* A probe in progress has a path; only a failed one has overrun its way back.
ProbeOK(p) == /\ p \in Probe
              /\ p.phase # "none" => p.path # <<>>
              /\ p.cycles <= MaxProbe
              /\ p.returns <= MaxReturn + 1

Required(g) == IF g.kind = "unlink" THEN MinConfirm ELSE 1

\* The four ways a cycle ends, u and q being what is left of the attempt.
EndsWith(g, u, q) ==
  /\ TrackOK(u) /\ ProbeOK(q)
  /\ \/ Continue(u, q) /\ q.returns <= MaxReturn
     \/ Fail(u, q)
     \/ /\ attempts < MaxAttempts
        /\ StartGoal(todo, attempts + 1)
        /\ UNCHANGED <<phase, todo, completed, active, basis>>
     \/ CompleteGoal(g, u, q) /\ u.best >= Required(g)

Ends(g) == \E u, q : EndsWith(g, u, q)

LEMMA Limits ==
  /\ {MaxTotal, MaxWaypoint, MaxVerify, MaxAttempts, MaxReentry, MinConfirm,
      OpenCycles, StableCycles, MaxProbe, MaxReturn, Waypoints} \subseteq Nat
  /\ MinConfirm >= 1 /\ MaxAttempts >= 1 /\ Waypoints >= 1 /\ MaxProbe >= 1
  /\ MaxReentry >= 1
OBVIOUS

LEMMA NotedIsEvident ==
  ASSUME NEW t, Evident(t), NEW s \in BOOLEAN
  PROVE  Evident(Recorded(Noted(t, s), s))
<1>1. t \in Track /\ (t.had => t.best >= 1) /\ t.confirm <= t.run /\ t.run <= t.best
  BY DEF Evident
<1> DEFINE u == Noted(t, s)
           n == IF s THEN Least(t.run + 1, MinConfirm) ELSE 0
           c == IF s THEN Least(t.confirm + 1, MinConfirm) ELSE 0
<1>2. /\ t.run \in Nat /\ t.confirm \in Nat /\ t.best \in Nat /\ t.had \in BOOLEAN
      /\ n \in Nat /\ c \in Nat /\ c <= n
      /\ s => n >= 1
  BY <1>1, Limits DEF Track, Least
<1>3. u \in Track /\ u.had = (t.had \/ s) /\ u.confirm = c /\ u.run = t.run /\ u.best = t.best
  <2>1. u = [t EXCEPT !.had = t.had \/ s, !.confirm = c]
    BY DEF Noted
  <2> HIDE DEF u, c
  <2>2. QED
    BY <1>1, <1>2, <2>1 DEF Track
<1> DEFINE b == IF n > t.best THEN n ELSE t.best
           v == Recorded(u, s)
<1>4. v = [u EXCEPT !.run = n, !.best = b]
  BY <1>3 DEF Recorded
<1>5. b \in Nat /\ b >= n /\ b >= t.best
  BY <1>2
<1> HIDE DEF u, n, c, b, v
<1>6. v \in Track /\ v.had = (t.had \/ s) /\ v.confirm = c /\ v.run = n /\ v.best = b
  BY <1>2, <1>3, <1>4, <1>5 DEF Track
<1>7. Evident(v)
  BY <1>1, <1>2, <1>5, <1>6 DEF Evident
<1>8. QED
  BY <1>7 DEF v, u

LEMMA FreshTrackOK ==
  ASSUME NEW k \in {"link", "unlink"} PROVE TrackOK(FreshTrack(k))
BY Limits DEF TrackOK, Evident, FreshTrack, Track

LEMMA NoProbeOK == ProbeOK(NoProbe) /\ NoProbe.returns = 0
<1>1. <<>> \in Seq(Nat)
  BY EmptySeq
<1>2. QED
  BY <1>1, Limits DEF ProbeOK, NoProbe, Probe, Decisions

LEMMA NotedOK ==
  ASSUME NEW t, TrackOK(t), NEW s \in BOOLEAN
  PROVE  TrackOK(Recorded(Noted(t, s), s))
<1> DEFINE u == Noted(t, s)
           v == Recorded(u, s)
<1>1. Evident(t) /\ Evident(v)
  BY NotedIsEvident DEF TrackOK
<1>2. t \in Track
  BY <1>1 DEF Evident
<1>3. u.waypoint = t.waypoint /\ u.cycles = t.cycles /\ u.verify = t.verify
  BY <1>2 DEF Noted, Track
<1>4. v.waypoint = u.waypoint /\ v.cycles = u.cycles /\ v.verify = u.verify
  <2>1. u \in Track
    <3>1. Least(t.confirm + 1, MinConfirm) \in Nat
      BY <1>2, Limits DEF Track, Least
    <3>2. QED
      BY <1>2, <3>1 DEF Noted, Track
  <2> HIDE DEF u
  <2>2. QED
    BY <2>1 DEF Recorded, Track
<1>5. QED
  BY <1>1, <1>3, <1>4 DEF TrackOK

--------------------------------------------------------------------------------
(* The active goal *)

Below == {ss \in Nat \X Nat : ss[1] < ss[2]}

LEMMA Minimum ==
  ASSUME NEW T, T \subseteq Nat, T # {}
  PROVE  \E x \in T : \A y \in T : x <= y
<1>1. IsWellFoundedOn(Below, Nat)
  BY NatLessThanWellFounded DEF OpToRel, Below
<1>2. PICK x \in T : \A y \in T : ~ (<<y, x>> \in Below)
  BY <1>1, WFMin
<1>3. \A y \in T : ~ (y < x)
  BY <1>2 DEF Below
<1>4. QED
  BY <1>3

LEMMA Maximum ==
  ASSUME NEW n \in Nat, NEW T, T \subseteq 0 .. n, T # {}
  PROVE  \E x \in T : \A y \in T : y <= x
<1> DEFINE U == {n - k : k \in T}
<1>1. U \subseteq Nat /\ U # {}
  <2>1. \A k \in T : n - k \in Nat
    OBVIOUS
  <2>2. QED
    BY <2>1, Zenon
<1>2. PICK m \in U : \A y \in U : m <= y
  BY <1>1, Minimum
<1>3. PICK x \in T : m = n - x
  BY <1>2
<1>4. \A y \in T : n - x <= n - y
  BY <1>2, <1>3
<1>5. QED
  BY <1>4

\* RelationGoalPlanner always has a first goal.
LEMMA ActiveGoalIsOne ==
  ASSUME NEW S, S \subseteq Goals, S # {}
  PROVE  ActiveGoal(S) \in S /\ \A h \in S : Before(ActiveGoal(S), h)
<1>1. \A g \in S : g.frame \in Nat /\ g.kind \in {"link", "unlink"}
  BY DEF Goals
<1> DEFINE Unlinks == {g \in S : g.kind = "unlink"}
           Firsts == IF Unlinks = {} THEN S ELSE Unlinks
           Numbers == {g.frame : g \in Firsts}
<1>2. Numbers \subseteq Nat /\ Numbers # {}
  BY <1>1
<1>3. PICK m \in Numbers : \A y \in Numbers : m <= y
  BY <1>2, Minimum
<1>4. PICK g \in Firsts : g.frame = m
  BY <1>3
<1>5. \A h \in Firsts : g.frame <= h.frame
  BY <1>3, <1>4
<1>6. g \in S /\ \A h \in S : Before(g, h)
  <2>1. CASE Unlinks = {}
    BY <1>1, <1>4, <1>5, <2>1 DEF Before
  <2>2. CASE Unlinks # {}
    BY <1>1, <1>4, <1>5, <2>2 DEF Before
  <2>3. QED
    BY <2>1, <2>2
<1>7. QED
  BY <1>6 DEF ActiveGoal
--------------------------------------------------------------------------------
(* What the steps of a probe keep of it *)

SameProbe(p, q) == /\ q \in Probe
                   /\ q.phase = p.phase /\ q.path = p.path /\ q.back = p.back
                   /\ q.cycles = p.cycles /\ q.returns = p.returns

LEMMA LeastIsNat == \A a, b \in Nat : Least(a, b) \in Nat
BY DEF Least

LEMMA DistanceIsNat == \A a, b \in Nat : Distance(a, b) \in Nat
BY DEF Distance

LEMMA SumIsNat == \A a, b \in Nat : a + b \in Nat
OBVIOUS

LEMMA BelowNext == \A a, b \in Nat : a <= b => a <= b + 1 /\ a + 1 <= b + 1
OBVIOUS

LEMMA ProbeCounters ==
  ASSUME NEW p \in Probe
  PROVE  p.count \in Nat /\ p.motion \in Nat /\ p.returns \in Nat /\ p.cycles \in Nat
BY DEF Probe

LEMMA StabilisedKeeps ==
  ASSUME NEW p \in Probe, NEW d \in Decisions, NEW i \in BOOLEAN
  PROVE  SameProbe(p, Stabilised(p, d, i))
<1> DEFINE c == IF i /\ p.motion >= MinMotion THEN d ELSE "unknown"
           n == IF c = "unknown" THEN 0
                ELSE IF c = p.candidate THEN Least(p.count + 1, MinConfirm) ELSE 1
<1>1. c \in Decisions /\ n \in Nat
  <2>1. c \in Decisions
    BY DEF Decisions
  <2>2. Least(p.count + 1, MinConfirm) \in Nat
    <3>1. p.count \in Nat
      BY ProbeCounters
    <3>2. p.count + 1 \in Nat /\ MinConfirm \in Nat
      BY <3>1, Limits
    <3>3. QED
      BY <3>2, LeastIsNat
  <2> HIDE DEF c
  <2>3. QED
    BY <2>1, <2>2
<1>2. Stabilised(p, d, i) = [p EXCEPT !.candidate = c, !.count = n]
  BY DEF Stabilised
<1> HIDE DEF c, n
<1>3. QED
  BY <1>1, <1>2 DEF SameProbe, Probe

LEMMA DecidedKeeps ==
  ASSUME NEW p \in Probe PROVE SameProbe(p, Decided(p))
BY DEF SameProbe, Probe, Decided

\* The estimate of a cycle changes only what the probe has learned.
LEMMA ObservedKeeps ==
  ASSUME NEW p \in Probe, NEW d \in Decisions, NEW i \in BOOLEAN
  PROVE  SameProbe(p, Decided(Stabilised(p, d, i)))
<1> DEFINE q == Stabilised(p, d, i)
<1>1. SameProbe(p, q)
  BY StabilisedKeeps
<1> HIDE DEF q
<1>2. SameProbe(q, Decided(q))
  BY <1>1, DecidedKeeps DEF SameProbe
<1>3. QED
  BY <1>1, <1>2 DEF SameProbe, q

\* The last element of a path.
LEMMA LastOfPath ==
  ASSUME NEW s \in Seq(Nat), s # <<>>
  PROVE  s[Len(s)] \in Nat
<1>1. Len(s) \in Nat \ {0}
  BY EmptySeq
<1>2. Len(s) \in 1 .. Len(s)
  BY <1>1
<1>3. QED
  BY <1>2, ElementOfSeq

LEMMA MovedKeeps ==
  ASSUME NEW p \in Probe, p.path # <<>>, NEW x \in Nat
  PROVE  LET q == Moved(p, x) IN
         /\ q \in Probe /\ q.path # <<>> /\ q.phase = p.phase
         /\ q.cycles = p.cycles /\ q.returns = p.returns
<1>1. p.path \in Seq(Nat) /\ Len(p.path) \in Nat \ {0}
  BY EmptySeq DEF Probe
<1> DEFINE last == p.path[Len(p.path)]
           longer == Append(p.path, x)
           motion == Least(p.motion + Distance(x, last), MinMotion)
<1>2. last \in Nat
  BY <1>1, LastOfPath
<1>3. longer \in Seq(Nat) /\ longer # <<>>
  <2>1. /\ longer \in Seq(Nat)
        /\ Len(longer) = Len(p.path) + 1
    BY <1>1, AppendProperties
  <2>2. Len(<<>>) = 0
    BY EmptySeq
  <2> HIDE DEF longer
  <2>3. QED
    BY <1>1, <2>1, <2>2
<1>4. motion \in Nat
  <2>1. p.motion + Distance(x, last) \in Nat
    <3>1. p.motion \in Nat /\ Distance(x, last) \in Nat
      BY <1>2, DistanceIsNat, ProbeCounters
    <3>2. QED
      BY <3>1, SumIsNat, Zenon
  <2>2. QED
    BY <2>1, LeastIsNat, ConstantsAssumption
<1>5. CASE x = last
  BY <1>5 DEF Moved
<1>6. CASE x # last
  <2>1. Moved(p, x) = [p EXCEPT !.path = longer, !.motion = motion]
    BY <1>6 DEF Moved
  <2> HIDE DEF longer, motion
  <2>2. QED
    BY <1>3, <1>4, <2>1 DEF Probe
<1>7. QED
  BY <1>5, <1>6

LEMMA ReturningKeeps ==
  ASSUME NEW p \in Probe, p.path # <<>>
  PROVE  LET q == Returning(p) IN
         /\ q \in Probe /\ q.path = p.path /\ q.phase = "return"
         /\ q.cycles = p.cycles /\ q.returns = p.returns
<1> DEFINE n == Len(p.path)
           backwards == [k \in 1 .. n - 1 |-> p.path[n - k]]
           back == IF n = 1 THEN <<p.path[1]>> ELSE backwards
<1>1. p.path \in Seq(Nat) /\ n \in Nat \ {0}
  BY EmptySeq DEF Probe
<1>2. \A k \in 1 .. n : p.path[k] \in Nat
  BY <1>1, ElementOfSeq
<1>3. back \in Seq(Nat)
  <2>1. <<p.path[1]>> \in Seq(Nat)
    BY <1>1, <1>2
  <2>2. n - 1 \in Nat /\ \A k \in 1 .. n - 1 : p.path[n - k] \in Nat
    <3> HIDE DEF n
    <3>1. n - 1 \in Nat /\ \A k \in 1 .. n - 1 : n - k \in 1 .. n
      BY <1>1
    <3>2. QED
      BY <1>2, <3>1
  <2>3. backwards \in [1 .. n - 1 -> Nat]
    BY <2>2, Zenon
  <2> HIDE DEF backwards, n
  <2>4. backwards \in Seq(Nat)
    BY <2>2, <2>3, SeqDef
  <2>5. QED
    BY <2>1, <2>4
<1>4. Returning(p) = [p EXCEPT !.phase = "return", !.back = back]
  BY DEF Returning
<1> HIDE DEF back
<1>5. QED
  BY <1>3, <1>4 DEF Probe

LEMMA DroppedKeeps ==
  ASSUME NEW p \in Probe, NEW x \in Nat
  PROVE  LET q == Dropped(p, x) IN
         /\ q \in Probe /\ q.phase = p.phase /\ q.path = p.path
         /\ q.cycles = p.cycles /\ q.returns = p.returns
<1> DEFINE N == Len(p.back)
           reached == {k \in 0 .. N :
                         \A j \in 1 .. k : Distance(x, p.back[j]) <= Tolerance}
           n == CHOOSE k \in reached : \A j \in reached : j <= k
           rest == SubSeq(p.back, n + 1, N)
<1>1. p.back \in Seq(Nat) /\ N \in Nat
  BY LenProperties DEF Probe
<1>2. n \in 0 .. N
  <2>1. reached \subseteq 0 .. N /\ 0 \in reached
    BY <1>1
  <2> HIDE DEF reached, N
  <2>2. \E k \in reached : \A j \in reached : j <= k
    BY <1>1, <2>1, Maximum
  <2>3. n \in reached
    BY <2>2
  <2>4. QED
    BY <2>1, <2>3
<1>3. rest \in Seq(Nat)
  <2> HIDE DEF n
  <2>1. n + 1 \in Int /\ N \in Int /\ \A i \in n + 1 .. N : p.back[i] \in Nat
    <3>1. \A i \in 1 .. N : p.back[i] \in Nat
      BY <1>1, ElementOfSeq
    <3> HIDE DEF N
    <3>2. QED
      BY <1>1, <1>2, <3>1
  <2> HIDE DEF N
  <2>2. QED
    BY <2>1, SubSeqProperties
<1>4. Dropped(p, x) = [p EXCEPT !.back = rest]
  BY DEF Dropped
<1> HIDE DEF rest
<1>5. QED
  BY <1>3, <1>4 DEF Probe
--------------------------------------------------------------------------------
(* How the cycles of a goal end *)

LEMMA FailEnds ==
  ASSUME NEW g, NEW u, TrackOK(u), NEW q, ProbeOK(q), Fail(u, q)
  PROVE  Ends(g)
BY DEF Ends, EndsWith

LEMMA ContinueEnds ==
  ASSUME NEW g, NEW u, TrackOK(u), NEW q, ProbeOK(q), q.returns <= MaxReturn, Continue(u, q)
  PROVE  Ends(g)
BY DEF Ends, EndsWith

LEMMA RetryEnds ==
  ASSUME NEW g, NEW u, TrackOK(u), NEW q, ProbeOK(q), RetryOrFail(u, q)
  PROVE  Ends(g)
BY DEF Ends, EndsWith, RetryOrFail

LEMMA CompleteEnds ==
  ASSUME NEW g, NEW u, TrackOK(u), NEW q, ProbeOK(q), CompleteGoal(g, u, q),
         u.best >= Required(g)
  PROVE  Ends(g)
BY DEF Ends, EndsWith

LEMMA ReturnCycleEnds ==
  ASSUME NEW g, g.kind = "link", NEW t, TrackOK(t),
         NEW p, ProbeOK(p), p.returns <= MaxReturn,
         NEW x \in Nat, NEW d \in Decisions, NEW i \in BOOLEAN,
         ReturnCycle(g, t, p, x, d, i)
  PROVE  Ends(g)
<1> DEFINE o == Decided(Stabilised(p, d, i))
           q == [o EXCEPT !.returns = @ + 1]
           r == Dropped(q, x)
<1>1. SameProbe(p, o)
  BY ObservedKeeps DEF ProbeOK
<1>2. /\ q \in Probe /\ q.phase = p.phase /\ q.path = p.path
      /\ q.cycles = p.cycles /\ q.returns = p.returns + 1
  <2> HIDE DEF o
  <2> DEFINE n == o.returns + 1
  <2>1. o \in Probe /\ o.returns \in Nat
    BY <1>1 DEF SameProbe, Probe
  <2>2. n \in Nat
    BY <2>1
  <2>3. n = p.returns + 1 /\ q = [o EXCEPT !.returns = n]
    BY <1>1 DEF SameProbe
  <2> HIDE DEF n, q
  <2>4. /\ q \in Probe /\ q.phase = o.phase /\ q.path = o.path
        /\ q.cycles = o.cycles /\ q.returns = n
    BY <2>1, <2>2, <2>3 DEF Probe
  <2>5. QED
    BY <1>1, <2>3, <2>4 DEF SameProbe
<1> HIDE DEF o
<1>3. /\ r \in Probe /\ r.phase = q.phase /\ r.path = q.path
      /\ r.cycles = q.cycles /\ r.returns = q.returns
  <2> HIDE DEF q
  <2>1. QED
    BY <1>2, DroppedKeeps
<1>4. \/ q.returns > MaxReturn /\ Fail(t, q)
      \/ ~ (q.returns > MaxReturn) /\ Continue(t, r)
      \/ r.decision = "linked" /\ t.had /\ CompleteGoal(g, t, r)
      \/ RetryOrFail(t, r)
  BY DEF ReturnCycle, o
<1> HIDE DEF q, r
<1>5. ProbeOK(q) /\ ProbeOK(r)
  <2>1. q.returns <= MaxReturn + 1
    <3>1. p.returns \in Nat /\ MaxReturn \in Nat
      BY Limits, ProbeCounters DEF ProbeOK
    <3>2. QED
      BY <1>2, <3>1, BelowNext
  <2>2. /\ p.cycles <= MaxProbe
        /\ p.phase # "none" => p.path # <<>>
    BY DEF ProbeOK
  <2>3. ProbeOK(q)
    BY <1>2, <2>1, <2>2 DEF ProbeOK
  <2>4. QED
    BY <1>3, <2>3 DEF ProbeOK
<1>6. q.returns \in Nat /\ r.returns \in Nat /\ MaxReturn \in Nat
  BY <1>2, <1>3, Limits DEF Probe
<1>7. t.had => t.best >= Required(g)
  BY DEF TrackOK, Evident, Required
<1>8. QED
  BY <1>3, <1>4, <1>5, <1>6, <1>7, FailEnds, ContinueEnds, CompleteEnds, RetryEnds

LEMMA ProbeCycleEnds ==
  ASSUME NEW g, g.kind = "link", NEW t, TrackOK(t),
         NEW p, ProbeOK(p), p.returns <= MaxReturn, p.phase = "probe",
         NEW x \in Nat, NEW d \in Decisions, NEW i \in BOOLEAN,
         ProbeCycle(g, t, p, x, d, i)
  PROVE  Ends(g)
<1> DEFINE m == Moved(p, x)
           q == Decided(Stabilised(m, d, i))
<1>1. /\ m \in Probe /\ m.path # <<>> /\ m.phase = p.phase
      /\ m.cycles = p.cycles /\ m.returns = p.returns
  BY MovedKeeps DEF ProbeOK
<1>2. SameProbe(m, q)
  <2> HIDE DEF m
  <2>1. QED
    BY <1>1, ObservedKeeps
<1> HIDE DEF m
<1>3. \/ ReturnCycle(g, t, Returning(q), x, d, i)
      \/ ~ (q.cycles >= MaxProbe) /\ Continue(t, [q EXCEPT !.cycles = @ + 1])
  BY DEF ProbeCycle, m
<1> HIDE DEF q
<1>4. q \in Probe /\ q.path # <<>> /\ q.cycles <= MaxProbe /\ q.returns <= MaxReturn
  BY <1>1, <1>2 DEF SameProbe, ProbeOK
<1>5. CASE ReturnCycle(g, t, Returning(q), x, d, i)
  <2> DEFINE r == Returning(q)
  <2>1. /\ r \in Probe /\ r.path = q.path
        /\ r.cycles = q.cycles /\ r.returns = q.returns
    BY <1>4, ReturningKeeps
  <2> HIDE DEF r
  <2>2. ProbeOK(r)
    <3>1. q.returns \in Nat /\ MaxReturn \in Nat
      BY <1>4, Limits, ProbeCounters
    <3>2. q.returns <= MaxReturn + 1
      BY <1>4, <3>1, BelowNext
    <3>3. QED
      BY <1>4, <2>1, <3>2 DEF ProbeOK
  <2>3. ReturnCycle(g, t, r, x, d, i)
    BY <1>5 DEF r
  <2>4. QED
    BY <1>4, <2>1, <2>2, <2>3, ReturnCycleEnds
<1>6. CASE ~ (q.cycles >= MaxProbe) /\ Continue(t, [q EXCEPT !.cycles = @ + 1])
  <2> DEFINE n == q.cycles + 1
           r == [q EXCEPT !.cycles = n]
  <2>1. Continue(t, r)
    BY <1>6, Zenon
  <2>2. q.cycles \in Nat /\ q.returns \in Nat
    BY <1>4 DEF Probe
  <2>3. n \in Nat /\ n <= MaxProbe /\ q.returns <= MaxReturn + 1
    <3>1. ~ (q.cycles >= MaxProbe)
      BY <1>6, Zenon
    <3>2. MaxProbe \in Nat /\ MaxReturn \in Nat /\ q.returns <= MaxReturn
      BY <1>4, Limits
    <3>3. QED
      BY <2>2, <3>1, <3>2
  <2> HIDE DEF n
  <2>4. /\ r \in Probe /\ r.path = q.path /\ r.cycles = n /\ r.returns = q.returns
    BY <1>4, <2>3 DEF Probe
  <2> HIDE DEF r
  <2>5. ProbeOK(r)
    BY <1>4, <2>3, <2>4 DEF ProbeOK
  <2>6. QED
    BY <1>4, <2>1, <2>4, <2>5, ContinueEnds
<1>7. QED
  BY <1>3, <1>5, <1>6
\* The counters of the approach never touch the evidence.
LEMMA CountersOK ==
  ASSUME NEW t, TrackOK(t), NEW u \in Track,
         u.had = t.had, u.confirm = t.confirm, u.run = t.run, u.best = t.best,
         u.waypoint \in 1 .. Waypoints, u.cycles <= MaxWaypoint, u.verify <= MaxVerify
  PROVE  TrackOK(u)
BY DEF TrackOK, Evident

LEMMA TrackFields ==
  ASSUME NEW t, TrackOK(t)
  PROVE  /\ t \in Track /\ t.waypoint \in 1 .. Waypoints /\ t.waypoint \in Nat
         /\ t.cycles \in Nat /\ t.cycles <= MaxWaypoint
         /\ t.verify \in Nat /\ t.verify <= MaxVerify
         /\ t.open \in Nat /\ t.stable \in Nat /\ t.locked \in BOOLEAN
BY DEF TrackOK, Evident, Track

LEMMA SettledOK ==
  ASSUME NEW t, TrackOK(t), NEW still \in BOOLEAN
  PROVE  TrackOK(Settled(t, still))
<1> DEFINE n == IF still THEN t.stable + 1 ELSE 1
           l == n >= StableCycles
           u == [t EXCEPT !.stable = n, !.locked = l]
<1>1. n \in Nat /\ l \in BOOLEAN
  BY TrackFields
<1>2. Settled(t, still) = IF t.locked THEN t ELSE u
  BY DEF Settled
<1> HIDE DEF n, l
<1>3. t \in Track
  BY TrackFields
<1>4. /\ u \in Track /\ u.waypoint = t.waypoint /\ u.cycles = t.cycles /\ u.verify = t.verify
      /\ u.had = t.had /\ u.confirm = t.confirm /\ u.run = t.run /\ u.best = t.best
  BY <1>1, <1>3 DEF Track
<1> HIDE DEF u
<1>5. TrackOK(u)
  BY <1>4, TrackFields, CountersOK
<1>6. QED
  BY <1>2, <1>5

LEMMA UnsettledOK ==
  ASSUME NEW t, TrackOK(t) PROVE TrackOK(Unsettled(t))
<1> DEFINE u == Unsettled(t)
<1>1. t \in Track /\ 1 \in 1 .. Waypoints /\ 0 <= MaxWaypoint
  BY TrackFields, Limits
<1>2. /\ u \in Track /\ u.waypoint = 1 /\ u.cycles = 0 /\ u.verify = t.verify
      /\ u.had = t.had /\ u.confirm = t.confirm /\ u.run = t.run /\ u.best = t.best
  BY <1>1 DEF Track, Unsettled
<1> HIDE DEF u
<1>3. TrackOK(u)
  BY <1>1, <1>2, TrackFields, CountersOK
<1>4. QED
  BY <1>3 DEF u

\* The updates the cycles make to a record.
LEMMA CountingOK ==
  ASSUME NEW t, TrackOK(t)
  PROVE  /\ TrackOK([t EXCEPT !.cycles = 0])
         /\ TrackOK([t EXCEPT !.phase = "verify"])
         /\ TrackOK([t EXCEPT !.phase = "verify", !.cycles = 0])
         /\ t.waypoint # Waypoints => TrackOK([t EXCEPT !.waypoint = @ + 1, !.cycles = 0])
         /\ ~ (t.cycles + 1 > MaxWaypoint) => TrackOK([t EXCEPT !.cycles = @ + 1])
         /\ ~ (t.verify + 1 > MaxVerify) => TrackOK([t EXCEPT !.verify = @ + 1])
         /\ \A k \in {"track", "open"} : TrackOK([t EXCEPT !.open = @ + 1, !.phase = k])
<1>1. t \in Track /\ 0 <= MaxWaypoint
  BY TrackFields, Limits
<1>2. TrackOK([t EXCEPT !.cycles = 0])
  <2> DEFINE u == [t EXCEPT !.cycles = 0]
  <2>1. /\ u \in Track /\ u.waypoint = t.waypoint /\ u.cycles = 0 /\ u.verify = t.verify
        /\ u.had = t.had /\ u.confirm = t.confirm /\ u.run = t.run /\ u.best = t.best
    BY <1>1 DEF Track
  <2> HIDE DEF u
  <2>2. TrackOK(u)
    BY <1>1, <2>1, TrackFields, CountersOK
  <2>3. QED
    BY <2>2 DEF u
<1>3. TrackOK([t EXCEPT !.phase = "verify"])
  <2> DEFINE u == [t EXCEPT !.phase = "verify"]
  <2>1. /\ u \in Track /\ u.waypoint = t.waypoint /\ u.cycles = t.cycles
        /\ u.verify = t.verify
        /\ u.had = t.had /\ u.confirm = t.confirm /\ u.run = t.run /\ u.best = t.best
    BY <1>1 DEF Track
  <2> HIDE DEF u
  <2>2. TrackOK(u)
    BY <2>1, TrackFields, CountersOK
  <2>3. QED
    BY <2>2 DEF u
<1>4. TrackOK([t EXCEPT !.phase = "verify", !.cycles = 0])
  <2> DEFINE u == [t EXCEPT !.phase = "verify", !.cycles = 0]
  <2>1. /\ u \in Track /\ u.waypoint = t.waypoint /\ u.cycles = 0 /\ u.verify = t.verify
        /\ u.had = t.had /\ u.confirm = t.confirm /\ u.run = t.run /\ u.best = t.best
    BY <1>1 DEF Track
  <2> HIDE DEF u
  <2>2. TrackOK(u)
    BY <1>1, <2>1, TrackFields, CountersOK
  <2>3. QED
    BY <2>2 DEF u
<1>5. ASSUME t.waypoint # Waypoints
      PROVE  TrackOK([t EXCEPT !.waypoint = @ + 1, !.cycles = 0])
  <2> DEFINE w == t.waypoint + 1
             u == [t EXCEPT !.waypoint = w, !.cycles = 0]
  <2>1. w \in Nat /\ w \in 1 .. Waypoints
    BY <1>5, TrackFields, Limits
  <2> HIDE DEF w
  <2>2. /\ u \in Track /\ u.waypoint = w /\ u.cycles = 0 /\ u.verify = t.verify
        /\ u.had = t.had /\ u.confirm = t.confirm /\ u.run = t.run /\ u.best = t.best
    BY <1>1, <2>1 DEF Track
  <2> HIDE DEF u
  <2>3. TrackOK(u)
    BY <1>1, <2>1, <2>2, TrackFields, CountersOK
  <2>4. QED
    BY <2>3 DEF u, w
<1>6. ASSUME ~ (t.cycles + 1 > MaxWaypoint)
      PROVE  TrackOK([t EXCEPT !.cycles = @ + 1])
  <2> DEFINE n == t.cycles + 1
             u == [t EXCEPT !.cycles = n]
  <2>1. n \in Nat /\ n <= MaxWaypoint
    BY <1>6, TrackFields, Limits
  <2> HIDE DEF n
  <2>2. /\ u \in Track /\ u.waypoint = t.waypoint /\ u.cycles = n /\ u.verify = t.verify
        /\ u.had = t.had /\ u.confirm = t.confirm /\ u.run = t.run /\ u.best = t.best
    BY <1>1, <2>1 DEF Track
  <2> HIDE DEF u
  <2>3. TrackOK(u)
    BY <2>1, <2>2, TrackFields, CountersOK
  <2>4. QED
    BY <2>3 DEF u, n
<1>7. ASSUME ~ (t.verify + 1 > MaxVerify)
      PROVE  TrackOK([t EXCEPT !.verify = @ + 1])
  <2> DEFINE n == t.verify + 1
             u == [t EXCEPT !.verify = n]
  <2>1. n \in Nat /\ n <= MaxVerify
    BY <1>7, TrackFields, Limits
  <2> HIDE DEF n
  <2>2. /\ u \in Track /\ u.waypoint = t.waypoint /\ u.cycles = t.cycles /\ u.verify = n
        /\ u.had = t.had /\ u.confirm = t.confirm /\ u.run = t.run /\ u.best = t.best
    BY <1>1, <2>1 DEF Track
  <2> HIDE DEF u
  <2>3. TrackOK(u)
    BY <2>1, <2>2, TrackFields, CountersOK
  <2>4. QED
    BY <2>3 DEF u, n
<1>8. ASSUME NEW k \in {"track", "open"}
      PROVE  TrackOK([t EXCEPT !.open = @ + 1, !.phase = k])
  <2> DEFINE n == t.open + 1
             u == [t EXCEPT !.open = n, !.phase = k]
  <2>1. n \in Nat
    BY TrackFields
  <2> HIDE DEF n
  <2>2. /\ u \in Track /\ u.waypoint = t.waypoint /\ u.cycles = t.cycles
        /\ u.verify = t.verify
        /\ u.had = t.had /\ u.confirm = t.confirm /\ u.run = t.run /\ u.best = t.best
    BY <1>1, <2>1 DEF Track
  <2> HIDE DEF u
  <2>3. TrackOK(u)
    BY <2>1, <2>2, TrackFields, CountersOK
  <2>4. QED
    BY <2>3 DEF u, n
<1>9. QED
  BY <1>2, <1>3, <1>4, <1>5, <1>6, <1>7, <1>8, Zenon
LEMMA BeginProbeEnds ==
  ASSUME NEW g, NEW t, TrackOK(t), BeginProbe(g, t) PROVE Ends(g)
<1> DEFINE u == [t EXCEPT !.phase = "verify"]
           q == [NoProbe EXCEPT !.phase = "probe", !.path = <<0>>, !.cycles = 1]
<1>1. TrackOK(u)
  BY CountingOK
<1>2. ProbeOK(q) /\ q.returns = 0
  <2>1. NoProbe \in Probe /\ NoProbe.returns = 0
    BY NoProbeOK DEF ProbeOK
  <2>2. <<0>> \in Seq(Nat) /\ <<0>> # <<>>
    OBVIOUS
  <2>3. q \in Probe /\ q.path = <<0>> /\ q.cycles = 1 /\ q.returns = 0
    BY <2>1, <2>2 DEF Probe
  <2> HIDE DEF q
  <2>4. QED
    BY <2>2, <2>3, Limits DEF ProbeOK
<1>3. Continue(u, q) \/ Fail(u, NoProbe)
  BY Zenon DEF BeginProbe
<1> HIDE DEF u, q
<1>4. 0 <= MaxReturn
  BY Limits
<1>5. QED
  BY <1>1, <1>2, <1>3, <1>4, NoProbeOK, ContinueEnds, FailEnds

LEMMA LinkTrackEnds ==
  ASSUME NEW g, NEW t, TrackOK(t), ProbeOK(probe), probe.returns <= MaxReturn,
         LinkTrack(g, t)
  PROVE  Ends(g)
<1>1. PICK still \in BOOLEAN, far \in BOOLEAN, near \in BOOLEAN :
        LET s == Settled(t, still) IN
        IF ~s.locked THEN Continue(s, probe)
        ELSE IF far /\ s.waypoint < FirstClosing THEN Continue(Unsettled(s), probe)
        ELSE IF near /\ s.waypoint = Waypoints
        THEN BeginProbe(g, [s EXCEPT !.cycles = 0])
        ELSE IF near THEN Continue([s EXCEPT !.waypoint = @ + 1, !.cycles = 0], probe)
        ELSE IF s.cycles + 1 > MaxWaypoint THEN RetryOrFail(s, probe)
        ELSE Continue([s EXCEPT !.cycles = @ + 1], probe)
  BY ZenonT(40) DEF LinkTrack
<1> DEFINE s == Settled(t, still)
           z == [s EXCEPT !.cycles = 0]
           w == [s EXCEPT !.waypoint = @ + 1, !.cycles = 0]
           c == [s EXCEPT !.cycles = @ + 1]
<1>2. TrackOK(s)
  BY SettledOK
<1>3. \/ Continue(s, probe)
      \/ Continue(Unsettled(s), probe)
      \/ BeginProbe(g, z)
      \/ s.waypoint # Waypoints /\ Continue(w, probe)
      \/ RetryOrFail(s, probe)
      \/ ~ (s.cycles + 1 > MaxWaypoint) /\ Continue(c, probe)
  <2> HIDE DEF s
  <2>1. LET s1 == s IN
        IF ~s1.locked THEN Continue(s1, probe)
        ELSE IF far /\ s1.waypoint < FirstClosing THEN Continue(Unsettled(s1), probe)
        ELSE IF near /\ s1.waypoint = Waypoints
        THEN BeginProbe(g, [s1 EXCEPT !.cycles = 0])
        ELSE IF near THEN Continue([s1 EXCEPT !.waypoint = @ + 1, !.cycles = 0], probe)
        ELSE IF s1.cycles + 1 > MaxWaypoint THEN RetryOrFail(s1, probe)
        ELSE Continue([s1 EXCEPT !.cycles = @ + 1], probe)
    BY <1>1, Zenon DEF s
  <2>2. QED
    BY <2>1, Zenon
<1> HIDE DEF s
<1>4. /\ TrackOK(z)
      /\ s.waypoint # Waypoints => TrackOK(w)
      /\ ~ (s.cycles + 1 > MaxWaypoint) => TrackOK(c)
  BY <1>2, CountingOK, Zenon
<1>5. TrackOK(Unsettled(s))
  BY <1>2, UnsettledOK
<1> HIDE DEF z, w, c
<1>6. QED
  BY <1>2, <1>3, <1>4, <1>5, ContinueEnds, RetryEnds, BeginProbeEnds

LEMMA LinkVerifyEnds ==
  ASSUME NEW g, g.kind = "link", NEW t, TrackOK(t),
         ProbeOK(probe), probe.returns <= MaxReturn,
         NEW x \in Nat, NEW d \in Decisions, NEW i \in BOOLEAN,
         LinkVerify(g, t, x, d, i)
  PROVE  Ends(g)
BY ReturnCycleEnds, ProbeCycleEnds DEF LinkVerify

LEMMA UnlinkVerifyEnds ==
  ASSUME NEW g, NEW t, TrackOK(t), ProbeOK(probe), probe.returns <= MaxReturn,
         UnlinkVerify(t)
  PROVE  Ends(g)
<1> DEFINE v == [t EXCEPT !.verify = @ + 1]
<1>1. \/ RetryOrFail(t, probe)
      \/ ~ (t.verify + 1 > MaxVerify) /\ Continue(v, probe)
  BY Zenon DEF UnlinkVerify
<1>2. ~ (t.verify + 1 > MaxVerify) => TrackOK(v)
  BY CountingOK, Zenon
<1> HIDE DEF v
<1>3. QED
  BY <1>1, <1>2, ContinueEnds, RetryEnds

LEMMA UnlinkTrackEnds ==
  ASSUME NEW g, NEW t, TrackOK(t), ProbeOK(probe), probe.returns <= MaxReturn,
         UnlinkTrack(t)
  PROVE  Ends(g)
<1> DEFINE v == [t EXCEPT !.phase = "verify", !.cycles = 0]
           c == [t EXCEPT !.cycles = @ + 1]
<1>1. \/ UnlinkVerify(v)
      \/ RetryOrFail(t, probe)
      \/ ~ (t.cycles + 1 > MaxWaypoint) /\ Continue(c, probe)
  BY Zenon DEF UnlinkTrack
<1>2. TrackOK(v) /\ (~ (t.cycles + 1 > MaxWaypoint) => TrackOK(c))
  BY CountingOK, Zenon
<1> HIDE DEF v, c
<1>3. QED
  BY <1>1, <1>2, UnlinkVerifyEnds, ContinueEnds, RetryEnds

LEMMA UnlinkOpenEnds ==
  ASSUME NEW g, NEW t, TrackOK(t), ProbeOK(probe), probe.returns <= MaxReturn,
         UnlinkOpen(t)
  PROVE  Ends(g)
<1> DEFINE k == IF t.open + 1 >= OpenCycles THEN "track" ELSE "open"
           u == [t EXCEPT !.open = @ + 1, !.phase = k]
<1>1. k \in {"track", "open"}
  OBVIOUS
<1>2. Continue(u, probe)
  BY Zenon DEF UnlinkOpen
<1> HIDE DEF k
<1>3. TrackOK(u)
  BY <1>1, CountingOK, Zenon
<1> HIDE DEF u
<1>4. QED
  BY <1>2, <1>3, ContinueEnds
--------------------------------------------------------------------------------
(* The invariant *)

IInv ==
  /\ mode \in {"task", "recovery"}
  /\ phase \in {"idle", "executing", "reentry", "complete", "failed"}
  /\ todo \subseteq Goals /\ completed \subseteq Goals
  /\ attempts \in Nat /\ attempts <= MaxAttempts
  /\ total \in Nat /\ total <= MaxTotal + 1
  /\ reentries \in Nat /\ reentries <= MaxReentry
  /\ phase = "executing" => /\ todo # {} /\ total <= MaxTotal
                            /\ reentries = 0 /\ probe.returns <= MaxReturn
  /\ phase = "reentry" => reentries < MaxReentry
  /\ TrackOK(track) /\ ProbeOK(probe)
  /\ active \subseteq Frames /\ away \in Nat /\ basis \in [Goals -> Nat]
  /\ RepairEvidence

\* A cycle of update ends in one of the four ways.
LEMMA PursueEnds ==
  ASSUME IInv, PursueGoal PROVE Ends(ActiveGoal(todo)) /\ away' \in Nat
<1>1. PICK d \in Decisions, i \in BOOLEAN,
           x \in (IF probe.phase = "none" THEN {0} ELSE 0 .. Reach) :
        LET g == ActiveGoal(todo)
            satisfied == d = Expected(g) /\ i
            t == Recorded(Noted(track, satisfied), satisfied)
        IN  /\ away' = x
            /\ IF t.confirm >= MinConfirm /\ probe.phase = "none"
               THEN CompleteGoal(g, t, probe)
               ELSE \/ g.kind = "link" /\ t.phase = "track" /\ LinkTrack(g, t)
                    \/ g.kind = "link" /\ t.phase = "verify" /\ LinkVerify(g, t, x, d, i)
                    \/ g.kind = "unlink" /\ t.phase = "open" /\ UnlinkOpen(t)
                    \/ g.kind = "unlink" /\ t.phase = "track" /\ UnlinkTrack(t)
                    \/ g.kind = "unlink" /\ t.phase = "verify" /\ UnlinkVerify(t)
  BY Zenon DEF PursueGoal
<1> DEFINE g == ActiveGoal(todo)
           satisfied == d = Expected(g) /\ i
           t == Recorded(Noted(track, satisfied), satisfied)
<1>2. x \in Nat /\ away' = x
  BY <1>1
<1>3. \/ t.confirm >= MinConfirm /\ CompleteGoal(g, t, probe)
      \/ LinkTrack(g, t)
      \/ g.kind = "link" /\ LinkVerify(g, t, x, d, i)
      \/ UnlinkOpen(t)
      \/ UnlinkTrack(t)
      \/ UnlinkVerify(t)
  BY <1>1, Zenon
<1>4. TrackOK(t)
  <2>1. satisfied \in BOOLEAN
    OBVIOUS
  <2>2. TrackOK(track)
    BY DEF IInv
  <2> HIDE DEF satisfied
  <2>3. QED
    BY <2>1, <2>2, NotedOK
<1> HIDE DEF t
<1>5. ProbeOK(probe) /\ probe.returns <= MaxReturn
  BY DEF IInv, PursueGoal
<1>6. t.confirm >= MinConfirm => t.best >= Required(g)
  <2>1. t.confirm \in Nat /\ t.run \in Nat /\ t.best \in Nat /\ t.confirm <= t.run /\ t.run <= t.best
    BY <1>4 DEF TrackOK, Evident, Track
  <2>2. QED
    BY <2>1, Limits DEF Required
<1> HIDE DEF g
<1>7. Ends(g)
  <2>1. CASE t.confirm >= MinConfirm /\ CompleteGoal(g, t, probe)
    BY <1>4, <1>5, <1>6, <2>1, CompleteEnds
  <2>2. CASE LinkTrack(g, t)
    BY <1>4, <1>5, <2>2, LinkTrackEnds
  <2>3. CASE g.kind = "link" /\ LinkVerify(g, t, x, d, i)
    BY <1>2, <1>4, <1>5, <2>3, LinkVerifyEnds
  <2>4. CASE UnlinkOpen(t)
    BY <1>4, <1>5, <2>4, UnlinkOpenEnds
  <2>5. CASE UnlinkTrack(t)
    BY <1>4, <1>5, <2>5, UnlinkTrackEnds
  <2>6. CASE UnlinkVerify(t)
    BY <1>4, <1>5, <2>6, UnlinkVerifyEnds
  <2>7. QED
    BY <1>3, <2>1, <2>2, <2>3, <2>4, <2>5, <2>6
<1>8. QED
  BY <1>2, <1>7 DEF g
LEMMA StartOK ==
  ASSUME NEW S, S \subseteq Goals, S # {}, NEW n, StartGoal(S, n)
  PROVE  TrackOK(track') /\ ProbeOK(probe') /\ probe'.returns = 0 /\ attempts' = n
<1>1. ActiveGoal(S).kind \in {"link", "unlink"}
  BY ActiveGoalIsOne DEF Goals
<1>2. track' = FreshTrack(ActiveGoal(S).kind) /\ probe' = NoProbe /\ attempts' = n
  BY DEF StartGoal
<1>3. QED
  BY <1>1, <1>2, FreshTrackOK, NoProbeOK

\* Completing the goal records the evidence it was completed on.
LEMMA CompleteKeepsEvidence ==
  ASSUME IInv, NEW g \in Goals, NEW u, TrackOK(u), NEW q, CompleteGoal(g, u, q),
         u.best >= Required(g)
  PROVE  /\ RepairEvidence'
         /\ completed' \subseteq Goals /\ active' \subseteq Frames
         /\ basis' \in [Goals -> Nat]
<1>1. u.best \in Nat
  BY DEF TrackOK, Evident, Track
<1>2. basis' = [basis EXCEPT ![g] = u.best] /\ basis \in [Goals -> Nat]
  BY DEF CompleteGoal, IInv
<1>3. /\ basis' \in [Goals -> Nat]
      /\ basis'[g] = u.best
      /\ \A h \in Goals : h # g => basis'[h] = basis[h]
  BY <1>1, <1>2
<1>4. /\ completed' = completed \cup {g} /\ completed \subseteq Goals
      /\ active' = IF g.kind = "unlink" THEN active \ {g.frame}
                   ELSE IF g.frame \in Pending THEN active \cup {g.frame} ELSE active
      /\ active \subseteq Frames /\ g.frame \in Frames /\ g.kind \in {"link", "unlink"}
      /\ RepairEvidence
  BY DEF CompleteGoal, IInv, Goals
<1>5. \A h \in completed' : basis'[h] >= IF h.kind = "unlink" THEN MinConfirm ELSE 1
  BY <1>3, <1>4 DEF Required, RepairEvidence
<1>6. ASSUME NEW f \in active'
      PROVE  basis'[[frame |-> f, kind |-> "link"]] >= 1
  <2> DEFINE h == [frame |-> f, kind |-> "link"]
  <2>1. h \in Goals
    BY <1>4 DEF Goals
  <2>2. CASE f \in active /\ h # g
    BY <1>3, <1>4, <2>1, <2>2 DEF RepairEvidence
  <2>3. CASE f \in active /\ h = g
    <3>1. g.kind = "link"
      BY <2>3
    <3>2. QED
      BY <1>3, <2>3, <3>1 DEF Required
  <2>4. CASE f \notin active
    <3>1. g.kind = "link" /\ f = g.frame
      BY <1>4, <2>4
    <3>2. g = h
      BY <3>1 DEF Goals
    <3>3. QED
      BY <1>3, <3>1, <3>2 DEF Required
  <2>5. QED
    BY <2>2, <2>3, <2>4
<1>7. QED
  BY <1>3, <1>4, <1>5, <1>6 DEF RepairEvidence

LEMMA PursueKeeps == ASSUME IInv, PursueGoal PROVE IInv'
<1> DEFINE g == ActiveGoal(todo)
<1>1. /\ todo # {} /\ todo \subseteq Goals /\ reentries = 0
      /\ mode \in {"task", "recovery"} /\ phase = "executing"
      /\ total < MaxTotal /\ total \in Nat
      /\ mode' = mode /\ reentries' = reentries /\ total' = total + 1
  BY DEF IInv, PursueGoal
<1>2. g \in todo
  BY <1>1, ActiveGoalIsOne
<1>3. away' \in Nat
  BY PursueEnds
<1>4. PICK u, q : EndsWith(g, u, q)
  BY PursueEnds DEF Ends
<1> HIDE DEF g
<1>5. TrackOK(u) /\ ProbeOK(q)
  BY <1>4 DEF EndsWith
<1>6. /\ total' \in Nat /\ total' <= MaxTotal /\ total' <= MaxTotal + 1
      /\ reentries' \in Nat /\ reentries' = 0 /\ reentries' < MaxReentry
      /\ reentries' <= MaxReentry
  BY <1>1, Limits
<1>7. attempts \in Nat /\ attempts <= MaxAttempts
  BY DEF IInv
<1>8. CASE UNCHANGED <<todo, completed, active, basis>>
  <2>1. /\ completed' \subseteq Goals /\ active' \subseteq Frames
        /\ basis' \in [Goals -> Nat] /\ RepairEvidence'
        /\ todo' \subseteq Goals /\ todo' # {}
    BY <1>1, <1>8 DEF IInv, RepairEvidence
  <2>2. /\ phase' \in {"executing", "failed"}
        /\ phase' = "executing" => probe'.returns <= MaxReturn
        /\ TrackOK(track') /\ ProbeOK(probe')
        /\ attempts' \in Nat /\ attempts' <= MaxAttempts
    <3>1. CASE Continue(u, q) /\ q.returns <= MaxReturn
      BY <1>1, <1>5, <1>7, <3>1 DEF Continue, progress
    <3>2. CASE Fail(u, q)
      BY <1>5, <1>7, <3>2 DEF Fail, progress
    <3>3. CASE attempts < MaxAttempts /\ StartGoal(todo, attempts + 1) /\ UNCHANGED phase
      BY <1>1, <1>7, <3>3, StartOK, Limits
    <3>4. CASE CompleteGoal(g, u, q)
      <4>1. completed' = completed \cup {g} /\ todo' = todo \ {g}
        BY <3>4 DEF CompleteGoal
      <4>2. QED
        BY <1>2, <1>8, <4>1
    <3>5. QED
      BY <1>4, <3>1, <3>2, <3>3, <3>4 DEF EndsWith
  <2>3. QED
    BY <1>1, <1>3, <1>6, <2>1, <2>2 DEF IInv
<1>9. CASE CompleteGoal(g, u, q) /\ u.best >= Required(g)
  <2>1. /\ completed' \subseteq Goals /\ active' \subseteq Frames
        /\ basis' \in [Goals -> Nat] /\ RepairEvidence'
    BY <1>1, <1>2, <1>5, <1>9, CompleteKeepsEvidence
  <2>2. todo' = todo \ {g} /\ todo' \subseteq Goals
    BY <1>1, <1>9 DEF CompleteGoal
  <2>3. CASE todo' = {}
    <3>1. phase' = "reentry" /\ attempts' = 0 /\ track' = u /\ probe' = q
      BY <1>9, <2>3 DEF CompleteGoal
    <3>2. attempts' \in Nat /\ attempts' <= MaxAttempts
      BY <3>1, Limits
    <3>3. QED
      BY <1>1, <1>3, <1>5, <1>6, <2>1, <2>2, <3>1, <3>2 DEF IInv
  <2>4. CASE todo' # {}
    <3>1. phase' = phase /\ StartGoal(todo', 1)
      BY <1>9, <2>4 DEF CompleteGoal
    <3>2. TrackOK(track') /\ ProbeOK(probe') /\ probe'.returns = 0 /\ attempts' = 1
      BY <2>2, <2>4, <3>1, StartOK
    <3>3. attempts' \in Nat /\ attempts' <= MaxAttempts /\ probe'.returns <= MaxReturn
      BY <3>2, Limits
    <3>4. QED
      BY <1>1, <1>3, <1>6, <2>1, <2>2, <2>4, <3>1, <3>2, <3>3 DEF IInv
  <2>5. QED
    BY <2>3, <2>4
<1>10. QED
  <2>1. \/ Continue(u, q)
        \/ Fail(u, q)
        \/ UNCHANGED <<todo, completed, active, basis>>
        \/ CompleteGoal(g, u, q) /\ u.best >= Required(g)
    BY <1>4 DEF EndsWith
  <2>2. Continue(u, q) \/ Fail(u, q) => UNCHANGED <<todo, completed, active, basis>>
    BY DEF Continue, Fail, progress
  <2>3. QED
    BY <1>8, <1>9, <2>1, <2>2

LEMMA InitEstablishes == Init => IInv
<1> SUFFICES ASSUME Init PROVE IInv
  OBVIOUS
<1>1. TrackOK(track) /\ ProbeOK(probe)
  BY FreshTrackOK, NoProbeOK DEF Init
<1>2. QED
  BY <1>1, Limits DEF Init, IInv, RepairEvidence

LEMMA OthersKeep ==
  ASSUME IInv, \/ BeginRecovery \/ AbandonGoal \/ \E s \in BOOLEAN : Reenter(s)
               \/ Reset \/ UNCHANGED vars
  PROVE  IInv'
<1>1. CASE BeginRecovery
  <2>1. PICK I \in Intents :
          LET S == I \cap Learned IN
          /\ mode' = "recovery"
          /\ phase' = IF S = {} THEN "reentry" ELSE "executing"
          /\ todo' = S /\ completed' = {} /\ total' = 0 /\ reentries' = 0
          /\ IF S = {}
             THEN attempts' = 0 /\ track' = FreshTrack("link") /\ probe' = NoProbe
             ELSE StartGoal(S, 1)
          /\ away' = 0
          /\ UNCHANGED <<active, basis>>
    BY <1>1 DEF BeginRecovery
  <2> DEFINE S == I \cap Learned
  <2>2. S \subseteq Goals
    BY ConstantsAssumption
  <2> HIDE DEF S
  <2>3. /\ todo' = S /\ completed' = {} /\ total' = 0 /\ reentries' = 0
        /\ mode' = "recovery" /\ away' = 0 /\ UNCHANGED <<active, basis>>
        /\ phase' = IF S = {} THEN "reentry" ELSE "executing"
        /\ IF S = {}
           THEN attempts' = 0 /\ track' = FreshTrack("link") /\ probe' = NoProbe
           ELSE StartGoal(S, 1)
    BY <2>1 DEF S
  <2>4. /\ TrackOK(track') /\ ProbeOK(probe') /\ probe'.returns = 0
        /\ attempts' \in {0, 1}
    BY <2>2, <2>3, StartOK, FreshTrackOK, NoProbeOK
  <2>5. attempts' \in Nat /\ attempts' <= MaxAttempts /\ probe'.returns <= MaxReturn
    BY <2>4, Limits
  <2>6. RepairEvidence' /\ active' \subseteq Frames /\ basis' \in [Goals -> Nat]
    BY <2>3 DEF IInv, RepairEvidence
  <2>7. QED
    BY <2>2, <2>3, <2>4, <2>5, <2>6, Limits DEF IInv
<1>2. CASE AbandonGoal
  <2>1. /\ phase = "executing" /\ total' = total + 1 /\ phase' = "failed"
        /\ track' = track /\ probe' = probe
        /\ UNCHANGED <<mode, reentries, away, todo, completed, attempts, active, basis>>
    BY <1>2 DEF AbandonGoal, Fail, progress
  <2>2. total \in Nat /\ total <= MaxTotal
    BY <2>1 DEF IInv
  <2>3. total' \in Nat /\ total' <= MaxTotal + 1
    BY <2>1, <2>2, Limits
  <2>4. QED
    BY <2>1, <2>3 DEF IInv, RepairEvidence
<1>3. ASSUME NEW s \in BOOLEAN, Reenter(s) PROVE IInv'
  <2>1. /\ phase = "reentry" /\ reentries' = reentries + 1
        /\ phase' \in {"complete", "failed", "reentry"}
        /\ phase' = "reentry" => ~ (reentries + 1 >= MaxReentry)
        /\ mode' \in {"task", mode}
        /\ UNCHANGED <<total, track, probe, away, todo, completed, attempts, active, basis>>
    BY <1>3 DEF Reenter, progress
  <2>2. reentries \in Nat /\ reentries < MaxReentry /\ MaxReentry \in Nat
    BY <2>1, Limits DEF IInv
  <2>3. /\ reentries' \in Nat /\ reentries' <= MaxReentry
        /\ phase' = "reentry" => reentries' < MaxReentry
    BY <2>1, <2>2
  <2>4. QED
    BY <2>1, <2>3 DEF IInv, RepairEvidence
<1>4. CASE Reset
  <2>1. TrackOK(track') /\ ProbeOK(probe')
    BY <1>4, FreshTrackOK, NoProbeOK DEF Reset
  <2>2. QED
    BY <1>4, <2>1, Limits DEF Reset, IInv, RepairEvidence
<1>5. CASE UNCHANGED vars
  BY <1>5 DEF vars, progress, IInv, RepairEvidence
<1>6. QED
  BY <1>1, <1>2, <1>3, <1>4, <1>5

LEMMA Invariant == Spec => []IInv
<1>1. IInv /\ [Next]_vars => IInv'
  BY PursueKeeps, OthersKeep DEF Next, Cycle
<1>2. QED
  BY InitEstablishes, <1>1, PTL DEF Spec

--------------------------------------------------------------------------------
(* Every variable keeps its type, whatever the frames and the limits are.  *)
THEOREM TypesAreCorrect == Spec => []TypeOK
<1>1. IInv => TypeOK
  <2>1. IInv => track \in Track /\ probe \in Probe
    BY DEF IInv, TrackOK, Evident, ProbeOK
  <2>2. QED
    BY <2>1 DEF IInv, TypeOK, Track, Probe
<1>2. QED
  BY Invariant, <1>1, PTL

(* No counter of a recovery ever overruns the limit RecoveryConfig and     *)
(* RelationVerificationConfig set it: every wait ends with a decision.     *)
THEOREM LimitsAreHard == Spec => []HardLimits
<1>1. IInv => HardLimits
  <2>1. IInv => /\ track.waypoint \in 1 .. Waypoints
                /\ track.cycles <= MaxWaypoint /\ track.verify <= MaxVerify
                /\ probe.cycles <= MaxProbe /\ probe.returns <= MaxReturn + 1
    BY DEF IInv, TrackOK, ProbeOK
  <2>2. IInv => attempts <= MaxAttempts /\ reentries <= MaxReentry /\ total <= MaxTotal + 1
    BY DEF IInv
  <2>3. \A w \in 1 .. Waypoints : w <= Waypoints
    BY Limits
  <2>4. QED
    BY <2>1, <2>2, <2>3 DEF HardLimits
<1>2. QED
  BY Invariant, <1>1, PTL

(* No goal is completed and no Pending anchor activated by _complete_goal  *)
(* without informative evidence of the relation in that very attempt.      *)
THEOREM RepairsAreEvident == Spec => []RepairEvidence
<1>1. IInv => RepairEvidence
  BY DEF IInv
<1>2. QED
  BY Invariant, <1>1, PTL

(* While a relation that occupies the gripper is still to be released, the *)
(* goal RelationGoalPlanner puts first is never to grasp.                  *)
THEOREM ReleasesComeFirst == Spec => []ReleaseBeforeGrasp
<1>1. IInv => ReleaseBeforeGrasp
  <2> SUFFICES ASSUME IInv, phase = "executing", ActiveGoal(todo).kind = "link",
                      NEW h \in todo
               PROVE  h.kind = "link"
    BY DEF ReleaseBeforeGrasp
  <2>1. todo \subseteq Goals /\ todo # {}
    BY DEF IInv
  <2>2. Before(ActiveGoal(todo), h)
    BY <2>1, ActiveGoalIsOne
  <2>3. QED
    BY <2>2 DEF Before
<1>2. QED
  BY Invariant, <1>1, PTL
--------------------------------------------------------------------------------
(* The way of a probe *)

\* The path of a probe starts at its entry, at distance 0, and its way back ends there.
Homing(q) ==
  /\ q.phase \in {"probe", "return"} /\ q.path # <<>> /\ q.path[1] = 0
  /\ q.phase = "return" => q.back # <<>> /\ q.back[Len(q.back)] = 0

\* A probe belongs to the verification of a LINK goal, and one that has ended without
\* failure has left the arm at its entry.
BackHome ==
  /\ phase = "executing" =>
       (probe.phase # "none" <=> track.phase = "verify" /\ ActiveGoal(todo).kind = "link")
  /\ phase = "executing" /\ probe.phase # "none" => Homing(probe)
  /\ phase = "reentry" /\ probe.phase # "none" => away <= Tolerance

\* The record and the probe with which a cycle that neither fails nor gives up goes on.
Pursued(g, u, q) == /\ q.phase # "none" <=> u.phase = "verify" /\ g.kind = "link"
                    /\ q.phase # "none" => Homing(q)
                    /\ probe.phase # "none" => q.phase # "none"

\* A probe is left for a retry or for the next goal only at its entry, x being where the
\* arm is.
HomeEnds(g, x) ==
  \/ \E u, q : Fail(u, q)
  \/ \E u, q : Continue(u, q) /\ Pursued(g, u, q)
  \/ /\ probe.phase # "none" => x <= Tolerance
     /\ \E n : StartGoal(todo, n) /\ UNCHANGED <<phase, todo>>
  \/ /\ probe.phase # "none" => x <= Tolerance
     /\ \E u, q : CompleteGoal(g, u, q) /\ (q.phase # "none" => x <= Tolerance)

LEMMA MovedHoming ==
  ASSUME NEW p \in Probe, p.path # <<>>, p.path[1] = 0, NEW x \in Nat
  PROVE  Moved(p, x).path[1] = 0
<1>1. p.path \in Seq(Nat) /\ Len(p.path) \in Nat \ {0}
  BY EmptySeq DEF Probe
<1> DEFINE longer == Append(p.path, x)
           motion == Least(p.motion + Distance(x, p.path[Len(p.path)]), MinMotion)
<1>2. longer[1] = 0
  BY <1>1
<1>3. CASE x = p.path[Len(p.path)]
  BY <1>3 DEF Moved
<1>4. CASE x # p.path[Len(p.path)]
  <2>1. Moved(p, x) = [p EXCEPT !.path = longer, !.motion = motion]
    BY <1>4 DEF Moved
  <2> HIDE DEF longer, motion
  <2>2. QED
    BY <1>2, <2>1 DEF Probe
<1>5. QED
  BY <1>3, <1>4

LEMMA ReturningHoming ==
  ASSUME NEW p \in Probe, p.path # <<>>, p.path[1] = 0
  PROVE  Homing(Returning(p))
<1> DEFINE n == Len(p.path)
           backwards == [k \in 1 .. n - 1 |-> p.path[n - k]]
           back == IF n = 1 THEN <<p.path[1]>> ELSE backwards
<1>1. p.path \in Seq(Nat) /\ n \in Nat \ {0}
  BY EmptySeq DEF Probe
<1>2. back # <<>> /\ back[Len(back)] = 0
  <2>1. CASE n = 1
    BY <2>1
  <2>2. CASE n # 1
    <3> HIDE DEF n
    <3>1. n - 1 \in Nat /\ n - 1 \in 1 .. n - 1 /\ n - (n - 1) = 1
      BY <1>1, <2>2
    <3>2. Len(backwards) = n - 1 /\ backwards[n - 1] = p.path[1]
      BY <3>1
    <3>3. back = backwards
      BY <2>2
    <3> HIDE DEF back, backwards
    <3>4. Len(back) # 0 /\ back[Len(back)] = 0
      BY <1>1, <2>2, <3>2, <3>3
    <3>5. QED
      BY <3>4
  <2>3. QED
    BY <2>1, <2>2
<1>3. Returning(p) = [p EXCEPT !.phase = "return", !.back = back]
  BY DEF Returning
<1> HIDE DEF back
<1>4. Returning(p).back = back
  BY <1>3 DEF Probe
<1>5. QED
  BY <1>2, <1>4, ReturningKeeps DEF Homing

\* The last waypoint of the way back is dropped only where the arm began.
LEMMA DroppedHoming ==
  ASSUME NEW p \in Probe, NEW x \in Nat, p.back # <<>>, p.back[Len(p.back)] = 0
  PROVE  LET q == Dropped(p, x) IN
         IF q.back = <<>> THEN x <= Tolerance ELSE q.back[Len(q.back)] = 0
<1> DEFINE N == Len(p.back)
           reached == {k \in 0 .. N :
                         \A j \in 1 .. k : Distance(x, p.back[j]) <= Tolerance}
           n == CHOOSE k \in reached : \A j \in reached : j <= k
           rest == SubSeq(p.back, n + 1, N)
<1>1. p.back \in Seq(Nat) /\ N \in Nat \ {0}
  BY EmptySeq DEF Probe
<1>2. n \in 0 .. N /\ \A j \in 1 .. n : Distance(x, p.back[j]) <= Tolerance
  <2>1. reached \subseteq 0 .. N /\ 0 \in reached
    BY <1>1
  <2>2. \E k \in reached : \A j \in reached : j <= k
    <3> HIDE DEF reached, N
    <3>1. QED
      BY <1>1, <2>1, Maximum
  <2>3. n \in reached
    BY <2>2, Zenon
  <2> HIDE DEF n
  <2>4. QED
    BY <2>1, <2>3
<1> HIDE DEF n
<1>3. Dropped(p, x).back = rest
  <2>1. Dropped(p, x) = [p EXCEPT !.back = rest]
    BY DEF Dropped, n
  <2> HIDE DEF rest
  <2>2. QED
    BY <2>1 DEF Probe
<1>4. CASE n = N
  <2>1. N \in 1 .. n
    BY <1>1, <1>4
  <2>2. Distance(x, 0) <= Tolerance
    BY <1>2, <2>1
  <2>3. x <= Tolerance
    BY <2>2 DEF Distance
  <2>4. rest = <<>>
    BY <1>1, <1>4
  <2>5. QED
    BY <1>3, <2>3, <2>4
<1>5. CASE n # N
  <2> HIDE DEF N
  <2>1. n + 1 \in 1 .. N /\ n + 1 <= N /\ N - n \in 1 .. N /\ n + (N - n) = N
    BY <1>1, <1>2, <1>5
  <2>2. Len(rest) = N - n /\ rest[N - n] = p.back[N]
    BY <1>1, <1>2, <2>1 DEF N
  <2> HIDE DEF rest
  <2>3. rest # <<>>
    BY <2>1, <2>2
  <2>4. QED
    BY <1>3, <2>2, <2>3 DEF N
<1>6. QED
  BY <1>4, <1>5

LEMMA FailHomes ==
  ASSUME NEW g, NEW x, NEW u, NEW q, Fail(u, q) PROVE HomeEnds(g, x)
BY DEF HomeEnds

LEMMA ContinueHomes ==
  ASSUME NEW g, NEW x, NEW u, NEW q, Continue(u, q), Pursued(g, u, q)
  PROVE  HomeEnds(g, x)
BY DEF HomeEnds

LEMMA RetryHomes ==
  ASSUME NEW g, NEW x, probe.phase # "none" => x <= Tolerance,
         NEW u, NEW q, RetryOrFail(u, q)
  PROVE  HomeEnds(g, x)
BY DEF HomeEnds, RetryOrFail

LEMMA ReturnCycleHomes ==
  ASSUME NEW g, g.kind = "link", NEW t, t.phase = "verify",
         NEW p \in Probe, p.phase = "return", Homing(p),
         NEW x \in Nat, NEW d \in Decisions, NEW i \in BOOLEAN,
         ReturnCycle(g, t, p, x, d, i)
  PROVE  HomeEnds(g, x)
<1> DEFINE o == Decided(Stabilised(p, d, i))
           q == [o EXCEPT !.returns = @ + 1]
           r == Dropped(q, x)
<1>1. SameProbe(p, o)
  BY ObservedKeeps
<1>2. /\ q \in Probe /\ q.phase = "return" /\ q.path = p.path /\ q.back = p.back
  <2> HIDE DEF o
  <2> DEFINE n == o.returns + 1
  <2>1. o \in Probe /\ o.returns \in Nat
    BY <1>1 DEF SameProbe, Probe
  <2>2. n \in Nat
    BY <2>1
  <2>3. q = [o EXCEPT !.returns = n]
    OBVIOUS
  <2> HIDE DEF n, q
  <2>4. q \in Probe /\ q.phase = o.phase /\ q.path = o.path /\ q.back = o.back
    BY <2>1, <2>2, <2>3 DEF Probe
  <2>5. QED
    BY <1>1, <2>4 DEF SameProbe
<1> HIDE DEF o
<1>3. q.back # <<>> /\ q.back[Len(q.back)] = 0 /\ q.path # <<>> /\ q.path[1] = 0
  BY <1>2 DEF Homing
<1>4. /\ r.phase = "return" /\ r.path = q.path
      /\ IF r.back = <<>> THEN x <= Tolerance ELSE r.back[Len(r.back)] = 0
  <2> HIDE DEF q
  <2>1. QED
    BY <1>2, <1>3, DroppedKeeps, DroppedHoming
<1>5. \/ Fail(t, q)
      \/ r.back # <<>> /\ Continue(t, r)
      \/ r.back = <<>> /\ CompleteGoal(g, t, r)
      \/ r.back = <<>> /\ RetryOrFail(t, r)
  BY DEF ReturnCycle, o
<1> HIDE DEF q, r
<1>6. CASE r.back # <<>> /\ Continue(t, r)
  <2>1. Homing(r)
    BY <1>3, <1>4, <1>6 DEF Homing
  <2>2. Pursued(g, t, r)
    BY <1>4, <2>1 DEF Pursued
  <2>3. QED
    BY <1>6, <2>2, ContinueHomes
<1>7. CASE r.back = <<>> /\ CompleteGoal(g, t, r)
  BY <1>4, <1>7 DEF HomeEnds
<1>8. CASE r.back = <<>> /\ RetryOrFail(t, r)
  BY <1>4, <1>8, RetryHomes
<1>9. QED
  BY <1>5, <1>6, <1>7, <1>8, FailHomes

LEMMA ProbeCycleHomes ==
  ASSUME NEW g, g.kind = "link", NEW t, t.phase = "verify",
         NEW p \in Probe, p.phase = "probe", Homing(p),
         NEW x \in Nat, NEW d \in Decisions, NEW i \in BOOLEAN,
         ProbeCycle(g, t, p, x, d, i)
  PROVE  HomeEnds(g, x)
<1> DEFINE m == Moved(p, x)
           q == Decided(Stabilised(m, d, i))
<1>1. m \in Probe /\ m.path # <<>> /\ m.phase = "probe" /\ m.path[1] = 0
  BY MovedKeeps, MovedHoming DEF Homing
<1>2. SameProbe(m, q)
  <2> HIDE DEF m
  <2>1. QED
    BY <1>1, ObservedKeeps
<1> HIDE DEF m
<1>3. \/ ReturnCycle(g, t, Returning(q), x, d, i)
      \/ Continue(t, [q EXCEPT !.cycles = @ + 1])
  BY DEF ProbeCycle, m
<1> HIDE DEF q
<1>4. q \in Probe /\ q.path # <<>> /\ q.phase = "probe" /\ q.path[1] = 0
  BY <1>1, <1>2 DEF SameProbe
<1>5. CASE ReturnCycle(g, t, Returning(q), x, d, i)
  <2> DEFINE r == Returning(q)
  <2>1. r \in Probe /\ r.phase = "return" /\ Homing(r)
    BY <1>4, ReturningKeeps, ReturningHoming
  <2> HIDE DEF r
  <2>2. ReturnCycle(g, t, r, x, d, i)
    BY <1>5 DEF r
  <2>3. QED
    BY <2>1, <2>2, ReturnCycleHomes
<1>6. CASE Continue(t, [q EXCEPT !.cycles = @ + 1])
  <2> DEFINE r == [q EXCEPT !.cycles = @ + 1]
  <2>1. r.phase = "probe" /\ r.path = q.path
    BY <1>4 DEF Probe
  <2> HIDE DEF r
  <2>2. Homing(r) /\ Pursued(g, t, r)
    BY <1>4, <2>1 DEF Homing, Pursued
  <2>3. Continue(t, r)
    BY <1>6 DEF r
  <2>4. QED
    BY <2>2, <2>3, ContinueHomes
<1>7. QED
  BY <1>3, <1>5, <1>6

\* A record whose phase is not that of a verification goes on without a probe.
LEMMA ApproachHomes ==
  ASSUME NEW g, NEW x, probe.phase = "none", NEW u,
         u.phase # "verify" \/ g.kind # "link", Continue(u, probe)
  PROVE  HomeEnds(g, x)
<1>1. Pursued(g, u, probe)
  BY DEF Pursued
<1>2. QED
  BY <1>1, ContinueHomes

LEMMA LinkTrackHomes ==
  ASSUME NEW g, g.kind = "link", NEW t, TrackOK(t), t.phase = "track",
         probe.phase = "none", NEW x, LinkTrack(g, t)
  PROVE  HomeEnds(g, x)
<1>1. PICK still \in BOOLEAN, far \in BOOLEAN, near \in BOOLEAN :
        LET s == Settled(t, still) IN
        IF ~s.locked THEN Continue(s, probe)
        ELSE IF far /\ s.waypoint < FirstClosing THEN Continue(Unsettled(s), probe)
        ELSE IF near /\ s.waypoint = Waypoints
        THEN BeginProbe(g, [s EXCEPT !.cycles = 0])
        ELSE IF near THEN Continue([s EXCEPT !.waypoint = @ + 1, !.cycles = 0], probe)
        ELSE IF s.cycles + 1 > MaxWaypoint THEN RetryOrFail(s, probe)
        ELSE Continue([s EXCEPT !.cycles = @ + 1], probe)
  BY ZenonT(40) DEF LinkTrack
<1> DEFINE s == Settled(t, still)
           z == [s EXCEPT !.cycles = 0]
           w == [s EXCEPT !.waypoint = @ + 1, !.cycles = 0]
           c == [s EXCEPT !.cycles = @ + 1]
           y == [z EXCEPT !.phase = "verify"]
           q == [NoProbe EXCEPT !.phase = "probe", !.path = <<0>>, !.cycles = 1]
<1>2. TrackOK(s) /\ s.phase = "track"
  <2>1. s.phase = t.phase
    BY TrackFields DEF Settled, Track
  <2>2. QED
    BY <2>1, SettledOK
<1>3. \/ Continue(s, probe)
      \/ Continue(Unsettled(s), probe)
      \/ BeginProbe(g, z)
      \/ Continue(w, probe)
      \/ RetryOrFail(s, probe)
      \/ Continue(c, probe)
  <2> HIDE DEF s
  <2>1. LET s1 == s IN
        IF ~s1.locked THEN Continue(s1, probe)
        ELSE IF far /\ s1.waypoint < FirstClosing THEN Continue(Unsettled(s1), probe)
        ELSE IF near /\ s1.waypoint = Waypoints
        THEN BeginProbe(g, [s1 EXCEPT !.cycles = 0])
        ELSE IF near THEN Continue([s1 EXCEPT !.waypoint = @ + 1, !.cycles = 0], probe)
        ELSE IF s1.cycles + 1 > MaxWaypoint THEN RetryOrFail(s1, probe)
        ELSE Continue([s1 EXCEPT !.cycles = @ + 1], probe)
    BY <1>1, Zenon DEF s
  <2>2. QED
    BY <2>1, Zenon
<1> HIDE DEF s
<1>4. /\ Unsettled(s).phase = "track" /\ w.phase = "track" /\ c.phase = "track"
      /\ z \in Track /\ y.phase = "verify"
  BY <1>2, TrackFields DEF Unsettled, Track
<1>5. CASE BeginProbe(g, z)
  <2>1. Continue(y, q) \/ Fail(y, NoProbe)
    BY <1>5, Zenon DEF BeginProbe
  <2>2. q.phase = "probe" /\ q.path = <<0>>
    BY DEF NoProbe
  <2> HIDE DEF q, y
  <2>3. Homing(q)
    BY <2>2 DEF Homing
  <2>4. Pursued(g, y, q)
    BY <1>4, <2>2, <2>3 DEF Pursued
  <2>5. QED
    BY <2>1, <2>4, ContinueHomes, FailHomes
<1> HIDE DEF z, w, c
<1>6. CASE RetryOrFail(s, probe)
  BY <1>6, RetryHomes
<1>7. QED
  BY <1>2, <1>3, <1>4, <1>5, <1>6, ApproachHomes

LEMMA UnlinkHomes ==
  ASSUME NEW g, g.kind = "unlink", NEW t, NEW x, probe.phase = "none",
         UnlinkOpen(t) \/ UnlinkTrack(t) \/ UnlinkVerify(t)
  PROVE  HomeEnds(g, x)
<1>1. (\E u : Continue(u, probe)) \/ \E u : RetryOrFail(u, probe)
  BY Zenon DEF UnlinkOpen, UnlinkTrack, UnlinkVerify
<1>2. QED
  BY <1>1, ApproachHomes, RetryHomes

\* A cycle of update keeps a probe on its way or ends it at its entry.
LEMMA PursueHomes ==
  ASSUME IInv, BackHome, PursueGoal
  PROVE  away' \in Nat /\ HomeEnds(ActiveGoal(todo), away')
<1>1. PICK d \in Decisions, i \in BOOLEAN,
           x \in (IF probe.phase = "none" THEN {0} ELSE 0 .. Reach) :
        LET g == ActiveGoal(todo)
            satisfied == d = Expected(g) /\ i
            t == Recorded(Noted(track, satisfied), satisfied)
        IN  /\ away' = x
            /\ IF t.confirm >= MinConfirm /\ probe.phase = "none"
               THEN CompleteGoal(g, t, probe)
               ELSE \/ g.kind = "link" /\ t.phase = "track" /\ LinkTrack(g, t)
                    \/ g.kind = "link" /\ t.phase = "verify" /\ LinkVerify(g, t, x, d, i)
                    \/ g.kind = "unlink" /\ t.phase = "open" /\ UnlinkOpen(t)
                    \/ g.kind = "unlink" /\ t.phase = "track" /\ UnlinkTrack(t)
                    \/ g.kind = "unlink" /\ t.phase = "verify" /\ UnlinkVerify(t)
  BY Zenon DEF PursueGoal
<1> DEFINE g == ActiveGoal(todo)
           satisfied == d = Expected(g) /\ i
           t == Recorded(Noted(track, satisfied), satisfied)
<1>2. x \in Nat /\ away' = x
  BY <1>1
<1>3. \/ probe.phase = "none" /\ CompleteGoal(g, t, probe)
      \/ g.kind = "link" /\ t.phase = "track" /\ LinkTrack(g, t)
      \/ g.kind = "link" /\ t.phase = "verify" /\ LinkVerify(g, t, x, d, i)
      \/ g.kind = "unlink" /\ (UnlinkOpen(t) \/ UnlinkTrack(t) \/ UnlinkVerify(t))
  BY <1>1, Zenon
<1>4. TrackOK(t) /\ t.phase = track.phase
  <2>1. satisfied \in BOOLEAN
    OBVIOUS
  <2>2. TrackOK(track)
    BY DEF IInv
  <2> HIDE DEF satisfied
  <2>3. TrackOK(t)
    BY <2>1, <2>2, NotedOK
  <2>4. t.phase = track.phase
    BY <2>2, TrackFields DEF Recorded, Noted, Track
  <2>5. QED
    BY <2>3, <2>4
<1> HIDE DEF t
<1>5. /\ probe \in Probe
      /\ probe.phase # "none" <=> t.phase = "verify" /\ g.kind = "link"
      /\ probe.phase # "none" => Homing(probe)
  BY <1>4 DEF IInv, ProbeOK, BackHome, PursueGoal
<1> HIDE DEF g
<1>6. HomeEnds(g, x)
  <2>1. CASE probe.phase = "none" /\ CompleteGoal(g, t, probe)
    BY <2>1 DEF HomeEnds
  <2>2. CASE g.kind = "link" /\ t.phase = "track" /\ LinkTrack(g, t)
    BY <1>4, <1>5, <2>2, LinkTrackHomes
  <2>3. CASE g.kind = "link" /\ t.phase = "verify" /\ LinkVerify(g, t, x, d, i)
    <3>1. Homing(probe) /\ probe.phase \in {"probe", "return"}
      BY <1>5, <2>3 DEF Homing
    <3>2. \/ probe.phase = "probe" /\ ProbeCycle(g, t, probe, x, d, i)
          \/ probe.phase = "return" /\ ReturnCycle(g, t, probe, x, d, i)
      BY <2>3, <3>1 DEF LinkVerify
    <3>3. QED
      BY <1>2, <1>5, <2>3, <3>1, <3>2, ProbeCycleHomes, ReturnCycleHomes
  <2>4. CASE g.kind = "unlink" /\ (UnlinkOpen(t) \/ UnlinkTrack(t) \/ UnlinkVerify(t))
    BY <1>5, <2>4, UnlinkHomes
  <2>5. QED
    BY <1>3, <2>1, <2>2, <2>3, <2>4
<1>7. QED
  BY <1>2, <1>6 DEF g

LEMMA StartHomes ==
  ASSUME NEW S, NEW n, StartGoal(S, n)
  PROVE  probe'.phase = "none" /\ track'.phase # "verify"
BY DEF StartGoal, FreshTrack, NoProbe

\* What a step of a recovery in progress may do to a probe.
HomeStep ==
  probe.phase # "none" /\ mode' = "recovery" /\ phase' # "failed"
    /\ (probe'.phase = "none" \/ phase' = "reentry") => away' <= Tolerance

LEMMA PursueReturns ==
  ASSUME IInv, BackHome, PursueGoal
  PROVE  BackHome' /\ HomeStep
<1> DEFINE g == ActiveGoal(todo)
<1>1. phase = "executing" /\ away' \in Nat /\ HomeEnds(g, away')
  BY PursueHomes DEF PursueGoal
<1> HIDE DEF g
<1>2. CASE \E u, q : Fail(u, q)
  <2>1. phase' = "failed"
    BY <1>2 DEF Fail
  <2>2. QED
    BY <2>1 DEF BackHome, HomeStep
<1>3. CASE \E u, q : Continue(u, q) /\ Pursued(g, u, q)
  <2>1. PICK u, q : Continue(u, q) /\ Pursued(g, u, q)
    BY <1>3
  <2>2. track' = u /\ probe' = q /\ phase' = "executing" /\ todo' = todo
    BY <1>1, <2>1 DEF Continue, progress
  <2>3. /\ q.phase # "none" <=> u.phase = "verify" /\ ActiveGoal(todo).kind = "link"
        /\ q.phase # "none" => Homing(q)
        /\ probe.phase # "none" => q.phase # "none"
    BY <2>1 DEF Pursued, g
  <2>4. QED
    BY <2>2, <2>3 DEF BackHome, HomeStep
<1>4. CASE /\ probe.phase # "none" => away' <= Tolerance
           /\ \E n : StartGoal(todo, n) /\ UNCHANGED <<phase, todo>>
  <2>1. probe'.phase = "none" /\ track'.phase # "verify" /\ phase' = "executing"
    BY <1>1, <1>4, StartHomes
  <2>2. QED
    BY <1>4, <2>1 DEF BackHome, HomeStep
<1>5. CASE /\ probe.phase # "none" => away' <= Tolerance
           /\ \E u, q : CompleteGoal(g, u, q) /\ (q.phase # "none" => away' <= Tolerance)
  <2>1. PICK u, q : CompleteGoal(g, u, q) /\ (q.phase # "none" => away' <= Tolerance)
    BY <1>5
  <2>2. CASE todo' = {}
    <3>1. phase' = "reentry" /\ probe' = q
      BY <2>1, <2>2 DEF CompleteGoal
    <3>2. QED
      BY <1>5, <2>1, <3>1 DEF BackHome, HomeStep
  <2>3. CASE todo' # {}
    <3>1. phase' = "executing" /\ StartGoal(todo', 1)
      BY <1>1, <2>1, <2>3 DEF CompleteGoal
    <3>2. probe'.phase = "none" /\ track'.phase # "verify"
      BY <3>1, StartHomes
    <3>3. QED
      BY <1>5, <3>1, <3>2 DEF BackHome, HomeStep
  <2>4. QED
    BY <2>2, <2>3
<1>6. QED
  BY <1>1, <1>2, <1>3, <1>4, <1>5 DEF HomeEnds

LEMMA OthersReturn ==
  ASSUME IInv, BackHome, \/ BeginRecovery \/ AbandonGoal \/ \E s \in BOOLEAN : Reenter(s)
                         \/ Reset \/ UNCHANGED vars
  PROVE  BackHome' /\ (HomeStep \/ UNCHANGED vars)
<1>1. CASE BeginRecovery
  <2>1. PICK I \in Intents :
          LET S == I \cap Learned IN
          /\ phase' = IF S = {} THEN "reentry" ELSE "executing"
          /\ IF S = {}
             THEN attempts' = 0 /\ track' = FreshTrack("link") /\ probe' = NoProbe
             ELSE StartGoal(S, 1)
          /\ away' = 0
    BY <1>1 DEF BeginRecovery
  <2>2. probe'.phase = "none" /\ track'.phase # "verify" /\ away' = 0
    <3>1. NoProbe.phase = "none" /\ FreshTrack("link").phase # "verify"
      BY DEF NoProbe, FreshTrack
    <3>2. QED
      BY <2>1, <3>1, StartHomes
  <2>3. QED
    BY <2>2 DEF BackHome, HomeStep
<1>2. CASE AbandonGoal
  <2>1. phase' = "failed"
    BY <1>2 DEF AbandonGoal, Fail
  <2>2. QED
    BY <2>1 DEF BackHome, HomeStep
<1>3. ASSUME NEW s \in BOOLEAN, Reenter(s)
      PROVE  BackHome' /\ HomeStep
  <2>1. phase = "reentry" /\ phase' # "executing" /\ probe' = probe /\ away' = away
    BY <1>3 DEF Reenter
  <2>2. QED
    BY <2>1 DEF BackHome, HomeStep
<1>4. CASE Reset
  <2>1. phase' = "idle" /\ mode' = "task"
    BY <1>4 DEF Reset
  <2>2. QED
    BY <2>1 DEF BackHome, HomeStep
<1>5. CASE UNCHANGED vars
  BY <1>5 DEF vars, progress, BackHome
<1>6. QED
  BY <1>1, <1>2, <1>3, <1>4, <1>5

(* A probe of the grasp that ends without failure has brought the arm back *)
(* to where it began, in _update_link_probe as in the search for a state   *)
(* to reenter that follows it.                                             *)
THEOREM ProbesReturn == Spec => ProbeReturns
<1>1. Init => BackHome
  BY DEF Init, BackHome
<1>2. IInv /\ BackHome /\ [Next]_vars => BackHome' /\ [HomeStep]_vars
  BY PursueReturns, OthersReturn DEF Next, Cycle
<1>3. QED
  BY <1>1, <1>2, Invariant, PTL DEF Spec, ProbeReturns, HomeStep

================================================================================
