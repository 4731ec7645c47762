---------------------- MODULE RelationVerificationProofs ----------------------
(***************************************************************************)
(* Theorems about RelationVerification for any events, contexts, limits    *)
(* and tolerances.                                                         *)
(*                                                                         *)
(* A verification under way keeps two promises.  OnTheWay: the recorded    *)
(* path starts at the entry, and the way back ends there.  Grounded: the   *)
(* counters of the response window never exceed what the arm was really    *)
(* seen to do, and a verdict has the responses and the posterior it needs. *)
(* One lemma for each stage of update shows that it keeps both.            *)
(***************************************************************************)
EXTENDS RelationVerification, FiniteSetTheorems, SequenceTheorems, TLAPS

USE ConstantsAssumption

OnTheWay(v) ==
  /\ v \in Runtimes
  /\ v.phase \in {"probe", "return"}
  /\ v.path # <<>> /\ v.path[1] = 0
  /\ v.returns <= MaxReturn
  /\ v.phase = "return" => v.back # <<>> /\ v.back[Len(v.back)] = 0

\* a and t are the observed responses and the travel in them.
Grounded(v, a, t) ==
  /\ v.samples <= a /\ v.window <= t /\ v.motion <= t
  /\ v.verdict # Undecided =>
       /\ a >= MinSamples /\ t >= MinMotion
       /\ v.verdict.decision \in Decided
       /\ 2 * Support(v.verdict.decision, v.verdict.level) > Top

\* What update makes of the verification of an arm that is at x.
Outcome(v, x, a, t) ==
  /\ v \in Runtimes
  /\ Grounded(v, a, t)
  /\ v.phase \in {"probe", "return", "complete", "failed"}
  /\ v.phase \in {"probe", "return"} => OnTheWay(v)
  /\ v.phase = "complete" => x <= Tolerance

--------------------------------------------------------------------------------
(* The stages of update *)

LEMMA StartedGood ==
  /\ NoRuntime \in Runtimes /\ Grounded(NoRuntime, 0, 0)
  /\ OnTheWay(Started(0)) /\ Grounded(Started(0), 0, 0)
  /\ \A e : Started(e) = Started(0) /\ ~Started(e).commanded
<1>1. Undecided \in Verdicts
  BY DEF Undecided, Verdicts, Decisions
<1>2. NoRuntime \in Runtimes
  BY <1>1 DEF NoRuntime, Runtimes, Decided
<1>3. <<0>> \in Seq(Nat)
  OBVIOUS
<1>4. Started(0) \in Runtimes
  BY <1>2, <1>3 DEF Started, NoRuntime, Runtimes
<1>5. OnTheWay(Started(0))
  BY <1>4 DEF OnTheWay, Started, NoRuntime
<1>6. Grounded(NoRuntime, 0, 0) /\ Grounded(Started(0), 0, 0)
  BY DEF Grounded, Started, NoRuntime
<1>7. \A e : Started(e) = Started(0) /\ ~Started(e).commanded
  BY DEF Started, NoRuntime
<1>8. QED
  BY <1>2, <1>5, <1>6, <1>7

\* A response that is counted is one of the arm's.
LEMMA RespondedGood ==
  ASSUME NEW v, OnTheWay(v), NEW a \in Nat, NEW t \in Nat, Grounded(v, a, t),
         NEW moved \in Nat, NEW observed \in BOOLEAN, NEW side \in Decided,
         NEW a2 \in Nat, NEW t2 \in Nat,
         a2 = IF observed /\ moved > 0 THEN Least(a + 1, MinSamples) ELSE a,
         t2 = IF observed THEN Least(t + moved, MinMotion) ELSE t
  PROVE  /\ OnTheWay(Responded(v, moved, observed, side))
         /\ Grounded(Responded(v, moved, observed, side), a2, t2)
<1> DEFINE r == Responded(v, moved, observed, side)
<1>1. v \in Runtimes
  BY DEF OnTheWay
<1>2. /\ v.samples \in 0 .. MinSamples /\ v.window \in 0 .. MinMotion
      /\ v.motion \in 0 .. MinMotion
  BY <1>1 DEF Runtimes
<1>3. /\ Least(v.samples + 1, MinSamples) \in 0 .. MinSamples
      /\ Least(v.window + moved, MinMotion) \in 0 .. MinMotion
  BY <1>2 DEF Least
<1>4. r \in Runtimes
  BY <1>1, <1>3 DEF Responded, Runtimes
<1>5. /\ r.phase = v.phase /\ r.path = v.path /\ r.back = v.back
      /\ r.returns = v.returns /\ r.motion = v.motion /\ r.verdict = v.verdict
  BY <1>1 DEF Responded, Runtimes
<1>6. OnTheWay(r)
  BY <1>4, <1>5 DEF OnTheWay
<1>7. /\ v.samples <= a /\ v.window <= t
      /\ v.samples <= a2 /\ v.window <= t2 /\ v.motion <= t2
      /\ a >= MinSamples => a2 >= MinSamples
      /\ t >= MinMotion => t2 >= MinMotion
  BY <1>2 DEF Grounded, Least
<1>8. r.samples <= a2 /\ r.window <= t2
  <2>1. CASE v.commanded /\ observed /\ moved > 0
    <3>1. /\ r.samples = Least(v.samples + 1, MinSamples)
          /\ r.window = Least(v.window + moved, MinMotion)
      BY <1>1, <2>1 DEF Responded, Runtimes
    <3>2. a2 = Least(a + 1, MinSamples) /\ t2 = Least(t + moved, MinMotion)
      BY <2>1
    <3>3. /\ Least(v.samples + 1, MinSamples) <= Least(a + 1, MinSamples)
          /\ Least(v.window + moved, MinMotion) <= Least(t + moved, MinMotion)
      BY <1>2, <1>7 DEF Least
    <3>4. QED
      BY <3>1, <3>2, <3>3
  <2>2. CASE ~(v.commanded /\ observed /\ moved > 0)
    <3>1. r.samples = v.samples /\ r.window = v.window
      BY <1>1, <2>2 DEF Responded, Runtimes
    <3>2. QED
      BY <1>7, <3>1
  <2>3. QED
    BY <2>1, <2>2
<1>9. QED
  BY <1>5, <1>6, <1>7, <1>8 DEF Grounded

\* A stable decision has its responses, and the posterior of an estimate supports it.
LEMMA StableGood ==
  ASSUME NEW v \in Runtimes, NEW a \in Nat, NEW t \in Nat, Grounded(v, a, t),
         NEW estimate \in Estimates, Stable(v, estimate)
  PROVE  /\ estimate \in Verdicts /\ estimate # Undecided
         /\ estimate.decision \in Decided /\ estimate.level \in 0 .. Top
         /\ 2 * Support(estimate.decision, estimate.level) > Top
         /\ a >= MinSamples /\ t >= MinMotion
<1>1. estimate # Undecided /\ estimate.decision = Response(v)
  BY DEF Stable
<1>2. /\ estimate \in [decision : Decided, level : 0 .. Top]
      /\ 2 * Support(estimate.decision, estimate.level) > Top
  BY <1>1 DEF Estimates
<1>3. estimate.decision \in Decided /\ estimate \in Verdicts
  BY <1>2 DEF Verdicts, Decisions
<1>4. v.samples >= MinSamples /\ v.window >= MinMotion
  BY <1>1, <1>3 DEF Response, Decided, Runtimes
<1>5. v.samples <= a /\ v.window <= t
  BY DEF Grounded
<1>6. v.samples \in Nat /\ v.window \in Nat
  BY DEF Runtimes
<1>7. a >= MinSamples /\ t >= MinMotion
  BY <1>4, <1>5, <1>6
<1>8. QED
  BY <1>1, <1>2, <1>3, <1>7

LEMMA FunctionIsSequence ==
  ASSUME NEW m \in Nat, NEW f \in [1 .. m -> Nat]
  PROVE  f \in Seq(Nat) /\ Len(f) = m
OBVIOUS

LEMMA AppendKeepsHead ==
  ASSUME NEW s \in Seq(Nat), s # <<>>, NEW x \in Nat
  PROVE  Append(s, x) \in Seq(Nat) /\ Append(s, x) # <<>> /\ Append(s, x)[1] = s[1]
<1>1. 1 \in 1 .. Len(s)
  OBVIOUS
<1>2. QED
  BY <1>1, AppendProperties

LEMMA OutwardGood ==
  ASSUME NEW v, OnTheWay(v), NEW a \in Nat, NEW t \in Nat, Grounded(v, a, t), NEW x \in Nat
  PROVE  /\ OnTheWay(Outward(v, x)) /\ Grounded(Outward(v, x), a, t)
         /\ Outward(v, x).phase = v.phase
<1> DEFINE p == Outward(v, x)
<1>1. v \in Runtimes /\ v.path \in Seq(Nat) /\ v.path # <<>> /\ v.path[1] = 0
  BY DEF OnTheWay, Runtimes
<1>2. /\ Append(v.path, x) \in Seq(Nat) /\ Append(v.path, x) # <<>>
      /\ Append(v.path, x)[1] = 0
  BY <1>1, AppendKeepsHead
<1>3. /\ p.path \in Seq(Nat) /\ p.path # <<>> /\ p.path[1] = 0
      /\ p.motion \in {v.motion, v.window}
  BY <1>1, <1>2 DEF Outward, Runtimes
<1>4. p \in Runtimes
  BY <1>1, <1>2 DEF Outward, Runtimes
<1>5. /\ p.phase = v.phase /\ p.back = v.back /\ p.returns = v.returns
      /\ p.samples = v.samples /\ p.window = v.window /\ p.verdict = v.verdict
  BY <1>1 DEF Outward, Runtimes
<1>6. OnTheWay(p)
  BY <1>3, <1>4, <1>5 DEF OnTheWay
<1>7. Grounded(p, a, t)
  BY <1>3, <1>5 DEF Grounded
<1>8. QED
  BY <1>5, <1>6, <1>7

\* The recorded path backwards ends where it began, at the entry.
LEMMA ReturningGood ==
  ASSUME NEW v, OnTheWay(v), NEW a \in Nat, NEW t \in Nat, Grounded(v, a, t)
  PROVE  /\ OnTheWay(Returning(v)) /\ Grounded(Returning(v), a, t)
         /\ Returning(v).phase = "return"
<1>1. v \in Runtimes /\ v.path \in Seq(Nat) /\ v.path # <<>> /\ v.path[1] = 0
  BY DEF OnTheWay, Runtimes
<1> DEFINE n == Len(v.path)
           backwards == [k \in 1 .. n - 1 |-> v.path[n - k]]
           back == IF n = 1 THEN <<v.path[1]>> ELSE backwards
           r == Returning(v)
<1>2. n \in Nat \ {0} /\ \A k \in 1 .. n : v.path[k] \in Nat
  BY <1>1, EmptySeq, ElementOfSeq
<1>3. back \in Seq(Nat) /\ back # <<>> /\ back[Len(back)] = 0
  <2>1. CASE n = 1
    BY <1>1, <2>1
  <2>2. CASE n # 1
    <3>1. \A k \in 1 .. n - 1 : n - k \in 1 .. n
      BY <1>2
    <3>2. backwards \in [1 .. n - 1 -> Nat] /\ n - 1 \in Nat \ {0}
      <4>1. \A k \in 1 .. n - 1 : v.path[n - k] \in Nat
        BY <1>2, <3>1
      <4>2. backwards \in [1 .. n - 1 -> Nat]
        BY <4>1
      <4>3. \A m \in Nat \ {0} : m # 1 => m - 1 \in Nat \ {0}
        OBVIOUS
      <4>4. n - 1 \in Nat \ {0}
        BY <1>2, <2>2, <4>3
      <4>5. QED
        BY <4>2, <4>4
    <3>3. backwards \in Seq(Nat) /\ Len(backwards) = n - 1
      BY <3>2, FunctionIsSequence
    <3>4. n - 1 \in 1 .. n - 1 /\ n - (n - 1) = 1
      <4>1. \A m \in Nat \ {0} : m # 1 => m - 1 \in 1 .. m - 1 /\ m - (m - 1) = 1
        OBVIOUS
      <4>2. QED
        BY <1>2, <2>2, <4>1
    <3>5. backwards[n - 1] = v.path[n - (n - 1)]
      BY <3>4
    <3>6. QED
      BY <1>1, <2>2, <3>2, <3>3, <3>4, <3>5
  <2>3. QED
    BY <2>1, <2>2
<1>4. r = [v EXCEPT !.phase = "return", !.back = back]
  BY DEF Returning
<1> HIDE DEF back, n, r
<1>5. r \in Runtimes
  BY <1>1, <1>3, <1>4 DEF Runtimes
<1>6. /\ r.phase = "return" /\ r.back = back /\ r.path = v.path /\ r.returns = v.returns
      /\ r.samples = v.samples /\ r.window = v.window /\ r.motion = v.motion
      /\ r.verdict = v.verdict
  BY <1>1, <1>4 DEF Runtimes
<1>7. OnTheWay(r) /\ Grounded(r, a, t)
  BY <1>3, <1>5, <1>6 DEF OnTheWay, Grounded
<1>8. QED
  BY <1>6, <1>7 DEF r

\* A changed verdict keeps a posterior that speaks for its decision.
LEMMA ConfirmedGood ==
  ASSUME NEW v, OnTheWay(v), NEW a \in Nat, NEW t \in Nat, Grounded(v, a, t),
         NEW estimate \in Estimates
  PROVE  /\ OnTheWay(Confirmed(v, estimate)) /\ Grounded(Confirmed(v, estimate), a, t)
         /\ Confirmed(v, estimate).phase = v.phase
<1> DEFINE c == Confirmed(v, estimate)
           d == estimate.decision
<1>1. v \in Runtimes /\ v.verdict \in Verdicts
  BY DEF OnTheWay, Runtimes
<1>2. CASE ~Stable(v, estimate)
  BY <1>2 DEF Confirmed
<1>3. CASE Stable(v, estimate)
  <2>1. /\ estimate \in Verdicts /\ estimate # Undecided /\ d \in Decided
        /\ estimate.level \in 0 .. Top /\ 2 * Support(d, estimate.level) > Top
        /\ a >= MinSamples /\ t >= MinMotion
    BY <1>1, <1>3, StableGood
  <2>2. PICK w \in Verdicts :
          /\ c = [v EXCEPT !.verdict = w]
          /\ w.decision = d /\ 2 * Support(d, w.level) > Top
    <3>1. CASE /\ v.verdict # Undecided
               /\ Support(d, estimate.level) <= Support(d, v.verdict.level)
      <4>1. [v.verdict EXCEPT !.decision = d] \in Verdicts
        BY <1>1, <2>1 DEF Verdicts
      <4>2. /\ [v.verdict EXCEPT !.decision = d].decision = d
            /\ [v.verdict EXCEPT !.decision = d].level = v.verdict.level
        BY <1>1 DEF Verdicts
      <4>3. v.verdict.level \in 0 .. Top
        BY <1>1 DEF Verdicts
      <4>4. 2 * Support(d, v.verdict.level) > Top
        BY <2>1, <3>1, <4>3 DEF Support
      <4>5. c = [v EXCEPT !.verdict = [v.verdict EXCEPT !.decision = d]]
        BY <1>1, <1>3, <3>1 DEF Confirmed, Runtimes
      <4>6. QED
        BY <4>1, <4>2, <4>4, <4>5
    <3>2. CASE ~(/\ v.verdict # Undecided
                 /\ Support(d, estimate.level) <= Support(d, v.verdict.level))
      BY <1>3, <2>1, <3>2 DEF Confirmed
    <3>3. QED
      BY <3>1, <3>2
  <2>3. c \in Runtimes
    BY <1>1, <2>2 DEF Runtimes
  <2>4. /\ c.phase = v.phase /\ c.path = v.path /\ c.back = v.back /\ c.returns = v.returns
        /\ c.samples = v.samples /\ c.window = v.window /\ c.motion = v.motion
        /\ c.verdict = w
    BY <1>1, <2>2 DEF Runtimes
  <2>5. OnTheWay(c)
    BY <2>3, <2>4 DEF OnTheWay
  <2>6. Grounded(c, a, t)
    BY <2>1, <2>2, <2>4 DEF Grounded
  <2>7. QED
    BY <2>4, <2>5, <2>6
<1>4. QED
  BY <1>2, <1>3

\* What is left of the way back ends at the entry, and nothing is left only where the
\* arm is there.
LEMMA SuffixKeepsLast ==
  ASSUME NEW s \in Seq(Nat), NEW n \in Nat, n < Len(s)
  PROVE  LET rest == SubSeq(s, n + 1, Len(s)) IN
         rest \in Seq(Nat) /\ rest # <<>> /\ rest[Len(rest)] = s[Len(s)]
<1> DEFINE rest == SubSeq(s, n + 1, Len(s))
<1>1. Len(s) \in Nat /\ n + 1 \in 1 .. Len(s)
  OBVIOUS
<1>2. rest \in Seq(Nat) /\ Len(rest) = Len(s) - n
  BY <1>1
<1>3. Len(rest) >= 1 /\ rest[Len(rest)] = s[n + 1 + Len(rest) - 1]
  BY <1>1, <1>2
<1>4. n + 1 + Len(rest) - 1 = Len(s)
  BY <1>1, <1>2
<1>5. rest[Len(rest)] = s[Len(s)]
  BY <1>3, <1>4
<1> HIDE DEF rest
<1>6. rest # <<>>
  BY <1>3
<1>7. QED
  BY <1>2, <1>5, <1>6 DEF rest

LEMMA IntervalCardinality ==
  ASSUME NEW m \in Nat
  PROVE  IsFiniteSet(1 .. m) /\ Cardinality(1 .. m) = m
<1>1. m \in Int /\ 1 \in Int
  OBVIOUS
<1>2. IsFiniteSet(1 .. m) /\ Cardinality(1 .. m) = IF 1 > m THEN 0 ELSE m - 1 + 1
  BY <1>1, FS_Interval, Zenon
<1>3. (IF 1 > m THEN 0 ELSE m - 1 + 1) = m
  OBVIOUS
<1>4. QED
  BY <1>2, <1>3

LEMMA DroppedGood ==
  ASSUME NEW v \in Runtimes, v.back # <<>>, v.back[Len(v.back)] = 0, NEW x \in Nat
  PROVE  LET back == Dropped(v, x).back IN
         /\ Dropped(v, x) = [v EXCEPT !.back = back]
         /\ back \in Seq(Nat)
         /\ back # <<>> => back[Len(back)] = 0
         /\ back = <<>> => x <= Tolerance
<1> DEFINE s == v.back
           reached == {k \in 1 .. Len(s) : \A j \in 1 .. k : Distance(x, s[j]) <= Tolerance}
           n == Cardinality(reached)
           rest == SubSeq(s, n + 1, Len(s))
<1>1. s \in Seq(Nat) /\ Len(s) \in Nat /\ Len(s) >= 1
  <2>1. s \in Seq(Nat)
    BY DEF Runtimes
  <2>2. QED
    BY <2>1
<1>2. IsFiniteSet(1 .. Len(s)) /\ Cardinality(1 .. Len(s)) = Len(s)
  BY <1>1, IntervalCardinality
<1>3. /\ IsFiniteSet(reached) /\ n <= Len(s) /\ n \in Nat
      /\ n = Len(s) => reached = 1 .. Len(s)
  <2>1. reached \in SUBSET (1 .. Len(s))
    OBVIOUS
  <2>2. QED
    <3> HIDE DEF reached
    <3>1. /\ IsFiniteSet(reached) /\ n <= Cardinality(1 .. Len(s))
          /\ Cardinality(1 .. Len(s)) = n => 1 .. Len(s) = reached
      BY <1>2, <2>1, FS_Subset
    <3>2. n \in Nat
      BY <3>1, FS_CardinalityType
    <3>3. QED
      BY <1>2, <3>1, <3>2
<1>4. Dropped(v, x) = [v EXCEPT !.back = rest] /\ Dropped(v, x).back = rest
  BY DEF Dropped, Runtimes
<1>5. CASE n = Len(s)
  <2>1. Len(s) \in reached
    BY <1>1, <1>3, <1>5
  <2>2. Distance(x, s[Len(s)]) <= Tolerance
    BY <1>1, <2>1
  <2>3. x <= Tolerance
    BY <2>2 DEF Distance
  <2>4. rest = <<>> /\ rest \in Seq(Nat)
    <3>1. n + 1 \in Int /\ Len(s) \in Int /\ Len(s) < n + 1
      BY <1>1, <1>3, <1>5
    <3>2. rest = <<>>
      BY <3>1, SubSeqEmpty, Zenon
    <3>3. <<>> \in Seq(Nat)
      OBVIOUS
    <3>4. QED
      BY <3>2, <3>3
  <2>5. QED
    BY <1>4, <2>3, <2>4
<1>6. CASE n # Len(s)
  <2>1. n < Len(s)
    BY <1>1, <1>3, <1>6
  <2>2. rest \in Seq(Nat) /\ rest # <<>> /\ rest[Len(rest)] = s[Len(s)]
    BY <1>1, <1>3, <2>1, SuffixKeepsLast
  <2>3. QED
    BY <1>4, <2>2
<1>7. QED
  BY <1>5, <1>6

\* The arm is on its way back and has been seen at x.
LEMMA ReturnCycleGood ==
  ASSUME NEW v, OnTheWay(v), v.phase = "return",
         NEW a \in Nat, NEW t \in Nat, Grounded(v, a, t),
         NEW estimate \in Estimates, NEW x \in Nat, NEW returnSafe \in BOOLEAN
  PROVE  Outcome(ReturnCycle(v, x, estimate, returnSafe), x, a, t)
<1> DEFINE c == Confirmed(v, estimate)
           m == [c EXCEPT !.returns = @ + 1]
           r == Dropped(m, x)
           z == ReturnCycle(v, x, estimate, returnSafe)
<1>1. OnTheWay(c) /\ Grounded(c, a, t) /\ c.phase = "return"
  BY ConfirmedGood
<1>2. /\ c \in Runtimes /\ c.back # <<>> /\ c.back[Len(c.back)] = 0
      /\ c.returns \in 0 .. MaxReturn /\ c.path # <<>> /\ c.path[1] = 0
  BY <1>1 DEF OnTheWay, Runtimes
<1> HIDE DEF c
<1>3. c.returns + 1 \in 0 .. MaxReturn + 1
  BY <1>2
<1>4. CASE ~returnSafe
  <2>1. z = [c EXCEPT !.phase = "failed"]
    BY <1>4 DEF ReturnCycle, c
  <2>2. z \in Runtimes
    BY <1>2, <1>3, <2>1 DEF Runtimes
  <2>3. /\ z.phase = "failed" /\ z.samples = c.samples /\ z.window = c.window
        /\ z.motion = c.motion /\ z.verdict = c.verdict
    BY <1>2, <2>1 DEF Runtimes
  <2>4. QED
    BY <1>1, <2>2, <2>3 DEF Outcome, Grounded
<1>5. CASE returnSafe /\ c.returns + 1 > MaxReturn
  <2>1. z = [c EXCEPT !.phase = "failed", !.returns = @ + 1]
    BY <1>5 DEF ReturnCycle, c
  <2>2. z \in Runtimes
    BY <1>2, <1>3, <2>1 DEF Runtimes
  <2>3. /\ z.phase = "failed" /\ z.samples = c.samples /\ z.window = c.window
        /\ z.motion = c.motion /\ z.verdict = c.verdict
    BY <1>2, <2>1 DEF Runtimes
  <2>4. QED
    BY <1>1, <2>2, <2>3 DEF Outcome, Grounded
<1>6. CASE returnSafe /\ ~(c.returns + 1 > MaxReturn)
  <2>1. m \in Runtimes /\ m.returns <= MaxReturn
    <3>1. m \in Runtimes /\ m.returns = c.returns + 1
      BY <1>2, <1>3 DEF Runtimes
    <3>2. QED
      BY <1>2, <1>6, <3>1
  <2>2. /\ m.phase = "return" /\ m.path = c.path /\ m.back = c.back
        /\ m.samples = c.samples /\ m.window = c.window /\ m.motion = c.motion
        /\ m.verdict = c.verdict
    BY <1>1, <1>2 DEF Runtimes
  <2> HIDE DEF m
  <2>3. /\ r = [m EXCEPT !.back = r.back]
        /\ r.back \in Seq(Nat)
        /\ r.back # <<>> => r.back[Len(r.back)] = 0
        /\ r.back = <<>> => x <= Tolerance
    BY <1>2, <2>1, <2>2, DroppedGood
  <2> HIDE DEF r
  <2>4. z = IF r.back = <<>> THEN [r EXCEPT !.phase = "complete"]
                             ELSE [r EXCEPT !.commanded = TRUE]
    BY <1>6 DEF ReturnCycle, c, m, r
  <2> DEFINE rest == r.back
  <2>5. r = [m EXCEPT !.back = rest] /\ rest \in Seq(Nat)
    BY <2>3
  <2>6. /\ r \in Runtimes
        /\ r.phase = "return" /\ r.path = c.path /\ r.returns = m.returns
        /\ r.samples = c.samples /\ r.window = c.window /\ r.motion = c.motion
        /\ r.verdict = c.verdict
    <3> HIDE DEF rest
    <3>1. r \in Runtimes
      BY <2>1, <2>5 DEF Runtimes
    <3>2. /\ r.phase = m.phase /\ r.path = m.path /\ r.returns = m.returns
          /\ r.samples = m.samples /\ r.window = m.window /\ r.motion = m.motion
          /\ r.verdict = m.verdict
      BY <2>1, <2>5 DEF Runtimes
    <3>3. QED
      BY <2>2, <3>1, <3>2
  <2>7. z \in Runtimes
    <3> HIDE DEF z, rest
    <3>1. [r EXCEPT !.phase = "complete"] \in Runtimes
      BY <2>6 DEF Runtimes
    <3>2. [r EXCEPT !.commanded = TRUE] \in Runtimes
      BY <2>6 DEF Runtimes
    <3>3. QED
      BY <2>4, <3>1, <3>2
  <2>8. /\ z.samples = c.samples /\ z.window = c.window /\ z.motion = c.motion
        /\ z.verdict = c.verdict /\ z.path = c.path /\ z.back = r.back
        /\ z.returns = m.returns
        /\ z.phase = IF r.back = <<>> THEN "complete" ELSE "return"
    BY <2>4, <2>6 DEF Runtimes
  <2>9. Grounded(z, a, t)
    BY <1>1, <2>8 DEF Grounded
  <2>10. z.phase = "return" => OnTheWay(z)
    BY <1>2, <2>1, <2>3, <2>7, <2>8 DEF OnTheWay
  <2>11. QED
    BY <2>3, <2>7, <2>8, <2>9, <2>10 DEF Outcome
<1>7. QED
  BY <1>4, <1>5, <1>6

\* The arm is on its way out.
LEMMA ProbeCycleGood ==
  ASSUME NEW v, OnTheWay(v), v.phase = "probe",
         NEW a \in Nat, NEW t \in Nat, Grounded(v, a, t),
         NEW estimate \in Estimates, NEW x \in Nat,
         NEW probeSafe \in BOOLEAN, NEW returnSafe \in BOOLEAN
  PROVE  Outcome(ProbeCycle(v, x, estimate, probeSafe, returnSafe), x, a, t)
<1> DEFINE p == Outward(v, x)
           s == [p EXCEPT !.verdict = estimate]
           z == ProbeCycle(v, x, estimate, probeSafe, returnSafe)
<1>1. OnTheWay(p) /\ Grounded(p, a, t) /\ p.phase = "probe" /\ p \in Runtimes
  <2>1. OnTheWay(p) /\ Grounded(p, a, t) /\ p.phase = v.phase
    BY OutwardGood
  <2>2. QED
    BY <2>1 DEF OnTheWay
<1> HIDE DEF p
<1>2. CASE Stable(p, estimate)
  <2>1. /\ estimate \in Verdicts /\ estimate.decision \in Decided
        /\ 2 * Support(estimate.decision, estimate.level) > Top
        /\ a >= MinSamples /\ t >= MinMotion
    BY <1>1, <1>2, StableGood
  <2>2. s \in Runtimes
    BY <1>1, <2>1 DEF Runtimes
  <2>3. /\ s.phase = p.phase /\ s.path = p.path /\ s.back = p.back
        /\ s.returns = p.returns /\ s.samples = p.samples /\ s.window = p.window
        /\ s.motion = p.motion /\ s.verdict = estimate
    BY <1>1 DEF Runtimes
  <2>4. OnTheWay(s) /\ Grounded(s, a, t)
    BY <1>1, <2>1, <2>2, <2>3 DEF OnTheWay, Grounded
  <2>5. z = ReturnCycle(Returning(s), x, estimate, returnSafe)
    BY <1>2 DEF ProbeCycle, p
  <2> HIDE DEF s
  <2>6. QED
    BY <2>4, <2>5, ReturningGood, ReturnCycleGood
<1>3. CASE ~Stable(p, estimate) /\ ProbeIsOver(p, probeSafe)
  <2>1. z = ReturnCycle(Returning(p), x, estimate, returnSafe)
    BY <1>3 DEF ProbeCycle, p
  <2>2. QED
    BY <1>1, <2>1, ReturningGood, ReturnCycleGood
<1>4. CASE ~Stable(p, estimate) /\ ~ProbeIsOver(p, probeSafe)
  <2>1. z = [p EXCEPT !.cycles = @ + 1, !.commanded = TRUE]
    BY <1>4 DEF ProbeCycle, p
  <2>2. p.cycles + 1 \in 0 .. MaxProbe
    <3>1. p.cycles \in 0 .. MaxProbe
      BY <1>1 DEF Runtimes
    <3>2. ~(p.cycles >= MaxProbe)
      BY <1>4 DEF ProbeIsOver
    <3>3. QED
      BY <3>1, <3>2
  <2>3. z \in Runtimes
    BY <1>1, <2>1, <2>2 DEF Runtimes
  <2>4. /\ z.phase = p.phase /\ z.path = p.path /\ z.back = p.back
        /\ z.returns = p.returns /\ z.samples = p.samples /\ z.window = p.window
        /\ z.motion = p.motion /\ z.verdict = p.verdict
    BY <1>1, <2>1 DEF Runtimes
  <2>5. OnTheWay(z) /\ Grounded(z, a, t)
    BY <1>1, <2>3, <2>4 DEF OnTheWay, Grounded
  <2>6. QED
    BY <1>1, <2>3, <2>4, <2>5 DEF Outcome
<1>5. QED
  BY <1>2, <1>3, <1>4

\* Whatever the arm, the object and the filter do, update keeps the promises.
LEMMA UpdatedGood ==
  ASSUME NEW v, OnTheWay(v), NEW a \in Nat, NEW t \in Nat, Grounded(v, a, t),
         NEW estimate \in Estimates, NEW x \in Nat,
         NEW probeSafe \in BOOLEAN, NEW returnSafe \in BOOLEAN
  PROVE  Outcome(Updated(v, x, estimate, probeSafe, returnSafe), x, a, t)
<1>1. CASE v.phase = "probe"
  BY <1>1, ProbeCycleGood DEF Updated
<1>2. CASE v.phase = "return"
  BY <1>2, ReturnCycleGood DEF Updated
<1>3. QED
  BY <1>1, <1>2 DEF OnTheWay

--------------------------------------------------------------------------------
(* The inductive invariant *)

Promises ==
  /\ TypeOK
  /\ mode.name = "verify" => OnTheWay(verif)
  /\ Grounded(verif, answers, travel)
  /\ BeliefSupportsDecision

LEMMA InitPromises ==
  ASSUME Init PROVE Promises
<1>1. Undecided \in Verdicts
  BY DEF Undecided, Verdicts, Decisions
<1>2. TypeOK
  BY <1>1, StartedGood DEF Init, TypeOK
<1>3. BeliefSupportsDecision
  BY DEF Init, BeliefSupportsDecision
<1>4. mode.name = "task"
  BY DEF Init
<1>5. QED
  BY <1>2, <1>3, <1>4, StartedGood DEF Init, Promises

LEMMA ResetPromises ==
  ASSUME Reset PROVE Promises'
<1>1. Undecided \in Verdicts
  BY DEF Undecided, Verdicts, Decisions
<1>2. TypeOK'
  BY <1>1, StartedGood DEF Reset, TypeOK
<1>3. BeliefSupportsDecision'
  BY DEF Reset, BeliefSupportsDecision
<1>4. mode'.name = "task"
  BY DEF Reset
<1>5. Grounded(verif, answers, travel)'
  BY StartedGood DEF Reset, Grounded
<1>6. QED
  BY <1>2, <1>3, <1>4, <1>5 DEF Promises

\* The manager and the policy make of the result only what it says.
LEMMA SettleGood ==
  ASSUME TypeOK, BeliefSupportsDecision, NEW e \in Events, NEW v,
         NEW x \in Nat, NEW a \in Nat, NEW t \in Nat, Outcome(v, x, a, t), Settle(e, v),
         attempted' \in [Events -> Contexts \cup {"none"}],
         away' = x, answers' = a, travel' = t
  PROVE  Promises'
<1>1. v \in Runtimes /\ Grounded(v, a, t) /\ v.verdict \in Verdicts
  BY DEF Outcome, Runtimes
<1>2. /\ mode' \in [name : {"task"}] \cup [name : {"verify"}, event : Events]
      /\ mode'.name = "verify" => v.phase \notin {"complete", "failed"}
  <2>1. CASE v.phase \in {"complete", "failed"}
    BY <2>1 DEF Settle
  <2>2. CASE v.phase \notin {"complete", "failed"}
    BY <2>2 DEF Settle
  <2>3. QED
    BY <2>1, <2>2
<1>3. mode'.name = "verify" => OnTheWay(verif')
  BY <1>2 DEF Outcome, Settle
<1>4. active' \subseteq Pending
  BY DEF Settle, TypeOK
<1>5. belief' \in [Events -> Verdicts]
  BY <1>1 DEF Settle, TypeOK
<1>6. TypeOK'
  BY <1>1, <1>2, <1>4, <1>5 DEF Settle, TypeOK
<1>7. BeliefSupportsDecision'
  <2>1. SUFFICES ASSUME NEW f \in Events, belief'[f] # Undecided
                 PROVE  2 * Support(belief'[f].decision, belief'[f].level) > Top
    BY DEF BeliefSupportsDecision
  <2>2. belief'[f] = belief[f] \/ belief'[f] = v.verdict
    BY DEF Settle, TypeOK
  <2>3. QED
    BY <1>1, <2>1, <2>2 DEF Grounded, BeliefSupportsDecision
<1>8. Grounded(verif, answers, travel)'
  BY <1>1 DEF Settle, Grounded
<1>9. QED
  BY <1>3, <1>6, <1>7, <1>8 DEF Promises

LEMMA BeginPromises ==
  ASSUME Promises, Begin PROVE Promises'
<1>1. PICK e \in Events, context \in Contexts :
        /\ attempted' = [attempted EXCEPT ![e] = context]
        /\ \E moved \in 0 .. Reach, observed, probeSafe, returnSafe \in BOOLEAN,
             side \in Decided :
             Settle(e, Updated(Responded(Started(e), moved, observed, side), 0,
                               Undecided, probeSafe, returnSafe))
  BY DEF Begin
<1>2. PICK moved \in 0 .. Reach, observed \in BOOLEAN, probeSafe \in BOOLEAN,
           returnSafe \in BOOLEAN, side \in Decided :
        Settle(e, Updated(Responded(Started(e), moved, observed, side), 0,
                          Undecided, probeSafe, returnSafe))
  BY <1>1
<1> DEFINE v == Responded(Started(e), moved, observed, side)
<1>3. Undecided \in Estimates
  BY DEF Estimates
<1> DEFINE s == Started(0)
\* The motion of the task is no response: no command of this controller preceded it.
<1>4. v = [s EXCEPT !.commanded = FALSE] /\ s \in Runtimes
  BY StartedGood DEF Responded, OnTheWay
<1>5. OnTheWay(v) /\ Grounded(v, 0, 0)
  <2> HIDE DEF v, s
  <2>1. v \in Runtimes
    BY <1>4 DEF Runtimes
  <2>2. /\ v.phase = s.phase /\ v.path = s.path /\ v.back = s.back
        /\ v.returns = s.returns /\ v.samples = s.samples /\ v.window = s.window
        /\ v.motion = s.motion /\ v.verdict = s.verdict
    BY <1>4 DEF Runtimes
  <2>3. OnTheWay(s) /\ Grounded(s, 0, 0)
    BY StartedGood DEF s
  <2>4. QED
    BY <2>1, <2>2, <2>3 DEF OnTheWay, Grounded
<1> HIDE DEF v
<1>6. Outcome(Updated(v, 0, Undecided, probeSafe, returnSafe), 0, 0, 0)
  BY <1>3, <1>5, UpdatedGood
<1>7. attempted' \in [Events -> Contexts \cup {"none"}]
  BY <1>1 DEF Promises, TypeOK
<1>8. away' = 0 /\ answers' = 0 /\ travel' = 0
  BY DEF Begin
<1>9. Settle(e, Updated(v, 0, Undecided, probeSafe, returnSafe))
  BY <1>2 DEF v
<1>10. QED
  BY <1>6, <1>7, <1>8, <1>9, SettleGood DEF Promises

\* The update of a cycle, with the history it leaves.
LEMMA CycleOutcome ==
  ASSUME Promises, Cycle
  PROVE  \E x, a, t, v :
           /\ x \in Nat /\ a \in Nat /\ t \in Nat
           /\ Outcome(v, x, a, t) /\ Settle(mode.event, v)
           /\ away' = x /\ answers' = a /\ travel' = t
<1>1. PICK x \in 0 .. Reach, observed \in BOOLEAN, probeSafe \in BOOLEAN,
           returnSafe \in BOOLEAN, side \in Decided, estimate \in Estimates :
        /\ Settle(mode.event, Updated(Responded(verif, Distance(x, away), observed, side),
                                      x, estimate, probeSafe, returnSafe))
        /\ away' = x
        /\ answers' = IF observed /\ x # away THEN Least(answers + 1, MinSamples)
                                              ELSE answers
        /\ travel' = IF observed THEN Least(travel + Distance(x, away), MinMotion)
                                 ELSE travel
  BY DEF Cycle
<1> DEFINE moved == Distance(x, away)
           v == Responded(verif, moved, observed, side)
           u == Updated(v, x, estimate, probeSafe, returnSafe)
<1>2. /\ OnTheWay(verif) /\ Grounded(verif, answers, travel)
      /\ away \in Nat /\ answers \in Nat /\ travel \in Nat /\ x \in Nat
  BY DEF Promises, Cycle, TypeOK
<1>3. moved \in Nat /\ (moved > 0 <=> x # away)
  BY <1>2 DEF Distance
<1>4. answers' \in Nat /\ travel' \in Nat
  BY <1>1, <1>2, <1>3 DEF Least
<1>5. /\ answers' = IF observed /\ moved > 0 THEN Least(answers + 1, MinSamples)
                                             ELSE answers
      /\ travel' = IF observed THEN Least(travel + moved, MinMotion) ELSE travel
  BY <1>1, <1>3
<1> HIDE DEF moved
<1>6. OnTheWay(v) /\ Grounded(v, answers', travel')
  BY <1>2, <1>3, <1>4, <1>5, RespondedGood
<1> HIDE DEF v
<1>7. Outcome(u, x, answers', travel')
  BY <1>2, <1>4, <1>6, UpdatedGood
<1>8. Settle(mode.event, u) /\ away' = x
  BY <1>1 DEF v, moved
<1>9. QED
  BY <1>2, <1>4, <1>7, <1>8

LEMMA CyclePromises ==
  ASSUME Promises, Cycle PROVE Promises'
<1>1. PICK x, a, t, v :
        /\ x \in Nat /\ a \in Nat /\ t \in Nat
        /\ Outcome(v, x, a, t) /\ Settle(mode.event, v)
        /\ away' = x /\ answers' = a /\ travel' = t
  BY CycleOutcome
<1>2. mode.event \in Events
  BY DEF Promises, TypeOK, Cycle
<1>3. attempted' \in [Events -> Contexts \cup {"none"}]
  BY DEF Promises, TypeOK, Cycle
<1>4. QED
  BY <1>1, <1>2, <1>3, SettleGood DEF Promises

LEMMA StutterPromises ==
  ASSUME Promises, UNCHANGED vars PROVE Promises'
<1>1. TypeOK' /\ BeliefSupportsDecision'
  BY DEF Promises, TypeOK, BeliefSupportsDecision, vars
<1>2. (mode'.name = "verify" => OnTheWay(verif')) /\ Grounded(verif, answers, travel)'
  BY DEF Promises, vars, Grounded
<1>3. QED
  BY <1>1, <1>2 DEF Promises

\* Every verification keeps its promises in every behaviour.
LEMMA AlwaysPromises == Spec => []Promises
<1>1. Promises /\ [Next]_vars => Promises'
  BY BeginPromises, CyclePromises, ResetPromises, StutterPromises DEF Next
<1>2. QED
  BY <1>1, InitPromises, PTL DEF Spec

--------------------------------------------------------------------------------
(* The theorems *)

\* The variables keep their types, the limits of the counters among them
\* (RelationVerificationController, EpisodeLinkAnchorRegistry, RelationFilter).
THEOREM TypesAreCorrect == Spec => []TypeOK
<1>1. Promises => TypeOK
  BY DEF Promises
<1>2. QED
  BY <1>1, AlwaysPromises, PTL

\* However the arm moves and whatever the object and the filter say, a verdict of
\* _stable_decision rests on responses to the commands of this verification only.
THEOREM VerdictsRestOnResponses == Spec => []VerdictRestsOnResponses
<1>1. Promises => VerdictRestsOnResponses
  BY DEF Promises, Grounded, VerdictRestsOnResponses
<1>2. QED
  BY <1>1, AlwaysPromises, PTL

\* commit_relation_confirmation never receives a posterior that speaks against the
\* decision that comes with it.
THEOREM BeliefsSupportDecisions == Spec => []BeliefSupportsDecision
<1>1. Promises => BeliefSupportsDecision
  BY DEF Promises
<1>2. QED
  BY <1>1, AlwaysPromises, PTL

\* update reports COMPLETE only when the arm is back at the entry, whatever path it took.
THEOREM ArmsAreBroughtBack == Spec => ArmIsBroughtBack
<1>1. ASSUME Promises, [Next]_vars, mode.name = "verify", verif'.phase = "complete"
      PROVE  away' <= Tolerance \/ UNCHANGED vars
  <2>1. CASE Begin
    BY <1>1, <2>1 DEF Begin
  <2>2. CASE Cycle
    <3>1. PICK x, a, t, v :
            /\ x \in Nat /\ a \in Nat /\ t \in Nat
            /\ Outcome(v, x, a, t) /\ Settle(mode.event, v)
            /\ away' = x /\ answers' = a /\ travel' = t
      BY <1>1, <2>2, CycleOutcome
    <3>2. v.phase = "complete"
      BY <1>1, <3>1 DEF Settle
    <3>3. QED
      BY <3>1, <3>2 DEF Outcome
  <2>3. CASE Reset
    BY <1>1, <2>3 DEF Reset, NoRuntime
  <2>4. QED
    BY <1>1, <2>1, <2>2, <2>3 DEF Next
<1>2. Promises /\ [Next]_vars =>
        [mode.name = "verify" /\ verif'.phase = "complete" => away' <= Tolerance]_vars
  BY <1>1
<1>3. QED
  BY <1>2, AlwaysPromises, PTL DEF Spec, ArmIsBroughtBack
================================================================================
